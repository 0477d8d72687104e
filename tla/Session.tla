------------------------------ MODULE Session ------------------------------
(* Sessions of the editor in one directory: how start-up chooses a version  *)
(* (the digit in .ek1, .ec1), finds the key stroke file of a session that  *)
(* crashed, moves it aside and replays it, what getout, fatal and the ways *)
(* to exit leave behind, and what a kill does between any two of the steps. *)
(* Built as the Makefile does, with FILELOCKING and SAVETMPFILES.          *)
EXTENDS Integers, FiniteSets

CONSTANTS
  Proc,           \* processes, each of which may be one session after another
  MaxVrsn,        \* '9' in the code
  NInode,         \* key stroke files there are at a time
  MaxStroke,      \* bounds the key strokes
  MaxStarts,      \* bounds the sessions
  none, left,     \* no file; a file of a process that is gone
  Overlap,        \* two sessions may start at the same time
  KillRecovering, \* kill -9, or a system crash, may hit a recovery
  StayRecovered   \* a session may go on from a recovery to a crash or an abort

ASSUME ConstantsAssumption ==
  /\ none \notin Proc /\ left \notin Proc /\ none # left
  /\ MaxVrsn \in Nat \ {0} /\ MaxStroke \in Nat /\ MaxStarts \in Nat
  /\ NInode \in Nat
  /\ Overlap \in BOOLEAN /\ KillRecovering \in BOOLEAN /\ StayRecovered \in BOOLEAN
  /\ \A S \in SUBSET (1 .. NInode) :       \* fopen finds one
       Cardinality(S) <= 2 * MaxVrsn + Cardinality(Proc) => \E i \in 1 .. NInode : i \notin S

Vrsn   == 1 .. MaxVrsn
Inode  == 1 .. NInode
Stroke == 1 .. MaxStroke

VARIABLES
  ek,       \* ek[v]: the inode named .ek and v (keytmp), or 0
  bek,      \* bek[v]: the inode of bkeytmp, or 0
  ec,       \* ec[v]: whose change file has the name la_cfile
  rec,      \* rec[i]: the key strokes in a key stroke file
  holder,   \* holder[i]: who has it locked
  pc,       \* pc[p]: the step a session is at; "off" before and after
  vrsn,     \* evrsn
  key,      \* keyfile: the inode it has open, or 0
  script,   \* what is in replay_fp and, after the replay, was replayed of it
  crashed,  \* crashed
  chose,    \* chosereplay, and replaying until the replay is over
  settled,  \* key strokes that were saved, thrown away or declined
  count     \* key strokes typed, sessions started

vars == << ek, bek, ec, rec, holder, pc, vrsn, key, script, crashed, chose, settled, count >>

(* Steps of start-up before and after keysmoved, and a session. *)
Early == {"pick", "scan", "ask", "move"}
Late  == {"create", "lock", "load", "open", "state"}
Live  == {"replay", "edit"}

TypeOK ==
  /\ ek \in [Vrsn -> Inode \cup {0}] /\ bek \in [Vrsn -> Inode \cup {0}]
  /\ ec \in [Vrsn -> Proc \cup {none, left}]
  /\ rec \in [Inode -> SUBSET Stroke]
  /\ holder \in [Inode -> Proc \cup {none}]
  /\ pc \in [Proc -> {"off"} \cup Early \cup Late \cup Live]
  /\ vrsn \in [Proc -> Vrsn]
  /\ key \in [Proc -> Inode \cup {0}]
  /\ script \in [Proc -> SUBSET Stroke]
  /\ crashed \in [Proc -> BOOLEAN] /\ chose \in [Proc -> BOOLEAN]
  /\ settled \in SUBSET Stroke
  /\ count \in [strokes : 0 .. MaxStroke, starts : 0 .. MaxStarts]

Init ==
  /\ ek = [v \in Vrsn |-> 0] /\ bek = [v \in Vrsn |-> 0] /\ ec = [v \in Vrsn |-> none]
  /\ rec = [i \in Inode |-> {}] /\ holder = [i \in Inode |-> none]
  /\ pc = [p \in Proc |-> "off"] /\ vrsn = [p \in Proc |-> 1] /\ key = [p \in Proc |-> 0]
  /\ script = [p \in Proc |-> {}]
  /\ crashed = [p \in Proc |-> FALSE] /\ chose = [p \in Proc |-> FALSE]
  /\ settled = {} /\ count = [strokes |-> 0, starts |-> 0]

files   == << ek, bek, ec, rec, holder >>
session == << vrsn, key, script, crashed, chose >>

Go(p, step) == pc' = [pc EXCEPT ![p] = step]

-----------------------------------------------------------------------------
(* main1 and startup. *)

Starting(p) == pc[p] \in Early \cup Late

Begin(p) ==
  /\ pc[p] = "off" /\ count.starts < MaxStarts
  /\ Overlap \/ \A q \in Proc : ~ Starting(q)
  /\ Go(p, "pick")
  /\ crashed' = [crashed EXCEPT ![p] = FALSE] /\ chose' = [chose EXCEPT ![p] = FALSE]
  /\ count' = [count EXCEPT !.starts = @ + 1]
  /\ UNCHANGED << files, vrsn, key, script, settled >>

(* Mutant of PickVersion: the loop may run on behind the last version. *)
PickPastLast(p) ==
  /\ pc[p] = "pick"
  /\ \E v \in 1 .. MaxVrsn + 1 :
       /\ v \in Vrsn => ec[v] = none
       /\ \A u \in 1 .. v - 1 : ec[u] # none
       /\ vrsn' = [vrsn EXCEPT ![p] = v]
  /\ Go(p, "scan")
  /\ UNCHANGED << files, key, script, crashed, chose, settled, count >>

(* The first version for which there is no change file. *)
PickVersion(p) ==
  /\ pc[p] = "pick"
  /\ \E v \in Vrsn :
       /\ ec[v] = none /\ \A u \in 1 .. v - 1 : ec[u] # none
       /\ vrsn' = [vrsn EXCEPT ![p] = v]
  /\ Go(p, "scan")
  /\ UNCHANGED << files, key, script, crashed, chose, settled, count >>

(* "No free temp file names left". *)
NoVersion(p) ==
  /\ pc[p] = "pick" /\ \A v \in Vrsn : ec[v] # none
  /\ Go(p, "off")
  /\ UNCHANGED << files, session, settled, count >>

(* Mutant of Unlocked: lockf is not asked. *)
Exists(v) == ek[v] # 0

(* A key stroke file that nobody has locked is one of a session that crashed *)
(* or was aborted.  The lock that the test has got is let go of by close.  *)
Unlocked(v) == ek[v] # 0 /\ holder[ek[v]] = none

Scan(p) ==
  /\ pc[p] = "scan"
  /\ \/ \E v \in Vrsn :
          /\ Unlocked(v)
          /\ vrsn' = [vrsn EXCEPT ![p] = v]
          /\ crashed' = [crashed EXCEPT ![p] = TRUE]
          /\ Go(p, "ask")
     \/ /\ \A v \in Vrsn : ~ Unlocked(v)
        /\ Go(p, "move") /\ UNCHANGED << vrsn, crashed >>
  /\ UNCHANGED << files, key, script, chose, settled, count >>

(* dorecov: 1 and 2 replay, 3 ignores the crash, 4 returns to the shell. *)
AnswerReplay(p) ==
  /\ pc[p] = "ask" /\ Go(p, "move")
  /\ chose' = [chose EXCEPT ![p] = TRUE]
  /\ UNCHANGED << files, vrsn, key, script, crashed, settled, count >>

AnswerIgnore(p) ==
  /\ pc[p] = "ask" /\ Go(p, "move")
  /\ settled' = settled \cup (IF ek[vrsn[p]] = 0 THEN {} ELSE rec[ek[vrsn[p]]])
  /\ UNCHANGED << files, session, count >>

AnswerReturn(p) ==
  /\ pc[p] = "ask" /\ Go(p, "off")
  /\ UNCHANGED << files, session, settled, count >>

(* mv (keytmp, bkeytmp), which fails when there is no keytmp. *)
MoveKeys(p) ==
  LET v == vrsn[p] IN
  /\ pc[p] = "move" /\ Go(p, "create")
  /\ IF ek[v] = 0 THEN UNCHANGED << ek, bek >>
                  ELSE bek' = [bek EXCEPT ![v] = ek[v]] /\ ek' = [ek EXCEPT ![v] = 0]
  /\ UNCHANGED << ec, rec, holder, session, settled, count >>

(* fopen (keytmp, "w+") truncates what another session may have created. *)
InUse(i) == \/ \E v \in Vrsn : i \in {ek[v], bek[v]}
            \/ \E p \in Proc : key[p] = i

CreateKeys(p) ==
  LET v == vrsn[p] IN
  /\ pc[p] = "create" /\ Go(p, "lock")
  /\ \E i \in Inode :
       /\ IF ek[v] = 0 THEN ~ InUse(i) /\ \A j \in 1 .. i - 1 : InUse(j) ELSE i = ek[v]
       /\ ek' = [ek EXCEPT ![v] = i]
       /\ rec' = [rec EXCEPT ![i] = {}]
       /\ holder' = IF ek[v] = 0 THEN [holder EXCEPT ![i] = none] ELSE holder
       /\ key' = [key EXCEPT ![p] = i]
  /\ UNCHANGED << bek, ec, vrsn, script, crashed, chose, settled, count >>

LockKeys(p) ==
  /\ pc[p] = "lock" /\ holder[key[p]] = none
  /\ holder' = [holder EXCEPT ![key[p]] = p]
  /\ Go(p, "load")
  /\ UNCHANGED << ek, bek, ec, rec, session, settled, count >>

(* The replay file is opened: bkeytmp, if the user chose to replay. *)
LoadScript(p) ==
  /\ pc[p] = "load" /\ Go(p, "open")
  /\ chose[p] => bek[vrsn[p]] # 0
  /\ script' = [script EXCEPT ![p] = IF chose[p] THEN rec[bek[vrsn[p]]] ELSE {}]
  /\ UNCHANGED << files, vrsn, key, crashed, chose, settled, count >>

(* la_ffopen creates the change file when the first file is opened. *)
OpenChanges(p) ==
  /\ pc[p] = "open" /\ Go(p, "state")
  /\ ec' = [ec EXCEPT ![vrsn[p]] = p]
  /\ UNCHANGED << ek, bek, rec, holder, session, settled, count >>

Ready(p) ==
  /\ pc[p] = "state" /\ Go(p, IF chose[p] THEN "replay" ELSE "edit")
  /\ UNCHANGED << files, session, settled, count >>

-----------------------------------------------------------------------------
(* The ways out. *)

(* What the system does when a process is gone: its locks are. *)
Dead(p, h, c) ==
  /\ holder' = [i \in Inode |-> IF h[i] = p THEN none ELSE h[i]]
  /\ ec' = [v \in Vrsn |-> IF c[v] = p THEN left ELSE c[v]]
  /\ Go(p, "off")
  /\ key' = [key EXCEPT ![p] = 0] /\ script' = [script EXCEPT ![p] = {}]
  /\ UNCHANGED << vrsn, crashed, chose, count >>

mvBack(v) == IF bek[v] = 0 THEN UNCHANGED << ek, bek >>
             ELSE ek' = [ek EXCEPT ![v] = bek[v]] /\ bek' = [bek EXCEPT ![v] = 0]

(* getout (YES): something fails after keysmoved.  The change file goes if   *)
(* this was no recovery, and bkeytmp becomes keytmp again.                 *)
getout(p) ==
  LET v == vrsn[p] IN
  /\ pc[p] \in Late
  /\ mvBack(v)
  /\ Dead(p, holder, IF crashed[p] THEN ec ELSE [ec EXCEPT ![v] = none])
  /\ UNCHANGED << rec, settled >>

(* getstate refuses the state file, after it has unlinked keytmp. *)
BadState(p) ==
  LET v == vrsn[p] IN
  /\ pc[p] = "state" /\ ~ chose[p]
  /\ ek' = [ek EXCEPT ![v] = bek[v]] /\ bek' = [bek EXCEPT ![v] = 0]
  /\ Dead(p, holder, IF crashed[p] THEN ec ELSE [ec EXCEPT ![v] = none])
  /\ UNCHANGED << rec, settled >>

(* recovermsg_e20: "you should exit before you continue editing". *)
MayCrash(p) == (pc[p] = "edit" /\ script[p] # {}) => StayRecovered

(* Mutant of fatal: the record that was being replayed stays aside. *)
FatalForgets(p) ==
  LET v == vrsn[p] IN
  /\ pc[p] \notin {"off", "pick"} /\ MayCrash(p)
  /\ Dead(p, holder, IF ec[v] = none THEN [ec EXCEPT ![v] = left] ELSE ec)
  /\ UNCHANGED << ek, bek, rec, settled >>

(* fatal: a signal, a bug, the disk is full, exit dump.  dofatal puts the    *)
(* record back that was being replayed, and leaves a change file behind.   *)
fatal(p) ==
  LET v == vrsn[p] IN
  /\ pc[p] \notin {"off", "pick"} /\ MayCrash(p)
  /\ IF chose[p] /\ pc[p] \notin Early THEN mvBack(v) ELSE UNCHANGED << ek, bek >>
  /\ Dead(p, holder, IF ec[v] = none THEN [ec EXCEPT ![v] = left] ELSE ec)
  /\ UNCHANGED << rec, settled >>

Kill(p) ==
  /\ pc[p] # "off" /\ MayCrash(p)
  /\ KillRecovering \/ ~ crashed[p] \/ pc[p] \in Early \cup {"edit"}
  /\ Dead(p, holder, ec)
  /\ UNCHANGED << ek, bek, rec, settled >>

(* cleanup (YES, YES), after exit, exit nosave and exit quit. *)
Exit(p) ==
  LET v == vrsn[p] IN
  /\ pc[p] = "edit"
  /\ ek' = [ek EXCEPT ![v] = 0] /\ bek' = [bek EXCEPT ![v] = 0]
  /\ settled' = settled \cup rec[key[p]] \cup script[p]
  /\ Dead(p, holder, [ec EXCEPT ![v] = none])
  /\ UNCHANGED rec

(* cleanup (YES, NO): the key strokes can be replayed. *)
ExitAbort(p) ==
  /\ pc[p] = "edit" /\ MayCrash(p)
  /\ Dead(p, holder, [ec EXCEPT ![vrsn[p]] = none])
  /\ UNCHANGED << ek, bek, rec, settled >>

-----------------------------------------------------------------------------
(* A session. *)

(* mGetkey: a key is recorded unless it is one of a replay. *)
Type(p) ==
  /\ pc[p] = "edit" /\ count.strokes < MaxStroke
  /\ rec' = [rec EXCEPT ![key[p]] = @ \cup {count.strokes + 1}]
  /\ count' = [count EXCEPT !.strokes = @ + 1]
  /\ UNCHANGED << ek, bek, ec, holder, pc, session, settled >>

(* getReplayChar: the replay comes to its end, or to where the user stops it *)
(* and what is left of it is not wanted.                                   *)
ReplayEnds(p) ==
  /\ pc[p] = "replay" /\ Go(p, "edit")
  /\ \E last \in 0 .. MaxStroke :
       LET done == {s \in script[p] : s <= last} IN
       /\ script' = [script EXCEPT ![p] = done]
       /\ settled' = settled \cup (script[p] \ done)
  /\ chose' = [chose EXCEPT ![p] = FALSE]
  /\ UNCHANGED << files, vrsn, key, crashed, count >>

Next == \E p \in Proc :
  \/ Begin(p) \/ PickVersion(p) \/ NoVersion(p) \/ Scan(p)
  \/ AnswerReplay(p) \/ AnswerIgnore(p) \/ AnswerReturn(p)
  \/ MoveKeys(p) \/ CreateKeys(p) \/ LockKeys(p) \/ LoadScript(p)
  \/ OpenChanges(p) \/ Ready(p)
  \/ getout(p) \/ BadState(p) \/ fatal(p) \/ Kill(p) \/ Exit(p) \/ ExitAbort(p)
  \/ Type(p) \/ ReplayEnds(p)

Spec == Init /\ [][Next]_vars

-----------------------------------------------------------------------------
(* Users may run several editors in a directory (the comment in startup):    *)
(* the key stroke file and the change file that have a session's names are *)
(* its own.                                                                *)
OwnFiles ==
  \A p \in Proc : pc[p] \in Live => /\ ek[vrsn[p]] = key[p] /\ key[p] # 0
                                    /\ ec[vrsn[p]] = p
                                    /\ holder[key[p]] = p

(* README.md: the key stroke file of an editor that crashes "is preserved,   *)
(* and may be used to restore the work".  A key stroke that was typed and  *)
(* neither saved nor thrown away is in a file that the next start will     *)
(* find, or that a session has moved aside which has yet to replay it, or  *)
(* has replayed it and will save it.                                       *)
StrokesOffered ==
  \A s \in 1 .. count.strokes : s \notin settled =>
    \E v \in Vrsn :
      \/ ek[v] # 0 /\ s \in rec[ek[v]]
      \/ /\ bek[v] # 0 /\ s \in rec[bek[v]]
         /\ \E p \in Proc : /\ vrsn[p] = v /\ crashed[p]
                            /\ pc[p] \in Late \/ s \in script[p]
=============================================================================

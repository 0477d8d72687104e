------------------------------ MODULE LineFile ------------------------------
(***************************************************************************)
(* What the LA package promises its callers: a file is a sequence of       *)
(* lines, a stream is a place between two of them, an edit takes effect at *)
(* once or not at all, and every stream stays at the text it was at.  There *)
(* are no fsds, no chains and no files on disk in this module; the module  *)
(* LA implements it.                                                       *)
(***************************************************************************)
EXTENDS Integers, Sequences

CONSTANTS
  File,      \* the files
  Stream,    \* the streams
  NoFile,    \* the file of a stream that is not open
  None,      \* no stream: the lines deleted go nowhere
  DiskText,  \* DiskText[f]: the lines of file f on disk
  Line       \* what a line may be

VARIABLES
  text,   \* text[f]: the lines of file f
  las,    \* las[s]: where stream s is, and how many lines it has reserved
  req,    \* the request in progress, or None
  ret     \* how the last one ended

vars == <<text, las, req, ret>>

Requests ==
  [op : {"open", "insert", "blank", "delete", "copy", "replace", "collect"},
   s : Stream, d : Stream \cup {None}, n : Nat, f : File \cup {NoFile}, new : Seq(Line)]

Closed == [la_file |-> NoFile, la_lpos |-> 0, la_rlines |-> 0, la_stay |-> FALSE]

Open(s) == las[s].la_file # NoFile

Init ==
  /\ text = DiskText
  /\ las = [s \in Stream |-> Closed]
  /\ req = None
  /\ ret = "ok"

-----------------------------------------------------------------------------
(* The two elementary edits, on a state st = [text, las]. *)

(* An insertion at line `at`: a stream behind it moves along, and so does  *)
(* one that is there, unless it is to stay.  Reserved lines that are torn  *)
(* apart, or pushed away from their stream, are no longer reserved.        *)
AfterInsert(x, at, n) ==
  IF x.la_lpos > at \/ (x.la_lpos = at /\ ~ x.la_stay)
    THEN [x EXCEPT !.la_lpos = @ + n]
    ELSE [x EXCEPT !.la_rlines = IF x.la_lpos + @ > at THEN 0 ELSE @]

(* A deletion of n lines at `at`: a stream inside ends up there. *)
AfterDelete(x, at, n) ==
  CASE x.la_lpos >= at + n -> [x EXCEPT !.la_lpos = @ - n]
    [] x.la_lpos < at /\ x.la_lpos + x.la_rlines <= at -> x
    [] OTHER -> [x EXCEPT !.la_lpos = IF @ > at THEN at ELSE @, !.la_rlines = 0]

OnFile(st, f, After(_)) ==
  [s \in Stream |-> IF st.las[s].la_file = f THEN After(st.las[s]) ELSE st.las[s]]

Ins(st, s, new) ==
  IF new = << >> THEN st ELSE
  LET f  == st.las[s].la_file
      at == st.las[s].la_lpos
  IN  [text |-> [st.text EXCEPT ![f] = SubSeq(@, 1, at) \o new \o SubSeq(@, at + 1, Len(@))],
       las  |-> OnFile(st, f, LAMBDA x : AfterInsert(x, at, Len(new)))]

(* The n lines a stream is at, or as many as there are. *)
LinesAt(st, s, n) ==
  LET t == st.text[st.las[s].la_file]
      e == st.las[s].la_lpos + n
  IN  SubSeq(t, st.las[s].la_lpos + 1, IF e > Len(t) THEN Len(t) ELSE e)

Del(st, s, n) ==
  LET f  == st.las[s].la_file
      at == st.las[s].la_lpos
      k  == Len(LinesAt(st, s, n))
  IN  IF k = 0 THEN st ELSE
      [text |-> [st.text EXCEPT ![f] = SubSeq(@, 1, at) \o SubSeq(@, at + k + 1, Len(@))],
       las  |-> OnFile(st, f, LAMBDA x : AfterDelete(x, at, k))]

(* The lines deleted go to stream d, if there is one. *)
Move(st, s, n, d) ==
  IF d = None THEN Del(st, s, n) ELSE Ins(Del(st, s, n), d, LinesAt(st, s, n))

-----------------------------------------------------------------------------
Now == [text |-> text, las |-> las]

(* What the request asks for. *)
Granted ==
  CASE req.op = "open"    -> [Now EXCEPT !.las[req.s] = [Closed EXCEPT !.la_file = req.f]]
    [] req.op = "delete"  -> Move(Now, req.s, req.n, req.d)
    [] req.op = "copy"    -> Ins(Now, req.d, LinesAt(Now, req.s, req.n))
    [] req.op = "replace" -> Move(Ins(Now, req.s, req.new), req.s, req.n, req.d)
    [] req.op = "collect" -> Ins(Move(Now, req.s, req.n, req.d), req.s, req.new)
    [] OTHER              -> Ins(Now, req.s, req.new)

(* A caller asks for something; nothing has happened yet. *)
Ask ==
  /\ req = None /\ req' \in Requests /\ ret' = "ok"
  /\ IF req'.op = "open"
       THEN ~ Open(req'.s) /\ req'.f # NoFile /\ \A t \in Stream : las[t].la_file # req'.f
       ELSE Open(req'.s) /\ (req'.d # None => Open(req'.d))
  /\ UNCHANGED <<text, las>>

(* It takes effect at once, all of it. *)
Grant ==
  /\ req # None /\ req' = None /\ ret' = "ok"
  /\ LET st == Granted IN las' = st.las /\ text' = st.text

(* It fails: the files are as they were, and all it may have cost is a     *)
(* reservation.                                                            *)
GiveUp ==
  /\ req # None /\ req' = None /\ ret' = "err"
  /\ UNCHANGED text
  /\ \A s \in Stream : las'[s] \in {las[s], [las[s] EXCEPT !.la_rlines = 0]}
  /\ las' = [s \in Stream |-> las'[s]]

(* Between requests: cloning, closing, moving streams.  With its last      *)
(* stream a file is closed, and what was not written to disk is gone.      *)
Clone(t, s) ==
  /\ Open(t) /\ ~ Open(s)
  /\ las' = [las EXCEPT ![s] = [las[t] EXCEPT !.la_stay = FALSE]]
  /\ UNCHANGED text

Close(s) ==
  /\ Open(s)
  /\ las' = [las EXCEPT ![s] = Closed]
  /\ text' = [f \in File |-> IF \E t \in Stream \ {s} : las[t].la_file = f
                               THEN text[f] ELSE DiskText[f]]

(* Seeking, aligning with a stream of the same file, reserving lines. *)
GoTo(s) ==
  /\ las' = [las EXCEPT ![s].la_lpos = las'[s].la_lpos]
  /\ las'[s].la_lpos \in 0 .. Len(text[las[s].la_file])
Stay(s)    == las' = [las EXCEPT ![s].la_stay = ~ @]
Reserve(s) == las'[s].la_rlines \in Nat /\ las' = [las EXCEPT ![s].la_rlines = las'[s].la_rlines]

Between ==
  /\ req = None /\ UNCHANGED <<req, ret>>
  /\ \E s \in Stream :
       \/ \E t \in Stream : Clone(t, s)
       \/ Close(s)
       \/ Open(s) /\ (GoTo(s) \/ Stay(s) \/ Reserve(s)) /\ UNCHANGED text

Next == Ask \/ Grant \/ GiveUp \/ Between

Spec == Init /\ [][Next]_vars
=============================================================================

--------------------------------- MODULE LA ---------------------------------
(***************************************************************************)
(* The LA package (la1/): files as sequences of lines, edited in memory.   *)
(*                                                                         *)
(* A file is a chain of fsds; an fsd says where some lines are: in which   *)
(* file of the system, from which line on, how many.  Nothing is ever      *)
(* written to the file that is edited: new lines go onto the end of one    *)
(* change file, and the fsds that describe them into the chain.  A stream  *)
(* is a place in a chain; each operation that breaks or links fsds has to  *)
(* set right every other stream there.                                     *)
(*                                                                         *)
(* The package has no threads.  An operation is not atomic, though: each   *)
(* fsd it makes can fail for lack of memory, the write to the change file  *)
(* can fail, and operations call each other.  `call` is the operation in   *)
(* progress; its field todo lists the steps it has yet to take.            *)
(*                                                                         *)
(* A place in a file is a line: the offset within the line (la_lbyte) and  *)
(* what is counted in bytes are left out, and so are line lengths.         *)
(***************************************************************************)
EXTENDS Integers, Sequences, SequencesExt

CONSTANTS
  File,          \* the files that are edited
  Chg,           \* the change file, la_chglas->la_file
  Stream,        \* every La_stream the callers have
  Blas,          \* the stream la_blank keeps on the change file
  NoFile, None,  \* no file; no stream
  Blank,         \* an empty line
  Line,          \* what a line may be
  DiskText,      \* DiskText[f]: the lines of file f on disk
  NFsd,          \* bound: how many fsds there is memory for
  LA_FSDLMAX,    \* the most lines an fsd describes
  LA_MAXNLINES,  \* the most lines a file may have
  MaxEdits,      \* bound: how many edits callers make; they reserve lines and
                 \* tell streams to stay only while there is one to come
  MaxChg,        \* bound: callers insert no more once chg has that many lines
  NewText,       \* bound: what callers insert at once
  Counts,        \* bound: how many lines callers delete, copy or blank
  Reserves,      \* bound: how many lines callers reserve
  Stays,         \* bound: do callers tell streams to stay, and not to?
  SameFsdCopy,   \* do callers copy when the target breaks the source's fsd?
  CloseShared    \* do callers close a file whose lines are in other files,
                 \* or that has none but lines of others?

ASSUME LimitAssumption == /\ LA_FSDLMAX \in Nat \ {0} /\ LA_MAXNLINES \in Nat
                          /\ LA_FSDLMAX <= LA_MAXNLINES
                          /\ NFsd \in Nat /\ MaxChg \in Nat /\ MaxEdits \in Nat
ASSUME NameAssumption ==
  /\ Chg \notin File /\ NoFile \notin File \cup {Chg}
  /\ Blas \notin Stream /\ None \notin Stream \cup {Blas}
ASSUME TextAssumption ==
  /\ Blank \in Line /\ DiskText \in [File -> Seq(Line)] /\ NewText \subseteq Seq(Line) \ {<< >>}
  /\ Counts \subseteq Nat \ {0} /\ Reserves \subseteq Nat /\ Stays \subseteq BOOLEAN

VARIABLES
  fsd,    \* the fsds
  chain,  \* chain[f]: la_ffsd .. the last fsd but the empty one, la_lfsd
  laf,    \* the La_files
  las,    \* the La_streams
  chg,    \* the lines of the change file
  coll,   \* the state of a collection (la_lcollect)
  call    \* the operation in progress

vars == <<fsd, chain, laf, las, chg, coll, call>>

-----------------------------------------------------------------------------
Fsd     == 1 .. NFsd
Eof    == 0      \* the empty fsd that ends every chain, la_lfsd
Files   == File \cup {Chg}
Streams == Stream \cup {Blas}

Fsds    == [fsdfile : Files \cup {NoFile}, fsdpos : Nat, fsdnlines : Nat]
LaFiles == [la_refs : Nat, la_fsrefs : Nat, la_nlines : Nat, la_mode : BOOLEAN]
LaStreams == [la_file : Files \cup {NoFile}, la_cfsd : Fsd \cup {Eof},
              la_fsline : Nat, la_lpos : Nat, la_rlines : Nat, la_stay : BOOLEAN]

FreeFsd == [fsdfile |-> NoFile, fsdpos |-> 0, fsdnlines |-> 0]
NewFile == [la_refs |-> 0, la_fsrefs |-> 0, la_nlines |-> 0, la_mode |-> FALSE]
Closed  == [la_file |-> NoFile, la_cfsd |-> Eof, la_fsline |-> 0, la_lpos |-> 0,
            la_rlines |-> 0, la_stay |-> FALSE]

Open(s)   == las[s].la_file # NoFile
IsOpen(f) == laf[f].la_refs > 0

(* The memory: any fsd will do, the lowest is taken. *)
Free  == {d \in Fsd : fsd[d].fsdfile = NoFile}
Fresh == CHOOSE d \in Free : \A e \in Free : d <= e

(* What an fsd describes, and what a file consists of. *)
Store(f) == IF f = Chg THEN chg ELSE DiskText[f]
Lines(d) == SubSeq(Store(fsd[d].fsdfile), fsd[d].fsdpos + 1, fsd[d].fsdpos + fsd[d].fsdnlines)
Text(f)  ==
  LET t[i \in 0 .. Len(chain[f])] == IF i = 0 THEN << >> ELSE t[i - 1] \o Lines(chain[f][i])
  IN  t[Len(chain[f])]

Count(ds) ==
  LET c[i \in 0 .. Len(ds)] == IF i = 0 THEN 0 ELSE c[i - 1] + fsd[ds[i]].fsdnlines
  IN  c[Len(ds)]

(* The place of fsd d in a chain, and the lines before it. *)
At(ds, d)     == IF d = Eof THEN Len(ds) + 1 ELSE CHOOSE i \in DOMAIN ds : ds[i] = d
Before(ds, d) == Count(SubSeq(ds, 1, At(ds, d) - 1))
Forw(ds, d)   == IF At(ds, d) < Len(ds) THEN ds[At(ds, d) + 1] ELSE Eof
First(ds)     == IF ds = << >> THEN Eof ELSE Head(ds)

Lesser(a, b) == IF a < b THEN a ELSE b

-----------------------------------------------------------------------------
(* Calls. *)

(* What callers see: the text of each file and the places of the streams. *)
Seen(s) == [la_file |-> las[s].la_file, la_lpos |-> las[s].la_lpos,
            la_rlines |-> las[s].la_rlines, la_stay |-> las[s].la_stay]
Texts  == [f \in File |-> IF IsOpen(f) THEN Text(f) ELSE DiskText[f]]
Places == [s \in Stream |-> Seen(s)]

Ops   == {"none", "open", "insert", "delete", "copy", "replace", "collect", "blank"}
Steps == {"parse", "openret", "zp", "zd", "write", "room", "link", "del", "break",
          "bend", "unlink", "place", "chead", "ctail", "walk", "linkd", "bprep",
          "chunk", "back"}

(* What a caller asks for: lines of stream s, or at it; n of them, or new. *)
Asks == [op : Ops, s : Stream, d : Stream \cup {None}, n : Nat,
         f : File \cup {NoFile}, new : Seq(Line)]

Ask(op, s, d, n, new) ==
  [op |-> op, s |-> s, d |-> d, n |-> n, f |-> NoFile, new |-> new]

Calls ==
  [op : Ops, todo : Seq(Steps),
   p : Streams \cup {None},      \* plas; the source, slas, of a copy
   d : Stream \cup {None},       \* dlas
   n : Nat,                      \* how many lines to delete or copy
   own : Files \cup {NoFile}, pos : Nat, left : Nat,  \* what is left to parse or copy
   new : Seq(Fsd),               \* the chain made so far, still to be linked in
   tail : Seq(Fsd),              \* the last fsd of a copy
   cut : Seq(Fsd),               \* the chain that has been unlinked
   cfsd : Fsd \cup {Eof},       \* the fsd after the second break; where a copy is
   sure : BOOLEAN,               \* are the fsds for the second break there already?
   text : Seq(Line),             \* what is to be inserted
   blank : Nat, cnt : Nat,       \* lines la_blank has yet to insert; lines inserted
   bad : BOOLEAN,                \* is an operation being undone?
   ret : {"ok", "err", "abort"}, \* how the last operation ended
   edits : Nat,                  \* how many edits there have been
   was : [text : [File -> Seq(Line)], las : [Stream -> [la_file : Files \cup {NoFile},
            la_lpos : Nat, la_rlines : Nat, la_stay : BOOLEAN]],
          ask : Asks] \cup {None}]
                                 \* what callers saw when it began, and asked for

NoCall ==
  [op |-> "none", todo |-> << >>, p |-> None, d |-> None, n |-> 0, own |-> NoFile,
   pos |-> 0, left |-> 0, new |-> << >>, tail |-> << >>, cut |-> << >>, cfsd |-> Eof,
   sure |-> FALSE, text |-> << >>, blank |-> 0, cnt |-> 0, bad |-> FALSE, ret |-> "ok",
   edits |-> 0, was |-> None]

Ended(r) == [NoCall EXCEPT !.ret = r, !.edits = call.edits]

Idle  == call.op = "none" /\ call.ret # "abort"

Request(ask, todo) ==
  [Ended("ok") EXCEPT !.op = ask.op, !.todo = todo, !.p = ask.s, !.d = ask.d, !.n = ask.n,
                      !.was = [text |-> Texts, las |-> Places, ask |-> ask],
                      !.edits = IF ask.op = "open" THEN @ ELSE @ + 1]

MayEdit == Idle /\ call.edits < MaxEdits

Do(step) == call.todo # << >> /\ Head(call.todo) = step
Done     == [call EXCEPT !.todo = Tail(@)]

Init ==
  /\ fsd = [d \in Fsd |-> FreeFsd]
  /\ chain = [f \in Files |-> << >>]
  /\ laf = [f \in Files |-> IF f = Chg THEN [NewFile EXCEPT !.la_refs = 2] ELSE NewFile]
  /\ las = [s \in Streams |->
              IF s = Blas THEN [Closed EXCEPT !.la_file = Chg, !.la_stay = TRUE] ELSE Closed]
  /\ chg = << >>
  /\ coll = [on |-> FALSE, chgpos |-> 0, nxchgpos |-> 0]
  /\ call = NoCall

Return ==
  /\ call.op \notin {"none", "collect"} /\ call.todo = << >>
  /\ call' = Ended(IF call.bad THEN "err" ELSE "ok")
  /\ UNCHANGED <<fsd, chain, laf, las, chg, coll>>

Owned(f, ds) == {i \in DOMAIN ds : fsd[ds[i]].fsdfile = f}

(* la_freefsd *)
FreeChain(ds) ==
  /\ fsd' = [d \in Fsd |-> IF \E i \in DOMAIN ds : ds[i] = d THEN FreeFsd ELSE fsd[d]]
  /\ laf' = [f \in Files |-> [laf[f] EXCEPT !.la_fsrefs = @ - Cardinality(Owned(f, ds))]]

(* An operation fails.  What it made is freed; what la_lreplace or la_blank *)
(* has already linked in is deleted again, which cannot fail: both ends of  *)
(* it are ends of fsds.                                                    *)
Undo == << "back", "break", "bend", "unlink", "place" >>

(* Mutant of Fail: what it made is forgotten. *)
FailLeaks ==
  /\ call' = IF call.cnt = 0 THEN Ended("err")
             ELSE [Ended("ok") EXCEPT !.op = call.op, !.todo = Undo, !.n = call.cnt,
                     !.p = IF call.op = "blank" THEN call.d ELSE call.p,
                     !.cnt = call.cnt, !.bad = TRUE, !.was = call.was]
  /\ UNCHANGED <<fsd, laf, chain, las, chg>>

Fail ==
  /\ FreeChain(call.new)
  /\ call' = IF call.cnt = 0 THEN Ended("err")
             ELSE [Ended("ok") EXCEPT !.op = call.op, !.todo = Undo, !.n = call.cnt,
                     !.p = IF call.op = "blank" THEN call.d ELSE call.p,
                     !.cnt = call.cnt, !.bad = TRUE, !.was = call.was]
  /\ UNCHANGED <<chain, las, chg>>

-----------------------------------------------------------------------------
(* Seeking (la_lseek).  The line wanted is looked for from the beginning,  *)
(* from the current place or from the end, whichever is less work.         *)

Here(x) == Before(chain[x.la_file], x.la_cfsd) + x.la_fsline

FromBegin(x, n) ==
  x.la_lpos - n > x.la_fsline /\ n * 2 <= x.la_lpos

FromEnd(x, n) ==
  /\ n > x.la_lpos
  /\ n - x.la_lpos >= (IF x.la_cfsd = Eof THEN 0 ELSE fsd[x.la_cfsd].fsdnlines) - x.la_fsline
  /\ (n - x.la_lpos) * 2 > laf[x.la_file].la_nlines - x.la_lpos

(* How many lines of the chain are before line n, counted that way. *)
Counted(x, n) ==
  CASE FromBegin(x, n) -> n
    [] FromEnd(x, n)   -> Count(chain[x.la_file]) - (laf[x.la_file].la_nlines - n)
    [] OTHER           -> Here(x) + n - x.la_lpos

Place(x, d, k, n) == [x EXCEPT !.la_cfsd = d, !.la_fsline = k, !.la_lpos = n]

Holding(ds, t) ==
  {ds[i] : i \in {j \in DOMAIN ds : Before(ds, ds[j]) <= t
                                   /\ t < Before(ds, ds[j]) + fsd[ds[j]].fsdnlines}}

Seek(x, n) ==
  LET ds == chain[x.la_file]
      t  == Counted(x, n)
  IN  CASE n <= 0                         -> Place(x, First(ds), 0, 0)
        [] n >= laf[x.la_file].la_nlines  -> Place(x, Eof, 0, laf[x.la_file].la_nlines)
        [] OTHER -> LET d == CHOOSE e \in Holding(ds, t) : TRUE
                    IN  Place(x, d, t - Before(ds, d), n)

-----------------------------------------------------------------------------
(* Breaking (la_break, la_zbreak): an fsd becomes two, and every stream    *)
(* that was in the second part of it is now in the second fsd.             *)

Broken(x) == x.la_cfsd = Eof \/ x.la_fsline = 0

Piece(d, from, n) ==
  [fsdfile |-> fsd[d].fsdfile, fsdpos |-> fsd[d].fsdpos + from, fsdnlines |-> n]

(* Mutant of StreamsAfterBreak: a stream right at the break is left behind. *)
StreamsBehindBreak(d, k, e) ==
  [t \in Streams |-> IF las[t].la_cfsd = d /\ las[t].la_fsline > k
                       THEN [las[t] EXCEPT !.la_cfsd = e, !.la_fsline = @ - k]
                       ELSE las[t]]

StreamsAfterBreak(d, k, e) ==
  [t \in Streams |-> IF las[t].la_cfsd = d /\ las[t].la_fsline >= k
                       THEN [las[t] EXCEPT !.la_cfsd = e, !.la_fsline = @ - k]
                       ELSE las[t]]

(* Mutant of BreakAt: the new fsd is not counted. *)
BreakUncounted(x) ==
  LET d == x.la_cfsd
      k == x.la_fsline
      e == Fresh
  IN  /\ Free # {}
      /\ fsd' = [fsd EXCEPT ![d].fsdnlines = k, ![e] = Piece(d, k, fsd[d].fsdnlines - k)]
      /\ chain' = [chain EXCEPT ![x.la_file] = InsertAt(@, At(@, d) + 1, e)]
      /\ las' = StreamsAfterBreak(d, k, e)
      /\ UNCHANGED laf

BreakAt(x) ==
  LET d == x.la_cfsd
      k == x.la_fsline
      e == Fresh
  IN  /\ Free # {}
      /\ fsd' = [fsd EXCEPT ![d].fsdnlines = k, ![e] = Piece(d, k, fsd[d].fsdnlines - k)]
      /\ chain' = [chain EXCEPT ![x.la_file] = InsertAt(@, At(@, d) + 1, e)]
      /\ las' = StreamsAfterBreak(d, k, e)
      /\ laf' = [laf EXCEPT ![fsd[d].fsdfile].la_fsrefs = @ + 1]

NoBreak == UNCHANGED <<fsd, chain, laf, las>>

ZBreak(step, s) ==
  /\ Do(step)
  /\ IF Broken(las[s]) THEN NoBreak ELSE BreakAt(las[s])
  /\ call' = Done
  /\ UNCHANGED <<chg, coll>>

ZBreakFails(step, s) == Do(step) /\ ~ Broken(las[s]) /\ Fail /\ UNCHANGED coll

(* Both ends of the lines to be deleted.  If they are within one fsd, both *)
(* new fsds are made before anything is changed.                           *)
Within(x, n) == x.la_fsline > 0 /\ x.la_fsline + n < fsd[x.la_cfsd].fsdnlines

Break ==
  /\ Do("break")
  /\ LET x == las[call.p]
     IN  /\ Within(x, call.n) => Cardinality(Free) >= 2
         /\ IF Broken(x) THEN NoBreak ELSE BreakAt(x)
         /\ call' = [Done EXCEPT !.sure = Within(x, call.n)]
  /\ UNCHANGED <<chg, coll>>

BreakFails == Do("break") /\ ~ Broken(las[call.p]) /\ Fail /\ UNCHANGED coll

End == Seek(las[call.p], las[call.p].la_lpos + call.n)

BreakEnd ==
  /\ Do("bend")
  /\ IF Broken(End) THEN NoBreak ELSE BreakAt(End)
  /\ call' = [Done EXCEPT !.n = End.la_lpos - las[call.p].la_lpos,
                          !.cfsd = IF Broken(End) THEN End.la_cfsd ELSE Fresh]
  /\ UNCHANGED <<chg, coll>>

BreakEndFails == Do("bend") /\ ~ Broken(End) /\ ~ call.sure /\ Fail /\ UNCHANGED coll

-----------------------------------------------------------------------------
(* Linking a chain into a file at a stream (la_link). *)

(* Mutant of AfterLink: reserved lines are kept whatever goes between them. *)
AfterLinkReserved(x, at, ds, n) ==
  CASE x.la_lpos = at /\ x.la_stay -> [x EXCEPT !.la_cfsd = Head(ds), !.la_rlines = 0]
    [] x.la_lpos < at -> x
    [] OTHER -> [x EXCEPT !.la_lpos = @ + n]

(* Mutant of AfterLink: la_stay is not looked at. *)
AfterLinkPushed(x, at, ds, n) ==
  IF x.la_lpos < at THEN [x EXCEPT !.la_rlines = IF x.la_lpos + @ > at THEN 0 ELSE @]
  ELSE [x EXCEPT !.la_lpos = @ + n]

AfterLink(x, at, ds, n) ==
  CASE x.la_lpos = at /\ x.la_stay -> [x EXCEPT !.la_cfsd = Head(ds), !.la_rlines = 0]
    [] x.la_lpos < at -> [x EXCEPT !.la_rlines = IF x.la_lpos + @ > at THEN 0 ELSE @]
    [] OTHER -> [x EXCEPT !.la_lpos = @ + n]

(* Mutant of Link: la_mode is not set. *)
LinkUnmarked(s, ds) ==
  LET f == las[s].la_file
      i == At(chain[f], las[s].la_cfsd)
  IN  /\ chain' = [chain EXCEPT ![f] = SubSeq(@, 1, i - 1) \o ds \o SubSeq(@, i, Len(@))]
      /\ laf' = [laf EXCEPT ![f].la_nlines = @ + Count(ds)]
      /\ las' = [t \in Streams |-> IF las[t].la_file = f
                   THEN AfterLink(las[t], las[s].la_lpos, ds, Count(ds)) ELSE las[t]]

Link(s, ds) ==
  LET f == las[s].la_file
      i == At(chain[f], las[s].la_cfsd)
  IN  /\ chain' = [chain EXCEPT ![f] = SubSeq(@, 1, i - 1) \o ds \o SubSeq(@, i, Len(@))]
      /\ laf' = [laf EXCEPT ![f].la_nlines = @ + Count(ds), ![f].la_mode = TRUE]
      /\ las' = [t \in Streams |-> IF las[t].la_file = f
                   THEN AfterLink(las[t], las[s].la_lpos, ds, Count(ds)) ELSE las[t]]

Fits(s, n) == laf[las[s].la_file].la_nlines + n <= LA_MAXNLINES

-----------------------------------------------------------------------------
(* Making a chain of fsds (la_parse).  How many lines an fsd gets depends  *)
(* on their lengths too.                                                   *)

ParseFsd(k) ==
  /\ Do("parse") /\ k \in 1 .. Lesser(LA_FSDLMAX, call.left) /\ Free # {}
  /\ fsd' = [fsd EXCEPT ![Fresh] = [fsdfile |-> call.own, fsdpos |-> call.pos, fsdnlines |-> k]]
  /\ laf' = [laf EXCEPT ![call.own].la_fsrefs = @ + 1]
  /\ call' = [call EXCEPT !.new = Append(@, Fresh), !.pos = @ + k, !.left = @ - k]
  /\ UNCHANGED <<chain, las, chg, coll>>

ParseEnd   == Do("parse") /\ call.left = 0 /\ call' = Done
              /\ UNCHANGED <<fsd, chain, laf, las, chg, coll>>
ParseFails == Do("parse") /\ call.left > 0 /\ Fail /\ UNCHANGED coll

-----------------------------------------------------------------------------
(* la_linsert and la_lreplace. *)

InsertSteps == << "zp", "parse", "write", "link" >>

Targets == {d \in Stream : Open(d)} \cup {None}

Room(new) == Len(chg) + Len(new) <= MaxChg

BeginInsert(s, new) ==
  /\ MayEdit /\ Open(s) /\ Room(new)
  /\ call' = [Request(Ask("insert", s, None, 0, new), InsertSteps)
                EXCEPT !.text = new, !.own = Chg, !.pos = Len(chg), !.left = Len(new)]
  /\ UNCHANGED <<fsd, chain, laf, las, chg, coll>>

(* A stream that stays would be before the new lines when it comes to the  *)
(* deletion; no caller's does.                                             *)
BeginReplace(s, new, n, d) ==
  /\ MayEdit /\ Open(s) /\ ~ las[s].la_stay /\ d \in Targets /\ Room(new)
  /\ call' = [Request(Ask("replace", s, d, n, new), Append(InsertSteps, "del"))
                EXCEPT !.text = new, !.own = Chg, !.pos = Len(chg), !.left = Len(new)]
  /\ UNCHANGED <<fsd, chain, laf, las, chg, coll>>

Write ==
  /\ Do("write") /\ Fits(call.p, Count(call.new))
  /\ chg' = chg \o call.text
  /\ call' = Done
  /\ UNCHANGED <<fsd, chain, laf, las, coll>>

(* The file would get too long, or ff_write fails. *)
WriteFails == Do("write") /\ Fail /\ UNCHANGED coll

LinkNew ==
  /\ Do("link")
  /\ Link(call.p, call.new)
  /\ call' = [Done EXCEPT !.new = << >>,
                !.cnt = IF call.op = "replace" THEN Count(call.new) ELSE @]
  /\ UNCHANGED <<fsd, chg, coll>>

-----------------------------------------------------------------------------
(* la_ldelete: alone, or called by one of the others. *)

BeginDelete(s, n, d) ==
  /\ MayEdit /\ Open(s) /\ d \in Targets
  /\ call' = Request(Ask("delete", s, d, n, << >>), << "del" >>)
  /\ UNCHANGED <<fsd, chain, laf, las, chg, coll>>

DeleteSteps == << "break", "bend", "unlink", "place" >>

AtEnd(s) == las[s].la_cfsd = Eof

Delete ==
  /\ Do("del")
  /\ (~ AtEnd(call.p) /\ call.d # None) => Fits(call.d, call.n)
  /\ call' = [call EXCEPT !.todo =
       (CASE AtEnd(call.p)  -> << >>
          [] ~ AtEnd(call.p) /\ call.d = None -> DeleteSteps
          [] OTHER          -> << "zd" >> \o DeleteSteps) \o Tail(@)]
  /\ UNCHANGED <<fsd, chain, laf, las, chg, coll>>

DeleteTooLong ==
  /\ Do("del") /\ ~ AtEnd(call.p) /\ call.d # None /\ ~ Fits(call.d, call.n)
  /\ Fail /\ UNCHANGED coll

(* Mutant of AfterUnlink: streams inside are taken to be behind. *)
AfterUnlinkBehind(x, at, n) ==
  CASE x.la_lpos > at -> [x EXCEPT !.la_lpos = @ - n]
    [] x.la_lpos < at -> [x EXCEPT !.la_rlines = IF x.la_lpos + @ > at THEN 0 ELSE @]
    [] OTHER -> [x EXCEPT !.la_cfsd = call.cfsd, !.la_fsline = 0, !.la_lpos = at, !.la_rlines = 0]

(* A stream inside the deleted lines ends up behind them. *)
AfterUnlink(x, at, n) ==
  CASE x.la_lpos >= at + n -> [x EXCEPT !.la_lpos = @ - n]
    [] x.la_lpos < at -> [x EXCEPT !.la_rlines = IF x.la_lpos + @ > at THEN 0 ELSE @]
    [] OTHER -> [x EXCEPT !.la_cfsd = call.cfsd, !.la_fsline = 0, !.la_lpos = at, !.la_rlines = 0]

Unlink ==
  /\ Do("unlink")
  /\ LET f == las[call.p].la_file
         i == At(chain[f], las[call.p].la_cfsd)
         j == At(chain[f], call.cfsd)
     IN  /\ chain' = [chain EXCEPT ![f] = SubSeq(@, 1, i - 1) \o SubSeq(@, j, Len(@))]
         /\ call' = [Done EXCEPT !.cut = SubSeq(chain[f], i, j - 1)]
         /\ laf' = [laf EXCEPT ![f].la_nlines = @ - call.n, ![f].la_mode = TRUE]
         /\ las' = [t \in Streams |-> IF las[t].la_file = f
                      THEN AfterUnlink(las[t], las[call.p].la_lpos, call.n) ELSE las[t]]
  /\ UNCHANGED <<fsd, chg, coll>>

(* The deleted lines go to dlas, or are let go of. *)
PlaceCut ==
  /\ Do("place")
  /\ IF call.d = None
       THEN FreeChain(call.cut) /\ UNCHANGED <<chain, las>>
       ELSE Link(call.d, call.cut) /\ UNCHANGED fsd
  /\ call' = [Done EXCEPT !.cut = << >>]
  /\ UNCHANGED <<chg, coll>>

(* Mutant of Back: deleted is what comes behind. *)
BackNot ==
  /\ Do("back")
  /\ call' = Done
  /\ UNCHANGED <<fsd, chain, laf, las, chg, coll>>

(* What la_lreplace or la_blank linked in is to be deleted again: back to   *)
(* where it begins.                                                        *)
Back ==
  /\ Do("back")
  /\ las' = [las EXCEPT ![call.p] = Seek(@, @.la_lpos - call.cnt)]
  /\ call' = Done
  /\ UNCHANGED <<fsd, chain, laf, chg, coll>>

-----------------------------------------------------------------------------
(* la_lcopy: the fsds of the lines are copied, the lines are not.  What is *)
(* in the middle of an fsd is made like the two ends of a break (la_break, *)
(* BRK_COPY), and the walk copies the fsds between.  The walk starts from  *)
(* the fsd slas was in before dlas was broken.                             *)

CopySteps == << "zd", "chead", "ctail", "walk", "linkd" >>

(* It begins only when there is memory for all of it (see CopyFails). *)
BreaksSource(s, d) == ~ Broken(las[d]) /\ las[d].la_cfsd = las[s].la_cfsd

BeginCopy(s, d, n) ==
  /\ MayEdit /\ Open(s) /\ Open(d) /\ ~ AtEnd(s) /\ Fits(d, n)
  /\ BreaksSource(s, d) => SameFsdCopy
  /\ n < Cardinality(Free)
  /\ call' = [Request(Ask("copy", s, d, n, << >>), CopySteps) EXCEPT !.cfsd = las[s].la_cfsd]
  /\ UNCHANGED <<fsd, chain, laf, las, chg, coll>>

(* An fsd like lines from .. from + n - 1 of fsd d is made, or none. *)
MakePiece(d, from, n) ==
  /\ Free # {}
  /\ fsd' = [fsd EXCEPT ![Fresh] = Piece(d, from, n)]
  /\ laf' = [laf EXCEPT ![fsd[d].fsdfile].la_fsrefs = @ + 1]

CopyHead ==
  /\ Do("chead")
  /\ LET x == las[call.p]
         n == Lesser(call.n, fsd[x.la_cfsd].fsdnlines - x.la_fsline)
     IN  IF x.la_fsline = 0
           THEN UNCHANGED <<fsd, laf>> /\ call' = Done
           ELSE /\ MakePiece(x.la_cfsd, x.la_fsline, n)
                /\ call' = [Done EXCEPT !.new = << Fresh >>,
                              !.todo = IF Within(x, call.n) THEN << "linkd" >> ELSE @]
  /\ UNCHANGED <<chain, las, chg, coll>>

CopyTail ==
  /\ Do("ctail")
  /\ IF Broken(End) THEN UNCHANGED <<fsd, laf>> ELSE MakePiece(End.la_cfsd, 0, End.la_fsline)
  /\ LET n == End.la_lpos - las[call.p].la_lpos
     IN  call' = [Done EXCEPT !.n = n,
                    !.tail = IF Broken(End) THEN << >> ELSE << Fresh >>,
                    !.left = n - Count(call.new),
                    !.cfsd = IF call.new = << >> THEN @
                             ELSE Forw(chain[las[call.p].la_file], @)]
  /\ UNCHANGED <<chain, las, chg, coll>>

CopyFsd ==
  /\ Do("walk") /\ call.left > 0 /\ call.cfsd # Eof
  /\ LET n == fsd[call.cfsd].fsdnlines
     IN  /\ call.left >= n
         /\ MakePiece(call.cfsd, 0, n)
         /\ call' = [call EXCEPT !.new = Append(@, Fresh), !.left = @ - n,
                       !.cfsd = Forw(chain[las[call.p].la_file], @)]
  /\ UNCHANGED <<chain, las, chg, coll>>

(* The rest is the last fsd's; if that is not so, la_abort ("lacopy last   *)
(* fsd null"), or the walk has run off the end of the chain.               *)
CopyLast ==
  /\ Do("walk") /\ call.left > 0
  /\ call.cfsd = Eof \/ call.left < fsd[call.cfsd].fsdnlines
  /\ call' = IF call.cfsd # Eof /\ Count(call.tail) = call.left
             THEN [call EXCEPT !.new = @ \o call.tail, !.tail = << >>, !.left = 0]
             ELSE Ended("abort")
  /\ UNCHANGED <<fsd, chain, laf, las, chg, coll>>

WalkEnd == Do("walk") /\ call.left = 0 /\ call' = Done
           /\ UNCHANGED <<fsd, chain, laf, las, chg, coll>>

(* Only where nothing has been made yet: otherwise la_freefsd is given     *)
(* fsds whose fsdforw was never set, or is still that of the source.       *)
CopyFails ==
  /\ call.new = << >> /\ call.tail = << >>
  /\ \/ Do("chead") /\ las[call.p].la_fsline > 0
     \/ Do("ctail") /\ ~ Broken(End)
     \/ Do("walk") /\ call.left > 0
  /\ Fail /\ UNCHANGED coll

LinkCopy ==
  /\ Do("linkd")
  /\ Link(call.d, call.new)
  /\ call' = [Done EXCEPT !.new = << >>]
  /\ UNCHANGED <<fsd, chg, coll>>

-----------------------------------------------------------------------------
(* la_blank: LA_FSDLMAX empty lines are put into the change file's own      *)
(* chain once, and copied as often as it takes.                            *)

BeginBlank(s, n) ==
  /\ MayEdit /\ Open(s) /\ ~ las[s].la_stay /\ Fits(s, n)
  /\ call' = [Request(Ask("blank", s, None, 0, [i \in 1 .. n |-> Blank]), << "bprep", "chunk" >>)
                EXCEPT !.p = Blas, !.d = s, !.blank = n]
  /\ UNCHANGED <<fsd, chain, laf, las, chg, coll>>

Blanks == [i \in 1 .. LA_FSDLMAX |-> Blank]

MakeBlanks ==
  /\ Do("bprep") /\ chain[Chg] = << >> /\ Free # {}
  /\ fsd' = [fsd EXCEPT ![Fresh] = [fsdfile |-> Chg, fsdpos |-> Len(chg), fsdnlines |-> LA_FSDLMAX]]
  /\ chain' = [chain EXCEPT ![Chg] = << Fresh >>]
  /\ laf' = [laf EXCEPT ![Chg].la_fsrefs = @ + 1, ![Chg].la_nlines = LA_FSDLMAX, ![Chg].la_mode = TRUE]
  /\ las' = [las EXCEPT ![Blas].la_cfsd = Fresh]
  /\ chg' = chg \o Blanks
  /\ call' = Done
  /\ UNCHANGED coll

HaveBlanks == Do("bprep") /\ chain[Chg] # << >> /\ call' = Done
              /\ UNCHANGED <<fsd, chain, laf, las, chg, coll>>
BlanksFail == Do("bprep") /\ chain[Chg] = << >> /\ Fail /\ UNCHANGED coll

Chunk ==
  /\ Do("chunk")
  /\ LET n == Lesser(call.blank, LA_FSDLMAX)
     IN  call' = IF call.blank = 0 THEN Done
                 ELSE [call EXCEPT !.todo = CopySteps \o @, !.n = n, !.cfsd = las[Blas].la_cfsd,
                                   !.cnt = @ + call.n, !.blank = @ - n]
  /\ UNCHANGED <<fsd, chain, laf, las, chg, coll>>

-----------------------------------------------------------------------------
(* Collecting lines on the end of the change file (la_lcollect,            *)
(* la_tcollect), and putting them into a file (la_lrcollect).              *)

Dormant == [on |-> FALSE, chgpos |-> 0, nxchgpos |-> 0]

LCollect(start, new) ==
  /\ Idle /\ Room(new)
  /\ start \/ (coll.on /\ coll.nxchgpos = Len(chg))
  /\ coll' = [on |-> TRUE, chgpos |-> IF start THEN Len(chg) ELSE coll.chgpos,
              nxchgpos |-> Len(chg) + Len(new)]
  /\ chg' = chg \o new
  /\ UNCHANGED <<fsd, chain, laf, las, call>>

(* LA_BRKCOLL, or ff_write fails. *)
LCollectFails ==
  /\ Idle /\ coll.on
  /\ coll' = Dormant
  /\ UNCHANGED <<fsd, chain, laf, las, chg, call>>

(* A filter has written on the end of the change file. *)
TCollect(new) ==
  /\ Idle /\ Room(new)
  /\ coll' = [on |-> TRUE, chgpos |-> Len(chg), nxchgpos |-> Len(chg) + Len(new)]
  /\ chg' = chg \o new
  /\ UNCHANGED <<fsd, chain, laf, las, call>>

BeginCollect(s, n, d) ==
  /\ MayEdit /\ Open(s) /\ d \in Targets /\ coll.on
  /\ LET new == SubSeq(chg, coll.chgpos + 1, coll.nxchgpos)
     IN  call' = [Request(Ask("collect", s, d, n, new), << "zp", "parse", "room" >> \o
                            (IF n = 0 THEN << >> ELSE << "del" >>) \o << "link" >>)
                    EXCEPT !.own = Chg, !.pos = coll.chgpos, !.left = Len(new)]
  /\ UNCHANGED <<fsd, chain, laf, las, chg, coll>>

CollectFits == Do("room") /\ Fits(call.p, Count(call.new)) /\ call' = Done
               /\ UNCHANGED <<fsd, chain, laf, las, chg, coll>>
CollectTooLong == Do("room") /\ ~ Fits(call.p, Count(call.new)) /\ Fail /\ coll' = Dormant

(* Mutant of CollectReturn: the collection is not over. *)
CollectGoesOn ==
  /\ call.op = "collect" /\ call.todo = << >>
  /\ call' = Ended("ok")
  /\ UNCHANGED <<fsd, chain, laf, las, chg, coll>>

CollectReturn ==
  /\ call.op = "collect" /\ call.todo = << >>
  /\ coll' = Dormant
  /\ call' = Ended("ok")
  /\ UNCHANGED <<fsd, chain, laf, las, chg>>

-----------------------------------------------------------------------------
(* Streams: la_open, la_clone, la_close, la_lseek, la_align and the macros. *)

BeginOpen(s, f) ==
  /\ Idle /\ ~ Open(s) /\ ~ IsOpen(f)
  /\ call' = [Request([Ask("open", s, None, 0, << >>) EXCEPT !.f = f], << "parse", "openret" >>)
                EXCEPT !.own = f, !.left = Len(DiskText[f])]
  /\ UNCHANGED <<fsd, chain, laf, las, chg, coll>>

OpenReturn ==
  /\ Do("openret")
  /\ laf' = [laf EXCEPT ![call.own] = [@ EXCEPT !.la_refs = 1, !.la_nlines = Count(call.new)]]
  /\ chain' = [chain EXCEPT ![call.own] = call.new]
  /\ las' = [las EXCEPT ![call.p] =
               [Closed EXCEPT !.la_file = call.own, !.la_cfsd = First(call.new)]]
  /\ call' = [Done EXCEPT !.new = << >>]
  /\ UNCHANGED <<fsd, chg, coll>>

(* Opening a file that is open already is the same as this. *)
Clone(t, s) ==
  /\ Idle /\ Open(t) /\ ~ Open(s)
  /\ las' = [las EXCEPT ![s] = [las[t] EXCEPT !.la_stay = FALSE]]
  /\ laf' = [laf EXCEPT ![las[t].la_file].la_refs = @ + 1]
  /\ UNCHANGED <<fsd, chain, chg, coll, call>>

CloseStream(s) ==
  /\ Idle /\ Open(s) /\ laf[las[s].la_file].la_refs > 1
  /\ laf' = [laf EXCEPT ![las[s].la_file].la_refs = @ - 1]
  /\ las' = [las EXCEPT ![s] = Closed]
  /\ UNCHANGED <<fsd, chain, chg, coll, call>>

(* No other file has lines of this one, and it has some of its own lines,  *)
(* if any.                                                                 *)
Unshared(f) ==
  /\ \A d \in Fsd : fsd[d].fsdfile = f => \E i \in DOMAIN chain[f] : chain[f][i] = d
  /\ chain[f] = << >> \/ laf[f].la_fsrefs > 0

(* The last stream of a file: its chain is freed, if any of the file's own  *)
(* lines are anywhere.  Are there still some then, they are in other files, *)
(* and la_close returns their number; the stream is left as it is.         *)
CloseFile(s) ==
  LET f == las[s].la_file
      own == laf[f].la_fsrefs > 0
      left == laf[f].la_fsrefs - Cardinality(Owned(f, chain[f]))
  IN  /\ Idle /\ Open(s) /\ laf[f].la_refs = 1
      /\ Unshared(f) \/ CloseShared
      /\ fsd' = [d \in Fsd |-> IF own /\ \E i \in DOMAIN chain[f] : chain[f][i] = d
                                 THEN FreeFsd ELSE fsd[d]]
      /\ laf' = [g \in Files |->
           IF g = f /\ left = 0 THEN NewFile
           ELSE [laf[g] EXCEPT !.la_fsrefs =
                   IF own THEN @ - Cardinality(Owned(g, chain[f])) ELSE @]]
      /\ chain' = [chain EXCEPT ![f] = << >>]
      /\ las' = IF left = 0 THEN [las EXCEPT ![s] = Closed] ELSE las
  /\ UNCHANGED <<chg, coll, call>>

SetStream(s, x) ==
  /\ Idle /\ Open(s)
  /\ las' = [las EXCEPT ![s] = x]
  /\ UNCHANGED <<fsd, chain, laf, chg, coll, call>>

LSeek(s, n)    == SetStream(s, Seek(las[s], n))
Stay(s, b)     == MayEdit /\ las[s].la_stay # b /\ SetStream(s, [las[s] EXCEPT !.la_stay = b])
SetRlines(s, n) == MayEdit /\ SetStream(s, [las[s] EXCEPT !.la_rlines = n])

Align(o, s) ==
  /\ Open(o) /\ las[o].la_file = las[s].la_file
  /\ SetStream(s, Place(las[s], las[o].la_cfsd, las[o].la_fsline, las[o].la_lpos))

-----------------------------------------------------------------------------
(* The operations of the package, and the steps they are made of. *)

BreakStep ==
  \/ \E s \in Stream : \/ call.p = s /\ (ZBreak("zp", s) \/ ZBreakFails("zp", s))
                       \/ call.d = s /\ (ZBreak("zd", s) \/ ZBreakFails("zd", s))
  \/ Break \/ BreakFails \/ BreakEnd \/ BreakEndFails

ParseStep == ParseEnd \/ ParseFails \/ \E k \in 1 .. LA_FSDLMAX : ParseFsd(k)

InsertStep ==
  \/ \E s \in Stream, new \in NewText :
       \/ BeginInsert(s, new)
       \/ \E n \in Counts, d \in Stream \cup {None} : BeginReplace(s, new, n, d)
  \/ Write \/ WriteFails \/ LinkNew

DeleteStep ==
  \/ \E s \in Stream, n \in Counts, d \in Stream \cup {None} : BeginDelete(s, n, d)
  \/ Delete \/ DeleteTooLong \/ Unlink \/ PlaceCut \/ Back

CopyStep ==
  \/ \E s, d \in Stream, n \in Counts : BeginCopy(s, d, n)
  \/ CopyHead \/ CopyTail \/ CopyFsd \/ CopyLast \/ WalkEnd
  \/ CopyFails \/ LinkCopy

BlankStep ==
  \/ \E s \in Stream, n \in Counts : BeginBlank(s, n)
  \/ MakeBlanks \/ HaveBlanks \/ BlanksFail \/ Chunk

CollectStep ==
  \/ \E new \in NewText : TCollect(new) \/ \E start \in BOOLEAN : LCollect(start, new)
  \/ LCollectFails
  \/ \E s \in Stream, n \in Counts \cup {0}, d \in Stream \cup {None} : BeginCollect(s, n, d)
  \/ CollectFits \/ CollectTooLong \/ CollectReturn

StreamStep ==
  \/ \E s \in Stream, f \in File : BeginOpen(s, f)
  \/ OpenReturn
  \/ \E s, t \in Stream : Clone(t, s) \/ Align(t, s)
  \/ \E s \in Stream : CloseStream(s) \/ CloseFile(s) \/ \E b \in Stays : Stay(s, b)
  \/ \E s \in Stream : Open(s) /\ \E n \in 0 .. laf[las[s].la_file].la_nlines + 1 : LSeek(s, n)
  \/ \E s \in Stream, n \in Reserves : SetRlines(s, n)

Next ==
  \/ BreakStep \/ ParseStep \/ InsertStep \/ DeleteStep \/ CopyStep \/ BlankStep
  \/ CollectStep \/ StreamStep \/ Return

Spec == Init /\ [][Next]_vars

-----------------------------------------------------------------------------
(* Properties. *)

(* Every variable holds a value of its type; in particular no operation    *)
(* ever takes la_fsrefs or a line number below zero ("nlaf->la_fsrefs < 0  *)
(* in la_close").                                                          *)
TypeOK ==
  /\ fsd \in [Fsd -> Fsds]
  /\ chain \in [Files -> Seq(Fsd)]
  /\ laf \in [Files -> LaFiles]
  /\ las \in [Streams -> LaStreams]
  /\ chg \in Seq(Line)
  /\ coll \in [on : BOOLEAN, chgpos : Nat, nxchgpos : Nat]
  /\ call \in Calls

(* Where an fsd is: in the chain of a file, or in one that is being made or *)
(* moved.                                                                  *)
Held(what, ds, d) == {<<what, i>> : i \in {j \in DOMAIN ds : ds[j] = d}}

Holders(d) ==
  (UNION {Held(f, chain[f], d) : f \in Files})
    \cup Held("new", call.new, d) \cup Held("tail", call.tail, d) \cup Held("cut", call.cut, d)

(* An fsd in use is in exactly one place, and describes some lines; one    *)
(* that has been freed is in none (la_freefsd, la_link, la_ldelete).       *)
OneChain ==
  \A d \in Fsd :
    /\ Cardinality(Holders(d)) = IF d \in Free THEN 0 ELSE 1
    /\ d \notin Free => fsd[d].fsdnlines \in 1 .. LA_FSDLMAX

(* la_nlines is the number of lines in the chain, and every stream is in   *)
(* the chain of its file, at the line that its la_lpos says, however often *)
(* the chain has been broken and linked by other streams since.            *)
Consistent ==
  /\ \A f \in Files : IsOpen(f) => laf[f].la_nlines = Count(chain[f])
  /\ \A s \in Streams : Open(s) =>
       LET x == las[s]
           ds == chain[x.la_file]
       IN  /\ IsOpen(x.la_file)
           /\ x.la_cfsd # Eof => \E i \in DOMAIN ds : ds[i] = x.la_cfsd
           /\ x.la_cfsd # Eof => x.la_fsline < fsd[x.la_cfsd].fsdnlines
           /\ x.la_cfsd = Eof => x.la_fsline = 0
           /\ Here(x) = x.la_lpos

(* la_close lets go of a file when la_fsrefs is 0: it is the number of     *)
(* fsds, in whatever file, that describe lines of this one.                *)
FsrefsExact ==
  \A f \in Files : laf[f].la_fsrefs = Cardinality({d \in Fsd : fsd[d].fsdfile = f})

(* A collection is on the end of the change file alone: none of the lines  *)
(* being collected has been put into a file already (LA_BRKCOLL).          *)
CollectionApart ==
  coll.on /\ call.op # "collect" =>
    \A d \in Fsd : fsd[d].fsdfile = Chg =>
      fsd[d].fsdpos >= coll.nxchgpos \/ fsd[d].fsdpos + fsd[d].fsdnlines <= coll.chgpos

(* A file that is not marked as modified is as it is on disk: the editor   *)
(* asks only for the others to be saved.                                   *)
ModifiedTells ==
  \A f \in File : IsOpen(f) /\ ~ laf[f].la_mode => Text(f) = DiskText[f]

(* "If any operation alters those lines, then the number is reset to 0"    *)
(* (Doc.n): as long as a stream has reserved lines they are the same ones. *)
Reserved(s) ==
  LET t == Text(las[s].la_file)
  IN  SubSeq(t, las[s].la_lpos + 1, Lesser(las[s].la_lpos + las[s].la_rlines, Len(t)))

ReservedUnaltered ==
  [][ call.op # "none" /\ ~ Do("back") =>
        \A s \in Stream : Open(s) /\ las[s].la_rlines > 0 =>
          las'[s].la_rlines \in {0, las[s].la_rlines}
            /\ (las'[s].la_rlines # 0 => Reserved(s)' = Reserved(s)) ]_vars

(* "Insert a copy of nlines lines from the current position in slas at the *)
(* current position in dlas" (Doc.n).                                      *)
CopyInsertsCopy ==
  [][ call.op = "copy" /\ call'.op = "none" /\ call'.ret # "err" =>
        LET from == call.was.las[call.was.ask.s]
            to   == call.was.las[call.was.ask.d]
            t    == call.was.text[from.la_file]
            u    == call.was.text[to.la_file]
        IN  Texts'[to.la_file] =
              SubSeq(u, 1, to.la_lpos)
                \o SubSeq(t, from.la_lpos + 1, Lesser(from.la_lpos + call.was.ask.n, Len(t)))
                \o SubSeq(u, to.la_lpos + 1, Len(u)) ]_vars

(* "It returns > 0, then ... the stream ... is still active, that is, it was  *)
(* not closed" (Doc.n): what is done between edits, la_close included,     *)
(* leaves the text of a stream that is still open alone.                   *)
StaysActive ==
  [][ call.op = "none" /\ call'.op = "none" =>
        \A s \in Stream : Open(s) /\ Open(s)' =>
          Text(las[s].la_file)' = Text(las[s].la_file) ]_vars

(* The package implements LineFile: an operation takes effect when it      *)
(* returns.                                                                *)
AbsText == IF call.op = "none" THEN Texts ELSE call.was.text
AbsLas  == IF call.op = "none" THEN Places ELSE call.was.las
AbsReq  == IF call.op = "none" THEN None ELSE call.was.ask
AbsRet  == IF call.op = "none" THEN call.ret ELSE "ok"

LF == INSTANCE LineFile WITH text <- AbsText, las <- AbsLas, req <- AbsReq, ret <- AbsRet

ImplementsLineFile == LF!Spec
=============================================================================

-------------------------------- MODULE QBuf --------------------------------
(***************************************************************************)
(* The buffers of the editor (e20/e.e.c, receive in e20/e.ru.c): what is   *)
(* picked goes to the end of the pseudo-file #p; what is closed, erased,   *)
(* given to a program or replaced goes to the end of #o.  A buffer has no  *)
(* lines of its own: it is a stream in one of the two that has reserved    *)
(* the lines.  Four buffers and every old line share #o, and the user may  *)
(* edit #o and #p like any other file.                                     *)
(*                                                                         *)
(* What LA does to lines and streams is taken from LineFile, which the     *)
(* module LA implements.  The line in hand is that of the module CLine;    *)
(* here it has always been put back.                                       *)
(***************************************************************************)
EXTENDS Integers, Sequences

CONSTANTS
  UserFile, PICKFILE, OLDLFILE,          \* the user's file, #p and #o
  QADJUST, QPICK, QCLOSE, QERASE, QRUN,  \* the buffers
  QNONE, NoFile, None,                   \* no buffer; no file; no stream
  Word, empty,  \* what either part of a line may be; see Buffers
  Text0,        \* the lines of the user's file
  Typed,        \* bound: the lines that are typed
  Counts,       \* bound: how many lines commands are about
  Filtered,     \* bound: what programs write
  MaxEdits,     \* bound: how many commands there are
  Fails,        \* LA may fail to move lines: no memory, no disk space
  HalfFails,    \* it may fail where the code goes on, or does not undo
  JoinInPick,   \* the user may join marked lines in #p
  CloseInOld    \* he may take lines in #o with a rectangle in the buffer

File == {UserFile, PICKFILE, OLDLFILE}
Buf  == {QADJUST, QPICK, QCLOSE, QERASE, QRUN}
Line == Word \X Word

ASSUME QBufAssumption ==
  /\ QNONE \notin Buf /\ NoFile \notin File /\ empty \in Word
  /\ Text0 \in Seq(Line) /\ Filtered \subseteq Seq(Line) /\ Typed \subseteq Line
  /\ Counts \subseteq Nat \ {0} /\ MaxEdits \in Nat
  /\ {Fails, HalfFails, JoinInPick, CloseInOld} \subseteq BOOLEAN

VARIABLES
  st,   \* the lines of the files, the streams, and the buffers' widths
  cmd,  \* the last command
  edits \* how many there have been

(* The streams: fnlas, a file's first, at which lines are appended; curlas, *)
(* of the window in which the file is edited; buflas, of a buffer.         *)
fnlas(f)  == << "fnlas", f >>
curlas(f) == << "curlas", f >>
buflas(b) == << "buflas", b >>
Stream == {fnlas(f) : f \in File} \cup {curlas(f) : f \in File} \cup {buflas(b) : b \in Buf}

ASSUME NameAssumption ==
  /\ UserFile # PICKFILE /\ UserFile # OLDLFILE /\ PICKFILE # OLDLFILE
  /\ QPICK \notin {QADJUST, QCLOSE, QERASE, QRUN} /\ None \notin Stream

qtmpfn(b) == IF b = QPICK THEN PICKFILE ELSE OLDLFILE

LF == INSTANCE LineFile WITH
        DiskText <- [f \in File |-> << >>], text <- st.text, las <- st.las,
        req <- None, ret <- "ok"
The == INSTANCE Buffers WITH text <- st.text[UserFile], held <- << >>

-----------------------------------------------------------------------------
(* Calls of LA, as functions of the state x. *)
Lsize(x, f)     == Len(x.text[f])
Done(x, r)      == [x EXCEPT !.text = r.text, !.las = r.las]
Ins(x, s, new)  == Done(x, LF!Ins(x, s, new))
Move(x, s, n, d) == Done(x, LF!Move(x, s, n, d))
Copy(x, s, d, n) == Ins(x, d, LF!LinesAt(x, s, n))
Seek(x, f, at)  == [x EXCEPT !.las[curlas(f)].la_lpos = at]
Rlines(x, b, n) == [x EXCEPT !.las[buflas(b)].la_rlines = n]
Stay(x, b, on)  == [x EXCEPT !.las[buflas(b)].la_stay = on]
Align(x, s, b)  == IF x.las[s].la_file # qtmpfn(b) THEN x
                   ELSE [x EXCEPT !.las[buflas(b)].la_lpos = x.las[s].la_lpos]

(* clean does nothing; extend puts blank lines behind the last one. *)
extend(x, f, at) ==
  LET gap == at - Lsize(x, f)
  IN  IF gap <= 0 THEN x ELSE Ins(Seek(x, f, Lsize(x, f)), curlas(f), The!Blanks(gap))

-----------------------------------------------------------------------------
(* edlines: lines are taken into buffer b.  Its stream is put where they   *)
(* will be, and has to stay there while they come.                         *)

(* Mutants: the buffer's stream is not told to stay; it is not told that   *)
(* it may move on; it is not put at the end before the lines come.         *)
BeginMoves(x, b, f, at) == Seek([x EXCEPT !.ncols[b] = 0], f, at)
EndStays(x, b, n)       == Rlines(x, b, n)
NotAtEnd(x, b)          == x

Begin(x, b, f, at) == Seek(Stay([x EXCEPT !.ncols[b] = 0], b, TRUE), f, at)
AtEnd(x, b)        == Align(x, fnlas(qtmpfn(b)), b)
End(x, b, n)       == Stay(Rlines(x, b, n), b, FALSE)

(* Closed without being kept, and in #o, where it has been kept already. *)
CloseUnsaved(x, f, at, n) == Move(Seek(x, f, at), curlas(f), n, None)

CloseLines(x, b, f, at, n) ==
  LET y == Begin(x, b, f, at) IN
  IF f = OLDLFILE THEN Stay(CloseUnsaved(y, f, at, n), b, FALSE)
  ELSE End(Move(AtEnd(y, b), curlas(f), n, fnlas(OLDLFILE)), b, n)

PickLines(x, b, f, at, n) ==
  LET y == Begin(x, b, f, at) IN
  IF f = PICKFILE THEN End(Align(y, curlas(f), b), b, n)
  ELSE End(Copy(AtEnd(y, b), curlas(f), fnlas(qtmpfn(b)), n), b, n)

EraseLines(x, b, f, at, n) ==
  LET y    == Begin(x, b, f, at)
      z(v) == Ins(v, curlas(f), The!Blanks(n)) IN
  IF f = OLDLFILE THEN Stay(z(CloseUnsaved(y, f, at, n)), b, FALSE)
  ELSE End(z(Move(AtEnd(y, b), curlas(f), n, fnlas(OLDLFILE))), b, n)

(* err1: nothing has been moved. *)
PickFails(x, b, f, at) == Stay(AtEnd(Begin(x, b, f, at), b), b, FALSE)
LinesFail(x, b, f, at) ==
  IF f = OLDLFILE /\ b # QPICK THEN Stay(Begin(x, b, f, at), b, FALSE) ELSE PickFails(x, b, f, at)

(* err1, of the blank lines: the old ones are behind dlas, which is at the *)
(* end of #o, and do not come back.                                        *)
BlankFails(x, b, f, at, n) ==
  LET y == Move(AtEnd(Begin(x, b, f, at), b), curlas(f), n, fnlas(OLDLFILE))
  IN  Stay(Move(y, fnlas(OLDLFILE), n, curlas(f)), b, FALSE)

-----------------------------------------------------------------------------
(* edrect: a rectangle's lines are written to the buffer's file, and the   *)
(* lines it was in are replaced, the old ones going to #o.                 *)

WriteOut(x, b, ls) ==
  LET y == Stay(AtEnd(x, b), b, TRUE)
  IN  [End(Ins(y, fnlas(qtmpfn(b)), The!Pieces(ls)), b, Len(ls)) EXCEPT !.ncols[b] = 1]

Rewrite(x, f, at, new) ==
  Ins(Move(Seek(x, f, at), curlas(f), Len(new), fnlas(OLDLFILE)), curlas(f), new)

Area(x, f, at, n) == The!Area(x.text[f], at, n)

PickRect(x, b, f, at, n) == WriteOut(x, b, Area(x, f, at, n))
ClearRect(x, b, f, at, n) ==   \* OPCLOSE and OPERASE
  LET y == PickRect(x, b, f, at, n) IN Rewrite(y, f, at, The!Without(Area(y, f, at, n)))

(* err1, while it is written: the stream is left where it is to stay. *)
RectFails(x, b) == Stay(AtEnd(x, b), b, TRUE)

-----------------------------------------------------------------------------
(* ed, with a buffer to put: lines are inserted; a rectangle is inserted,  *)
(* or covers what is there.  (How overlay, underlay and blot mix the two,  *)
(* and what an insertion pushes to the right, are not distinguished.)      *)
Reserved(x, b) == x.las[buflas(b)].la_rlines

PutLines(x, b, f, at) ==
  Copy(Seek(extend(x, f, at), f, at), buflas(b), curlas(f), Reserved(x, b))

PutRect(x, b, f, at) ==
  LET y   == extend(x, f, at)
      n   == Reserved(y, b)
      got == Area(y, qtmpfn(b), y.las[buflas(b)].la_lpos, n)   \* by qlas
  IN  Rewrite(y, f, at, [i \in 1 .. n |-> The!With(Area(y, f, at, n)[i], got[i][1])])

-----------------------------------------------------------------------------
(* The rest that goes to #o, or may tear a buffer that is there. *)

(* putline: the old line is kept, if there is anything in it. *)
putline(x, f, at, l) ==
  LET old == IF at < Lsize(x, f) /\ x.text[f][at + 1] # The!Blank
               THEN fnlas(OLDLFILE) ELSE None
  IN  Move(Ins(Seek(x, f, at), curlas(f), << l >>), curlas(f), 1, old)

(* dojoin: lines at and at + n become one. *)
dojoin(x, f, at, n, l) == CloseUnsaved(putline(x, f, at, l), f, at + 1, n)

(* dojoin with saveflg: the two lines are cut where they are joined, all   *)
(* is picked into the close buffer, and then they are joined.              *)
Cut(x, f, at, n) ==
  LET ls == Area(x, f, at, n + 1)
  IN  putline(putline(x, f, at + n, The!With(ls[n + 1], empty)), f, at, The!Piece(ls[1]))

Joined(x, f, at, n) ==
  LET ls == Area(x, f, at, n + 1) IN The!With(ls[1], ls[n + 1][2])

(* receive: lines a program was given are replaced by what it wrote. *)
Given(x, b, f, at) ==
  [Seek(Stay(AtEnd(x, b), b, TRUE), f, at) EXCEPT !.ncols[b] = 0]

receive(x, b, f, at, n, new) ==
  End(Ins(Move(Given(x, b, f, at), curlas(f), n, fnlas(OLDLFILE)), curlas(f), new), b, n)

-----------------------------------------------------------------------------
Init ==
  /\ st = [text |-> [f \in File |-> IF f = UserFile THEN Text0 ELSE << >>],
           las |-> [s \in Stream |-> [la_file |-> IF s[1] = "buflas" THEN qtmpfn(s[2]) ELSE s[2],
                                      la_lpos |-> 0, la_rlines |-> 0, la_stay |-> FALSE]],
           ncols |-> [b \in Buf |-> 0]]
  /\ cmd = [opc |-> "none", buf |-> QNONE, file |-> UserFile, at |-> 0, n |-> 0]
  /\ edits = 0

(* Every command seeks curlas before it uses it; it is left at line 0. *)
Do(opc, b, f, at, n, x) ==
  /\ edits < MaxEdits /\ edits' = edits + 1
  /\ st' = [x EXCEPT !.las = [s \in Stream |->
              IF s[1] = "curlas" THEN [x.las[s] EXCEPT !.la_lpos = 0] ELSE x.las[s]]]
  /\ cmd' = [opc |-> opc, buf |-> b, file |-> f, at |-> at, n |-> n]

size(f) == Lsize(st, f)
Cap(f, at, n) == The!Min2(n, size(f) - at)

(* In #o, closing or erasing lines keeps what buffer b holds, but not that *)
(* it is a rectangle.                                                      *)
MayTake(b, f) == f # OLDLFILE \/ CloseInOld \/ st.ncols[b] = 0

Pick(f, at, n) == at < size(f) /\
  \/ Do("pick", QPICK, f, at, n, PickLines(st, QPICK, f, at, Cap(f, at, n)))
  \/ Do("pick", QPICK, f, at, n, PickRect(st, QPICK, f, at, n))

Close(f, at, n) == at < size(f) /\
  \/ MayTake(QCLOSE, f) /\ Do("close", QCLOSE, f, at, n, CloseLines(st, QCLOSE, f, at, Cap(f, at, n)))
  \/ Do("close", QCLOSE, f, at, n, ClearRect(st, QCLOSE, f, at, n))

Erase(f, at, n) == at < size(f) /\
  \/ MayTake(QERASE, f) /\ Do("erase", QERASE, f, at, n, EraseLines(st, QERASE, f, at, Cap(f, at, n)))
  \/ Do("erase", QERASE, f, at, n, ClearRect(st, QERASE, f, at, n))

Opc(b) == CASE b = QPICK -> "pick" [] b = QCLOSE -> "close" [] OTHER -> "erase"

(* Behind the end of the file there is nothing to take. *)
TakeNone(b, f, at) == Do(Opc(b), b, f, at, 0, Rlines(st, b, 0))

TakeFails(b, f, at, n) == at < size(f) /\
  \/ Fails /\ (b = QPICK => f # PICKFILE) /\ MayTake(b, f)
       /\ Do("fail", b, f, at, n, LinesFail(st, b, f, at))
  \/ Fails /\ b # QPICK /\ Do("fail", b, f, at, n, PickRect(st, b, f, at, n))  \* not rewritten
  \/ HalfFails /\ b = QERASE /\ f # OLDLFILE
       /\ Do("fail", b, f, at, n, BlankFails(st, b, f, at, Cap(f, at, n)))
  \/ HalfFails /\ Do("fail", b, f, at, n, RectFails(st, b))

(* "if (la_lcopy (blas, curlas, nlines) <= 0) goto err2" *)
Copied(b) == LF!LinesAt(st, buflas(b), Reserved(st, b)) # << >>

Put(b, f, at) ==
  /\ Reserved(st, b) > 0
  /\ \/ st.ncols[b] = 0 /\ Do(IF Copied(b) THEN "put" ELSE "fail", b, f, at, 0, PutLines(st, b, f, at))
     \/ st.ncols[b] > 0 /\ Do("put", b, f, at, 0, PutRect(st, b, f, at))

(* LA fails, or lines are to cover, which is "not implemented yet". *)
PutFails(b, f, at) ==
  /\ Reserved(st, b) > 0 /\ (Fails \/ st.ncols[b] = 0)
  /\ Do("fail", b, f, at, 0, extend(st, f, at))

Type(f, at, l)  == at <= size(f) /\ Do("edit", QNONE, f, at, 0, putline(st, f, at, l))
Open(f, at, n)  == at < size(f) /\ Do("edit", QNONE, f, at, n, Ins(Seek(st, f, at), curlas(f), The!Blanks(n)))
Box(f, at, n, w) ==    \* a box, or blanks, where text was
  LET y == extend(st, f, at)
  IN  Do("edit", QNONE, f, at, n, Rewrite(y, f, at, [i \in 1 .. n |-> The!With(Area(y, f, at, n)[i], w)]))

Join(f, at, n) ==
  /\ at + n < size(f) /\ \A i \in 1 .. n - 1 : st.text[f][at + i + 1] = The!Blank
  /\ Do("edit", QNONE, f, at, n, dojoin(st, f, at, n, Joined(st, f, at, n)))

JoinMark(f, at, n) ==
  /\ at + n < size(f) /\ (f # PICKFILE \/ JoinInPick)
  /\ LET x == Cut(st, f, at, n)
         y == PickLines(x, QCLOSE, f, at, n + 1)
     IN  \/ Do("join", QCLOSE, f, at, n, dojoin(y, f, at, n, Joined(st, f, at, n)))
         \/ /\ HalfFails   \* "check ret val from ed"
            /\ Do("join", QCLOSE, f, at, n, dojoin(PickFails(x, QCLOSE, f, at), f, at, n, Joined(st, f, at, n)))

(* A filter or another program: `feed', or at the end of the file, takes   *)
(* nothing; otherwise the lines it was given are replaced.                 *)
Feed(f, at, new) ==
  Do("edit", QNONE, f, at, 0, Ins(Seek(extend(st, f, at), f, at), curlas(f), new))

Run(b, f, at, n, new) ==
  /\ at < size(f)
  /\ Do("run", b, f, at, n, receive(st, b, f, at, Cap(f, at, n), new))

RunFails(b, f, at, n) ==
  /\ Fails /\ at < size(f)
  /\ Do("fail", b, f, at, n, End(Given(st, b, f, at), b, Cap(f, at, n)))

Next == \E f \in File : \E at \in 0 .. size(f) + 1 :   \* farther behind is alike
  \/ \E n \in Counts :
       \/ Pick(f, at, n) \/ Close(f, at, n) \/ Erase(f, at, n)
       \/ \E b \in {QPICK, QCLOSE, QERASE} : TakeFails(b, f, at, n)
       \/ Open(f, at, n) \/ Box(f, at, n, empty)
       \/ Join(f, at, n) \/ JoinMark(f, at, n)
       \/ \E b \in {QADJUST, QRUN} :
            RunFails(b, f, at, n) \/ \E new \in Filtered : Run(b, f, at, n, new)
  \/ \E b \in {QPICK, QCLOSE, QERASE} : at >= size(f) /\ TakeNone(b, f, at)
  \/ \E b \in Buf : Put(b, f, at) \/ PutFails(b, f, at)
  \/ \E l \in Typed : Type(f, at, l)
  \/ \E new \in Filtered : Feed(f, at, new)

Spec == Init /\ [][Next]_<< st, cmd, edits >>

-----------------------------------------------------------------------------
(* Properties. *)

(* Every variable holds a value of its type; every stream is in its file,  *)
(* and none is left with the order to stay.                                *)
TypeOK ==
  /\ cmd.buf \in Buf \cup {QNONE} /\ cmd.file \in File
  /\ st.text \in [File -> Seq(Line)]
  /\ st.ncols \in [Buf -> {0, 1}] /\ edits \in 0 .. MaxEdits
  /\ \A s \in Stream :
       /\ st.las[s] \in [la_file : File, la_lpos : Nat, la_rlines : Nat, la_stay : BOOLEAN]
       /\ st.las[s].la_lpos <= Lsize(st, st.las[s].la_file)
       /\ ~ st.las[s].la_stay \/ HalfFails

(* What a buffer holds: the lines that its stream has reserved. *)
Held(b) ==
  LET ls == LF!LinesAt(st, buflas(b), Reserved(st, b))
  IN  The!Holds(ls, ls # << >> /\ st.ncols[b] > 0)

(* "The last closed line(s)", "the last text erased": in whatever file, #p *)
(* and #o included, a command that takes text into a buffer leaves there   *)
(* the text it was given for.  (What is closed in #o has been kept already *)
(* and is gone; the buffer may be left with less, but not with else.)      *)
Asked(t, c) ==
  IF c.opc = "join" THEN {The!JoinAsked(t, c.at, c.n)}
  ELSE {The!LinesAsked(t, c.at, c.n), The!RectAsked(t, c.at, c.n)}

TakesWhatIsAsked ==
  [][ \A b \in Buf :
        cmd'.buf = b /\ cmd'.opc \in {"pick", "close", "erase", "join", "run"} =>
          \/ Held(b)' \in Asked(st.text[cmd'.file], cmd')
          \/ cmd'.file = OLDLFILE /\ Held(b)' \in {Held(b), The!Nothing} ]_edits

B == INSTANCE Buffers WITH text <- st.text[UserFile], held <- [b \in Buf |-> Held(b)]

(* Every buffer holds what was last taken into it, and puts just that:     *)
(* edlines, edrect, receive and dojoin implement the module Buffers.       *)
ImplementsBuffers == B!Spec
=============================================================================

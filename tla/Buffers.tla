------------------------------ MODULE Buffers -------------------------------
(***************************************************************************)
(* What the user is promised of the pick, close, erase, adjust and run     *)
(* buffers: each holds what was last taken into it, until something else   *)
(* is, and putting it inserts just that.  There are no pseudo-files and no *)
(* streams in this module; the module QBuf implements it.                  *)
(***************************************************************************)
EXTENDS Integers, Sequences

CONSTANTS
  UserFile, \* the user's file
  Buf,      \* the buffers
  QCLOSE,   \* the one that joining takes text into
  Word,     \* what either part of a line may be
  empty     \* a part that is empty

(* A rectangle is the second part of some lines. *)
Line    == Word \X Word
Blank   == << empty, empty >>
Nothing == [lines |-> << >>, rect |-> FALSE]

VARIABLES
  text,   \* the lines of the user's file
  held,   \* held[b]: what buffer b holds, Nothing or some lines
  cmd     \* the last command, the buffer it was about, and the file and
          \* the lines it was given for

-----------------------------------------------------------------------------
Min2(a, b)        == IF a < b THEN a ELSE b
Blanks(k)         == [i \in 1 .. k |-> Blank]
Lines(t, j, k)    == SubSeq(t, j + 1, Min2(j + k, Len(t)))
Insert(t, j, new) == SubSeq(t, 1, j) \o new \o SubSeq(t, j + 1, Len(t))
Delete(t, j, k)   == SubSeq(t, 1, j) \o SubSeq(t, j + k + 1, Len(t))
Extended(t, k)    == IF k <= Len(t) THEN t ELSE t \o Blanks(k - Len(t))
Area(t, j, k)     == SubSeq(Extended(t, j + k), j + 1, j + k)
Replaced(t, j, ls) == Insert(Delete(t, j, Len(ls)), j, ls)

(* A line's part in the rectangle, and the line with another there. *)
Piece(l)    == << l[2], empty >>
With(l, p)  == << l[1], p >>
Pieces(ls)  == [i \in DOMAIN ls |-> Piece(ls[i])]
Without(ls) == [i \in DOMAIN ls |-> With(ls[i], empty)]

Holds(ls, rect) == IF ls = << >> THEN Nothing ELSE [lines |-> ls, rect |-> rect]

(* What k lines from line j on are, what the rectangle in them is, and what *)
(* is between the places in the first and the last of k + 1 lines.         *)
LinesAsked(t, j, k) == Holds(Lines(t, j, k), FALSE)
RectAsked(t, j, k)  == Holds(Pieces(Area(t, j, k)), TRUE)
JoinAsked(t, j, k)  ==
  LET ls == Area(t, j, k + 1)
  IN  Holds(<< Piece(ls[1]) >> \o SubSeq(ls, 2, k) \o << With(ls[k + 1], empty) >>, FALSE)

-----------------------------------------------------------------------------
Init == text \in Seq(Line) /\ held = [b \in Buf |-> Nothing] /\ cmd.opc = "none"

Cmd(opc, b) == cmd'.opc = opc /\ cmd'.buf = b /\ cmd'.file = UserFile
Take(b, h)  == held' = [held EXCEPT ![b] = h]

(* Typing, opening, boxes, joining: nothing is taken. *)
Edit ==
  /\ cmd'.opc = "edit" /\ cmd'.file = UserFile
  /\ text' \in Seq(Line) /\ UNCHANGED held

(* The lines the command is about. *)
at == cmd'.at
n  == cmd'.n

Pick(b) ==
  /\ Cmd("pick", b) /\ UNCHANGED text
  /\ \/ Take(b, LinesAsked(text, at, n))
     \/ at < Len(text) /\ Take(b, RectAsked(text, at, n))

TakeLines(opc, b, Left(_)) ==
  /\ Cmd(opc, b) /\ Take(b, LinesAsked(text, at, n))
  /\ text' = IF at >= Len(text) THEN text
             ELSE Insert(Delete(text, at, n), at, Left(Len(Lines(text, at, n))))

(* A rectangle that is closed or erased leaves its lines. *)
TakeRect(opc, b) ==
  /\ Cmd(opc, b) /\ at < Len(text) /\ Take(b, RectAsked(text, at, n))
  /\ text' = Replaced(text, at, Without(Area(text, at, n)))

NoLines(k) == << >>
Close(b) == TakeLines("close", b, NoLines) \/ TakeRect("close", b)
Erase(b) == TakeLines("erase", b, Blanks)  \/ TakeRect("erase", b)

(* The lines a program is given are taken, and what it writes is inserted. *)
Run(b) ==
  /\ Cmd("run", b) /\ at < Len(text) /\ Take(b, LinesAsked(text, at, n))
  /\ \E k \in 0 .. Len(text') : Delete(text', at, k) = Delete(text, at, n)

(* Two lines become one; what was between the two places is taken. *)
JoinMark ==
  /\ Cmd("join", QCLOSE) /\ at + n < Len(text) /\ Take(QCLOSE, JoinAsked(text, at, n))
  /\ LET ls == Area(text, at, n + 1)
     IN  text' = Insert(Delete(text, at, n + 1), at, << With(ls[1], ls[n + 1][2]) >>)

(* Putting: lines are inserted, a rectangle goes over the second parts. *)
Put(b) ==
  /\ Cmd("put", b) /\ held[b] # Nothing /\ UNCHANGED held
  /\ LET t  == Extended(text, at)
         ls == held[b].lines
         t2 == Extended(text, at + Len(ls))
     IN  text' = IF ~ held[b].rect THEN Insert(t, at, ls)
                 ELSE Replaced(t2, at, [i \in DOMAIN ls |-> With(t2[at + i], ls[i][1])])

(* What fails leaves the lines of the file alone, but may cost what the    *)
(* buffer held, or come when a rectangle has been taken; and the file may  *)
(* have been made long enough already.                                     *)
Fail(b) ==
  /\ Cmd("fail", b) /\ text' = Extended(text, Len(text'))
  /\ \E h \in {held[b], Nothing, RectAsked(text, at, n)} : Take(b, h)

(* The files the buffers are kept in may be edited too: that can take text *)
(* into one buffer, and costs the others no more than what they hold.      *)
EditOwn ==
  /\ cmd'.file # UserFile /\ UNCHANGED text
  /\ \A c \in Buf \ {cmd'.buf} : held'[c] \in {held[c], Nothing}

Next ==
  \/ Edit \/ JoinMark \/ EditOwn
  \/ \E b \in Buf : Pick(b) \/ Close(b) \/ Erase(b) \/ Run(b) \/ Put(b) \/ Fail(b)

Spec == Init /\ [][Next]_<< text, held, cmd >>
=============================================================================

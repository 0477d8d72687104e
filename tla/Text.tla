-------------------------------- MODULE Text --------------------------------
(* What the user sees of the files being edited: each is a sequence of      *)
(* lines, and an edit changes the lines it names, in the file the user is  *)
(* in, and no others.  There is no line cache in this module; the module   *)
(* CLine implements it.                                                    *)
EXTENDS Integers, Sequences

CONSTANTS
  File,      \* the files
  Word,      \* what a line that is not blank may be
  blank,     \* a blank line
  MaxLines,  \* the greatest length of a file
  Text0      \* Text0[f]: the lines of file f when it is opened

VARIABLES
  text,  \* text[f]: the lines of file f
  cur    \* the file the user is in

Line   == Word \cup {blank}
LineNo == 0 .. MaxLines - 1

Init == text = Text0 /\ cur \in File

-----------------------------------------------------------------------------
(* The edits, as functions of the lines t of a file. *)

Blanks(n) == [i \in 1 .. n |-> blank]

(* The lines, and as many blank ones as it takes to have n. *)
Extended(t, n) == IF n <= Len(t) THEN t ELSE t \o Blanks(n - Len(t))

Insert(t, ln, new) == SubSeq(t, 1, ln) \o new \o SubSeq(t, ln + 1, Len(t))
Delete(t, ln, n)   == SubSeq(t, 1, ln) \o SubSeq(t, ln + n + 1, Len(t))
Put(t, ln, v)      == [Extended(t, ln + 1) EXCEPT ![ln + 1] = v]

-----------------------------------------------------------------------------
(* The user changes the file he is in, to t, and that file only. *)
Edit(t) == Len(t) <= MaxLines /\ text' = [text EXCEPT ![cur] = t] /\ UNCHANGED cur

(* A line becomes another; behind the end of the file there are blank lines. *)
Change == \E ln \in LineNo, v \in Line : Edit(Put(text[cur], ln, v))

(* A line is inserted; behind the end of the file after blank ones. *)
Open == \E ln \in LineNo, v \in Line :
          Edit(Insert(Extended(text[cur], ln), ln, << v >>))

Close == \E ln \in LineNo : ln < Len(text[cur]) /\ Edit(Delete(text[cur], ln, 1))

(* A line goes on, after n - 1 blank ones, on one of its own. *)
Split == \E ln \in LineNo, n \in 1 .. MaxLines, head, tail \in Line :
  /\ ln < Len(text[cur])
  /\ Edit(Insert(Put(text[cur], ln, head), ln + 1, Blanks(n - 1) \o << tail >>))

(* A line takes in the next one that is not blank. *)
Join == \E ln \in LineNo, n \in 1 .. MaxLines, v \in Line :
  /\ ln + n < Len(text[cur])
  /\ \A i \in 1 .. n - 1 : text[cur][ln + i + 1] = blank
  /\ Edit(Delete(Put(text[cur], ln, v), ln + 1, n))

(* The user goes to another file, and no file changes. *)
Go == cur' \in File /\ UNCHANGED text

Next == Change \/ Open \/ Close \/ Split \/ Join \/ Go

Spec == Init /\ [][Next]_<< text, cur >>
=============================================================================

------------------------------- MODULE Reader -------------------------------
(* What the LA package promises those who read a file through it: the file *)
(* is a sequence of lines of bytes, a stream is at a byte of a line, and a  *)
(* read gives the bytes from there on, never past the end of the line.  No *)
(* fsds, no encoded lengths and no offsets; LineBytes implements it.       *)
EXTENDS Integers, Sequences, SequencesExt

CONSTANT Stream

VARIABLES
  text,  \* the lines, each [file, pos, chars, nonl]: where its bytes are, how
         \* many there are, and whether the newline is missing there
  at,    \* at[s]: the line and the byte of it that stream s is at
  got    \* the bytes that the last call gave, if it was a read

vars == << text, at, got >>

(* The bytes of a line.  A newline that is missing on disk is supplied. *)
Bytes(l) == [k \in 1 .. l.chars |-> << l.file, l.pos + k - 1 >>]
              \o (IF l.nonl THEN << << "newline", 0 >> >> ELSE << >>)

AllBytes(ls) == FlattenSeq([i \in DOMAIN ls |-> Bytes(ls[i])])

Init == got = << >> /\ at = [s \in Stream |-> [line |-> 0, byte |-> 0]]

Seek(s) ==
  /\ \E n \in 0 .. Len(text) : at' = [at EXCEPT ![s] = [line |-> n, byte |-> 0]]
  /\ got' = << >>
  /\ UNCHANGED text

Read(s) ==
  /\ at[s].line < Len(text)
  /\ LET line == Bytes(text[at[s].line + 1])
         rest == SubSeq(line, at[s].byte + 1, Len(line))
     IN \E k \in 1 .. Len(rest) :
          /\ got' = SubSeq(rest, 1, k)
          /\ at' = [at EXCEPT ![s] = IF k = Len(rest) THEN [line |-> @.line + 1, byte |-> 0]
                                                      ELSE [@ EXCEPT !.byte = @ + k]]
  /\ UNCHANGED text

(* New lines appear before the line that s is at.  Every stream stays at    *)
(* its byte, s at the beginning of its line.                               *)
Insert(s) ==
  LET here == at[s].line
      back == [at EXCEPT ![s].byte = IF here = Len(text) THEN @ ELSE 0]
  IN
  /\ \E n \in 0 .. Len(text') - Len(text) :
       /\ text' = SubSeq(text, 1, here) \o SubSeq(text', here + 1, here + n)
                    \o SubSeq(text, here + 1, Len(text))
       /\ at' = [t \in Stream |-> IF back[t].line >= here
                                    THEN [back[t] EXCEPT !.line = @ + n] ELSE back[t]]
  /\ got' = << >>

(* Lines go away.  A stream in one of them is where they were. *)
Delete(s) ==
  LET here == at[s].line IN
  /\ \E n \in 1 .. Len(text) - here :
       /\ text' = SubSeq(text, 1, here) \o SubSeq(text, here + n + 1, Len(text))
       /\ at' = [t \in Stream |->
                   CASE at[t].line < here -> at[t]
                     [] at[t].line >= here + n -> [at[t] EXCEPT !.line = @ - n]
                     [] OTHER -> [line |-> here, byte |-> 0]]
  /\ got' = << >>

Forget == got' = << >> /\ UNCHANGED << text, at >>

Next == Forget \/ \E s \in Stream : Seek(s) \/ Read(s) \/ Insert(s) \/ Delete(s)

Spec == Init /\ [][Next]_vars
=============================================================================

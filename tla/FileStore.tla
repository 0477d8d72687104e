------------------------------ MODULE FileStore ------------------------------
(***************************************************************************)
(* What the FF package promises its callers: a file is one array of bytes, *)
(* a read delivers the bytes of the file, a write replaces or appends      *)
(* bytes, and nothing else a call does (writing buffers out, taking over a *)
(* buffer for another block, releasing buffers, closing) changes a byte.   *)
(* There is no cache, no disk and no file position in this module; the     *)
(* module FF implements it.                                                *)
(***************************************************************************)
EXTENDS Naturals, Sequences

CONSTANTS
  Path,     \* the files
  NoPath,   \* the path of a call that concerns no file
  Byte,     \* what a byte may be
  Hole,     \* what is read where nothing was written
  Addr      \* the byte addresses 0 .. limit-1 of a file

VARIABLES
  size,     \* size[p]: the length of file p
  data,     \* data[p][a]: its byte at address a; Hole from size[p] on
  call      \* the call in progress, or op = "none" and how the last one ended

vars == <<size, data, call>>

Requests ==
  [op : {"read", "write", "flush", "sync", "close", "grow", "free"},
   p : Path \cup {NoPath}, at : Nat, n : Nat, v : Byte \cup {Hole},
   done : {0}, got : {<< >>}, ret : {"ok"}]

(* The span of the request already carried out. *)
Written == call.at .. call.at + call.done - 1

Overlay(d, span, v) == [a \in Addr |-> IF a \in span THEN v ELSE d[a]]

Init ==
  /\ size \in [Path -> Nat]
  /\ data \in [Path -> [Addr -> Byte \cup {Hole}]]
  /\ call.op = "none"

(* A caller makes a call; nothing has happened yet. *)
Begin ==
  /\ call.op = "none"
  /\ call' \in Requests
  /\ UNCHANGED <<size, data>>

(* Some more of a write takes effect.  Bytes inside the file change at     *)
(* once; those past its end show only when the write returns.              *)
WriteSome ==
  /\ call.op = "write"
  /\ \E k \in 1 .. call.n - call.done :
       LET span == call.at + call.done .. call.at + call.done + k - 1
       IN  /\ data' = [data EXCEPT ![call.p] =
                         Overlay(@, span \cap 0 .. size[call.p] - 1, call.v)]
           /\ call' = [call EXCEPT !.done = @ + k]
  /\ UNCHANGED size

(* A write that ran to its end returns: the file holds the whole request.  *)
WriteOK ==
  /\ call.op = "write" /\ call.done = call.n
  /\ data' = [data EXCEPT ![call.p] = Overlay(@, Written, call.v)]
  /\ size' = [size EXCEPT ![call.p] =
                IF call.at + call.n > @ THEN call.at + call.n ELSE @]
  /\ call'.op = "none"

(* A read delivers the next bytes of the file, in order.                   *)
ReadSome ==
  /\ call.op = "read"
  /\ \E k \in 1 .. call.n - call.done :
       /\ call.at + call.done + k <= size[call.p]
       /\ call' = [call EXCEPT
             !.done = @ + k,
             !.got = @ \o [i \in 1 .. k |-> data[call.p][call.at + call.done + i - 1]]]
  /\ UNCHANGED <<size, data>>

(* A call ends, with success or with an error, and the file is as it was.  *)
(* What a failed write put past the end of the file is not part of it.     *)
Return ==
  /\ call.op # "none" /\ call'.op = "none"
  /\ UNCHANGED <<size, data>>

(* ff_grow, or closing and opening again, finds bytes past the end that    *)
(* this stream did not put there.  The bytes already known stay.           *)
Discover ==
  /\ call.op \in {"grow", "close"} /\ call'.op = "none"
  /\ size'[call.p] > size[call.p]
  /\ size' = [size EXCEPT ![call.p] = size'[call.p]]
  /\ \A p \in Path \ {call.p} : data'[p] = data[p]
  /\ \A a \in Addr : a < size[call.p] => data'[call.p][a] = data[call.p][a]

Next == Begin \/ WriteSome \/ WriteOK \/ ReadSome \/ Return \/ Discover

Spec == Init /\ [][Next]_vars
==============================================================================

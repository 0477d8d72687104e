---------------------------- MODULE LAInvariant ----------------------------
(***************************************************************************)
(* The inductive invariant of LA: what is true between any two steps of    *)
(* an operation, so that the next step, or its failure, cannot go wrong.   *)
(*                                                                         *)
(*   Books   which fsds are where, that the counts are right, and that     *)
(*           every stream is in its chain at its line;                     *)
(*   Script  in which order an operation takes its steps;                  *)
(*   Who     which streams an operation works on;                          *)
(*   Stage   what each step finds that the steps before it have prepared;  *)
(*   Text1   what is true of the lines being collected, and of files that  *)
(*           nothing was done to.                                          *)
(***************************************************************************)
EXTENDS LA

-----------------------------------------------------------------------------
(* Chains.  m is a memory, that is a value of fsd. *)

(* Sums(m, ds)[i]: the lines in the first i fsds of a chain. *)
Sums(m, ds) ==
  LET c[i \in 0 .. Len(ds)] == IF i = 0 THEN 0 ELSE c[i - 1] + m[ds[i]].fsdnlines
  IN  c
Size(m, ds) == Sums(m, ds)[Len(ds)]

(* Behind the last fsd there is the empty one, which has room for a stream. *)
Nth(ds, i)  == IF i <= Len(ds) THEN ds[i] ELSE Eof
Width(m, d) == IF d = Eof THEN 1 ELSE m[d].fsdnlines
Elems(ds)   == {ds[i] : i \in 1 .. Len(ds)}
Inj(ds)     == \A i, j \in 1 .. Len(ds) : ds[i] = ds[j] => i = j

(* A stream is in the i-th fsd of a chain, and at the line it says. *)
IsAt(m, ds, x, i) == /\ x.la_cfsd = Nth(ds, i)
                     /\ x.la_fsline < Width(m, Nth(ds, i))
                     /\ x.la_lpos = Sums(m, ds)[i - 1] + x.la_fsline
InChain(m, ds, x) == \E i \in 1 .. Len(ds) + 1 : IsAt(m, ds, x, i)

(* Line n is where an fsd begins or the chain ends; fsd d begins there. *)
Bound(m, ds, n) == \E i \in 0 .. Len(ds) : Sums(m, ds)[i] = n
Pointed(m, ds, d, n) == \E j \in 1 .. Len(ds) + 1 : d = Nth(ds, j) /\ Sums(m, ds)[j - 1] = n

-----------------------------------------------------------------------------
(* The books. *)

(* The places where fsds are: the chains of the files, and the lists of    *)
(* the operation in progress.                                              *)
Spot == ({0} \X Files) \cup {<< 1, NoFile >>, << 2, NoFile >>, << 3, NoFile >>}
ListsOf(ch, a, b, c) ==
  [k \in Spot |-> CASE k[1] = 0 -> ch[k[2]] [] k[1] = 1 -> a [] k[1] = 2 -> b [] k[1] = 3 -> c]
Lists == ListsOf(chain, call.new, call.tail, call.cut)

(* No fsd is in two places, or twice in one; the others are free. *)
Apart(L) == /\ \A k \in Spot : Inj(L[k])
            /\ \A k, l \in Spot : k # l => Elems(L[k]) \cap Elems(L[l]) = {}
Used(m, L) == \A d \in Fsd : m[d].fsdfile # NoFile <=> \E k \in Spot : d \in Elems(L[k])
Placing(m, L) == Apart(L) /\ Used(m, L)

Phase == IF call.todo = << >> THEN "end" ELSE Head(call.todo)

Lined(m) == \A d \in Fsd : m[d].fsdfile # NoFile => m[d].fsdnlines \in 1 .. LA_FSDLMAX

(* What an fsd describes is in its file, unless it is still to be written. *)
Within1(d) == fsd[d].fsdpos + fsd[d].fsdnlines <= Len(Store(fsd[d].fsdfile))
InStore == \A d \in Fsd : fsd[d].fsdfile # NoFile =>
              Within1(d) \/ (d \in Elems(call.new) /\ Phase \in {"parse", "write"})

Numbered == \A f \in Files : laf[f].la_nlines = Size(fsd, chain[f])
Shut == \A f \in File : ~ IsOpen(f) => chain[f] = << >>
Placed == \A s \in Streams :
            IF Open(s) THEN InChain(fsd, chain[las[s].la_file], las[s]) ELSE las[s] = Closed

(* la_refs counts the streams of a file; the change file has two of its own. *)
At1(f) == {s \in Stream : las[s].la_file = f}
Refs == /\ \A f \in File : IsFiniteSet(At1(f)) /\ laf[f].la_refs = Cardinality(At1(f))
        /\ \A s \in Stream : las[s].la_file # Chg
        /\ laf[Chg].la_refs = 2

(* The stream of la_blank stays at the beginning of its blank lines. *)
Filler == LET x == las[Blas]
          IN  /\ x.la_file = Chg /\ x.la_fsline = 0 /\ x.la_lpos = 0
              /\ chain[Chg] # << >> => /\ Len(chain[Chg]) = 1
                                       /\ fsd[chain[Chg][1]].fsdnlines = LA_FSDLMAX

Collected == coll.on => coll.chgpos < coll.nxchgpos /\ coll.nxchgpos <= Len(chg)

Books == /\ Placing(fsd, Lists) /\ Lined(fsd) /\ Numbered /\ Shut /\ Placed
         /\ Refs /\ FsrefsExact /\ Filler
Base == TypeOK /\ Books /\ InStore /\ Collected

-----------------------------------------------------------------------------
(* The order of the steps.  Step x is followed by y, or by the end. *)
Cuts == call.bad \/ call.op \in {"replace", "delete", "collect"}
Copying == call.op \in {"copy", "blank"} /\ ~ call.bad
Leads(x, y) ==
  \/ x = "parse" /\ call.op = "open" /\ y = "openret" /\ ~ call.bad
  \/ x = "openret" /\ call.op = "open" /\ y = "end" /\ ~ call.bad
  \/ x = "zp" /\ call.op \in {"insert", "replace", "collect"} /\ y = "parse" /\ ~ call.bad
  \/ x = "parse" /\ call.op \in {"insert", "replace"} /\ y = "write" /\ ~ call.bad
  \/ x = "write" /\ call.op \in {"insert", "replace"} /\ y = "link" /\ ~ call.bad
  \/ x = "link" /\ call.op \in {"insert", "collect"} /\ y = "end" /\ ~ call.bad
  \/ x = "link" /\ call.op = "replace" /\ y = "del" /\ ~ call.bad
  \/ x = "parse" /\ call.op = "collect" /\ y = "room" /\ ~ call.bad
  \/ x = "room" /\ call.op = "collect" /\ y \in {"del", "link"} /\ ~ call.bad
  \/ x = "del" /\ call.op \in {"replace", "delete"} /\ y = "end" /\ ~ call.bad
  \/ x = "del" /\ call.op = "collect" /\ y = "link" /\ ~ call.bad
  \/ x = "zd" /\ Cuts /\ y = "break" /\ ~ call.bad
  \/ x = "back" /\ y = "break" /\ call.bad
  \/ x = "break" /\ Cuts /\ y = "bend"
  \/ x = "bend" /\ Cuts /\ y = "unlink"
  \/ x = "unlink" /\ Cuts /\ y = "place"
  \/ x = "place" /\ Cuts /\ y = IF call.op = "collect" THEN "link" ELSE "end"
  \/ x = "zd" /\ Copying /\ y = "chead"
  \/ x = "chead" /\ Copying /\ y = "ctail"
  \/ x = "ctail" /\ Copying /\ y = "walk"
  \/ x = "walk" /\ Copying /\ y = "linkd"
  \/ x = "linkd" /\ Copying /\ y = IF call.op = "copy" THEN "end" ELSE "chunk"
  \/ x = "bprep" /\ call.op = "blank" /\ y = "chunk" /\ ~ call.bad
  \/ x = "chunk" /\ call.op = "blank" /\ y = "end" /\ ~ call.bad

Script == /\ call.bad => call.op \in {"replace", "blank"}
          /\ \A i \in 1 .. Len(call.todo) :
               Leads(call.todo[i], IF i < Len(call.todo) THEN call.todo[i + 1] ELSE "end")

-----------------------------------------------------------------------------
(* Who takes part. *)

X  == las[call.p]
Ds == chain[X.la_file]

(* Line n of the file of a stream, or the stream's own, is an end of an fsd. *)
Edge(s, n) == Bound(fsd, chain[las[s].la_file], n)
Edged(s)   == Edge(s, las[s].la_lpos)

(* The n lines before a stream are whole fsds: they can be cut out again    *)
(* without any memory.                                                     *)
Cleft(s, n) == n <= las[s].la_lpos /\ Edged(s) /\ Edge(s, las[s].la_lpos - n)

ToDelete == \E i \in 1 .. Len(call.todo) : call.todo[i] = "del"
Who ==
  /\ call.op \notin {"none", "open"} =>
       /\ call.p \in (IF call.op = "blank" /\ ~ call.bad THEN {Blas} ELSE Stream) /\ Open(call.p)
       /\ call.d # None => call.d \in Stream /\ Open(call.d)
       /\ Copying => call.d # None
       /\ call.bad => call.d = None
       /\ call.op = "replace" /\ ~ call.bad => ~ X.la_stay
       /\ call.op = "blank" /\ ~ call.bad => ~ las[call.d].la_stay
  /\ call.op \in {"replace", "delete"} => call.n > 0
  /\ call.op = "collect" /\ ToDelete => call.n > 0
  /\ call.op \notin {"replace", "blank"} => call.cnt = 0

-----------------------------------------------------------------------------
(* What each step finds. *)

Loose   == call.tail = << >> /\ call.cut = << >>
Nothing == call.new = << >> /\ Loose

(* Describing lines: what has been described, and what is left of it. *)
Limit == CASE call.op = "open" -> Len(DiskText[call.own])
           [] call.op = "collect" -> coll.nxchgpos
           [] OTHER -> Len(chg) + Len(call.text)
Asked  == call.own = Chg /\ (call.op = "collect" => coll.on) /\ call.cnt = 0
Opening == call.p \in Stream /\ ~ Open(call.p) /\ call.own \in File /\ ~ IsOpen(call.own)
Parsed == \A d \in Elems(call.new) :
            fsd[d].fsdfile = call.own /\ fsd[d].fsdpos + fsd[d].fsdnlines <= call.pos

InZp    == Nothing /\ Asked /\ call.left > 0 /\ call.pos + call.left = Limit
InParse == /\ Loose /\ Parsed /\ call.pos + call.left = Limit
           /\ IF call.op = "open" THEN Opening
              ELSE Asked /\ Edged(call.p) /\ (call.new # << >> \/ call.left > 0)
InOpen  == Loose /\ Opening
InLink  == Loose /\ call.new # << >> /\ Edged(call.p) /\ call.cnt = 0
InWrite == InLink /\ Parsed /\ call.own = Chg /\ call.pos = Len(chg) + Len(call.text)

(* Deleting, moving and undoing.  Only a collection has a new chain still. *)
Keeping == call.new # << >> <=> call.op = "collect"
InDel   == /\ Loose /\ Keeping /\ call.n > 0
           /\ call.op = "collect" => Edged(call.p)
           /\ call.op = "replace" /\ ~ call.bad => call.cnt > 0 /\ Cleft(call.p, call.cnt)
Before1 == X.la_lpos < laf[X.la_file].la_nlines
InZd    == InDel /\ Before1 /\ call.d # None
Apart1  == call.d # None => Edged(call.d)
InBreak == /\ InDel /\ Before1 /\ Apart1
           /\ call.bad => Edged(call.p) /\ Edge(call.p, X.la_lpos + call.n)
InBend  == InBreak /\ Edged(call.p)
InUnlink == /\ Loose /\ Keeping /\ call.n > 0 /\ Apart1 /\ Edged(call.p)
            /\ Pointed(fsd, Ds, call.cfsd, X.la_lpos + call.n)
InPlace == /\ call.tail = << >> /\ call.cut # << >> /\ Keeping /\ Apart1
           /\ call.op = "collect" => Edged(call.p)
InBack  == Nothing /\ call.cnt > 0 /\ Cleft(call.p, call.cnt) /\ call.n = call.cnt

(* Copying.  The lines to be copied end within an fsd; what is before them *)
(* there is what the last fsd of the copy has.                             *)
Inside(m, ds, n, tail) ==
  \E e \in 1 .. Len(ds) : /\ Sums(m, ds)[e - 1] < n /\ n < Sums(m, ds)[e]
                          /\ Sums(m, ds)[e - 1] + Size(m, tail) = n
Filled == /\ call.n > 0
          /\ call.op = "blank" => /\ chain[Chg] # << >> /\ call.n <= LA_FSDLMAX
                                  /\ call.cnt > 0 => Cleft(call.d, call.cnt)
AtCopy == Filled /\ Before1 /\ call.cfsd = X.la_cfsd
InZdCopy == Nothing /\ AtCopy /\ (~ Broken(las[call.d]) => las[call.d].la_cfsd # call.cfsd)
InChead  == Nothing /\ AtCopy /\ Edged(call.d)
InCtail  == /\ Loose /\ AtCopy /\ Edged(call.d)
            /\ IF call.new = << >> THEN X.la_fsline = 0
               ELSE /\ Size(fsd, call.new) + X.la_fsline = fsd[X.la_cfsd].fsdnlines
                    /\ call.n >= Size(fsd, call.new)
Lacking == /\ call.left <= X.la_lpos + call.n
           /\ Pointed(fsd, Ds, call.cfsd, X.la_lpos + call.n - call.left)
           /\ IF call.tail = << >> THEN Edge(call.p, X.la_lpos + call.n)
              ELSE Inside(fsd, Ds, X.la_lpos + call.n, call.tail)
InWalk   == /\ call.cut = << >> /\ Filled /\ Edged(call.d) /\ Size(fsd, call.new) + call.left = call.n
            /\ IF call.left = 0 THEN call.tail = << >> ELSE Lacking
InLinkd  == Loose /\ call.new # << >> /\ Filled /\ Edged(call.d) /\ Size(fsd, call.new) = call.n
InBprep  == Nothing /\ call.n = 0 /\ call.cnt = 0
InChunk  == Nothing /\ chain[Chg] # << >> /\ (call.cnt + call.n > 0 => Cleft(call.d, call.cnt + call.n))

Stage ==
  /\ Phase = "end" => Nothing
  /\ Phase = "zp" => InZp
  /\ Phase = "parse" => InParse
  /\ Phase = "openret" => InOpen
  /\ Phase = "write" => InWrite
  /\ Phase \in {"room", "link"} => InLink
  /\ Phase = "del" => InDel
  /\ Phase = "zd" /\ Cuts => InZd
  /\ Phase = "break" => InBreak
  /\ Phase = "bend" => InBend
  /\ Phase = "unlink" => InUnlink
  /\ Phase = "place" => InPlace
  /\ Phase = "back" => InBack
  /\ Phase = "zd" /\ Copying => InZdCopy
  /\ Phase = "chead" => InChead
  /\ Phase = "ctail" => InCtail
  /\ Phase = "walk" => InWalk
  /\ Phase = "linkd" => InLinkd
  /\ Phase = "bprep" => InBprep
  /\ Phase = "chunk" => InChunk

(* la_lcopy never finds the last fsd it needs to be missing or of another  *)
(* length ("lacopy last fsd null"), and never runs off the end of a chain. *)
NeverAbort == call.ret # "abort"

IInv == Base /\ Script /\ Who /\ Stage /\ NeverAbort

-----------------------------------------------------------------------------
(* What is true of the texts: of the lines being collected, and of the     *)
(* files that nothing was done to.                                         *)

(* n lines of the change file from line p on are none of those being       *)
(* collected.  The end of a collection itself describes them, by the fsds  *)
(* it has made and, once all is done, links.                               *)
Out(c, p, n) == p >= c.nxchgpos \/ p + n <= c.chgpos
Spared(d)    == call.op = "collect" /\ (call.todo = << >> \/ d \in Elems(call.new))
Uncollected  == coll.on =>
  \A d \in Fsd : fsd[d].fsdfile = Chg => Out(coll, fsd[d].fsdpos, fsd[d].fsdnlines) \/ Spared(d)

(* What an insert or a replace describes is at the end of the change file. *)
Appending == call.op \in {"insert", "replace"} /\ ~ call.bad => call.pos >= Len(chg)

(* A chain that is all of the file f on disk, and in its order; it is what *)
(* la_open makes, fsd by fsd.                                              *)
Straight(m, ds, f) == \A i \in 1 .. Len(ds) : m[ds[i]].fsdfile = f /\ m[ds[i]].fsdpos = Sums(m, ds)[i - 1]
Whole(m, ds, f)    == Straight(m, ds, f) /\ Size(m, ds) = Len(DiskText[f])
Untouched == \A f \in File : IsOpen(f) /\ ~ laf[f].la_mode => Whole(fsd, chain[f], f)
Reading   == call.op = "open" =>
  /\ Phase \in {"parse", "openret"} => Straight(fsd, call.new, call.own) /\ Size(fsd, call.new) = call.pos
  /\ Phase = "openret" => call.pos = Len(DiskText[call.own])

Text1 == Appending /\ Uncollected /\ Reading /\ Untouched
JInv  == IInv /\ Text1
=============================================================================

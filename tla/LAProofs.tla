----------------------------- MODULE LAProofs ------------------------------
(* Theorems about LA, for any number of files, streams, fsds and lines,    *)
(* any texts, and whatever fails: that LAInvariant is invariant, and what  *)
(* follows from it.                                                        *)
EXTENDS LAChainProofs

-----------------------------------------------------------------------------
(* The stream goes back before what is to be deleted again. *)
LEMMA BackNext ==
  ASSUME IInv, Back
  PROVE  IInv'
<1>0. /\ TypeOK /\ Books /\ InStore /\ Collected /\ Script /\ Who /\ Stage /\ NeverAbort /\ VarTypes /\ call \in Calls
      /\ chg \in Seq(Line) /\ CollType
  BY InvParts DEF CollType
<1>1. Do("back") /\ call' = Done /\ fsd' = fsd /\ chain' = chain /\ laf' = laf /\ chg' = chg /\ coll' = coll
  BY DEF Back
<1>2. Advanced /\ Script' /\ Phase = "back" /\ Leads("back", Phase') /\ (ToDelete' => ToDelete) /\ SameLists
  BY <1>1, AdvancedIs
<1>3. call.bad /\ Phase' = "break"
  BY <1>2 DEF Leads
<1>4. call.op \in {"replace", "blank"} /\ call.op \notin {"none", "open"}
  BY <1>0, <1>3 DEF Script
<1>5. InBack
  BY <1>0, <1>2 DEF Stage
<1>6. Nothing /\ call.cnt > 0 /\ Cleft(call.p, call.cnt) /\ call.n = call.cnt
  BY <1>5 DEF InBack
<1>7. PICK p : p = call.p
  OBVIOUS
<1>8. p \in Stream /\ p \in Streams /\ Open(p) /\ call.d = None
  BY <1>3, <1>4, <1>7, Actors
<1>9. PICK c : c = call.cnt
  OBVIOUS
<1>10. c \in Nat /\ c > 0 /\ Cleft(p, c)
  BY <1>0, <1>6, <1>7, <1>9, CallIs
<1>11. las[p].la_file \in Files /\ PlaceFacts(fsd, chain[las[p].la_file], las[p]) /\ las[p] \in LaStreams
       /\ laf[las[p].la_file].la_nlines = Size(fsd, chain[las[p].la_file]) /\ chain[las[p].la_file] \in Seq(Fsd)
  BY <1>0, <1>8, StreamHas, StreamIs DEF Chained
<1>12. PICK f : f = las[p].la_file
  OBVIOUS
<1>33. PICK a : a = las[p].la_lpos
  OBVIOUS
<1>34. PICK l : l = Size(fsd, chain[f])
  OBVIOUS
<1>13. a \in Nat /\ a <= l /\ l \in Nat /\ c <= a
  <2>1. Size(fsd, chain[f]) \in Nat
    BY <1>0, <1>11, <1>12, SizeNat DEF VarTypes
  <2>2. QED BY <2>1, <1>10, <1>11, <1>12, <1>33, <1>34 DEF PlaceFacts, Cleft
<1>14. Edge(p, a) /\ Edge(p, a - c)
  BY <1>10, <1>33 DEF Cleft, Edged
<1>15. PICK m \in Nat : m = a - c
  BY <1>10, <1>13
<1>16. PICK x : x = Seek(las[p], m)
  OBVIOUS
<1>17. Sought(las[p], x, m)
  BY <1>0, <1>8, <1>15, <1>16, StreamSeek
<1>18. x \in LaStreams /\ x.la_file = f /\ InChain(fsd, chain[f], x) /\ x.la_stay = las[p].la_stay
       /\ x.la_lpos = IF m <= 0 THEN 0 ELSE IF m >= l THEN l ELSE m
  BY <1>11, <1>12, <1>17, <1>34 DEF Sought, SeekTo
<1>19. x.la_lpos = m /\ m < l /\ m + c = a
  BY <1>10, <1>13, <1>15, <1>18
<1>20. las' = [las EXCEPT ![p] = x]
  BY <1>7, <1>9, <1>15, <1>16, <1>33 DEF Back
<1>21. Moves(p, x)
  BY <1>1, <1>2, <1>8, <1>12, <1>18, <1>20 DEF Moves
<1>22. Books' /\ VarTypes' /\ las'[p] = x /\ \A t \in Streams : las'[t].la_file = las[t].la_file /\ (t # p => las'[t] = las[t])
  BY <1>0, <1>21, MoveBooks
<1>23. InStore'
  BY <1>0, <1>1, <1>2, StoreKept DEF Filling
<1>24. Who'
  <2>1. \A t \in Streams : las'[t].la_file = las[t].la_file /\ las'[t].la_stay = las[t].la_stay
    BY <1>18, <1>22
  <2>2. WhoKept
    BY <2>1, <1>2 DEF WhoKept, Advanced
  <2>3. QED BY <2>2, <1>0, WhoFrame
<1>25. X' = x /\ Ds' = chain[f] /\ call'.p = p /\ call'.n = c
  BY <1>1, <1>2, <1>6, <1>7, <1>9, <1>18, <1>22 DEF X, Ds, Advanced
<1>26. Edge(p, m)' /\ Edge(p, a)'
  <2>1. Edge(p, m) /\ Edge(p, a)
    BY <1>14, <1>15
  <2>2. Bound(fsd, chain[f], m) /\ Bound(fsd, chain[f], a)
    BY <2>1, <1>12 DEF Edge
  <2>3. las'[p].la_file = f
    BY <1>18, <1>22
  <2>4. Bound(fsd', chain'[f], m) /\ Bound(fsd', chain'[f], a)
    BY <2>2, <1>1
  <2>5. QED BY <2>3, <2>4 DEF Edge
<1>27. InBreak'
  <2>1. (Loose /\ Keeping /\ call.n > 0)'
    BY <1>2, <1>4, <1>6, <1>9, <1>10, <1>25 DEF Nothing, Loose, Keeping, Advanced
  <2>2. InDel'
    BY <2>1, <1>2, <1>3, <1>4 DEF InDel, Advanced
  <2>3. Before1'
    BY <1>1, <1>11, <1>12, <1>18, <1>19, <1>25, <1>34 DEF Before1
  <2>4. Apart1'
    BY <1>2, <1>8 DEF Apart1, Advanced
  <2>5. (Edged(call.p) /\ Edge(call.p, X.la_lpos + call.n))'
    <3>1. x.la_lpos + c = a
      BY <1>19
    <3>2. QED BY <3>1, <1>19, <1>22, <1>25, <1>26 DEF Edged, X
  <2>6. QED BY <2>2, <2>3, <2>4, <2>5 DEF InBreak
<1>28. Stage'
  BY <1>3, <1>27 DEF Stage
<1>29. Going
  BY <1>2, <1>24, <1>28 DEF Going, Advanced
<1>30. Collected' /\ CollType' /\ chg' \in Seq(Line)
  BY <1>0, <1>1, CollSame
<1>31. QED BY <1>0, <1>22, <1>23, <1>29, <1>30, StepNext

-----------------------------------------------------------------------------
(* The steps of describing, writing and linking new lines.                 *)

(* A step that changes nothing but the call, and leaves its lists alone. *)
Aside == Idly /\ SameLists /\ chg' = chg /\ coll' = coll

(* The invariant, after a step that leaves files, streams and fsds alone.  *)
LEMMA AsideNext ==
  ASSUME IInv, Aside, InStore', Going
  PROVE  IInv'
<1>0. TypeOK /\ Books /\ Collected /\ NeverAbort /\ CollType /\ chg \in Seq(Line)
  BY InvParts DEF CollType
<1>1. Books' /\ VarTypes'
  BY <1>0, SameBooks DEF Aside
<1>2. Collected' /\ CollType' /\ chg' \in Seq(Line)
  BY <1>0, CollSame DEF Aside
<1>3. QED BY <1>0, <1>1, <1>2, StepNext

(* Who takes part is kept when the operation goes on and no stream goes to *)
(* another file.                                                           *)
LEMMA WhoSame ==
  ASSUME IInv, Advanced, ToDelete' => ToDelete,
         \A s \in Streams : las'[s].la_file = las[s].la_file /\ las'[s].la_stay = las[s].la_stay
  PROVE  Who'
<1>1. Who
  BY InvParts
<1>2. WhoKept
  BY DEF WhoKept, Advanced
<1>3. QED BY <1>1, <1>2, WhoFrame

(* When no chain and no stream changes, who is at an end of an fsd stays   *)
(* so.                                                                     *)
LEMMA SameEdges ==
  ASSUME Idly, NEW s
  PROVE  /\ Open(s)' <=> Open(s)
         /\ Edged(s)' <=> Edged(s)
         /\ \A n : Edge(s, n)' <=> Edge(s, n)
         /\ \A n : Cleft(s, n)' <=> Cleft(s, n)
<1>1. Open(s)' <=> Open(s)
  BY DEF Idly, Open
<1>2. Edged(s)' <=> Edged(s)
  BY DEF Idly, Edged, Edge
<1>3. \A n : Edge(s, n)' <=> Edge(s, n)
  BY DEF Idly, Edge
<1>4. \A n : Cleft(s, n)' <=> Cleft(s, n)
  BY DEF Idly, Edged, Edge, Cleft
<1>5. QED BY <1>1, <1>2, <1>3, <1>4

(* The end of describing the new lines keeps the invariant.                *)
LEMMA ParseEndNext ==
  ASSUME IInv, ParseEnd
  PROVE  IInv'
<1>0. /\ TypeOK /\ Books /\ InStore /\ Collected /\ Script /\ Who /\ Stage /\ NeverAbort /\ VarTypes /\ call \in Calls
      /\ chg \in Seq(Line) /\ CollType
  BY InvParts DEF CollType
<1>1. Do("parse") /\ call.left = 0 /\ call' = Done /\ Idly /\ chg' = chg /\ coll' = coll
  BY DEF ParseEnd, Idly
<1>2. Advanced /\ Script' /\ Phase = "parse" /\ Leads("parse", Phase') /\ (ToDelete' => ToDelete) /\ SameLists
  BY <1>1, AdvancedIs
<1>3. InParse
  BY <1>0, <1>2 DEF Stage
<1>4. ~ call.bad /\ \/ call.op = "open" /\ Phase' = "openret"
                    \/ call.op \in {"insert", "replace"} /\ Phase' = "write"
                    \/ call.op = "collect" /\ Phase' = "room"
  BY <1>2 DEF Leads
<1>5. Loose /\ Parsed /\ call.pos = Limit
  <2>1. call.pos \in Nat
    BY <1>0, CallIs
  <2>2. call.pos + 0 = Limit /\ Loose /\ Parsed
    BY <1>1, <1>3 DEF InParse
  <2>3. QED BY <2>1, <2>2
<1>6. Who'
  BY <1>1, <1>2, WhoSame DEF Idly
<1>7. InStore'
  <2>1. ASSUME NEW d \in Fsd, fsd[d].fsdfile # NoFile, d \in Elems(call.new), call.op \in {"open", "collect"}
        PROVE  Within1(d)'
    <3>1. fsd[d].fsdfile = call.own /\ fsd[d].fsdpos + fsd[d].fsdnlines <= call.pos
      BY <1>5, <2>1 DEF Parsed
    <3>2. call.pos <= Len(Store(call.own))
      <4>1. CASE call.op = "open"
        <5>1. call.own \in File
          BY <1>3, <4>1 DEF InParse, Opening
        <5>2. call.own # Chg
          BY <5>1, NameAssumption
        <5>3. Len(DiskText[call.own]) \in Nat
          <6>1. DiskText[call.own] \in Seq(Line)
            BY <5>1, TextAssumption
          <6>2. QED BY <6>1
        <5>4. call.pos = Len(DiskText[call.own])
          BY <1>5, <4>1 DEF Limit
        <5>5. QED BY <5>2, <5>3, <5>4 DEF Store
      <4>2. CASE call.op = "collect"
        <5>1. call.own = Chg /\ coll.on
          BY <1>3, <4>2 DEF InParse, Asked
        <5>2. call.pos = coll.nxchgpos
          BY <1>5, <4>2 DEF Limit
        <5>3. coll.nxchgpos <= Len(chg)
          BY <5>1, <1>0 DEF Collected
        <5>4. QED BY <5>1, <5>2, <5>3 DEF Store
      <4>3. QED BY <4>1, <4>2, <2>1
    <3>3. call.own \in Files
      <4>1. NoFile # call.own
        BY <3>1, <2>1
      <4>2. QED BY <4>1, <1>0, CallIs
    <3>4. Len(Store(call.own)) \in Nat /\ call.pos \in Nat /\ fsd[d].fsdpos \in Nat /\ fsd[d].fsdnlines \in Nat
      BY <3>3, <1>0, StoreLen, CallIs DEF VarTypes, Fsds
    <3>5. fsd[d].fsdpos + fsd[d].fsdnlines <= Len(Store(fsd[d].fsdfile))
      BY <3>1, <3>2, <3>4
    <3>6. QED BY <3>5, <1>1 DEF Within1, Store, Idly
  <2>2. call.op \in {"insert", "replace"} => Filling'
    BY <1>4 DEF Filling
  <2>3. \A d \in Fsd : fsd'[d].fsdfile # NoFile =>
           \/ fsd'[d] = fsd[d] /\ (Filling => d \notin Elems(call.new))
           \/ fsd'[d] = fsd[d] /\ Filling' /\ (d \in Elems(call.new) => d \in Elems(call'.new))
           \/ Within1(d)'
    BY <2>1, <2>2, <1>1, <1>2, <1>4 DEF Idly, SameLists
  <2>4. Len(chg') >= Len(chg) /\ fsd \in [Fsd -> Fsds]
    <3>1. Len(chg) \in Nat
      BY <1>0
    <3>2. QED BY <3>1, <1>0, <1>1 DEF VarTypes
  <2>5. QED BY <2>3, <2>4, <1>0, <1>1, StoreStep
<1>8. (Edged(call.p) => Edged(call.p)') /\ Loose' /\ call'.new = call.new
  <2>1. PICK p : p = call.p
    OBVIOUS
  <2>2. Edged(p)' <=> Edged(p)
    BY <1>1, SameEdges
  <2>3. QED BY <2>1, <2>2, <1>2, <1>5 DEF Advanced, Loose
<1>9. Stage'
  <2>1. CASE call.op = "open"
    <3>1. Phase' = "openret"
      BY <2>1, <1>4
    <3>2. Opening
      BY <2>1, <1>3 DEF InParse
    <3>3. Opening'
      BY <3>2, <1>1, <1>2 DEF Opening, Advanced, Idly, Open, IsOpen
    <3>4. InOpen'
      BY <3>3, <1>8 DEF InOpen
    <3>5. QED BY <3>1, <3>4 DEF Stage
  <2>2. CASE call.op # "open"
    <3>1. Asked /\ Edged(call.p) /\ call.new # << >>
      BY <2>2, <1>1, <1>3 DEF InParse
    <3>2. InLink'
      BY <3>1, <1>2, <1>8 DEF InLink, Asked, Advanced
    <3>3. CASE call.op = "collect"
      <4>1. Phase' = "room"
        BY <3>3, <1>4
      <4>2. QED BY <4>1, <3>2 DEF Stage
    <3>4. CASE call.op \in {"insert", "replace"}
      <4>1. Phase' = "write"
        BY <3>4, <1>4
      <4>2. call.pos = Len(chg) + Len(call.text)
        BY <3>4, <1>5 DEF Limit
      <4>3. InWrite'
        <5>1. Parsed'
          BY <1>1, <1>2, <1>5 DEF Parsed, Advanced, Idly
        <5>2. QED BY <5>1, <4>2, <3>1, <3>2, <1>1, <1>2 DEF InWrite, Asked, Advanced
      <4>4. QED BY <4>1, <4>3 DEF Stage
    <3>5. QED BY <3>3, <3>4, <2>2, <1>4
  <2>3. QED BY <2>1, <2>2
<1>10. Going
  BY <1>2, <1>6, <1>9 DEF Going, Advanced
<1>11. QED BY <1>1, <1>2, <1>7, <1>10, AsideNext DEF Aside

(* Writing the new lines behind the change file keeps the invariant: what  *)
(* was described is now in store.                                          *)
LEMMA WriteNext ==
  ASSUME IInv, Write
  PROVE  IInv'
<1>0. /\ TypeOK /\ Books /\ InStore /\ Collected /\ Script /\ Who /\ Stage /\ NeverAbort /\ VarTypes /\ call \in Calls
      /\ chg \in Seq(Line) /\ CollType
  BY InvParts DEF CollType
<1>1. Do("write") /\ call' = Done /\ Idly /\ chg' = chg \o call.text /\ coll' = coll
  BY DEF Write, Idly
<1>2. Advanced /\ Script' /\ Phase = "write" /\ Leads("write", Phase') /\ (ToDelete' => ToDelete) /\ SameLists
  BY <1>1, AdvancedIs
<1>3. InWrite /\ Phase' = "link"
  BY <1>0, <1>2 DEF Stage, Leads
<1>4. Books' /\ VarTypes'
  BY <1>0, <1>1, <1>2, SameBooks
<1>5. chg' \in Seq(Line) /\ Len(chg') = Len(chg) + Len(call.text) /\ Len(chg) \in Nat /\ Len(call.text) \in Nat
  <2>1. call.text \in Seq(Line)
    BY <1>0, CallIs
  <2>2. QED BY <2>1, <1>0, <1>1
<1>6. Collected' /\ CollType'
  <2>1. coll.on => coll.chgpos < coll.nxchgpos /\ coll.nxchgpos <= Len(chg)
    BY <1>0 DEF Collected
  <2>2. coll.nxchgpos \in Nat
    BY <1>0 DEF CollType
  <2>3. QED BY <2>1, <2>2, <1>0, <1>1, <1>5 DEF Collected, CollType
<1>7. InStore'
  <2>1. ASSUME NEW d \in Fsd, fsd[d].fsdfile # NoFile, d \in Elems(call.new)
        PROVE  Within1(d)'
    <3>1. fsd[d].fsdfile = Chg /\ fsd[d].fsdpos + fsd[d].fsdnlines <= Len(chg')
      BY <1>3, <1>5, <2>1 DEF InWrite, Parsed
    <3>2. QED BY <3>1, <1>1 DEF Within1, Store, Idly
  <2>2. \A d \in Fsd : fsd'[d].fsdfile # NoFile =>
           \/ fsd'[d] = fsd[d] /\ (Filling => d \notin Elems(call.new))
           \/ Within1(d)'
    BY <2>1, <1>1 DEF Idly
  <2>4. Len(chg') >= Len(chg) /\ fsd \in [Fsd -> Fsds]
    BY <1>5, <1>0 DEF VarTypes
  <2>5. QED BY <2>2, <2>4, <1>0, <1>5, StoreStep
<1>8. Who'
  BY <1>1, <1>2, WhoSame DEF Idly
<1>9. InLink'
  <2>1. PICK p : p = call.p
    OBVIOUS
  <2>2. Edged(p)' <=> Edged(p)
    BY <1>1, SameEdges
  <2>3. QED BY <2>1, <2>2, <1>2, <1>3 DEF Advanced, Loose, InLink, InWrite
<1>10. Stage'
  BY <1>3, <1>9 DEF Stage
<1>11. Going
  BY <1>2, <1>8, <1>10 DEF Going, Advanced
<1>12. QED BY <1>0, <1>4, <1>5, <1>6, <1>7, <1>11, StepNext

(* Going on with a collection that fits keeps the invariant.               *)
LEMMA CollectFitsNext ==
  ASSUME IInv, CollectFits
  PROVE  IInv'
<1>0. /\ TypeOK /\ Books /\ InStore /\ Collected /\ Script /\ Who /\ Stage /\ NeverAbort /\ VarTypes /\ call \in Calls
      /\ chg \in Seq(Line) /\ CollType
  BY InvParts DEF CollType
<1>1. Do("room") /\ call' = Done /\ Idly /\ chg' = chg /\ coll' = coll
  BY DEF CollectFits, Idly
<1>2. Advanced /\ Script' /\ Phase = "room" /\ Leads("room", Phase') /\ (ToDelete' => ToDelete) /\ SameLists
  BY <1>1, AdvancedIs
<1>3. InLink /\ Phase' \in {"del", "link"} /\ call.op = "collect" /\ ~ call.bad
  BY <1>0, <1>2 DEF Stage, Leads
<1>4. Who'
  BY <1>1, <1>2, WhoSame DEF Idly
<1>5. InStore'
  BY <1>0, <1>1, <1>2, StoreKept DEF Idly, Filling
<1>6. InLink' /\ Edged(call.p)'
  <2>1. PICK p : p = call.p
    OBVIOUS
  <2>2. Edged(p)' <=> Edged(p)
    BY <1>1, SameEdges
  <2>3. QED BY <2>1, <2>2, <1>2, <1>3 DEF Advanced, Loose, InLink
<1>7. Stage'
  <2>1. CASE Phase' = "link"
    BY <2>1, <1>6 DEF Stage
  <2>2. CASE Phase' = "del"
    <3>1. ToDelete'
      <4>1. PICK t : t = call'.todo
        OBVIOUS
      <4>2. t \in Seq(Steps)
        BY <4>1, <1>2 DEF Advanced, Calls
      <4>3. t # << >> /\ Head(t) = "del"
        BY <2>2, <4>1 DEF Phase
      <4>4. 1 \in 1 .. Len(t) /\ t[1] = "del"
        BY <4>2, <4>3
      <4>5. QED BY <4>1, <4>4 DEF ToDelete
    <3>2. call'.n > 0
      BY <3>1, <1>4, <1>2, <1>3 DEF Who, Advanced
    <3>3. Loose' /\ Keeping'
      BY <1>6, <1>2, <1>3 DEF InLink, Keeping, Advanced
    <3>4. InDel'
      BY <3>2, <3>3, <1>2, <1>3, <1>6 DEF InDel, Advanced
    <3>5. QED BY <3>4, <2>2 DEF Stage
  <2>3. QED BY <2>1, <2>2, <1>3
<1>8. Going
  BY <1>2, <1>4, <1>7 DEF Going, Advanced
<1>9. QED BY <1>1, <1>2, <1>5, <1>8, AsideNext DEF Aside

(* One fsd more for new lines. *)
ParsedMore(k) ==
  /\ call' \in Calls /\ call'.todo = call.todo /\ call'.op = call.op /\ call'.p = call.p /\ call'.d = call.d
  /\ call'.n = call.n /\ call'.own = call.own /\ call'.text = call.text
  /\ call'.bad = call.bad /\ call'.ret = call.ret /\ call'.tail = call.tail /\ call'.cut = call.cut /\ call'.cnt = call.cnt
  /\ call'.new = Append(call.new, Fresh) /\ call'.pos = call.pos + k /\ call'.left = call.left - k
  /\ call'.pos \in Nat /\ call'.left \in Nat

(* What the call is when one fsd more describes new lines.                 *)
LEMMA ParsedMoreIs ==
  ASSUME call \in Calls, NEW k \in Nat, k <= call.left, Fresh \in Fsd,
         call' = [call EXCEPT !.new = Append(@, Fresh), !.pos = @ + k, !.left = @ - k]
  PROVE  ParsedMore(k)
<1>1. call.new \in Seq(Fsd) /\ call.pos \in Nat /\ call.left \in Nat
  BY CallIs
<1>2. Append(call.new, Fresh) \in Seq(Fsd)
  BY <1>1
<1>3. PICK a \in Seq(Fsd) : a = Append(call.new, Fresh)
  BY <1>2
<1>4. PICK b \in Nat : b = call.pos + k
  BY <1>1
<1>5. PICK c \in Nat : c = call.left - k
  BY <1>1
<1>6. call' = [call EXCEPT !.new = a, !.pos = b, !.left = c]
  BY <1>3, <1>4, <1>5
<1>7. /\ call' \in Calls /\ call'.todo = call.todo /\ call'.op = call.op /\ call'.p = call.p /\ call'.d = call.d
      /\ call'.n = call.n /\ call'.own = call.own /\ call'.text = call.text
      /\ call'.bad = call.bad /\ call'.ret = call.ret /\ call'.tail = call.tail /\ call'.cut = call.cut /\ call'.cnt = call.cnt
      /\ call'.new = a /\ call'.pos = b /\ call'.left = c
  BY <1>6, ZenonT(45) DEF Calls
<1>8. QED BY <1>3, <1>4, <1>5, <1>7 DEF ParsedMore

(* The steps are the same as before. *)
LEMMA SameScript ==
  ASSUME Script, call'.todo = call.todo, call'.op = call.op, call'.bad = call.bad
  PROVE  Script' /\ Phase' = Phase /\ (ToDelete' => ToDelete)
<1>1. Cuts' = Cuts /\ Copying' = Copying
  BY DEF Cuts, Copying
<1>2. \A x, y : Leads(x, y)' <=> Leads(x, y)
  BY <1>1 DEF Leads
<1>3. Script'
  BY <1>2 DEF Script
<1>4. QED BY <1>3 DEF Phase, ToDelete

(* Making one fsd more for new lines keeps the invariant.                  *)
LEMMA ParseFsdNext ==
  ASSUME IInv, NEW k, ParseFsd(k)
  PROVE  IInv'
<1>0. /\ TypeOK /\ Books /\ InStore /\ Collected /\ Script /\ Who /\ Stage /\ NeverAbort /\ VarTypes /\ call \in Calls
      /\ chg \in Seq(Line) /\ CollType
  BY InvParts DEF CollType
<1>1. /\ Do("parse") /\ k \in 1 .. Lesser(LA_FSDLMAX, call.left) /\ Free # {}
      /\ fsd' = [fsd EXCEPT ![Fresh] = [fsdfile |-> call.own, fsdpos |-> call.pos, fsdnlines |-> k]]
      /\ laf' = [laf EXCEPT ![call.own].la_fsrefs = @ + 1]
      /\ call' = [call EXCEPT !.new = Append(@, Fresh), !.pos = @ + k, !.left = @ - k]
      /\ chain' = chain /\ las' = las /\ chg' = chg /\ coll' = coll
  BY DEF ParseFsd
<1>2. Phase = "parse" /\ \E y : Leads("parse", y)
  BY <1>1, StepLeads
<1>3. InParse /\ ~ call.bad /\ call.op \in {"open", "insert", "replace", "collect"}
  BY <1>0, <1>2 DEF Stage, Leads
<1>4. k \in Nat /\ k \in 1 .. LA_FSDLMAX /\ k <= call.left /\ k > 0 /\ call.left \in Nat /\ call.pos \in Nat
  <2>1. call.left \in Nat /\ call.pos \in Nat
    BY <1>0, CallIs
  <2>2. QED BY <2>1, <1>1, LimitAssumption DEF Lesser
<1>5. call.own \in Files
  BY <1>3 DEF InParse, Opening, Asked, Files
<1>6. PICK e \in Fsd : e = Fresh /\ fsd[e].fsdfile = NoFile
  BY <1>1, FreshIs
<1>7. ParsedMore(k)
  BY <1>0, <1>1, <1>4, <1>6, ParsedMoreIs
<1>8. PICK g \in Files : g = call.own
  BY <1>5
<1>9. PICK b \in Nat : b = call.pos
  BY <1>4
<1>10. MakeArgs(g, b, k) /\ Made(g, b, k) /\ NewMade
  <2>1. Made(g, b, k)
    BY <1>1, <1>8, <1>9 DEF Made, OneMore
  <2>2. NewMade
    BY <1>7 DEF NewMade, ParsedMore
  <2>3. MakeArgs(g, b, k)
    BY <1>1, <1>4 DEF MakeArgs
  <2>4. QED BY <2>1, <2>2, <2>3
<1>11. Books' /\ VarTypes' /\ Kept
  BY <1>0, <1>10, MakeBooks
<1>12. MadeFacts(g, b, k)
  BY <1>0, <1>10, MadeHas
<1>13. fsd'[e] = [fsdfile |-> g, fsdpos |-> b, fsdnlines |-> k] /\ \A z \in Fsd : z # e => fsd'[z] = fsd[z]
  BY <1>6, <1>12 DEF MadeFacts
<1>14. Elems(call'.new) = Elems(call.new) \cup {e} /\ call'.new # << >> /\ e \notin Elems(call.new)
       /\ \A d \in Elems(call.new) : d \in Fsd
  <2>1. call.new \in Seq(Fsd) /\ Inj(call.new) /\ e \notin Elems(call.new) /\ \A d \in Elems(call.new) : d \in Fsd
    BY <1>0, <1>1, <1>6, ChainsAre, FreshOut DEF Chained
  <2>2. PICK ds : ds = call.new
    OBVIOUS
  <2>3. AppendFacts(ds, e, Append(ds, e))
    BY <2>1, <2>2, AppendIs
  <2>4. call'.new = Append(ds, e)
    BY <1>6, <1>7, <2>2 DEF ParsedMore
  <2>5. Append(ds, e) # << >>
    <3>1. Len(Append(ds, e)) = Len(ds) + 1 /\ Len(ds) \in Nat
      BY <2>1, <2>2
    <3>2. QED BY <3>1
  <2>6. QED BY <2>1, <2>2, <2>3, <2>4, <2>5 DEF AppendFacts
<1>15. Script' /\ Phase' = "parse" /\ (ToDelete' => ToDelete)
  BY <1>0, <1>2, <1>7, SameScript DEF ParsedMore
<1>16. InStore'
  <2>1. \A d \in Fsd : fsd'[d].fsdfile # NoFile =>
           \/ fsd'[d] = fsd[d] /\ Filling' /\ (d \in Elems(call.new) => d \in Elems(call'.new))
           \/ d \in Elems(call'.new) /\ Filling'
    BY <1>13, <1>14, <1>15 DEF Filling
  <2>2. Len(chg') >= Len(chg) /\ fsd \in [Fsd -> Fsds]
    <3>1. Len(chg) \in Nat
      BY <1>0
    <3>2. QED BY <3>1, <1>0, <1>1 DEF VarTypes
  <2>3. QED BY <2>1, <2>2, <1>0, <1>1, StoreStep
<1>17. Who'
  <2>1. WhoKept
    BY <1>1, <1>7, <1>15 DEF WhoKept, ParsedMore
  <2>2. QED BY <2>1, <1>0, WhoFrame
<1>18. Parsed'
  <2>1. ASSUME NEW d \in Elems(call.new)
        PROVE fsd'[d].fsdfile = call'.own /\ fsd'[d].fsdpos + fsd'[d].fsdnlines <= call'.pos
    <3>1. fsd'[d] = fsd[d] /\ d \in Fsd
      BY <1>13, <1>14
    <3>2. fsd[d].fsdfile = call.own /\ fsd[d].fsdpos + fsd[d].fsdnlines <= call.pos
      BY <1>3 DEF InParse, Parsed
    <3>3. fsd[d].fsdpos \in Nat /\ fsd[d].fsdnlines \in Nat
      BY <3>1, <1>0 DEF VarTypes, Fsds
    <3>4. call'.own = call.own /\ call'.pos = call.pos + k
      BY <1>7 DEF ParsedMore
    <3>5. QED BY <3>1, <3>2, <3>3, <3>4, <1>4
  <2>2. fsd'[e].fsdfile = call'.own /\ fsd'[e].fsdpos + fsd'[e].fsdnlines <= call'.pos
    <3>1. fsd'[e].fsdfile = g /\ fsd'[e].fsdpos = b /\ fsd'[e].fsdnlines = k
      BY <1>13
    <3>2. call'.own = g /\ call'.pos = b + k
      BY <1>7, <1>8, <1>9 DEF ParsedMore
    <3>3. QED BY <3>1, <3>2, <1>4
  <2>3. QED BY <2>1, <2>2, <1>14 DEF Parsed
<1>19. call'.pos + call'.left = Limit'
  <2>1. Limit' = Limit
    BY <1>1, <1>7 DEF Limit, ParsedMore
  <2>2. call.pos + call.left = Limit
    BY <1>3 DEF InParse
  <2>3. call'.pos = call.pos + k /\ call'.left = call.left - k
    BY <1>7 DEF ParsedMore
  <2>4. call'.pos + call'.left = call.pos + call.left
    BY <2>3, <1>4
  <2>5. QED BY <2>1, <2>2, <2>4
<1>20. InParse'
  <2>1. Loose'
    BY <1>3, <1>7 DEF InParse, Loose, ParsedMore
  <2>2. CASE call.op = "open"
    <3>1. Opening
      BY <2>2, <1>3 DEF InParse
    <3>2. Opening'
      <4>1. call.p \in Stream /\ ~ Open(call.p) /\ call.own \in File /\ ~ IsOpen(call.own)
        BY <3>1 DEF Opening
      <4>2. call'.p = call.p /\ call'.own = call.own
        BY <1>7 DEF ParsedMore
      <4>3. ~ IsOpen(call.own)'
        <5>1. laf'[g].la_refs = laf[g].la_refs
          BY <1>11 DEF Kept
        <5>2. QED BY <5>1, <4>1, <4>2, <1>8 DEF IsOpen
      <4>4. QED BY <4>1, <4>2, <4>3, <1>1 DEF Opening, Open
    <3>3. QED BY <3>2, <2>1, <2>2, <1>7, <1>18, <1>19 DEF InParse, ParsedMore
  <2>3. CASE call.op # "open"
    <3>1. Asked /\ Edged(call.p)
      BY <2>3, <1>3 DEF InParse
    <3>2. Asked'
      BY <3>1, <1>1, <1>7 DEF Asked, ParsedMore
    <3>3. Edged(call.p)'
      <4>1. PICK p : p = call.p
        OBVIOUS
      <4>2. p \in Streams /\ Open(p) /\ Edged(p)
        BY <4>1, <3>1, <2>3, <1>3, Actors
      <4>3. Edged(p)'
        BY <4>2, <1>0, <1>11, KeptEdges
      <4>4. QED BY <4>1, <4>3, <1>7 DEF ParsedMore
    <3>4. QED BY <3>2, <3>3, <2>1, <2>3, <1>7, <1>14, <1>18, <1>19 DEF InParse, ParsedMore
  <2>4. QED BY <2>2, <2>3
<1>21. Stage'
  BY <1>15, <1>20 DEF Stage
<1>22. Going
  BY <1>7, <1>15, <1>17, <1>21 DEF Going, ParsedMore
<1>23. Collected' /\ CollType' /\ chg' \in Seq(Line)
  BY <1>0, <1>1, CollSame
<1>24. QED BY <1>0, <1>11, <1>16, <1>22, <1>23, StepNext

-----------------------------------------------------------------------------
(* The new chain is linked in somewhere: what it leaves in the call. *)
NewGone(cnt) ==
  /\ call' \in Calls /\ call'.todo = Tail(call.todo) /\ call'.op = call.op /\ call'.p = call.p /\ call'.d = call.d
  /\ call'.n = call.n /\ call'.cfsd = call.cfsd /\ call'.blank = call.blank
  /\ call'.bad = call.bad /\ call'.ret = call.ret
  /\ call'.new = << >> /\ call'.tail = call.tail /\ call'.cut = call.cut /\ call'.cnt = cnt

(* What the call is when the new chain has been linked in.                 *)
LEMMA NewGoneIs ==
  ASSUME call \in Calls, call.todo # << >>, NEW cnt \in Nat,
         \/ call' = [Done EXCEPT !.new = << >>, !.cnt = cnt]
         \/ call' = [Done EXCEPT !.new = << >>] /\ cnt = call.cnt
  PROVE  NewGone(cnt)
<1>1. /\ Done \in Calls /\ Done.todo = Tail(call.todo) /\ Done.op = call.op /\ Done.p = call.p /\ Done.d = call.d
      /\ Done.n = call.n /\ Done.cfsd = call.cfsd /\ Done.blank = call.blank /\ Done.bad = call.bad /\ Done.ret = call.ret
      /\ Done.tail = call.tail /\ Done.cut = call.cut /\ Done.cnt = call.cnt
  BY DoneIs
<1>2. PICK r : r = Done
  OBVIOUS
<1>3. r \in Calls /\ << >> \in Seq(Fsd)
  BY <1>1, <1>2
<1>4. \/ call' = [r EXCEPT !.new = << >>, !.cnt = cnt]
      \/ call' = [r EXCEPT !.new = << >>] /\ cnt = r.cnt
  BY <1>1, <1>2
<1>5. /\ call' \in Calls /\ call'.todo = r.todo /\ call'.op = r.op /\ call'.p = r.p /\ call'.d = r.d
      /\ call'.n = r.n /\ call'.cfsd = r.cfsd /\ call'.blank = r.blank /\ call'.bad = r.bad /\ call'.ret = r.ret
      /\ call'.new = << >> /\ call'.tail = r.tail /\ call'.cut = r.cut /\ call'.cnt = cnt
  <2>1. CASE call' = [r EXCEPT !.new = << >>, !.cnt = cnt]
    BY <1>3, <2>1, ZenonT(45) DEF Calls
  <2>2. CASE call' = [r EXCEPT !.new = << >>] /\ cnt = r.cnt
    BY <1>3, <2>2, ZenonT(45) DEF Calls
  <2>3. QED BY <2>1, <2>2, <1>4
<1>6. QED BY <1>1, <1>2, <1>5 DEF NewGone

(* The chain that an operation has made goes into the file of a stream. *)
LinksNew(s) == s \in Stream /\ Open(s) /\ Edged(s) /\ call.new # << >> /\ Loose /\ fsd' = fsd /\ Link(s, call.new)

(* Linking the new chain in at a stream that is at an end of an fsd: the   *)
(* books are kept, and every stream that was at such an end still is.      *)
LEMMA LinkedNew ==
  ASSUME IInv, NEW s, LinksNew(s), NEW c, NewGone(c)
  PROVE  /\ Books' /\ VarTypes' /\ Linked(s, Size(fsd, call.new))
         /\ \A t \in Streams : las'[t].la_file = las[t].la_file /\ las'[t].la_stay = las[t].la_stay
         /\ \A t \in Streams : Open(t) => (Edged(t) => Edged(t)')
<1>0. TypeOK /\ Books
  BY InvParts
<1>1. PICK ds : ds = call.new
  OBVIOUS
<1> DEFINE sp == << 1, NoFile >>
<1>2. sp \in CallSpots /\ Lists[sp] = ds /\ \A k \in CallSpots : Lists'[k] = IF k = sp THEN << >> ELSE Lists[k]
  <2>1. sp \in CallSpots /\ Lists[sp] = ds
    BY <1>1, ListsNow DEF CallSpots
  <2>2. /\ Lists'[<< 1, NoFile >>] = << >> /\ Lists'[<< 2, NoFile >>] = << >> /\ Lists'[<< 3, NoFile >>] = << >>
    BY ListsThen DEF NewGone, LinksNew, Loose
  <2>3. Lists[<< 2, NoFile >>] = << >> /\ Lists[<< 3, NoFile >>] = << >>
    BY ListsNow DEF LinksNew, Loose
  <2>4. QED BY <2>1, <2>2, <2>3 DEF CallSpots
<1> HIDE DEF sp
<1>3. LinkArgs(s, ds, sp) /\ Link(s, ds)
  BY <1>1, <1>2 DEF LinkArgs, LinksNew
<1>4. Books' /\ VarTypes' /\ LinkFacts(las[s].la_file, las[s].la_lpos, Size(fsd, ds))
  BY <1>0, <1>3, LinkBooks
<1>5. PICK m : m = Size(fsd, ds)
  OBVIOUS
<1>6. Linked(s, m)
  BY <1>4, <1>5 DEF Linked, LinksNew
<1>7. \A t \in Streams : Open(t) => (Edged(t) => Edged(t)')
  BY <1>0, <1>6, LinkEdges
<1>8. \A t \in Streams : las'[t].la_file = las[t].la_file /\ las'[t].la_stay = las[t].la_stay
  BY <1>4 DEF LinkFacts
<1>9. QED BY <1>1, <1>4, <1>5, <1>6, <1>7, <1>8

(* Linking new or collected lines in keeps the invariant.                  *)
LEMMA LinkNewNext ==
  ASSUME IInv, LinkNew
  PROVE  IInv'
<1>0. /\ TypeOK /\ Books /\ InStore /\ Collected /\ Script /\ Who /\ Stage /\ NeverAbort /\ VarTypes /\ call \in Calls
      /\ chg \in Seq(Line) /\ CollType
  BY InvParts DEF CollType
<1>1. Do("link") /\ Link(call.p, call.new) /\ fsd' = fsd /\ chg' = chg /\ coll' = coll
      /\ call' = [Done EXCEPT !.new = << >>, !.cnt = IF call.op = "replace" THEN Count(call.new) ELSE @]
  BY DEF LinkNew
<1>2. Phase = "link" /\ call.todo # << >> /\ Head(call.todo) = "link" /\ \E y : Leads("link", y)
  BY <1>1, StepLeads
<1>3. call.op \in {"insert", "collect", "replace"} /\ ~ call.bad /\ call.op \notin {"none", "open"}
  BY <1>2 DEF Leads
<1>4. InLink
  BY <1>0, <1>2 DEF Stage
<1>5. call.new \in Seq(Fsd) /\ call.cnt \in Nat /\ Count(call.new) = Size(fsd, call.new) /\ Size(fsd, call.new) \in Nat
  <2>1. PICK ds : ds = call.new
    OBVIOUS
  <2>2. ds \in Seq(Fsd) /\ call.cnt \in Nat
    BY <2>1, <1>0, CallIs
  <2>3. QED BY <2>1, <2>2, <1>0, CountIs, SizeNat DEF VarTypes
<1>6. PICK c \in Nat : c = IF call.op = "replace" THEN Size(fsd, call.new) ELSE call.cnt
  BY <1>5
<1>7. NewGone(c)
  <2>1. Done.cnt = call.cnt
    BY <1>0, <1>2, DoneIs
  <2>2. PICK r : r = Done
    OBVIOUS
  <2>3. call' = [r EXCEPT !.new = << >>, !.cnt = IF call.op = "replace" THEN Count(call.new) ELSE r.cnt]
    BY <1>1, <2>2
  <2>4. call' = [r EXCEPT !.new = << >>, !.cnt = c]
    BY <2>1, <2>2, <2>3, <1>5, <1>6
  <2>5. QED BY <2>2, <2>4, <1>0, <1>2, NewGoneIs
<1>8. PICK s : s = call.p
  OBVIOUS
<1>9. s \in Stream /\ s \in Streams /\ Open(s)
  BY <1>3, <1>8, Actors
<1>10. LinksNew(s)
  BY <1>1, <1>4, <1>8, <1>9 DEF LinksNew, InLink
<1>11. /\ Books' /\ VarTypes' /\ Linked(s, Size(fsd, call.new))
       /\ \A t \in Streams : las'[t].la_file = las[t].la_file /\ las'[t].la_stay = las[t].la_stay
       /\ \A t \in Streams : Open(t) => (Edged(t) => Edged(t)')
  BY <1>7, <1>10, LinkedNew
<1>12. Script' /\ Leads("link", Phase') /\ (ToDelete' => ToDelete)
  <2>1. Onwards
    BY <1>2, <1>7 DEF Onwards, NewGone
  <2>2. QED BY <2>1, <1>0, <1>2, Onward
<1>13. InStore'
  BY <1>0, <1>1, <1>2, StoreKept DEF Filling
<1>14. Who'
  <2>1. c = call.cnt \/ call.op = "replace"
    BY <1>6
  <2>2. WhoKept
    BY <2>1, <1>7, <1>11, <1>12 DEF WhoKept, NewGone
  <2>3. QED BY <2>2, <1>0, WhoFrame
<1>15. Stage'
  <2>1. CASE call.op # "replace"
    <3>1. Phase' = "end"
      BY <2>1, <1>12 DEF Leads
    <3>2. Nothing'
      BY <1>4, <1>7 DEF Nothing, Loose, InLink, NewGone
    <3>3. QED BY <3>1, <3>2 DEF Stage
  <2>2. CASE call.op = "replace"
    <3>1. Phase' = "del"
      BY <2>2, <1>12 DEF Leads
    <3>2. PICK m : m = Size(fsd, call.new)
      OBVIOUS
    <3>3. m \in Nat /\ m > 0 /\ c = m
      <4>1. LinkFacts(las[s].la_file, las[s].la_lpos, m)
        BY <3>2, <1>11 DEF Linked
      <4>2. QED BY <4>1, <3>2, <2>2, <1>6 DEF LinkFacts
    <3>4. ~ las[s].la_stay
      BY <2>2, <1>0, <1>3, <1>8 DEF Who, X
    <3>5. Cleft(s, 0 + m)'
      <4>1. \A z \in Nat : z = 0 => Cleft(s, z + m)'
        <5>1. SUFFICES ASSUME NEW z \in Nat, z = 0 PROVE Cleft(s, z + m)'
          OBVIOUS
        <5>2. Linked(s, m)
          BY <3>2, <1>11
        <5>3. z > 0 => Cleft(s, z)
          BY <5>1
        <5>4. QED BY <5>2, <5>3, <3>4, <1>0, LinkCleft
      <4>2. QED BY <4>1
    <3>6. Cleft(s, m)'
      <4>1. 0 + m = m
        BY <3>3
      <4>2. QED BY <4>1, <3>5
    <3>7. call'.cnt = m /\ call'.p = s /\ call'.new = << >> /\ call'.op = "replace" /\ call'.n = call.n /\ Loose'
      BY <2>2, <3>3, <1>4, <1>7, <1>8 DEF NewGone, InLink, Loose
    <3>8. Cleft(call.p, call.cnt)'
      BY <3>6, <3>7
    <3>9. InDel'
      BY <3>3, <3>7, <3>8, <2>2, <1>0 DEF InDel, Keeping, Who
    <3>10. QED BY <3>1, <3>9 DEF Stage
  <2>3. QED BY <2>1, <2>2
<1>16. Going
  BY <1>7, <1>12, <1>14, <1>15 DEF Going, NewGone
<1>17. Collected' /\ CollType' /\ chg' \in Seq(Line)
  BY <1>0, <1>1, CollSame
<1>18. QED BY <1>0, <1>11, <1>13, <1>16, <1>17, StepNext

(* The end of opening a file keeps the invariant.                          *)
LEMMA OpenReturnNext ==
  ASSUME IInv, OpenReturn
  PROVE  IInv'
<1>0. /\ TypeOK /\ Books /\ InStore /\ Collected /\ Script /\ Who /\ Stage /\ NeverAbort /\ VarTypes /\ call \in Calls
      /\ chg \in Seq(Line) /\ CollType
  BY InvParts DEF CollType
<1>1. Do("openret") /\ fsd' = fsd /\ chg' = chg /\ coll' = coll /\ call' = [Done EXCEPT !.new = << >>]
  BY DEF OpenReturn
<1>2. Phase = "openret" /\ call.todo # << >> /\ Head(call.todo) = "openret" /\ \E y : Leads("openret", y)
  BY <1>1, StepLeads
<1>3. InOpen /\ call.op = "open" /\ ~ call.bad
  BY <1>0, <1>2 DEF Stage, Leads
<1>4. PICK c \in Nat : c = call.cnt
  BY <1>0, CallIs
<1>5. NewGone(c)
  BY <1>0, <1>1, <1>2, <1>4, NewGoneIs
<1>6. PICK f, s, new : f = call.own /\ s = call.p /\ new = call.new
  OBVIOUS
<1>7. OpenArgs(f, s, new)
  <2>1. s \in Stream /\ ~ Open(s) /\ f \in File /\ ~ IsOpen(f)
    BY <1>3, <1>6 DEF InOpen, Opening
  <2>2. /\ laf' = [laf EXCEPT ![f] = [@ EXCEPT !.la_refs = 1, !.la_nlines = Count(new)]]
        /\ chain' = [chain EXCEPT ![f] = new]
        /\ las' = [las EXCEPT ![s] = [Closed EXCEPT !.la_file = f, !.la_cfsd = First(new)]]
    BY <1>6 DEF OpenReturn
  <2>3. QED BY <2>1, <2>2, <1>1, <1>5, <1>6 DEF OpenArgs, NewGone
<1>8. Books' /\ VarTypes'
  BY <1>0, <1>7, OpenBooks
<1>9. InStore'
  BY <1>0, <1>1, <1>2, StoreKept DEF Filling
<1>10. Script' /\ Leads("openret", Phase')
  <2>1. Onwards
    BY <1>2, <1>5 DEF Onwards, NewGone
  <2>2. QED BY <2>1, <1>0, <1>2, Onward
<1>11. Phase' = "end"
  BY <1>10 DEF Leads
<1>12. Stage'
  <2>1. Nothing'
    BY <1>3, <1>5 DEF Nothing, Loose, InOpen, NewGone
  <2>2. QED BY <2>1, <1>11 DEF Stage
<1>13. Who'
  BY <1>0, <1>3, <1>4, <1>5 DEF Who, NewGone
<1>14. Going
  BY <1>5, <1>10, <1>12, <1>13 DEF Going, NewGone
<1>15. Collected' /\ CollType' /\ chg' \in Seq(Line)
  BY <1>0, <1>1, CollSame
<1>16. QED BY <1>0, <1>8, <1>9, <1>14, <1>15, StepNext

-----------------------------------------------------------------------------
(* The delete within an operation.                                         *)

(* A script that goes on with another one. *)
Leading(t) == \A i \in 1 .. Len(t) : Leads(t[i], IF i < Len(t) THEN t[i + 1] ELSE "end")
Starts(t)  == IF t = << >> THEN "end" ELSE t[1]
Joins(u, t) == \A i \in 1 .. Len(u) : Leads(u[i], IF i < Len(u) THEN u[i + 1] ELSE Starts(t))
JoinArgs(u, t) == u \in Seq(Steps) /\ t \in Seq(Steps) /\ Leading(t) /\ Joins(u, t)

(* A sequence of length 0 is empty.                                        *)
LEMMA NoLen == ASSUME NEW S, NEW t \in Seq(S), Len(t) = 0 PROVE t = << >>
OBVIOUS

(* A script in front of a script is a script.                              *)
LEMMA Prefixed ==
  ASSUME NEW u, NEW t, JoinArgs(u, t)
  PROVE  /\ u \o t \in Seq(Steps) /\ Leading(u \o t) /\ Starts(u \o t) = IF u = << >> THEN Starts(t) ELSE u[1]
         /\ (\A i \in 1 .. Len(u) : u[i] # "del") /\ (\A i \in 1 .. Len(t) : t[i] # "del")
              => \A i \in 1 .. Len(u \o t) : (u \o t)[i] # "del"
<1>1. u \in Seq(Steps) /\ t \in Seq(Steps) /\ Leading(t) /\ Joins(u, t)
  BY DEF JoinArgs
<1>2. PICK v : v = u \o t
  OBVIOUS
<1>3. PICK m, n : m = Len(u) /\ n = Len(t)
  OBVIOUS
<1>4. /\ m \in Nat /\ n \in Nat /\ v \in Seq(Steps) /\ Len(v) = m + n
      /\ \A q \in 1 .. m : v[q] = u[q]
      /\ \A q \in 1 .. n : v[m + q] = t[q]
  BY <1>1, <1>2, <1>3, ConcatIs
<1>5. \A i \in 1 .. m + n : i \in 1 .. m \/ (i - m \in 1 .. n /\ i = m + (i - m))
  BY <1>4
<1>6. m > 0 => v[1] = u[1]
  <2>1. m > 0 => 1 \in 1 .. m
    BY <1>4
  <2>2. QED BY <2>1, <1>4
<1>7. n > 0 => v[m + 1] = t[1] /\ Starts(t) = t[1]
  <2>1. n > 0 => 1 \in 1 .. n /\ t # << >>
    BY <1>1, <1>3, <1>4
  <2>2. QED BY <2>1, <1>4 DEF Starts
<1>8. n = 0 => Starts(t) = "end" /\ t = << >>
  <2>1. n = 0 => t = << >>
    BY <1>1, <1>3, NoLen
  <2>2. QED BY <2>1 DEF Starts
<1>9. ASSUME NEW i \in 1 .. m + n PROVE Leads(v[i], IF i < m + n THEN v[i + 1] ELSE "end")
  <2>1. CASE i \in 1 .. m /\ i < m
    <3>1. i + 1 \in 1 .. m /\ i < m + n
      BY <2>1, <1>4
    <3>2. Leads(u[i], u[i + 1])
      BY <2>1, <1>1, <1>3 DEF Joins
    <3>3. v[i] = u[i] /\ v[i + 1] = u[i + 1]
      BY <2>1, <3>1, <1>4
    <3>4. QED BY <3>1, <3>2, <3>3
  <2>2. CASE i \in 1 .. m /\ ~ (i < m)
    <3>1. i = m
      BY <2>2, <1>4
    <3>2. Leads(u[i], Starts(t))
      BY <2>2, <1>1, <1>3 DEF Joins
    <3>3. v[i] = u[i]
      BY <2>2, <1>4
    <3>4. CASE n = 0
      <4>1. ~ (i < m + n)
        BY <3>1, <3>4, <1>4
      <4>2. QED BY <4>1, <3>2, <3>3, <3>4, <1>8
    <3>5. CASE n > 0
      <4>1. i < m + n
        BY <3>1, <3>5, <1>4
      <4>2. QED BY <4>1, <3>1, <3>2, <3>3, <3>5, <1>7
    <3>6. QED BY <3>4, <3>5, <1>4
  <2>3. CASE i - m \in 1 .. n /\ i = m + (i - m)
    <3>1. PICK q \in 1 .. n : i = m + q
      BY <2>3
    <3>2. v[i] = t[q]
      BY <3>1, <1>4
    <3>3. Leads(t[q], IF q < n THEN t[q + 1] ELSE "end")
      BY <1>1, <1>3 DEF Leading
    <3>4. CASE q < n
      <4>1. q + 1 \in 1 .. n /\ i < m + n /\ i + 1 = m + (q + 1)
        BY <3>1, <3>4, <1>4
      <4>2. v[i + 1] = t[q + 1]
        BY <4>1, <1>4
      <4>3. QED BY <4>1, <4>2, <3>2, <3>3, <3>4
    <3>5. CASE ~ (q < n)
      <4>1. ~ (i < m + n)
        BY <3>1, <3>5, <1>4
      <4>2. QED BY <4>1, <3>2, <3>3, <3>5
    <3>6. QED BY <3>4, <3>5
  <2>4. QED BY <2>1, <2>2, <2>3, <1>5
<1>10. Leading(v)
  BY <1>4, <1>9 DEF Leading
<1>11. Starts(v) = IF u = << >> THEN Starts(t) ELSE u[1]
  <2>1. CASE u = << >>
    <3>1. v = t
      BY <2>1, <1>1, <1>2
    <3>2. QED BY <3>1, <2>1
  <2>2. CASE u # << >>
    <3>1. m > 0
      BY <2>2, <1>1, <1>3
    <3>2. v # << >>
      BY <3>1, <1>4
    <3>3. QED BY <3>1, <3>2, <2>2, <1>6 DEF Starts
  <2>3. QED BY <2>1, <2>2
<1>12. (\A i \in 1 .. m : u[i] # "del") /\ (\A i \in 1 .. n : t[i] # "del") => \A i \in 1 .. m + n : v[i] # "del"
  BY <1>4, <1>5, ZenonT(45)
<1>13. QED BY <1>2, <1>3, <1>4, <1>10, <1>11, <1>12

(* What is left of a script is a script.                                   *)
LEMMA TailLeading ==
  ASSUME call \in Calls, Script, call.todo # << >>
  PROVE  /\ Leading(call.todo) /\ Leading(Tail(call.todo)) /\ Leads(Head(call.todo), Starts(Tail(call.todo)))
         /\ Tail(call.todo) \in Seq(Steps) /\ call.todo \in Seq(Steps) /\ Starts(call.todo) = Head(call.todo)
<1>1. PICK t : t = call.todo
  OBVIOUS
<1>2. PICK u : u = Tail(t)
  OBVIOUS
<1>3. t \in Seq(Steps) /\ t # << >> /\ Leading(t)
  BY <1>1, CallIs DEF Script, Leading
<1>4. PICK n : n = Len(t)
  OBVIOUS
<1>5. n \in Nat /\ n > 0 /\ Len(u) = n - 1 /\ Head(t) = t[1] /\ (\A i \in 1 .. n - 1 : u[i] = t[i + 1]) /\ u \in Seq(Steps)
  BY <1>2, <1>3, <1>4, TailIs
<1>6. \A i \in 1 .. n : Leads(t[i], IF i < n THEN t[i + 1] ELSE "end")
  BY <1>3, <1>4 DEF Leading
<1>7. ASSUME NEW i \in 1 .. n - 1 PROVE Leads(u[i], IF i < n - 1 THEN u[i + 1] ELSE "end")
  <2>1. i + 1 \in 1 .. n /\ u[i] = t[i + 1]
    BY <1>5
  <2>2. Leads(t[i + 1], IF i + 1 < n THEN t[i + 1 + 1] ELSE "end")
    BY <2>1, <1>6
  <2>3. CASE i < n - 1
    <3>1. i + 1 < n /\ i + 1 \in 1 .. n - 1
      BY <2>3, <1>5
    <3>2. u[i + 1] = t[i + 1 + 1]
      BY <3>1, <1>5
    <3>3. QED BY <2>1, <2>2, <2>3, <3>1, <3>2
  <2>4. CASE ~ (i < n - 1)
    <3>1. ~ (i + 1 < n)
      BY <2>4, <1>5
    <3>2. QED BY <2>1, <2>2, <2>4, <3>1
  <2>5. QED BY <2>3, <2>4
<1>8. Leading(u)
  BY <1>5, <1>7 DEF Leading
<1>9. Leads(Head(t), Starts(u))
  <2>1. 1 \in 1 .. n
    BY <1>5
  <2>2. Leads(t[1], IF 1 < n THEN t[1 + 1] ELSE "end")
    BY <2>1, <1>6
  <2>3. CASE u = << >>
    <3>1. n = 1
      BY <2>3, <1>5
    <3>2. QED BY <3>1, <2>2, <2>3, <1>5 DEF Starts
  <2>4. CASE u # << >>
    <3>1. Len(u) > 0
      BY <2>4, <1>5
    <3>2. 1 < n /\ u[1] = t[1 + 1]
      BY <3>1, <1>5
    <3>3. QED BY <3>2, <2>2, <2>4, <1>5 DEF Starts
  <2>5. QED BY <2>3, <2>4
<1>10. Starts(t) = Head(t)
  BY <1>3, <1>5 DEF Starts
<1>11. QED BY <1>1, <1>2, <1>3, <1>5, <1>8, <1>9, <1>10

(* The call goes on with the script v. *)
LEMMA ScriptIs ==
  ASSUME NEW v \in Seq(Steps), call.todo = v, Leading(v), call.bad => call.op \in {"replace", "blank"}
  PROVE  Script /\ Phase = Starts(v)
<1>1. Script
  BY DEF Script, Leading
<1>2. v # << >> => Head(v) = v[1]
  OBVIOUS
<1>3. QED BY <1>1, <1>2 DEF Phase, Starts

(* Script, after a step that sets another script.                          *)
LEMMA ScriptNext ==
  ASSUME Script, NEW v \in Seq(Steps), Leading(v), call'.todo = v, call'.op = call.op, call'.bad = call.bad
  PROVE  Script' /\ Phase' = Starts(v)
<1>1. Cuts' = Cuts /\ Copying' = Copying
  BY DEF Cuts, Copying
<1>2. \A x, y : Leads(x, y)' <=> Leads(x, y)
  BY <1>1 DEF Leads
<1>3. Script'
  BY <1>2 DEF Script, Leading
<1>4. v # << >> => Head(v) = v[1]
  OBVIOUS
<1>5. QED BY <1>3, <1>4 DEF Phase, Starts

(* The two lists of steps that la_ldelete goes on with. *)
LEMMA DeleteStepsAre ==
  /\ DeleteSteps \in Seq(Steps) /\ DeleteSteps # << >> /\ Len(DeleteSteps) = 4
  /\ DeleteSteps[1] = "break" /\ DeleteSteps[2] = "bend" /\ DeleteSteps[3] = "unlink" /\ DeleteSteps[4] = "place"
BY DEF DeleteSteps, Steps

(* The script of a delete that moves its lines.                            *)
LEMMA ZdStepsAre ==
  ASSUME NEW u, u = << "zd" >> \o DeleteSteps
  PROVE  /\ u \in Seq(Steps) /\ u # << >> /\ Len(u) = 5
         /\ u[1] = "zd" /\ u[2] = "break" /\ u[3] = "bend" /\ u[4] = "unlink" /\ u[5] = "place"
<1>1. << "zd" >> \in Seq(Steps) /\ Len(<< "zd" >>) = 1 /\ << "zd" >>[1] = "zd"
  BY DEF Steps
<1>2. PICK z \in Seq(Steps) : z = << "zd" >> /\ Len(z) = 1 /\ z[1] = "zd"
  BY <1>1
<1>3. PICK y \in Seq(Steps) : y = DeleteSteps /\ Len(y) = 4 /\ y[1] = "break" /\ y[2] = "bend" /\ y[3] = "unlink" /\ y[4] = "place"
  BY DeleteStepsAre
<1>6. u = z \o y
  BY <1>2, <1>3
<1>7. /\ u \in Seq(Steps) /\ Len(u) = Len(z) + Len(y)
      /\ \A q \in 1 .. Len(z) : u[q] = z[q]
      /\ \A q \in 1 .. Len(y) : u[Len(z) + q] = y[q]
  BY <1>2, <1>3, <1>6, ConcatIs, SMTT(45)
<1>4. /\ u \in Seq(Steps) /\ Len(u) = 1 + 4
      /\ \A q \in 1 .. 1 : u[q] = z[q]
      /\ \A q \in 1 .. 4 : u[1 + q] = y[q]
  BY <1>2, <1>3, <1>7
<1>5. u[1] = "zd" /\ u[1 + 1] = "break" /\ u[1 + 2] = "bend" /\ u[1 + 3] = "unlink" /\ u[1 + 4] = "place"
  BY <1>2, <1>3, <1>4
<1>8. QED BY <1>4, <1>5

Retold(u) ==
  /\ call' \in Calls /\ call'.todo = u /\ call'.op = call.op /\ call'.p = call.p /\ call'.d = call.d
  /\ call'.n = call.n /\ call'.own = call.own /\ call'.new = call.new
  /\ call'.tail = call.tail /\ call'.cut = call.cut /\ call'.cnt = call.cnt /\ call'.bad = call.bad /\ call'.ret = call.ret

(* What the call is when only its script changes.                          *)
LEMMA RetoldIs ==
  ASSUME call \in Calls, NEW u \in Seq(Steps), call' = [call EXCEPT !.todo = u]
  PROVE  Retold(u)
BY DEF Calls, Retold

(* The three ways la_ldelete begins. *)
LEMMA DeleteWays ==
  ASSUME IInv, Delete
  PROVE  /\ Retold(call'.todo) /\ Script' /\ ~ call.bad /\ call.op \in {"replace", "delete", "collect"}
         /\ Phase' = IF AtEnd(call.p) THEN (IF call.op = "collect" THEN "link" ELSE "end")
                     ELSE IF call.d = None THEN "break" ELSE "zd"
<1>0. Script /\ call \in Calls /\ Stage
  BY InvParts
<1>1. /\ Do("del")
      /\ call' = [call EXCEPT !.todo =
           (CASE AtEnd(call.p)  -> << >>
              [] ~ AtEnd(call.p) /\ call.d = None -> DeleteSteps
              [] OTHER          -> << "zd" >> \o DeleteSteps) \o Tail(call.todo)]
  BY DEF Delete
<1>2. Phase = "del" /\ call.todo # << >> /\ Head(call.todo) = "del"
  BY <1>1, StepLeads
<1>3. PICK t : t = Tail(call.todo)
  OBVIOUS
<1>4. t \in Seq(Steps) /\ Leading(t) /\ Leads("del", Starts(t))
  BY <1>0, <1>2, <1>3, TailLeading
<1>5. ~ call.bad /\ call.op \in {"replace", "delete", "collect"} /\ Starts(t) = IF call.op = "collect" THEN "link" ELSE "end"
  BY <1>4 DEF Leads
<1>6. Cuts
  BY <1>5 DEF Cuts
<1>7. /\ Leads("zd", "break") /\ Leads("break", "bend") /\ Leads("bend", "unlink") /\ Leads("unlink", "place")
      /\ Leads("place", Starts(t))
  BY <1>5, <1>6 DEF Leads
<1>8. PICK z : z = << "zd" >> \o DeleteSteps
  OBVIOUS
<1>9. PICK u : u = (CASE AtEnd(call.p)  -> << >> [] ~ AtEnd(call.p) /\ call.d = None -> DeleteSteps [] OTHER -> z)
  OBVIOUS
<1>10. /\ AtEnd(call.p) => u = << >>
       /\ ~ AtEnd(call.p) /\ call.d = None => u = DeleteSteps
       /\ ~ AtEnd(call.p) /\ call.d # None => u = z
  BY <1>9
<1>11. u \in Seq(Steps) /\ Joins(u, t) /\ (IF u = << >> THEN Starts(t) ELSE u[1]) =
          IF AtEnd(call.p) THEN (IF call.op = "collect" THEN "link" ELSE "end") ELSE IF call.d = None THEN "break" ELSE "zd"
  <2>1. CASE AtEnd(call.p)
    <3>1. u = << >> /\ Len(u) = 0 /\ u \in Seq(Steps)
      BY <2>1, <1>10
    <3>2. Joins(u, t)
      BY <3>1 DEF Joins
    <3>3. QED BY <3>1, <3>2, <2>1, <1>5
  <2>2. CASE ~ AtEnd(call.p) /\ call.d = None
    <3>1. /\ u \in Seq(Steps) /\ u # << >> /\ Len(u) = 4
          /\ u[1] = "break" /\ u[2] = "bend" /\ u[3] = "unlink" /\ u[4] = "place"
      BY <2>2, <1>10, DeleteStepsAre
    <3>2. \A i \in 1 .. 4 : i = 1 \/ i = 2 \/ i = 3 \/ i = 4
      OBVIOUS
    <3>3. ASSUME NEW i \in 1 .. 4 PROVE Leads(u[i], IF i < 4 THEN u[i + 1] ELSE Starts(t))
      BY <3>1, <3>2, <1>7
    <3>4. Joins(u, t)
      BY <3>1, <3>3 DEF Joins
    <3>5. QED BY <3>1, <3>4, <2>2
  <2>3. CASE ~ AtEnd(call.p) /\ call.d # None
    <3>1. /\ u \in Seq(Steps) /\ u # << >> /\ Len(u) = 5
          /\ u[1] = "zd" /\ u[2] = "break" /\ u[3] = "bend" /\ u[4] = "unlink" /\ u[5] = "place"
      BY <2>3, <1>8, <1>10, ZdStepsAre
    <3>2. \A i \in 1 .. 5 : i = 1 \/ i = 2 \/ i = 3 \/ i = 4 \/ i = 5
      OBVIOUS
    <3>3. ASSUME NEW i \in 1 .. 5 PROVE Leads(u[i], IF i < 5 THEN u[i + 1] ELSE Starts(t))
      BY <3>1, <3>2, <1>7
    <3>4. Joins(u, t)
      BY <3>1, <3>3 DEF Joins
    <3>5. QED BY <3>1, <3>4, <2>3
  <2>4. QED BY <2>1, <2>2, <2>3
<1>12. PICK v : v = u \o t
  OBVIOUS
<1>13. v \in Seq(Steps) /\ Leading(v) /\ Starts(v) = IF u = << >> THEN Starts(t) ELSE u[1]
  BY <1>4, <1>11, <1>12, Prefixed DEF JoinArgs
<1>14. call' = [call EXCEPT !.todo = v]
  BY <1>1, <1>3, <1>8, <1>9, <1>12
<1>15. Retold(v)
  BY <1>0, <1>13, <1>14, RetoldIs
<1>16. Script' /\ Phase' = Starts(v)
  BY <1>0, <1>13, <1>15, ScriptNext DEF Retold
<1>17. QED BY <1>5, <1>11, <1>13, <1>15, <1>16 DEF Retold

(* Beginning the delete within an operation keeps the invariant.           *)
LEMMA DeleteNext ==
  ASSUME IInv, Delete
  PROVE  IInv'
<1>0. /\ TypeOK /\ Books /\ InStore /\ Collected /\ Script /\ Who /\ Stage /\ NeverAbort /\ VarTypes /\ call \in Calls
  BY InvParts
<1>1. Do("del") /\ Idly /\ chg' = chg /\ coll' = coll
  BY DEF Delete, Idly
<1>2. Phase = "del" /\ call.todo # << >> /\ Head(call.todo) = "del" /\ call.todo \in Seq(Steps)
  BY <1>0, <1>1, StepLeads, CallIs
<1>3. /\ Retold(call'.todo) /\ Script' /\ ~ call.bad /\ call.op \in {"replace", "delete", "collect"}
      /\ Phase' = IF AtEnd(call.p) THEN (IF call.op = "collect" THEN "link" ELSE "end")
                     ELSE IF call.d = None THEN "break" ELSE "zd"
  BY DeleteWays
<1>4. InDel
  BY <1>0, <1>2 DEF Stage
<1>5. ToDelete
  <2>1. 1 \in 1 .. Len(call.todo) /\ call.todo[1] = "del"
    BY <1>2
  <2>2. QED BY <2>1 DEF ToDelete
<1>6. SameLists /\ ~ Copying
  BY <1>3 DEF Retold, SameLists, Copying
<1>7. Kept
  BY <1>0, <1>1, <1>6, SameBooks
<1>8. InDel' /\ (Before1 => Before1')
  BY <1>3, <1>4, <1>6, <1>7, DelKept DEF Retold
<1>9. Who'
  <2>1. WhoKept
    BY <1>1, <1>3, <1>5 DEF WhoKept, Retold, Idly
  <2>2. QED BY <2>1, <1>0, WhoFrame
<1>10. InStore'
  BY <1>0, <1>1, <1>2, StoreKept DEF Idly, Filling
<1>11. CASE AtEnd(call.p)
  <2>1. CASE call.op = "collect"
    <3>1. InLink'
      BY <2>1, <1>0, <1>3, <1>8 DEF InLink, InDel, Keeping, Retold, Who
    <3>2. Stage'
      BY <3>1, <2>1, <1>3, <1>11 DEF Stage
    <3>3. Going
      BY <3>2, <1>3, <1>9 DEF Going, Retold
    <3>4. QED BY <3>3, <1>1, <1>6, <1>10, AsideNext DEF Aside
  <2>2. CASE call.op # "collect"
    <3>1. Nothing'
      BY <2>2, <1>3, <1>8 DEF Nothing, InDel, Keeping, Retold
    <3>2. Stage'
      BY <3>1, <2>2, <1>3, <1>11 DEF Stage
    <3>3. Going
      BY <3>2, <1>3, <1>9 DEF Going, Retold
    <3>4. QED BY <3>3, <1>1, <1>6, <1>10, AsideNext DEF Aside
  <2>3. QED BY <2>1, <2>2
<1>12. CASE ~ AtEnd(call.p)
  <2>1. Before1'
    <3>1. PICK p \in Streams : p = call.p /\ Open(p)
      BY <1>3, Actors
    <3>2. las[p].la_file \in Files /\ PlaceFacts(fsd, chain[las[p].la_file], las[p])
          /\ laf[las[p].la_file].la_nlines = Size(fsd, chain[las[p].la_file]) /\ chain[las[p].la_file] \in Seq(Fsd)
      BY <3>1, <1>0, StreamHas DEF Chained
    <3>3. PICK l \in Nat : l = Size(fsd, chain[las[p].la_file])
      BY <3>2, <1>0, SizeNat DEF VarTypes
    <3>4. las[p].la_cfsd # Eof
      BY <3>1, <1>12 DEF AtEnd
    <3>5. las[p].la_lpos \in Nat /\ las[p].la_lpos <= l /\ las[p].la_lpos # l
      BY <3>2, <3>3, <3>4 DEF PlaceFacts
    <3>6. Before1
      BY <3>1, <3>2, <3>3, <3>5 DEF Before1, X
    <3>7. QED BY <3>6, <1>8
  <2>2. CASE call.d = None
    <3>1. InBreak'
      BY <2>1, <2>2, <1>3, <1>8 DEF InBreak, Apart1, Retold
    <3>2. Stage'
      BY <3>1, <2>2, <1>3, <1>12 DEF Stage
    <3>3. Going
      BY <3>2, <1>3, <1>9 DEF Going, Retold
    <3>4. QED BY <3>3, <1>1, <1>6, <1>10, AsideNext DEF Aside
  <2>3. CASE call.d # None
    <3>1. InZd'
      BY <2>1, <2>3, <1>3, <1>8 DEF InZd, Retold
    <3>2. ~ Copying'
      BY <1>3 DEF Copying, Retold
    <3>3. Stage'
      BY <3>1, <3>2, <2>3, <1>3, <1>12 DEF Stage
    <3>4. Going
      BY <3>3, <1>3, <1>9 DEF Going, Retold
    <3>5. QED BY <3>4, <1>1, <1>6, <1>10, AsideNext DEF Aside
  <2>4. QED BY <2>2, <2>3
<1>13. QED BY <1>11, <1>12

-----------------------------------------------------------------------------
(* The steps of copying and of la_blank.                                   *)

(* A copy goes on: where it is to be linked in. *)
LEMMA FilledKept ==
  ASSUME IInv, Kept, Copying, Filled, call'.op = call.op, call'.bad = call.bad, call'.d = call.d, call'.cnt = call.cnt,
         call'.n > 0, call.op = "blank" => call'.n <= LA_FSDLMAX
  PROVE  Filled' /\ (Edged(call.d) => Edged(call.d)')
<1>0. TypeOK /\ Books /\ call \in Calls
  BY InvParts
<1>1. call.op \notin {"none", "open"}
  BY DEF Copying
<1>2. PICK d : d = call.d
  OBVIOUS
<1>3. d \in Streams /\ Open(d)
  BY <1>1, <1>2, Actors
<1>4. (Edged(d) => Edged(d)') /\ \A n \in Nat : Cleft(d, n) => Cleft(d, n)'
  BY <1>0, <1>3, KeptEdges
<1>5. PICK c \in Nat : c = call.cnt
  BY <1>0, CallIs
<1>6. Cleft(d, c) => Cleft(d, c)'
  BY <1>4
<1>7. Cleft(call.d, call.cnt) => Cleft(call.d, call.cnt)'
  BY <1>2, <1>5, <1>6
<1>8. Edged(call.d) => Edged(call.d)'
  BY <1>2, <1>4
<1>9. chain[Chg] # << >> => chain'[Chg] # << >>
  BY DEF Kept, Files
<1>10. QED BY <1>7, <1>8, <1>9 DEF Filled

(* The end of the walk of a copy keeps the invariant.                      *)
LEMMA WalkEndNext ==
  ASSUME IInv, WalkEnd
  PROVE  IInv'
<1>0. /\ TypeOK /\ Books /\ InStore /\ Script /\ Who /\ Stage /\ VarTypes /\ call \in Calls
  BY InvParts
<1>1. Do("walk") /\ call.left = 0 /\ call' = Done /\ Idly /\ chg' = chg /\ coll' = coll
  BY DEF WalkEnd, Idly
<1>2. Advanced /\ Script' /\ Phase = "walk" /\ Leads("walk", Phase') /\ (ToDelete' => ToDelete) /\ SameLists
  BY <1>1, AdvancedIs
<1>3. Phase' = "linkd" /\ Copying
  BY <1>2 DEF Leads
<1>4. InWalk
  BY <1>0, <1>2 DEF Stage
<1>5. call.tail = << >> /\ call.cut = << >> /\ Filled /\ Edged(call.d) /\ Size(fsd, call.new) + 0 = call.n /\ call.n > 0
  BY <1>1, <1>4 DEF InWalk, Filled
<1>6. Size(fsd, call.new) = call.n /\ call.new # << >>
  <2>1. Size(fsd, call.new) \in Nat
    <3>1. call.new \in Seq(Fsd)
      BY <1>0, CallIs
    <3>2. QED BY <3>1, <1>0, SizeNat DEF VarTypes
  <2>2. Size(fsd, call.new) = call.n
    BY <2>1, <1>5
  <2>3. Size(fsd, << >>) = 0
    BY <1>0, SizeNone DEF VarTypes
  <2>4. QED BY <2>2, <2>3, <1>5
<1>7. Kept
  BY <1>0, <1>1, <1>2, SameBooks
<1>8. Filled' /\ Edged(call.d)'
  <2>1. call.op = "blank" => call.n <= LA_FSDLMAX
    BY <1>5 DEF Filled
  <2>2. QED BY <2>1, <1>2, <1>3, <1>5, <1>7, FilledKept DEF Advanced
<1>9. InLinkd'
  BY <1>1, <1>2, <1>5, <1>6, <1>8 DEF InLinkd, Loose, Advanced, Idly
<1>10. Stage'
  BY <1>3, <1>9 DEF Stage
<1>11. Who'
  BY <1>1, <1>2, WhoSame DEF Idly
<1>12. InStore'
  BY <1>0, <1>1, <1>2, StoreKept DEF Idly, Filling
<1>13. Going
  BY <1>2, <1>10, <1>11 DEF Going, Advanced
<1>14. QED BY <1>1, <1>2, <1>12, <1>13, AsideNext DEF Aside

(* Linking a copy in keeps the invariant.                                  *)
LEMMA LinkCopyNext ==
  ASSUME IInv, LinkCopy
  PROVE  IInv'
<1>0. /\ TypeOK /\ Books /\ InStore /\ Collected /\ Script /\ Who /\ Stage /\ NeverAbort /\ VarTypes /\ call \in Calls
      /\ chg \in Seq(Line) /\ CollType
  BY InvParts DEF CollType
<1>1. Do("linkd") /\ Link(call.d, call.new) /\ fsd' = fsd /\ chg' = chg /\ coll' = coll /\ call' = [Done EXCEPT !.new = << >>]
  BY DEF LinkCopy
<1>2. Phase = "linkd" /\ call.todo # << >> /\ Head(call.todo) = "linkd" /\ \E y : Leads("linkd", y)
  BY <1>1, StepLeads
<1>3. Copying
  BY <1>2 DEF Leads
<1>4. InLinkd
  BY <1>0, <1>2 DEF Stage
<1>5. Loose /\ call.new # << >> /\ Filled /\ Edged(call.d) /\ Size(fsd, call.new) = call.n
  BY <1>4 DEF InLinkd
<1>6. PICK c \in Nat : c = call.cnt
  BY <1>0, CallIs
<1>7. NewGone(c)
  BY <1>0, <1>1, <1>2, <1>6, NewGoneIs
<1>8. PICK s : s = call.d
  OBVIOUS
<1>9. s \in Stream /\ s \in Streams /\ Open(s) /\ call.op \in {"copy", "blank"} /\ ~ call.bad
  <2>1. call.op \notin {"none", "open"} /\ call.op \in {"copy", "blank"} /\ ~ call.bad
    BY <1>3 DEF Copying
  <2>2. QED BY <2>1, <1>3, <1>8, Actors
<1>10. LinksNew(s)
  BY <1>1, <1>5, <1>8, <1>9 DEF LinksNew
<1>11. /\ Books' /\ VarTypes' /\ Linked(s, Size(fsd, call.new))
       /\ \A t \in Streams : las'[t].la_file = las[t].la_file /\ las'[t].la_stay = las[t].la_stay
  BY <1>7, <1>10, LinkedNew
<1>12. Script' /\ Leads("linkd", Phase') /\ (ToDelete' => ToDelete)
  <2>1. Onwards
    BY <1>2, <1>7 DEF Onwards, NewGone
  <2>2. QED BY <2>1, <1>0, <1>2, Onward
<1>13. InStore'
  BY <1>0, <1>1, <1>2, StoreKept DEF Filling
<1>14. Who'
  <2>1. WhoKept
    BY <1>6, <1>7, <1>11, <1>12 DEF WhoKept, NewGone
  <2>2. QED BY <2>1, <1>0, WhoFrame
<1>15. Nothing'
  BY <1>5, <1>7 DEF Nothing, Loose, NewGone
<1>16. Stage'
  <2>1. CASE call.op = "copy"
    <3>1. Phase' = "end"
      BY <2>1, <1>12 DEF Leads
    <3>2. QED BY <3>1, <1>15 DEF Stage
  <2>2. CASE call.op = "blank"
    <3>1. Phase' = "chunk"
      BY <2>2, <1>12 DEF Leads
    <3>2. PICK m \in Nat : m = call.n
      BY <1>0, CallIs
    <3>3. Linked(s, m) /\ m > 0
      BY <3>2, <1>5, <1>11 DEF Filled
    <3>4. ~ las[s].la_stay
      BY <2>2, <1>0, <1>8, <1>9 DEF Who
    <3>5. c > 0 => Cleft(s, c)
      BY <2>2, <1>5, <1>6, <1>8 DEF Filled
    <3>6. Cleft(s, c + m)'
      BY <3>3, <3>4, <3>5, <1>0, LinkCleft
    <3>7. call'.d = s /\ call'.cnt = c /\ call'.n = m
      BY <1>7, <1>8, <3>2 DEF NewGone
    <3>8. Cleft(call.d, call.cnt + call.n)'
      BY <3>6, <3>7
    <3>9. chain'[Chg] # << >>
      <4>1. chain[Chg] # << >>
        BY <2>2, <1>5 DEF Filled
      <4>2. LinkFacts(las[s].la_file, las[s].la_lpos, m)
        BY <3>3 DEF Linked
      <4>3. las[s].la_file \in File /\ \A g \in Files : g # las[s].la_file => chain'[g] = chain[g]
        BY <4>2 DEF LinkFacts
      <4>4. Chg # las[s].la_file /\ Chg \in Files
        BY <4>3, NameAssumption DEF Files
      <4>5. QED BY <4>1, <4>3, <4>4
    <3>10. InChunk'
      BY <3>8, <3>9, <1>15 DEF InChunk
    <3>11. QED BY <3>1, <3>10 DEF Stage
  <2>3. QED BY <2>1, <2>2, <1>9
<1>17. Going
  BY <1>7, <1>12, <1>14, <1>16 DEF Going, NewGone
<1>18. Collected' /\ CollType' /\ chg' \in Seq(Line)
  BY <1>0, <1>1, CollSame
<1>19. QED BY <1>0, <1>11, <1>13, <1>17, <1>18, StepNext

-----------------------------------------------------------------------------

(* A blank that finds the blank lines there keeps the invariant.           *)
LEMMA HaveBlanksNext ==
  ASSUME IInv, HaveBlanks
  PROVE  IInv'
<1>0. /\ TypeOK /\ Books /\ InStore /\ Script /\ Who /\ Stage /\ VarTypes /\ call \in Calls
  BY InvParts
<1>1. Do("bprep") /\ chain[Chg] # << >> /\ call' = Done /\ Idly /\ chg' = chg /\ coll' = coll
  BY DEF HaveBlanks, Idly
<1>2. Advanced /\ Script' /\ Phase = "bprep" /\ Leads("bprep", Phase') /\ (ToDelete' => ToDelete) /\ SameLists
  BY <1>1, AdvancedIs
<1>3. Phase' = "chunk"
  BY <1>2 DEF Leads
<1>4. InBprep
  BY <1>0, <1>2 DEF Stage
<1>5. InChunk'
  BY <1>1, <1>2, <1>4 DEF InBprep, InChunk, Nothing, Loose, Advanced, Idly
<1>6. Stage'
  BY <1>3, <1>5 DEF Stage
<1>7. Who'
  BY <1>1, <1>2, WhoSame DEF Idly
<1>8. InStore'
  BY <1>0, <1>1, <1>2, StoreKept DEF Idly, Filling
<1>9. Going
  BY <1>2, <1>6, <1>7 DEF Going, Advanced
<1>10. QED BY <1>1, <1>2, <1>8, <1>9, AsideNext DEF Aside

(* The blank lines la_blank keeps are LA_FSDLMAX lines.                    *)
LEMMA BlanksAre == Blanks \in Seq(Line) /\ Len(Blanks) = LA_FSDLMAX
BY TextAssumption, LimitAssumption DEF Blanks

(* Making the blank lines keeps the invariant.                             *)
LEMMA MakeBlanksNext ==
  ASSUME IInv, MakeBlanks
  PROVE  IInv'
<1>0. /\ TypeOK /\ Books /\ InStore /\ Collected /\ Script /\ Who /\ Stage /\ NeverAbort /\ VarTypes /\ call \in Calls
      /\ chg \in Seq(Line) /\ CollType
  BY InvParts DEF CollType
<1>1. Do("bprep") /\ call' = Done /\ chg' = chg \o Blanks /\ coll' = coll /\ las' = [las EXCEPT ![Blas].la_cfsd = Fresh]
  BY DEF MakeBlanks
<1>2. Advanced /\ Script' /\ Phase = "bprep" /\ Leads("bprep", Phase') /\ (ToDelete' => ToDelete) /\ SameLists
  BY <1>1, AdvancedIs
<1>3. Phase' = "chunk"
  BY <1>2 DEF Leads
<1>4. InBprep
  BY <1>0, <1>2 DEF Stage
<1>5. Books' /\ VarTypes' /\ BlankFacts
  BY <1>0, BlankBooks
<1>6. chg' \in Seq(Line) /\ Len(chg') = Len(chg) + LA_FSDLMAX /\ Len(chg) \in Nat /\ LA_FSDLMAX \in Nat
  <2>1. PICK b \in Seq(Line) : b = Blanks /\ Len(b) = LA_FSDLMAX
    BY BlanksAre
  <2>2. chg' = chg \o b
    BY <1>1, <2>1
  <2>3. Len(chg) \in Nat /\ LA_FSDLMAX \in Nat
    BY <1>0, LimitAssumption
  <2>4. chg \o b \in Seq(Line) /\ Len(chg \o b) = Len(chg) + Len(b)
    BY <1>0, <2>1, ConcatIs
  <2>5. QED BY <2>1, <2>2, <2>3, <2>4
<1>7. Collected' /\ CollType'
  <2>1. coll.on => coll.chgpos < coll.nxchgpos /\ coll.nxchgpos <= Len(chg)
    BY <1>0 DEF Collected
  <2>2. coll.nxchgpos \in Nat
    BY <1>0 DEF CollType
  <2>3. QED BY <2>1, <2>2, <1>0, <1>1, <1>6 DEF Collected, CollType
<1>8. InStore'
  <2>1. PICK e \in Fsd : e = Fresh
    BY <1>5 DEF BlankFacts
  <2>2. fsd'[e] = [fsdfile |-> Chg, fsdpos |-> Len(chg), fsdnlines |-> LA_FSDLMAX] /\ \A z \in Fsd : z # e => fsd'[z] = fsd[z]
    BY <2>1, <1>5 DEF BlankFacts
  <2>3. fsd'[e].fsdfile = Chg /\ fsd'[e].fsdpos + fsd'[e].fsdnlines <= Len(chg')
    BY <2>2, <1>6
  <2>4. Within1(e)'
    BY <2>3 DEF Within1, Store
  <2>5. \A z \in Fsd : fsd'[z] = fsd[z] \/ Within1(z)'
    BY <2>2, <2>4
  <2>6. ~ Filling /\ Len(chg') >= Len(chg) /\ fsd \in [Fsd -> Fsds]
    BY <1>0, <1>2, <1>6 DEF Filling, VarTypes
  <2>7. QED BY <2>5, <2>6, <1>0, <1>6, StoreStep
<1>9. Who'
  <2>1. \A s \in Streams : las'[s].la_file = las[s].la_file /\ las'[s].la_stay = las[s].la_stay
    <3>1. las \in [Streams -> LaStreams]
      BY <1>0 DEF VarTypes
    <3>2. QED BY <3>1, <1>1 DEF LaStreams
  <2>2. QED BY <2>1, <1>2, WhoSame
<1>10. InChunk'
  BY <1>2, <1>4, <1>5 DEF InBprep, InChunk, Nothing, Loose, Advanced, BlankFacts
<1>11. Stage'
  BY <1>3, <1>10 DEF Stage
<1>12. Going
  BY <1>2, <1>9, <1>11 DEF Going, Advanced
<1>13. QED BY <1>0, <1>5, <1>6, <1>7, <1>8, <1>12, StepNext

(* The script of a copy.                                                   *)
LEMMA CopyStepsAre ==
  /\ CopySteps \in Seq(Steps) /\ CopySteps # << >> /\ Len(CopySteps) = 5
  /\ CopySteps[1] = "zd" /\ CopySteps[2] = "chead" /\ CopySteps[3] = "ctail" /\ CopySteps[4] = "walk" /\ CopySteps[5] = "linkd"
BY DEF CopySteps, Steps

(* la_blank copies its blank lines once more. *)
Rechunked(v, n, d, c, b) ==
  /\ call' \in Calls /\ call'.todo = v /\ call'.op = call.op /\ call'.p = call.p /\ call'.d = call.d
  /\ call'.n = n /\ call'.cfsd = d /\ call'.cnt = c /\ call'.blank = b /\ call'.new = call.new
  /\ call'.tail = call.tail /\ call'.cut = call.cut /\ call'.bad = call.bad /\ call'.ret = call.ret

(* What the call is when la_blank begins a copy of blank lines.            *)
LEMMA RechunkedIs ==
  ASSUME call \in Calls, NEW v \in Seq(Steps), NEW n \in Nat, NEW d \in Fsd \cup {Eof}, NEW c \in Nat, NEW b \in Nat,
         call' = [call EXCEPT !.todo = v, !.n = n, !.cfsd = d, !.cnt = c, !.blank = b]
  PROVE  Rechunked(v, n, d, c, b)
BY ZenonT(45) DEF Calls, Rechunked

(* Copying the next blank lines, or ending, keeps the invariant.           *)
LEMMA ChunkNext ==
  ASSUME IInv, Chunk
  PROVE  IInv'
<1>0. /\ TypeOK /\ Books /\ InStore /\ Collected /\ Script /\ Who /\ Stage /\ NeverAbort /\ VarTypes /\ call \in Calls
  BY InvParts
<1>1. Do("chunk") /\ Idly /\ chg' = chg /\ coll' = coll
  BY DEF Chunk, Idly
<1>2. Phase = "chunk" /\ call.todo # << >> /\ Head(call.todo) = "chunk" /\ \E y : Leads("chunk", y)
  BY <1>1, StepLeads
<1>3. call.op = "blank" /\ ~ call.bad /\ Copying
  BY <1>2 DEF Leads, Copying
<1>4. InChunk
  BY <1>0, <1>2 DEF Stage
<1>5. call.blank \in Nat /\ call.n \in Nat /\ call.cnt \in Nat
  BY <1>0, CallIs
<1>6. InStore'
  BY <1>0, <1>1, <1>2, StoreKept DEF Idly, Filling
<1>7. CASE call.blank = 0
  <2>1. call' = Done
    BY <1>7 DEF Chunk
  <2>2. Advanced /\ Script' /\ Leads("chunk", Phase') /\ (ToDelete' => ToDelete) /\ SameLists
    BY <2>1, <1>1, AdvancedIs
  <2>3. Phase' = "end"
    BY <2>2 DEF Leads
  <2>4. Nothing'
    BY <2>2, <1>4 DEF InChunk, Nothing, Loose, Advanced
  <2>5. Stage'
    BY <2>3, <2>4 DEF Stage
  <2>6. Who'
    BY <2>2, <1>1, WhoSame DEF Idly
  <2>7. Going
    BY <2>2, <2>5, <2>6 DEF Going, Advanced
  <2>8. QED BY <2>2, <2>7, <1>1, <1>6, AsideNext DEF Aside
<1>8. CASE call.blank # 0
  <2>1. PICK n \in Nat : n = Lesser(call.blank, LA_FSDLMAX) /\ n > 0 /\ n <= call.blank /\ n <= LA_FSDLMAX
    BY <1>5, <1>8, LimitAssumption DEF Lesser
  <2>2. PICK b : b = Blas
    OBVIOUS
  <2>3. /\ b \in Streams /\ las[b].la_file = Chg /\ las[b].la_fsline = 0 /\ las[b].la_lpos = 0 /\ Open(b)
        /\ las[b].la_cfsd \in Fsd \cup {Eof} /\ Chg \in Files /\ Chg # NoFile
        /\ Len(chain[Chg]) = 1 /\ fsd[chain[Chg][1]].fsdnlines = LA_FSDLMAX
    <3>1. b \in Streams /\ Chg \in Files /\ Chg # NoFile
      BY <2>2, NameAssumption DEF Streams, Files
    <3>2. las[b] \in LaStreams
      BY <3>1, <1>0 DEF VarTypes
    <3>3. QED BY <3>1, <3>2, <2>2, <1>0, <1>4 DEF Books, Filler, InChunk, LaStreams, Open
  <2>4. PICK z \in Fsd \cup {Eof} : z = las[b].la_cfsd
    BY <2>3
  <2>5. PICK c \in Nat : c = call.cnt + call.n
    BY <1>5
  <2>6. PICK w \in Nat : w = call.blank - n
    BY <2>1, <1>5
  <2>7. PICK t : t = call.todo
    OBVIOUS
  <2>8. PICK v : v = CopySteps \o t
    OBVIOUS
  <2>9. /\ v \in Seq(Steps) /\ Leading(v) /\ Starts(v) = "zd"
    <3>1. t \in Seq(Steps) /\ Leading(t) /\ Starts(t) = "chunk"
      BY <2>7, <1>0, <1>2, TailLeading
    <3>2. /\ Leads("zd", "chead") /\ Leads("chead", "ctail") /\ Leads("ctail", "walk") /\ Leads("walk", "linkd")
          /\ Leads("linkd", Starts(t))
      BY <3>1, <1>3 DEF Leads
    <3>3. PICK u : u = CopySteps
      OBVIOUS
    <3>4. /\ u \in Seq(Steps) /\ u # << >> /\ Len(u) = 5
          /\ u[1] = "zd" /\ u[2] = "chead" /\ u[3] = "ctail" /\ u[4] = "walk" /\ u[5] = "linkd"
      BY <3>3, CopyStepsAre
    <3>5. \A i \in 1 .. 5 : i = 1 \/ i = 2 \/ i = 3 \/ i = 4 \/ i = 5
      OBVIOUS
    <3>6. ASSUME NEW i \in 1 .. 5 PROVE Leads(u[i], IF i < 5 THEN u[i + 1] ELSE Starts(t))
      BY <3>2, <3>4, <3>5
    <3>7. Joins(u, t)
      BY <3>4, <3>6 DEF Joins
    <3>8. JoinArgs(u, t)
      BY <3>1, <3>4, <3>7 DEF JoinArgs
    <3>9. u \o t \in Seq(Steps) /\ Leading(u \o t) /\ Starts(u \o t) = u[1]
      BY <3>4, <3>8, Prefixed
    <3>10. QED BY <3>3, <3>4, <3>9, <2>8
  <2>10. call' = [call EXCEPT !.todo = v, !.n = n, !.cfsd = z, !.cnt = c, !.blank = w]
    BY <2>1, <2>2, <2>4, <2>5, <2>6, <2>7, <2>8, <1>8 DEF Chunk
  <2>11. Rechunked(v, n, z, c, w)
    BY <2>9, <2>10, <1>0, RechunkedIs
  <2>12. Script' /\ Phase' = "zd"
    BY <2>9, <2>11, <1>0, ScriptNext DEF Rechunked
  <2>13. SameLists /\ Copying' /\ ~ Cuts' /\ Nothing'
    BY <2>11, <1>3, <1>4 DEF Rechunked, SameLists, Copying, Cuts, InChunk, Nothing, Loose
  <2>14. Kept
    BY <2>13, <1>0, <1>1, SameBooks
  <2>15. call.p = b /\ call.d \in Stream /\ call.d \in Streams /\ Open(call.d)
    BY <2>2, <1>3, Actors
  <2>16. Who'
    <3>1. Open(call.p)' /\ Open(call.d)'
      BY <2>3, <2>11, <2>15, <1>1 DEF Rechunked, Open, Idly
    <3>2. ~ las'[call.d].la_stay
      BY <1>0, <1>1, <1>3 DEF Who, Idly
    <3>3. call'.op = "blank" /\ ~ call'.bad /\ call'.p = Blas /\ call'.d = call.d /\ call.d # None
      <4>1. call.d # None
        BY <2>15, NameAssumption
      <4>2. QED BY <4>1, <2>2, <2>11, <2>15, <1>3 DEF Rechunked
    <3>4. QED BY <3>1, <3>2, <3>3, <2>15 DEF Who
  <2>17. Filled'
    <3>1. chain'[Chg] # << >>
      BY <1>1, <1>4 DEF InChunk, Idly
    <3>2. c > 0 => Cleft(call.d, c)
      BY <2>5, <1>4 DEF InChunk
    <3>3. PICK d : d = call.d
      OBVIOUS
    <3>4. Cleft(d, c)' <=> Cleft(d, c)
      BY <1>1, SameEdges
    <3>5. call'.d = d /\ call'.cnt = c /\ call'.n = n
      BY <3>3, <2>11 DEF Rechunked
    <3>6. call'.cnt > 0 => Cleft(call.d, call.cnt)'
      BY <3>2, <3>3, <3>4, <3>5
    <3>7. QED BY <3>1, <3>5, <3>6, <2>1 DEF Filled
  <2>18. AtCopy'
    <3>1. PICK ds : ds = chain[Chg]
      OBVIOUS
    <3>2. ds \in Seq(Fsd) /\ Len(ds) = 1 /\ fsd[ds[1]].fsdnlines = LA_FSDLMAX /\ laf[Chg].la_nlines = Size(fsd, ds)
      BY <3>1, <2>3, <1>0 DEF VarTypes, Books, Numbered
    <3>3. Size(fsd, ds) = LA_FSDLMAX
      <4>1. fsd \in [Fsd -> Fsds]
        BY <1>0 DEF VarTypes
      <4>2. Sums(fsd, ds)[0] = 0 /\ Sums(fsd, ds)[1] = Sums(fsd, ds)[1 - 1] + fsd[ds[1]].fsdnlines
        <5>1. 1 \in 1 .. Len(ds)
          BY <3>2
        <5>2. QED BY <5>1, <3>2, <4>1, SumsIs
      <4>3. Sums(fsd, ds)[1] = LA_FSDLMAX
        BY <4>2, <3>2, LimitAssumption
      <4>4. QED BY <4>3, <3>2 DEF Size
    <3>4. las[b].la_lpos < laf[Chg].la_nlines
      BY <3>2, <3>3, <2>3, LimitAssumption
    <3>5. X' = las[b]
      BY <2>11, <2>15, <1>1 DEF X, Rechunked, Idly
    <3>6. Before1'
      BY <3>4, <3>5, <2>3, <1>1 DEF Before1, Idly
    <3>7. call'.cfsd = X'.la_cfsd
      BY <3>5, <2>4, <2>11 DEF Rechunked
    <3>8. QED BY <3>6, <3>7, <2>17 DEF AtCopy
  <2>19. ~ Broken(las[call.d]) => las[call.d].la_cfsd # z
    <3>1. PICK d \in Stream : d = call.d /\ d \in Streams /\ Open(d)
      BY <2>15
    <3>2. PICK g \in File : g = las[d].la_file
      BY <3>1, <1>0, OpenIs
    <3>3. g \in Files /\ g # Chg /\ PlaceFacts(fsd, chain[g], las[d]) /\ PlaceFacts(fsd, chain[Chg], las[b])
      <4>1. g \in Files /\ g # Chg
        BY <3>2, NameAssumption DEF Files
      <4>2. PlaceFacts(fsd, chain[g], las[d])
        BY <3>1, <3>2, <1>0, StreamHas
      <4>3. PlaceFacts(fsd, chain[Chg], las[b])
        BY <2>3, <1>0, StreamHas
      <4>4. QED BY <4>1, <4>2, <4>3
    <3>4. Disjoint(chain[g], chain[Chg])
      BY <3>3, <2>3, <1>0, ChainsApart
    <3>5. ~ Broken(las[d]) => las[d].la_cfsd # Eof
      BY DEF Broken
    <3>6. ~ Broken(las[d]) => las[d].la_cfsd \in Elems(chain[g])
      BY <3>3, <3>5 DEF PlaceFacts
    <3>7. z # Eof => z \in Elems(chain[Chg])
      BY <3>3, <2>4 DEF PlaceFacts
    <3>8. QED BY <3>1, <3>4, <3>5, <3>6, <3>7 DEF Disjoint
  <2>20. InZdCopy'
    <3>1. ~ Broken(las'[call'.d]) => las'[call'.d].la_cfsd # call'.cfsd
      BY <2>11, <2>19, <1>1 DEF Rechunked, Idly
    <3>2. (~ Broken(las[call.d]) => las[call.d].la_cfsd # call.cfsd)'
      BY <3>1 DEF Broken
    <3>3. QED BY <3>2, <2>13, <2>18 DEF InZdCopy
  <2>21. Stage'
    BY <2>12, <2>13, <2>20 DEF Stage
  <2>22. Going
    BY <2>11, <2>12, <2>16, <2>21 DEF Going, Rechunked
  <2>23. QED BY <2>13, <2>22, <1>1, <1>6, AsideNext DEF Aside
<1>9. QED BY <1>7, <1>8

-----------------------------------------------------------------------------
(* The first fsd of a copy.                                                *)

(* Where a copy begins. *)
CopyAt(p, f, d, k, w) ==
  /\ p = call.p /\ p \in Streams /\ Open(p) /\ X = las[p] /\ f = X.la_file /\ f \in Files /\ Ds = chain[f] /\ Chained(fsd, Ds)
  /\ X \in LaStreams /\ PlaceFacts(fsd, Ds, X) /\ InChain(fsd, Ds, X) /\ laf[f].la_nlines = Size(fsd, Ds)
  /\ d = X.la_cfsd /\ d \in Fsd /\ d \in Elems(Ds) /\ d # Eof
  /\ k = X.la_fsline /\ w = fsd[d].fsdnlines /\ k \in Nat /\ w \in Nat /\ k < w /\ w <= LA_FSDLMAX

(* Where a copy begins: an fsd of the source, and the lines of it that are *)
(* wanted.                                                                 *)
LEMMA CopyAtIs ==
  ASSUME IInv, Copying, Before1
  PROVE  \E p, f, d, k, w : CopyAt(p, f, d, k, w)
<1>0. TypeOK /\ Books /\ VarTypes
  BY InvParts
<1>1. call.op \notin {"none", "open"}
  BY DEF Copying
<1>2. PICK p : p = call.p
  OBVIOUS
<1>3. p \in Streams /\ Open(p)
  BY <1>1, <1>2, Actors
<1>4. PICK f : f = las[p].la_file
  OBVIOUS
<1>5. /\ f \in Files /\ Chained(fsd, chain[f]) /\ PlaceFacts(fsd, chain[f], las[p]) /\ las[p] \in LaStreams
      /\ InChain(fsd, chain[f], las[p]) /\ laf[f].la_nlines = Size(fsd, chain[f])
  BY <1>0, <1>3, <1>4, StreamHas, StreamIs
<1>6. X = las[p] /\ Ds = chain[f]
  BY <1>2, <1>4 DEF X, Ds
<1>7. PICK d : d = X.la_cfsd
  OBVIOUS
<1>8. d # Eof
  <2>1. PICK l \in Nat : l = Size(fsd, chain[f])
    <3>1. chain[f] \in Seq(Fsd)
      BY <1>5 DEF Chained
    <3>2. QED BY <3>1, <1>0, SizeNat DEF VarTypes
  <2>2. las[p].la_lpos < l /\ las[p].la_lpos \in Nat
    BY <2>1, <1>4, <1>5, <1>6 DEF Before1, PlaceFacts
  <2>3. las[p].la_lpos # l
    BY <2>2
  <2>4. QED BY <2>1, <2>3, <1>5, <1>6, <1>7 DEF PlaceFacts
<1>9. d \in Elems(chain[f]) /\ d \in Fsd /\ X.la_fsline < fsd[d].fsdnlines /\ fsd[d].fsdfile # NoFile
  BY <1>5, <1>6, <1>7, <1>8 DEF PlaceFacts, Chained
<1>10. fsd[d].fsdnlines \in 1 .. LA_FSDLMAX
  BY <1>0, <1>9 DEF Books, Lined
<1>11. X.la_fsline \in Nat
  BY <1>5, <1>6 DEF LaStreams
<1>12. PICK k, w : k = X.la_fsline /\ w = fsd[d].fsdnlines
  OBVIOUS
<1>13. w \in Nat /\ w <= LA_FSDLMAX
  BY <1>10, <1>12, LimitAssumption, SMTT(45)
<1>14. CopyAt(p, f, d, k, w)
  BY <1>2, <1>3, <1>4, <1>5, <1>6, <1>7, <1>8, <1>9, <1>11, <1>12, <1>13 DEF CopyAt
<1>15. QED BY <1>14

(* An fsd is made like a part of another one. *)
PieceArgs(d, from, n) ==
  /\ d \in Fsd /\ fsd[d].fsdfile # NoFile /\ from \in Nat /\ n \in Nat /\ n > 0 /\ from + n <= fsd[d].fsdnlines
  /\ MakePiece(d, from, n) /\ chain' = chain /\ las' = las /\ chg' = chg /\ ~ Filling /\ (NewMade \/ TailMade)
PieceFacts(e, n) ==
  /\ e \in Fsd /\ e = Fresh /\ fsd'[e].fsdnlines = n /\ \A z \in Fsd : z # e => fsd'[z] = fsd[z]
  /\ \A ds : Chained(fsd, ds) => Alias(fsd, fsd', ds) /\ e \notin Elems(ds)
  /\ fsd' \in [Fsd -> Fsds]

(* An fsd for some of the lines of another keeps the books.                *)
LEMMA PieceIs ==
  ASSUME IInv, NEW d, NEW from, NEW n, PieceArgs(d, from, n)
  PROVE  Books' /\ VarTypes' /\ Kept /\ InStore' /\ \E e : PieceFacts(e, n)
<1>0. TypeOK /\ Books /\ InStore /\ VarTypes
  BY InvParts
<1>1. /\ d \in Fsd /\ fsd[d].fsdfile # NoFile /\ from \in Nat /\ n \in Nat /\ n > 0 /\ from + n <= fsd[d].fsdnlines
      /\ MakePiece(d, from, n) /\ chain' = chain /\ las' = las /\ chg' = chg /\ ~ Filling /\ (NewMade \/ TailMade)
  BY DEF PieceArgs
<1>2. fsd[d] \in Fsds /\ fsd[d].fsdnlines \in 1 .. LA_FSDLMAX /\ Within1(d)
  BY <1>0, <1>1 DEF VarTypes, Books, Lined, InStore, Filling
<1>3. PICK g \in Files : g = fsd[d].fsdfile
  BY <1>1, <1>2 DEF Fsds
<1>4. PICK b \in Nat : b = fsd[d].fsdpos + from
  BY <1>1, <1>2 DEF Fsds
<1>5. fsd[d].fsdpos \in Nat /\ fsd[d].fsdnlines \in Nat /\ n <= LA_FSDLMAX /\ fsd[d].fsdnlines <= LA_FSDLMAX
  <2>1. fsd[d].fsdpos \in Nat /\ fsd[d].fsdnlines \in Nat /\ fsd[d].fsdnlines <= LA_FSDLMAX
    BY <1>2, LimitAssumption DEF Fsds
  <2>2. QED BY <2>1, <1>1, LimitAssumption
<1>6. MakeArgs(g, b, n)
  BY <1>1, <1>5, LimitAssumption DEF MakeArgs, MakePiece
<1>7. Made(g, b, n)
  BY <1>1, <1>3, <1>4 DEF Made, OneMore, MakePiece, Piece
<1>8. Books' /\ VarTypes' /\ Kept
  BY <1>0, <1>1, <1>6, <1>7, MakeBooks
<1>9. MadeFacts(g, b, n)
  BY <1>0, <1>6, <1>7, MadeHas
<1>10. b + n <= Len(Store(g))
  <2>1. fsd[d].fsdpos + fsd[d].fsdnlines <= Len(Store(g)) /\ Len(Store(g)) \in Nat
    BY <1>0, <1>2, <1>3, StoreLen DEF Within1
  <2>2. QED BY <2>1, <1>1, <1>4, <1>5, SMTT(45)
<1>11. InStore'
  BY <1>0, <1>1, <1>6, <1>7, <1>10, MakeStore
<1>12. PICK e : e = Fresh
  OBVIOUS
<1>13. PieceFacts(e, n)
  <2>1. /\ e \in Fsd /\ fsd'[e] = [fsdfile |-> g, fsdpos |-> b, fsdnlines |-> n]
        /\ fsd[e].fsdfile = NoFile /\ fsd' \in [Fsd -> Fsds]
        /\ \A z \in Fsd : z # e => fsd'[z] = fsd[z]
        /\ \A ds : Chained(fsd, ds) => Alias(fsd, fsd', ds)
    BY <1>9, <1>12 DEF MadeFacts
  <2>2. \A ds : Chained(fsd, ds) => e \notin Elems(ds)
    BY <2>1 DEF Chained
  <2>3. fsd'[e].fsdnlines = n
    BY <2>1
  <2>4. QED BY <2>1, <2>2, <2>3, <1>12 DEF PieceFacts
<1>14. QED BY <1>8, <1>11, <1>13

(* What a copy is asked for stays, while fsds are made. *)
LEMMA CopyKept ==
  ASSUME IInv, Kept, las' = las, call'.p = call.p, Copying, Before1
  PROVE  Before1' /\ X' = X
<1>0. TypeOK /\ Books
  BY InvParts
<1>1. PICK p : p = call.p
  OBVIOUS
<1>2. p \in Streams /\ Open(p)
  BY <1>1, Actors DEF Copying
<1>3. laf'[las'[p].la_file].la_nlines = laf[las[p].la_file].la_nlines
  BY <1>0, <1>2, KeptEdges
<1>4. QED BY <1>1, <1>3 DEF Before1, X

HeadMade(v, e) ==
  /\ call' \in Calls /\ call'.todo = v /\ call'.op = call.op /\ call'.p = call.p /\ call'.d = call.d
  /\ call'.n = call.n /\ call'.cfsd = call.cfsd /\ call'.cnt = call.cnt /\ call'.new = << e >>
  /\ call'.tail = call.tail /\ call'.cut = call.cut /\ call'.bad = call.bad /\ call'.ret = call.ret

(* What the call is when the first fsd of a copy has been made.            *)
LEMMA HeadMadeIs ==
  ASSUME call \in Calls, call.todo # << >>, NEW v \in Seq(Steps), NEW e \in Fsd, call' = [Done EXCEPT !.new = << e >>, !.todo = v]
  PROVE  HeadMade(v, e)
<1>1. /\ Done \in Calls /\ Done.op = call.op /\ Done.p = call.p /\ Done.d = call.d
      /\ Done.n = call.n /\ Done.cfsd = call.cfsd /\ Done.bad = call.bad /\ Done.ret = call.ret
      /\ Done.tail = call.tail /\ Done.cut = call.cut /\ Done.cnt = call.cnt
  BY DoneIs
<1>2. PICK r : r = Done
  OBVIOUS
<1>9. << e >> \in Seq(Fsd)
  OBVIOUS
<1>3. PICK a \in Seq(Fsd) : a = << e >>
  BY <1>9
<1>4. call' = [r EXCEPT !.new = a, !.todo = v] /\ r \in Calls
  BY <1>1, <1>2, <1>3
<1>5. /\ call' \in Calls /\ call'.todo = v /\ call'.op = r.op /\ call'.p = r.p /\ call'.d = r.d
      /\ call'.n = r.n /\ call'.cfsd = r.cfsd /\ call'.bad = r.bad /\ call'.ret = r.ret
      /\ call'.new = a /\ call'.tail = r.tail /\ call'.cut = r.cut /\ call'.cnt = r.cnt
  BY <1>4, ZenonT(45) DEF Calls
<1>6. QED BY <1>1, <1>2, <1>3, <1>5 DEF HeadMade

(* Making the first fsd of a copy keeps the invariant.                     *)
LEMMA CopyHeadNext ==
  ASSUME IInv, CopyHead
  PROVE  IInv'
<1>0. /\ TypeOK /\ Books /\ InStore /\ Collected /\ Script /\ Who /\ Stage /\ NeverAbort /\ VarTypes /\ call \in Calls
      /\ chg \in Seq(Line) /\ CollType
  BY InvParts DEF CollType
<1>1. Do("chead") /\ chain' = chain /\ las' = las /\ chg' = chg /\ coll' = coll
  BY DEF CopyHead
<1>2. Phase = "chead" /\ call.todo # << >> /\ Head(call.todo) = "chead" /\ \E y : Leads("chead", y)
  BY <1>1, StepLeads
<1>3. Copying /\ call.op \in {"copy", "blank"} /\ ~ call.bad
  BY <1>2 DEF Leads, Copying
<1>4. InChead
  BY <1>0, <1>2 DEF Stage
<1>5. Nothing /\ Filled /\ Before1 /\ call.cfsd = X.la_cfsd /\ Edged(call.d) /\ call.n > 0
      /\ (call.op = "blank" => call.n <= LA_FSDLMAX)
  BY <1>4 DEF InChead, AtCopy, Filled
<1>6. PICK p, f, d, k, w : CopyAt(p, f, d, k, w)
  BY <1>3, <1>5, CopyAtIs
<1>7. /\ p = call.p /\ p \in Streams /\ X = las[p] /\ d = X.la_cfsd /\ d \in Fsd /\ d \in Elems(Ds) /\ Chained(fsd, Ds)
      /\ k = X.la_fsline /\ w = fsd[d].fsdnlines /\ k \in Nat /\ w \in Nat /\ k < w
  BY <1>6 DEF CopyAt
<1>8. PICK n \in Nat : n = call.n
  BY <1>0, CallIs
<1>9. Collected' /\ CollType' /\ chg' \in Seq(Line)
  BY <1>0, <1>1, CollSame
<1>10. CASE X.la_fsline = 0
  <2>1. fsd' = fsd /\ laf' = laf /\ call' = Done
    BY <1>10 DEF CopyHead, X
  <2>2. Advanced /\ Script' /\ Leads("chead", Phase') /\ (ToDelete' => ToDelete) /\ SameLists
    BY <2>1, <1>1, AdvancedIs
  <2>3. Idly
    BY <2>1, <1>1 DEF Idly
  <2>4. Kept
    BY <2>2, <2>3, <1>0, SameBooks
  <2>5. Filled' /\ Edged(call.d)'
    BY <2>2, <2>4, <1>3, <1>5, FilledKept DEF Advanced
  <2>6. Before1' /\ X' = X
    BY <2>2, <2>4, <1>1, <1>3, <1>5, CopyKept DEF Advanced
  <2>7. InCtail'
    <3>1. Loose' /\ call'.new = << >> /\ call'.cfsd = call.cfsd
      BY <2>2, <1>5 DEF Advanced, Nothing, Loose
    <3>2. AtCopy'
      BY <3>1, <2>5, <2>6, <1>5 DEF AtCopy
    <3>3. X'.la_fsline = 0
      BY <2>6, <1>10
    <3>4. QED BY <3>1, <3>2, <3>3, <2>5 DEF InCtail
  <2>8. Phase' = "ctail"
    BY <2>2 DEF Leads
  <2>9. Stage'
    BY <2>7, <2>8 DEF Stage
  <2>10. Who'
    BY <2>2, <1>1, WhoSame
  <2>11. InStore'
    BY <2>1, <1>0, <1>1, <1>2, StoreKept DEF Filling
  <2>12. Going
    BY <2>2, <2>9, <2>10 DEF Going, Advanced
  <2>13. QED BY <2>2, <2>3, <2>11, <2>12, <1>1, AsideNext DEF Aside
<1>11. CASE X.la_fsline # 0
  <2>1. PICK m : m = Lesser(call.n, w - k)
    OBVIOUS
  <2>2. m \in Nat /\ m > 0 /\ k + m <= w /\ (k + n < w => m = n) /\ (~ (k + n < w) => m + k = w /\ n >= m)
    BY <2>1, <1>5, <1>7, <1>8 DEF Lesser
  <2>3. PICK v : v = IF Within(X, call.n) THEN << "linkd" >> ELSE Tail(call.todo)
    OBVIOUS
  <2>4. MakePiece(d, k, m) /\ Free # {}
    <3>1. m = Lesser(call.n, fsd[X.la_cfsd].fsdnlines - X.la_fsline)
      BY <2>1, <1>7
    <3>2. MakePiece(X.la_cfsd, X.la_fsline, Lesser(call.n, fsd[X.la_cfsd].fsdnlines - X.la_fsline))
      BY <1>11 DEF CopyHead, X
    <3>3. MakePiece(d, k, m)
      BY <3>1, <3>2, <1>7
    <3>4. QED BY <3>3 DEF MakePiece
  <2>5. Fresh \in Fsd
    BY <2>4, FreshIs
  <2>6. PICK e \in Fsd : e = Fresh
    BY <2>5
  <2>7. call' = [Done EXCEPT !.new = << e >>, !.todo = v]
    <3>1. Done.todo = Tail(call.todo)
      BY <1>0, <1>2, DoneIs
    <3>2. PICK r : r = Done
      OBVIOUS
    <3>3. call' = [r EXCEPT !.new = << Fresh >>, !.todo = IF Within(X, call.n) THEN << "linkd" >> ELSE r.todo]
      BY <3>2, <1>11 DEF CopyHead, X
    <3>4. QED BY <3>1, <3>2, <3>3, <2>3, <2>6
  <2>8. Within(X, call.n) <=> k + n < w
    BY <1>7, <1>8, <1>11 DEF Within
  <2>9. Within(X, call.n) => call.op = "copy"
    <3>1. SUFFICES ASSUME call.op = "blank" PROVE X.la_fsline = 0
      BY <1>3, <1>11
    <3>2. p = Blas
      BY <3>1, <1>3, <1>7, Actors
    <3>3. QED BY <3>2, <1>0, <1>7 DEF Books, Filler
  <2>10. /\ v \in Seq(Steps) /\ Leading(v) /\ Starts(v) = (IF Within(X, call.n) THEN "linkd" ELSE "ctail")
         /\ \A i \in 1 .. Len(v) : v[i] = "del" => ToDelete
    <3>1. CASE Within(X, call.n)
      <4>1. v = << "linkd" >>
        BY <3>1, <2>3
      <4>2. v \in Seq(Steps) /\ Len(v) = 1 /\ v[1] = "linkd" /\ v # << >>
        BY <4>1 DEF Steps
      <4>3. Leads("linkd", "end")
        BY <3>1, <2>9, <1>3 DEF Leads
      <4>4. \A i \in 1 .. 1 : i = 1 /\ ~ (i < 1)
        OBVIOUS
      <4>5. Leading(v)
        BY <4>2, <4>3, <4>4 DEF Leading
      <4>6. QED BY <4>2, <4>4, <4>5, <3>1 DEF Starts
    <3>2. CASE ~ Within(X, call.n)
      <4>1. v = Tail(call.todo)
        BY <3>2, <2>3
      <4>2. v \in Seq(Steps) /\ Leading(v) /\ Leads("chead", Starts(v))
        BY <4>1, <1>0, <1>2, TailLeading
      <4>3. Starts(v) = "ctail"
        BY <4>2 DEF Leads
      <4>4. ASSUME NEW i \in 1 .. Len(v), v[i] = "del" PROVE ToDelete
        <5>1. PICK t : t = call.todo
          OBVIOUS
        <5>2. t \in Seq(Steps) /\ t # << >>
          BY <5>1, <1>0, <1>2, CallIs
        <5>3. Len(v) = Len(t) - 1 /\ v[i] = t[i + 1] /\ i + 1 \in 1 .. Len(t)
          BY <5>1, <5>2, <4>1, <4>4, TailIs
        <5>4. QED BY <5>1, <5>3, <4>4 DEF ToDelete
      <4>5. QED BY <4>2, <4>3, <4>4, <3>2
    <3>3. QED BY <3>1, <3>2
  <2>11. HeadMade(v, e)
    BY <2>7, <2>10, <1>0, <1>2, HeadMadeIs
  <2>12. NewMade
    <3>1. call.new = << >> /\ call'.new = << e >>
      BY <2>11, <1>5 DEF HeadMade, Nothing
    <3>2. Append(<< >>, e) = << e >>
      OBVIOUS
    <3>3. QED BY <3>1, <3>2, <2>6, <2>11 DEF NewMade, HeadMade
  <2>13. PieceArgs(d, k, m)
    <3>1. fsd[d].fsdfile # NoFile
      BY <1>7 DEF Chained
    <3>2. QED BY <3>1, <2>2, <2>4, <2>12, <1>1, <1>2, <1>7 DEF PieceArgs, Filling
  <2>14. Books' /\ VarTypes' /\ Kept /\ InStore' /\ \E z : PieceFacts(z, m)
    BY <2>13, PieceIs
  <2>15. fsd'[e].fsdnlines = m /\ fsd'[d] = fsd[d] /\ fsd' \in [Fsd -> Fsds]
    <3>1. PieceFacts(e, m)
      BY <2>6, <2>14 DEF PieceFacts
    <3>2. e \notin Elems(Ds)
      BY <3>1, <1>7 DEF PieceFacts
    <3>3. QED BY <3>1, <3>2, <1>7 DEF PieceFacts
  <2>16. Script' /\ Phase' = IF Within(X, call.n) THEN "linkd" ELSE "ctail"
    BY <2>10, <2>11, <1>0, ScriptNext DEF HeadMade
  <2>17. ToDelete' => ToDelete
    BY <2>10, <2>11 DEF ToDelete, HeadMade
  <2>18. Filled' /\ Edged(call.d)'
    BY <2>11, <2>14, <1>3, <1>5, FilledKept DEF HeadMade
  <2>19. Before1' /\ X' = X
    BY <2>11, <2>14, <1>1, <1>3, <1>5, CopyKept DEF HeadMade
  <2>20. Who'
    <3>1. WhoKept
      BY <2>11, <2>17, <1>1 DEF WhoKept, HeadMade
    <3>2. QED BY <3>1, <1>0, WhoFrame
  <2>21. Size(fsd', call'.new) = m
    <3>1. Size(fsd', << e >>) = fsd'[e].fsdnlines
      <4>1. \A mm \in [Fsd -> Fsds] : Size(mm, << e >>) = mm[e].fsdnlines
        BY SizeOne
      <4>2. QED BY <4>1, <2>15
    <3>2. QED BY <3>1, <2>11, <2>15 DEF HeadMade
  <2>22. Loose' /\ call'.new # << >> /\ call'.n = n /\ call'.cfsd = call.cfsd
    BY <2>11, <1>5, <1>8 DEF HeadMade, Loose, Nothing
  <2>23. Stage'
    <3>1. CASE Within(X, call.n)
      <4>1. m = n
        BY <3>1, <2>2, <2>8
      <4>2. InLinkd'
        BY <4>1, <2>18, <2>21, <2>22 DEF InLinkd
      <4>3. QED BY <4>2, <3>1, <2>16 DEF Stage
    <3>2. CASE ~ Within(X, call.n)
      <4>1. m + k = w /\ n >= m
        BY <3>2, <2>2, <2>8
      <4>2. AtCopy'
        BY <2>18, <2>19, <2>22, <1>5 DEF AtCopy
      <4>3. X'.la_fsline = k /\ X'.la_cfsd = d /\ fsd'[d].fsdnlines = w
        BY <2>15, <2>19, <1>7
      <4>4. InCtail'
        BY <4>1, <4>2, <4>3, <2>18, <2>21, <2>22 DEF InCtail
      <4>5. QED BY <4>4, <3>2, <2>16 DEF Stage
    <3>3. QED BY <3>1, <3>2
  <2>24. Going
    BY <2>11, <2>16, <2>20, <2>23 DEF Going, HeadMade
  <2>25. QED BY <2>14, <2>24, <1>0, <1>9, StepNext
<1>12. QED BY <1>10, <1>11

-----------------------------------------------------------------------------
(* The last fsd of a copy.                                                 *)

(* The fsd after the one that is pointed at. *)
LEMMA ForwIs ==
  ASSUME NEW m \in [Fsd -> Fsds], NEW ds, Chained(m, ds), NEW d, d # Eof, NEW n, Pointed(m, ds, d, n)
  PROVE  /\ Pointed(m, ds, Forw(ds, d), n + m[d].fsdnlines)
         /\ Forw(ds, d) \in Fsd \cup {Eof} /\ d \in Elems(ds) /\ d \in Fsd
<1>1. ds \in Seq(Fsd) /\ Inj(ds) /\ \A z \in Elems(ds) : z \in Fsd
  BY DEF Chained
<1>2. PICK j \in 1 .. Len(ds) + 1 : d = Nth(ds, j) /\ Sums(m, ds)[j - 1] = n
  BY DEF Pointed
<1>3. j \in 1 .. Len(ds) /\ d = ds[j] /\ j \in Nat /\ Len(ds) \in Nat
  BY <1>1, <1>2 DEF Nth
<1>4. At(ds, d) = j
  BY <1>1, <1>2, AtIs
<1>5. Forw(ds, d) = Nth(ds, j + 1)
  BY <1>3, <1>4 DEF Forw, Nth
<1>6. Sums(m, ds)[j] = Sums(m, ds)[j - 1] + m[ds[j]].fsdnlines
  BY <1>1, <1>3, SumsIs
<1>7. j + 1 \in 1 .. Len(ds) + 1 /\ (j + 1) - 1 = j
  BY <1>3
<1>8. Sums(m, ds)[(j + 1) - 1] = n + m[d].fsdnlines
  BY <1>2, <1>3, <1>6, <1>7
<1>9. Pointed(m, ds, Forw(ds, d), n + m[d].fsdnlines)
  BY <1>5, <1>7, <1>8 DEF Pointed
<1>10. Forw(ds, d) \in Fsd \cup {Eof}
  BY <1>1, <1>5, <1>7, NthIn
<1>11. d \in Elems(ds)
  BY <1>3 DEF Elems
<1>12. QED BY <1>1, <1>9, <1>10, <1>11

(* A stream's fsd, and the lines before it. *)
LEMMA PointedAt ==
  ASSUME NEW m \in [Fsd -> Fsds], NEW ds, Chained(m, ds), NEW x \in LaStreams, InChain(m, ds, x)
  PROVE  Pointed(m, ds, x.la_cfsd, x.la_lpos - x.la_fsline)
<1>1. ds \in Seq(Fsd)
  BY DEF Chained
<1>2. PICK i \in 1 .. Len(ds) + 1 : IsAt(m, ds, x, i)
  BY DEF InChain
<1>3. i - 1 \in 0 .. Len(ds)
  BY <1>1
<1>4. Sums(m, ds)[i - 1] \in Nat
  BY <1>1, <1>3, SumsIs
<1>5. x.la_fsline \in Nat /\ x.la_lpos = Sums(m, ds)[i - 1] + x.la_fsline /\ x.la_cfsd = Nth(ds, i)
  BY <1>2 DEF IsAt, LaStreams
<1>6. Sums(m, ds)[i - 1] = x.la_lpos - x.la_fsline
  BY <1>4, <1>5
<1>7. QED BY <1>5, <1>6 DEF Pointed

(* A stream within an fsd. *)
LEMMA InsideIs ==
  ASSUME NEW m \in [Fsd -> Fsds], NEW ds, Chained(m, ds), NEW x \in LaStreams, InChain(m, ds, x), ~ Broken(x)
  PROVE  /\ x.la_cfsd \in Elems(ds) /\ x.la_cfsd \in Fsd /\ x.la_fsline \in Nat /\ x.la_fsline > 0
         /\ x.la_fsline < m[x.la_cfsd].fsdnlines
         /\ \E i \in 1 .. Len(ds) : /\ Sums(m, ds)[i - 1] < x.la_lpos /\ x.la_lpos < Sums(m, ds)[i]
                                    /\ Sums(m, ds)[i - 1] + x.la_fsline = x.la_lpos
<1>1. ds \in Seq(Fsd) /\ \A z \in Elems(ds) : z \in Fsd
  BY DEF Chained
<1>2. PICK i \in 1 .. Len(ds) + 1 : IsAt(m, ds, x, i)
  BY DEF InChain
<1>3. x.la_cfsd = Nth(ds, i) /\ x.la_fsline < Width(m, Nth(ds, i)) /\ x.la_lpos = Sums(m, ds)[i - 1] + x.la_fsline
  BY <1>2 DEF IsAt
<1>4. x.la_cfsd # Eof /\ x.la_fsline # 0 /\ x.la_fsline \in Nat
  BY DEF Broken, LaStreams
<1>5. i \in 1 .. Len(ds) /\ x.la_cfsd = ds[i]
  BY <1>1, <1>3, <1>4 DEF Nth
<1>6. x.la_cfsd \in Elems(ds) /\ x.la_cfsd \in Fsd
  BY <1>1, <1>5 DEF Elems
<1>7. x.la_fsline < m[ds[i]].fsdnlines /\ x.la_fsline < m[x.la_cfsd].fsdnlines
  BY <1>3, <1>4, <1>5 DEF Width
<1>8. m[ds[i]].fsdnlines \in Nat
  BY <1>5, <1>6 DEF Fsds
<1>9. /\ Sums(m, ds)[i] = Sums(m, ds)[i - 1] + m[ds[i]].fsdnlines
      /\ Sums(m, ds)[i - 1] \in Nat
  BY <1>1, <1>5, SumsIs
<1>10. Sums(m, ds)[i - 1] < x.la_lpos /\ x.la_lpos < Sums(m, ds)[i] /\ Sums(m, ds)[i - 1] + x.la_fsline = x.la_lpos
  BY <1>3, <1>4, <1>7, <1>8, <1>9
<1>11. QED BY <1>4, <1>5, <1>6, <1>7, <1>10

TailMoved(m, t, l, c) ==
  /\ call' \in Calls /\ call'.todo = Tail(call.todo) /\ call'.op = call.op /\ call'.p = call.p /\ call'.d = call.d
  /\ call'.n = m /\ call'.tail = t /\ call'.left = l /\ call'.cfsd = c /\ call'.new = call.new
  /\ call'.cut = call.cut /\ call'.cnt = call.cnt /\ call'.bad = call.bad /\ call'.ret = call.ret

(* A call in which the place of a copy changes is a call.                  *)
LEMMA MovedTyped ==
  ASSUME NEW r \in Calls, NEW m \in Nat, NEW t \in Seq(Fsd), NEW l \in Nat, NEW c \in Fsd \cup {Eof},
         NEW x, x = [r EXCEPT !.n = m, !.tail = t, !.left = l, !.cfsd = c]
  PROVE  x \in Calls
<1>1. PICK q : q = [r EXCEPT !.n = m, !.tail = t]
  OBVIOUS
<1>2. q \in Calls
  BY <1>1, ZenonT(45) DEF Calls
<1>3. x = [q EXCEPT !.left = l, !.cfsd = c]
  BY <1>1
<1>4. QED BY <1>2, <1>3, ZenonT(45) DEF Calls

(* What the call is when the last fsd of a copy has been made, or is not   *)
(* needed.                                                                 *)
LEMMA TailMovedIs ==
  ASSUME call \in Calls, call.todo # << >>, NEW m \in Nat, NEW t \in Seq(Fsd), NEW l \in Nat, NEW c \in Fsd \cup {Eof},
         call' = [Done EXCEPT !.n = m, !.tail = t, !.left = l, !.cfsd = c]
  PROVE  TailMoved(m, t, l, c)
<1>1. /\ Done \in Calls /\ Done.todo = Tail(call.todo) /\ Done.op = call.op /\ Done.p = call.p /\ Done.d = call.d
      /\ Done.new = call.new /\ Done.bad = call.bad /\ Done.ret = call.ret
      /\ Done.cut = call.cut /\ Done.cnt = call.cnt
  BY DoneIs
<1>2. PICK r : r = Done
  OBVIOUS
<1>3. call' = [r EXCEPT !.n = m, !.tail = t, !.left = l, !.cfsd = c] /\ r \in Calls
  BY <1>1, <1>2
<1>4. /\ call'.todo = r.todo /\ call'.op = r.op /\ call'.p = r.p /\ call'.d = r.d /\ call'.new = r.new
      /\ call'.cut = r.cut /\ call'.cnt = r.cnt /\ call'.bad = r.bad /\ call'.ret = r.ret
  BY <1>3, ZenonT(45) DEF Calls
<1>5. call'.n = m /\ call'.tail = t /\ call'.left = l /\ call'.cfsd = c
  BY <1>3 DEF Calls
<1>6. call' \in Calls
  <2>1. r \in Calls
    BY <1>3
  <2>2. ASSUME NEW x, x = [r EXCEPT !.n = m, !.tail = t, !.left = l, !.cfsd = c] PROVE x \in Calls
    BY <2>1, <2>2, MovedTyped
  <2>3. QED BY <1>3, <2>2
<1>7. QED BY <1>1, <1>2, <1>4, <1>5, <1>6 DEF TailMoved

(* Where the tail of a copy is made: what is to be copied, and what lacks. *)
TailArgs(e, m, l, c) ==
  /\ EndFacts(e) /\ m \in Nat /\ l \in Nat /\ m > 0 /\ m <= call.n /\ c \in Fsd \cup {Eof}
  /\ X.la_lpos + m = e.la_lpos /\ Size(fsd, call.new) + l = m
  /\ Pointed(fsd, Ds, c, e.la_lpos - l)
  /\ m = e.la_lpos - X.la_lpos /\ l = m - Count(call.new)
  /\ c = IF call.new = << >> THEN call.cfsd ELSE Forw(Ds, call.cfsd)
  /\ l = 0 => Broken(e)

(* Where a copy ends, and what it lacks.                                   *)
LEMMA TailArgsIs ==
  ASSUME IInv, Copying, InCtail
  PROVE  \E e, m, l, c : TailArgs(e, m, l, c)
<1>0. /\ TypeOK /\ Books /\ VarTypes /\ call \in Calls
  BY InvParts
<1>1. /\ Loose /\ AtCopy /\ call.n > 0 /\ Before1 /\ call.cfsd = X.la_cfsd
      /\ IF call.new = << >> THEN X.la_fsline = 0
         ELSE /\ Size(fsd, call.new) + X.la_fsline = fsd[X.la_cfsd].fsdnlines
              /\ call.n >= Size(fsd, call.new)
  BY DEF InCtail, AtCopy, Filled
<1>2. call.op \notin {"none", "open"}
  BY DEF Copying
<1>3. PICK e : EndFacts(e)
  BY <1>1, <1>2, EndIs
<1>4. PICK p, f, d, k, w : CopyAt(p, f, d, k, w)
  BY <1>1, CopyAtIs
<1>5. /\ X = las[p] /\ X \in LaStreams /\ Chained(fsd, Ds) /\ InChain(fsd, Ds, X) /\ PlaceFacts(fsd, Ds, X)
      /\ d = X.la_cfsd /\ d # Eof /\ d \in Fsd /\ k = X.la_fsline /\ w = fsd[d].fsdnlines /\ k \in Nat /\ w \in Nat /\ k < w
  BY <1>4 DEF CopyAt
<1>6. call.new \in Seq(Fsd) /\ call.n \in Nat
  BY <1>0, CallIs
<1>7. PICK s \in Nat : s = Size(fsd, call.new)
  BY <1>0, <1>6, SizeNat DEF VarTypes
<1>8. Count(call.new) = s
  BY <1>7, CountIs
<1>9. PICK a \in Nat : a = X.la_lpos
  BY <1>3 DEF EndFacts
<1>10. PICK b \in Nat : b = e.la_lpos
  BY <1>3 DEF EndFacts
<1>11. PICK z \in Nat : z = Size(fsd, Ds)
  BY <1>3 DEF EndFacts
<1>12. b = (IF a + call.n >= z THEN z ELSE a + call.n) /\ b > a
  BY <1>3, <1>9, <1>10, <1>11 DEF EndFacts
<1>13. Pointed(fsd, Ds, d, a - k)
  BY <1>0, <1>5, <1>9, PointedAt DEF VarTypes
<1>14. a - k + w <= z
  BY <1>5, <1>9, <1>11 DEF PlaceFacts
<1>15. PICK c : c = IF call.new = << >> THEN call.cfsd ELSE Forw(Ds, call.cfsd)
  OBVIOUS
<1>16. /\ c \in Fsd \cup {Eof} /\ s <= call.n /\ a + s <= z /\ Pointed(fsd, Ds, c, a + s)
  <2>1. CASE call.new = << >>
    <3>1. s = 0
      BY <2>1, <1>0, <1>7, SizeNone DEF VarTypes
    <3>2. k = 0 /\ c = d
      BY <2>1, <1>1, <1>5, <1>15
    <3>3. a - k = a + s
      BY <3>1, <3>2
    <3>4. a + s <= z /\ s <= call.n
      BY <3>1, <1>6, <1>12
    <3>5. QED BY <3>2, <3>3, <3>4, <1>5, <1>13
  <2>2. CASE call.new # << >>
    <3>1. s + k = w /\ call.n >= s
      BY <2>2, <1>1, <1>5, <1>7
    <3>2. c = Forw(Ds, d)
      BY <2>2, <1>1, <1>5, <1>15
    <3>3. Pointed(fsd, Ds, c, (a - k) + w) /\ c \in Fsd \cup {Eof}
      BY <3>2, <1>0, <1>5, <1>13, ForwIs DEF VarTypes
    <3>4. (a - k) + w = a + s
      BY <3>1, <1>5
    <3>5. QED BY <3>1, <3>3, <3>4, <1>6, <1>14
  <2>3. QED BY <2>1, <2>2
<1>17. PICK m : m = b - a
  OBVIOUS
<1>18. PICK l : l = m - s
  OBVIOUS
<1>19. m \in Nat /\ m > 0 /\ m <= call.n /\ l \in Nat /\ a + m = b /\ s + l = m /\ b - l = a + s
  <2>1. PICK q \in Nat : q = call.n
    BY <1>6
  <2>2. b = (IF a + q >= z THEN z ELSE a + q) /\ b > a /\ s <= q /\ a + s <= z
    BY <2>1, <1>12, <1>16
  <2>3. b <= a + q /\ a + s <= b
    BY <2>2
  <2>4. m \in Nat /\ m > 0 /\ m <= q /\ s <= m /\ a + m = b
    BY <2>2, <2>3, <1>17
  <2>5. l \in Nat /\ s + l = m
    BY <2>4, <1>18
  <2>6. QED BY <2>1, <2>4, <2>5
<1>20. l = 0 => Broken(e)
  <2>1. SUFFICES ASSUME l = 0 PROVE Broken(e)
    OBVIOUS
  <2>2. Pointed(fsd, Ds, c, b)
    <3>1. a + s = b
      BY <2>1, <1>19
    <3>2. QED BY <3>1, <1>16
  <2>3. PICK j \in 1 .. Len(Ds) + 1 : Sums(fsd, Ds)[j - 1] = b
    BY <2>2 DEF Pointed
  <2>4. j - 1 \in 0 .. Len(Ds)
    <3>1. Ds \in Seq(Fsd)
      BY <1>5 DEF Chained
    <3>2. QED BY <3>1
  <2>5. Bound(fsd, Ds, e.la_lpos)
    BY <2>3, <2>4, <1>10 DEF Bound
  <2>6. QED BY <2>5, <1>3 DEF EndFacts, PlaceFacts
<1>21. TailArgs(e, m, l, c)
  <2>1. Pointed(fsd, Ds, c, e.la_lpos - l)
    BY <1>10, <1>16, <1>19
  <2>2. Size(fsd, call.new) + l = m /\ X.la_lpos + m = e.la_lpos /\ m = e.la_lpos - X.la_lpos /\ l = m - Count(call.new)
    BY <1>7, <1>8, <1>9, <1>10, <1>17, <1>18, <1>19
  <2>3. QED BY <2>1, <2>2, <1>3, <1>15, <1>16, <1>19, <1>20 DEF TailArgs
<1>22. QED BY <1>21

(* What holds of the lists while an fsd is made, or none. *)
Aliased == fsd' \in [Fsd -> Fsds] /\ \A ds : Chained(fsd, ds) => Alias(fsd, fsd', ds)

(* Nothing that is said of lines changes when no fsd does.                 *)
LEMMA AliasedSame == ASSUME VarTypes, fsd' = fsd PROVE Aliased
<1>1. fsd \in [Fsd -> Fsds]
  BY DEF VarTypes
<1>2. ASSUME NEW ds, Chained(fsd, ds) PROVE Alias(fsd, fsd, ds)
  <2>1. ds \in Seq(Fsd) /\ SameLines(fsd, fsd, ds)
    BY <1>2 DEF Chained, SameLines
  <2>2. QED BY <1>1, <2>1, SameChain
<1>3. QED BY <1>1, <1>2 DEF Aliased

TailNow(e, m, l, c, t) ==
  /\ TailArgs(e, m, l, c) /\ TailMoved(m, t, l, c) /\ t \in Seq(Fsd)
  /\ IF Broken(e) THEN t = << >> ELSE t # << >> /\ Size(fsd', t) = e.la_fsline

(* What a copy lacks, once its tail is made. *)
LEMMA TailLacks ==
  ASSUME IInv, Copying, Before1, Kept, Aliased, las' = las, chain' = chain, NEW e, NEW m, NEW l, NEW c, NEW t,
         TailNow(e, m, l, c, t)
  PROVE  IF call'.left = 0 THEN call'.tail = << >> ELSE Lacking'
<1>0. TypeOK /\ Books /\ VarTypes /\ call \in Calls
  BY InvParts
<1>1. /\ EndFacts(e) /\ m \in Nat /\ l \in Nat /\ m > 0 /\ l <= m /\ X.la_lpos + m = e.la_lpos
      /\ Pointed(fsd, Ds, c, e.la_lpos - l) /\ (l = 0 => Broken(e))
  <2>1. Size(fsd, call.new) \in Nat
    <3>1. call.new \in Seq(Fsd)
      BY <1>0, CallIs
    <3>2. QED BY <3>1, <1>0, SizeNat DEF VarTypes
  <2>2. m \in Nat /\ l \in Nat /\ Size(fsd, call.new) + l = m
    BY DEF TailNow, TailArgs
  <2>3. l <= m
    BY <2>1, <2>2
  <2>4. QED BY <2>3 DEF TailNow, TailArgs
<1>2. call'.p = call.p /\ call'.n = m /\ call'.tail = t /\ call'.left = l /\ call'.cfsd = c
  BY DEF TailNow, TailMoved
<1>3. IF Broken(e) THEN t = << >> ELSE t # << >> /\ Size(fsd', t) = e.la_fsline
  BY DEF TailNow
<1>4. CASE l = 0
  BY <1>1, <1>2, <1>3, <1>4
<1>5. CASE l # 0
  <2>1. X' = X /\ Ds' = Ds
    <3>1. X' = X
      BY <1>2, CopyKept
    <3>2. QED BY <3>1 DEF Ds
  <2>2. X.la_lpos \in Nat /\ e.la_lpos \in Nat /\ Chained(fsd, Ds) /\ InChain(fsd, Ds, e) /\ e \in LaStreams /\ PlaceFacts(fsd, Ds, e)
    BY <1>1 DEF EndFacts
  <2>3. Alias(fsd, fsd', Ds)
    BY <2>2 DEF Aliased
  <2>4. Sums(fsd', Ds) = Sums(fsd, Ds)
    BY <2>3 DEF Alias
  <2>5. X'.la_lpos + call'.n = e.la_lpos /\ call'.left = l /\ l <= e.la_lpos
    BY <2>1, <2>2, <1>1, <1>2
  <2>6. Pointed(fsd', Ds, c, e.la_lpos - l)
    BY <2>4, <1>1 DEF Pointed
  <2>7. IF t = << >> THEN Edge(call.p, e.la_lpos)' ELSE Inside(fsd', Ds, e.la_lpos, t)
    <3>1. CASE Broken(e)
      <4>1. Bound(fsd, Ds, e.la_lpos)
        BY <3>1, <2>2 DEF PlaceFacts
      <4>2. Bound(fsd', Ds, e.la_lpos)
        BY <4>1, <2>3 DEF Alias
      <4>3. Ds = chain'[las'[call'.p].la_file]
        BY <1>2 DEF Ds, X
      <4>4. Edge(call.p, e.la_lpos)' <=> Bound(fsd', chain'[las'[call'.p].la_file], e'.la_lpos)
        BY DEF Edge
      <4>5. Bound(fsd', chain'[las'[call'.p].la_file], e.la_lpos)
        BY <4>2, <4>3
      <4>6. QED BY <3>1, <4>5, <1>3 DEF Edge
    <3>2. CASE ~ Broken(e)
      <4>1. PICK i \in 1 .. Len(Ds) : /\ Sums(fsd, Ds)[i - 1] < e.la_lpos /\ e.la_lpos < Sums(fsd, Ds)[i]
                                      /\ Sums(fsd, Ds)[i - 1] + e.la_fsline = e.la_lpos
        BY <3>2, <2>2, <1>0, InsideIs DEF VarTypes
      <4>2. Inside(fsd', Ds, e.la_lpos, t)
        BY <4>1, <2>4, <1>3, <3>2 DEF Inside
      <4>3. QED BY <4>2, <1>3, <3>2
    <3>3. QED BY <3>1, <3>2
  <2>8. PICK b \in Nat : b = e.la_lpos
    BY <2>2
  <2>9. call'.left <= b /\ Pointed(fsd', Ds, call'.cfsd, b - call'.left)
    BY <2>5, <2>6, <2>8, <1>2
  <2>10. IF call'.tail = << >> THEN Edge(call.p, b)' ELSE Inside(fsd', Ds, b, call'.tail)
    BY <2>7, <2>8, <1>2
  <2>11. X'.la_lpos + call'.n = b
    BY <2>5, <2>8
  <2>12. Lacking'
    <3>1. call'.left <= X'.la_lpos + call'.n /\ Pointed(fsd', Ds', call'.cfsd, X'.la_lpos + call'.n - call'.left)
      <4>1. X'.la_lpos + call'.n - call'.left = b - call'.left
        <5>1. X'.la_lpos \in Nat /\ call'.n \in Nat /\ call'.left \in Nat
          BY <2>1, <2>2, <1>1, <1>2
        <5>2. QED BY <5>1, <2>11
      <4>2. call'.left <= X'.la_lpos + call'.n
        BY <2>9, <2>11
      <4>3. Pointed(fsd', Ds', call'.cfsd, b - call'.left)
        BY <2>1, <2>9
      <4>4. QED BY <4>1, <4>2, <4>3
    <3>2. CASE call'.tail = << >>
      <4>1. Edge(call.p, b)'
        BY <3>2, <2>10
      <4>2. Edge(call.p, X.la_lpos + call.n)'
        BY <4>1, <2>11 DEF Edge
      <4>3. QED BY <3>1, <3>2, <4>2 DEF Lacking
    <3>3. CASE call'.tail # << >>
      <4>1. Inside(fsd', Ds', X'.la_lpos + call'.n, call'.tail)
        BY <3>3, <2>1, <2>10, <2>11
      <4>2. QED BY <3>1, <3>3, <4>1 DEF Lacking
    <3>4. QED BY <3>2, <3>3
  <2>13. QED BY <2>12, <1>2, <1>5
<1>6. QED BY <1>4, <1>5

(* When the tail of a copy is there, what it lacks is what lies between    *)
(* head and tail.                                                          *)
LEMMA TailWalks ==
  ASSUME IInv, Do("ctail"), Kept, Aliased, las' = las, chain' = chain, NEW e, NEW m, NEW l, NEW c, NEW t,
         TailNow(e, m, l, c, t)
  PROVE  Going
<1>0. /\ TypeOK /\ Books /\ Script /\ Who /\ Stage /\ VarTypes /\ call \in Calls
  BY InvParts
<1>1. Phase = "ctail" /\ call.todo # << >> /\ Head(call.todo) = "ctail" /\ \E y : Leads("ctail", y)
  BY StepLeads
<1>2. Copying
  BY <1>1 DEF Leads, Copying
<1>3. InCtail
  BY <1>0, <1>1 DEF Stage
<1>4. Loose /\ Filled /\ Before1 /\ Edged(call.d) /\ (call.op = "blank" => call.n <= LA_FSDLMAX)
  BY <1>3 DEF InCtail, AtCopy, Filled
<1>5. TailMoved(m, t, l, c) /\ m \in Nat /\ l \in Nat /\ m > 0 /\ m <= call.n /\ Size(fsd, call.new) + l = m
  BY DEF TailNow, TailArgs
<1>6. Onwards
  BY <1>1, <1>5 DEF TailMoved, Onwards
<1>7. Script' /\ Phase' = "walk" /\ (ToDelete' => ToDelete)
  <2>1. Script' /\ Phase = Head(call.todo) /\ Leads(Phase, Phase') /\ (ToDelete' => ToDelete)
    BY <1>0, <1>6, Onward
  <2>2. QED BY <2>1, <1>1 DEF Leads
<1>8. Filled' /\ Edged(call.d)'
  <2>1. call.n \in Nat
    BY <1>0, CallIs
  <2>2. call.op = "blank" => m <= LA_FSDLMAX
    BY <2>1, <1>4, <1>5, LimitAssumption
  <2>3. call'.n = m /\ call'.op = call.op /\ call'.bad = call.bad /\ call'.d = call.d /\ call'.cnt = call.cnt
    BY <1>5 DEF TailMoved
  <2>4. call'.n > 0 /\ (call.op = "blank" => call'.n <= LA_FSDLMAX)
    BY <2>2, <2>3, <1>5
  <2>5. QED BY <2>3, <2>4, <1>2, <1>4, FilledKept
<1>9. IF call'.left = 0 THEN call'.tail = << >> ELSE Lacking'
  BY <1>2, <1>4, TailLacks
<1>10. Size(fsd', call'.new) + call'.left = call'.n /\ call'.cut = << >>
  <2>1. Chained(fsd, call.new)
    BY <1>0, ChainsAre
  <2>2. Size(fsd', call.new) = Size(fsd, call.new)
    BY <2>1 DEF Aliased, Alias
  <2>3. call'.new = call.new /\ call'.left = l /\ call'.n = m /\ call'.cut = call.cut
    BY <1>5 DEF TailMoved
  <2>4. QED BY <2>2, <2>3, <1>4, <1>5 DEF Loose
<1>11. InWalk'
  BY <1>8, <1>9, <1>10 DEF InWalk
<1>12. Stage'
  BY <1>7, <1>11 DEF Stage
<1>13. Who'
  <2>1. WhoKept
    BY <1>5, <1>7 DEF WhoKept, TailMoved
  <2>2. QED BY <2>1, <1>0, WhoFrame
<1>14. QED BY <1>5, <1>7, <1>12, <1>13 DEF Going, TailMoved

(* Making the last fsd of a copy keeps the invariant.                      *)
LEMMA CopyTailNext ==
  ASSUME IInv, CopyTail
  PROVE  IInv'
<1>0. /\ TypeOK /\ Books /\ InStore /\ Collected /\ Script /\ Who /\ Stage /\ NeverAbort /\ VarTypes /\ call \in Calls
      /\ chg \in Seq(Line) /\ CollType
  BY InvParts DEF CollType
<1>1. Do("ctail") /\ chain' = chain /\ las' = las /\ chg' = chg /\ coll' = coll
  BY DEF CopyTail
<1>2. Phase = "ctail" /\ call.todo # << >> /\ Head(call.todo) = "ctail" /\ \E y : Leads("ctail", y)
  BY <1>1, StepLeads
<1>3. Copying
  BY <1>2 DEF Leads, Copying
<1>4. InCtail
  BY <1>0, <1>2 DEF Stage
<1>5. call.tail = << >> /\ call.cut = << >> /\ Before1
  BY <1>4 DEF InCtail, AtCopy, Loose
<1>6. PICK e, m, l, c : TailArgs(e, m, l, c)
  BY <1>3, <1>4, TailArgsIs
<1>7. /\ EndFacts(e) /\ e = End /\ m \in Nat /\ l \in Nat /\ c \in Fsd \cup {Eof} /\ m = e.la_lpos - X.la_lpos
      /\ l = m - Count(call.new) /\ c = IF call.new = << >> THEN call.cfsd ELSE Forw(Ds, call.cfsd)
  BY <1>6 DEF TailArgs, EndFacts
<1>8. PICK t : t = IF Broken(e) THEN << >> ELSE << Fresh >>
  OBVIOUS
<1>9. call' = [Done EXCEPT !.n = m, !.tail = t, !.left = l, !.cfsd = c]
  <2>1. Done.cfsd = call.cfsd
    BY <1>0, <1>2, DoneIs
  <2>2. PICK r : r = Done
    OBVIOUS
  <2>3. PICK q : q = e.la_lpos - las[call.p].la_lpos
    OBVIOUS
  <2>4. call' = [r EXCEPT !.n = q, !.tail = IF Broken(e) THEN << >> ELSE << Fresh >>,
                    !.left = q - Count(call.new),
                    !.cfsd = IF call.new = << >> THEN r.cfsd
                             ELSE Forw(chain[las[call.p].la_file], r.cfsd)]
    BY <2>2, <2>3, <1>7 DEF CopyTail
  <2>5. m = q
    BY <2>3, <1>7 DEF X
  <2>6. Ds = chain[las[call.p].la_file]
    BY DEF Ds, X
  <2>7. QED BY <2>1, <2>2, <2>4, <2>5, <2>6, <1>7, <1>8
<1>10. CASE Broken(e)
  <2>1. t = << >> /\ t \in Seq(Fsd)
    BY <1>8, <1>10
  <2>2. TailMoved(m, t, l, c)
    BY <2>1, <1>0, <1>2, <1>7, <1>9, TailMovedIs
  <2>3. fsd' = fsd /\ laf' = laf
    BY <1>7, <1>10 DEF CopyTail
  <2>4. Idly /\ SameLists
    BY <2>1, <2>2, <2>3, <1>1, <1>5 DEF Idly, SameLists, TailMoved
  <2>5. Kept /\ Aliased
    BY <2>3, <2>4, <1>0, SameBooks, AliasedSame
  <2>6. TailNow(e, m, l, c, t)
    BY <2>1, <2>2, <1>6, <1>10 DEF TailNow
  <2>7. Going
    BY <2>5, <2>6, <1>1, TailWalks
  <2>8. InStore'
    BY <2>3, <1>0, <1>1, <1>2, StoreKept DEF Filling
  <2>9. QED BY <2>4, <2>7, <2>8, <1>1, AsideNext DEF Aside
<1>11. CASE ~ Broken(e)
  <2>1. /\ e.la_cfsd \in Elems(Ds) /\ e.la_cfsd \in Fsd /\ e.la_fsline \in Nat /\ e.la_fsline > 0
        /\ e.la_fsline < fsd[e.la_cfsd].fsdnlines /\ Chained(fsd, Ds)
    <3>1. Chained(fsd, Ds) /\ e \in LaStreams /\ InChain(fsd, Ds, e)
      BY <1>7 DEF EndFacts
    <3>2. QED BY <3>1, <1>11, <1>0, InsideIs DEF VarTypes
  <2>2. PICK d, n : d = e.la_cfsd /\ n = e.la_fsline
    OBVIOUS
  <2>3. MakePiece(d, 0, n)
    BY <2>2, <1>7, <1>11 DEF CopyTail
  <2>4. Fresh \in Fsd
    BY <2>3, FreshIs DEF MakePiece
  <2>5. PICK z \in Fsd : z = Fresh
    BY <2>4
  <2>6. t = << z >> /\ t \in Seq(Fsd)
    BY <2>5, <1>8, <1>11
  <2>7. TailMoved(m, t, l, c)
    BY <2>6, <1>0, <1>2, <1>7, <1>9, TailMovedIs
  <2>8. TailMade
    BY <2>5, <2>6, <2>7, <1>5 DEF TailMade, TailMoved
  <2>9. PieceArgs(d, 0, n)
    <3>1. fsd[d].fsdfile # NoFile /\ d \in Fsd
      BY <2>1, <2>2 DEF Chained
    <3>2. fsd[d].fsdnlines \in Nat
      BY <3>1, <1>0 DEF VarTypes, Fsds
    <3>3. n \in Nat /\ n > 0 /\ 0 + n <= fsd[d].fsdnlines /\ 0 \in Nat
      BY <2>1, <2>2, <3>2
    <3>4. QED BY <2>3, <2>8, <3>1, <3>3, <1>1, <1>2 DEF PieceArgs, Filling
  <2>10. Books' /\ VarTypes' /\ Kept /\ InStore' /\ \E y : PieceFacts(y, n)
    BY <2>9, PieceIs
  <2>11. PieceFacts(z, n)
    BY <2>5, <2>10 DEF PieceFacts
  <2>12. Aliased
    BY <2>11 DEF PieceFacts, Aliased
  <2>13. Size(fsd', t) = n /\ t # << >>
    <3>1. \A mm \in [Fsd -> Fsds] : Size(mm, << z >>) = mm[z].fsdnlines
      BY SizeOne
    <3>2. fsd' \in [Fsd -> Fsds] /\ fsd'[z].fsdnlines = n
      BY <2>11 DEF PieceFacts
    <3>3. QED BY <3>1, <3>2, <2>6
  <2>14. TailNow(e, m, l, c, t)
    BY <2>2, <2>6, <2>7, <2>13, <1>6, <1>11 DEF TailNow
  <2>15. Going
    BY <2>10, <2>12, <2>14, <1>1, TailWalks
  <2>16. Collected' /\ CollType' /\ chg' \in Seq(Line)
    BY <1>0, <1>1, CollSame
  <2>17. QED BY <2>10, <2>15, <2>16, <1>0, StepNext
<1>12. QED BY <1>10, <1>11

-----------------------------------------------------------------------------
(* The walk of a copy.                                                     *)

(* Where lines end within an fsd, none ends between two. *)
LEMMA NotInside ==
  ASSUME NEW m \in [Fsd -> Fsds], NEW ds, Chained(m, ds), NEW n, Bound(m, ds, n), NEW t
  PROVE  ~ Inside(m, ds, n, t)
<1>1. ds \in Seq(Fsd) /\ LinedOn(m, ds)
  BY DEF Chained
<1>2. SUFFICES ASSUME Inside(m, ds, n, t) PROVE FALSE
  OBVIOUS
<1>3. PICK e \in 1 .. Len(ds) : Sums(m, ds)[e - 1] < n /\ n < Sums(m, ds)[e]
  BY <1>2 DEF Inside
<1>4. PICK i \in 0 .. Len(ds) : Sums(m, ds)[i] = n
  BY DEF Bound
<1>5. Rising(m, ds)
  BY <1>1, RisingIs
<1>6. Len(ds) \in Nat /\ e \in 0 .. Len(ds) /\ e - 1 \in 0 .. Len(ds)
  BY <1>1
<1>7. Sums(m, ds)[i] \in Nat /\ Sums(m, ds)[e] \in Nat /\ Sums(m, ds)[e - 1] \in Nat
  BY <1>1, <1>6, SumsIs
<1>8. i <= e - 1 \/ e <= i
  BY <1>6
<1>9. CASE i <= e - 1
  <2>1. Sums(m, ds)[i] <= Sums(m, ds)[e - 1]
    BY <1>5, <1>6, <1>9 DEF Rising
  <2>2. QED BY <2>1, <1>3, <1>4, <1>7
<1>10. CASE e <= i
  <2>1. Sums(m, ds)[e] <= Sums(m, ds)[i]
    BY <1>5, <1>6, <1>10 DEF Rising
  <2>2. QED BY <2>1, <1>3, <1>4, <1>7
<1>11. QED BY <1>8, <1>9, <1>10

LastArgs(m, ds, t, d, n, l) ==
  /\ Chained(m, ds) /\ l \in Nat /\ l > 0 /\ n \in Nat /\ l <= n /\ Pointed(m, ds, d, n - l)
  /\ IF t = << >> THEN Bound(m, ds, n) ELSE Inside(m, ds, n, t)
  /\ Size(m, t) \in Nat
  /\ d = Eof \/ l < m[d].fsdnlines
(* What is left of a copy is less than the next fsd: it is the last one's. *)
LEMMA LastIs ==
  ASSUME NEW m \in [Fsd -> Fsds], NEW ds, NEW t, NEW d, NEW n, NEW l, LastArgs(m, ds, t, d, n, l)
  PROVE  d # Eof /\ Size(m, t) = l
<1>1. /\ ds \in Seq(Fsd) /\ LinedOn(m, ds) /\ Chained(m, ds) /\ \A z \in Elems(ds) : z \in Fsd
      /\ l \in Nat /\ l > 0 /\ n \in Nat /\ l <= n /\ Pointed(m, ds, d, n - l)
      /\ (IF t = << >> THEN Bound(m, ds, n) ELSE Inside(m, ds, n, t))
      /\ Size(m, t) \in Nat /\ (d = Eof \/ l < m[d].fsdnlines)
  BY DEF LastArgs, Chained
<1>2. PICK j \in 1 .. Len(ds) + 1 : d = Nth(ds, j) /\ Sums(m, ds)[j - 1] = n - l
  BY <1>1 DEF Pointed
<1>3. Rising(m, ds)
  BY <1>1, RisingIs
<1>4. PICK z \in Nat : z = Len(ds)
  BY <1>1
<1>5. z \in 0 .. Len(ds) /\ \A q \in 0 .. z : Sums(m, ds)[q] \in Nat
  BY <1>1, <1>4, SumsIs
<1>6. n <= Sums(m, ds)[z]
  <2>1. CASE Bound(m, ds, n)
    <3>1. PICK i \in 0 .. Len(ds) : Sums(m, ds)[i] = n
      BY <2>1 DEF Bound
    <3>2. i <= z
      BY <3>1, <1>4
    <3>3. QED BY <3>1, <3>2, <1>3, <1>5 DEF Rising
  <2>2. CASE Inside(m, ds, n, t)
    <3>1. PICK e \in 1 .. Len(ds) : Sums(m, ds)[e - 1] < n /\ n < Sums(m, ds)[e]
      BY <2>2 DEF Inside
    <3>2. e <= z /\ e \in 0 .. z /\ e \in 0 .. Len(ds)
      BY <3>1, <1>4
    <3>3. Sums(m, ds)[e] <= Sums(m, ds)[z]
      BY <3>2, <1>3, <1>5 DEF Rising
    <3>4. QED BY <3>1, <3>2, <3>3, <1>1, <1>5
  <2>3. QED BY <2>1, <2>2, <1>1
<1>7. j - 1 \in 0 .. z /\ j \in Nat
  BY <1>4
<1>8. j <= z
  <2>1. SUFFICES ASSUME ~ (j <= z) PROVE FALSE
    OBVIOUS
  <2>2. j - 1 = z
    BY <2>1, <1>4, <1>7
  <2>3. QED BY <2>2, <1>1, <1>2, <1>5, <1>6
<1>9. d = ds[j] /\ j \in 1 .. Len(ds)
  BY <1>2, <1>4, <1>7, <1>8 DEF Nth
<1>10. d \in Fsd /\ d # Eof
  <2>1. d \in Elems(ds)
    BY <1>9 DEF Elems
  <2>2. QED BY <2>1, <1>1, EofIs
<1>11. PICK w \in Nat : w = m[d].fsdnlines
  BY <1>10 DEF Fsds
<1>12. Sums(m, ds)[j] = Sums(m, ds)[j - 1] + w
  BY <1>1, <1>9, <1>11, SumsIs
<1>13. l < w
  BY <1>1, <1>10, <1>11
<1>14. PICK a \in Nat : a = Sums(m, ds)[j - 1]
  BY <1>5, <1>7
<1>15. a + l = n /\ n < a + w /\ Sums(m, ds)[j] = a + w
  BY <1>1, <1>2, <1>12, <1>13, <1>14
<1>16. ~ Bound(m, ds, n)
  <2>1. Sums(m, ds)[j - 1] < n /\ n < Sums(m, ds)[j]
    BY <1>1, <1>14, <1>15, SMTT(45)
  <2>2. SUFFICES ASSUME Bound(m, ds, n) PROVE FALSE
    OBVIOUS
  <2>3. PICK u : u = n - Sums(m, ds)[j - 1]
    OBVIOUS
  <2>4. PICK i \in 0 .. Len(ds) : Sums(m, ds)[i] = n
    BY <2>2 DEF Bound
  <2>5. i <= j - 1 \/ j <= i
    BY <1>7
  <2>6. CASE i <= j - 1
    <3>1. Sums(m, ds)[i] <= Sums(m, ds)[j - 1]
      BY <2>6, <1>3, <1>4, <1>7 DEF Rising
    <3>2. QED BY <3>1, <2>1, <2>4, <1>1, <1>5, <1>7
  <2>7. CASE j <= i
    <3>1. j \in 0 .. Len(ds)
      BY <1>9, <1>7
    <3>2. Sums(m, ds)[j] <= Sums(m, ds)[i]
      BY <2>7, <3>1, <1>3 DEF Rising
    <3>3. QED BY <3>2, <2>1, <2>4, <1>1, <1>15
  <2>8. QED BY <2>5, <2>6, <2>7
<1>17. PICK e \in 1 .. Len(ds) : Sums(m, ds)[e - 1] < n /\ n < Sums(m, ds)[e] /\ Sums(m, ds)[e - 1] + Size(m, t) = n
  BY <1>1, <1>16 DEF Inside
<1>18. e = j
  <2>1. e \in 0 .. Len(ds) /\ e - 1 \in 0 .. Len(ds) /\ j \in 0 .. Len(ds) /\ j - 1 \in 0 .. Len(ds) /\ e \in Nat
    BY <1>4, <1>7, <1>9, <1>17
  <2>2. ~ (e < j)
    <3>1. SUFFICES ASSUME e < j PROVE FALSE
      OBVIOUS
    <3>2. e <= j - 1
      BY <3>1, <2>1, <1>7
    <3>3. Sums(m, ds)[e] <= Sums(m, ds)[j - 1]
      BY <3>2, <2>1, <1>3 DEF Rising
    <3>4. Sums(m, ds)[e] \in Nat
      BY <2>1, <1>4, <1>5
    <3>5. QED BY <3>3, <3>4, <1>1, <1>14, <1>15, <1>17, SMTT(45)
  <2>3. ~ (j < e)
    <3>1. SUFFICES ASSUME j < e PROVE FALSE
      OBVIOUS
    <3>2. j <= e - 1
      BY <3>1, <2>1, <1>7
    <3>3. Sums(m, ds)[j] <= Sums(m, ds)[e - 1]
      BY <3>2, <2>1, <1>3 DEF Rising
    <3>4. Sums(m, ds)[e - 1] \in Nat
      BY <2>1, <1>4, <1>5
    <3>5. QED BY <3>3, <3>4, <1>1, <1>15, <1>17, SMTT(45)
  <2>4. QED BY <2>1, <2>2, <2>3, <1>7
<1>19. Size(m, t) = l
  BY <1>1, <1>14, <1>15, <1>17, <1>18, SMTT(45)
<1>20. QED BY <1>10, <1>19

(* Where a copy goes on from. *)
WalkAt(a, n, l) ==
  /\ a = X.la_lpos /\ n = call.n /\ l = call.left /\ a \in Nat /\ n \in Nat /\ l \in Nat /\ l > 0 /\ l <= a + n
  /\ Chained(fsd, Ds) /\ Pointed(fsd, Ds, call.cfsd, (a + n) - l)
  /\ IF call.tail = << >> THEN Bound(fsd, Ds, a + n) ELSE Inside(fsd, Ds, a + n, call.tail)
  /\ Size(fsd, call.new) + l = n /\ Size(fsd, call.tail) \in Nat /\ Size(fsd, call.new) \in Nat
  /\ call.cut = << >> /\ Filled /\ Edged(call.d) /\ n > 0 /\ (call.op = "blank" => n <= LA_FSDLMAX)
  /\ Chained(fsd, call.new) /\ Chained(fsd, call.tail)

(* Where a walk is: an fsd of the source, with lines still to be copied.   *)
LEMMA WalkAtIs ==
  ASSUME IInv, Do("walk"), call.left > 0
  PROVE  /\ Copying /\ Phase = "walk" /\ call.todo # << >>
         /\ \E a, n, l : WalkAt(a, n, l)
<1>0. /\ TypeOK /\ Books /\ Stage /\ VarTypes /\ call \in Calls
  BY InvParts
<1>1. Phase = "walk" /\ call.todo # << >> /\ \E y : Leads("walk", y)
  BY StepLeads
<1>2. Copying /\ call.op \notin {"none", "open"}
  BY <1>1 DEF Leads, Copying
<1>3. InWalk
  BY <1>0, <1>1 DEF Stage
<1>4. call.left \in Nat /\ call.n \in Nat /\ call.new \in Seq(Fsd) /\ call.tail \in Seq(Fsd)
  BY <1>0, CallIs
<1>5. call.left # 0
  BY <1>4
<1>6. /\ call.cut = << >> /\ Filled /\ Edged(call.d) /\ Size(fsd, call.new) + call.left = call.n /\ Lacking
      /\ call.n > 0 /\ (call.op = "blank" => call.n <= LA_FSDLMAX)
  BY <1>3, <1>5 DEF InWalk, Filled
<1>7. PICK p : p = call.p
  OBVIOUS
<1>8. p \in Streams /\ Open(p)
  BY <1>2, <1>7, Actors
<1>9. Chained(fsd, chain[las[p].la_file]) /\ PlaceFacts(fsd, chain[las[p].la_file], las[p])
  BY <1>0, <1>8, StreamHas
<1>10. X = las[p] /\ Ds = chain[las[p].la_file]
  BY <1>7 DEF X, Ds
<1>11. Chained(fsd, Ds) /\ X.la_lpos \in Nat
  BY <1>9, <1>10 DEF PlaceFacts
<1>12. PICK a \in Nat : a = X.la_lpos
  BY <1>11
<1>13. PICK n \in Nat : n = call.n
  BY <1>4
<1>14. PICK l \in Nat : l = call.left
  BY <1>4
<1>15. Pointed(fsd, Ds, call.cfsd, (a + n) - l) /\ l <= a + n
  <2>1. call.left <= X.la_lpos + call.n /\ Pointed(fsd, Ds, call.cfsd, X.la_lpos + call.n - call.left)
    BY <1>6 DEF Lacking
  <2>2. X.la_lpos + call.n - call.left = (a + n) - l
    BY <1>12, <1>13, <1>14
  <2>3. QED BY <2>1, <2>2, <1>12, <1>13, <1>14
<1>16. IF call.tail = << >> THEN Bound(fsd, Ds, a + n) ELSE Inside(fsd, Ds, a + n, call.tail)
  <2>1. IF call.tail = << >> THEN Edge(call.p, X.la_lpos + call.n) ELSE Inside(fsd, Ds, X.la_lpos + call.n, call.tail)
    BY <1>6 DEF Lacking
  <2>2. Edge(call.p, X.la_lpos + call.n) => Bound(fsd, Ds, a + n)
    BY <1>12, <1>13 DEF Edge, Ds, X
  <2>3. QED BY <2>1, <2>2, <1>12, <1>13
<1>17. Size(fsd, call.tail) \in Nat /\ Size(fsd, call.new) \in Nat
  BY <1>0, <1>4, SizeNat DEF VarTypes
<1>18. Chained(fsd, call.new) /\ Chained(fsd, call.tail)
  BY <1>0, ChainsAre
<1>19. l > 0 /\ n > 0
  BY <1>6, <1>13, <1>14
<1>20. WalkAt(a, n, l)
  BY <1>6, <1>11, <1>12, <1>13, <1>14, <1>15, <1>16, <1>17, <1>18, <1>19 DEF WalkAt
<1>21. QED BY <1>1, <1>2, <1>20

Walked(new, t, l, c) ==
  /\ call' \in Calls /\ call'.todo = call.todo /\ call'.op = call.op /\ call'.p = call.p /\ call'.d = call.d
  /\ call'.n = call.n /\ call'.tail = t /\ call'.left = l /\ call'.cfsd = c /\ call'.new = new
  /\ call'.cut = call.cut /\ call'.cnt = call.cnt /\ call'.bad = call.bad /\ call'.ret = call.ret

(* What the call is after a step of the walk.                              *)
LEMMA WalkedIs ==
  ASSUME call \in Calls, NEW new \in Seq(Fsd), NEW l \in Nat, NEW c \in Fsd \cup {Eof}
  PROVE  /\ call' = [call EXCEPT !.new = new, !.left = l, !.cfsd = c] => Walked(new, call.tail, l, c)
         /\ call' = [call EXCEPT !.new = new, !.tail = << >>, !.left = l] => Walked(new, << >>, l, call.cfsd)
<1>1. PICK r : r = call
  OBVIOUS
<1>2. r \in Calls /\ << >> \in Seq(Fsd)
  BY <1>1
<1>3. ASSUME call' = [r EXCEPT !.new = new, !.left = l, !.cfsd = c] PROVE Walked(new, call.tail, l, c)
  <2>1. /\ call' \in Calls /\ call'.todo = r.todo /\ call'.op = r.op /\ call'.p = r.p /\ call'.d = r.d
        /\ call'.n = r.n /\ call'.tail = r.tail /\ call'.left = l /\ call'.cfsd = c /\ call'.new = new
        /\ call'.cut = r.cut /\ call'.cnt = r.cnt /\ call'.bad = r.bad /\ call'.ret = r.ret
    BY <1>2, <1>3, ZenonT(45) DEF Calls
  <2>2. QED BY <2>1, <1>1 DEF Walked
<1>4. ASSUME call' = [r EXCEPT !.new = new, !.tail = << >>, !.left = l] PROVE Walked(new, << >>, l, call.cfsd)
  <2>1. PICK t \in Seq(Fsd) : t = << >>
    BY <1>2
  <2>2. call' = [r EXCEPT !.new = new, !.tail = t, !.left = l]
    BY <2>1, <1>4
  <2>3. /\ call' \in Calls /\ call'.todo = r.todo /\ call'.op = r.op /\ call'.p = r.p /\ call'.d = r.d
        /\ call'.n = r.n /\ call'.tail = t /\ call'.left = l /\ call'.cfsd = r.cfsd /\ call'.new = new
        /\ call'.cut = r.cut /\ call'.cnt = r.cnt /\ call'.bad = r.bad /\ call'.ret = r.ret
    BY <2>2, <1>2, ZenonT(45) DEF Calls
  <2>4. QED BY <2>1, <2>3, <1>1 DEF Walked
<1>5. QED BY <1>1, <1>3, <1>4

(* The walk goes on, or is at its end. *)
LEMMA WalkOn ==
  ASSUME IInv, Do("walk"), Kept, las' = las, chain' = chain, NEW a, NEW n, NEW l, WalkAt(a, n, l),
         NEW new, NEW t, NEW k, NEW c, Walked(new, t, k, c), k \in Nat, k <= l, Size(fsd', new) + k = n,
         IF k = 0 THEN t = << >>
         ELSE /\ Pointed(fsd', Ds, c, (a + n) - k)
              /\ IF t = << >> THEN Bound(fsd', Ds, a + n) ELSE Inside(fsd', Ds, a + n, t)
  PROVE  Going
<1>0. /\ TypeOK /\ Books /\ Script /\ Who /\ Stage /\ VarTypes /\ call \in Calls
  BY InvParts
<1>1. Phase = "walk" /\ \E y : Leads("walk", y)
  BY StepLeads
<1>2. Copying /\ call.op \notin {"none", "open"}
  BY <1>1 DEF Leads, Copying
<1>3. /\ a = X.la_lpos /\ n = call.n /\ l = call.left /\ a \in Nat /\ n \in Nat /\ l \in Nat /\ l <= a + n
      /\ call.cut = << >> /\ Filled /\ Edged(call.d) /\ n > 0 /\ (call.op = "blank" => n <= LA_FSDLMAX)
  BY DEF WalkAt
<1>4. /\ call'.todo = call.todo /\ call'.op = call.op /\ call'.p = call.p /\ call'.d = call.d
      /\ call'.n = call.n /\ call'.tail = t /\ call'.left = k /\ call'.cfsd = c /\ call'.new = new
      /\ call'.cut = call.cut /\ call'.cnt = call.cnt /\ call'.bad = call.bad /\ call'.ret = call.ret /\ call' \in Calls
  BY DEF Walked
<1>5. Script' /\ Phase' = "walk" /\ (ToDelete' => ToDelete)
  BY <1>0, <1>1, <1>4, SameScript
<1>6. Filled' /\ Edged(call.d)'
  <2>1. call'.n > 0 /\ (call.op = "blank" => call'.n <= LA_FSDLMAX)
    BY <1>3, <1>4
  <2>2. QED BY <2>1, <1>2, <1>3, <1>4, FilledKept
<1>7. X' = X /\ Ds' = Ds
  <2>1. X' = X
    BY <1>4 DEF X
  <2>2. QED BY <2>1 DEF Ds
<1>8. k # 0 => Lacking'
  <2>1. SUFFICES ASSUME k # 0 PROVE Lacking'
    OBVIOUS
  <2>2. /\ Pointed(fsd', Ds, c, (a + n) - k)
        /\ IF t = << >> THEN Bound(fsd', Ds, a + n) ELSE Inside(fsd', Ds, a + n, t)
    BY <2>1
  <2>3. X'.la_lpos = a /\ call'.n = n
    BY <1>3, <1>4, <1>7
  <2>4. X'.la_lpos + call'.n - call'.left = (a + n) - k /\ X'.la_lpos + call'.n = a + n /\ call'.left <= a + n
    BY <2>3, <1>3, <1>4
  <2>5. Pointed(fsd', Ds', call'.cfsd, X'.la_lpos + call'.n - call'.left)
    BY <2>2, <2>4, <1>4, <1>7
  <2>6. call'.left <= X'.la_lpos + call'.n
    BY <2>4
  <2>7. IF call'.tail = << >> THEN Edge(call.p, X.la_lpos + call.n)' ELSE Inside(fsd', Ds', X'.la_lpos + call'.n, call'.tail)
    <3>1. CASE t = << >>
      <4>1. Bound(fsd', Ds, a + n)
        BY <3>1, <2>2
      <4>2. Ds = chain'[las'[call'.p].la_file]
        BY <1>4 DEF Ds, X
      <4>3. Bound(fsd', chain'[las'[call'.p].la_file], X'.la_lpos + call'.n)
        BY <4>1, <4>2, <2>4
      <4>4. Edge(call.p, X.la_lpos + call.n)'
        BY <4>3 DEF Edge
      <4>5. QED BY <4>4, <3>1, <1>4
    <3>2. CASE t # << >>
      BY <3>2, <2>2, <2>4, <1>4, <1>7
    <3>3. QED BY <3>1, <3>2
  <2>8. QED BY <2>5, <2>6, <2>7 DEF Lacking
<1>9. InWalk'
  <2>1. Size(fsd', call'.new) + call'.left = call'.n /\ call'.cut = << >>
    BY <1>3, <1>4
  <2>2. IF call'.left = 0 THEN call'.tail = << >> ELSE Lacking'
    BY <1>4, <1>8
  <2>3. QED BY <2>1, <2>2, <1>6 DEF InWalk
<1>10. Stage'
  BY <1>5, <1>9 DEF Stage
<1>11. Who'
  <2>1. WhoKept
    BY <1>4, <1>5 DEF WhoKept
  <2>2. QED BY <2>1, <1>0, WhoFrame
<1>12. QED BY <1>4, <1>5, <1>10, <1>11 DEF Going

(* Copying one fsd more keeps the invariant.                               *)
LEMMA CopyFsdNext ==
  ASSUME IInv, CopyFsd
  PROVE  IInv'
<1>0. /\ TypeOK /\ Books /\ InStore /\ Collected /\ Script /\ Who /\ Stage /\ NeverAbort /\ VarTypes /\ call \in Calls
      /\ chg \in Seq(Line) /\ CollType
  BY InvParts DEF CollType
<1>1. Do("walk") /\ call.left > 0 /\ call.cfsd # Eof /\ chain' = chain /\ las' = las /\ chg' = chg /\ coll' = coll
  BY DEF CopyFsd
<1>2. Copying /\ Phase = "walk" /\ call.todo # << >>
  BY <1>1, WalkAtIs
<1>3. PICK a, n, l : WalkAt(a, n, l)
  BY <1>1, WalkAtIs
<1>4. /\ l = call.left /\ a \in Nat /\ n \in Nat /\ l \in Nat /\ l > 0 /\ l <= a + n
      /\ Chained(fsd, Ds) /\ Pointed(fsd, Ds, call.cfsd, (a + n) - l)
      /\ (IF call.tail = << >> THEN Bound(fsd, Ds, a + n) ELSE Inside(fsd, Ds, a + n, call.tail))
      /\ Size(fsd, call.new) + l = n /\ Size(fsd, call.new) \in Nat
      /\ Chained(fsd, call.new) /\ Chained(fsd, call.tail)
  BY <1>3 DEF WalkAt
<1>5. PICK d : d = call.cfsd
  OBVIOUS
<1>6. PICK c : c = Forw(Ds, d)
  OBVIOUS
<1>7. /\ Pointed(fsd, Ds, c, ((a + n) - l) + fsd[d].fsdnlines) /\ c \in Fsd \cup {Eof} /\ d \in Elems(Ds) /\ d \in Fsd
  BY <1>0, <1>1, <1>4, <1>5, <1>6, ForwIs DEF VarTypes
<1>8. fsd[d].fsdfile # NoFile /\ fsd[d].fsdnlines \in 1 .. LA_FSDLMAX
  BY <1>0, <1>4, <1>7 DEF Chained, Books, Lined
<1>9. PICK w \in Nat : w = fsd[d].fsdnlines
  BY <1>8, LimitAssumption
<1>10. w > 0 /\ w <= l
  <2>1. w > 0
    BY <1>8, <1>9
  <2>2. call.left >= fsd[call.cfsd].fsdnlines
    BY DEF CopyFsd
  <2>3. QED BY <2>1, <2>2, <1>4, <1>5, <1>9
<1>11. MakePiece(d, 0, w)
  BY <1>5, <1>9 DEF CopyFsd
<1>12. Fresh \in Fsd
  BY <1>11, FreshIs DEF MakePiece
<1>13. PICK z \in Fsd : z = Fresh
  BY <1>12
<1>14. PICK new : new = Append(call.new, z)
  OBVIOUS
<1>15. PICK k : k = l - w
  OBVIOUS
<1>16. call.new \in Seq(Fsd) /\ new \in Seq(Fsd) /\ new = call.new \o << z >> /\ k \in Nat /\ k <= l
  <2>1. call.new \in Seq(Fsd)
    BY <1>0, CallIs
  <2>2. PICK u \in Seq(Fsd) : u = call.new
    BY <2>1
  <2>3. Append(u, z) \in Seq(Fsd) /\ Append(u, z) = u \o << z >>
    <3>1. Append(u, z) \in Seq(Fsd)
      BY <2>2, <1>13
    <3>2. Append(u, z) = u \o << z >>
      BY <2>2, <1>13
    <3>3. QED BY <3>1, <3>2
  <2>4. k \in Nat /\ k <= l
    BY <1>4, <1>10, <1>15, SMTT(45)
  <2>5. PICK b : b = Append(u, z)
    OBVIOUS
  <2>6. PICK v : v = u \o << z >>
    OBVIOUS
  <2>7. b \in Seq(Fsd) /\ b = v
    BY <2>3, <2>5, <2>6
  <2>8. new = b
    BY <2>2, <2>5, <1>14
  <2>9. call.new \o << z >> = v
    BY <2>2, <2>6
  <2>10. QED BY <2>1, <2>4, <2>7, <2>8, <2>9
<1>17. call' = [call EXCEPT !.new = new, !.left = k, !.cfsd = c]
  <2>1. PICK r : r = call
    OBVIOUS
  <2>2. call' = [r EXCEPT !.new = Append(r.new, Fresh), !.left = r.left - fsd[r.cfsd].fsdnlines, !.cfsd = Forw(chain[las[r.p].la_file], r.cfsd)]
    BY <2>1 DEF CopyFsd
  <2>3. Append(r.new, Fresh) = new /\ r.left - fsd[r.cfsd].fsdnlines = k
    BY <2>1, <1>4, <1>5, <1>9, <1>13, <1>14, <1>15
  <2>4. Forw(chain[las[r.p].la_file], r.cfsd) = c
    BY <2>1, <1>5, <1>6 DEF Ds, X
  <2>5. QED BY <2>1, <2>2, <2>3, <2>4
<1>18. Walked(new, call.tail, k, c)
  BY <1>0, <1>7, <1>16, <1>17, WalkedIs
<1>19. NewMade
  BY <1>13, <1>14, <1>18 DEF NewMade, Walked
<1>20. PieceArgs(d, 0, w)
  <2>1. 0 \in Nat /\ 0 + w <= fsd[d].fsdnlines
    BY <1>9
  <2>2. ~ Filling
    BY <1>2 DEF Filling
  <2>3. QED BY <2>1, <2>2, <1>1, <1>7, <1>8, <1>10, <1>11, <1>19 DEF PieceArgs
<1>21. Books' /\ VarTypes' /\ Kept /\ InStore' /\ \E y : PieceFacts(y, w)
  BY <1>20, PieceIs
<1>22. PieceFacts(z, w)
  BY <1>13, <1>21 DEF PieceFacts
<1>23. /\ fsd' \in [Fsd -> Fsds] /\ fsd'[z].fsdnlines = w
       /\ Alias(fsd, fsd', Ds) /\ Alias(fsd, fsd', call.new) /\ Alias(fsd, fsd', call.tail)
  BY <1>22, <1>4 DEF PieceFacts
<1>24. Size(fsd', new) + k = n
  <2>1. \A mm \in [Fsd -> Fsds] : Size(mm, call.new \o << z >>) = Size(mm, call.new) + Size(mm, << z >>)
    <3>1. SeqArgs(call.new, << z >>)
      BY <1>16 DEF SeqArgs
    <3>2. QED BY <3>1, SizeConcat
  <2>2. \A mm \in [Fsd -> Fsds] : Size(mm, << z >>) = mm[z].fsdnlines
    BY SizeOne
  <2>3. Size(fsd', new) = Size(fsd', call.new) + w
    BY <2>1, <2>2, <1>16, <1>23
  <2>4. Size(fsd', new) = Size(fsd, call.new) + w
    BY <2>3, <1>23 DEF Alias
  <2>5. QED BY <2>4, <1>4, <1>10, <1>15
<1>25. Pointed(fsd, Ds, c, (a + n) - k)
  <2>1. ((a + n) - l) + fsd[d].fsdnlines = (a + n) - k
    BY <1>4, <1>9, <1>15, SMTT(45)
  <2>2. QED BY <2>1, <1>7
<1>26. IF k = 0 THEN call.tail = << >>
       ELSE /\ Pointed(fsd', Ds, c, (a + n) - k)
            /\ IF call.tail = << >> THEN Bound(fsd', Ds, a + n) ELSE Inside(fsd', Ds, a + n, call.tail)
  <2>1. CASE k = 0
    <3>1. Pointed(fsd, Ds, c, a + n)
      <4>1. (a + n) - k = a + n
        BY <2>1, <1>4
      <4>2. QED BY <4>1, <1>25
    <3>2. Bound(fsd, Ds, a + n)
      <4>1. PICK j \in 1 .. Len(Ds) + 1 : Sums(fsd, Ds)[j - 1] = a + n
        BY <3>1 DEF Pointed
      <4>2. Ds \in Seq(Fsd)
        BY <1>4 DEF Chained
      <4>3. j - 1 \in 0 .. Len(Ds)
        BY <4>2
      <4>4. QED BY <4>1, <4>3 DEF Bound
    <3>3. ~ Inside(fsd, Ds, a + n, call.tail)
      BY <3>2, <1>0, <1>4, NotInside DEF VarTypes
    <3>4. QED BY <3>3, <2>1, <1>4
  <2>2. CASE k # 0
    <3>1. Sums(fsd', Ds) = Sums(fsd, Ds) /\ Size(fsd', call.tail) = Size(fsd, call.tail)
      BY <1>23 DEF Alias
    <3>2. Pointed(fsd', Ds, c, (a + n) - k)
      BY <3>1, <1>25 DEF Pointed
    <3>3. Bound(fsd, Ds, a + n) => Bound(fsd', Ds, a + n)
      BY <3>1 DEF Bound
    <3>4. Inside(fsd, Ds, a + n, call.tail) => Inside(fsd', Ds, a + n, call.tail)
      BY <3>1 DEF Inside
    <3>5. QED BY <2>2, <3>2, <3>3, <3>4, <1>4
  <2>3. QED BY <2>1, <2>2
<1>27. Going
  BY <1>1, <1>3, <1>16, <1>18, <1>21, <1>24, <1>26, WalkOn
<1>28. Collected' /\ CollType' /\ chg' \in Seq(Line)
  BY <1>0, <1>1, CollSame
<1>29. QED BY <1>21, <1>27, <1>28, <1>0, StepNext

(* Taking the tail, with which a copy is complete, keeps the invariant.    *)
LEMMA CopyLastNext ==
  ASSUME IInv, CopyLast
  PROVE  IInv'
<1>0. /\ TypeOK /\ Books /\ InStore /\ Collected /\ Script /\ Who /\ Stage /\ NeverAbort /\ VarTypes /\ call \in Calls
      /\ chg \in Seq(Line) /\ CollType
  BY InvParts DEF CollType
<1>1. Do("walk") /\ call.left > 0 /\ Idly /\ chg' = chg /\ coll' = coll
      /\ (call.cfsd = Eof \/ call.left < fsd[call.cfsd].fsdnlines)
      /\ call' = IF call.cfsd # Eof /\ Count(call.tail) = call.left
                 THEN [call EXCEPT !.new = @ \o call.tail, !.tail = << >>, !.left = 0]
                 ELSE Ended("abort")
  BY DEF CopyLast, Idly
<1>2. Copying /\ Phase = "walk" /\ call.todo # << >>
  BY <1>1, WalkAtIs
<1>3. PICK a, n, l : WalkAt(a, n, l)
  BY <1>1, WalkAtIs
<1>4. /\ l = call.left /\ a \in Nat /\ n \in Nat /\ l \in Nat /\ l > 0 /\ l <= a + n
      /\ Chained(fsd, Ds) /\ Pointed(fsd, Ds, call.cfsd, (a + n) - l)
      /\ (IF call.tail = << >> THEN Bound(fsd, Ds, a + n) ELSE Inside(fsd, Ds, a + n, call.tail))
      /\ Size(fsd, call.new) + l = n /\ Size(fsd, call.tail) \in Nat /\ Size(fsd, call.new) \in Nat /\ call.cut = << >>
  BY <1>3 DEF WalkAt
<1>5. call.cfsd # Eof /\ Size(fsd, call.tail) = l
  <2>1. PICK d : d = call.cfsd
    OBVIOUS
  <2>2. LastArgs(fsd, Ds, call.tail, d, a + n, l)
    <3>1. a + n \in Nat
      BY <1>4
    <3>2. d = Eof \/ l < fsd[d].fsdnlines
      BY <2>1, <1>1, <1>4
    <3>3. QED BY <3>1, <3>2, <2>1, <1>4 DEF LastArgs
  <2>3. d # Eof /\ Size(fsd, call.tail) = l
    BY <2>2, <1>0, LastIs DEF VarTypes
  <2>4. QED BY <2>1, <2>3
<1>6. Count(call.tail) = call.left
  BY <1>4, <1>5, CountIs
<1>7. PICK new : new = call.new \o call.tail
  OBVIOUS
<1>8. SeqArgs(call.new, call.tail) /\ new \in Seq(Fsd)
  <2>1. SeqArgs(call.new, call.tail)
    BY <1>0, CallIs DEF SeqArgs
  <2>2. QED BY <2>1, <1>7 DEF SeqArgs
<1>9. Walked(new, << >>, 0, call.cfsd)
  <2>1. PICK r : r = call
    OBVIOUS
  <2>2. call' = [r EXCEPT !.new = r.new \o call.tail, !.tail = << >>, !.left = 0]
    BY <2>1, <1>1, <1>5, <1>6
  <2>3. call' = [call EXCEPT !.new = new, !.tail = << >>, !.left = 0]
    BY <2>1, <2>2, <1>7
  <2>4. call.cfsd \in Fsd \cup {Eof}
    BY <1>0, CallIs
  <2>5. \A lz \in Nat : call' = [call EXCEPT !.new = new, !.tail = << >>, !.left = lz] => Walked(new, << >>, lz, call.cfsd)
    BY <2>4, <1>0, <1>8, WalkedIs
  <2>6. QED BY <2>3, <2>5
<1>10. Joined
  BY <1>4, <1>7, <1>9 DEF Joined, Walked
<1>11. Books' /\ VarTypes' /\ Kept
  BY <1>0, <1>1, <1>10, JoinBooks
<1>12. Size(fsd', new) + 0 = n
  <2>1. \A mm \in [Fsd -> Fsds] : Size(mm, call.new \o call.tail) = Size(mm, call.new) + Size(mm, call.tail)
    BY <1>8, SizeConcat
  <2>2. Size(fsd, new) = Size(fsd, call.new) + Size(fsd, call.tail)
    BY <2>1, <1>0, <1>7 DEF VarTypes
  <2>3. fsd' = fsd
    BY <1>1 DEF Idly
  <2>4. Size(fsd', new) = Size(fsd, new)
    BY <2>3
  <2>5. QED BY <2>2, <2>4, <1>4, <1>5
<1>13. Going
  <2>1. las' = las /\ chain' = chain
    BY <1>1 DEF Idly
  <2>2. 0 <= l /\ 0 \in Nat
    BY <1>4
  <2>3. QED BY <2>1, <2>2, <1>1, <1>3, <1>9, <1>11, <1>12, WalkOn
<1>14. InStore'
  BY <1>0, <1>1, <1>2, StoreKept DEF Filling, Idly
<1>15. Collected' /\ CollType' /\ chg' \in Seq(Line)
  BY <1>0, <1>1, CollSame, SMTT(45)
<1>16. QED BY <1>11, <1>13, <1>14, <1>15, <1>0, StepNext

-----------------------------------------------------------------------------
(* The beginning of an operation.                                          *)

(* The text of a file, fsd by fsd. *)
Parts(f) ==
  LET t[i \in 0 .. Len(chain[f])] == IF i = 0 THEN << >> ELSE t[i - 1] \o Lines(chain[f][i])
  IN  t
Glue(a, b) == a \o b

(* The recursive function of the text along a chain satisfies its          *)
(* equation.                                                               *)
LEMMA PartsDef ==
  ASSUME NEW f, Len(chain[f]) \in Nat
  PROVE  Parts(f) = [i \in 0 .. Len(chain[f]) |-> IF i = 0 THEN << >> ELSE Parts(f)[i - 1] \o Lines(chain[f][i])]
<1> DEFINE Is(h, n) == h = [i \in 0 .. n |-> IF i = 0 THEN << >> ELSE Glue(h[i - 1], Lines(chain[f][i]))]
           S == {n \in Nat : \E h : Is(h, n)}
<1>1. 0 \in S
  <2>1. Is([i \in 0 .. 0 |-> << >>], 0)
    OBVIOUS
  <2>2. QED BY <2>1
<1>2. ASSUME NEW n \in S PROVE n + 1 \in S
  <2>1. PICK h : Is(h, n)
    BY <1>2
  <2>6. n \in Nat
    BY <1>2
  <2> DEFINE g == [i \in 0 .. n + 1 |-> IF i = n + 1 THEN Glue(h[n], Lines(chain[f][n + 1])) ELSE h[i]]
  <2> DEFINE u == [i \in 0 .. n + 1 |-> IF i = 0 THEN << >> ELSE Glue(g[i - 1], Lines(chain[f][i]))]
  <2>2. ASSUME NEW i \in 0 .. n + 1 PROVE g[i] = u[i]
    <3>1. CASE i = n + 1
      <4>1. g[n] = h[n] /\ i - 1 = n /\ i # 0
        BY <2>6, <3>1
      <4>2. g[i] = Glue(h[n], Lines(chain[f][n + 1])) /\ u[i] = Glue(g[i - 1], Lines(chain[f][i]))
        BY <4>1, <3>1
      <4>3. QED BY <4>1, <4>2, <3>1
    <3>2. CASE i \in 0 .. n
      <4>1. h[i] = IF i = 0 THEN << >> ELSE Glue(h[i - 1], Lines(chain[f][i]))
        BY <2>1, <3>2
      <4>2. i # 0 => i - 1 \in 0 .. n
        BY <2>6, <3>2
      <4>4. i # n + 1 /\ (i # 0 => i - 1 # n + 1)
        BY <2>6, <3>2
      <4>3. QED BY <4>1, <4>2, <4>4, <2>6, <3>2
    <3>3. QED BY <2>6, <3>1, <3>2
  <2>4. g = u
    BY <2>2
  <2>5. n + 1 \in Nat /\ Is(g, n + 1)
    BY <2>4, <2>6
  <2> HIDE DEF g
  <2>3. QED BY <2>5
<1>3. S = Nat
  BY <1>1, <1>2, Induct
<1>4. \E h : Is(h, Len(chain[f]))
  BY <1>3
<1>5. \E h : h = [i \in 0 .. Len(chain[f]) |-> IF i = 0 THEN << >> ELSE h[i - 1] \o Lines(chain[f][i])]
  BY <1>4 DEF Glue
<1>6. QED BY <1>5 DEF Parts

(* What an fsd describes is a sequence of lines.                           *)
LEMMA LinesAre ==
  ASSUME TypeOK, NEW d \in Fsd, fsd[d].fsdfile # NoFile, Within1(d)
  PROVE  Lines(d) \in Seq(Line)
<1>1. fsd[d] \in Fsds
  BY DEF TypeOK
<1>2. PICK g \in Files : g = fsd[d].fsdfile
  BY <1>1 DEF Fsds
<1>3. PICK a \in Nat : a = fsd[d].fsdpos
  BY <1>1 DEF Fsds
<1>4. PICK n \in Nat : n = fsd[d].fsdnlines
  BY <1>1 DEF Fsds
<1>5. Store(g) \in Seq(Line)
  BY <1>2, TextAssumption DEF TypeOK, Store, Files
<1>6. PICK s \in Seq(Line) : s = Store(g)
  BY <1>5
<1>7. a + n <= Len(s)
  BY <1>2, <1>3, <1>4, <1>6 DEF Within1
<1>8. SubSeq(s, a + 1, a + n) \in Seq(Line)
  BY <1>7
<1>9. QED BY <1>2, <1>3, <1>4, <1>6, <1>8 DEF Lines

(* The text of a file is a sequence of lines.                              *)
LEMMA TextIs ==
  ASSUME TypeOK, Books, InStore, ~ Filling, NEW f \in Files
  PROVE  Text(f) \in Seq(Line)
<1>1. chain[f] \in Seq(Fsd) /\ Chained(fsd, chain[f])
  BY ChainsAre DEF Chained
<1>2. PICK n \in Nat : n = Len(chain[f])
  BY <1>1
<1>3. PICK h : h = Parts(f)
  OBVIOUS
<1>4. h = [i \in 0 .. n |-> IF i = 0 THEN << >> ELSE h[i - 1] \o Lines(chain[f][i])]
  BY <1>2, <1>3, PartsDef
<1>5. ASSUME NEW i \in 1 .. n PROVE Lines(chain[f][i]) \in Seq(Line)
  <2>1. chain[f][i] \in Elems(chain[f])
    BY <1>2, <1>5 DEF Elems
  <2>2. chain[f][i] \in Fsd /\ fsd[chain[f][i]].fsdfile # NoFile
    BY <2>1, <1>1 DEF Chained
  <2>3. Within1(chain[f][i])
    BY <2>2 DEF InStore, Filling
  <2>4. QED BY <2>2, <2>3, LinesAre
<1> DEFINE S == {k \in Nat : k <= n => h[k] \in Seq(Line)}
<1>6. 0 \in S
  <2>1. h[0] = << >>
    BY <1>4
  <2>2. << >> \in Seq(Line)
    OBVIOUS
  <2>3. QED BY <2>1, <2>2
<1>7. ASSUME NEW k \in S PROVE k + 1 \in S
  <2>1. k + 1 \in Nat /\ k \in Nat /\ (k <= n => h[k] \in Seq(Line))
    BY <1>7
  <2>2. ASSUME k + 1 <= n PROVE h[k + 1] \in Seq(Line)
    <3>1. k + 1 \in 1 .. n /\ k <= n /\ k + 1 # 0 /\ (k + 1) - 1 = k /\ k + 1 \in 0 .. n
      BY <2>1, <2>2
    <3>2. h[k + 1] = h[(k + 1) - 1] \o Lines(chain[f][k + 1])
      BY <3>1, <1>4
    <3>3. PICK a \in Seq(Line) : a = h[k]
      BY <2>1, <3>1
    <3>4. PICK b \in Seq(Line) : b = Lines(chain[f][k + 1])
      BY <3>1, <1>5
    <3>5. a \o b \in Seq(Line)
      BY ConcatIs
    <3>6. h[k + 1] = a \o b
      BY <3>1, <3>2, <3>3, <3>4
    <3>7. QED BY <3>5, <3>6
  <2>3. QED BY <2>1, <2>2
<1>8. S = Nat
  <2> HIDE DEF S
  <2>1. S \in SUBSET Nat
    BY DEF S
  <2>2. QED BY <2>1, <1>6, <1>7, Induct
<1>9. h[n] \in Seq(Line)
  BY <1>8
<1>10. Text(f) = h[n]
  BY <1>2, <1>3 DEF Text, Parts
<1>11. QED BY <1>9, <1>10

(* What callers see. *)
LEMMA SeenIs ==
  ASSUME TypeOK, Books, InStore, ~ Filling
  PROVE  /\ Texts \in [File -> Seq(Line)]
         /\ Places \in [Stream -> [la_file : Files \cup {NoFile}, la_lpos : Nat, la_rlines : Nat, la_stay : BOOLEAN]]
<1>1. ASSUME NEW f \in File PROVE (IF IsOpen(f) THEN Text(f) ELSE DiskText[f]) \in Seq(Line)
  <2>1. f \in Files
    BY DEF Files
  <2>2. Text(f) \in Seq(Line)
    BY <2>1, TextIs
  <2>3. DiskText[f] \in Seq(Line)
    BY TextAssumption
  <2>4. QED BY <2>2, <2>3
<1>2. Texts \in [File -> Seq(Line)]
  BY <1>1 DEF Texts
<1>3. ASSUME NEW s \in Stream PROVE Seen(s) \in [la_file : Files \cup {NoFile}, la_lpos : Nat, la_rlines : Nat, la_stay : BOOLEAN]
  <2>1. las[s] \in LaStreams
    BY DEF TypeOK, Streams
  <2>2. QED BY <2>1 DEF LaStreams, Seen
<1>4. QED BY <1>2, <1>3 DEF Places

(* What a caller asks for is one of the requests.                          *)
LEMMA AskIs ==
  ASSUME NEW op \in Ops, NEW s \in Stream, NEW d \in Stream \cup {None}, NEW n \in Nat, NEW new \in Seq(Line)
  PROVE  /\ Ask(op, s, d, n, new) \in Asks
         /\ Ask(op, s, d, n, new).op = op /\ Ask(op, s, d, n, new).s = s /\ Ask(op, s, d, n, new).d = d
         /\ Ask(op, s, d, n, new).n = n
BY DEF Ask, Asks

Requested(r, op, v, p, d, n) ==
  /\ r \in Calls /\ r.op = op /\ r.todo = v /\ r.p = p /\ r.d = d /\ r.n = n /\ r.new = << >> /\ r.tail = << >>
  /\ r.cut = << >> /\ r.cnt = 0 /\ r.bad = FALSE /\ r.ret = "ok" /\ r.pos = 0 /\ r.left = 0

(* What the call is when an operation begins.                              *)
LEMMA RequestIs ==
  ASSUME TypeOK, Books, InStore, ~ Filling, NEW ask \in Asks, NEW v \in Seq(Steps)
  PROVE  Requested(Request(ask, v), ask.op, v, ask.s, ask.d, ask.n)
<1>1. call \in Calls
  BY DEF TypeOK
<1>2. PICK e : e = Ended("ok")
  OBVIOUS
<1>3. /\ e \in Calls /\ e.new = << >> /\ e.tail = << >> /\ e.cut = << >> /\ e.cnt = 0 /\ e.bad = FALSE /\ e.ret = "ok"
      /\ e.pos = 0 /\ e.left = 0 /\ e.edits \in Nat
  <2>1. \A r \in {"ok", "err", "abort"} :
          /\ Ended(r) \in Calls /\ Ended(r).new = << >> /\ Ended(r).tail = << >> /\ Ended(r).cut = << >>
          /\ Ended(r).cnt = 0 /\ Ended(r).bad = FALSE /\ Ended(r).ret = r /\ Ended(r).pos = 0 /\ Ended(r).left = 0
    BY <1>1, EndedIs
  <2>2. e.edits \in Nat
    BY <2>1, <1>2 DEF Calls
  <2>3. QED BY <2>1, <2>2, <1>2
<1>4. PICK w : w = [text |-> Texts, las |-> Places, ask |-> ask]
  OBVIOUS
<1>5. w \in WasSet
  BY <1>4, SeenIs DEF WasSet
<1>6. PICK k \in Nat : k = IF ask.op = "open" THEN e.edits ELSE e.edits + 1
  BY <1>3
<1>7. ask.op \in Ops /\ ask.s \in Streams \cup {None} /\ ask.d \in Stream \cup {None} /\ ask.n \in Nat
  BY DEF Asks, Streams
<1>8. PICK op \in Ops, s \in Streams \cup {None}, d \in Stream \cup {None}, n \in Nat :
        op = ask.op /\ s = ask.s /\ d = ask.d /\ n = ask.n
  BY <1>7
<1>9. Request(ask, v) = [e EXCEPT !.op = op, !.todo = v, !.p = s, !.d = d, !.n = n, !.was = w, !.edits = k]
  BY <1>2, <1>4, <1>6, <1>8 DEF Request
<1>10. PICK r : r = [e EXCEPT !.op = op, !.todo = v, !.p = s, !.d = d, !.n = n, !.was = w, !.edits = k]
  OBVIOUS
<1>11. /\ r \in Calls /\ r.op = op /\ r.todo = v /\ r.p = s /\ r.d = d /\ r.n = n /\ r.new = e.new /\ r.tail = e.tail
       /\ r.cut = e.cut /\ r.cnt = e.cnt /\ r.bad = e.bad /\ r.ret = e.ret /\ r.pos = e.pos /\ r.left = e.left
  BY <1>3, <1>5, <1>8, <1>10, ZenonT(45) DEF Calls, WasSet
<1>12. QED BY <1>3, <1>8, <1>9, <1>10, <1>11 DEF Requested

Begun(op, v, p, d, n) ==
  /\ call' \in Calls /\ call'.op = op /\ call'.todo = v /\ call'.p = p /\ call'.d = d /\ call'.n = n /\ call'.new = << >>
  /\ call'.tail = << >> /\ call'.cut = << >> /\ call'.cnt = 0 /\ call'.bad = FALSE /\ call'.ret = "ok"

(* An operation begins: nothing has changed yet. *)
LEMMA IdleIs ==
  ASSUME IInv, Idle
  PROVE  /\ Over /\ Phase = "end" /\ ~ Filling /\ call.op = "none"
         /\ call.new = << >> /\ call.tail = << >> /\ call.cut = << >>
<1>1. call \in Calls /\ Script /\ Who /\ Stage /\ NeverAbort
  BY InvParts
<1>2. Over
  BY <1>1, OverHas DEF Idle
<1>3. QED BY <1>2 DEF Over, Phase, Filling, Nothing, Loose

(* The invariant, after a step that begins an operation.                   *)
LEMMA BeginNext ==
  ASSUME IInv, Idle, Idly, chg' = chg, coll' = coll,
         NEW op, NEW v, NEW p, NEW d, NEW n, Begun(op, v, p, d, n), Script', Who', Stage'
  PROVE  IInv'
<1>0. /\ TypeOK /\ Books /\ InStore /\ Collected /\ VarTypes /\ chg \in Seq(Line) /\ CollType
  BY InvParts DEF CollType
<1>1. ~ Filling /\ call.new = << >> /\ call.tail = << >> /\ call.cut = << >>
  BY IdleIs
<1>2. SameLists
  BY <1>1 DEF SameLists, Begun
<1>3. Books' /\ VarTypes'
  BY <1>0, <1>2, SameBooks
<1>4. InStore'
  BY <1>0, <1>1, StoreKept DEF Idly
<1>5. Collected' /\ CollType'
  BY <1>0, CollSame
<1>6. TypeOK'
  BY <1>0, <1>3, <1>5, NowTyped DEF Others, Begun
<1>7. NeverAbort'
  BY DEF NeverAbort, Begun
<1>8. QED BY <1>3, <1>4, <1>5, <1>6, <1>7 DEF IInv, Base

(* The stream an operation begins at, and the one lines go to. *)
LEMMA BeginWho ==
  ASSUME Idly, NEW op, NEW v, NEW p, NEW d, NEW n, Begun(op, v, p, d, n),
         op \in {"insert", "delete", "replace", "collect", "copy"}, p \in Stream, Open(p),
         d # None => d \in Stream /\ Open(d),
         op = "copy" => d # None,
         op = "replace" => ~ las[p].la_stay,
         op \in {"replace", "delete"} => n > 0,
         op = "collect" /\ ToDelete' => n > 0
  PROVE  Who'
<1>1. /\ call'.op = op /\ call'.p = p /\ call'.d = d /\ call'.n = n /\ call'.cnt = 0 /\ call'.bad = FALSE
  BY DEF Begun
<1>2. las' = las
  BY DEF Idly
<1>3. Open(p)' /\ (d # None => Open(d)')
  BY <1>2 DEF Open
<1>4. Copying' <=> op = "copy"
  BY <1>1 DEF Copying
<1>5. Open(call.p)' /\ (call'.d # None => Open(call.d)')
  BY <1>1, <1>3 DEF Open
<1>6. op = "replace" => ~ X'.la_stay
  BY <1>1, <1>2 DEF X
<1>7. QED BY <1>1, <1>4, <1>5, <1>6 DEF Who

(* The steps of each operation. *)
LEMMA InsertScript ==
  ASSUME call.todo = InsertSteps, call.op = "insert", call.bad = FALSE
  PROVE  Script /\ Phase = "zp"
<1>1. InsertSteps \in Seq(Steps) /\ InsertSteps # << >>
  BY DEF InsertSteps, Steps
<1>2. /\ Len(InsertSteps) = 4 /\ InsertSteps[1] = "zp" /\ InsertSteps[2] = "parse" /\ InsertSteps[3] = "write"
      /\ InsertSteps[4] = "link" /\ Head(InsertSteps) = "zp"
  BY DEF InsertSteps
<1>3. Leads("zp", "parse") /\ Leads("parse", "write") /\ Leads("write", "link") /\ Leads("link", "end")
  BY DEF Leads
<1>4. \A i \in 1 .. 4 : i = 1 \/ i = 2 \/ i = 3 \/ i = 4
  OBVIOUS
<1>5. ASSUME NEW i \in 1 .. 4 PROVE Leads(InsertSteps[i], IF i < 4 THEN InsertSteps[i + 1] ELSE "end")
  BY <1>2, <1>3, <1>4
<1>6. QED BY <1>1, <1>2, <1>5 DEF Script, Phase

Glued(a, b, v) ==
  /\ v \in Seq(Steps) /\ Len(v) = Len(a) + Len(b)
  /\ \A q \in 1 .. Len(a) : v[q] = a[q]
  /\ \A q \in 1 .. Len(b) : v[Len(a) + q] = b[q]
GlueArgs(a, b, v) == a \in Seq(Steps) /\ b \in Seq(Steps) /\ v = a \o b

(* What a sequence of two parts is.                                        *)
LEMMA GluedIs ==
  ASSUME NEW a, NEW b, NEW v, GlueArgs(a, b, v)
  PROVE  Glued(a, b, v)
<1>1. a \in Seq(Steps) /\ b \in Seq(Steps) /\ v = a \o b
  BY DEF GlueArgs
<1>2. PICK m, n : m = Len(a) /\ n = Len(b)
  OBVIOUS
<1>3. /\ v \in Seq(Steps) /\ Len(v) = m + n
      /\ \A q \in 1 .. m : v[q] = a[q]
      /\ \A q \in 1 .. n : v[m + q] = b[q]
  BY <1>1, <1>2, ConcatIs
<1>4. QED BY <1>2, <1>3 DEF Glued

(* la_lreplace begins with a script.                                       *)
LEMMA ReplaceScript ==
  ASSUME NEW v, v = Append(InsertSteps, "del"), call.todo = v, call.op = "replace", call.bad = FALSE
  PROVE  Script /\ Phase = "zp" /\ v \in Seq(Steps)
<1>1. InsertSteps \in Seq(Steps) /\ "del" \in Steps
  BY DEF InsertSteps, Steps
<1>8. /\ Len(InsertSteps) = 4 /\ InsertSteps[1] = "zp" /\ InsertSteps[2] = "parse" /\ InsertSteps[3] = "write"
      /\ InsertSteps[4] = "link"
  BY DEF InsertSteps
<1>9. PICK u \in Seq(Steps), y \in Steps : u = InsertSteps /\ y = "del"
  BY <1>1
<1>10. v = u \o << y >>
  BY <1>9
<1>11. Glued(u, << y >>, v)
  <2>1. << y >> \in Seq(Steps)
    BY <1>9
  <2>2. GlueArgs(u, << y >>, v)
    BY <2>1, <1>9, <1>10 DEF GlueArgs
  <2>3. QED BY <2>2, GluedIs
<1>16. Len(<< y >>) = 1 /\ << y >>[1] = "del"
  BY <1>9
<1>17. Len(u) = 4
  BY <1>8, <1>9
<1>12. v \in Seq(Steps) /\ Len(v) = 5 /\ v[5] = "del" /\ \A i \in 1 .. 4 : v[i] = u[i]
  <2>1. PICK z : z = << y >>
    OBVIOUS
  <2>2. v \in Seq(Steps) /\ Len(v) = 4 + 1 /\ (\A q \in 1 .. 4 : v[q] = u[q]) /\ \A q \in 1 .. 1 : v[4 + q] = z[q]
    BY <2>1, <1>11, <1>16, <1>17 DEF Glued
  <2>3. 1 \in 1 .. 1 /\ z[1] = "del"
    BY <2>1, <1>16
  <2>4. v[4 + 1] = "del"
    BY <2>2, <2>3
  <2>5. QED BY <2>2, <2>4
<1>13. 1 \in 1 .. 4 /\ 2 \in 1 .. 4 /\ 3 \in 1 .. 4 /\ 4 \in 1 .. 4
  OBVIOUS
<1>2. v \in Seq(Steps) /\ v # << >>
  BY <1>12
<1>14. v[1] = "zp" /\ v[2] = "parse" /\ v[3] = "write" /\ v[4] = "link"
  BY <1>8, <1>9, <1>12, <1>13
<1>15. Head(v) = v[1]
  BY <1>2
<1>3. Len(v) = 5 /\ v[1] = "zp" /\ v[2] = "parse" /\ v[3] = "write" /\ v[4] = "link" /\ v[5] = "del" /\ Head(v) = "zp"
  BY <1>12, <1>14, <1>15
<1>4. Leads("zp", "parse") /\ Leads("parse", "write") /\ Leads("write", "link") /\ Leads("link", "del") /\ Leads("del", "end")
  BY DEF Leads
<1>5. \A i \in 1 .. 5 : i = 1 \/ i = 2 \/ i = 3 \/ i = 4 \/ i = 5
  OBVIOUS
<1>6. ASSUME NEW i \in 1 .. 5 PROVE Leads(v[i], IF i < 5 THEN v[i + 1] ELSE "end")
  BY <1>3, <1>4, <1>5
<1>7. QED BY <1>2, <1>3, <1>6 DEF Script, Phase

(* la_ldelete begins with a script.                                        *)
LEMMA DeleteScript ==
  ASSUME NEW v, v = << "del" >>, call.todo = v, call.op = "delete", call.bad = FALSE
  PROVE  Script /\ Phase = "del" /\ v \in Seq(Steps)
<1>1. v \in Seq(Steps) /\ v # << >>
  BY DEF Steps
<1>2. Len(v) = 1 /\ v[1] = "del" /\ Head(v) = "del"
  OBVIOUS
<1>3. Leads("del", "end")
  BY DEF Leads
<1>4. \A i \in 1 .. 1 : i = 1
  OBVIOUS
<1>5. QED BY <1>1, <1>2, <1>3, <1>4 DEF Script, Phase

(* la_lcopy begins with a script.                                          *)
LEMMA CopyScript ==
  ASSUME call.todo = CopySteps, call.op = "copy", call.bad = FALSE
  PROVE  Script /\ Phase = "zd"
<1>1. Leads("zd", "chead") /\ Leads("chead", "ctail") /\ Leads("ctail", "walk") /\ Leads("walk", "linkd") /\ Leads("linkd", "end")
  BY DEF Leads, Copying
<1>2. \A i \in 1 .. 5 : i = 1 \/ i = 2 \/ i = 3 \/ i = 4 \/ i = 5
  OBVIOUS
<1>3. ASSUME NEW i \in 1 .. 5 PROVE Leads(CopySteps[i], IF i < 5 THEN CopySteps[i + 1] ELSE "end")
  BY <1>1, <1>2, CopyStepsAre
<1>4. Head(CopySteps) = CopySteps[1]
  BY CopyStepsAre
<1>5. QED BY <1>3, <1>4, CopyStepsAre DEF Script, Phase

(* la_blank begins with a script.                                          *)
LEMMA BlankScript ==
  ASSUME NEW v, v = << "bprep", "chunk" >>, call.todo = v, call.op = "blank", call.bad = FALSE
  PROVE  Script /\ Phase = "bprep" /\ v \in Seq(Steps) /\ ~ ToDelete
<1>1. v \in Seq(Steps) /\ v # << >>
  BY DEF Steps
<1>2. Len(v) = 2 /\ v[1] = "bprep" /\ v[2] = "chunk" /\ Head(v) = "bprep"
  OBVIOUS
<1>3. Leads("bprep", "chunk") /\ Leads("chunk", "end")
  BY DEF Leads
<1>4. \A i \in 1 .. 2 : i = 1 \/ i = 2
  OBVIOUS
<1>5. ASSUME NEW i \in 1 .. 2 PROVE Leads(v[i], IF i < 2 THEN v[i + 1] ELSE "end")
  BY <1>2, <1>3, <1>4
<1>6. ~ ToDelete
  BY <1>2, <1>4 DEF ToDelete
<1>7. QED BY <1>1, <1>2, <1>5, <1>6 DEF Script, Phase

(* la_open begins with a script.                                           *)
LEMMA OpenScript ==
  ASSUME NEW v, v = << "parse", "openret" >>, call.todo = v, call.op = "open", call.bad = FALSE
  PROVE  Script /\ Phase = "parse" /\ v \in Seq(Steps) /\ ~ ToDelete
<1>1. v \in Seq(Steps) /\ v # << >>
  BY DEF Steps
<1>2. Len(v) = 2 /\ v[1] = "parse" /\ v[2] = "openret" /\ Head(v) = "parse"
  OBVIOUS
<1>3. Leads("parse", "openret") /\ Leads("openret", "end")
  BY DEF Leads
<1>4. \A i \in 1 .. 2 : i = 1 \/ i = 2
  OBVIOUS
<1>5. ASSUME NEW i \in 1 .. 2 PROVE Leads(v[i], IF i < 2 THEN v[i + 1] ELSE "end")
  BY <1>2, <1>3, <1>4
<1>6. ~ ToDelete
  BY <1>2, <1>4 DEF ToDelete
<1>7. QED BY <1>1, <1>2, <1>5, <1>6 DEF Script, Phase

(* The end of a collection begins with a script.                           *)
LEMMA CollectScript ==
  ASSUME NEW v, NEW n, v = << "zp", "parse", "room" >> \o (IF n = 0 THEN << >> ELSE << "del" >>) \o << "link" >>,
         call.todo = v, call.op = "collect", call.bad = FALSE
  PROVE  Script /\ Phase = "zp" /\ v \in Seq(Steps) /\ (ToDelete => n # 0)
<1>1. /\ Leads("zp", "parse") /\ Leads("parse", "room") /\ Leads("room", "del") /\ Leads("room", "link")
      /\ Leads("del", "link") /\ Leads("link", "end")
  BY DEF Leads
<1>10. PICK a : a = << "zp", "parse", "room" >>
  OBVIOUS
<1>11. a \in Seq(Steps) /\ Len(a) = 3 /\ a[1] = "zp" /\ a[2] = "parse" /\ a[3] = "room"
  <2>1. a \in Seq(Steps)
    BY <1>10 DEF Steps
  <2>2. Len(a) = 3 /\ a[1] = "zp" /\ a[2] = "parse" /\ a[3] = "room"
    BY <1>10
  <2>3. QED BY <2>1, <2>2
<1>12. PICK b : b = IF n = 0 THEN << >> ELSE << "del" >>
  OBVIOUS
<1>13. PICK c : c = << "link" >>
  OBVIOUS
<1>14. b \in Seq(Steps) /\ c \in Seq(Steps) /\ Len(c) = 1 /\ c[1] = "link"
  <2>1. << >> \in Seq(Steps) /\ << "del" >> \in Seq(Steps) /\ << "link" >> \in Seq(Steps)
    BY DEF Steps
  <2>2. b \in Seq(Steps) /\ c \in Seq(Steps)
    BY <2>1, <1>12, <1>13
  <2>3. Len(c) = 1 /\ c[1] = "link"
    BY <1>13
  <2>4. QED BY <2>2, <2>3
<1>15. v = (a \o b) \o c
  BY <1>10, <1>12, <1>13
<1>17. PICK ab : ab = a \o b
  OBVIOUS
<1>16. Glued(a, b, ab)
  BY <1>11, <1>14, <1>17, GluedIs DEF GlueArgs
<1>18. /\ ab \in Seq(Steps) /\ Len(ab) = 3 + Len(b) /\ ab[1] = "zp" /\ ab[2] = "parse" /\ ab[3] = "room"
       /\ \A q \in 1 .. Len(b) : ab[3 + q] = b[q]
  <2>1. 1 \in 1 .. 3 /\ 2 \in 1 .. 3 /\ 3 \in 1 .. 3
    OBVIOUS
  <2>2. /\ ab \in Seq(Steps) /\ Len(ab) = 3 + Len(b) /\ (\A q \in 1 .. 3 : ab[q] = a[q])
        /\ \A q \in 1 .. Len(b) : ab[3 + q] = b[q]
    BY <1>11, <1>16 DEF Glued
  <2>3. QED BY <2>1, <2>2, <1>11
<1>19. Glued(ab, c, v)
  BY <1>14, <1>15, <1>17, <1>18, GluedIs DEF GlueArgs
<1>20. /\ v \in Seq(Steps) /\ Len(v) = Len(ab) + Len(c)
       /\ \A q \in 1 .. Len(ab) : v[q] = ab[q]
       /\ \A q \in 1 .. Len(c) : v[Len(ab) + q] = c[q]
  BY <1>19 DEF Glued
<1>2. CASE n = 0
  <2>1. Len(b) = 0
    BY <1>2, <1>12
  <2>8. Len(ab) = 3 /\ Len(v) = 4 /\ 1 \in 1 .. 3 /\ 2 \in 1 .. 3 /\ 3 \in 1 .. 3 /\ 1 \in 1 .. 1
    BY <2>1, <1>14, <1>18, <1>20
  <2>9. v[1] = "zp" /\ v[2] = "parse" /\ v[3] = "room" /\ v[3 + 1] = "link"
    BY <2>8, <1>14, <1>18, <1>20
  <2>2. v \in Seq(Steps) /\ v # << >>
    BY <2>8, <1>20
  <2>10. Head(v) = v[1]
    BY <2>2
  <2>3. Len(v) = 4 /\ v[1] = "zp" /\ v[2] = "parse" /\ v[3] = "room" /\ v[4] = "link" /\ Head(v) = "zp"
    BY <2>8, <2>9, <2>10
  <2>4. \A i \in 1 .. 4 : i = 1 \/ i = 2 \/ i = 3 \/ i = 4
    OBVIOUS
  <2>5. ASSUME NEW i \in 1 .. 4 PROVE Leads(v[i], IF i < 4 THEN v[i + 1] ELSE "end")
    BY <2>3, <2>4, <1>1
  <2>6. ~ ToDelete
    BY <2>3, <2>4 DEF ToDelete
  <2>7. QED BY <2>2, <2>3, <2>5, <2>6 DEF Script, Phase
<1>3. CASE n # 0
  <2>1. Len(b) = 1 /\ b[1] = "del"
    BY <1>3, <1>12
  <2>8. Len(ab) = 4 /\ Len(v) = 5 /\ 1 \in 1 .. 4 /\ 2 \in 1 .. 4 /\ 3 \in 1 .. 4 /\ 4 \in 1 .. 4 /\ 1 \in 1 .. 1
    BY <2>1, <1>14, <1>18, <1>20
  <2>11. ab[3 + 1] = "del"
    BY <2>1, <2>8, <1>18
  <2>9. v[1] = "zp" /\ v[2] = "parse" /\ v[3] = "room" /\ v[4] = "del" /\ v[4 + 1] = "link"
    BY <2>8, <2>11, <1>14, <1>18, <1>20
  <2>2. v \in Seq(Steps) /\ v # << >>
    BY <2>8, <1>20
  <2>10. Head(v) = v[1]
    BY <2>2
  <2>3. Len(v) = 5 /\ v[1] = "zp" /\ v[2] = "parse" /\ v[3] = "room" /\ v[4] = "del" /\ v[5] = "link" /\ Head(v) = "zp"
    BY <2>8, <2>9, <2>10
  <2>4. \A i \in 1 .. 5 : i = 1 \/ i = 2 \/ i = 3 \/ i = 4 \/ i = 5
    OBVIOUS
  <2>5. ASSUME NEW i \in 1 .. 5 PROVE Leads(v[i], IF i < 5 THEN v[i + 1] ELSE "end")
    BY <2>3, <2>4, <1>1
  <2>6. QED BY <2>2, <2>3, <2>5, <1>3 DEF Script, Phase
<1>4. QED BY <1>2, <1>3

(* What the steps of an operation are, as each begins. *)
LEMMA InsertBegins == (call.todo = InsertSteps /\ call.op = "insert" /\ call.bad = FALSE) => (Script /\ Phase = "zp")
BY InsertScript

(* ReplaceScript as a formula about one state.                             *)
LEMMA ReplaceBegins ==
  (call.todo = Append(InsertSteps, "del") /\ call.op = "replace" /\ call.bad = FALSE) => (Script /\ Phase = "zp")
BY ReplaceScript

(* DeleteScript as a formula about one state.                              *)
LEMMA DeleteBegins == (call.todo = << "del" >> /\ call.op = "delete" /\ call.bad = FALSE) => (Script /\ Phase = "del")
BY DeleteScript

(* CopyScript as a formula about one state.                                *)
LEMMA CopyBegins == (call.todo = CopySteps /\ call.op = "copy" /\ call.bad = FALSE) => (Script /\ Phase = "zd")
BY CopyScript

(* BlankScript as a formula about one state.                               *)
LEMMA BlankBegins ==
  (call.todo = << "bprep", "chunk" >> /\ call.op = "blank" /\ call.bad = FALSE) => (Script /\ Phase = "bprep" /\ ~ ToDelete)
BY BlankScript

(* OpenScript as a formula about one state.                                *)
LEMMA OpenBegins ==
  (call.todo = << "parse", "openret" >> /\ call.op = "open" /\ call.bad = FALSE) => (Script /\ Phase = "parse" /\ ~ ToDelete)
BY OpenScript
CollectSteps(n) == << "zp", "parse", "room" >> \o (IF n = 0 THEN << >> ELSE << "del" >>) \o << "link" >>
CollectBegun ==
  \A n : (call.todo = CollectSteps(n) /\ call.op = "collect" /\ call.bad = FALSE) => (Script /\ Phase = "zp" /\ (ToDelete => n # 0))

(* CollectScript as a formula about one state.                             *)
LEMMA CollectBegins == CollectBegun
BY CollectScript DEF CollectSteps, CollectBegun

(* A request of a caller, from which the call is made. *)
LEMMA AskedIs ==
  ASSUME IInv, Idle, NEW ask \in Asks, NEW v \in Seq(Steps)
  PROVE  Requested(Request(ask, v), ask.op, v, ask.s, ask.d, ask.n)
<1>1. TypeOK /\ Books /\ InStore
  BY InvParts
<1>2. ~ Filling
  BY IdleIs
<1>3. QED BY <1>1, <1>2, RequestIs

Supplied(text, own, pos, left) == call'.text = text /\ call'.own = own /\ call'.pos = pos /\ call'.left = left

(* What the call is when an operation begins that has lines to describe.   *)
LEMMA BegunIs ==
  ASSUME NEW r, NEW op, NEW v, NEW p, NEW d, NEW n, Requested(r, op, v, p, d, n),
         NEW text \in Seq(Line), NEW own \in Files \cup {NoFile}, NEW pos \in Nat, NEW left \in Nat,
         call' = [r EXCEPT !.text = text, !.own = own, !.pos = pos, !.left = left]
  PROVE  Begun(op, v, p, d, n) /\ Supplied(text, own, pos, left)
<1>1. PICK x : x = [r EXCEPT !.text = text, !.own = own, !.pos = pos, !.left = left]
  OBVIOUS
<1>2. r \in Calls
  BY DEF Requested
<1>3. /\ x \in Calls /\ x.text = text /\ x.own = own /\ x.pos = pos /\ x.left = left /\ x.op = r.op /\ x.todo = r.todo
      /\ x.p = r.p /\ x.d = r.d /\ x.n = r.n /\ x.new = r.new /\ x.tail = r.tail /\ x.cut = r.cut /\ x.cnt = r.cnt
      /\ x.bad = r.bad /\ x.ret = r.ret
  BY <1>1, <1>2, ZenonT(45) DEF Calls
<1>4. call' = x
  BY <1>1
<1>5. Supplied(text, own, pos, left)
  BY <1>3, <1>4 DEF Supplied
<1>6. QED BY <1>3, <1>4, <1>5 DEF Begun, Requested

(* New lines to be put on the end of the change file. *)
LEMMA FillBegins ==
  ASSUME IInv, Idle, Idly, chg' = chg, coll' = coll, NEW op \in {"insert", "replace"}, NEW new \in NewText,
         NEW v, NEW p, NEW d, NEW n,
         Begun(op, v, p, d, n), Supplied(new, Chg, Len(chg), Len(new)), Phase' = "zp"
  PROVE  Stage'
<1>1. new \in Seq(Line) /\ new # << >>
  BY TextAssumption
<1>2. Len(new) \in Nat /\ Len(new) > 0
  BY <1>1
<1>3. Len(chg) \in Nat
  BY InvParts
<1>4. call'.op = op /\ call'.text = new /\ call'.own = Chg /\ call'.pos = Len(chg) /\ call'.left = Len(new)
  BY DEF Begun, Supplied
<1>5. Limit' = Len(chg) + Len(new)
  BY <1>4 DEF Limit
<1>6. Asked'
  BY <1>4 DEF Asked, Begun
<1>7. Nothing'
  BY DEF Nothing, Loose, Begun
<1>8. InZp'
  BY <1>2, <1>3, <1>4, <1>5, <1>6, <1>7 DEF InZp
<1>9. QED BY <1>8 DEF Stage

(* Beginning an insert keeps the invariant.                                *)
LEMMA BeginInsertNext ==
  ASSUME IInv, NEW s \in Stream, NEW new \in NewText, BeginInsert(s, new)
  PROVE  IInv'
<1>1. /\ Idle /\ Open(s) /\ Idly /\ chg' = chg /\ coll' = coll
      /\ call' = [Request(Ask("insert", s, None, 0, new), InsertSteps)
                    EXCEPT !.text = new, !.own = Chg, !.pos = Len(chg), !.left = Len(new)]
  BY DEF BeginInsert, MayEdit, Idly
<1>2. new \in Seq(Line) /\ Len(new) \in Nat
  BY TextAssumption
<1>3. Len(chg) \in Nat
  BY InvParts
<1>4. InsertSteps \in Seq(Steps)
  BY DEF InsertSteps, Steps
<1>5. PICK ask \in Asks : ask = Ask("insert", s, None, 0, new) /\ ask.op = "insert" /\ ask.s = s /\ ask.d = None /\ ask.n = 0
  <2>1. "insert" \in Ops /\ None \in Stream \cup {None} /\ 0 \in Nat
    BY <1>2 DEF Ops
  <2>2. /\ Ask("insert", s, None, 0, new) \in Asks /\ Ask("insert", s, None, 0, new).op = "insert" /\ Ask("insert", s, None, 0, new).s = s
        /\ Ask("insert", s, None, 0, new).d = None /\ Ask("insert", s, None, 0, new).n = 0
    BY <1>2, <2>1, NameAssumption DEF Ask, Asks
  <2>3. QED BY <2>2
<1>6. PICK r : r = Request(ask, InsertSteps)
  OBVIOUS
<1>7. Requested(r, "insert", InsertSteps, s, None, 0)
  BY <1>1, <1>4, <1>5, <1>6, AskedIs
<1>8. Chg \in Files \cup {NoFile}
  BY DEF Files
<1>9. call' = [r EXCEPT !.text = new, !.own = Chg, !.pos = Len(chg), !.left = Len(new)]
  BY <1>1, <1>5, <1>6
<1>10. Begun("insert", InsertSteps, s, None, 0) /\ Supplied(new, Chg, Len(chg), Len(new))
  BY <1>2, <1>3, <1>7, <1>8, <1>9, BegunIs
<1>11. (Script /\ Phase = "zp")'
  <2>1. (call.todo = InsertSteps /\ call.op = "insert" /\ call.bad = FALSE)'
    BY <1>10 DEF Begun
  <2>2. QED BY <2>1, InsertBegins, PTL
<1>12. Stage'
  BY <1>1, <1>10, <1>11, FillBegins
<1>13. Who'
  BY <1>1, <1>10, BeginWho
<1>14. QED BY <1>1, <1>10, <1>11, <1>12, <1>13, BeginNext

(* Beginning a replace keeps the invariant.                                *)
LEMMA BeginReplaceNext ==
  ASSUME IInv, NEW s \in Stream, NEW new \in NewText, NEW n \in Counts, NEW d \in Stream \cup {None}, BeginReplace(s, new, n, d)
  PROVE  IInv'
<1>1. /\ Idle /\ Open(s) /\ ~ las[s].la_stay /\ d \in Targets /\ Idly /\ chg' = chg /\ coll' = coll
      /\ call' = [Request(Ask("replace", s, d, n, new), Append(InsertSteps, "del"))
                    EXCEPT !.text = new, !.own = Chg, !.pos = Len(chg), !.left = Len(new)]
  BY DEF BeginReplace, MayEdit, Idly
<1>2. new \in Seq(Line) /\ Len(new) \in Nat /\ n \in Nat /\ n > 0
  BY TextAssumption
<1>3. Len(chg) \in Nat
  BY InvParts
<1>15. PICK v : v = Append(InsertSteps, "del")
  OBVIOUS
<1>4. v \in Seq(Steps)
  <2>1. InsertSteps \in Seq(Steps) /\ "del" \in Steps
    BY DEF InsertSteps, Steps
  <2>2. QED BY <2>1, <1>15
<1>5. PICK ask \in Asks : ask = Ask("replace", s, d, n, new) /\ ask.op = "replace" /\ ask.s = s /\ ask.d = d /\ ask.n = n
  <2>1. "replace" \in Ops /\ d \in Stream \cup {None} /\ n \in Nat
    BY <1>2 DEF Ops
  <2>2. /\ Ask("replace", s, d, n, new) \in Asks /\ Ask("replace", s, d, n, new).op = "replace" /\ Ask("replace", s, d, n, new).s = s
        /\ Ask("replace", s, d, n, new).d = d /\ Ask("replace", s, d, n, new).n = n
    BY <1>2, <2>1, NameAssumption DEF Ask, Asks
  <2>3. QED BY <2>2
<1>6. PICK r : r = Request(ask, v)
  OBVIOUS
<1>7. Requested(r, "replace", v, s, d, n)
  BY <1>1, <1>4, <1>5, <1>6, AskedIs
<1>8. Chg \in Files \cup {NoFile}
  BY DEF Files
<1>9. call' = [r EXCEPT !.text = new, !.own = Chg, !.pos = Len(chg), !.left = Len(new)]
  BY <1>1, <1>5, <1>6, <1>15
<1>10. Begun("replace", v, s, d, n) /\ Supplied(new, Chg, Len(chg), Len(new))
  BY <1>2, <1>3, <1>7, <1>8, <1>9, BegunIs
<1>11. (Script /\ Phase = "zp")'
  <2>1. (call.todo = Append(InsertSteps, "del") /\ call.op = "replace" /\ call.bad = FALSE)'
    BY <1>10, <1>15 DEF Begun
  <2>2. QED BY <2>1, ReplaceBegins, PTL
<1>12. Stage'
  BY <1>1, <1>10, <1>11, FillBegins
<1>13. Who'
  <2>1. d # None => d \in Stream /\ Open(d)
    BY <1>1 DEF Targets
  <2>2. QED BY <2>1, <1>1, <1>2, <1>10, BeginWho
<1>14. QED BY <1>1, <1>10, <1>11, <1>12, <1>13, BeginNext

(* Beginning a delete keeps the invariant.                                 *)
LEMMA BeginDeleteNext ==
  ASSUME IInv, NEW s \in Stream, NEW n \in Counts, NEW d \in Stream \cup {None}, BeginDelete(s, n, d)
  PROVE  IInv'
<1>1. /\ Idle /\ Open(s) /\ d \in Targets /\ Idly /\ chg' = chg /\ coll' = coll
      /\ call' = Request(Ask("delete", s, d, n, << >>), << "del" >>)
  BY DEF BeginDelete, MayEdit, Idly
<1>2. << >> \in Seq(Line) /\ n \in Nat /\ n > 0
  BY TextAssumption
<1>15. PICK v : v = << "del" >>
  OBVIOUS
<1>4. v \in Seq(Steps)
  BY <1>15 DEF Steps
<1>5. PICK ask \in Asks : ask = Ask("delete", s, d, n, << >>) /\ ask.op = "delete" /\ ask.s = s /\ ask.d = d /\ ask.n = n
  <2>1. "delete" \in Ops /\ d \in Stream \cup {None} /\ n \in Nat
    BY <1>2 DEF Ops
  <2>2. /\ Ask("delete", s, d, n, << >>) \in Asks /\ Ask("delete", s, d, n, << >>).op = "delete" /\ Ask("delete", s, d, n, << >>).s = s
        /\ Ask("delete", s, d, n, << >>).d = d /\ Ask("delete", s, d, n, << >>).n = n
    BY <1>2, <2>1, NameAssumption DEF Ask, Asks
  <2>3. QED BY <2>2
<1>7. Requested(call', "delete", v, s, d, n)
  BY <1>1, <1>4, <1>5, <1>15, AskedIs
<1>10. Begun("delete", v, s, d, n)
  BY <1>7 DEF Begun, Requested
<1>11. (Script /\ Phase = "del")'
  <2>1. (call.todo = << "del" >> /\ call.op = "delete" /\ call.bad = FALSE)'
    BY <1>10, <1>15 DEF Begun
  <2>2. QED BY <2>1, DeleteBegins, PTL
<1>12. Stage'
  <2>1. InDel'
    BY <1>2, <1>10 DEF InDel, Loose, Keeping, Begun
  <2>2. QED BY <2>1, <1>11 DEF Stage
<1>13. Who'
  <2>1. d # None => d \in Stream /\ Open(d)
    BY <1>1 DEF Targets
  <2>2. QED BY <2>1, <1>1, <1>2, <1>10, BeginWho
<1>14. QED BY <1>1, <1>10, <1>11, <1>12, <1>13, BeginNext

(* A stream that is not at the end has lines behind it. *)
LEMMA BehindIs ==
  ASSUME TypeOK, Books, NEW s \in Streams, Open(s), ~ AtEnd(s)
  PROVE  las[s].la_lpos < laf[las[s].la_file].la_nlines
<1>0. VarTypes
  BY TypesAre
<1>2. las[s].la_file \in Files /\ PlaceFacts(fsd, chain[las[s].la_file], las[s])
      /\ laf[las[s].la_file].la_nlines = Size(fsd, chain[las[s].la_file]) /\ chain[las[s].la_file] \in Seq(Fsd)
  BY StreamHas DEF Chained
<1>3. PICK l \in Nat : l = Size(fsd, chain[las[s].la_file])
  BY <1>0, <1>2, SizeNat DEF VarTypes
<1>4. las[s].la_cfsd # Eof
  BY DEF AtEnd
<1>5. las[s].la_lpos \in Nat /\ las[s].la_lpos <= l /\ las[s].la_lpos # l
  BY <1>2, <1>3, <1>4 DEF PlaceFacts
<1>6. QED BY <1>2, <1>3, <1>5

(* Beginning a copy keeps the invariant, when the break in the target is   *)
(* not of the source's fsd.                                                *)
LEMMA BeginCopyNext ==
  ASSUME IInv, ~ SameFsdCopy, NEW s \in Stream, NEW d \in Stream, NEW n \in Counts, BeginCopy(s, d, n)
  PROVE  IInv'
<1>1. /\ Idle /\ Open(s) /\ Open(d) /\ ~ AtEnd(s) /\ ~ BreaksSource(s, d) /\ Idly /\ chg' = chg /\ coll' = coll
      /\ call' = [Request(Ask("copy", s, d, n, << >>), CopySteps) EXCEPT !.cfsd = las[s].la_cfsd]
  BY DEF BeginCopy, MayEdit, Idly
<1>2. << >> \in Seq(Line) /\ n \in Nat /\ n > 0
  BY TextAssumption
<1>3. TypeOK /\ Books /\ s \in Streams /\ d \in Streams
  BY InvParts DEF Streams
<1>4. CopySteps \in Seq(Steps)
  BY CopyStepsAre
<1>5. PICK ask \in Asks : ask = Ask("copy", s, d, n, << >>) /\ ask.op = "copy" /\ ask.s = s /\ ask.d = d /\ ask.n = n
  <2>1. "copy" \in Ops /\ d \in Stream \cup {None} /\ n \in Nat
    BY <1>2 DEF Ops
  <2>2. /\ Ask("copy", s, d, n, << >>) \in Asks /\ Ask("copy", s, d, n, << >>).op = "copy" /\ Ask("copy", s, d, n, << >>).s = s
        /\ Ask("copy", s, d, n, << >>).d = d /\ Ask("copy", s, d, n, << >>).n = n
    BY <1>2, <2>1, NameAssumption DEF Ask, Asks
  <2>3. QED BY <2>2
<1>6. PICK r : r = Request(ask, CopySteps)
  OBVIOUS
<1>7. Requested(r, "copy", CopySteps, s, d, n)
  BY <1>1, <1>4, <1>5, <1>6, AskedIs
<1>8. PICK z \in Fsd \cup {Eof} : z = las[s].la_cfsd
  <2>1. las[s] \in LaStreams
    BY <1>3 DEF TypeOK
  <2>2. QED BY <2>1 DEF LaStreams
<1>9. call' = [r EXCEPT !.cfsd = z]
  BY <1>1, <1>5, <1>6, <1>8
<1>10. Begun("copy", CopySteps, s, d, n) /\ call'.cfsd = z
  <2>1. PICK x : x = [r EXCEPT !.cfsd = z]
    OBVIOUS
  <2>2. r \in Calls
    BY <1>7 DEF Requested
  <2>3. /\ x \in Calls /\ x.cfsd = z /\ x.op = r.op /\ x.todo = r.todo
        /\ x.p = r.p /\ x.d = r.d /\ x.n = r.n /\ x.new = r.new /\ x.tail = r.tail /\ x.cut = r.cut /\ x.cnt = r.cnt
        /\ x.bad = r.bad /\ x.ret = r.ret
    BY <1>8, <2>1, <2>2, ZenonT(45) DEF Calls
  <2>4. call' = x
    BY <1>9, <2>1
  <2>5. QED BY <1>7, <2>3, <2>4 DEF Begun, Requested
<1>11. (Script /\ Phase = "zd")'
  <2>1. (call.todo = CopySteps /\ call.op = "copy" /\ call.bad = FALSE)'
    BY <1>10 DEF Begun
  <2>2. QED BY <2>1, CopyBegins, PTL
<1>12. Stage'
  <2>1. Nothing'
    BY <1>10 DEF Nothing, Loose, Begun
  <2>2. Filled'
    BY <1>2, <1>10 DEF Filled, Begun
  <2>3. las[s].la_lpos < laf[las[s].la_file].la_nlines
    BY <1>1, <1>3, BehindIs
  <2>4. X' = las[s]
    BY <1>1, <1>10 DEF X, Begun, Idly
  <2>5. Before1'
    BY <1>1, <2>3, <2>4 DEF Before1, Idly
  <2>6. AtCopy'
    BY <1>8, <1>10, <2>2, <2>4, <2>5 DEF AtCopy
  <2>7. ~ Broken(las[d]) => las[d].la_cfsd # z
    BY <1>1, <1>8 DEF BreaksSource
  <2>8. (~ Broken(las[call.d]) => las[call.d].la_cfsd # call.cfsd)'
    BY <2>7, <1>1, <1>10 DEF Begun, Idly, Broken
  <2>9. InZdCopy'
    BY <2>1, <2>6, <2>8 DEF InZdCopy
  <2>10. ~ Cuts' /\ Phase' = "zd"
    BY <1>10, <1>11 DEF Cuts, Begun
  <2>11. QED BY <2>9, <2>10 DEF Stage
<1>13. Who'
  BY <1>1, <1>2, <1>10, NameAssumption, BeginWho
<1>14. QED BY <1>1, <1>10, <1>11, <1>12, <1>13, BeginNext

(* Beginning a blank keeps the invariant.                                  *)
LEMMA BeginBlankNext ==
  ASSUME IInv, NEW s \in Stream, NEW n \in Counts, BeginBlank(s, n)
  PROVE  IInv'
<1>15. PICK new : new = [i \in 1 .. n |-> Blank]
  OBVIOUS
<1>16. PICK v : v = << "bprep", "chunk" >>
  OBVIOUS
<1>1. /\ Idle /\ Open(s) /\ ~ las[s].la_stay /\ Idly /\ chg' = chg /\ coll' = coll
      /\ call' = [Request(Ask("blank", s, None, 0, new), v) EXCEPT !.p = Blas, !.d = s, !.blank = n]
  BY <1>15, <1>16 DEF BeginBlank, MayEdit, Idly
<1>2. new \in Seq(Line) /\ n \in Nat /\ n > 0
  <2>1. n \in Nat /\ n > 0 /\ Blank \in Line
    BY TextAssumption
  <2>2. QED BY <1>15, <2>1
<1>3. TypeOK /\ Books
  BY InvParts
<1>4. v \in Seq(Steps)
  BY <1>16 DEF Steps
<1>5. PICK ask \in Asks : ask = Ask("blank", s, None, 0, new) /\ ask.op = "blank" /\ ask.s = s /\ ask.d = None /\ ask.n = 0
  <2>1. "blank" \in Ops /\ None \in Stream \cup {None} /\ 0 \in Nat
    BY <1>2 DEF Ops
  <2>2. /\ Ask("blank", s, None, 0, new) \in Asks /\ Ask("blank", s, None, 0, new).op = "blank" /\ Ask("blank", s, None, 0, new).s = s
        /\ Ask("blank", s, None, 0, new).d = None /\ Ask("blank", s, None, 0, new).n = 0
    BY <1>2, <2>1, NameAssumption DEF Ask, Asks
  <2>3. QED BY <2>2
<1>6. PICK r : r = Request(ask, v)
  OBVIOUS
<1>7. Requested(r, "blank", v, s, None, 0)
  BY <1>1, <1>4, <1>5, <1>6, AskedIs
<1>8. Blas \in Streams /\ Open(Blas)
  <2>1. las[Blas].la_file = Chg
    BY <1>3 DEF Books, Filler
  <2>2. QED BY <2>1, NameAssumption DEF Open, Streams
<1>10. Begun("blank", v, Blas, s, 0)
  <2>1. PICK x : x = [r EXCEPT !.p = Blas, !.d = s, !.blank = n]
    OBVIOUS
  <2>2. r \in Calls
    BY <1>7 DEF Requested
  <2>3. /\ x \in Calls /\ x.op = r.op /\ x.todo = r.todo
        /\ x.p = Blas /\ x.d = s /\ x.n = r.n /\ x.new = r.new /\ x.tail = r.tail /\ x.cut = r.cut /\ x.cnt = r.cnt
        /\ x.bad = r.bad /\ x.ret = r.ret
    BY <1>2, <1>8, <2>1, <2>2 DEF Calls
  <2>4. call' = x
    BY <1>1, <1>5, <1>6, <2>1
  <2>5. QED BY <1>7, <2>3, <2>4 DEF Begun, Requested
<1>11. (Script /\ Phase = "bprep" /\ ~ ToDelete)'
  <2>1. (call.todo = << "bprep", "chunk" >> /\ call.op = "blank" /\ call.bad = FALSE)'
    BY <1>10, <1>16 DEF Begun
  <2>2. QED BY <2>1, BlankBegins, PTL
<1>12. Stage'
  <2>1. InBprep'
    BY <1>10 DEF InBprep, Nothing, Loose, Begun
  <2>2. QED BY <2>1, <1>11 DEF Stage
<1>13. Who'
  <2>1. call'.op = "blank" /\ call'.p = Blas /\ call'.d = s /\ call'.bad = FALSE /\ call'.n = 0
    BY <1>10 DEF Begun
  <2>2. las' = las
    BY <1>1 DEF Idly
  <2>3. Open(call.p)' /\ Open(call.d)'
    BY <1>1, <1>8, <2>1, <2>2 DEF Open
  <2>4. ~ las'[call'.d].la_stay
    BY <1>1, <2>1, <2>2
  <2>5. call'.d # None
    BY <2>1, NameAssumption
  <2>6. QED BY <1>11, <2>1, <2>3, <2>4, <2>5 DEF Who
<1>14. QED BY <1>1, <1>10, <1>11, <1>12, <1>13, BeginNext

(* Opening a file keeps the invariant.                                     *)
LEMMA BeginOpenNext ==
  ASSUME IInv, NEW s \in Stream, NEW f \in File, BeginOpen(s, f)
  PROVE  IInv'
<1>15. PICK ask : ask = [Ask("open", s, None, 0, << >>) EXCEPT !.f = f]
  OBVIOUS
<1>16. PICK v : v = << "parse", "openret" >>
  OBVIOUS
<1>1. /\ Idle /\ ~ Open(s) /\ ~ IsOpen(f) /\ Idly /\ chg' = chg /\ coll' = coll
      /\ call' = [Request(ask, v) EXCEPT !.own = f, !.left = Len(DiskText[f])]
  BY <1>15, <1>16 DEF BeginOpen, Idly
<1>2. << >> \in Seq(Line) /\ DiskText[f] \in Seq(Line) /\ Len(DiskText[f]) \in Nat
  BY TextAssumption
<1>4. v \in Seq(Steps)
  BY <1>16 DEF Steps
<1>5. ask \in Asks /\ ask.op = "open" /\ ask.s = s /\ ask.d = None /\ ask.n = 0
  <2>1. "open" \in Ops
    BY DEF Ops
  <2>2. QED BY <1>2, <1>15, <2>1, NameAssumption DEF Ask, Asks
<1>6. PICK r : r = Request(ask, v)
  OBVIOUS
<1>7. Requested(r, "open", v, s, None, 0)
  BY <1>1, <1>4, <1>5, <1>6, AskedIs
<1>8. r \in Calls /\ r.text \in Seq(Line) /\ r.pos = 0
  BY <1>7 DEF Requested, Calls
<1>9. PICK l \in Nat : l = Len(DiskText[f])
  BY <1>2
<1>10. Begun("open", v, s, None, 0) /\ call'.own = f /\ call'.pos = 0 /\ call'.left = l
  <2>1. PICK x : x = [r EXCEPT !.own = f, !.left = l]
    OBVIOUS
  <2>5. f \in Files \cup {NoFile}
    BY DEF Files
  <2>3. /\ x \in Calls /\ x.own = f /\ x.left = l /\ x.pos = r.pos /\ x.op = r.op /\ x.todo = r.todo
        /\ x.p = r.p /\ x.d = r.d /\ x.n = r.n /\ x.new = r.new /\ x.tail = r.tail /\ x.cut = r.cut /\ x.cnt = r.cnt
        /\ x.bad = r.bad /\ x.ret = r.ret
    BY <1>8, <1>9, <2>1, <2>5, ZenonT(45) DEF Calls
  <2>4. call' = x
    BY <1>1, <1>6, <1>9, <2>1
  <2>6. QED BY <1>7, <1>8, <2>3, <2>4 DEF Begun, Requested
<1>11. (Script /\ Phase = "parse" /\ ~ ToDelete)'
  <2>1. (call.todo = << "parse", "openret" >> /\ call.op = "open" /\ call.bad = FALSE)'
    BY <1>10, <1>16 DEF Begun
  <2>2. QED BY <2>1, OpenBegins, PTL
<1>12. Stage'
  <2>1. Opening'
    BY <1>1, <1>10 DEF Opening, Begun, Idly, Open, IsOpen
  <2>2. call'.op = "open" /\ call'.new = << >>
    BY <1>10 DEF Begun
  <2>3. Parsed'
    <3>1. Elems(<< >>) = {}
      BY DEF Elems
    <3>2. Elems(call.new)' = {}
      BY <2>2, <3>1
    <3>3. QED BY <3>2 DEF Parsed
  <2>4. Limit' = l
    BY <1>9, <1>10, <2>2 DEF Limit
  <2>5. call'.pos + call'.left = l
    BY <1>9, <1>10
  <2>6. Loose'
    BY <1>10 DEF Loose, Begun
  <2>7. InParse'
    BY <2>1, <2>2, <2>3, <2>4, <2>5, <2>6 DEF InParse
  <2>8. QED BY <2>7, <1>11 DEF Stage
<1>13. Who'
  BY <1>10, <1>11, SMTT(45) DEF Who, Begun
<1>14. QED BY <1>1, <1>10, <1>11, <1>12, <1>13, BeginNext

(* Ending a collection by linking it in keeps the invariant.               *)
LEMMA BeginCollectNext ==
  ASSUME IInv, NEW s \in Stream, NEW n \in Counts \cup {0}, NEW d \in Stream \cup {None}, BeginCollect(s, n, d)
  PROVE  IInv'
<1>15. PICK new : new = SubSeq(chg, coll.chgpos + 1, coll.nxchgpos)
  OBVIOUS
<1>1. /\ Idle /\ Open(s) /\ d \in Targets /\ coll.on /\ Idly /\ chg' = chg /\ coll' = coll
      /\ call' = [Request(Ask("collect", s, d, n, new), CollectSteps(n)) EXCEPT !.own = Chg, !.pos = coll.chgpos, !.left = Len(new)]
  BY <1>15 DEF BeginCollect, MayEdit, Idly, CollectSteps
<1>3. PICK c \in Seq(Line) : c = chg
  BY InvParts
<1>16. PICK a \in Nat, b \in Nat : a = coll.chgpos /\ b = coll.nxchgpos /\ a < b /\ b <= Len(c)
  <2>1. coll.chgpos \in Nat /\ coll.nxchgpos \in Nat /\ Collected
    BY InvParts
  <2>2. QED BY <1>1, <1>3, <2>1 DEF Collected
<1>2. new \in Seq(Line) /\ Len(new) = b - a /\ n \in Nat
  <2>1. n \in Nat
    BY TextAssumption
  <2>2. new = SubSeq(c, a + 1, b)
    BY <1>3, <1>15, <1>16
  <2>3. QED BY <1>16, <2>1, <2>2, SMTT(45)
<1>17. PICK l \in Nat : l = Len(new) /\ l = b - a /\ l > 0
  BY <1>2, <1>16
<1>18. PICK v : v = CollectSteps(n)
  OBVIOUS
<1>4. v \in Seq(Steps)
  <2>1. /\ << "zp", "parse", "room" >> \in Seq(Steps) /\ << >> \in Seq(Steps) /\ << "del" >> \in Seq(Steps)
        /\ << "link" >> \in Seq(Steps)
    BY DEF Steps
  <2>2. PICK a1 \in Seq(Steps), b1 \in Seq(Steps), c1 \in Seq(Steps) :
          a1 = << "zp", "parse", "room" >> /\ b1 = (IF n = 0 THEN << >> ELSE << "del" >>) /\ c1 = << "link" >>
    BY <2>1
  <2>3. a1 \o b1 \in Seq(Steps)
    BY <2>2
  <2>4. (a1 \o b1) \o c1 \in Seq(Steps)
    BY <2>2, <2>3
  <2>5. QED BY <2>2, <2>4, <1>18 DEF CollectSteps
<1>5. PICK ask \in Asks : ask = Ask("collect", s, d, n, new) /\ ask.op = "collect" /\ ask.s = s /\ ask.d = d /\ ask.n = n
  <2>1. "collect" \in Ops /\ d \in Stream \cup {None} /\ n \in Nat
    BY <1>2 DEF Ops
  <2>2. /\ Ask("collect", s, d, n, new) \in Asks /\ Ask("collect", s, d, n, new).op = "collect" /\ Ask("collect", s, d, n, new).s = s
        /\ Ask("collect", s, d, n, new).d = d /\ Ask("collect", s, d, n, new).n = n
    BY <1>2, <2>1, NameAssumption DEF Ask, Asks
  <2>3. QED BY <2>2
<1>6. PICK r : r = Request(ask, v)
  OBVIOUS
<1>7. Requested(r, "collect", v, s, d, n)
  BY <1>1, <1>4, <1>5, <1>6, AskedIs
<1>8. r \in Calls
  BY <1>7 DEF Requested
<1>10. Begun("collect", v, s, d, n) /\ call'.own = Chg /\ call'.pos = a /\ call'.left = l
  <2>1. PICK x : x = [r EXCEPT !.own = Chg, !.pos = a, !.left = l]
    OBVIOUS
  <2>5. Chg \in Files \cup {NoFile} /\ a \in Nat /\ l \in Nat
    BY <1>16, <1>17 DEF Files
  <2>3. /\ x \in Calls /\ x.own = Chg /\ x.left = l /\ x.pos = a /\ x.op = r.op /\ x.todo = r.todo
        /\ x.p = r.p /\ x.d = r.d /\ x.n = r.n /\ x.new = r.new /\ x.tail = r.tail /\ x.cut = r.cut /\ x.cnt = r.cnt
        /\ x.bad = r.bad /\ x.ret = r.ret
    BY <1>8, <2>1, <2>5, ZenonT(45) DEF Calls
  <2>4. call' = x
    BY <1>1, <1>5, <1>6, <1>16, <1>17, <1>18, <2>1
  <2>6. QED BY <1>7, <1>8, <2>3, <2>4 DEF Begun, Requested
<1>11. (Script /\ Phase = "zp")' /\ (ToDelete' => n # 0)
  <2>1. (call.todo = CollectSteps(n) /\ call.op = "collect" /\ call.bad = FALSE)'
    BY <1>10, <1>18 DEF Begun
  <2>3. CollectBegun'
    BY CollectBegins, PTL
  <2>2. QED BY <2>1, <2>3 DEF CollectBegun
<1>12. Stage'
  <2>2. call'.op = "collect" /\ call'.cnt = 0
    BY <1>10 DEF Begun
  <2>4. Limit' = b
    BY <1>1, <1>16, <2>2 DEF Limit
  <2>5. call'.pos + call'.left = b /\ call'.left > 0
    BY <1>10, <1>16, <1>17
  <2>6. Nothing'
    BY <1>10 DEF Nothing, Loose, Begun
  <2>3. Asked'
    BY <1>1, <1>10, <2>2 DEF Asked
  <2>7. InZp'
    BY <2>2, <2>3, <2>4, <2>5, <2>6 DEF InZp
  <2>8. QED BY <2>7, <1>11 DEF Stage
<1>13. Who'
  <2>1. d # None => d \in Stream /\ Open(d)
    BY <1>1 DEF Targets
  <2>2. ToDelete' => n > 0
    BY <1>2, <1>11
  <2>3. QED BY <2>1, <2>2, <1>1, <1>2, <1>10, BeginWho
<1>14. QED BY <1>1, <1>10, <1>11, <1>12, <1>13, BeginNext

-----------------------------------------------------------------------------
(* What callers do between edits.                                          *)

(* An operation returns. *)
LEMMA EndsNext ==
  ASSUME IInv, call.op # "none", call.todo = << >>, NEW r \in {"ok", "err"}, call' = Ended(r), Idly, chg' = chg,
         coll' = coll \/ coll' = Dormant
  PROVE  IInv'
<1>0. /\ TypeOK /\ Books /\ InStore /\ Collected /\ Stage /\ VarTypes /\ call \in Calls /\ chg \in Seq(Line) /\ CollType
  BY InvParts DEF CollType
<1>1. Phase = "end" /\ ~ Filling
  BY DEF Phase, Filling
<1>2. call.new = << >> /\ call.tail = << >> /\ call.cut = << >>
  BY <1>0, <1>1 DEF Stage, Nothing, Loose
<1>3. r \in {"ok", "err", "abort"} /\ r # "abort"
  OBVIOUS
<1>4. /\ call' \in Calls /\ call'.op = "none" /\ call'.todo = << >> /\ call'.new = << >> /\ call'.tail = << >>
      /\ call'.cut = << >> /\ call'.cnt = 0 /\ call'.bad = FALSE /\ call'.ret = r
  BY <1>0, <1>3, EndedIs
<1>5. Over'
  BY <1>3, <1>4 DEF Over, Nothing, Loose
<1>6. SameLists
  BY <1>2, <1>4 DEF SameLists
<1>7. Books' /\ VarTypes'
  BY <1>0, <1>6, SameBooks
<1>8. InStore'
  BY <1>0, <1>1, StoreKept DEF Idly
<1>9. Collected' /\ CollType'
  BY <1>0, DormantIs DEF Collected, CollType
<1>10. Others'
  BY <1>0, <1>7, <1>9 DEF Others
<1>11. QED BY <1>4, <1>5, <1>7, <1>8, <1>9, <1>10, OverNext

(* The return of an operation keeps the invariant.                         *)
LEMMA ReturnNext ==
  ASSUME IInv, Return
  PROVE  IInv'
<1>1. /\ call.op # "none" /\ call.todo = << >> /\ Idly /\ chg' = chg /\ coll' = coll
      /\ call' = Ended(IF call.bad THEN "err" ELSE "ok")
  BY DEF Return, Idly
<1>2. PICK r \in {"ok", "err"} : r = IF call.bad THEN "err" ELSE "ok"
  OBVIOUS
<1>3. QED BY <1>1, <1>2, EndsNext

(* The return of a collection keeps the invariant.                         *)
LEMMA CollectReturnNext ==
  ASSUME IInv, CollectReturn
  PROVE  IInv'
<1>1. /\ call.op # "none" /\ call.todo = << >> /\ Idly /\ chg' = chg /\ coll' = Dormant /\ call' = Ended("ok")
  BY DEF CollectReturn, Idly
<1>2. "ok" \in {"ok", "err"}
  OBVIOUS
<1>3. QED BY <1>1, <1>2, EndsNext

(* What callers do between operations. *)
LEMMA BetweenNext ==
  ASSUME IInv, Idle, call' = call, Books', VarTypes', InStore', chg' \in Seq(Line), CollType', Collected'
  PROVE  IInv'
<1>1. Over /\ call \in Calls
  BY IdleIs, InvParts
<1>2. Over'
  BY <1>1 DEF Over, Nothing, Loose
<1>3. Others'
  BY DEF Others
<1>4. QED BY <1>1, <1>2, <1>3, OverNext

(* The invariant, after a step that only lengthens the change file or      *)
(* concerns the collection.                                                *)
LEMMA GrowsNext ==
  ASSUME IInv, Idle, call' = call, Idly, chg' \in Seq(Line), Len(chg') >= Len(chg), CollType', Collected'
  PROVE  IInv'
<1>0. TypeOK /\ Books /\ InStore /\ VarTypes /\ chg \in Seq(Line)
  BY InvParts
<1>1. Books' /\ VarTypes'
  BY <1>0, SameBooks DEF SameLists
<1>2. ~ Filling
  BY IdleIs
<1>3. fsd \in [Fsd -> Fsds] /\ fsd' = fsd
  BY <1>0 DEF VarTypes, Idly
<1>4. InStore'
  BY <1>0, <1>2, <1>3, StoreStep
<1>5. QED BY <1>1, <1>4, BetweenNext

Longer(new, n) == chg' \in Seq(Line) /\ Len(chg') = Len(chg) + n /\ n = Len(new) /\ n \in Nat /\ n > 0 /\ Len(chg) \in Nat

(* What the change file is when lines have been appended.                  *)
LEMMA LongerIs ==
  ASSUME chg \in Seq(Line), NEW new \in NewText, chg' = chg \o new
  PROVE  Longer(new, Len(new))
<1>1. PICK t \in Seq(Line) : t = new /\ t # << >>
  BY TextAssumption
<1>2. Len(t) \in Nat /\ Len(t) > 0 /\ Len(chg) \in Nat
  BY <1>1
<1>3. chg \o t \in Seq(Line) /\ Len(chg \o t) = Len(chg) + Len(t)
  BY ConcatIs
<1>4. QED BY <1>1, <1>2, <1>3 DEF Longer

(* What is known of a collection that has lines.                           *)
LEMMA CollStarts ==
  ASSUME NEW a \in Nat, NEW b \in Nat, NEW x \in BOOLEAN, coll' = [on |-> x, chgpos |-> a, nxchgpos |-> b],
         a < b, b <= Len(chg')
  PROVE  CollType' /\ Collected'
BY DEF CollType, Collected

(* la_lcollect keeps the invariant.                                        *)
LEMMA LCollectNext ==
  ASSUME IInv, NEW new \in NewText, NEW start \in BOOLEAN, LCollect(start, new)
  PROVE  IInv'
<1>0. chg \in Seq(Line) /\ coll.chgpos \in Nat /\ coll.nxchgpos \in Nat /\ Collected
  BY InvParts
<1>1. /\ Idle /\ (start \/ (coll.on /\ coll.nxchgpos = Len(chg))) /\ chg' = chg \o new /\ Idly /\ call' = call
      /\ coll' = [on |-> TRUE, chgpos |-> IF start THEN Len(chg) ELSE coll.chgpos, nxchgpos |-> Len(chg) + Len(new)]
  BY DEF LCollect, Idly
<1>2. PICK n \in Nat : n = Len(new) /\ n > 0 /\ chg' \in Seq(Line) /\ Len(chg') = Len(chg) + n
  <2>1. Longer(new, Len(new))
    BY <1>0, <1>1, LongerIs
  <2>2. QED BY <2>1 DEF Longer
<1>3. PICK c \in Nat : c = Len(chg)
  BY <1>0
<1>4. PICK a \in Nat : a = IF start THEN c ELSE coll.chgpos
  BY <1>0
<1>5. a <= c
  BY <1>0, <1>1, <1>3, <1>4 DEF Collected
<1>6. PICK b \in Nat : b = c + n
  OBVIOUS
<1>7. coll' = [on |-> TRUE, chgpos |-> a, nxchgpos |-> b]
  BY <1>1, <1>2, <1>3, <1>4, <1>6
<1>8. a < b /\ b <= Len(chg') /\ Len(chg') >= Len(chg)
  BY <1>2, <1>3, <1>5, <1>6
<1>9. CollType' /\ Collected'
  BY <1>7, <1>8, CollStarts
<1>10. QED BY <1>1, <1>2, <1>8, <1>9, GrowsNext

(* la_tcollect keeps the invariant.                                        *)
LEMMA TCollectNext ==
  ASSUME IInv, NEW new \in NewText, TCollect(new)
  PROVE  IInv'
<1>0. chg \in Seq(Line)
  BY InvParts
<1>1. /\ Idle /\ chg' = chg \o new /\ Idly /\ call' = call
      /\ coll' = [on |-> TRUE, chgpos |-> Len(chg), nxchgpos |-> Len(chg) + Len(new)]
  BY DEF TCollect, Idly
<1>2. PICK n \in Nat : n = Len(new) /\ n > 0 /\ chg' \in Seq(Line) /\ Len(chg') = Len(chg) + n
  <2>1. Longer(new, Len(new))
    BY <1>0, <1>1, LongerIs
  <2>2. QED BY <2>1 DEF Longer
<1>3. PICK c \in Nat : c = Len(chg)
  BY <1>0
<1>6. PICK b \in Nat : b = c + n
  OBVIOUS
<1>7. coll' = [on |-> TRUE, chgpos |-> c, nxchgpos |-> b]
  BY <1>1, <1>2, <1>3, <1>6
<1>8. c < b /\ b <= Len(chg') /\ Len(chg') >= Len(chg)
  BY <1>2, <1>3, <1>6
<1>9. CollType' /\ Collected'
  BY <1>7, <1>8, CollStarts
<1>10. QED BY <1>1, <1>2, <1>8, <1>9, GrowsNext

(* A failing la_lcollect keeps the invariant.                              *)
LEMMA LCollectFailsNext ==
  ASSUME IInv, LCollectFails
  PROVE  IInv'
<1>0. chg \in Seq(Line)
  BY InvParts
<1>1. Idle /\ coll' = Dormant /\ Idly /\ chg' = chg /\ call' = call
  BY DEF LCollectFails, Idly
<1>2. CollType' /\ Collected'
  BY <1>1, DormantIs DEF CollType, Collected
<1>3. chg' \in Seq(Line) /\ Len(chg') >= Len(chg)
  BY <1>0, <1>1
<1>4. QED BY <1>1, <1>2, <1>3, GrowsNext

(* Steps of callers that move, open and close streams. *)
LEMMA StreamsNext ==
  ASSUME IInv, Idle, call' = call, chg' = chg, coll' = coll, Books', VarTypes',
         \A d \in Fsd : fsd'[d].fsdfile # NoFile => fsd'[d] = fsd[d]
  PROVE  IInv'
<1>0. TypeOK /\ Books /\ InStore /\ VarTypes /\ chg \in Seq(Line) /\ Collected /\ CollType
  BY InvParts DEF CollType
<1>1. ~ Filling
  BY IdleIs
<1>2. fsd \in [Fsd -> Fsds] /\ Len(chg) \in Nat
  BY <1>0 DEF VarTypes
<1>3. InStore'
  BY <1>0, <1>1, <1>2, StoreStep
<1>4. Collected' /\ CollType'
  BY <1>0, CollSame
<1>5. QED BY <1>0, <1>3, <1>4, BetweenNext

(* la_clone keeps the invariant.                                           *)
LEMMA CloneNext ==
  ASSUME IInv, NEW s \in Stream, NEW t \in Stream, Clone(t, s)
  PROVE  IInv'
<1>1. Books' /\ VarTypes'
  BY InvParts, CloneBooks
<1>2. Idle /\ call' = call /\ chg' = chg /\ coll' = coll /\ fsd' = fsd
  BY DEF Clone
<1>3. QED BY <1>1, <1>2, StreamsNext

(* Closing a stream that is not the last keeps the invariant.              *)
LEMMA CloseStreamNext ==
  ASSUME IInv, NEW s \in Stream, CloseStream(s)
  PROVE  IInv'
<1>1. Books' /\ VarTypes'
  BY InvParts, CloseBooks
<1>2. Idle /\ call' = call /\ chg' = chg /\ coll' = coll /\ fsd' = fsd
  BY DEF CloseStream
<1>3. QED BY <1>1, <1>2, StreamsNext

(* Closing the last stream of a file keeps the invariant, when no other    *)
(* file has lines of it.                                                   *)
LEMMA CloseFileNext ==
  ASSUME IInv, ~ CloseShared, NEW s \in Stream, CloseFile(s)
  PROVE  IInv'
<1>1. Idle /\ call' = call /\ chg' = chg /\ coll' = coll /\ Unshared(las[s].la_file)
  BY DEF CloseFile
<1>2. Books' /\ VarTypes' /\ \A d \in Fsd : fsd'[d].fsdfile # NoFile => fsd'[d] = fsd[d]
  BY <1>1, InvParts, CloseFileBooks
<1>3. QED BY <1>1, <1>2, StreamsNext

(* A stream of which only its place in the chain, or nothing but its       *)
(* reserved lines and its staying, changes keeps the invariant.            *)
LEMMA SetNext ==
  ASSUME IInv, NEW s \in Stream, NEW x \in LaStreams, SetStream(s, x), x.la_file = las[s].la_file,
         InChain(fsd, chain[las[s].la_file], x)
  PROVE  IInv'
<1>1. /\ Idle /\ Open(s) /\ las' = [las EXCEPT ![s] = x] /\ fsd' = fsd /\ chain' = chain /\ laf' = laf
      /\ chg' = chg /\ coll' = coll /\ call' = call
  BY DEF SetStream
<1>2. Moves(s, x)
  BY <1>1 DEF Moves, SameLists
<1>3. Books' /\ VarTypes'
  BY <1>2, InvParts, MoveBooks
<1>4. QED BY <1>1, <1>3, StreamsNext

(* Where a stream is, whatever it does. *)
LEMMA SpotIs ==
  ASSUME IInv, NEW s \in Stream, Open(s)
  PROVE  /\ las[s] \in LaStreams /\ fsd \in [Fsd -> Fsds] /\ Chained(fsd, chain[las[s].la_file])
         /\ InChain(fsd, chain[las[s].la_file], las[s]) /\ laf[las[s].la_file].la_nlines = Size(fsd, chain[las[s].la_file])
<1>1. TypeOK /\ Books /\ s \in Streams
  BY InvParts DEF Streams
<1>2. las[s] \in LaStreams /\ fsd \in [Fsd -> Fsds]
  BY <1>1 DEF TypeOK
<1>3. Chained(fsd, chain[las[s].la_file]) /\ laf[las[s].la_file].la_nlines = Size(fsd, chain[las[s].la_file])
  BY <1>1, StreamHas
<1>4. InChain(fsd, chain[las[s].la_file], las[s])
  BY <1>1 DEF Books, Placed
<1>5. QED BY <1>2, <1>3, <1>4

(* la_lseek keeps the invariant.                                           *)
LEMMA LSeekNext ==
  ASSUME IInv, NEW s \in Stream, Open(s), NEW n \in Int, LSeek(s, n)
  PROVE  IInv'
<1>1. PICK x : x = Seek(las[s], n)
  OBVIOUS
<1>2. Sought(las[s], x, n)
  BY <1>1, SpotIs, SeekIs DEF Chained
<1>3. SetStream(s, x)
  BY <1>1 DEF LSeek
<1>4. QED BY <1>2, <1>3, SetNext DEF Sought

(* la_stayset and la_stayclr keep the invariant.                           *)
LEMMA StayNext ==
  ASSUME IInv, NEW s \in Stream, NEW b \in Stays, Stay(s, b)
  PROVE  IInv'
<1>1. PICK x : x = [las[s] EXCEPT !.la_stay = b]
  OBVIOUS
<1>2. SetStream(s, x) /\ Open(s)
  BY <1>1 DEF Stay, SetStream
<1>3. b \in BOOLEAN
  BY TextAssumption
<1>4. las[s] \in LaStreams /\ InChain(fsd, chain[las[s].la_file], las[s])
  BY <1>2, SpotIs
<1>5. /\ x \in LaStreams /\ x.la_file = las[s].la_file /\ x.la_cfsd = las[s].la_cfsd
      /\ x.la_fsline = las[s].la_fsline /\ x.la_lpos = las[s].la_lpos
  BY <1>1, <1>3, <1>4 DEF LaStreams
<1>6. InChain(fsd, chain[las[s].la_file], x)
  BY <1>4, <1>5 DEF InChain, IsAt
<1>7. QED BY <1>2, <1>5, <1>6, SetNext

(* la_lrsize keeps the invariant.                                          *)
LEMMA SetRlinesNext ==
  ASSUME IInv, NEW s \in Stream, NEW n \in Reserves, SetRlines(s, n)
  PROVE  IInv'
<1>1. PICK x : x = [las[s] EXCEPT !.la_rlines = n]
  OBVIOUS
<1>2. SetStream(s, x) /\ Open(s)
  BY <1>1 DEF SetRlines, SetStream
<1>3. n \in Nat
  BY TextAssumption
<1>4. las[s] \in LaStreams /\ InChain(fsd, chain[las[s].la_file], las[s])
  BY <1>2, SpotIs
<1>5. /\ x \in LaStreams /\ x.la_file = las[s].la_file /\ x.la_cfsd = las[s].la_cfsd
      /\ x.la_fsline = las[s].la_fsline /\ x.la_lpos = las[s].la_lpos
  BY <1>1, <1>3, <1>4 DEF LaStreams
<1>6. InChain(fsd, chain[las[s].la_file], x)
  BY <1>4, <1>5 DEF InChain, IsAt
<1>7. QED BY <1>2, <1>5, <1>6, SetNext

(* la_align keeps the invariant.                                           *)
LEMMA AlignNext ==
  ASSUME IInv, NEW o \in Stream, NEW s \in Stream, Align(o, s)
  PROVE  IInv'
<1>1. PICK y : y = las[o]
  OBVIOUS
<1>8. PICK x : x = Place(las[s], y.la_cfsd, y.la_fsline, y.la_lpos)
  OBVIOUS
<1>2. SetStream(s, x) /\ Open(s) /\ Open(o) /\ y.la_file = las[s].la_file
  BY <1>1, <1>8 DEF Align, SetStream
<1>4. las[s] \in LaStreams /\ y \in LaStreams /\ InChain(fsd, chain[y.la_file], y)
  BY <1>1, <1>2, SpotIs
<1>9. PlaceArgs(las[s], y.la_cfsd, y.la_fsline, y.la_lpos)
  BY <1>4 DEF PlaceArgs, LaStreams
<1>5. PlacedAt(las[s], y.la_cfsd, y.la_fsline, y.la_lpos, x)
  BY <1>8, <1>9, PlaceIs
<1>6. InChain(fsd, chain[las[s].la_file], x)
  BY <1>2, <1>4, <1>5 DEF InChain, IsAt, PlacedAt
<1>7. QED BY <1>2, <1>5, <1>6, SetNext DEF PlacedAt

-----------------------------------------------------------------------------
(* Stuttering.                                                             *)

(* Nothing happens. *)
Same == fsd' = fsd /\ chain' = chain /\ laf' = laf /\ las' = las /\ chg' = chg /\ coll' = coll /\ call' = call

(* Most of the invariant is the same when no variable changes.             *)
LEMMA SameParts ==
  ASSUME Same
  PROVE  /\ TypeOK' = TypeOK /\ Collected' = Collected /\ Script' = Script /\ Who' = Who /\ NeverAbort' = NeverAbort
<1>1. TypeOK' = TypeOK
  BY DEF Same, TypeOK
<1>2. Collected' = Collected
  BY DEF Same, Collected
<1>3. Script' = Script
  <2>1. Cuts' = Cuts /\ Copying' = Copying
    BY DEF Same, Cuts, Copying
  <2>2. \A x, y : Leads(x, y)' = Leads(x, y)
    BY <2>1 DEF Same, Leads
  <2>3. QED BY <2>2 DEF Same, Script
<1>4. Who' = Who
  <2>1. Copying' = Copying
    BY DEF Same, Copying
  <2>2. ToDelete' = ToDelete
    BY DEF Same, ToDelete
  <2>3. X' = X /\ \A s : Open(s)' = Open(s)
    BY DEF Same, X, Open
  <2>4. QED BY <2>1, <2>2, <2>3 DEF Same, Who
<1>5. NeverAbort' = NeverAbort
  BY DEF Same, NeverAbort
<1>6. QED BY <1>1, <1>2, <1>3, <1>4, <1>5

(* The stages are kept when no variable changes.                           *)
LEMMA SameStage ==
  ASSUME Same, Stage
  PROVE  Stage'
<1>1. /\ call' = call /\ fsd' = fsd /\ chain' = chain /\ las' = las /\ laf' = laf /\ chg' = chg /\ coll' = coll
  BY DEF Same
<1>2. Phase' = Phase /\ Cuts' = Cuts /\ Copying' = Copying
  BY <1>1 DEF Phase, Cuts, Copying
<1>3. X' = X /\ Ds' = Ds
  BY <1>1 DEF X, Ds
<1>4. \A s, n : Edge(s, n)' = Edge(s, n)
  BY <1>1 DEF Edge
<1>5. \A s, n : Edged(s)' = Edged(s) /\ Cleft(s, n)' = Cleft(s, n)
  BY <1>1, <1>4 DEF Edged, Cleft
<1>6. Edged(call.p)' = Edged(call.p) /\ Edged(call.d)' = Edged(call.d) /\ Cleft(call.p, call.cnt)' = Cleft(call.p, call.cnt)
      /\ Cleft(call.d, call.cnt)' = Cleft(call.d, call.cnt) /\ Cleft(call.d, call.cnt + call.n)' = Cleft(call.d, call.cnt + call.n)
      /\ Edge(call.p, X.la_lpos + call.n)' = Edge(call.p, X.la_lpos + call.n)
  BY <1>1, <1>3, <1>4, <1>5
<1>7. Loose' = Loose /\ Nothing' = Nothing /\ Limit' = Limit /\ Asked' = Asked /\ Opening' = Opening /\ Parsed' = Parsed
  BY <1>1 DEF Loose, Nothing, Limit, Asked, Opening, Parsed, Open, IsOpen
<1>8. Keeping' = Keeping /\ Before1' = Before1 /\ Apart1' = Apart1
  BY <1>1, <1>3, <1>6 DEF Keeping, Before1, Apart1
<1>9. InZp' = InZp /\ InParse' = InParse /\ InOpen' = InOpen /\ InLink' = InLink
  BY <1>1, <1>6, <1>7 DEF InZp, InParse, InOpen, InLink
<1>10. InWrite' = InWrite
  BY <1>1, <1>7, <1>9 DEF InWrite
<1>11. InDel' = InDel
  BY <1>1, <1>6, <1>7, <1>8 DEF InDel
<1>12. InZd' = InZd /\ InBreak' = InBreak
  BY <1>1, <1>6, <1>8, <1>11 DEF InZd, InBreak
<1>13. InBend' = InBend
  BY <1>6, <1>12 DEF InBend
<1>14. InUnlink' = InUnlink
  BY <1>1, <1>3, <1>6, <1>7, <1>8 DEF InUnlink
<1>15. InPlace' = InPlace /\ InBack' = InBack
  BY <1>1, <1>6, <1>7, <1>8 DEF InPlace, InBack
<1>16. Filled' = Filled
  BY <1>1, <1>6 DEF Filled
<1>17. AtCopy' = AtCopy
  BY <1>1, <1>3, <1>8, <1>16 DEF AtCopy
<1>18. InZdCopy' = InZdCopy /\ InChead' = InChead
  BY <1>1, <1>6, <1>7, <1>17 DEF InZdCopy, InChead, Broken
<1>19. InCtail' = InCtail
  BY <1>1, <1>3, <1>6, <1>7, <1>17 DEF InCtail
<1>20. Lacking' = Lacking
  BY <1>1, <1>3, <1>6 DEF Lacking
<1>21. InWalk' = InWalk /\ InLinkd' = InLinkd /\ InBprep' = InBprep /\ InChunk' = InChunk
  BY <1>1, <1>6, <1>7, <1>16, <1>20 DEF InWalk, InLinkd, InBprep, InChunk
<1>22. QED BY <1>2, <1>7, <1>9, <1>10, <1>11, <1>12, <1>13, <1>14, <1>15, <1>18, <1>19, <1>21 DEF Stage

(* The invariant is kept when nothing happens.                             *)
LEMMA StutterNext ==
  ASSUME IInv, UNCHANGED vars
  PROVE  IInv'
<1>1. Same
  BY DEF vars, Same
<1>0. TypeOK /\ Books /\ InStore /\ VarTypes /\ Collected /\ Script /\ Who /\ Stage /\ NeverAbort
  BY InvParts
<1>2. Books'
  BY <1>0, <1>1, SameBooks DEF Same, Idly, SameLists
<1>3. InStore'
  BY <1>0, <1>1 DEF Same, InStore, Within1, Store, Phase
<1>4. Stage'
  BY <1>0, <1>1, SameStage
<1>5. TypeOK' /\ Collected' /\ Script' /\ Who' /\ NeverAbort'
  BY <1>0, <1>1, SameParts
<1>6. QED BY <1>2, <1>3, <1>4, <1>5 DEF IInv, Base

-----------------------------------------------------------------------------
(* The invariant.                                                          *)

(* In the beginning every chain is empty. *)
LEMMA EmptyIs == \A m : Sums(m, << >>)[0] = 0 /\ Size(m, << >>) = 0 /\ Elems(<< >>) = {} /\ Inj(<< >>) /\ Nth(<< >>, 1) = Eof
<1>1. TAKE m
<1>2. Len(<< >>) = 0
  OBVIOUS
<1>3. Sums(m, << >>)[0] = 0
  BY <1>2, SumsDef
<1>4. Elems(<< >>) = {} /\ Inj(<< >>) /\ Nth(<< >>, 1) = Eof
  BY <1>2 DEF Elems, Inj, Nth
<1>5. QED BY <1>2, <1>3, <1>4 DEF Size

(* At the start every fsd is free.                                         *)
LEMMA InitFsds ==
  ASSUME Init
  PROVE  fsd \in [Fsd -> Fsds] /\ \A d \in Fsd : fsd[d].fsdfile = NoFile
<1>1. FreeFsd \in Fsds /\ FreeFsd.fsdfile = NoFile
  BY DEF FreeFsd, Fsds
<1>2. fsd = [d \in Fsd |-> FreeFsd]
  BY DEF Init
<1>3. QED BY <1>1, <1>2

(* At the start no file is open but the change file.                       *)
LEMMA InitLafs ==
  ASSUME Init
  PROVE  /\ laf \in [Files -> LaFiles] /\ laf[Chg].la_refs = 2 /\ \A f \in File : laf[f].la_refs = 0
         /\ \A f \in Files : laf[f].la_nlines = 0 /\ laf[f].la_fsrefs = 0
<1>1. laf = [f \in Files |-> IF f = Chg THEN [NewFile EXCEPT !.la_refs = 2] ELSE NewFile]
  BY DEF Init
<1>2. PICK x : x = [NewFile EXCEPT !.la_refs = 2]
  OBVIOUS
<1>3. NewFile \in LaFiles /\ NewFile.la_refs = 0 /\ NewFile.la_nlines = 0 /\ NewFile.la_fsrefs = 0
  BY DEF NewFile, LaFiles
<1>4. x \in LaFiles /\ x.la_refs = 2 /\ x.la_nlines = 0 /\ x.la_fsrefs = 0
  BY <1>2, <1>3 DEF LaFiles
<1>5. Chg \in Files /\ Chg \notin File
  BY NameAssumption DEF Files
<1>6. QED BY <1>1, <1>2, <1>3, <1>4, <1>5 DEF Files

(* At the start every stream is closed but la_blank's.                     *)
LEMMA InitPlaces ==
  ASSUME Init
  PROVE  /\ las \in [Streams -> LaStreams]
         /\ las[Blas].la_file = Chg /\ las[Blas].la_fsline = 0 /\ las[Blas].la_lpos = 0 /\ las[Blas].la_cfsd = Eof
         /\ \A s \in Stream : las[s] = Closed
         /\ \A s \in Stream : las[s].la_file = NoFile
<1>1. las = [s \in Streams |-> IF s = Blas THEN [Closed EXCEPT !.la_file = Chg, !.la_stay = TRUE] ELSE Closed]
  BY DEF Init
<1>2. PICK x : x = [Closed EXCEPT !.la_file = Chg, !.la_stay = TRUE]
  OBVIOUS
<1>3. Closed \in LaStreams /\ Closed.la_file = NoFile /\ Closed.la_fsline = 0 /\ Closed.la_lpos = 0 /\ Closed.la_cfsd = Eof
  BY DEF Closed, LaStreams
<1>6. Chg \in Files
  BY DEF Files
<1>4. x \in LaStreams /\ x.la_file = Chg /\ x.la_fsline = 0 /\ x.la_lpos = 0 /\ x.la_cfsd = Eof
  BY <1>2, <1>3, <1>6 DEF LaStreams
<1>5. Blas \in Streams /\ Blas \notin Stream
  BY NameAssumption DEF Streams
<1>7. QED BY <1>1, <1>2, <1>3, <1>4, <1>5 DEF Streams

(* The books are right at the start.                                       *)
LEMMA InitBooks ==
  ASSUME Init
  PROVE  Books /\ VarTypes
<1>1. /\ chain = [f \in Files |-> << >>] /\ call = NoCall
  BY DEF Init
<1>2. call.new = << >> /\ call.tail = << >> /\ call.cut = << >>
  BY <1>1, NoCallIs
<1>3. \A f \in Files : chain[f] = << >>
  BY <1>1
<1>4. << >> \in Seq(Fsd)
  OBVIOUS
<1>5. VarTypes
  <2>1. chain \in [Files -> Seq(Fsd)]
    BY <1>1, <1>4
  <2>2. QED BY <2>1, InitFsds, InitLafs, InitPlaces DEF VarTypes
<1>6. \A k \in Spot : Lists[k] = << >>
  <2>1. SUFFICES ASSUME NEW k \in Spot PROVE ListsOf(chain, << >>, << >>, << >>)[k] = << >>
    BY <1>2 DEF Lists
  <2>2. CASE \E f \in Files : k = << 0, f >>
    BY <2>2, <1>3, ListsAre
  <2>3. CASE k \in {<< 1, NoFile >>, << 2, NoFile >>, << 3, NoFile >>}
    BY <2>3, ListsAre
  <2>4. QED BY <2>2, <2>3, SpotsAre
<1>7. \A k \in Spot : Inj(Lists[k]) /\ Elems(Lists[k]) = {}
  BY <1>6, EmptyIs
<1>8. Placing(fsd, Lists)
  BY <1>7, InitFsds DEF Placing, Apart, Used
<1>9. Lined(fsd)
  BY InitFsds DEF Lined
<1>10. Numbered
  BY <1>3, EmptyIs, InitLafs DEF Numbered
<1>11. Shut
  BY <1>3 DEF Shut, Files
<1>12. Chg \in Files /\ Chg # NoFile
  BY NameAssumption DEF Files
<1>13. InChain(fsd, << >>, las[Blas])
  <2>1. Width(fsd, Eof) = 1
    BY DEF Width
  <2>3. Sums(fsd, << >>)[1 - 1] = 0
    BY EmptyIs
  <2>2. IsAt(fsd, << >>, las[Blas], 1)
    BY <2>1, <2>3, EmptyIs, InitPlaces DEF IsAt
  <2>4. 1 \in 1 .. Len(<< >>) + 1
    OBVIOUS
  <2>5. QED BY <2>2, <2>4 DEF InChain
<1>14. Placed
  <2>1. SUFFICES ASSUME NEW s \in Streams
                 PROVE IF Open(s) THEN InChain(fsd, chain[las[s].la_file], las[s]) ELSE las[s] = Closed
    BY DEF Placed
  <2>2. CASE s = Blas
    <3>1. Open(s) /\ chain[las[s].la_file] = << >>
      BY <2>2, <1>3, <1>12, InitPlaces DEF Open
    <3>2. QED BY <3>1, <2>2, <1>13
  <2>3. CASE s \in Stream
    <3>1. ~ Open(s) /\ las[s] = Closed
      BY <2>3, InitPlaces DEF Open
    <3>2. QED BY <3>1
  <2>4. QED BY <2>2, <2>3 DEF Streams
<1>15. Refs
  <2>1. ASSUME NEW f \in File PROVE At1(f) = {}
    BY InitPlaces, NameAssumption DEF At1
  <2>2. IsFiniteSet({}) /\ Cardinality({}) = 0
    BY FS_EmptySet
  <2>3. \A s \in Stream : las[s].la_file # Chg
    BY <1>12, InitPlaces
  <2>4. QED BY <2>1, <2>2, <2>3, InitLafs DEF Refs
<1>16. FsrefsExact
  <2>1. SUFFICES ASSUME NEW f \in Files PROVE laf[f].la_fsrefs = Cardinality({d \in Fsd : fsd[d].fsdfile = f})
    BY DEF FsrefsExact
  <2>2. {d \in Fsd : fsd[d].fsdfile = f} = {}
    BY InitFsds, FilesAre
  <2>3. Cardinality({}) = 0
    BY FS_EmptySet
  <2>4. QED BY <2>2, <2>3, InitLafs
<1>17. Filler
  BY <1>3, <1>12, InitPlaces DEF Filler
<1>18. QED BY <1>5, <1>8, <1>9, <1>10, <1>11, <1>14, <1>15, <1>16, <1>17 DEF Books

(* The invariant holds at the start.                                       *)
LEMMA InitInv == Init => IInv
<1> SUFFICES ASSUME Init PROVE IInv
  OBVIOUS
<1>1. Books /\ VarTypes
  BY InitBooks
<1>2. call = NoCall /\ chg = << >> /\ coll = [on |-> FALSE, chgpos |-> 0, nxchgpos |-> 0]
  BY DEF Init
<1>3. call \in Calls /\ Over
  BY <1>2, NoCallIs DEF Over, Nothing, Loose
<1>4. chg \in Seq(Line) /\ coll \in [on : BOOLEAN, chgpos : Nat, nxchgpos : Nat] /\ Collected
  BY <1>2 DEF Collected
<1>5. TypeOK
  BY <1>1, <1>3, <1>4 DEF TypeOK, VarTypes
<1>6. InStore
  BY InitFsds DEF InStore
<1>7. Script /\ Who /\ Stage /\ NeverAbort
  BY <1>3, OverIs
<1>8. QED BY <1>1, <1>4, <1>5, <1>6, <1>7 DEF IInv, Base

(* Every step. *)
LEMMA BreakStepNext ==
  ASSUME IInv, BreakStep
  PROVE  IInv'
<1>1. ASSUME NEW s \in Stream, call.p = s, ZBreak("zp", s) PROVE IInv'
  BY <1>1, ZpNext
<1>2. ASSUME NEW s \in Stream, call.d = s, ZBreak("zd", s) PROVE IInv'
  BY <1>2, ZdNext
<1>3. ASSUME NEW s \in Stream, ZBreakFails("zp", s) \/ ZBreakFails("zd", s) PROVE IInv'
  BY <1>3, ZBreakFailsNext
<1>4. QED BY <1>1, <1>2, <1>3, BreakNext, BreakFailsNext, BreakEndNext, BreakEndFailsNext DEF BreakStep

(* Every step of describing lines keeps the invariant.                     *)
LEMMA ParseStepNext ==
  ASSUME IInv, ParseStep
  PROVE  IInv'
BY ParseEndNext, ParseFailsNext, ParseFsdNext DEF ParseStep

(* Every step of inserting and replacing keeps the invariant.              *)
LEMMA InsertStepNext ==
  ASSUME IInv, InsertStep
  PROVE  IInv'
BY BeginInsertNext, BeginReplaceNext, WriteNext, WriteFailsNext, LinkNewNext DEF InsertStep

(* Every step of deleting keeps the invariant.                             *)
LEMMA DeleteStepNext ==
  ASSUME IInv, DeleteStep
  PROVE  IInv'
BY BeginDeleteNext, DeleteNext, DeleteTooLongNext, UnlinkNext, PlaceNext, BackNext DEF DeleteStep

(* Every step of copying keeps the invariant.                              *)
LEMMA CopyStepNext ==
  ASSUME IInv, ~ SameFsdCopy, CopyStep
  PROVE  IInv'
BY BeginCopyNext, CopyHeadNext, CopyTailNext, CopyFsdNext, CopyLastNext, WalkEndNext, CopyFailsNext, LinkCopyNext DEF CopyStep

(* Every step of la_blank keeps the invariant.                             *)
LEMMA BlankStepNext ==
  ASSUME IInv, BlankStep
  PROVE  IInv'
BY BeginBlankNext, MakeBlanksNext, HaveBlanksNext, BlanksFailNext, ChunkNext DEF BlankStep

(* Every step of a collection keeps the invariant.                         *)
LEMMA CollectStepNext ==
  ASSUME IInv, CollectStep
  PROVE  IInv'
BY TCollectNext, LCollectNext, LCollectFailsNext, BeginCollectNext, CollectFitsNext, CollectTooLongNext, CollectReturnNext
   DEF CollectStep

(* Everything callers do between edits keeps the invariant.                *)
LEMMA StreamStepNext ==
  ASSUME IInv, ~ CloseShared, StreamStep
  PROVE  IInv'
<1>1. ASSUME NEW s \in Stream, Open(s), NEW n \in 0 .. laf[las[s].la_file].la_nlines + 1, LSeek(s, n) PROVE IInv'
  <2>1. n \in Int
    OBVIOUS
  <2>2. QED BY <1>1, <2>1, LSeekNext
<1>2. ASSUME NEW s \in Stream, CloseStream(s) \/ CloseFile(s) \/ \E b \in Stays : Stay(s, b) PROVE IInv'
  BY <1>2, CloseStreamNext, CloseFileNext, StayNext
<1>3. ASSUME NEW s \in Stream, NEW t \in Stream, Clone(t, s) \/ Align(t, s) PROVE IInv'
  BY <1>3, CloneNext, AlignNext
<1>4. ASSUME NEW s \in Stream, NEW f \in File, BeginOpen(s, f) PROVE IInv'
  BY <1>4, BeginOpenNext
<1>5. ASSUME NEW s \in Stream, NEW n \in Reserves, SetRlines(s, n) PROVE IInv'
  BY <1>5, SetRlinesNext
<1>6. QED BY <1>1, <1>2, <1>3, <1>4, <1>5, OpenReturnNext DEF StreamStep

(* Every step, and none, keeps the invariant.                              *)
LEMMA NextInv == IInv /\ ~ SameFsdCopy /\ ~ CloseShared /\ [Next]_vars => IInv'
<1> SUFFICES ASSUME IInv, ~ SameFsdCopy, ~ CloseShared, [Next]_vars PROVE IInv'
  OBVIOUS
<1>1. CASE UNCHANGED vars
  BY <1>1, StutterNext
<1>2. CASE Next
  BY <1>2, BreakStepNext, ParseStepNext, InsertStepNext, DeleteStepNext, CopyStepNext, BlankStepNext, CollectStepNext,
     StreamStepNext, ReturnNext DEF Next
<1>3. QED BY <1>1, <1>2

(* The invariant is one: whatever callers ask for, in any order, for any   *)
(* number of files, streams, fsds and lines, and whatever fails.           *)
THEOREM Invariance == ~ SameFsdCopy /\ ~ CloseShared => (Spec => []IInv)
<1> SUFFICES ASSUME ~ SameFsdCopy, ~ CloseShared PROVE Spec => []IInv
  OBVIOUS
<1>1. IInv /\ [Next]_vars => IInv'
  BY NextInv
<1>2. QED BY <1>1, InitInv, PTL DEF Spec

-----------------------------------------------------------------------------
(* What follows from it.                                                   *)

(* Every variable of LA always holds a value of its type; no operation     *)
(* takes la_fsrefs, la_nlines or a line number below zero.                 *)
THEOREM Typed == ~ SameFsdCopy /\ ~ CloseShared => (Spec => []TypeOK)
<1> SUFFICES ASSUME ~ SameFsdCopy, ~ CloseShared PROVE Spec => []TypeOK
  OBVIOUS
<1>1. IInv => TypeOK
  BY DEF IInv, Base
<1>2. QED BY <1>1, Invariance, PTL

(* la_fsrefs of a file is always the number of fsds, in whatever chain,    *)
(* that describe lines of it, so that la_close lets go of a file exactly   *)
(* when none does.                                                         *)
THEOREM FsrefsCounted == ~ SameFsdCopy /\ ~ CloseShared => (Spec => []FsrefsExact)
<1> SUFFICES ASSUME ~ SameFsdCopy, ~ CloseShared PROVE Spec => []FsrefsExact
  OBVIOUS
<1>1. IInv => FsrefsExact
  BY DEF IInv, Base, Books
<1>2. QED BY <1>1, Invariance, PTL

(* la_lcopy never calls la_abort ("lacopy last fsd null", lalcopy.c:99)    *)
(* nor runs off the end of the chain: the fsds it walks over, and the last *)
(* one it has made, are always what is left to copy.                       *)
THEOREM NeverAborts == ~ SameFsdCopy /\ ~ CloseShared => (Spec => []NeverAbort)
<1> SUFFICES ASSUME ~ SameFsdCopy, ~ CloseShared PROVE Spec => []NeverAbort
  OBVIOUS
<1>1. IInv => NeverAbort
  BY DEF IInv
<1>2. QED BY <1>1, Invariance, PTL

(* The invariant implies Consistent.                                       *)
LEMMA InvConsistent == IInv => Consistent
<1> SUFFICES ASSUME IInv PROVE Consistent
  OBVIOUS
<1>1. TypeOK /\ Books /\ VarTypes
  BY InvParts
<1>2. ASSUME NEW f \in Files PROVE laf[f].la_nlines = Count(chain[f])
  BY <1>1, CountIs DEF Books, Numbered
<1>3. ASSUME NEW s \in Streams, Open(s)
      PROVE  LET x == las[s]
                 ds == chain[x.la_file]
             IN  /\ IsOpen(x.la_file)
                 /\ x.la_cfsd # Eof => \E i \in DOMAIN ds : ds[i] = x.la_cfsd
                 /\ x.la_cfsd # Eof => x.la_fsline < fsd[x.la_cfsd].fsdnlines
                 /\ x.la_cfsd = Eof => x.la_fsline = 0
                 /\ Here(x) = x.la_lpos
  <2>1. PICK x : x = las[s]
    OBVIOUS
  <2>2. PICK ds : ds = chain[x.la_file]
    OBVIOUS
  <2>3. x \in LaStreams /\ InChain(fsd, ds, x) /\ Chained(fsd, ds) /\ PlaceFacts(fsd, ds, x)
    BY <1>1, <1>3, <2>1, <2>2, StreamIs, StreamHas
  <2>4. IsOpen(x.la_file)
    <3>1. CASE s = Blas
      <4>1. x.la_file = Chg /\ laf[Chg].la_refs = 2
        BY <1>1, <2>1, <3>1 DEF Books, Filler, Refs
      <4>2. QED BY <4>1 DEF IsOpen
    <3>2. CASE s \in Stream
      BY <1>1, <1>3, <2>1, <3>2, OpenIs
    <3>3. QED BY <3>1, <3>2 DEF Streams
  <2>5. x.la_cfsd # Eof => x.la_cfsd \in Elems(ds) /\ x.la_fsline < fsd[x.la_cfsd].fsdnlines
    BY <2>3 DEF PlaceFacts
  <2>6. x.la_cfsd \in Elems(ds) => \E i \in DOMAIN ds : ds[i] = x.la_cfsd
    BY <2>3 DEF Elems, Chained
  <2>7. x.la_cfsd = Eof => x.la_fsline = 0
    BY <2>3 DEF PlaceFacts, Broken
  <2>8. Before(ds, x.la_cfsd) + x.la_fsline = x.la_lpos
    BY <1>1, <2>3, HereIs DEF Chained, VarTypes
  <2>9. Here(x) = x.la_lpos
    BY <2>2, <2>8 DEF Here
  <2>10. QED BY <2>1, <2>2, <2>4, <2>5, <2>6, <2>7, <2>9
<1>4. QED BY <1>2, <1>3 DEF Consistent

(* la_nlines is always the number of lines in the chain, and every stream  *)
(* is in the chain of its file at the line its la_lpos says, whatever      *)
(* other streams broke, linked and unlinked there.                         *)
THEOREM Consistency == ~ SameFsdCopy /\ ~ CloseShared => (Spec => []Consistent)
<1> SUFFICES ASSUME ~ SameFsdCopy, ~ CloseShared PROVE Spec => []Consistent
  OBVIOUS
<1>1. QED BY InvConsistent, Invariance, PTL

(* The places of an fsd in a chain without repetitions.                    *)
LEMMA HeldIs ==
  ASSUME NEW ds \in Seq(Fsd), Inj(ds), NEW w, NEW d
  PROVE  /\ d \notin Elems(ds) => Held(w, ds, d) = {}
         /\ \A i \in 1 .. Len(ds) : ds[i] = d => Held(w, ds, d) = {<< w, i >>}
<1>1. DOMAIN ds = 1 .. Len(ds)
  OBVIOUS
<1>2. d \notin Elems(ds) => {j \in DOMAIN ds : ds[j] = d} = {}
  BY <1>1 DEF Elems
<1>3. ASSUME NEW i \in 1 .. Len(ds), ds[i] = d PROVE {j \in DOMAIN ds : ds[j] = d} = {i}
  BY <1>1, <1>3 DEF Inj
<1>4. QED BY <1>2, <1>3 DEF Held

(* The invariant implies OneChain.                                         *)
LEMMA InvOneChain == IInv => OneChain
<1> SUFFICES ASSUME IInv, NEW d \in Fsd
             PROVE  /\ Cardinality(Holders(d)) = IF d \in Free THEN 0 ELSE 1
                    /\ d \notin Free => fsd[d].fsdnlines \in 1 .. LA_FSDLMAX
  BY DEF OneChain
<1>1. TypeOK /\ Books
  BY InvParts
<1>2. PICK L : L = Lists
  OBVIOUS
<1>3. Apart(L) /\ Used(fsd, L) /\ Lined(fsd) /\ \A k \in Spot : L[k] \in Seq(Fsd)
  BY <1>1, <1>2, ListsIn DEF Books, Placing, InFsd
<1>4. /\ \A f \in Files : L[<< 0, f >>] = chain[f]
      /\ L[<< 1, NoFile >>] = call.new /\ L[<< 2, NoFile >>] = call.tail /\ L[<< 3, NoFile >>] = call.cut
  BY <1>2, ListsAre DEF Lists
<1>5. d \in Free <=> fsd[d].fsdfile = NoFile
  BY DEF Free
<1>6. \A k \in Spot : \A w : /\ d \notin Elems(L[k]) => Held(w, L[k], d) = {}
                            /\ \A i \in 1 .. Len(L[k]) : L[k][i] = d => Held(w, L[k], d) = {<< w, i >>}
  BY <1>3, HeldIs DEF Apart
<1> DEFINE Of(k) == IF k[1] = 0 THEN Held(k[2], L[k], d)
                    ELSE IF k[1] = 1 THEN Held("new", L[k], d)
                    ELSE IF k[1] = 2 THEN Held("tail", L[k], d) ELSE Held("cut", L[k], d)
<1>7. Holders(d) = UNION {Of(k) : k \in Spot}
  <2>1. \A f \in Files : Of(<< 0, f >>) = Held(f, chain[f], d)
    BY <1>4
  <2>2. /\ Of(<< 1, NoFile >>) = Held("new", call.new, d) /\ Of(<< 2, NoFile >>) = Held("tail", call.tail, d)
        /\ Of(<< 3, NoFile >>) = Held("cut", call.cut, d)
    BY <1>4
  <2> HIDE DEF Of
  <2>3. ASSUME NEW h \in Holders(d) PROVE \E k \in Spot : h \in Of(k)
    <3>1. CASE \E f \in Files : h \in Held(f, chain[f], d)
      BY <3>1, <2>1, SpotsAre, ZenonT(45)
    <3>2. CASE h \in Held("new", call.new, d) \/ h \in Held("tail", call.tail, d) \/ h \in Held("cut", call.cut, d)
      BY <3>2, <2>2, SpotsAre
    <3>3. QED BY <2>3, <3>1, <3>2 DEF Holders
  <2>4. ASSUME NEW k \in Spot, NEW h \in Of(k) PROVE h \in Holders(d)
    <3>1. CASE \E f \in Files : k = << 0, f >>
      BY <2>4, <3>1, <2>1 DEF Holders
    <3>2. CASE k \in {<< 1, NoFile >>, << 2, NoFile >>, << 3, NoFile >>}
      BY <2>4, <3>2, <2>2 DEF Holders
    <3>3. QED BY <3>1, <3>2, SpotsAre
  <2>5. QED BY <2>3, <2>4
<1>8. \A k \in Spot : d \notin Elems(L[k]) => Of(k) = {}
  BY <1>6
<1>9. \A k \in Spot : \A i \in 1 .. Len(L[k]) : L[k][i] = d => \E h : Of(k) = {h}
  BY <1>6, ZenonT(45)
<1> HIDE DEF Of
<1>10. CASE fsd[d].fsdfile = NoFile
  <2>1. \A k \in Spot : d \notin Elems(L[k])
    BY <1>3, <1>10 DEF Used
  <2>2. Holders(d) = {}
    BY <1>7, <1>8, <2>1
  <2>3. QED BY <1>5, <1>10, <2>2, FS_EmptySet
<1>11. CASE fsd[d].fsdfile # NoFile
  <2>1. PICK k \in Spot : d \in Elems(L[k])
    BY <1>3, <1>11 DEF Used
  <2>2. PICK i \in 1 .. Len(L[k]) : L[k][i] = d
    BY <2>1 DEF Elems
  <2>3. PICK h : Of(k) = {h}
    BY <1>9, <2>2
  <2>4. \A l \in Spot : l # k => d \notin Elems(L[l])
    BY <1>3, <2>1 DEF Apart
  <2>5. \A l \in Spot : l # k => Of(l) = {}
    BY <1>8, <2>4
  <2>6. Holders(d) = {h}
    BY <1>7, <2>3, <2>5
  <2>7. Cardinality({h}) = 1
    BY FS_Singleton
  <2>8. fsd[d].fsdnlines \in 1 .. LA_FSDLMAX
    BY <1>3, <1>11 DEF Lined
  <2>9. QED BY <1>5, <1>11, <2>6, <2>7, <2>8
<1>12. QED BY <1>10, <1>11

(* An fsd that is in use is always in exactly one place, and one that was  *)
(* freed in none: nothing leaks and nothing is freed twice, whatever       *)
(* fails.                                                                  *)
THEOREM OnePlace == ~ SameFsdCopy /\ ~ CloseShared => (Spec => []OneChain)
<1> SUFFICES ASSUME ~ SameFsdCopy, ~ CloseShared PROVE Spec => []OneChain
  OBVIOUS
<1>1. QED BY InvOneChain, Invariance, PTL

-----------------------------------------------------------------------------
(* What is true of the texts: the lines being collected, and the files     *)
(* that nothing was done to.                                               *)

(* An fsd after a step that is part of one there was before it; and one    *)
(* that cannot disturb Uncollected.                                        *)
Part(d) == \E e \in Fsd : /\ fsd[e].fsdfile = Chg /\ fsd[e].fsdpos <= fsd'[d].fsdpos
                          /\ fsd'[d].fsdpos + fsd'[d].fsdnlines <= fsd[e].fsdpos + fsd[e].fsdnlines
                          /\ (Spared(e) => Spared(d)')
Given(d) == ~ coll.on \/ Part(d) \/ Out(coll, fsd'[d].fsdpos, fsd'[d].fsdnlines) \/ Spared(d)'

(* Uncollected is kept when every fsd of the change file is part of one    *)
(* there was, or is apart from what is being collected.                    *)
LEMMA UncollectedStep ==
  ASSUME Uncollected, CollType, fsd \in [Fsd -> Fsds], fsd' \in [Fsd -> Fsds], coll' = coll \/ coll'.on = FALSE,
         \A d \in Fsd : fsd'[d].fsdfile = Chg => Given(d)
  PROVE  Uncollected'
<1>1. CASE coll'.on = FALSE
  BY <1>1 DEF Uncollected
<1>2. CASE coll' = coll /\ coll.on # FALSE
  <2>1. coll.on /\ coll.nxchgpos \in Nat /\ coll.chgpos \in Nat
    BY <1>2 DEF CollType
  <2>2. SUFFICES ASSUME NEW d \in Fsd, fsd'[d].fsdfile = Chg
                 PROVE  Out(coll, fsd'[d].fsdpos, fsd'[d].fsdnlines) \/ Spared(d)'
    BY <1>2 DEF Uncollected
  <2>3. CASE Part(d)
    <3>1. PICK e \in Fsd : /\ fsd[e].fsdfile = Chg /\ fsd[e].fsdpos <= fsd'[d].fsdpos
                           /\ fsd'[d].fsdpos + fsd'[d].fsdnlines <= fsd[e].fsdpos + fsd[e].fsdnlines
                           /\ (Spared(e) => Spared(d)')
      BY <2>3 DEF Part
    <3>2. Out(coll, fsd[e].fsdpos, fsd[e].fsdnlines) \/ Spared(e)
      BY <2>1, <3>1 DEF Uncollected
    <3>3. CASE Spared(e)
      BY <3>1, <3>3
    <3>4. CASE Out(coll, fsd[e].fsdpos, fsd[e].fsdnlines)
      <4>1. /\ fsd[e].fsdpos \in Nat /\ fsd[e].fsdnlines \in Nat /\ fsd'[d].fsdpos \in Nat /\ fsd'[d].fsdnlines \in Nat
        BY <3>1, <2>2 DEF Fsds
      <4>2. Out(coll, fsd'[d].fsdpos, fsd'[d].fsdnlines)
        BY <4>1, <3>1, <3>4, <2>1 DEF Out
      <4>3. QED BY <4>2
    <3>5. QED BY <3>2, <3>3, <3>4
  <2>4. QED BY <2>1, <2>2, <2>3 DEF Given
<1>3. QED BY <1>1, <1>2

(* What is as it was. *)
LEMMA GivenSame ==
  ASSUME fsd \in [Fsd -> Fsds], NEW d \in Fsd, fsd[d].fsdfile = Chg, fsd'[d] = fsd[d], Spared(d) => Spared(d)'
  PROVE  Given(d)
<1>1. fsd[d].fsdpos \in Nat /\ fsd[d].fsdnlines \in Nat
  BY DEF Fsds
<1>2. QED BY <1>1 DEF Given, Part

(* Uncollected is kept when no fsd changes.                                *)
LEMMA USame ==
  ASSUME Uncollected, CollType, fsd \in [Fsd -> Fsds], fsd' = fsd, coll' = coll \/ coll'.on = FALSE,
         \A d \in Fsd : Spared(d) => Spared(d)'
  PROVE  Uncollected'
<1>1. \A d \in Fsd : fsd'[d].fsdfile = Chg => Given(d)
  BY GivenSame
<1>2. QED BY <1>1, UncollectedStep

(* Lines that are freed. *)
LEMMA UFreed ==
  ASSUME Uncollected, CollType, fsd \in [Fsd -> Fsds], fsd' \in [Fsd -> Fsds], coll' = coll \/ coll'.on = FALSE,
         \A d \in Fsd : fsd'[d].fsdfile # NoFile => fsd'[d] = fsd[d] /\ (Spared(d) => Spared(d)')
  PROVE  Uncollected'
<1>1. Chg # NoFile
  BY NameAssumption
<1>2. \A d \in Fsd : fsd'[d].fsdfile = Chg => Given(d)
  BY <1>1, GivenSame
<1>3. QED BY <1>2, UncollectedStep

(* A step that only changes what is left to do. *)
Steers == /\ call.todo # << >> /\ call'.op = call.op /\ call'.bad = call.bad /\ call'.pos = call.pos
          /\ call.op = "collect" => call'.new = call.new \/ call'.todo = << >>

(* What such a step leaves alone.                                          *)
LEMMA SteersIs ==
  ASSUME Steers
  PROVE  /\ \A d \in Fsd : Spared(d) => Spared(d)'
         /\ chg' = chg /\ Appending => Appending'
         /\ call.op # "open" => Reading'
<1>1. \A d \in Fsd : Spared(d) => Spared(d)'
  BY DEF Steers, Spared
<1>2. chg' = chg /\ Appending => Appending'
  BY DEF Steers, Appending
<1>3. call.op # "open" => Reading'
  BY DEF Steers, Reading
<1>4. QED BY <1>1, <1>2, <1>3

-----------------------------------------------------------------------------
(* Files as they are on disk. *)
LEMMA StraightSame ==
  ASSUME NEW m \in [Fsd -> Fsds], NEW m2 \in [Fsd -> Fsds], NEW ds, ds \in Seq(Fsd), NEW f,
         \A d \in Elems(ds) : m2[d] = m[d]
  PROVE  /\ Straight(m, ds, f) => Straight(m2, ds, f)
         /\ Size(m2, ds) = Size(m, ds)
<1>1. \A i \in 1 .. Len(ds) : m2[ds[i]] = m[ds[i]]
  BY DEF Elems
<1>2. SameLines(m, m2, ds)
  BY <1>1 DEF SameLines
<1>3. Sums(m2, ds) = Sums(m, ds) /\ Size(m2, ds) = Size(m, ds)
  BY <1>2, SameChain DEF Alias
<1>4. QED BY <1>1, <1>3 DEF Straight

(* Untouched is kept when no file that is not marked as modified changes.  *)
LEMMA TFrame ==
  ASSUME fsd \in [Fsd -> Fsds], fsd' \in [Fsd -> Fsds], \A f \in Files : chain[f] \in Seq(Fsd), Untouched,
         \A f \in File : IsOpen(f)' /\ ~ laf'[f].la_mode =>
           /\ IsOpen(f) /\ ~ laf[f].la_mode /\ chain'[f] = chain[f]
           /\ \A d \in Elems(chain[f]) : fsd'[d] = fsd[d]
  PROVE  Untouched'
<1>1. SUFFICES ASSUME NEW f \in File, IsOpen(f)', ~ laf'[f].la_mode
               PROVE  Whole(fsd', chain'[f], f)
  BY DEF Untouched
<1>2. Whole(fsd, chain[f], f) /\ chain'[f] = chain[f] /\ \A d \in Elems(chain[f]) : fsd'[d] = fsd[d]
  BY <1>1 DEF Untouched
<1>3. f \in Files
  BY DEF Files
<1>4. PICK ds : ds = chain[f]
  OBVIOUS
<1>5. ds \in Seq(Fsd) /\ \A d \in Elems(ds) : fsd'[d] = fsd[d]
  BY <1>2, <1>3, <1>4
<1>6. (Straight(fsd, ds, f) => Straight(fsd', ds, f)) /\ Size(fsd', ds) = Size(fsd, ds)
  BY <1>5, StraightSame
<1>7. QED BY <1>2, <1>4, <1>6 DEF Whole

-----------------------------------------------------------------------------
(* la_break. *)
LEMMA BreakStraight ==
  ASSUME NEW m \in [Fsd -> Fsds], NEW ds \in Seq(Fsd), Inj(ds), NEW m2 \in [Fsd -> Fsds],
         NEW i \in 1 .. Len(ds), NEW k, NEW e, NEW es, BreakOf(m, ds, i, k, e, m2, es),
         m2[ds[i]].fsdfile = m[ds[i]].fsdfile, m2[ds[i]].fsdpos = m[ds[i]].fsdpos,
         m2[e].fsdfile = m[ds[i]].fsdfile, m2[e].fsdpos = m[ds[i]].fsdpos + k,
         \A z \in Fsd : z # ds[i] /\ z # e => m2[z] = m[z],
         NEW f, Straight(m, ds, f)
  PROVE  Straight(m2, es, f) /\ Size(m2, es) = Size(m, ds)
<1>1. InTwo(m, ds, i, k, e, m2, es)
  BY InTwoIs
<1>2. Len(ds) \in Nat /\ Len(es) = Len(ds) + 1 /\ i >= 1 /\ i <= Len(ds)
  BY <1>1 DEF InTwo
<1>3. Size(m2, es) = Size(m, ds)
  <2>1. Len(ds) \in i .. Len(ds)
    BY <1>2
  <2>2. Sums(m2, es)[Len(ds) + 1] = Sums(m, ds)[Len(ds)]
    BY <1>1, <2>1 DEF InTwo
  <2>3. QED BY <2>2, <1>2 DEF Size
<1>4. \A q \in 1 .. Len(ds) : ds[q] \in Fsd /\ ds[q] # e /\ (q # i => ds[q] # ds[i])
  BY DEF BreakOf, Elems, Inj
<1>5. \A q \in 1 .. Len(ds) : m[ds[q]].fsdfile = f /\ m[ds[q]].fsdpos = Sums(m, ds)[q - 1]
  BY DEF Straight
<1>6. ASSUME NEW q \in 1 .. Len(es)
      PROVE  m2[es[q]].fsdfile = f /\ m2[es[q]].fsdpos = Sums(m2, es)[q - 1]
  <2>1. CASE q < i
    <3>1. q \in 1 .. i /\ q \in 1 .. Len(ds) /\ q - 1 \in 0 .. i - 1 /\ q # i
      BY <2>1, <1>2
    <3>2. es[q] = ds[q] /\ Sums(m2, es)[q - 1] = Sums(m, ds)[q - 1]
      BY <3>1, <1>1 DEF InTwo
    <3>3. m2[ds[q]] = m[ds[q]]
      BY <3>1, <1>4
    <3>4. QED BY <3>1, <3>2, <3>3, <1>5
  <2>2. CASE q = i
    <3>1. q \in 1 .. i /\ q - 1 \in 0 .. i - 1
      BY <2>2, <1>2
    <3>2. es[q] = ds[q] /\ Sums(m2, es)[q - 1] = Sums(m, ds)[q - 1]
      BY <3>1, <1>1 DEF InTwo
    <3>3. QED BY <2>2, <3>2, <1>5
  <2>3. CASE q = i + 1
    <3>1. es[q] = e /\ Sums(m2, es)[i] = Sums(m, ds)[i - 1] + k
      BY <2>3, <1>1 DEF InTwo
    <3>2. q - 1 = i
      BY <2>3, <1>2
    <3>3. QED BY <3>1, <3>2, <1>5
  <2>4. CASE q > i + 1
    <3>1. PICK r \in i + 1 .. Len(ds) : q = r + 1
      <4>1. q - 1 \in i + 1 .. Len(ds) /\ q = (q - 1) + 1
        BY <2>4, <1>2
      <4>2. QED BY <4>1
    <3>2. r \in 1 .. Len(ds) /\ r # i /\ r - 1 \in i .. Len(ds) /\ (r - 1) + 1 = r /\ q - 1 = r
      BY <3>1, <1>2
    <3>3. es[q] = ds[r] /\ Sums(m2, es)[(r - 1) + 1] = Sums(m, ds)[r - 1]
      BY <3>1, <3>2, <1>1 DEF InTwo
    <3>4. m2[ds[r]] = m[ds[r]]
      BY <3>2, <1>4
    <3>5. QED BY <3>2, <3>3, <3>4, <1>5
  <2>5. QED BY <2>1, <2>2, <2>3, <2>4, <1>2
<1>7. QED BY <1>3, <1>6 DEF Straight

(* la_break keeps Uncollected and Untouched: the two fsds describe the     *)
(* lines of the one, in the same order.                                    *)
LEMMA BreakTexts ==
  ASSUME TypeOK, Books, CollType, Uncollected, Untouched, NEW x, BreakArgs(x), BreakAt(x),
         coll' = coll, Steers, call'.new = call.new
  PROVE  Uncollected' /\ Untouched'
<1>0. VarTypes
  BY TypesAre
<1>1. PICK f, ds, i, d, k, w, e : BreakDoes(x, f, ds, i, d, k, w, e)
  BY BreakDoesIs
<1>2. /\ f \in Files /\ ds = chain[f] /\ i \in 1 .. Len(ds) /\ d = ds[i] /\ d \in Fsd /\ e \in Fsd /\ d # e /\ e = Fresh
      /\ fsd[e].fsdfile = NoFile /\ k \in Nat /\ w \in Nat /\ 0 < k /\ k < w /\ w = fsd[d].fsdnlines
      /\ fsd' \in [Fsd -> Fsds]
      /\ fsd'[d] = [fsdfile |-> fsd[d].fsdfile, fsdpos |-> fsd[d].fsdpos, fsdnlines |-> k]
      /\ fsd'[e] = [fsdfile |-> fsd[d].fsdfile, fsdpos |-> fsd[d].fsdpos + k, fsdnlines |-> w - k]
      /\ \A z \in Fsd : z # d /\ z # e => fsd'[z] = fsd[z]
      /\ chain'[f] = InsertAt(ds, i + 1, e)
      /\ \A g \in Files : g # f => chain'[g] = chain[g]
      /\ OneMore(fsd[d].fsdfile) /\ fsd[d].fsdfile \in Files
  BY <1>1 DEF BreakDoes, OneMore
<1>3. fsd \in [Fsd -> Fsds] /\ \A g \in Files : chain[g] \in Seq(Fsd)
  BY <1>0 DEF VarTypes
<1>4. Chained(fsd, ds) /\ d \in Elems(ds)
  BY <1>2, ChainsAre DEF Elems
<1>5. Free # {}
  BY DEF BreakAt
<1>6. /\ \A g \in Files : e \notin Elems(chain[g])
      /\ e \notin Elems(call.new)
  BY <1>2, <1>5, FreshOut
<1>7. /\ d \notin Elems(call.new) /\ \A g \in Files : g # f => d \notin Elems(chain[g])
  BY <1>2, <1>4, ChainsApart DEF Disjoint
<1>8. \A z \in Fsd : Spared(z) => Spared(z)'
  BY SteersIs
<1>9. Uncollected'
  <2>1. fsd[d].fsdpos \in Nat
    BY <1>2, <1>3 DEF Fsds
  <2>2. ~ Spared(d)
    BY <1>7 DEF Spared, Steers
  <2>3. ASSUME NEW z \in Fsd, fsd'[z].fsdfile = Chg PROVE Given(z)
    <3>1. CASE z = d
      <4>1. fsd[d].fsdfile = Chg /\ fsd'[z].fsdpos = fsd[d].fsdpos /\ fsd'[z].fsdnlines = k
        BY <2>3, <3>1, <1>2
      <4>2. d \in Fsd /\ k \in Nat /\ w \in Nat /\ 0 < k /\ k < w /\ fsd[d].fsdnlines = w
        BY <1>2
      <4>3. /\ fsd[d].fsdpos <= fsd'[z].fsdpos
            /\ fsd'[z].fsdpos + fsd'[z].fsdnlines <= fsd[d].fsdpos + fsd[d].fsdnlines
        BY <4>1, <4>2, <2>1
      <4>4. Spared(d) => Spared(z)'
        BY <2>2
      <4>5. Part(z)
        BY <4>1, <4>2, <4>3, <4>4 DEF Part
      <4>6. QED BY <4>5 DEF Given
    <3>2. CASE z = e
      <4>1. fsd[d].fsdfile = Chg /\ fsd'[z].fsdpos = fsd[d].fsdpos + k /\ fsd'[z].fsdnlines = w - k
        BY <2>3, <3>2, <1>2
      <4>2. d \in Fsd /\ k \in Nat /\ w \in Nat /\ 0 < k /\ k < w /\ fsd[d].fsdnlines = w
        BY <1>2
      <4>3. /\ fsd[d].fsdpos <= fsd'[z].fsdpos
            /\ fsd'[z].fsdpos + fsd'[z].fsdnlines <= fsd[d].fsdpos + fsd[d].fsdnlines
        BY <4>1, <4>2, <2>1
      <4>4. Spared(d) => Spared(z)'
        BY <2>2
      <4>5. Part(z)
        BY <4>1, <4>2, <4>3, <4>4 DEF Part
      <4>6. QED BY <4>5 DEF Given
    <3>3. CASE z # d /\ z # e
      <4>1. fsd'[z] = fsd[z]
        BY <3>3, <1>2
      <4>2. QED BY <4>1, <2>3, <1>3, <1>8, GivenSame
    <3>4. QED BY <3>1, <3>2, <3>3
  <2>4. QED BY <2>3, <1>2, <1>3, UncollectedStep
<1>10. Untouched'
  <2>1. \A g \in Files : laf'[g].la_mode = laf[g].la_mode /\ laf'[g].la_refs = laf[g].la_refs
    BY <1>0, <1>2, OneMoreIs
  <2>2. SUFFICES ASSUME NEW g \in File, IsOpen(g)', ~ laf'[g].la_mode PROVE Whole(fsd', chain'[g], g)
    BY DEF Untouched
  <2>3. g \in Files
    BY DEF Files
  <2>4. IsOpen(g) /\ ~ laf[g].la_mode
    BY <2>1, <2>2, <2>3 DEF IsOpen
  <2>5. Whole(fsd, chain[g], g)
    BY <2>4 DEF Untouched
  <2>6. CASE g = f
    <3>1. PICK es : es = chain'[f]
      OBVIOUS
    <3>2. BreakOf(fsd, ds, i, k, e, fsd', es)
      <4>1. fsd'[ds[i]].fsdnlines = k /\ fsd'[e].fsdnlines = fsd[ds[i]].fsdnlines - k
        BY <1>2
      <4>2. \A z \in Fsd : z # ds[i] /\ z # e => fsd'[z].fsdnlines = fsd[z].fsdnlines
        BY <1>2
      <4>3. e \notin Elems(ds) /\ es = InsertAt(ds, i + 1, e)
        BY <1>2, <1>6, <3>1
      <4>4. QED BY <4>1, <4>2, <4>3, <1>2 DEF BreakOf
    <3>3. ds \in Seq(Fsd) /\ Inj(ds)
      BY <1>4 DEF Chained
    <3>4. Straight(fsd, ds, g)
      BY <2>5, <2>6, <1>2 DEF Whole
    <3>5. /\ fsd'[ds[i]].fsdfile = fsd[ds[i]].fsdfile /\ fsd'[ds[i]].fsdpos = fsd[ds[i]].fsdpos
          /\ fsd'[e].fsdfile = fsd[ds[i]].fsdfile /\ fsd'[e].fsdpos = fsd[ds[i]].fsdpos + k
          /\ \A z \in Fsd : z # ds[i] /\ z # e => fsd'[z] = fsd[z]
      BY <1>2
    <3>6. Straight(fsd', es, g) /\ Size(fsd', es) = Size(fsd, ds)
      <4>1. i \in 1 .. Len(ds) /\ fsd \in [Fsd -> Fsds] /\ fsd' \in [Fsd -> Fsds]
        BY <1>2, <1>3
      <4>2. QED BY <4>1, <3>2, <3>3, <3>4, <3>5, BreakStraight, SMTT(45)
    <3>7. QED BY <3>1, <3>6, <2>5, <2>6, <1>2 DEF Whole
  <2>7. CASE g # f
    <3>1. PICK es : es = chain[g]
      OBVIOUS
    <3>2. es \in Seq(Fsd) /\ chain'[g] = es
      BY <3>1, <2>3, <2>7, <1>2, <1>3
    <3>3. \A z \in Elems(es) : fsd'[z] = fsd[z]
      <4>1. \A z \in Elems(es) : z \in Fsd
        BY <3>2 DEF Elems
      <4>2. d \notin Elems(es) /\ e \notin Elems(es)
        BY <3>1, <2>3, <2>7, <1>6, <1>7
      <4>3. QED BY <4>1, <4>2, <1>2
    <3>4. (Straight(fsd, es, g) => Straight(fsd', es, g)) /\ Size(fsd', es) = Size(fsd, es)
      BY <3>2, <3>3, <1>2, <1>3, StraightSame, ZenonT(45)
    <3>5. QED BY <3>1, <3>2, <3>4, <2>5 DEF Whole
  <2>8. QED BY <2>6, <2>7
<1>11. QED BY <1>9, <1>10

-----------------------------------------------------------------------------

(* What the invariant consists of.                                         *)
LEMMA TextParts ==
  ASSUME JInv
  PROVE  /\ IInv /\ TypeOK /\ Books /\ InStore /\ Collected /\ Script /\ Who /\ Stage /\ VarTypes /\ CollType
         /\ call \in Calls /\ chg \in Seq(Line) /\ Len(chg) \in Nat
         /\ fsd \in [Fsd -> Fsds] /\ (\A f \in Files : chain[f] \in Seq(Fsd))
         /\ Appending /\ Uncollected /\ Reading /\ Untouched
<1>1. IInv /\ Appending /\ Uncollected /\ Reading /\ Untouched
  BY DEF JInv, Text1
<1>2. /\ TypeOK /\ Books /\ InStore /\ Collected /\ Script /\ Who /\ Stage /\ VarTypes /\ call \in Calls
      /\ chg \in Seq(Line) /\ CollType
  BY <1>1, InvParts DEF CollType
<1>3. QED BY <1>1, <1>2 DEF VarTypes

(* What is known of an operation that takes a step other than those of     *)
(* la_open.                                                                *)
LEMMA NotOpening ==
  ASSUME IInv, NEW st, Do(st), st \notin {"parse", "openret"}
  PROVE  call.op # "open" /\ call.op # "none" /\ call.todo # << >> /\ Phase = st
<1>1. call.todo # << >> /\ Phase = st /\ \E y : Leads(st, y)
  BY StepLeads
<1>2. Script /\ call \in Calls
  BY InvParts
<1>3. call.bad => call.op \in {"replace", "blank"}
  BY <1>2 DEF Script
<1>4. call.op # "open" /\ call.op # "none"
  BY <1>1, <1>3 DEF Leads, Cuts, Copying
<1>5. QED BY <1>1, <1>4

(* An operation goes on, and neither fsds nor chains change. *)
LEMMA OnTexts ==
  ASSUME JInv, Steers, call.op # "open", fsd' = fsd, chain' = chain, chg' = chg, coll' = coll,
         \A f \in Files : laf'[f].la_mode = laf[f].la_mode /\ laf'[f].la_refs = laf[f].la_refs
  PROVE  Text1'
<1>0. /\ VarTypes /\ CollType /\ fsd \in [Fsd -> Fsds] /\ (\A f \in Files : chain[f] \in Seq(Fsd))
      /\ Appending /\ Uncollected /\ Untouched
  BY TextParts
<1>1. Appending' /\ Reading'
  BY <1>0, SteersIs
<1>2. Uncollected'
  BY <1>0, SteersIs, USame
<1>3. Untouched'
  <2>1. \A f \in File : IsOpen(f)' /\ ~ laf'[f].la_mode =>
           /\ IsOpen(f) /\ ~ laf[f].la_mode /\ chain'[f] = chain[f]
           /\ \A d \in Elems(chain[f]) : fsd'[d] = fsd[d]
    BY DEF IsOpen, Files
  <2>2. QED BY <2>1, <1>0, TFrame
<1>4. QED BY <1>1, <1>2, <1>3 DEF Text1

(* A step that breaks, or need not, keeps Text1.                           *)
LEMMA BreaksTexts ==
  ASSUME JInv, Steers, call.op # "open", call'.new = call.new, chg' = chg, coll' = coll,
         NoBreak \/ \E x : BreakArgs(x) /\ BreakAt(x)
  PROVE  Text1'
<1>0. /\ TypeOK /\ Books /\ CollType /\ Appending /\ Uncollected /\ Untouched
  BY TextParts
<1>1. CASE NoBreak
  BY <1>1, OnTexts DEF NoBreak
<1>2. CASE \E x : BreakArgs(x) /\ BreakAt(x)
  <2>1. PICK x : BreakArgs(x) /\ BreakAt(x)
    BY <1>2
  <2>2. Uncollected' /\ Untouched'
    BY <2>1, <1>0, BreakTexts
  <2>3. Appending' /\ Reading'
    BY <1>0, SteersIs
  <2>4. QED BY <2>2, <2>3 DEF Text1
<1>3. QED BY <1>1, <1>2

(* Fsds are freed. *)
LEMMA FreeTexts ==
  ASSUME JInv, NEW ds, ds \in Seq(Fsd), FreeChain(ds), chain' = chain, coll' = coll \/ coll'.on = FALSE,
         \A f \in Files : Disjoint(chain[f], ds),
         \A d \in Fsd : d \notin Elems(ds) => (Spared(d) => Spared(d)')
  PROVE  Uncollected' /\ Untouched'
<1>0. /\ TypeOK /\ VarTypes /\ CollType /\ fsd \in [Fsd -> Fsds] /\ (\A f \in Files : chain[f] \in Seq(Fsd))
      /\ Uncollected /\ Untouched
  BY TextParts
<1>1. FreedNow(ds)
  <2>1. \A d : (\E i \in DOMAIN ds : ds[i] = d) <=> d \in Elems(ds)
    <3>1. DOMAIN ds = 1 .. Len(ds)
      OBVIOUS
    <3>2. QED BY <3>1 DEF Elems
  <2>2. fsd' = [d \in Fsd |-> IF d \in Elems(ds) THEN FreeFsd ELSE fsd[d]]
    BY <2>1 DEF FreeChain
  <2>3. QED BY <2>2 DEF FreedNow
<1>2. /\ fsd' \in [Fsd -> Fsds]
      /\ \A d \in Fsd : fsd'[d].fsdfile # NoFile => fsd'[d] = fsd[d]
      /\ \A d \in Fsd : d \notin Elems(ds) => fsd'[d] = fsd[d]
  BY <1>0, <1>1, RestIs DEF Rest
<1>3. \A d \in Elems(ds) : d \in Fsd /\ fsd'[d].fsdfile = NoFile
  <2>1. \A d \in Elems(ds) : d \in Fsd
    BY DEF Elems
  <2>2. \A d \in Elems(ds) : fsd'[d] = FreeFsd
    BY <2>1, <1>1 DEF FreedNow
  <2>3. QED BY <2>1, <2>2 DEF FreeFsd
<1>4. Uncollected'
  BY <1>0, <1>2, <1>3, UFreed
<1>5. Untouched'
  <2>1. \A f \in Files : laf'[f].la_mode = laf[f].la_mode /\ laf'[f].la_refs = laf[f].la_refs
    BY <1>0 DEF FreeChain, VarTypes, LaFiles
  <2>2. \A f \in Files : \A d \in Elems(chain[f]) : d \in Fsd /\ d \notin Elems(ds)
    <3>1. SUFFICES ASSUME NEW f \in Files, NEW d \in Elems(chain[f]) PROVE d \in Fsd /\ d \notin Elems(ds)
      OBVIOUS
    <3>2. PICK es : es = chain[f]
      OBVIOUS
    <3>3. es \in Seq(Fsd) /\ d \in Elems(es)
      BY <1>0, <3>1, <3>2
    <3>4. d \in Fsd
      BY <3>3 DEF Elems
    <3>5. QED BY <3>1, <3>4 DEF Disjoint
  <2>3. \A f \in File : IsOpen(f)' /\ ~ laf'[f].la_mode =>
           /\ IsOpen(f) /\ ~ laf[f].la_mode /\ chain'[f] = chain[f]
           /\ \A d \in Elems(chain[f]) : fsd'[d] = fsd[d]
    BY <2>1, <2>2, <1>2 DEF IsOpen, Files
  <2>4. QED BY <2>3, <1>0, <1>2, TFrame
<1>6. QED BY <1>4, <1>5

(* A failure keeps Text1: what is freed is in no chain, and a collection   *)
(* that fails is dropped.                                                  *)
LEMMA FailTexts ==
  ASSUME JInv, Fail, call.todo # << >>, coll' = coll \/ coll' = Dormant
  PROVE  Text1'
<1>0. /\ Books /\ Who /\ call \in Calls /\ TypeOK
  BY TextParts
<1>1. FreeChain(call.new) /\ chain' = chain /\ las' = las /\ chg' = chg
  BY DEF Fail
<1>2. call.cnt \in Nat /\ call.new \in Seq(Fsd)
  BY <1>0, CallIs
<1>3. call'.op = "none" \/ (call'.op = call.op /\ call'.bad = TRUE /\ call.op \in {"replace", "blank"})
  <2>1. CASE call.cnt = 0
    <3>1. call' = Ended("err")
      BY <2>1 DEF Fail
    <3>2. QED BY <3>1, <1>0, EndedIs
  <2>2. CASE call.cnt # 0
    <3>1. PICK e : e = Ended("ok")
      OBVIOUS
    <3>2. e \in Calls
      BY <3>1, <1>0, EndedIs
    <3>3. PICK q : q = IF call.op = "blank" THEN call.d ELSE call.p
      OBVIOUS
    <3>4. call' = [e EXCEPT !.op = call.op, !.todo = Undo, !.n = call.cnt, !.p = q, !.cnt = call.cnt, !.bad = TRUE, !.was = call.was]
      BY <2>2, <3>1, <3>3 DEF Fail
    <3>5. call'.op = call.op /\ call'.bad = TRUE
      BY <3>2, <3>4 DEF Calls
    <3>6. call.op \in {"replace", "blank"}
      BY <2>2, <1>0 DEF Who
    <3>7. QED BY <3>5, <3>6
  <2>3. QED BY <2>1, <2>2
<1>4. Appending' /\ Reading'
  BY <1>3 DEF Appending, Reading
<1>5. Uncollected' /\ Untouched'
  <2>1. \A f \in Files : Disjoint(chain[f], call.new)
    BY <1>0, ChainsApart
  <2>2. \A d \in Fsd : d \notin Elems(call.new) => ~ Spared(d)
    BY DEF Spared
  <2>3. coll' = coll \/ coll'.on = FALSE
    BY DormantIs
  <2>4. PICK ds : ds = call.new
    OBVIOUS
  <2>5. QED BY <2>1, <2>2, <2>3, <2>4, <1>1, <1>2, FreeTexts
<1>6. QED BY <1>4, <1>5 DEF Text1

(* An fsd is made. *)
LEMMA MakeTexts ==
  ASSUME JInv, NEW g, NEW p, NEW n, MakeArgs(g, p, n), Made(g, p, n), coll' = coll, g = Chg => Given(Fresh),
         \A d \in Fsd : Spared(d) => Spared(d)'
  PROVE  Uncollected' /\ Untouched'
<1>0. /\ TypeOK /\ Books /\ VarTypes /\ CollType /\ fsd \in [Fsd -> Fsds] /\ (\A f \in Files : chain[f] \in Seq(Fsd))
      /\ Uncollected /\ Untouched
  BY TextParts
<1>1. MadeFacts(g, p, n)
  BY <1>0, MadeHas
<1>2. /\ fsd' \in [Fsd -> Fsds] /\ Fresh \in Fsd
      /\ fsd'[Fresh] = [fsdfile |-> g, fsdpos |-> p, fsdnlines |-> n]
      /\ \A z \in Fsd : z # Fresh => fsd'[z] = fsd[z]
  BY <1>1 DEF MadeFacts
<1>3. Uncollected'
  <2>1. ASSUME NEW z \in Fsd, fsd'[z].fsdfile = Chg PROVE Given(z)
    <3>1. CASE z = Fresh
      BY <2>1, <3>1, <1>2
    <3>2. CASE z # Fresh
      <4>1. fsd'[z] = fsd[z]
        BY <3>2, <1>2
      <4>2. QED BY <4>1, <2>1, <1>0, GivenSame
    <3>3. QED BY <3>1, <3>2
  <2>2. QED BY <2>1, <1>0, <1>2, UncollectedStep
<1>4. Untouched'
  <2>1. g \in Files /\ Free # {} /\ OneMore(g) /\ chain' = chain
    BY DEF MakeArgs, Made
  <2>2. \A f \in Files : laf'[f].la_mode = laf[f].la_mode /\ laf'[f].la_refs = laf[f].la_refs
    BY <2>1, <1>0, OneMoreIs
  <2>3. \A f \in Files : \A d \in Elems(chain[f]) : d \in Fsd /\ d # Fresh
    BY <2>1, <1>0, FreshOut DEF Elems
  <2>4. \A f \in File : IsOpen(f)' /\ ~ laf'[f].la_mode =>
           /\ IsOpen(f) /\ ~ laf[f].la_mode /\ chain'[f] = chain[f]
           /\ \A d \in Elems(chain[f]) : fsd'[d] = fsd[d]
    BY <2>1, <2>2, <2>3, <1>2 DEF IsOpen, Files
  <2>5. QED BY <2>4, <1>0, <1>2, TFrame
<1>5. QED BY <1>3, <1>4

(* A file is marked as modified. *)
LEMMA MarkTexts ==
  ASSUME JInv, NEW f \in Files, fsd' = fsd, coll' = coll, laf'[f].la_mode = TRUE,
         \A g \in Files : g # f => /\ chain'[g] = chain[g] /\ laf'[g].la_mode = laf[g].la_mode
                                   /\ laf'[g].la_refs = laf[g].la_refs,
         \A d \in Fsd : Spared(d) => Spared(d)'
  PROVE  Uncollected' /\ Untouched'
<1>0. /\ CollType /\ fsd \in [Fsd -> Fsds] /\ (\A g \in Files : chain[g] \in Seq(Fsd))
      /\ Uncollected /\ Untouched
  BY TextParts
<1>1. Uncollected'
  BY <1>0, USame
<1>2. \A g \in File : IsOpen(g)' /\ ~ laf'[g].la_mode =>
           /\ IsOpen(g) /\ ~ laf[g].la_mode /\ chain'[g] = chain[g]
           /\ \A d \in Elems(chain[g]) : fsd'[d] = fsd[d]
  BY DEF IsOpen, Files
<1>3. QED BY <1>0, <1>1, <1>2, TFrame

-----------------------------------------------------------------------------
(* The steps. *)
LEMMA DoneSteers ==
  ASSUME call \in Calls, call.todo # << >>, call' = Done
  PROVE  Steers /\ call'.new = call.new
BY DoneIs DEF Steers

(* A stream inside an fsd is one la_break can be given.                    *)
LEMMA StreamBreaks ==
  ASSUME TypeOK, Books, NEW s \in Stream, Open(s), ~ Broken(las[s]), BreakAt(las[s])
  PROVE  \E x : BreakArgs(x) /\ BreakAt(x)
<1>1. s \in Streams /\ las[s].la_file \in File
  BY OpenIs
<1>2. las[s] \in LaStreams /\ InChain(fsd, chain[las[s].la_file], las[s])
  BY <1>1, StreamIs
<1>3. PICK x : x = las[s]
  OBVIOUS
<1>4. BreakArgs(x) /\ BreakAt(x)
  BY <1>1, <1>2, <1>3 DEF BreakArgs
<1>5. QED BY <1>4

(* la_zbreak keeps Text1.                                                  *)
LEMMA ZBreakText ==
  ASSUME JInv, NEW s \in Stream, NEW st \in {"zp", "zd"}, call.p = s \/ call.d = s, ZBreak(st, s)
  PROVE  Text1'
<1>0. IInv /\ TypeOK /\ Books /\ call \in Calls
  BY TextParts
<1>1. Do(st) /\ call' = Done /\ chg' = chg /\ coll' = coll /\ (IF Broken(las[s]) THEN NoBreak ELSE BreakAt(las[s]))
  BY DEF ZBreak
<1>2. call.op # "open" /\ call.op # "none" /\ call.todo # << >>
  BY <1>0, <1>1, NotOpening
<1>3. Steers /\ call'.new = call.new
  BY <1>0, <1>1, <1>2, DoneSteers
<1>4. Open(s)
  BY <1>0, <1>2, Actors, NameAssumption
<1>5. NoBreak \/ \E x : BreakArgs(x) /\ BreakAt(x)
  BY <1>0, <1>1, <1>4, StreamBreaks
<1>6. QED BY <1>1, <1>2, <1>3, <1>5, BreaksTexts

(* Breaking at the end of what is cut out keeps Text1.                     *)
LEMMA BreakText == ASSUME JInv, Break PROVE Text1'
<1>0. IInv /\ TypeOK /\ Books /\ call \in Calls /\ Script
  BY TextParts
<1>1. /\ Do("break") /\ chg' = chg /\ coll' = coll
      /\ call' = [Done EXCEPT !.sure = Within(las[call.p], call.n)]
      /\ IF Broken(las[call.p]) THEN NoBreak ELSE BreakAt(las[call.p])
  BY DEF Break
<1>2. call.op # "open" /\ call.op # "none" /\ call.todo # << >>
  BY <1>0, <1>1, NotOpening
<1>3. Steers /\ call'.new = call.new
  <2>1. PICK r : r = Done
    OBVIOUS
  <2>2. r \in Calls /\ r.op = call.op /\ r.bad = call.bad /\ r.pos = call.pos /\ r.new = call.new
    BY <2>1, <1>0, <1>2, DoneIs
  <2>3. PICK w : w = Within(las[call.p], call.n)
    OBVIOUS
  <2>4. call' = [r EXCEPT !.sure = w]
    BY <2>1, <2>3, <1>1
  <2>5. call'.op = r.op /\ call'.bad = r.bad /\ call'.pos = r.pos /\ call'.new = r.new
    BY <2>2, <2>4 DEF Calls
  <2>6. QED BY <2>2, <2>5, <1>2 DEF Steers
<1>4. call.p \in Stream /\ Open(call.p)
  <2>1. \E y : Leads("break", y)
    BY <1>0, <1>1, StepLeads
  <2>2. call.op # "blank" \/ call.bad
    BY <2>1 DEF Leads, Cuts
  <2>3. QED BY <2>2, <1>0, <1>2, Actors
<1>5. PICK s \in Stream : s = call.p
  BY <1>4
<1>6. NoBreak \/ \E x : BreakArgs(x) /\ BreakAt(x)
  BY <1>0, <1>1, <1>4, <1>5, StreamBreaks
<1>7. QED BY <1>1, <1>2, <1>3, <1>6, BreaksTexts

(* The second break keeps Text1.                                           *)
LEMMA BreakEndText == ASSUME JInv, BreakEnd PROVE Text1'
<1>0. IInv /\ TypeOK /\ Books /\ call \in Calls /\ Stage
  BY TextParts
<1>1. /\ Do("bend") /\ chg' = chg /\ coll' = coll
      /\ IF Broken(End) THEN NoBreak ELSE BreakAt(End)
  BY DEF BreakEnd
<1>2. call.op # "open" /\ call.op # "none" /\ call.todo # << >> /\ Phase = "bend"
  BY <1>0, <1>1, NotOpening
<1>3. Steers /\ call'.new = call.new
  <2>1. PICK r : r = Done
    OBVIOUS
  <2>2. r \in Calls /\ r.op = call.op /\ r.bad = call.bad /\ r.pos = call.pos /\ r.new = call.new
    BY <2>1, <1>0, <1>2, DoneIs
  <2>3. PICK n : n = End.la_lpos - las[call.p].la_lpos
    OBVIOUS
  <2>4. PICK c : c = IF Broken(End) THEN End.la_cfsd ELSE Fresh
    OBVIOUS
  <2>5. call' = [r EXCEPT !.n = n, !.cfsd = c]
    BY <2>1, <2>3, <2>4 DEF BreakEnd
  <2>6. call'.op = r.op /\ call'.bad = r.bad /\ call'.pos = r.pos /\ call'.new = r.new
    BY <2>2, <2>5 DEF Calls
  <2>7. QED BY <2>2, <2>6, <1>2 DEF Steers
<1>4. call.p \in Stream /\ Open(call.p)
  <2>1. \E y : Leads("bend", y)
    BY <1>0, <1>1, StepLeads
  <2>2. call.op # "blank" \/ call.bad
    BY <2>1 DEF Leads, Cuts
  <2>3. QED BY <2>2, <1>0, <1>2, Actors
<1>5. Before1 /\ call.n > 0
  BY <1>0, <1>2 DEF Stage, InBend, InBreak, InDel
<1>6. PICK e : EndFacts(e)
  BY <1>0, <1>2, <1>5, EndIs
<1>7. X.la_file \in File
  BY <1>0, <1>4, OpenIs DEF X
<1>8. e = End /\ e \in LaStreams /\ e.la_file = X.la_file /\ InChain(fsd, chain[e.la_file], e)
  BY <1>6 DEF EndFacts, Ds
<1>9. NoBreak \/ \E x : BreakArgs(x) /\ BreakAt(x)
  <2>1. CASE Broken(e)
    BY <2>1, <1>1, <1>8
  <2>2. CASE ~ Broken(e)
    <3>1. BreakArgs(e) /\ BreakAt(e)
      BY <2>2, <1>1, <1>7, <1>8 DEF BreakArgs
    <3>2. QED BY <3>1
  <2>3. QED BY <2>1, <2>2
<1>10. QED BY <1>1, <1>2, <1>3, <1>9, BreaksTexts

(* Steps that only go on. *)
LEMMA AdvanceText ==
  ASSUME JInv, NEW st, Do(st), st \notin {"parse", "openret"}, call' = Done, Idly, chg' = chg, coll' = coll
  PROVE  Text1'
<1>0. IInv /\ call \in Calls
  BY TextParts
<1>1. call.op # "open" /\ call.todo # << >>
  BY <1>0, NotOpening
<1>2. Steers
  BY <1>0, <1>1, DoneSteers
<1>3. QED BY <1>1, <1>2, OnTexts DEF Idly

(* Going back to undo keeps Text1.                                         *)
LEMMA BackText == ASSUME JInv, Back PROVE Text1'
<1>0. IInv /\ call \in Calls
  BY TextParts
<1>1. Do("back") /\ call' = Done /\ fsd' = fsd /\ chain' = chain /\ laf' = laf /\ chg' = chg /\ coll' = coll
  BY DEF Back
<1>2. call.op # "open" /\ call.todo # << >>
  BY <1>0, <1>1, NotOpening
<1>3. Steers
  BY <1>0, <1>1, <1>2, DoneSteers
<1>4. QED BY <1>1, <1>2, <1>3, OnTexts

(* Writing the new lines at the end of the change file keeps Text1:        *)
(* nothing collected is written over.                                      *)
LEMMA WriteText == ASSUME JInv, Write PROVE Text1'
<1>0. /\ IInv /\ call \in Calls /\ Stage /\ VarTypes /\ CollType /\ fsd \in [Fsd -> Fsds]
      /\ (\A f \in Files : chain[f] \in Seq(Fsd)) /\ Uncollected /\ Untouched /\ chg \in Seq(Line)
  BY TextParts
<1>1. Do("write") /\ call' = Done /\ Idly /\ chg' = chg \o call.text /\ coll' = coll
  BY DEF Write, Idly
<1>2. call.op # "open" /\ call.todo # << >> /\ Phase = "write"
  BY <1>0, <1>1, NotOpening
<1>3. Steers
  BY <1>0, <1>1, <1>2, DoneSteers
<1>4. Appending'
  <2>1. call.pos = Len(chg) + Len(call.text)
    BY <1>0, <1>2 DEF Stage, InWrite
  <2>2. call.text \in Seq(Line)
    BY <1>0, CallIs
  <2>3. PICK t \in Seq(Line) : t = call.text
    BY <2>2
  <2>4. Len(chg \o t) = Len(chg) + Len(t) /\ Len(chg) \in Nat /\ Len(t) \in Nat
    BY <1>0
  <2>5. Len(chg') = call.pos /\ call'.pos = call.pos
    BY <2>1, <2>3, <2>4, <1>1, <1>3 DEF Steers
  <2>6. call.pos \in Nat
    BY <1>0, CallIs
  <2>7. QED BY <2>5, <2>6 DEF Appending
<1>5. Reading' /\ \A d \in Fsd : Spared(d) => Spared(d)'
  BY <1>2, <1>3, SteersIs
<1>6. Uncollected'
  BY <1>0, <1>1, <1>5, USame DEF Idly
<1>7. Untouched'
  <2>1. \A f \in File : IsOpen(f)' /\ ~ laf'[f].la_mode =>
           /\ IsOpen(f) /\ ~ laf[f].la_mode /\ chain'[f] = chain[f]
           /\ \A d \in Elems(chain[f]) : fsd'[d] = fsd[d]
    BY <1>1 DEF IsOpen, Idly
  <2>2. fsd' \in [Fsd -> Fsds]
    BY <1>0, <1>1 DEF Idly
  <2>3. QED BY <2>1, <2>2, <1>0, TFrame
<1>8. QED BY <1>4, <1>5, <1>6, <1>7 DEF Text1

(* Beginning the delete within an operation keeps Text1.                   *)
LEMMA DeleteText == ASSUME JInv, Delete PROVE Text1'
<1>0. IInv /\ call \in Calls
  BY TextParts
<1>1. Do("del") /\ Idly /\ chg' = chg /\ coll' = coll
  BY DEF Delete, Idly
<1>2. call.op # "open" /\ call.todo # << >>
  BY <1>0, <1>1, NotOpening
<1>3. PICK v : call' = [call EXCEPT !.todo = v]
  BY DEF Delete
<1>4. call'.op = call.op /\ call'.bad = call.bad /\ call'.pos = call.pos /\ call'.new = call.new
  BY <1>0, <1>3 DEF Calls
<1>5. Steers
  BY <1>2, <1>4 DEF Steers
<1>6. QED BY <1>1, <1>2, <1>5, OnTexts DEF Idly

(* Going on with blank lines keeps Text1.                                  *)
LEMMA ChunkText == ASSUME JInv, Chunk PROVE Text1'
<1>0. IInv /\ call \in Calls
  BY TextParts
<1>1. Do("chunk") /\ Idly /\ chg' = chg /\ coll' = coll
  BY DEF Chunk, Idly
<1>2. call.op # "open" /\ call.todo # << >>
  BY <1>0, <1>1, NotOpening
<1>3. Steers
  <2>1. CASE call.blank = 0
    BY <2>1, <1>0, <1>2, DoneSteers DEF Chunk
  <2>2. CASE call.blank # 0
    <3>1. PICK v, n, d, c, b : call' = [call EXCEPT !.todo = v, !.n = n, !.cfsd = d, !.cnt = c, !.blank = b]
      BY <2>2 DEF Chunk
    <3>2. PICK q : q = [call EXCEPT !.todo = v, !.n = n, !.cfsd = d]
      OBVIOUS
    <3>3. q.op = call.op /\ q.bad = call.bad /\ q.pos = call.pos /\ q.new = call.new /\ DOMAIN q = DOMAIN call
      BY <3>2, <1>0 DEF Calls
    <3>4. call' = [q EXCEPT !.cnt = c, !.blank = b]
      BY <3>1, <3>2
    <3>5. call'.op = q.op /\ call'.bad = q.bad /\ call'.pos = q.pos /\ call'.new = q.new
      BY <3>2, <3>4, <1>0 DEF Calls
    <3>6. QED BY <3>3, <3>5, <1>2 DEF Steers
  <2>3. QED BY <2>1, <2>2
<1>4. QED BY <1>1, <1>2, <1>3, OnTexts DEF Idly

(* Cutting lines out keeps Text1: the file they were in is marked as       *)
(* modified.                                                               *)
LEMMA UnlinkText == ASSUME JInv, Unlink PROVE Text1'
<1>0. IInv /\ call \in Calls /\ TypeOK /\ Books /\ VarTypes /\ Appending
  BY TextParts
<1>1. Do("unlink") /\ fsd' = fsd /\ chg' = chg /\ coll' = coll
  BY DEF Unlink
<1>2. call.op # "open" /\ call.op # "none" /\ call.todo # << >>
  BY <1>0, <1>1, NotOpening
<1>3. PICK c : call' = [Done EXCEPT !.cut = c]
  BY DEF Unlink
<1>4. Steers
  <2>1. PICK r : r = Done
    OBVIOUS
  <2>2. r \in Calls /\ r.op = call.op /\ r.bad = call.bad /\ r.pos = call.pos /\ r.new = call.new
    BY <2>1, <1>0, <1>2, DoneIs
  <2>3. call' = [r EXCEPT !.cut = c]
    BY <2>1, <1>3
  <2>4. call'.op = r.op /\ call'.bad = r.bad /\ call'.pos = r.pos /\ call'.new = r.new
    BY <2>2, <2>3 DEF Calls
  <2>5. QED BY <2>2, <2>4, <1>2 DEF Steers
<1>5. PICK f : f = las[call.p].la_file
  OBVIOUS
<1>6. f \in Files
  BY <1>0, <1>2, <1>5, Actors, StreamHas, SMTT(45)
<1>7. /\ laf' = [laf EXCEPT ![f].la_nlines = @ - call.n, ![f].la_mode = TRUE]
      /\ \E z : chain' = [chain EXCEPT ![f] = z]
  BY <1>5 DEF Unlink
<1>8. laf'[f].la_mode = TRUE /\ \A g \in Files : g # f => chain'[g] = chain[g] /\ laf'[g] = laf[g]
  BY <1>0, <1>6, <1>7 DEF VarTypes, LaFiles
<1>9. Appending' /\ Reading' /\ \A d \in Fsd : Spared(d) => Spared(d)'
  BY <1>0, <1>1, <1>2, <1>4, SteersIs
<1>10. Uncollected' /\ Untouched'
  BY <1>1, <1>6, <1>8, <1>9, MarkTexts
<1>11. QED BY <1>9, <1>10 DEF Text1

(* la_link marks the file as modified and touches no other.                *)
LEMMA LinkMarks ==
  ASSUME VarTypes, NEW s, NEW ds, Link(s, ds), NEW f \in Files, f = las[s].la_file
  PROVE  laf'[f].la_mode = TRUE /\ \A g \in Files : g # f => chain'[g] = chain[g] /\ laf'[g] = laf[g]
<1>1. /\ laf' = [laf EXCEPT ![f].la_nlines = @ + Count(ds), ![f].la_mode = TRUE]
      /\ \E z : chain' = [chain EXCEPT ![f] = z]
  BY DEF Link
<1>2. QED BY <1>1 DEF VarTypes, LaFiles

(* A step that links a chain in keeps Text1.                               *)
LEMMA LinkTexts ==
  ASSUME JInv, NEW s, NEW ds, s \in Streams, Open(s), Link(s, ds), fsd' = fsd, coll' = coll, chg' = chg, Steers,
         call.op # "open"
  PROVE  Text1'
<1>0. IInv /\ TypeOK /\ Books /\ VarTypes /\ Appending
  BY TextParts
<1>1. PICK f : f = las[s].la_file
  OBVIOUS
<1>2. f \in Files
  BY <1>0, <1>1, StreamHas
<1>3. laf'[f].la_mode = TRUE /\ \A g \in Files : g # f => chain'[g] = chain[g] /\ laf'[g] = laf[g]
  BY <1>0, <1>1, <1>2, LinkMarks
<1>4. Appending' /\ Reading' /\ \A d \in Fsd : Spared(d) => Spared(d)'
  BY <1>0, SteersIs
<1>5. Uncollected' /\ Untouched'
  BY <1>2, <1>3, <1>4, MarkTexts
<1>6. QED BY <1>4, <1>5 DEF Text1

(* What becomes of what was cut out, freed or linked in elsewhere, keeps   *)
(* Text1.                                                                  *)
LEMMA PlaceText == ASSUME JInv, PlaceCut PROVE Text1'
<1>0. IInv /\ call \in Calls /\ TypeOK /\ Books /\ VarTypes /\ Appending
  BY TextParts
<1>1. Do("place") /\ chg' = chg /\ coll' = coll /\ call' = [Done EXCEPT !.cut = << >>]
      /\ IF call.d = None THEN FreeChain(call.cut) /\ chain' = chain
                          ELSE Link(call.d, call.cut) /\ fsd' = fsd
  BY DEF PlaceCut
<1>2. call.op # "open" /\ call.op # "none" /\ call.todo # << >>
  BY <1>0, <1>1, NotOpening
<1>3. Steers
  <2>1. PICK r : r = Done
    OBVIOUS
  <2>2. r \in Calls /\ r.op = call.op /\ r.bad = call.bad /\ r.pos = call.pos /\ r.new = call.new
    BY <2>1, <1>0, <1>2, DoneIs
  <2>3. call' = [r EXCEPT !.cut = << >>]
    BY <2>1, <1>1
  <2>4. call'.op = r.op /\ call'.bad = r.bad /\ call'.pos = r.pos /\ call'.new = r.new
    BY <2>2, <2>3 DEF Calls
  <2>5. QED BY <2>2, <2>4, <1>2 DEF Steers
<1>4. CASE call.d = None
  <2>1. PICK ds : ds = call.cut
    OBVIOUS
  <2>2. ds \in Seq(Fsd) /\ FreeChain(ds) /\ chain' = chain
    BY <2>1, <1>0, <1>1, <1>4, CallIs
  <2>3. \A f \in Files : Disjoint(chain[f], ds)
    BY <2>1, <1>0, ChainsApart
  <2>4. Appending' /\ Reading' /\ \A d \in Fsd : Spared(d) => Spared(d)'
    BY <1>0, <1>1, <1>2, <1>3, SteersIs
  <2>5. Uncollected' /\ Untouched'
    BY <2>2, <2>3, <2>4, <1>1, FreeTexts
  <2>6. QED BY <2>4, <2>5 DEF Text1
<1>5. CASE call.d # None
  <2>1. call.d \in Streams /\ Open(call.d)
    BY <1>0, <1>2, <1>5, Actors
  <2>2. Link(call.d, call.cut) /\ fsd' = fsd
    BY <1>1, <1>5
  <2>3. PICK s, ds : s = call.d /\ ds = call.cut
    OBVIOUS
  <2>4. QED BY <2>1, <2>2, <2>3, <1>1, <1>2, <1>3, LinkTexts
<1>6. QED BY <1>4, <1>5

(* Linking new lines in keeps Text1; those of a collection are in a file   *)
(* from then on, and there is no collection any more when the operation    *)
(* returns.                                                                *)
LEMMA LinkNewText == ASSUME JInv, LinkNew PROVE Text1'
<1>0. IInv /\ call \in Calls /\ TypeOK /\ Books /\ VarTypes /\ Appending /\ Script
  BY TextParts
<1>1. Do("link") /\ Link(call.p, call.new) /\ fsd' = fsd /\ chg' = chg /\ coll' = coll
  BY DEF LinkNew
<1>2. call.op # "open" /\ call.op # "none" /\ call.todo # << >>
  BY <1>0, <1>1, NotOpening
<1>3. call'.op = call.op /\ call'.bad = call.bad /\ call'.pos = call.pos /\ call'.todo = Tail(call.todo)
  <2>1. PICK r : r = Done
    OBVIOUS
  <2>2. r \in Calls /\ r.op = call.op /\ r.bad = call.bad /\ r.pos = call.pos /\ r.todo = Tail(call.todo)
    BY <2>1, <1>0, <1>2, DoneIs
  <2>3. PICK c : call' = [r EXCEPT !.new = << >>, !.cnt = c]
    BY <2>1 DEF LinkNew
  <2>4. call'.op = r.op /\ call'.bad = r.bad /\ call'.pos = r.pos /\ call'.todo = r.todo
    BY <2>2, <2>3 DEF Calls
  <2>5. QED BY <2>2, <2>4
<1>4. call.op = "collect" => call'.todo = << >>
  <2>1. SUFFICES ASSUME call.op = "collect" PROVE Tail(call.todo) = << >>
    BY <1>3
  <2>2. call.todo \in Seq(Steps) /\ call.todo[1] = "link" /\ 1 \in 1 .. Len(call.todo) /\ Len(call.todo) \in Nat
    <3>1. call.todo \in Seq(Steps)
      BY <1>0, CallIs
    <3>2. QED BY <3>1, <1>1, <1>2 DEF Do
  <2>3. Leads("link", IF 1 < Len(call.todo) THEN call.todo[2] ELSE "end")
    BY <2>2, <1>0 DEF Script
  <2>4. (IF 1 < Len(call.todo) THEN call.todo[2] ELSE "end") = "end"
    BY <2>1, <2>3 DEF Leads
  <2>5. ~ 1 < Len(call.todo)
    <3>1. SUFFICES ASSUME 1 < Len(call.todo) PROVE FALSE
      OBVIOUS
    <3>2. call.todo[2] = "end"
      BY <3>1, <2>4
    <3>3. 2 \in 1 .. Len(call.todo)
      BY <3>1, <2>2
    <3>4. call.todo[2] \in Steps
      BY <3>3, <2>2
    <3>5. QED BY <3>2, <3>4 DEF Steps
  <2>6. PICK t : t = call.todo
    OBVIOUS
  <2>7. t \in Seq(Steps) /\ t # << >>
    BY <2>2, <2>6, <1>2
  <2>8. Tail(t) \in Seq(Steps) /\ Len(t) \in Nat /\ Len(t) > 0 /\ Len(Tail(t)) = Len(t) - 1
    BY <2>7, TailIs
  <2>9. PICK m : m = Len(t)
    OBVIOUS
  <2>10. m \in Nat /\ m > 0 /\ ~ 1 < m /\ Len(Tail(t)) = m - 1
    BY <2>5, <2>6, <2>8, <2>9
  <2>11. Len(Tail(t)) = 0
    <3>1. m = 1
      BY <2>10
    <3>2. PICK z : z = Len(Tail(t))
      OBVIOUS
    <3>3. z = m - 1
      BY <2>10, <3>2
    <3>4. z = 0
      BY <3>1, <3>3
    <3>5. QED BY <3>2, <3>4
  <2>12. Tail(t) = << >>
    BY <2>8, <2>11, NoLen
  <2>13. QED BY <2>6, <2>12
<1>5. Steers
  BY <1>2, <1>3, <1>4 DEF Steers
<1>6. call.p \in Streams /\ Open(call.p)
  BY <1>0, <1>2, Actors
<1>7. PICK s, ds : s = call.p /\ ds = call.new
  OBVIOUS
<1>8. QED BY <1>1, <1>2, <1>5, <1>6, <1>7, LinkTexts

(* Linking a copy in keeps Text1.                                          *)
LEMMA LinkCopyText == ASSUME JInv, LinkCopy PROVE Text1'
<1>0. IInv /\ call \in Calls /\ TypeOK /\ Books /\ VarTypes /\ Appending
  BY TextParts
<1>1. Do("linkd") /\ Link(call.d, call.new) /\ fsd' = fsd /\ chg' = chg /\ coll' = coll
      /\ call' = [Done EXCEPT !.new = << >>]
  BY DEF LinkCopy
<1>2. call.op # "open" /\ call.op # "none" /\ call.todo # << >>
  BY <1>0, <1>1, NotOpening
<1>3. Copying
  <2>1. \E y : Leads("linkd", y)
    BY <1>0, <1>1, StepLeads
  <2>2. QED BY <2>1 DEF Leads
<1>4. Steers
  <2>1. PICK r : r = Done
    OBVIOUS
  <2>2. r \in Calls /\ r.op = call.op /\ r.bad = call.bad /\ r.pos = call.pos
    BY <2>1, <1>0, <1>2, DoneIs
  <2>3. call' = [r EXCEPT !.new = << >>]
    BY <2>1, <1>1
  <2>4. call'.op = r.op /\ call'.bad = r.bad /\ call'.pos = r.pos
    BY <2>2, <2>3 DEF Calls
  <2>5. QED BY <2>2, <2>4, <1>2, <1>3 DEF Steers, Copying
<1>5. call.d \in Streams /\ Open(call.d)
  BY <1>0, <1>2, <1>3, Actors
<1>6. PICK s, ds : s = call.d /\ ds = call.new
  OBVIOUS
<1>7. QED BY <1>1, <1>2, <1>4, <1>5, <1>6, LinkTexts

-----------------------------------------------------------------------------

(* A failing la_zbreak keeps Text1.                                        *)
LEMMA ZBreakFailsText == ASSUME JInv, NEW s, NEW st, ZBreakFails(st, s) PROVE Text1'
BY FailTexts DEF ZBreakFails, Do

(* A failing break keeps Text1.                                            *)
LEMMA BreakFailsText == ASSUME JInv, BreakFails PROVE Text1'
BY FailTexts DEF BreakFails, Do

(* A failing second break keeps Text1.                                     *)
LEMMA BreakEndFailsText == ASSUME JInv, BreakEndFails PROVE Text1'
BY FailTexts DEF BreakEndFails, Do

(* A failure to describe lines keeps Text1.                                *)
LEMMA ParseFailsText == ASSUME JInv, ParseFails PROVE Text1'
BY FailTexts DEF ParseFails, Do

(* A failure to write keeps Text1.                                         *)
LEMMA WriteFailsText == ASSUME JInv, WriteFails PROVE Text1'
BY FailTexts DEF WriteFails, Do

(* A delete that is refused keeps Text1.                                   *)
LEMMA DeleteTooLongText == ASSUME JInv, DeleteTooLong PROVE Text1'
BY FailTexts DEF DeleteTooLong, Do

(* A collection that is refused keeps Text1.                               *)
LEMMA CollectTooLongText == ASSUME JInv, CollectTooLong PROVE Text1'
BY FailTexts DEF CollectTooLong, Do

(* A failing copy keeps Text1.                                             *)
LEMMA CopyFailsText == ASSUME JInv, CopyFails PROVE Text1'
BY FailTexts DEF CopyFails, Do

(* A failure to make blank lines keeps Text1.                              *)
LEMMA BlanksFailText == ASSUME JInv, BlanksFail PROVE Text1'
BY FailTexts DEF BlanksFail, Do

(* A collection that fits keeps Text1.                                     *)
LEMMA CollectFitsText == ASSUME JInv, CollectFits PROVE Text1'
BY AdvanceText DEF CollectFits, Idly

(* The end of the walk of a copy keeps Text1.                              *)
LEMMA WalkEndText == ASSUME JInv, WalkEnd PROVE Text1'
BY AdvanceText DEF WalkEnd, Idly

(* Finding enough blank lines keeps Text1.                                 *)
LEMMA HaveBlanksText == ASSUME JInv, HaveBlanks PROVE Text1'
BY AdvanceText DEF HaveBlanks, Idly

(* The lines an fsd of a copy has: n of those of d, from line from on. *)
PieceOf(d, from, n) == /\ d \in Fsd /\ fsd[d].fsdfile # NoFile /\ from \in Nat /\ n \in Nat /\ n > 0
                       /\ from + n <= fsd[d].fsdnlines

(* Making such an fsd keeps Text1: it describes lines that another fsd     *)
(* describes.                                                              *)
LEMMA PieceText ==
  ASSUME JInv, NEW d, NEW from, NEW n, PieceOf(d, from, n), MakePiece(d, from, n), chain' = chain, las' = las,
         chg' = chg, coll' = coll, Steers, Copying
  PROVE  Text1'
<1>0. /\ TypeOK /\ Books /\ VarTypes /\ fsd \in [Fsd -> Fsds] /\ Appending
  BY TextParts
<1>1. d \in Fsd /\ fsd[d].fsdfile # NoFile /\ from \in Nat /\ n \in Nat /\ n > 0 /\ from + n <= fsd[d].fsdnlines
  BY DEF PieceOf
<1>2. call.op # "open" /\ call.op # "collect" /\ call'.op # "collect"
  BY DEF Steers, Copying
<1>3. PICK g \in Files : g = fsd[d].fsdfile
  BY <1>0, <1>1 DEF Fsds
<1>4. PICK b \in Nat : b = fsd[d].fsdpos
  BY <1>0, <1>1 DEF Fsds
<1>5. PICK w \in Nat : w = fsd[d].fsdnlines
  BY <1>0, <1>1 DEF Fsds
<1>6. PICK p \in Nat : p = b + from
  BY <1>1
<1>7. /\ Free # {} /\ fsd' = [fsd EXCEPT ![Fresh] = [fsdfile |-> g, fsdpos |-> p, fsdnlines |-> n]]
      /\ laf' = [laf EXCEPT ![g].la_fsrefs = @ + 1]
  BY <1>3, <1>4, <1>6 DEF MakePiece, Piece
<1>8. Made(g, p, n)
  BY <1>7 DEF Made, OneMore
<1>9. MakeArgs(g, p, n)
  <2>1. w \in 1 .. LA_FSDLMAX
    BY <1>0, <1>1, <1>5 DEF Books, Lined
  <2>2. n \in 1 .. LA_FSDLMAX
    BY <2>1, <1>1, <1>5, LimitAssumption
  <2>3. QED BY <2>2, <1>7 DEF MakeArgs
<1>10. Fresh \in Fsd
  BY <1>7, FreshIs
<1>11. fsd'[Fresh].fsdpos = p /\ fsd'[Fresh].fsdnlines = n
  BY <1>0, <1>7, <1>10
<1>12. g = Chg => Given(Fresh)
  <2>1. SUFFICES ASSUME g = Chg PROVE Part(Fresh)
    BY DEF Given
  <2>2. ~ Spared(d)
    BY <1>2 DEF Spared
  <2>3. b <= p /\ p + n <= b + w
    BY <1>1, <1>5, <1>6
  <2>4. QED BY <2>1, <2>2, <2>3, <1>1, <1>3, <1>4, <1>5, <1>11 DEF Part
<1>13. Appending' /\ Reading' /\ \A z \in Fsd : Spared(z) => Spared(z)'
  BY <1>0, <1>2, SteersIs
<1>14. Uncollected' /\ Untouched'
  BY <1>8, <1>9, <1>12, <1>13, MakeTexts
<1>15. QED BY <1>13, <1>14 DEF Text1

(* The first fsd of a copy keeps Text1.                                    *)
LEMMA CopyHeadText == ASSUME JInv, CopyHead PROVE Text1'
<1>0. IInv /\ TypeOK /\ Books /\ Stage /\ call \in Calls
  BY TextParts
<1>1. Do("chead") /\ chain' = chain /\ las' = las /\ chg' = chg /\ coll' = coll
  BY DEF CopyHead
<1>2. call.op # "open" /\ call.todo # << >> /\ Phase = "chead"
  BY <1>0, <1>1, NotOpening
<1>3. Copying
  <2>1. \E y : Leads("chead", y)
    BY <1>0, <1>1, StepLeads
  <2>2. QED BY <2>1 DEF Leads
<1>4. Before1 /\ call.n > 0
  BY <1>0, <1>2 DEF Stage, InChead, AtCopy, Filled
<1>5. PICK p, f, d, k, w : CopyAt(p, f, d, k, w)
  BY <1>0, <1>3, <1>4, CopyAtIs
<1>6. /\ d = X.la_cfsd /\ d \in Fsd /\ d \in Elems(Ds) /\ Chained(fsd, Ds)
      /\ k = X.la_fsline /\ w = fsd[d].fsdnlines /\ k \in Nat /\ w \in Nat /\ k < w
  BY <1>5 DEF CopyAt
<1>7. PICK n \in Nat : n = call.n
  BY <1>0, CallIs
<1>8. CASE X.la_fsline = 0
  <2>1. fsd' = fsd /\ laf' = laf /\ call' = Done
    BY <1>8 DEF CopyHead, X
  <2>2. Idly
    BY <2>1, <1>1 DEF Idly
  <2>3. QED BY <2>1, <2>2, <1>1, AdvanceText
<1>9. CASE X.la_fsline # 0
  <2>1. PICK m : m = Lesser(call.n, w - k)
    OBVIOUS
  <2>2. m \in Nat /\ m > 0 /\ k + m <= w
    BY <2>1, <1>4, <1>6, <1>7 DEF Lesser
  <2>3. MakePiece(d, k, m)
    <3>1. m = Lesser(call.n, fsd[X.la_cfsd].fsdnlines - X.la_fsline)
      BY <2>1, <1>6
    <3>2. MakePiece(X.la_cfsd, X.la_fsline, Lesser(call.n, fsd[X.la_cfsd].fsdnlines - X.la_fsline))
      BY <1>9 DEF CopyHead, X
    <3>3. QED BY <3>1, <3>2, <1>6
  <2>4. PieceOf(d, k, m)
    BY <2>2, <1>6 DEF PieceOf, Chained
  <2>5. Steers
    <3>1. PICK r : r = Done
      OBVIOUS
    <3>2. r \in Calls /\ r.op = call.op /\ r.bad = call.bad /\ r.pos = call.pos
      BY <3>1, <1>0, <1>2, DoneIs
    <3>3. PICK u, v : call' = [r EXCEPT !.new = u, !.todo = v]
      BY <3>1, <1>9 DEF CopyHead, X
    <3>4. call'.op = r.op /\ call'.bad = r.bad /\ call'.pos = r.pos
      BY <3>2, <3>3 DEF Calls
    <3>5. QED BY <3>2, <3>4, <1>2, <1>3 DEF Steers, Copying
  <2>6. QED BY <2>3, <2>4, <2>5, <1>1, <1>3, PieceText
<1>10. QED BY <1>8, <1>9

(* The last fsd of a copy keeps Text1.                                     *)
LEMMA CopyTailText == ASSUME JInv, CopyTail PROVE Text1'
<1>0. IInv /\ TypeOK /\ Books /\ VarTypes /\ Stage /\ call \in Calls
  BY TextParts
<1>1. Do("ctail") /\ chain' = chain /\ las' = las /\ chg' = chg /\ coll' = coll
  BY DEF CopyTail
<1>2. call.op # "open" /\ call.todo # << >> /\ Phase = "ctail"
  BY <1>0, <1>1, NotOpening
<1>3. Copying
  <2>1. \E y : Leads("ctail", y)
    BY <1>0, <1>1, StepLeads
  <2>2. QED BY <2>1 DEF Leads
<1>4. InCtail
  BY <1>0, <1>2 DEF Stage
<1>5. PICK e, m, l, c : TailArgs(e, m, l, c)
  BY <1>0, <1>3, <1>4, TailArgsIs
<1>6. EndFacts(e) /\ e = End /\ Chained(fsd, Ds) /\ e \in LaStreams /\ InChain(fsd, Ds, e)
  BY <1>5 DEF TailArgs, EndFacts
<1>7. Steers
  <2>1. PICK r : r = Done
    OBVIOUS
  <2>2. r \in Calls /\ r.op = call.op /\ r.bad = call.bad /\ r.pos = call.pos
    BY <2>1, <1>0, <1>2, DoneIs
  <2>3. PICK a, b, o, q : call' = [r EXCEPT !.n = a, !.tail = b, !.left = o, !.cfsd = q]
    BY <2>1 DEF CopyTail
  <2>4. call'.op = r.op /\ call'.bad = r.bad /\ call'.pos = r.pos
    BY <2>2, <2>3 DEF Calls
  <2>5. QED BY <2>2, <2>4, <1>2, <1>3 DEF Steers, Copying
<1>8. CASE Broken(e)
  <2>1. fsd' = fsd /\ laf' = laf
    BY <1>6, <1>8 DEF CopyTail
  <2>2. QED BY <2>1, <1>1, <1>2, <1>7, OnTexts
<1>9. CASE ~ Broken(e)
  <2>1. /\ e.la_cfsd \in Elems(Ds) /\ e.la_cfsd \in Fsd /\ e.la_fsline \in Nat /\ e.la_fsline > 0
        /\ e.la_fsline < fsd[e.la_cfsd].fsdnlines
    BY <1>0, <1>6, <1>9, InsideIs DEF VarTypes
  <2>2. PICK d, n : d = e.la_cfsd /\ n = e.la_fsline
    OBVIOUS
  <2>3. MakePiece(d, 0, n)
    BY <2>2, <1>6, <1>9 DEF CopyTail
  <2>4. fsd[d].fsdfile # NoFile /\ d \in Fsd
    BY <2>1, <2>2, <1>6 DEF Chained
  <2>5. fsd[d].fsdnlines \in Nat
    BY <2>4, <1>0 DEF VarTypes, Fsds
  <2>6. PieceOf(d, 0, n)
    BY <2>1, <2>2, <2>4, <2>5 DEF PieceOf
  <2>7. QED BY <2>3, <2>6, <1>1, <1>3, <1>7, PieceText
<1>10. QED BY <1>8, <1>9

(* An fsd in the middle of a copy keeps Text1.                             *)
LEMMA CopyFsdText == ASSUME JInv, CopyFsd PROVE Text1'
<1>0. IInv /\ TypeOK /\ Books /\ VarTypes /\ call \in Calls
  BY TextParts
<1>1. Do("walk") /\ call.left > 0 /\ call.cfsd # Eof /\ chain' = chain /\ las' = las /\ chg' = chg /\ coll' = coll
  BY DEF CopyFsd
<1>2. Copying /\ call.todo # << >>
  BY <1>0, <1>1, WalkAtIs
<1>3. PICK a, n, l : WalkAt(a, n, l)
  BY <1>0, <1>1, WalkAtIs
<1>4. Chained(fsd, Ds) /\ Pointed(fsd, Ds, call.cfsd, (a + n) - l)
  BY <1>3 DEF WalkAt
<1>5. PICK d : d = call.cfsd
  OBVIOUS
<1>6. d \in Elems(Ds) /\ d \in Fsd
  BY <1>0, <1>1, <1>4, <1>5, ForwIs DEF VarTypes
<1>7. fsd[d].fsdfile # NoFile /\ fsd[d].fsdnlines \in 1 .. LA_FSDLMAX
  BY <1>0, <1>4, <1>6 DEF Chained, Books, Lined
<1>8. PICK w \in Nat : w = fsd[d].fsdnlines
  BY <1>7, LimitAssumption
<1>9. MakePiece(d, 0, w)
  BY <1>5, <1>8 DEF CopyFsd
<1>10. PieceOf(d, 0, w)
  BY <1>6, <1>7, <1>8 DEF PieceOf
<1>11. Steers
  <2>1. PICK u, o, c : call' = [call EXCEPT !.new = u, !.left = o, !.cfsd = c]
    BY DEF CopyFsd
  <2>2. call'.op = call.op /\ call'.bad = call.bad /\ call'.pos = call.pos
    BY <2>1, <1>0 DEF Calls
  <2>3. QED BY <2>2, <1>2 DEF Steers, Copying
<1>12. QED BY <1>1, <1>2, <1>9, <1>10, <1>11, PieceText

(* The end of a copy keeps Text1.                                          *)
LEMMA CopyLastText == ASSUME JInv, CopyLast PROVE Text1'
<1>0. /\ IInv /\ call \in Calls /\ VarTypes /\ CollType /\ fsd \in [Fsd -> Fsds] /\ (\A f \in Files : chain[f] \in Seq(Fsd))
      /\ Uncollected /\ Untouched
  BY TextParts
<1>1. Do("walk") /\ call.left > 0 /\ Idly /\ chg' = chg /\ coll' = coll
  BY DEF CopyLast, Idly
<1>2. Copying /\ call.todo # << >>
  BY <1>0, <1>1, WalkAtIs
<1>3. CASE call.cfsd # Eof /\ Count(call.tail) = call.left
  <2>1. PICK u : call' = [call EXCEPT !.new = u, !.tail = << >>, !.left = 0]
    BY <1>3 DEF CopyLast
  <2>2. call'.op = call.op /\ call'.bad = call.bad /\ call'.pos = call.pos
    BY <2>1, <1>0 DEF Calls
  <2>3. Steers /\ call.op # "open"
    BY <2>2, <1>2 DEF Steers, Copying
  <2>4. QED BY <2>3, <1>1, OnTexts DEF Idly
<1>4. CASE ~ (call.cfsd # Eof /\ Count(call.tail) = call.left)
  <2>1. call' = Ended("abort")
    BY <1>4 DEF CopyLast
  <2>2. call'.op = "none"
    BY <2>1, <1>0, EndedIs
  <2>3. Appending' /\ Reading'
    BY <2>2 DEF Appending, Reading
  <2>4. \A d \in Fsd : Spared(d) => Spared(d)'
    BY <1>2 DEF Spared, Copying
  <2>5. Uncollected'
    BY <2>4, <1>0, <1>1, USame DEF Idly
  <2>6. \A f \in File : IsOpen(f)' /\ ~ laf'[f].la_mode =>
           /\ IsOpen(f) /\ ~ laf[f].la_mode /\ chain'[f] = chain[f]
           /\ \A d \in Elems(chain[f]) : fsd'[d] = fsd[d]
    BY <1>1 DEF IsOpen, Idly
  <2>7. Untouched'
    BY <2>6, <1>0, <1>1, TFrame DEF Idly
  <2>8. QED BY <2>3, <2>5, <2>7 DEF Text1
<1>5. QED BY <1>3, <1>4

-----------------------------------------------------------------------------

(* Making blank lines at the end of the change file keeps Text1.           *)
LEMMA MakeBlanksText == ASSUME JInv, MakeBlanks PROVE Text1'
<1>0. /\ IInv /\ TypeOK /\ Books /\ Collected /\ VarTypes /\ CollType /\ call \in Calls /\ Len(chg) \in Nat
      /\ fsd \in [Fsd -> Fsds] /\ (\A f \in Files : chain[f] \in Seq(Fsd)) /\ Uncollected /\ Untouched
  BY TextParts
<1>1. Do("bprep") /\ Free # {} /\ call' = Done /\ coll' = coll
  BY DEF MakeBlanks
<1>2. call.op # "open" /\ call.todo # << >>
  BY <1>0, <1>1, NotOpening
<1>3. Steers
  BY <1>0, <1>1, <1>2, DoneSteers
<1>4. call.op = "blank"
  <2>1. \E y : Leads("bprep", y)
    BY <1>0, <1>1, StepLeads
  <2>2. QED BY <2>1 DEF Leads
<1>5. BlankFacts
  BY <1>0, BlankBooks
<1>6. /\ \A g \in File : laf'[g] = laf[g] /\ chain'[g] = chain[g]
      /\ fsd' \in [Fsd -> Fsds]
      /\ fsd'[Fresh] = [fsdfile |-> Chg, fsdpos |-> Len(chg), fsdnlines |-> LA_FSDLMAX]
      /\ \A z \in Fsd : z # Fresh => fsd'[z] = fsd[z]
  BY <1>5 DEF BlankFacts
<1>7. Appending'
  BY <1>3, <1>4 DEF Steers, Appending
<1>8. Reading' /\ \A z \in Fsd : Spared(z) => Spared(z)'
  BY <1>2, <1>3, SteersIs
<1>9. Uncollected'
  <2>1. ASSUME NEW z \in Fsd, fsd'[z].fsdfile = Chg PROVE Given(z)
    <3>1. CASE z = Fresh
      <4>1. fsd'[z].fsdpos = Len(chg)
        BY <3>1, <1>6
      <4>2. coll.on => coll.nxchgpos <= Len(chg) /\ coll.nxchgpos \in Nat
        BY <1>0 DEF Collected, CollType
      <4>3. coll.on => fsd'[z].fsdpos >= coll.nxchgpos
        BY <4>1, <4>2, <1>0
      <4>4. QED BY <4>3 DEF Given, Out
    <3>2. CASE z # Fresh
      <4>1. fsd'[z] = fsd[z]
        BY <3>2, <1>6
      <4>2. QED BY <4>1, <2>1, <1>0, <1>8, GivenSame
    <3>3. QED BY <3>1, <3>2
  <2>2. QED BY <2>1, <1>0, <1>1, <1>6, UncollectedStep
<1>10. Untouched'
  <2>1. \A f \in Files : \A d \in Elems(chain[f]) : d \in Fsd /\ d # Fresh
    BY <1>0, <1>1, FreshOut DEF Elems
  <2>2. \A f \in File : IsOpen(f)' /\ ~ laf'[f].la_mode =>
           /\ IsOpen(f) /\ ~ laf[f].la_mode /\ chain'[f] = chain[f]
           /\ \A d \in Elems(chain[f]) : fsd'[d] = fsd[d]
    BY <2>1, <1>6 DEF IsOpen, Files
  <2>3. QED BY <2>2, <1>0, <1>6, TFrame
<1>11. QED BY <1>7, <1>8, <1>9, <1>10 DEF Text1

(* The end of describing lines keeps Text1.                                *)
LEMMA ParseEndText == ASSUME JInv, ParseEnd PROVE Text1'
<1>0. /\ IInv /\ Stage /\ call \in Calls /\ CollType /\ fsd \in [Fsd -> Fsds] /\ (\A f \in Files : chain[f] \in Seq(Fsd))
      /\ Appending /\ Uncollected /\ Reading /\ Untouched
  BY TextParts
<1>1. Do("parse") /\ call.left = 0 /\ call' = Done /\ Idly /\ chg' = chg /\ coll' = coll
  BY DEF ParseEnd, Idly
<1>2. call.todo # << >> /\ Phase = "parse"
  BY <1>0, <1>1, StepLeads
<1>3. Steers /\ call'.new = call.new
  BY <1>0, <1>1, <1>2, DoneSteers
<1>4. Appending' /\ \A z \in Fsd : Spared(z) => Spared(z)'
  BY <1>0, <1>1, <1>3, SteersIs
<1>5. Uncollected'
  BY <1>0, <1>1, <1>4, USame DEF Idly
<1>6. Untouched'
  <2>1. \A f \in File : IsOpen(f)' /\ ~ laf'[f].la_mode =>
           /\ IsOpen(f) /\ ~ laf[f].la_mode /\ chain'[f] = chain[f]
           /\ \A d \in Elems(chain[f]) : fsd'[d] = fsd[d]
    BY <1>1 DEF IsOpen, Idly
  <2>2. QED BY <2>1, <1>0, <1>1, TFrame DEF Idly
<1>7. Reading'
  <2>1. SUFFICES ASSUME call'.op = "open"
                 PROVE  /\ Straight(fsd, call.new, call'.own) /\ Size(fsd, call.new) = call'.pos
                        /\ call'.pos = Len(DiskText[call'.own])
    BY <1>1, <1>3 DEF Reading, Idly
  <2>2. call.op = "open" /\ call'.pos = call.pos /\ call'.own = call.own
    BY <2>1, <1>0, <1>1, <1>2, DoneIs
  <2>3. Straight(fsd, call.new, call.own) /\ Size(fsd, call.new) = call.pos
    BY <2>2, <1>0, <1>2 DEF Reading
  <2>4. call.pos + call.left = Len(DiskText[call.own])
    BY <2>2, <1>0, <1>2 DEF Stage, InParse, Limit
  <2>5. call.pos \in Nat
    BY <1>0, CallIs
  <2>6. call.pos + 0 = Len(DiskText[call.own])
    BY <2>4, <1>1
  <2>7. call.pos = Len(DiskText[call.own])
    BY <2>5, <2>6
  <2>8. QED BY <2>2, <2>3, <2>7
<1>8. QED BY <1>4, <1>5, <1>6, <1>7 DEF Text1

(* One more fsd at the end. *)
(* A chain with one more fsd, z, at its end. *)
OneLonger(ds, z, es) == /\ es \in Seq(Fsd) /\ Len(es) = Len(ds) + 1 /\ es[Len(ds) + 1] = z
                        /\ \A q \in 1 .. Len(ds) : es[q] = ds[q]

(* Append makes such a chain.                                              *)
LEMMA LongerBy ==
  ASSUME NEW ds, ds \in Seq(Fsd), NEW z, z \in Fsd
  PROVE  OneLonger(ds, z, Append(ds, z))
BY DEF OneLonger

(* A straight chain is straight with one more fsd that goes on where it    *)
(* ends.                                                                   *)
LEMMA StraightMore ==
  ASSUME NEW m \in [Fsd -> Fsds], NEW m2 \in [Fsd -> Fsds], NEW ds \in Seq(Fsd), NEW z \in Fsd, NEW es, OneLonger(ds, z, es),
         \A d \in Elems(ds) : m2[d] = m[d],
         NEW f, Straight(m, ds, f), m2[z].fsdfile = f, m2[z].fsdpos = Size(m, ds)
  PROVE  Straight(m2, es, f) /\ Size(m2, es) = Size(m, ds) + m2[z].fsdnlines
<1>1. /\ es \in Seq(Fsd) /\ Len(es) = Len(ds) + 1 /\ es[Len(ds) + 1] = z
      /\ \A q \in 1 .. Len(ds) : es[q] = ds[q]
  BY DEF OneLonger
<1>2. PICK n \in Nat : n = Len(ds)
  OBVIOUS
<1>3. \A i \in 1 .. n : m2[ds[i]] = m[ds[i]]
  BY <1>2 DEF Elems
<1>4. \A i \in 0 .. n : Sums(m2, es)[i] = Sums(m, ds)[i]
  <2>1. \A u \in Nat : u = 0 => Moved(m, ds, u, m2, es, u, n)
    <3>1. SUFFICES ASSUME NEW u \in Nat, u = 0 PROVE Moved(m, ds, u, m2, es, u, n)
      OBVIOUS
    <3>2. u + n <= Len(ds) /\ u + n <= Len(es)
      BY <3>1, <1>1, <1>2
    <3>3. \A i \in 1 .. n : m2[es[u + i]].fsdnlines = m[ds[u + i]].fsdnlines
      <4>1. \A i \in 1 .. n : u + i = i
        BY <3>1, <1>2
      <4>2. QED BY <4>1, <1>1, <1>2, <1>3
    <3>4. Alike(m, ds, u, m2, es, u, n)
      BY <3>2, <3>3 DEF Alike
    <3>5. QED BY <3>4, <1>1, <1>2, Shift
  <2>2. Moved(m, ds, 0, m2, es, 0, n)
    BY <2>1
  <2>3. Sums(m, ds)[0] = 0 /\ Sums(m2, es)[0] = 0 /\ \A i \in 0 .. Len(ds) : Sums(m, ds)[i] \in Nat
    BY <1>1, SumsIs
  <2>4. SUFFICES ASSUME NEW i \in 0 .. n PROVE Sums(m2, es)[i] = Sums(m, ds)[i]
    OBVIOUS
  <2>5. Sums(m2, es)[0 + i] = Sums(m2, es)[0] + Sums(m, ds)[0 + i] - Sums(m, ds)[0]
    BY <2>2 DEF Moved
  <2>6. 0 + i = i /\ Sums(m, ds)[i] \in Nat
    BY <2>3, <2>4, <1>2
  <2>7. PICK a \in Nat : a = Sums(m, ds)[i]
    BY <2>6
  <2>8. Sums(m2, es)[i] = 0 + a - 0
    BY <2>3, <2>5, <2>6, <2>7
  <2>9. QED BY <2>7, <2>8
<1>5. Sums(m, ds)[n] = Size(m, ds)
  BY <1>2 DEF Size
<1>6. Straight(m2, es, f)
  <2>1. SUFFICES ASSUME NEW i \in 1 .. Len(es) PROVE m2[es[i]].fsdfile = f /\ m2[es[i]].fsdpos = Sums(m2, es)[i - 1]
    BY DEF Straight
  <2>2. i - 1 \in 0 .. n
    BY <2>1, <1>1, <1>2
  <2>3. CASE i = n + 1
    <3>1. es[i] = z /\ i - 1 = n
      BY <2>3, <1>1, <1>2
    <3>2. Sums(m2, es)[n] = Size(m, ds)
      BY <1>2, <1>4, <1>5
    <3>3. QED BY <3>1, <3>2
  <2>4. CASE i # n + 1
    <3>1. i \in 1 .. Len(ds)
      BY <2>1, <2>4, <1>1, <1>2
    <3>2. es[i] = ds[i] /\ m2[ds[i]] = m[ds[i]]
      BY <3>1, <1>1, <1>2, <1>3
    <3>3. m[ds[i]].fsdfile = f /\ m[ds[i]].fsdpos = Sums(m, ds)[i - 1]
      BY <3>1 DEF Straight
    <3>4. Sums(m2, es)[i - 1] = Sums(m, ds)[i - 1]
      BY <2>2, <1>4
    <3>5. QED BY <3>2, <3>3, <3>4
  <2>5. QED BY <2>3, <2>4
<1>7. Size(m2, es) = Size(m, ds) + m2[z].fsdnlines
  <2>1. n + 1 \in 1 .. Len(es) /\ (n + 1) - 1 = n /\ n \in 0 .. n
    BY <1>1, <1>2
  <2>2. Sums(m2, es)[n + 1] = Sums(m2, es)[(n + 1) - 1] + m2[es[n + 1]].fsdnlines
    BY <2>1, <1>1, SumsIs
  <2>3. Sums(m2, es)[n + 1] = Sums(m, ds)[n] + m2[z].fsdnlines
    BY <2>1, <2>2, <1>1, <1>2, <1>4
  <2>4. QED BY <2>3, <1>1, <1>2, <1>5 DEF Size
<1>8. QED BY <1>6, <1>7

(* An fsd for lines just read keeps Text1: those of a file that is opened  *)
(* follow each other from its first line on, those of an insert are at the *)
(* end of the change file.                                                 *)
LEMMA ParseFsdText == ASSUME JInv, NEW k, ParseFsd(k) PROVE Text1'
<1>0. /\ IInv /\ TypeOK /\ Books /\ Collected /\ Stage /\ VarTypes /\ CollType /\ call \in Calls /\ Len(chg) \in Nat
      /\ fsd \in [Fsd -> Fsds] /\ Appending /\ Uncollected /\ Reading /\ Untouched
  BY TextParts
<1>1. /\ Do("parse") /\ k \in 1 .. Lesser(LA_FSDLMAX, call.left) /\ Free # {}
      /\ fsd' = [fsd EXCEPT ![Fresh] = [fsdfile |-> call.own, fsdpos |-> call.pos, fsdnlines |-> k]]
      /\ laf' = [laf EXCEPT ![call.own].la_fsrefs = @ + 1]
      /\ call' = [call EXCEPT !.new = Append(@, Fresh), !.pos = @ + k, !.left = @ - k]
      /\ chain' = chain /\ las' = las /\ chg' = chg /\ coll' = coll
  BY DEF ParseFsd
<1>2. Phase = "parse" /\ \E y : Leads("parse", y)
  BY <1>0, <1>1, StepLeads
<1>3. InParse /\ ~ call.bad /\ call.op \in {"open", "insert", "replace", "collect"}
  BY <1>0, <1>2 DEF Stage, Leads
<1>4. k \in Nat /\ k \in 1 .. LA_FSDLMAX /\ k <= call.left /\ k > 0 /\ call.left \in Nat /\ call.pos \in Nat
  <2>1. call.left \in Nat /\ call.pos \in Nat
    BY <1>0, CallIs
  <2>2. QED BY <2>1, <1>1, LimitAssumption DEF Lesser
<1>5. call.own \in Files
  BY <1>3 DEF InParse, Opening, Asked, Files
<1>6. PICK e \in Fsd : e = Fresh /\ fsd[e].fsdfile = NoFile
  BY <1>1, FreshIs
<1>7. ParsedMore(k)
  BY <1>0, <1>1, <1>4, <1>6, ParsedMoreIs
<1>8. PICK g \in Files : g = call.own
  BY <1>5
<1>9. PICK b \in Nat : b = call.pos
  BY <1>4
<1>10. MakeArgs(g, b, k) /\ Made(g, b, k)
  <2>1. Made(g, b, k)
    BY <1>1, <1>8, <1>9 DEF Made, OneMore
  <2>2. MakeArgs(g, b, k)
    BY <1>1, <1>4 DEF MakeArgs
  <2>3. QED BY <2>1, <2>2
<1>11. /\ fsd' \in [Fsd -> Fsds] /\ fsd'[e] = [fsdfile |-> g, fsdpos |-> b, fsdnlines |-> k]
       /\ \A z \in Fsd : z # e => fsd'[z] = fsd[z]
  BY <1>0, <1>6, <1>10, MadeHas DEF MadeFacts
<1>12. PICK ds : ds = call.new
  OBVIOUS
<1>13. /\ ds \in Seq(Fsd) /\ Inj(ds) /\ e \notin Elems(ds) /\ \A d \in Elems(ds) : d \in Fsd
  BY <1>0, <1>1, <1>6, <1>12, ChainsAre, FreshOut DEF Chained
<1>14. /\ call'.todo = call.todo /\ call'.op = call.op /\ call'.own = call.own /\ call'.bad = call.bad
       /\ call'.pos = call.pos + k /\ call'.new = Append(ds, e)
  BY <1>6, <1>7, <1>12 DEF ParsedMore
<1>15. Elems(call'.new) = Elems(call.new) \cup {e}
  <2>1. AppendFacts(ds, e, Append(ds, e))
    BY <1>13, AppendIs
  <2>2. QED BY <2>1, <1>12, <1>14 DEF AppendFacts
<1>16. \A z \in Fsd : Spared(z) => Spared(z)'
  BY <1>14, <1>15 DEF Spared
<1>17. Appending'
  <2>1. SUFFICES ASSUME call.op \in {"insert", "replace"} PROVE call'.pos >= Len(chg)
    BY <1>1, <1>14 DEF Appending
  <2>2. call.pos >= Len(chg)
    BY <2>1, <1>0, <1>3 DEF Appending
  <2>3. QED BY <2>2, <1>0, <1>4, <1>14
<1>18. g = Chg => Given(e)
  <2>1. SUFFICES ASSUME g = Chg PROVE Given(e)
    OBVIOUS
  <2>2. CASE call.op = "open"
    BY <2>1, <2>2, <1>3, <1>8, NameAssumption DEF InParse, Opening
  <2>3. CASE call.op = "collect"
    <3>1. Spared(e)'
      BY <2>3, <1>14, <1>15 DEF Spared
    <3>2. QED BY <3>1 DEF Given
  <2>4. CASE call.op \in {"insert", "replace"}
    <3>1. b >= Len(chg)
      BY <2>4, <1>0, <1>3, <1>9 DEF Appending
    <3>2. coll.on => coll.nxchgpos <= Len(chg) /\ coll.nxchgpos \in Nat
      BY <1>0 DEF Collected, CollType
    <3>3. fsd'[e].fsdpos = b
      BY <1>11
    <3>4. coll.on => fsd'[e].fsdpos >= coll.nxchgpos
      BY <3>1, <3>2, <3>3, <1>0
    <3>5. QED BY <3>4 DEF Given, Out
  <2>5. QED BY <2>2, <2>3, <2>4, <1>3
<1>19. Uncollected' /\ Untouched'
  BY <1>1, <1>6, <1>10, <1>16, <1>18, MakeTexts
<1>20. Reading'
  <2>1. SUFFICES ASSUME call.op = "open"
                 PROVE  Straight(fsd', call'.new, call'.own) /\ Size(fsd', call'.new) = call'.pos
    <3>1. Phase' = "parse"
      BY <1>2, <1>14 DEF Phase
    <3>2. QED BY <3>1, <1>14 DEF Reading
  <2>2. Straight(fsd, ds, g) /\ Size(fsd, ds) = b
    BY <2>1, <1>0, <1>2, <1>8, <1>9, <1>12 DEF Reading
  <2>3. \A d \in Elems(ds) : fsd'[d] = fsd[d]
    BY <1>11, <1>13
  <2>4. PICK es : es = Append(ds, e)
    OBVIOUS
  <2>5. OneLonger(ds, e, es)
    BY <2>4, <1>13, LongerBy
  <2>6. fsd'[e].fsdfile = g /\ fsd'[e].fsdpos = Size(fsd, ds) /\ fsd'[e].fsdnlines = k
    BY <2>2, <1>11
  <2>7. Straight(fsd', es, g) /\ Size(fsd', es) = Size(fsd, ds) + fsd'[e].fsdnlines
    BY <2>2, <2>3, <2>5, <2>6, <1>0, <1>11, <1>13, StraightMore
  <2>8. QED BY <2>2, <2>4, <2>6, <2>7, <1>8, <1>9, <1>14
<1>21. QED BY <1>17, <1>19, <1>20 DEF Text1

-----------------------------------------------------------------------------
(* What callers do. *)
LEMMA IdleText ==
  ASSUME JInv, Idle
  PROVE  call.op = "none" /\ \A d : ~ Spared(d)
<1>1. call.op = "none"
  BY TextParts, IdleIs
<1>2. QED BY <1>1 DEF Spared

(* The beginning of an operation keeps Text1.                              *)
LEMMA BeginText ==
  ASSUME JInv, Idle, Idly, chg' = chg, coll' = coll, Appending', Reading'
  PROVE  Text1'
<1>0. /\ CollType /\ fsd \in [Fsd -> Fsds] /\ (\A f \in Files : chain[f] \in Seq(Fsd)) /\ Uncollected /\ Untouched
  BY TextParts
<1>1. \A d \in Fsd : Spared(d) => Spared(d)'
  BY IdleText
<1>2. Uncollected'
  BY <1>0, <1>1, USame DEF Idly
<1>3. \A f \in File : IsOpen(f)' /\ ~ laf'[f].la_mode =>
         /\ IsOpen(f) /\ ~ laf[f].la_mode /\ chain'[f] = chain[f]
         /\ \A d \in Elems(chain[f]) : fsd'[d] = fsd[d]
  BY DEF IsOpen, Idly
<1>4. Untouched'
  BY <1>0, <1>3, TFrame DEF Idly
<1>5. QED BY <1>2, <1>4 DEF Text1

(* The same, of an operation that neither writes lines nor opens a file.   *)
LEMMA OtherBegins ==
  ASSUME JInv, Idle, Idly, chg' = chg, coll' = coll, call'.op \notin {"insert", "replace", "open"}
  PROVE  Text1'
BY BeginText DEF Appending, Reading

(* The same, of one that writes lines: they go to the end of the change    *)
(* file.                                                                   *)
LEMMA FillText ==
  ASSUME JInv, Idle, Idly, chg' = chg, coll' = coll, call'.op \in {"insert", "replace"}, call'.pos = Len(chg)
  PROVE  Text1'
<1>1. Len(chg) \in Nat
  BY TextParts
<1>2. QED BY <1>1, BeginText DEF Appending, Reading

(* Beginning an insert keeps Text1.                                        *)
LEMMA BeginInsertText ==
  ASSUME JInv, NEW s \in Stream, NEW new \in NewText, BeginInsert(s, new)
  PROVE  Text1'
<1>0. IInv
  BY TextParts
<1>1. /\ Idle /\ Idly /\ chg' = chg /\ coll' = coll
      /\ call' = [Request(Ask("insert", s, None, 0, new), InsertSteps)
                    EXCEPT !.text = new, !.own = Chg, !.pos = Len(chg), !.left = Len(new)]
  BY DEF BeginInsert, MayEdit, Idly
<1>2. new \in Seq(Line) /\ Len(new) \in Nat
  BY TextAssumption
<1>3. Len(chg) \in Nat
  BY TextParts
<1>4. InsertSteps \in Seq(Steps)
  BY DEF InsertSteps, Steps
<1>5. PICK ask \in Asks : ask = Ask("insert", s, None, 0, new) /\ ask.op = "insert" /\ ask.s = s /\ ask.d = None /\ ask.n = 0
  <2>1. "insert" \in Ops /\ None \in Stream \cup {None} /\ 0 \in Nat
    BY <1>2 DEF Ops
  <2>2. /\ Ask("insert", s, None, 0, new) \in Asks /\ Ask("insert", s, None, 0, new).op = "insert" /\ Ask("insert", s, None, 0, new).s = s
        /\ Ask("insert", s, None, 0, new).d = None /\ Ask("insert", s, None, 0, new).n = 0
    BY <1>2, <2>1, NameAssumption DEF Ask, Asks
  <2>3. QED BY <2>2
<1>6. PICK r : r = Request(ask, InsertSteps)
  OBVIOUS
<1>7. Requested(r, "insert", InsertSteps, s, None, 0)
  BY <1>0, <1>1, <1>4, <1>5, <1>6, AskedIs
<1>8. Chg \in Files \cup {NoFile}
  BY DEF Files
<1>9. call' = [r EXCEPT !.text = new, !.own = Chg, !.pos = Len(chg), !.left = Len(new)]
  BY <1>1, <1>5, <1>6, SMTT(45)
<1>10. Begun("insert", InsertSteps, s, None, 0) /\ Supplied(new, Chg, Len(chg), Len(new))
  BY <1>2, <1>3, <1>7, <1>8, <1>9, BegunIs
<1>11. call'.op = "insert" /\ call'.pos = Len(chg)
  BY <1>10 DEF Begun, Supplied
<1>12. QED BY <1>1, <1>11, FillText

(* Beginning a replace keeps Text1.                                        *)
LEMMA BeginReplaceText ==
  ASSUME JInv, NEW s \in Stream, NEW new \in NewText, NEW n \in Counts, NEW d \in Stream \cup {None}, BeginReplace(s, new, n, d)
  PROVE  Text1'
<1>0. IInv
  BY TextParts
<1>1. /\ Idle /\ Idly /\ chg' = chg /\ coll' = coll
      /\ call' = [Request(Ask("replace", s, d, n, new), Append(InsertSteps, "del"))
                    EXCEPT !.text = new, !.own = Chg, !.pos = Len(chg), !.left = Len(new)]
  BY DEF BeginReplace, MayEdit, Idly
<1>2. new \in Seq(Line) /\ Len(new) \in Nat /\ n \in Nat
  BY TextAssumption
<1>3. Len(chg) \in Nat
  BY TextParts
<1>15. PICK v : v = Append(InsertSteps, "del")
  OBVIOUS
<1>4. v \in Seq(Steps)
  <2>1. InsertSteps \in Seq(Steps) /\ "del" \in Steps
    BY DEF InsertSteps, Steps
  <2>2. QED BY <2>1, <1>15
<1>5. PICK ask \in Asks : ask = Ask("replace", s, d, n, new) /\ ask.op = "replace" /\ ask.s = s /\ ask.d = d /\ ask.n = n
  <2>1. "replace" \in Ops /\ n \in Nat
    BY <1>2 DEF Ops
  <2>2. /\ Ask("replace", s, d, n, new) \in Asks /\ Ask("replace", s, d, n, new).op = "replace" /\ Ask("replace", s, d, n, new).s = s
        /\ Ask("replace", s, d, n, new).d = d /\ Ask("replace", s, d, n, new).n = n
    BY <1>2, <2>1, NameAssumption DEF Ask, Asks
  <2>3. QED BY <2>2
<1>6. PICK r : r = Request(ask, v)
  OBVIOUS
<1>7. Requested(r, "replace", v, s, d, n)
  BY <1>0, <1>1, <1>4, <1>5, <1>6, AskedIs
<1>8. Chg \in Files \cup {NoFile}
  BY DEF Files
<1>9. call' = [r EXCEPT !.text = new, !.own = Chg, !.pos = Len(chg), !.left = Len(new)]
  BY <1>1, <1>5, <1>6, <1>15
<1>10. Begun("replace", v, s, d, n) /\ Supplied(new, Chg, Len(chg), Len(new))
  BY <1>2, <1>3, <1>7, <1>8, <1>9, BegunIs
<1>11. call'.op = "replace" /\ call'.pos = Len(chg)
  BY <1>10 DEF Begun, Supplied
<1>12. QED BY <1>1, <1>11, FillText

(* The operation of a request, whatever else it is given. *)
LEMMA OpIs ==
  ASSUME call \in Calls, NEW op, NEW s, NEW d, NEW n, NEW new, NEW v
  PROVE  LET r == Request(Ask(op, s, d, n, new), v)
         IN  r.op = op /\ DOMAIN r = DOMAIN call
<1>1. PICK e : e = Ended("ok")
  OBVIOUS
<1>2. e \in Calls
  BY <1>1, EndedIs
<1>3. PICK ask : ask = Ask(op, s, d, n, new)
  OBVIOUS
<1>4. ask.op = op
  BY <1>3 DEF Ask
<1>5. PICK w, k, a, b, c : Request(ask, v) = [e EXCEPT !.op = op, !.todo = v, !.p = a, !.d = b, !.n = c, !.was = w, !.edits = k]
  BY <1>1, <1>4 DEF Request
<1>6. DOMAIN e = DOMAIN call /\ "op" \in DOMAIN e
  BY <1>2 DEF Calls
<1>7. PICK q : q = [e EXCEPT !.op = op]
  OBVIOUS
<1>8. q.op = op /\ DOMAIN q = DOMAIN e
  BY <1>6, <1>7
<1>9. PICK q2 : q2 = [q EXCEPT !.todo = v, !.p = a, !.d = b]
  OBVIOUS
<1>10. q2.op = op /\ DOMAIN q2 = DOMAIN e
  BY <1>8, <1>9
<1>11. PICK q3 : q3 = [q2 EXCEPT !.n = c, !.was = w, !.edits = k]
  OBVIOUS
<1>12. q3.op = op /\ DOMAIN q3 = DOMAIN e
  BY <1>10, <1>11
<1>13. Request(ask, v) = q3
  BY <1>5, <1>7, <1>9, <1>11
<1>14. QED BY <1>3, <1>6, <1>12, <1>13

(* Beginning a delete keeps Text1.                                         *)
LEMMA BeginDeleteText ==
  ASSUME JInv, NEW s, NEW n, NEW d, BeginDelete(s, n, d)
  PROVE  Text1'
<1>1. /\ Idle /\ Idly /\ chg' = chg /\ coll' = coll
      /\ call' = Request(Ask("delete", s, d, n, << >>), << "del" >>)
  BY DEF BeginDelete, MayEdit, Idly
<1>2. call \in Calls
  BY TextParts
<1>3. call'.op = "delete"
  BY <1>1, <1>2, OpIs
<1>4. QED BY <1>1, <1>3, OtherBegins

(* Beginning a copy keeps Text1.                                           *)
LEMMA BeginCopyText ==
  ASSUME JInv, NEW s, NEW d, NEW n, BeginCopy(s, d, n)
  PROVE  Text1'
<1>1. /\ Idle /\ Idly /\ chg' = chg /\ coll' = coll
      /\ call' = [Request(Ask("copy", s, d, n, << >>), CopySteps) EXCEPT !.cfsd = las[s].la_cfsd]
  BY DEF BeginCopy, MayEdit, Idly
<1>2. call \in Calls
  BY TextParts
<1>3. PICK r : r = Request(Ask("copy", s, d, n, << >>), CopySteps)
  OBVIOUS
<1>4. r.op = "copy"
  BY <1>2, <1>3, OpIs
<1>5. call'.op = "copy"
  BY <1>1, <1>3, <1>4
<1>6. QED BY <1>1, <1>5, OtherBegins

(* Beginning a blank keeps Text1.                                          *)
LEMMA BeginBlankText ==
  ASSUME JInv, NEW s, NEW n, BeginBlank(s, n)
  PROVE  Text1'
<1>1. Idle /\ Idly /\ chg' = chg /\ coll' = coll
  BY DEF BeginBlank, MayEdit, Idly
<1>2. call \in Calls
  BY TextParts
<1>3. PICK w, v : call' = [Request(Ask("blank", s, None, 0, w), v) EXCEPT !.p = Blas, !.d = s, !.blank = n]
  BY ZenonT(45) DEF BeginBlank
<1>4. PICK r : r = Request(Ask("blank", s, None, 0, w), v)
  OBVIOUS
<1>5. r.op = "blank"
  BY <1>2, <1>4, OpIs
<1>6. call' = [r EXCEPT !.p = Blas, !.d = s, !.blank = n]
  BY <1>3, <1>4
<1>7. call'.op = "blank"
  BY <1>5, <1>6
<1>8. QED BY <1>1, <1>7, OtherBegins

(* Beginning to link a collection in keeps Text1.                          *)
LEMMA BeginCollectText ==
  ASSUME JInv, NEW s, NEW n, NEW d, BeginCollect(s, n, d)
  PROVE  Text1'
<1>1. Idle /\ Idly /\ chg' = chg /\ coll' = coll
  BY DEF BeginCollect, MayEdit, Idly
<1>2. call \in Calls
  BY TextParts
<1>3. PICK new, v, b, c : call' = [Request(Ask("collect", s, d, n, new), v) EXCEPT !.own = Chg, !.pos = b, !.left = c]
  BY DEF BeginCollect
<1>4. PICK r : r = Request(Ask("collect", s, d, n, new), v)
  OBVIOUS
<1>5. r.op = "collect"
  BY <1>2, <1>4, OpIs
<1>6. call' = [r EXCEPT !.own = Chg, !.pos = b, !.left = c]
  BY <1>3, <1>4
<1>7. call'.op = "collect"
  BY <1>5, <1>6
<1>8. QED BY <1>1, <1>7, OtherBegins

(* Beginning to open a file keeps Text1: no fsd yet, and nothing read.     *)
LEMMA BeginOpenText ==
  ASSUME JInv, NEW s \in Stream, NEW f \in File, BeginOpen(s, f)
  PROVE  Text1'
<1>0. IInv
  BY TextParts
<1>15. PICK ask : ask = [Ask("open", s, None, 0, << >>) EXCEPT !.f = f]
  OBVIOUS
<1>16. PICK v : v = << "parse", "openret" >>
  OBVIOUS
<1>1. /\ Idle /\ Idly /\ chg' = chg /\ coll' = coll
      /\ call' = [Request(ask, v) EXCEPT !.own = f, !.left = Len(DiskText[f])]
  BY <1>15, <1>16 DEF BeginOpen, Idly
<1>2. << >> \in Seq(Line) /\ Len(DiskText[f]) \in Nat
  BY TextAssumption
<1>4. v \in Seq(Steps)
  BY <1>16 DEF Steps
<1>5. ask \in Asks /\ ask.op = "open" /\ ask.s = s /\ ask.d = None /\ ask.n = 0
  <2>1. "open" \in Ops
    BY DEF Ops
  <2>2. QED BY <1>2, <1>15, <2>1, NameAssumption DEF Ask, Asks
<1>6. PICK r : r = Request(ask, v)
  OBVIOUS
<1>7. Requested(r, "open", v, s, None, 0)
  BY <1>0, <1>1, <1>4, <1>5, <1>6, AskedIs
<1>8. r \in Calls /\ r.op = "open" /\ r.todo = v /\ r.new = << >> /\ r.pos = 0
  BY <1>7 DEF Requested
<1>9. PICK l \in Nat : l = Len(DiskText[f])
  BY <1>2
<1>10. call'.op = "open" /\ call'.todo = v /\ call'.new = << >> /\ call'.pos = 0
  <2>1. call' = [r EXCEPT !.own = f, !.left = l]
    BY <1>1, <1>6, <1>9
  <2>2. QED BY <2>1, <1>8 DEF Calls
<1>11. Phase' = "parse"
  BY <1>10, <1>16 DEF Phase
<1>12. Reading'
  <2>1. Len(<< >>) = 0
    OBVIOUS
  <2>2. Size(fsd', << >>) = 0 /\ Straight(fsd', << >>, call'.own)
    BY <2>1, EmptyIs DEF Straight
  <2>3. QED BY <2>2, <1>10, <1>11 DEF Reading
<1>13. Appending'
  BY <1>10 DEF Appending
<1>14. QED BY <1>1, <1>12, <1>13, BeginText

(* A return, after which nothing is in progress, keeps Text1.              *)
LEMMA EndText ==
  ASSUME JInv, call'.op = "none", fsd' = fsd, chain' = chain, chg' = chg, coll' = coll \/ coll'.on = FALSE,
         \A d \in Fsd : Spared(d) => coll'.on = FALSE,
         \A f \in Files : laf'[f].la_mode = laf[f].la_mode /\ laf'[f].la_refs = laf[f].la_refs
  PROVE  Text1'
<1>0. /\ CollType /\ fsd \in [Fsd -> Fsds] /\ (\A f \in Files : chain[f] \in Seq(Fsd)) /\ Uncollected /\ Untouched
  BY TextParts
<1>1. Appending' /\ Reading'
  BY DEF Appending, Reading
<1>2. Uncollected'
  <2>1. CASE coll'.on = FALSE
    BY <2>1 DEF Uncollected
  <2>2. CASE coll' = coll /\ coll'.on # FALSE
    BY <2>2, <1>0, USame
  <2>3. QED BY <2>1, <2>2
<1>3. \A f \in File : IsOpen(f)' /\ ~ laf'[f].la_mode =>
         /\ IsOpen(f) /\ ~ laf[f].la_mode /\ chain'[f] = chain[f]
         /\ \A d \in Elems(chain[f]) : fsd'[d] = fsd[d]
  BY DEF IsOpen, Files
<1>4. Untouched'
  BY <1>0, <1>3, TFrame
<1>5. QED BY <1>1, <1>2, <1>4 DEF Text1

(* The return of an operation keeps Text1.                                 *)
LEMMA ReturnText ==
  ASSUME JInv, Return
  PROVE  Text1'
<1>1. /\ call.op # "collect" /\ fsd' = fsd /\ chain' = chain /\ laf' = laf /\ chg' = chg /\ coll' = coll
      /\ call' = Ended(IF call.bad THEN "err" ELSE "ok")
  BY DEF Return
<1>2. call'.op = "none"
  <2>1. PICK r \in {"ok", "err", "abort"} : r = IF call.bad THEN "err" ELSE "ok"
    OBVIOUS
  <2>2. call' = Ended(r)
    BY <2>1, <1>1
  <2>3. QED BY <2>2, TextParts, EndedIs
<1>3. \A d \in Fsd : ~ Spared(d)
  BY <1>1 DEF Spared
<1>4. QED BY <1>1, <1>2, <1>3, EndText

(* The return of a collection keeps Text1: its lines are in a file, and it *)
(* is over.                                                                *)
LEMMA CollectReturnText ==
  ASSUME JInv, CollectReturn
  PROVE  Text1'
<1>1. fsd' = fsd /\ chain' = chain /\ laf' = laf /\ chg' = chg /\ coll' = Dormant /\ call' = Ended("ok")
  BY DEF CollectReturn
<1>2. call'.op = "none"
  BY <1>1, TextParts, EndedIs
<1>3. coll'.on = FALSE
  BY <1>1, DormantIs
<1>4. QED BY <1>1, <1>2, <1>3, EndText

(* Lines are collected. *)
LEMMA CollectedText ==
  ASSUME JInv, Idle, Idly, call' = call, NEW a \in Nat, NEW b \in Nat, coll' = [on |-> TRUE, chgpos |-> a, nxchgpos |-> b],
         a = Len(chg) \/ (coll.on /\ coll.nxchgpos = Len(chg) /\ a = coll.chgpos)
  PROVE  Text1'
<1>0. /\ IInv /\ TypeOK /\ Books /\ InStore /\ CollType /\ fsd \in [Fsd -> Fsds] /\ (\A f \in Files : chain[f] \in Seq(Fsd))
      /\ Uncollected /\ Untouched /\ Len(chg) \in Nat
  BY TextParts
<1>1. call.op = "none" /\ ~ Filling /\ \A d : ~ Spared(d)
  BY <1>0, IdleText, IdleIs
<1>2. Appending' /\ Reading'
  BY <1>1 DEF Appending, Reading
<1>3. Uncollected'
  <2>1. SUFFICES ASSUME NEW d \in Fsd, fsd[d].fsdfile = Chg
                 PROVE  fsd[d].fsdpos + fsd[d].fsdnlines <= a
    BY DEF Uncollected, Out, Idly
  <2>2. Chg # NoFile
    BY NameAssumption
  <2>3. PICK p \in Nat, n \in Nat, m \in Nat : p = fsd[d].fsdpos /\ n = fsd[d].fsdnlines /\ m = Len(chg)
    BY <2>1, <1>0 DEF Fsds
  <2>4. n > 0
    <3>1. fsd[d].fsdnlines \in 1 .. LA_FSDLMAX
      BY <2>1, <2>2, <1>0 DEF Books, Lined
    <3>2. QED BY <3>1, <2>3
  <2>5. p + n <= m
    <3>1. Within1(d)
      BY <2>1, <2>2, <1>0, <1>1 DEF InStore, Filling
    <3>2. QED BY <3>1, <2>1, <2>3 DEF Within1, Store
  <2>6. CASE a = Len(chg)
    BY <2>3, <2>5, <2>6
  <2>7. CASE coll.on /\ coll.nxchgpos = Len(chg) /\ a = coll.chgpos
    <3>1. Out(coll, p, n)
      BY <2>1, <2>3, <2>7, <1>0, <1>1 DEF Uncollected
    <3>2. p >= m \/ p + n <= a
      BY <3>1, <2>3, <2>7 DEF Out
    <3>3. QED BY <3>2, <2>3, <2>4, <2>5
  <2>8. QED BY <2>6, <2>7
<1>4. \A f \in File : IsOpen(f)' /\ ~ laf'[f].la_mode =>
         /\ IsOpen(f) /\ ~ laf[f].la_mode /\ chain'[f] = chain[f]
         /\ \A d \in Elems(chain[f]) : fsd'[d] = fsd[d]
  BY DEF IsOpen, Idly
<1>5. Untouched'
  BY <1>0, <1>4, TFrame DEF Idly
<1>6. QED BY <1>2, <1>3, <1>5 DEF Text1

(* The change file has a length, and so has what is added to it.           *)
LEMMA EndPlace ==
  ASSUME chg \in Seq(Line), NEW new \in NewText
  PROVE  Len(chg) \in Nat /\ Len(chg) + Len(new) \in Nat
<1>1. new \in Seq(Line)
  BY TextAssumption
<1>2. Len(new) \in Nat /\ Len(chg) \in Nat
  BY <1>1
<1>3. QED BY <1>2

(* la_lcollect keeps Text1: it begins at the end of the change file, where *)
(* no fsd describes anything, or goes on there.                            *)
LEMMA LCollectText ==
  ASSUME JInv, NEW new \in NewText, NEW start \in BOOLEAN, LCollect(start, new)
  PROVE  Text1'
<1>0. CollType /\ chg \in Seq(Line) /\ coll.chgpos \in Nat
  BY TextParts DEF CollType
<1>1. /\ Idle /\ (start \/ (coll.on /\ coll.nxchgpos = Len(chg))) /\ Idly /\ call' = call
      /\ coll' = [on |-> TRUE, chgpos |-> IF start THEN Len(chg) ELSE coll.chgpos, nxchgpos |-> Len(chg) + Len(new)]
  BY DEF LCollect, Idly
<1>2. PICK c \in Nat, b \in Nat : c = Len(chg) /\ b = Len(chg) + Len(new)
  BY <1>0, EndPlace
<1>3. PICK a \in Nat : a = IF start THEN c ELSE coll.chgpos
  BY <1>0
<1>4. coll' = [on |-> TRUE, chgpos |-> a, nxchgpos |-> b]
  BY <1>1, <1>2, <1>3
<1>5. a = Len(chg) \/ (coll.on /\ coll.nxchgpos = Len(chg) /\ a = coll.chgpos)
  BY <1>1, <1>2, <1>3
<1>6. QED BY <1>1, <1>4, <1>5, CollectedText

(* la_tcollect keeps Text1.                                                *)
LEMMA TCollectText ==
  ASSUME JInv, NEW new \in NewText, TCollect(new)
  PROVE  Text1'
<1>0. chg \in Seq(Line)
  BY TextParts
<1>1. /\ Idle /\ Idly /\ call' = call
      /\ coll' = [on |-> TRUE, chgpos |-> Len(chg), nxchgpos |-> Len(chg) + Len(new)]
  BY DEF TCollect, Idly
<1>2. PICK c \in Nat, b \in Nat : c = Len(chg) /\ b = Len(chg) + Len(new)
  BY <1>0, EndPlace
<1>3. coll' = [on |-> TRUE, chgpos |-> c, nxchgpos |-> b]
  BY <1>1, <1>2
<1>4. QED BY <1>1, <1>2, <1>3, CollectedText

(* A failing la_lcollect keeps Text1.                                      *)
LEMMA LCollectFailsText ==
  ASSUME JInv, LCollectFails
  PROVE  Text1'
<1>1. Idle /\ fsd' = fsd /\ chain' = chain /\ laf' = laf /\ chg' = chg /\ coll' = Dormant /\ call' = call
  BY DEF LCollectFails
<1>2. call'.op = "none" /\ \A d : ~ Spared(d)
  BY <1>1, IdleText
<1>3. coll'.on = FALSE
  BY <1>1, DormantIs
<1>4. QED BY <1>1, <1>2, <1>3, EndText

(* Streams are moved, cloned and closed. *)
LEMMA MovesText ==
  ASSUME JInv, Idle, call' = call, fsd' = fsd, chain' = chain, chg' = chg, coll' = coll,
         \A f \in File : laf'[f].la_mode = laf[f].la_mode /\ (laf'[f].la_refs > 0 => laf[f].la_refs > 0)
  PROVE  Text1'
<1>0. /\ CollType /\ fsd \in [Fsd -> Fsds] /\ (\A f \in Files : chain[f] \in Seq(Fsd)) /\ Uncollected /\ Untouched
  BY TextParts
<1>1. call.op = "none" /\ \A d : ~ Spared(d)
  BY IdleText
<1>2. Appending' /\ Reading'
  BY <1>1 DEF Appending, Reading
<1>3. Uncollected'
  BY <1>0, <1>1, USame
<1>4. \A f \in File : IsOpen(f)' /\ ~ laf'[f].la_mode =>
         /\ IsOpen(f) /\ ~ laf[f].la_mode /\ chain'[f] = chain[f]
         /\ \A d \in Elems(chain[f]) : fsd'[d] = fsd[d]
  BY DEF IsOpen
<1>5. Untouched'
  BY <1>0, <1>4, TFrame
<1>6. QED BY <1>2, <1>3, <1>5 DEF Text1

(* Changing a stream alone keeps Text1.                                    *)
LEMMA SetText ==
  ASSUME JInv, NEW s, NEW x, SetStream(s, x)
  PROVE  Text1'
BY MovesText DEF SetStream

(* la_clone keeps Text1.                                                   *)
LEMMA CloneText ==
  ASSUME JInv, NEW s \in Stream, NEW t \in Stream, Clone(t, s)
  PROVE  Text1'
<1>0. TypeOK /\ Books /\ VarTypes
  BY TextParts
<1>1. /\ Idle /\ call' = call /\ chg' = chg /\ coll' = coll /\ fsd' = fsd /\ chain' = chain /\ Open(t)
      /\ laf' = [laf EXCEPT ![las[t].la_file].la_refs = @ + 1]
  BY DEF Clone
<1>2. PICK f \in File : f = las[t].la_file /\ IsOpen(f)
  BY <1>0, <1>1, OpenIs
<1>3. laf' = [laf EXCEPT ![f].la_refs = @ + 1]
  BY <1>1, <1>2
<1>4. ASSUME NEW g \in File PROVE laf'[g].la_mode = laf[g].la_mode /\ (laf'[g].la_refs > 0 => laf[g].la_refs > 0)
  <2>1. g \in Files /\ laf[g] \in LaFiles
    BY <1>0 DEF VarTypes, Files
  <2>2. CASE g = f
    <3>1. laf'[g] = [laf[g] EXCEPT !.la_refs = @ + 1]
      BY <2>1, <2>2, <1>0, <1>3 DEF VarTypes
    <3>2. laf'[g].la_mode = laf[g].la_mode
      BY <2>1, <3>1 DEF LaFiles
    <3>3. QED BY <3>2, <2>2, <1>2 DEF IsOpen
  <2>3. CASE g # f
    BY <2>1, <2>3, <1>0, <1>3 DEF VarTypes
  <2>4. QED BY <2>2, <2>3
<1>5. QED BY <1>1, <1>4, MovesText

(* Closing a stream that is not the last keeps Text1.                      *)
LEMMA CloseStreamText ==
  ASSUME JInv, NEW s \in Stream, CloseStream(s)
  PROVE  Text1'
<1>0. TypeOK /\ Books /\ VarTypes
  BY TextParts
<1>1. /\ Idle /\ call' = call /\ chg' = chg /\ coll' = coll /\ fsd' = fsd /\ chain' = chain /\ Open(s)
      /\ laf' = [laf EXCEPT ![las[s].la_file].la_refs = @ - 1]
  BY DEF CloseStream
<1>2. PICK f \in File : f = las[s].la_file /\ IsOpen(f)
  BY <1>0, <1>1, OpenIs
<1>3. laf' = [laf EXCEPT ![f].la_refs = @ - 1]
  BY <1>1, <1>2
<1>4. ASSUME NEW g \in File PROVE laf'[g].la_mode = laf[g].la_mode /\ (laf'[g].la_refs > 0 => laf[g].la_refs > 0)
  <2>1. g \in Files /\ laf[g] \in LaFiles
    BY <1>0 DEF VarTypes, Files
  <2>2. CASE g = f
    <3>1. laf'[g] = [laf[g] EXCEPT !.la_refs = @ - 1]
      BY <2>1, <2>2, <1>0, <1>3 DEF VarTypes
    <3>2. laf'[g].la_mode = laf[g].la_mode
      BY <2>1, <3>1 DEF LaFiles
    <3>3. QED BY <3>2, <2>2, <1>2 DEF IsOpen
  <2>3. CASE g # f
    BY <2>1, <2>3, <1>0, <1>3 DEF VarTypes
  <2>4. QED BY <2>2, <2>3
<1>5. QED BY <1>1, <1>4, MovesText

(* Closing the last stream of a file keeps Text1.                          *)
LEMMA CloseFileText ==
  ASSUME JInv, ~ CloseShared, NEW s \in Stream, CloseFile(s)
  PROVE  Text1'
<1>0. /\ TypeOK /\ Books /\ VarTypes /\ CollType /\ fsd \in [Fsd -> Fsds] /\ (\A f \in Files : chain[f] \in Seq(Fsd))
      /\ Uncollected /\ Untouched
  BY TextParts
<1>1. /\ Idle /\ Open(s) /\ call' = call /\ chg' = chg /\ coll' = coll /\ Unshared(las[s].la_file)
      /\ chain' = [chain EXCEPT ![las[s].la_file] = << >>]
  BY DEF CloseFile
<1>2. /\ Books' /\ VarTypes' /\ laf'[las[s].la_file].la_refs = 0
      /\ \A d \in Fsd : fsd'[d].fsdfile # NoFile => fsd'[d] = fsd[d]
  BY <1>0, <1>1, CloseFileBooks
<1>3. fsd' \in [Fsd -> Fsds]
  BY <1>2 DEF VarTypes
<1>4. call.op = "none" /\ \A d : ~ Spared(d)
  BY <1>1, IdleText
<1>5. Appending' /\ Reading'
  BY <1>1, <1>4 DEF Appending, Reading
<1>6. Uncollected'
  BY <1>0, <1>1, <1>2, <1>3, <1>4, UFreed
<1>7. PICK f \in File : f = las[s].la_file /\ f \in Files
  BY <1>0, <1>1, OpenIs
<1>8. \A g \in File : IsOpen(g)' => g # f /\ laf'[g].la_mode = laf[g].la_mode /\ laf'[g].la_refs = laf[g].la_refs
  <2>1. SUFFICES ASSUME NEW g \in File, IsOpen(g)'
                 PROVE  g # f /\ laf'[g].la_mode = laf[g].la_mode /\ laf'[g].la_refs = laf[g].la_refs
    OBVIOUS
  <2>2. g # f
    <3>1. laf'[f].la_refs = 0
      BY <1>2, <1>7
    <3>2. laf'[g].la_refs > 0
      BY <2>1 DEF IsOpen
    <3>3. QED BY <3>1, <3>2
  <2>3. g \in Files /\ laf[g] \in LaFiles
    BY <1>0 DEF VarTypes, Files
  <2>4. \E z : laf'[g] = [laf[g] EXCEPT !.la_fsrefs = z]
    BY <2>2, <2>3, <1>7 DEF CloseFile
  <2>5. QED BY <2>2, <2>3, <2>4 DEF LaFiles
<1>9. Untouched'
  <2>1. ASSUME NEW g \in File, IsOpen(g)', ~ laf'[g].la_mode
        PROVE  /\ IsOpen(g) /\ ~ laf[g].la_mode /\ chain'[g] = chain[g]
               /\ \A d \in Elems(chain[g]) : fsd'[d] = fsd[d]
    <3>1. g # f /\ laf'[g].la_mode = laf[g].la_mode /\ laf'[g].la_refs = laf[g].la_refs
      BY <2>1, <1>8
    <3>2. g \in Files /\ chain'[g] = chain[g]
      BY <3>1, <1>0, <1>1, <1>7 DEF VarTypes, Files
    <3>3. Disjoint(chain[g], chain[f])
      BY <3>1, <3>2, <1>0, <1>7, ChainsApart
    <3>4. chain[g] \in Seq(Fsd) /\ chain[f] \in Seq(Fsd)
      BY <3>2, <1>0, <1>7
    <3>5. \A d \in Elems(chain[g]) : d \in Fsd /\ ~ \E i \in DOMAIN chain[f] : chain[f][i] = d
      <4>1. PICK a \in Seq(Fsd), b \in Seq(Fsd) : a = chain[g] /\ b = chain[f]
        BY <3>4
      <4>2. \A d \in Elems(a) : d \in Fsd
        BY <4>1 DEF Elems
      <4>3. \A d \in Elems(a) : d \notin Elems(b)
        BY <4>1, <3>3 DEF Disjoint
      <4>4. \A d : (\E i \in DOMAIN b : b[i] = d) => d \in Elems(b)
        BY <4>1 DEF Elems
      <4>5. QED BY <4>1, <4>2, <4>3, <4>4
    <3>6. \A d \in Elems(chain[g]) : fsd'[d] = fsd[d]
      BY <3>5, <1>7 DEF CloseFile
    <3>7. QED BY <3>1, <3>2, <3>6, <2>1 DEF IsOpen
  <2>2. QED BY <2>1, <1>0, <1>3, TFrame
<1>10. QED BY <1>5, <1>6, <1>9 DEF Text1

(* A file is open. *)
LEMMA OpenReturnText ==
  ASSUME JInv, OpenReturn
  PROVE  Text1'
<1>0. /\ IInv /\ Stage /\ VarTypes /\ CollType /\ call \in Calls /\ fsd \in [Fsd -> Fsds]
      /\ (\A f \in Files : chain[f] \in Seq(Fsd)) /\ Uncollected /\ Reading /\ Untouched
  BY TextParts
<1>1. Do("openret") /\ fsd' = fsd /\ chg' = chg /\ coll' = coll /\ call' = [Done EXCEPT !.new = << >>]
  BY DEF OpenReturn
<1>2. Phase = "openret" /\ call.todo # << >> /\ Head(call.todo) = "openret" /\ \E y : Leads("openret", y)
  BY <1>0, <1>1, StepLeads
<1>3. InOpen /\ call.op = "open" /\ ~ call.bad
  BY <1>0, <1>2 DEF Stage, Leads
<1>4. PICK c \in Nat : c = call.cnt
  BY <1>0, CallIs
<1>5. NewGone(c)
  BY <1>0, <1>1, <1>2, <1>4, NewGoneIs
<1>6. Phase' = "end"
  <2>1. Onwards
    BY <1>2, <1>5 DEF Onwards, NewGone
  <2>2. Script' /\ Leads("openret", Phase')
    BY <2>1, <1>0, <1>2, TextParts, Onward
  <2>3. QED BY <2>2 DEF Leads
<1>7. Appending' /\ Reading'
  BY <1>3, <1>5, <1>6 DEF Appending, Reading, NewGone
<1>8. \A d \in Fsd : Spared(d) => Spared(d)'
  BY <1>3 DEF Spared
<1>9. Uncollected'
  BY <1>0, <1>1, <1>8, USame
<1>10. PICK f \in File : f = call.own
  BY <1>3 DEF InOpen, Opening
<1>11. Whole(fsd, call.new, f)
  BY <1>0, <1>2, <1>3, <1>10 DEF Reading, Whole
<1>12. /\ chain' = [chain EXCEPT ![f] = call.new]
       /\ \E z : laf' = [laf EXCEPT ![f] = z]
  BY <1>10 DEF OpenReturn
<1>13. Untouched'
  <2>1. SUFFICES ASSUME NEW g \in File, IsOpen(g)', ~ laf'[g].la_mode PROVE Whole(fsd, chain'[g], g)
    BY <1>1 DEF Untouched
  <2>2. g \in Files
    BY DEF Files
  <2>3. CASE g = f
    <3>1. chain'[g] = call.new
      BY <2>2, <2>3, <1>0, <1>12 DEF VarTypes
    <3>2. QED BY <3>1, <2>3, <1>11
  <2>4. CASE g # f
    <3>1. chain'[g] = chain[g] /\ laf'[g] = laf[g]
      BY <2>2, <2>4, <1>0, <1>12 DEF VarTypes
    <3>2. IsOpen(g) /\ ~ laf[g].la_mode
      BY <3>1, <2>1 DEF IsOpen
    <3>3. QED BY <3>1, <3>2, <1>0 DEF Untouched
  <2>5. QED BY <2>3, <2>4
<1>14. QED BY <1>7, <1>9, <1>13 DEF Text1

(* Text1 is kept when nothing happens.                                     *)
LEMMA StutterText ==
  ASSUME JInv, UNCHANGED vars
  PROVE  Text1'
<1>0. Appending /\ Uncollected /\ Reading /\ Untouched
  BY TextParts
<1>1. fsd' = fsd /\ chain' = chain /\ laf' = laf /\ las' = las /\ chg' = chg /\ coll' = coll /\ call' = call
  BY DEF vars
<1>2. Appending'
  BY <1>0, <1>1 DEF Appending
<1>3. Uncollected'
  BY <1>0, <1>1 DEF Uncollected, Spared
<1>4. Reading'
  BY <1>0, <1>1 DEF Reading, Phase
<1>5. Untouched'
  BY <1>0, <1>1 DEF Untouched, IsOpen
<1>6. QED BY <1>2, <1>3, <1>4, <1>5 DEF Text1

(* The invariant holds at the start.                                       *)
LEMMA InitText == Init => JInv
<1> SUFFICES ASSUME Init PROVE JInv
  OBVIOUS
<1>1. call = NoCall /\ coll = [on |-> FALSE, chgpos |-> 0, nxchgpos |-> 0]
  BY DEF Init
<1>2. call.op = "none" /\ ~ coll.on
  BY <1>1 DEF NoCall
<1>3. Appending /\ Uncollected /\ Reading
  BY <1>2 DEF Appending, Uncollected, Reading
<1>4. \A f \in File : ~ IsOpen(f)
  BY InitLafs DEF IsOpen
<1>5. Untouched
  BY <1>4 DEF Untouched
<1>6. QED BY <1>3, <1>5, InitInv DEF JInv, Text1

(* Every step. *)
LEMMA BreakStepText ==
  ASSUME JInv, BreakStep
  PROVE  Text1'
<1>1. ASSUME NEW s \in Stream, call.p = s, ZBreak("zp", s) PROVE Text1'
  BY <1>1, ZBreakText
<1>2. ASSUME NEW s \in Stream, call.d = s, ZBreak("zd", s) PROVE Text1'
  BY <1>2, ZBreakText
<1>3. ASSUME NEW s \in Stream, ZBreakFails("zp", s) \/ ZBreakFails("zd", s) PROVE Text1'
  BY <1>3, ZBreakFailsText
<1>4. QED BY <1>1, <1>2, <1>3, BreakText, BreakFailsText, BreakEndText, BreakEndFailsText DEF BreakStep

(* Every step of describing lines keeps Text1.                             *)
LEMMA ParseStepText ==
  ASSUME JInv, ParseStep
  PROVE  Text1'
BY ParseEndText, ParseFailsText, ParseFsdText DEF ParseStep

(* Every step of inserting and replacing keeps Text1.                      *)
LEMMA InsertStepText ==
  ASSUME JInv, InsertStep
  PROVE  Text1'
BY BeginInsertText, BeginReplaceText, WriteText, WriteFailsText, LinkNewText DEF InsertStep

(* Every step of deleting keeps Text1.                                     *)
LEMMA DeleteStepText ==
  ASSUME JInv, DeleteStep
  PROVE  Text1'
BY BeginDeleteText, DeleteText, DeleteTooLongText, UnlinkText, PlaceText, BackText DEF DeleteStep

(* Every step of copying keeps Text1.                                      *)
LEMMA CopyStepText ==
  ASSUME JInv, CopyStep
  PROVE  Text1'
BY BeginCopyText, CopyHeadText, CopyTailText, CopyFsdText, CopyLastText, WalkEndText, CopyFailsText, LinkCopyText DEF CopyStep

(* Every step of la_blank keeps Text1.                                     *)
LEMMA BlankStepText ==
  ASSUME JInv, BlankStep
  PROVE  Text1'
BY BeginBlankText, MakeBlanksText, HaveBlanksText, BlanksFailText, ChunkText DEF BlankStep

(* Every step of a collection keeps Text1.                                 *)
LEMMA CollectStepText ==
  ASSUME JInv, CollectStep
  PROVE  Text1'
BY TCollectText, LCollectText, LCollectFailsText, BeginCollectText, CollectFitsText, CollectTooLongText, CollectReturnText
   DEF CollectStep

(* Everything callers do between edits keeps Text1.                        *)
LEMMA StreamStepText ==
  ASSUME JInv, ~ CloseShared, StreamStep
  PROVE  Text1'
<1>1. ASSUME NEW s \in Stream, NEW n, LSeek(s, n) PROVE Text1'
  BY <1>1, SetText DEF LSeek
<1>2. ASSUME NEW s \in Stream, CloseStream(s) \/ CloseFile(s) PROVE Text1'
  BY <1>2, CloseStreamText, CloseFileText
<1>3. ASSUME NEW s \in Stream, NEW b, Stay(s, b) \/ SetRlines(s, b) PROVE Text1'
  BY <1>3, SetText DEF Stay, SetRlines
<1>4. ASSUME NEW s \in Stream, NEW t \in Stream, Clone(t, s) \/ Align(t, s) PROVE Text1'
  BY <1>4, CloneText, SetText DEF Align
<1>5. ASSUME NEW s \in Stream, NEW f \in File, BeginOpen(s, f) PROVE Text1'
  BY <1>5, BeginOpenText
<1>6. QED BY <1>1, <1>2, <1>3, <1>4, <1>5, OpenReturnText DEF StreamStep

(* Every step, and none, keeps the invariant.                              *)
LEMMA NextJInv == JInv /\ ~ SameFsdCopy /\ ~ CloseShared /\ [Next]_vars => JInv'
<1> SUFFICES ASSUME JInv, ~ SameFsdCopy, ~ CloseShared, [Next]_vars PROVE JInv'
  OBVIOUS
<1>1. IInv'
  BY TextParts, NextInv
<1>2. CASE UNCHANGED vars
  BY <1>1, <1>2, StutterText DEF JInv
<1>3. CASE Next
  <2>1. Text1'
    BY <1>3, BreakStepText, ParseStepText, InsertStepText, DeleteStepText, CopyStepText, BlankStepText, CollectStepText,
       StreamStepText, ReturnText DEF Next
  <2>2. QED BY <2>1, <1>1 DEF JInv
<1>4. QED BY <1>2, <1>3

(* The invariant with what it says of texts is one, too: whatever callers  *)
(* ask for, in any order, and whatever fails.                              *)
THEOREM TextInvariance == ~ SameFsdCopy /\ ~ CloseShared => (Spec => []JInv)
<1> SUFFICES ASSUME ~ SameFsdCopy, ~ CloseShared PROVE Spec => []JInv
  OBVIOUS
<1>1. JInv /\ [Next]_vars => JInv'
  BY NextJInv
<1>2. QED BY <1>1, InitText, PTL DEF Spec

(* The invariant implies CollectionApart.                                  *)
LEMMA InvApart == JInv => CollectionApart
<1> SUFFICES ASSUME JInv, coll.on, call.op # "collect", NEW d \in Fsd, fsd[d].fsdfile = Chg
             PROVE  fsd[d].fsdpos >= coll.nxchgpos \/ fsd[d].fsdpos + fsd[d].fsdnlines <= coll.chgpos
  BY DEF CollectionApart
<1>1. Uncollected
  BY TextParts
<1>2. ~ Spared(d)
  BY DEF Spared
<1>3. Out(coll, fsd[d].fsdpos, fsd[d].fsdnlines)
  BY <1>1, <1>2 DEF Uncollected
<1>4. QED BY <1>3 DEF Out

(* The lines being collected by la_lcollect and la_tcollect are always on  *)
(* the end of the change file alone: no fsd, of whatever file, describes   *)
(* any of them before the collection is linked in, so dropping it          *)
(* (LA_BRKCOLL) loses no text and linking it puts no line in twice.        *)
THEOREM CollectsApart == ~ SameFsdCopy /\ ~ CloseShared => (Spec => []CollectionApart)
<1> SUFFICES ASSUME ~ SameFsdCopy, ~ CloseShared PROVE Spec => []CollectionApart
  OBVIOUS
<1>1. QED BY InvApart, TextInvariance, PTL

(* The lines of a file on disk, piece by piece. *)
LEMMA PieceOn ==
  ASSUME NEW t \in Seq(Line), NEW a \in Nat, NEW n \in Nat, a + n <= Len(t)
  PROVE  SubSeq(t, 1, a) \o SubSeq(t, a + 1, a + n) = SubSeq(t, 1, a + n)
<1>1. PICK u : u = SubSeq(t, 1, a)
  OBVIOUS
<1>2. u \in Seq(Line) /\ Len(u) = a /\ \A i \in 1 .. a : u[i] = t[i]
  BY <1>1
<1>3. PICK v : v = SubSeq(t, a + 1, a + n)
  OBVIOUS
<1>4. v \in Seq(Line) /\ Len(v) = n /\ \A i \in 1 .. n : v[i] = t[a + i]
  BY <1>3
<1>5. PICK w : w = SubSeq(t, 1, a + n)
  OBVIOUS
<1>6. w \in Seq(Line) /\ Len(w) = a + n /\ \A i \in 1 .. a + n : w[i] = t[i]
  BY <1>5
<1>7. PICK x : x = u \o v
  OBVIOUS
<1>8. /\ x \in Seq(Line) /\ Len(x) = a + n
      /\ \A i \in 1 .. a : x[i] = u[i]
      /\ \A i \in 1 .. n : x[a + i] = v[i]
  <2>1. u \in Seq(Line) /\ v \in Seq(Line)
    BY <1>2, <1>4
  <2>2. /\ u \o v \in Seq(Line) /\ Len(u \o v) = Len(u) + Len(v)
        /\ \A i \in 1 .. Len(u) : (u \o v)[i] = u[i]
        /\ \A i \in 1 .. Len(v) : (u \o v)[Len(u) + i] = v[i]
    BY <2>1, ConcatIs
  <2>3. QED BY <2>2, <1>2, <1>4, <1>7
<1>9. ASSUME NEW i \in 1 .. a + n PROVE x[i] = w[i]
  <2>1. CASE i <= a
    <3>1. i \in 1 .. a
      BY <2>1
    <3>2. QED BY <3>1, <1>2, <1>6, <1>8
  <2>2. CASE i > a
    <3>1. i - a \in 1 .. n /\ a + (i - a) = i
      BY <2>2
    <3>2. QED BY <3>1, <1>4, <1>6, <1>8, ZenonT(45)
  <2>3. QED BY <2>1, <2>2
<1>10. x = w
  BY <1>6, <1>8, <1>9
<1>11. QED BY <1>1, <1>3, <1>5, <1>7, <1>10

(* A file all of whose fsds follow each other from its first line to its   *)
(* last has the text it has on disk.                                       *)
LEMMA WholeText ==
  ASSUME TypeOK, Books, NEW f \in File, Whole(fsd, chain[f], f)
  PROVE  Text(f) = DiskText[f]
<1>0. f \in Files /\ f # Chg /\ fsd \in [Fsd -> Fsds] /\ DiskText[f] \in Seq(Line)
  BY NameAssumption, TextAssumption DEF Files, TypeOK
<1>1. PICK ds : ds = chain[f]
  OBVIOUS
<1>2. ds \in Seq(Fsd) /\ Chained(fsd, ds)
  BY <1>0, <1>1, ChainsAre DEF Chained
<1>3. PICK t \in Seq(Line) : t = DiskText[f]
  BY <1>0
<1>4. PICK n \in Nat : n = Len(ds)
  BY <1>2
<1>5. PICK h : h = Parts(f)
  OBVIOUS
<1>6. h = [i \in 0 .. n |-> IF i = 0 THEN << >> ELSE h[i - 1] \o Lines(ds[i])]
  BY <1>1, <1>4, <1>5, PartsDef
<1>7. PICK c : c = Sums(fsd, ds)
  OBVIOUS
<1>8. /\ c[0] = 0 /\ (\A i \in 0 .. n : c[i] \in Nat)
      /\ (\A i \in 1 .. n : c[i] = c[i - 1] + fsd[ds[i]].fsdnlines)
  BY <1>0, <1>2, <1>4, <1>7, SumsIs
<1>9. Straight(fsd, ds, f) /\ c[n] = Len(t)
  BY <1>1, <1>3, <1>4, <1>7 DEF Whole, Size
<1>10. \A i \in 1 .. n : /\ ds[i] \in Fsd /\ fsd[ds[i]].fsdfile = f /\ fsd[ds[i]].fsdpos = c[i - 1]
                         /\ fsd[ds[i]].fsdnlines \in Nat
  BY <1>0, <1>2, <1>4, <1>7, <1>9 DEF Straight, Fsds
<1>11. \A i \in 0 .. n : c[i] <= Len(t)
  <2>1. PICK l \in Nat : l = Len(t)
    BY <1>3
  <2> DEFINE D == {k \in Nat : k <= n => c[n - k] <= l}
  <2>2. 0 \in D
    <3>1. n - 0 = n /\ c[n] = l
      BY <1>9, <2>1
    <3>2. QED BY <3>1, <2>1
  <2>3. ASSUME NEW k \in D PROVE k + 1 \in D
    <3>1. k + 1 \in Nat /\ k \in Nat /\ (k <= n => c[n - k] <= l)
      BY <2>3
    <3>2. ASSUME k + 1 <= n PROVE c[n - (k + 1)] <= l
      <4>1. PICK i \in Nat : i = n - k
        BY <3>1, <3>2
      <4>2. i \in 1 .. n /\ i - 1 = n - (k + 1) /\ k <= n /\ i - 1 \in 0 .. n
        BY <3>1, <3>2, <4>1
      <4>3. c[i] = c[i - 1] + fsd[ds[i]].fsdnlines /\ c[i] <= l
        BY <3>1, <4>1, <4>2, <1>8
      <4>4. PICK w \in Nat, a \in Nat : w = fsd[ds[i]].fsdnlines /\ a = c[i - 1]
        BY <4>2, <1>8, <1>10
      <4>5. c[i] = a + w
        BY <4>3, <4>4
      <4>6. a + w <= l
        BY <4>3, <4>5
      <4>7. a <= l
        BY <4>6, <2>1
      <4>8. QED BY <4>2, <4>4, <4>7
    <3>3. QED BY <3>1, <3>2
  <2>4. D = Nat
    <3> HIDE DEF D
    <3>1. D \in SUBSET Nat
      BY DEF D
    <3>2. QED BY <3>1, <2>2, <2>3, Induct
  <2>5. ASSUME NEW i \in 0 .. n PROVE c[i] <= Len(t)
    <3>1. PICK k \in Nat : k = n - i /\ k <= n /\ n - k = i
      OBVIOUS
    <3>2. k \in D
      BY <2>4
    <3>3. QED BY <3>1, <3>2, <2>1
  <2>6. QED BY <2>5
<1> DEFINE S == {k \in Nat : k <= n => h[k] = SubSeq(t, 1, c[k])}
<1>12. 0 \in S
  <2>1. h[0] = << >> /\ SubSeq(t, 1, 0) = << >>
    BY <1>6
  <2>2. QED BY <2>1, <1>8
<1>13. ASSUME NEW k \in S PROVE k + 1 \in S
  <2>1. k + 1 \in Nat /\ k \in Nat /\ (k <= n => h[k] = SubSeq(t, 1, c[k]))
    BY <1>13
  <2>2. ASSUME k + 1 <= n PROVE h[k + 1] = SubSeq(t, 1, c[k + 1])
    <3>1. k + 1 \in 1 .. n /\ k <= n /\ k + 1 # 0 /\ (k + 1) - 1 = k /\ k + 1 \in 0 .. n /\ k \in 0 .. n
      BY <2>1, <2>2
    <3>2. h[k + 1] = h[(k + 1) - 1] \o Lines(ds[k + 1])
      BY <3>1, <1>6
    <3>3. PICK d : d = ds[k + 1]
      OBVIOUS
    <3>4. fsd[d].fsdfile = f /\ fsd[d].fsdpos = c[k] /\ fsd[d].fsdnlines \in Nat
      BY <3>1, <3>3, <1>10
    <3>5. PICK a \in Nat, w \in Nat : a = c[k] /\ w = fsd[d].fsdnlines
      BY <3>1, <3>4, <1>8
    <3>6. c[k + 1] = a + w
      BY <3>1, <3>3, <3>5, <1>8
    <3>7. a + w <= Len(t)
      BY <3>1, <3>6, <1>11
    <3>8. Lines(d) = SubSeq(t, a + 1, a + w)
      BY <3>4, <3>5, <1>0, <1>3 DEF Lines, Store
    <3>9. h[k + 1] = SubSeq(t, 1, a) \o SubSeq(t, a + 1, a + w)
      BY <3>1, <3>2, <3>3, <3>5, <3>8, <2>1
    <3>10. SubSeq(t, 1, a) \o SubSeq(t, a + 1, a + w) = SubSeq(t, 1, a + w)
      BY <3>7, PieceOn
    <3>11. QED BY <3>6, <3>9, <3>10
  <2>3. QED BY <2>1, <2>2
<1>14. S = Nat
  <2> HIDE DEF S
  <2>1. S \in SUBSET Nat
    BY DEF S
  <2>2. QED BY <2>1, <1>12, <1>13, Induct
<1>15. h[n] = SubSeq(t, 1, c[n])
  BY <1>14
<1>16. Text(f) = h[n]
  BY <1>1, <1>4, <1>5 DEF Text, Parts
<1>17. SubSeq(t, 1, Len(t)) = t
  OBVIOUS
<1>18. QED BY <1>3, <1>9, <1>15, <1>16, <1>17

(* The invariant implies ModifiedTells.                                    *)
LEMMA InvTells == JInv => ModifiedTells
<1> SUFFICES ASSUME JInv, NEW f \in File, IsOpen(f), ~ laf[f].la_mode PROVE Text(f) = DiskText[f]
  BY DEF ModifiedTells
<1>1. TypeOK /\ Books /\ Untouched
  BY TextParts
<1>2. Whole(fsd, chain[f], f)
  BY <1>1 DEF Untouched
<1>3. QED BY <1>1, <1>2, WholeText

(* A file that is not marked as modified always has the text it has on     *)
(* disk, whatever was done to others, whatever was copied from it and      *)
(* however its fsds were broken: not saving it loses nothing.              *)
THEOREM Tells == ~ SameFsdCopy /\ ~ CloseShared => (Spec => []ModifiedTells)
<1> SUFFICES ASSUME ~ SameFsdCopy, ~ CloseShared PROVE Spec => []ModifiedTells
  OBVIOUS
<1>1. QED BY InvTells, TextInvariance, PTL
=============================================================================

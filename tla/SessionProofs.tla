--------------------------- MODULE SessionProofs ----------------------------
(* Proofs about Session, for any number of processes, versions and key      *)
(* strokes: its type invariant, that sessions which do not start at the    *)
(* same time never touch each other's files, and that no key stroke is lost *)
(* that was typed and neither saved nor thrown away.                       *)
EXTENDS Session, TLAPS

(* What is known of the constants. *)
LEMMA Constants == /\ none \notin Proc /\ left \notin Proc /\ none # left
                   /\ MaxVrsn \in Nat \ {0} /\ MaxStroke \in Nat /\ MaxStarts \in Nat
                   /\ NInode \in Nat
  BY ConstantsAssumption

-----------------------------------------------------------------------------
(* Type correctness.  A session that has created its key stroke file has it *)
(* open.                                                                   *)
KeyOpen == \A p \in Proc : pc[p] \in {"lock", "load", "open", "state"} \cup Live => key[p] # 0

TypeInv == TypeOK /\ KeyOpen

(* No key stroke file is open to begin with, and every variable has its type. *)
LEMMA TypeInit == Init => TypeInv
  BY Constants DEF Init, TypeInv, TypeOK, KeyOpen, Live, Early, Late, Vrsn, Inode, Stroke

(* The ways out leave every variable of its type. *)
LEMMA DeadType ==
  ASSUME NEW p \in Proc, TypeInv,
         NEW h \in [Inode -> Proc \cup {none}], NEW c \in [Vrsn -> Proc \cup {none, left}],
         Dead(p, h, c),
         ek' \in [Vrsn -> Inode \cup {0}], bek' \in [Vrsn -> Inode \cup {0}],
         settled' \in SUBSET Stroke, rec' = rec
  PROVE  TypeInv'
<1>1. /\ holder' \in [Inode -> Proc \cup {none}] /\ ec' \in [Vrsn -> Proc \cup {none, left}]
  BY DEF Dead
<1>2. pc' = [pc EXCEPT ![p] = "off"] /\ key' = [key EXCEPT ![p] = 0]
  BY DEF Dead, Go
<1>3. TypeOK'
  BY <1>1, <1>2 DEF Dead, Go, TypeInv, TypeOK
<1>4. KeyOpen'
  BY <1>2 DEF TypeInv, TypeOK, KeyOpen, Live
<1> QED BY <1>3, <1>4 DEF TypeInv

(* ... and so does moving the record back. *)
LEMMA mvBackType ==
  ASSUME NEW v \in Vrsn, TypeOK, mvBack(v)
  PROVE  ek' \in [Vrsn -> Inode \cup {0}] /\ bek' \in [Vrsn -> Inode \cup {0}]
  BY DEF mvBack, TypeOK

(* Every step leaves every variable of its type. *)
LEMMA TypeStep == TypeInv /\ [Next]_vars => TypeInv'
<1> SUFFICES ASSUME TypeInv, [Next]_vars PROVE TypeInv'
  OBVIOUS
<1> USE DEF TypeInv
<1>1. CASE UNCHANGED vars
  BY <1>1 DEF vars, TypeOK, KeyOpen
<1>2. ASSUME NEW p \in Proc, Begin(p) PROVE TypeInv'
  <2>1. count' \in [strokes : 0 .. MaxStroke, starts : 0 .. MaxStarts]
    BY <1>2, Constants DEF Begin, TypeOK
  <2> QED BY <1>2, <2>1 DEF Begin, Go, files, TypeOK, KeyOpen, Early, Late, Live
<1>3. ASSUME NEW p \in Proc, PickVersion(p) PROVE TypeInv'
  BY <1>3 DEF PickVersion, Go, files, TypeOK, KeyOpen, Early, Late, Live
<1>4. ASSUME NEW p \in Proc, NoVersion(p) PROVE TypeInv'
  BY <1>4 DEF NoVersion, Go, files, session, TypeOK, KeyOpen, Early, Late, Live
<1>5. ASSUME NEW p \in Proc, Scan(p) PROVE TypeInv'
  <2>1. vrsn' \in [Proc -> Vrsn] /\ crashed' \in [Proc -> BOOLEAN]
    BY <1>5, ZenonT(45) DEF Scan, TypeOK
  <2>2. pc' = [pc EXCEPT ![p] = "ask"] \/ pc' = [pc EXCEPT ![p] = "move"]
    BY <1>5 DEF Scan, Go
  <2> QED BY <1>5, <2>1, <2>2 DEF Scan, files, TypeOK, KeyOpen, Early, Late, Live
<1>6. ASSUME NEW p \in Proc, AnswerReplay(p) PROVE TypeInv'
  BY <1>6 DEF AnswerReplay, Go, files, TypeOK, KeyOpen, Early, Late, Live
<1>7. ASSUME NEW p \in Proc, AnswerReturn(p) PROVE TypeInv'
  BY <1>7 DEF AnswerReturn, Go, files, session, TypeOK, KeyOpen, Early, Late, Live
<1>8. ASSUME NEW p \in Proc, MoveKeys(p) PROVE TypeInv'
  BY <1>8 DEF MoveKeys, Go, session, TypeOK, KeyOpen, Early, Late, Live
<1>9. ASSUME NEW p \in Proc, OpenChanges(p) PROVE TypeInv'
  BY <1>9 DEF OpenChanges, Go, session, TypeOK, KeyOpen, Early, Late, Live
<1>10. ASSUME NEW p \in Proc, Ready(p) PROVE TypeInv'
  BY <1>10 DEF Ready, Go, files, session, TypeOK, KeyOpen, Early, Late, Live
<1>11. ASSUME NEW p \in Proc, AnswerIgnore(p) PROVE TypeInv'
  BY <1>11 DEF AnswerIgnore, Go, files, session, TypeOK, KeyOpen, Early, Late, Live
<1>12. ASSUME NEW p \in Proc, CreateKeys(p) PROVE TypeInv'
  BY <1>12, Constants, SMTT(45) DEF CreateKeys, Go, TypeOK, KeyOpen, Early, Late, Live, Inode
<1>13. ASSUME NEW p \in Proc, LockKeys(p) PROVE TypeInv'
  BY <1>13 DEF LockKeys, Go, session, TypeOK, KeyOpen, Early, Late, Live
<1>14. ASSUME NEW p \in Proc, LoadScript(p) PROVE TypeInv'
  BY <1>14 DEF LoadScript, Go, files, TypeOK, KeyOpen, Early, Late, Live
<1>15. ASSUME NEW p \in Proc, getout(p) PROVE TypeInv'
  <2>1. vrsn[p] \in Vrsn /\ rec' = rec /\ settled' \in SUBSET Stroke
    BY <1>15 DEF getout, TypeOK
  <2>2. (IF crashed[p] THEN ec ELSE [ec EXCEPT ![vrsn[p]] = none]) \in [Vrsn -> Proc \cup {none, left}]
    BY DEF TypeOK
  <2> QED BY <1>15, <2>1, <2>2, DeadType, mvBackType DEF getout, TypeOK
<1>16. ASSUME NEW p \in Proc, BadState(p) PROVE TypeInv'
  <2>1. vrsn[p] \in Vrsn /\ rec' = rec /\ settled' \in SUBSET Stroke
    BY <1>16 DEF BadState, TypeOK
  <2>2. (IF crashed[p] THEN ec ELSE [ec EXCEPT ![vrsn[p]] = none]) \in [Vrsn -> Proc \cup {none, left}]
    BY DEF TypeOK
  <2>3. ek' \in [Vrsn -> Inode \cup {0}] /\ bek' \in [Vrsn -> Inode \cup {0}]
    BY <1>16 DEF BadState, TypeOK
  <2> QED BY <1>16, <2>1, <2>2, <2>3, DeadType DEF BadState, TypeOK
<1>17. ASSUME NEW p \in Proc, fatal(p) PROVE TypeInv'
  <2>1. vrsn[p] \in Vrsn /\ rec' = rec /\ settled' \in SUBSET Stroke
    BY <1>17 DEF fatal, TypeOK
  <2>2. (IF ec[vrsn[p]] = none THEN [ec EXCEPT ![vrsn[p]] = left] ELSE ec)
          \in [Vrsn -> Proc \cup {none, left}]
    BY DEF TypeOK
  <2>3. ek' \in [Vrsn -> Inode \cup {0}] /\ bek' \in [Vrsn -> Inode \cup {0}]
    BY <1>17, <2>1, mvBackType DEF fatal, TypeOK
  <2> QED BY <1>17, <2>1, <2>2, <2>3, DeadType DEF fatal, TypeOK
<1>18. ASSUME NEW p \in Proc, Kill(p) PROVE TypeInv'
  BY <1>18, DeadType DEF Kill, TypeOK
<1>19. ASSUME NEW p \in Proc, Exit(p) PROVE TypeInv'
  <2>1. key[p] \in Inode /\ vrsn[p] \in Vrsn
    BY <1>19 DEF Exit, TypeOK, KeyOpen, Live
  <2>2. rec' = rec /\ settled' \in SUBSET Stroke
    BY <1>19, <2>1 DEF Exit, TypeOK
  <2>3. ek' \in [Vrsn -> Inode \cup {0}] /\ bek' \in [Vrsn -> Inode \cup {0}]
    BY <1>19 DEF Exit, TypeOK
  <2>4. [ec EXCEPT ![vrsn[p]] = none] \in [Vrsn -> Proc \cup {none, left}]
    BY DEF TypeOK
  <2> QED BY <1>19, <2>2, <2>3, <2>4, DeadType DEF Exit, TypeOK
<1>20. ASSUME NEW p \in Proc, ExitAbort(p) PROVE TypeInv'
  <2>1. [ec EXCEPT ![vrsn[p]] = none] \in [Vrsn -> Proc \cup {none, left}]
    BY DEF TypeOK
  <2> QED BY <1>20, <2>1, DeadType DEF ExitAbort, TypeOK
<1>21. ASSUME NEW p \in Proc, Type(p) PROVE TypeInv'
  <2>1. count.strokes + 1 \in Stroke /\ count' \in [strokes : 0 .. MaxStroke, starts : 0 .. MaxStarts]
    BY <1>21, Constants DEF Type, TypeOK, Stroke
  <2>2. rec' \in [Inode -> SUBSET Stroke]
    BY <1>21, <2>1 DEF Type, TypeOK
  <2> QED BY <1>21, <2>1, <2>2 DEF Type, session, TypeOK, KeyOpen
<1>22. ASSUME NEW p \in Proc, ReplayEnds(p) PROVE TypeInv'
  BY <1>22 DEF ReplayEnds, Go, files, TypeOK, KeyOpen, Live
<1> QED
  BY <1>1, <1>2, <1>3, <1>4, <1>5, <1>6, <1>7, <1>8, <1>9, <1>10, <1>11, <1>12,
     <1>13, <1>14, <1>15, <1>16, <1>17, <1>18, <1>19, <1>20, <1>21, <1>22
     DEF Next

(* The inductive invariant holds throughout. *)
LEMMA TypeInvariant == Spec => []TypeInv
  BY TypeInit, TypeStep, PTL DEF Spec

(* Every variable always holds a value of its type. *)
THEOREM TypeCorrect == Spec => []TypeOK
  BY TypeInvariant, PTL DEF TypeInv
-----------------------------------------------------------------------------
(* Sessions that start one after the other.  What makes OwnFiles inductive: *)
(* who has come how far has what of its files (Mine), and no session that  *)
(* has chosen its version has chosen that of a session at work (Apart).    *)
OneStarts == \A p, q \in Proc : Starting(p) /\ Starting(q) => p = q

Mine(p) ==
  /\ pc[p] = "create" => ek[vrsn[p]] = 0
  /\ pc[p] \in {"lock", "load", "open", "state"} \cup Live => ek[vrsn[p]] = key[p]
  /\ pc[p] \in {"load", "open", "state"} \cup Live => holder[key[p]] = p
  /\ pc[p] \in {"state"} \cup Live => ec[vrsn[p]] = p

Apart == \A p, q \in Proc :
  pc[p] \in (Early \cup Late) \ {"pick"} /\ pc[q] \in Live => vrsn[p] # vrsn[q]

OwnInv == TypeInv /\ OneStarts /\ Apart /\ \A p \in Proc : Mine(p)

(* No session runs to begin with. *)
LEMMA OwnInit == Init => OwnInv
  BY TypeInit DEF Init, OwnInv, OneStarts, Apart, Mine, Starting, Early, Late, Live

(* A session that ends touches no name of a session q that goes on, nor of  *)
(* one that starts.                                                        *)
LEMMA DeadOwn ==
  ASSUME NEW p \in Proc, OwnInv, TypeInv',
         NEW h, h = holder, NEW c \in [Vrsn -> Proc \cup {none, left}],
         Dead(p, h, c), pc[p] # "off",
         \A v \in Vrsn : v # vrsn[p] => ek'[v] = ek[v] /\ c[v] = ec[v],
         pc[p] \in Early => ek' = ek,
         c[vrsn[p]] # ec[vrsn[p]] => pc[p] \in Late \cup Live \/ ec[vrsn[p]] = none
  PROVE  OwnInv'
<1> USE DEF OwnInv
<1>1. /\ pc' = [pc EXCEPT ![p] = "off"] /\ key' = [key EXCEPT ![p] = 0] /\ vrsn' = vrsn
      /\ holder' = [i \in Inode |-> IF holder[i] = p THEN none ELSE holder[i]]
      /\ ec' = [v \in Vrsn |-> IF c[v] = p THEN left ELSE c[v]]
  BY DEF Dead, Go
<1>2. \A q \in Proc : q # p => pc'[q] = pc[q] /\ key'[q] = key[q] /\ vrsn'[q] = vrsn[q]
  BY <1>1 DEF TypeInv, TypeOK
<1>3. pc'[p] = "off"
  BY <1>1 DEF TypeInv, TypeOK
<1>4. OneStarts' /\ Apart'
  BY <1>2, <1>3 DEF OneStarts, Apart, Starting, Early, Late, Live
<1>5. ASSUME NEW q \in Proc PROVE Mine(q)'
  <2>1. CASE q = p
    BY <1>3, <2>1 DEF Mine, Live
  <2>2. CASE q # p /\ pc[q] \notin Late \cup Live
    BY <1>2, <2>2 DEF Mine, Late, Live
  <2>3. CASE q # p /\ pc[q] \in Late \cup Live
    <3>1. vrsn[p] # vrsn[q] \/ pc[p] = "pick" \/ (pc[p] \in Live /\ pc[q] \in Late \cup Live)
      BY <2>3 DEF Apart, OneStarts, Starting, TypeInv, TypeOK, Early, Late, Live
    <3>2. vrsn[p] # vrsn[q] \/ pc[p] = "pick"
      BY <3>1, <2>3 DEF Apart, Mine, Late, Live, Early
    <3>3. vrsn[q] \in Vrsn /\ vrsn[p] \in Vrsn
      BY DEF TypeInv, TypeOK
    <3>4. ek'[vrsn[q]] = ek[vrsn[q]]
      BY <3>2, <3>3 DEF Early
    <3>5. ec[vrsn[q]] = q => ec'[vrsn[q]] = q
      <4>1. ec[vrsn[q]] = q => c[vrsn[q]] = q
        BY <3>2, <3>3, Constants DEF Late, Live
      <4> QED BY <4>1, <1>1, <3>3, <2>3
    <3>6. key[q] \in Inode /\ holder[key[q]] = q => holder'[key[q]] = q
      BY <1>1, <2>3
    <3>7. pc[q] \in {"load", "open", "state"} \cup Live => key[q] \in Inode
      BY DEF TypeInv, TypeOK, KeyOpen
    <3> QED BY <1>2, <2>3, <3>4, <3>5, <3>6, <3>7 DEF Mine, Late, Live
  <2> QED BY <2>1, <2>2, <2>3
<1> QED BY <1>4, <1>5

(* A step of start-up that changes no file but the names of its version. *)
LEMMA StartOwn ==
  ASSUME NEW p \in Proc, OwnInv, TypeInv', ~ Overlap,
         Starting(p), Starting(p)',
         \A q \in Proc : q # p => pc'[q] = pc[q] /\ vrsn'[q] = vrsn[q] /\ key'[q] = key[q],
         \A q \in Proc : q # p /\ pc[q] \in Live =>
           /\ pc'[p] # "pick" => vrsn'[p] # vrsn[q]
           /\ ek'[vrsn[q]] = ek[vrsn[q]] /\ ec'[vrsn[q]] = ec[vrsn[q]]
           /\ holder'[key[q]] = holder[key[q]],
         Mine(p)'
  PROVE  OwnInv'
<1> USE DEF OwnInv
<1>1. \A q \in Proc : q # p => ~ Starting(q) /\ ~ Starting(q)'
  BY DEF OneStarts, Starting
<1>2. OneStarts'
  BY <1>1 DEF OneStarts
<1>3. Apart'
  BY <1>1 DEF Apart, Starting, Early, Late, Live
<1>4. \A q \in Proc : q # p => Mine(q)'
  BY <1>1 DEF Mine, Starting, Early, Late, Live
<1> QED BY <1>2, <1>3, <1>4

(* A step of a session that keeps what it has and whom it is apart from. *)
LEMMA LiveOwn ==
  ASSUME NEW p \in Proc, OwnInv, TypeInv',
         Starting(p)' => Starting(p),
         pc'[p] \in Live => Starting(p) \/ pc[p] \in Live,
         \A q \in Proc : q # p => pc'[q] = pc[q],
         vrsn' = vrsn, key' = key, ek' = ek, ec' = ec, holder' = holder,
         pc'[p] \in Early \cup Late => pc[p] # "pick",
         Mine(p)'
  PROVE  OwnInv'
<1> USE DEF OwnInv
<1>1. OneStarts'
  BY DEF OneStarts, Starting
<1>2. Apart'
  BY DEF Apart, OneStarts, Starting, Early, Late, Live
<1>3. \A q \in Proc : q # p => Mine(q)'
  BY DEF Mine
<1> QED BY <1>1, <1>2, <1>3

(* Every step leaves the sessions apart from each other. *)
LEMMA OwnStep == ASSUME ~ Overlap PROVE OwnInv /\ [Next]_vars => OwnInv'
<1> SUFFICES ASSUME ~ Overlap, OwnInv, [Next]_vars PROVE OwnInv'
  OBVIOUS
<1>0. TypeInv'
  BY TypeStep DEF OwnInv
<1>1. CASE UNCHANGED vars
  BY <1>1, <1>0 DEF vars, OwnInv, OneStarts, Apart, Mine, Starting
<1>2. ASSUME NEW p \in Proc, Begin(p) PROVE OwnInv'
  <2>1. /\ \A q \in Proc : ~ Starting(q)
        /\ pc'[p] = "pick" /\ \A q \in Proc : q # p => pc'[q] = pc[q]
        /\ UNCHANGED << files, vrsn, key >>
    BY <1>2 DEF Begin, Go, OwnInv, TypeInv, TypeOK
  <2>2. OneStarts' /\ Apart'
    BY <2>1 DEF OneStarts, Apart, Starting, Early, Late, Live
  <2>3. \A q \in Proc : Mine(q)'
    BY <2>1 DEF files, Mine, Live, OwnInv
  <2> QED BY <1>0, <2>2, <2>3 DEF OwnInv
<1>3. ASSUME NEW p \in Proc, PickVersion(p) PROVE OwnInv'
  <2>1. /\ pc[p] = "pick" /\ pc'[p] = "scan" /\ ec[vrsn'[p]] = none
        /\ \A q \in Proc : q # p => pc'[q] = pc[q] /\ vrsn'[q] = vrsn[q]
        /\ UNCHANGED << files, key >>
    BY <1>3 DEF PickVersion, Go, OwnInv, TypeInv, TypeOK
  <2>2. \A q \in Proc : pc[q] \in Live => vrsn'[p] # vrsn[q]
    BY <2>1, Constants DEF OwnInv, Mine, Live
  <2>3. Mine(p)'
    BY <2>1 DEF Mine, Live
  <2> QED BY <1>0, <2>1, <2>2, <2>3, StartOwn DEF files, Starting, Early
<1>4. ASSUME NEW p \in Proc, NoVersion(p) PROVE OwnInv'
  <2>1. /\ pc[p] = "pick" /\ pc'[p] = "off" /\ \A q \in Proc : q # p => pc'[q] = pc[q]
        /\ UNCHANGED << files, vrsn, key >>
    BY <1>4 DEF NoVersion, session, Go, OwnInv, TypeInv, TypeOK
  <2>2. Mine(p)'
    BY <2>1 DEF Mine, Live
  <2> QED BY <1>0, <2>1, <2>2, LiveOwn DEF files, Starting, Early, Late, Live
<1>5. ASSUME NEW p \in Proc, Scan(p) PROVE OwnInv'
  <2>1. /\ pc[p] = "scan" /\ pc'[p] \in {"ask", "move"}
        /\ \A q \in Proc : q # p => pc'[q] = pc[q] /\ vrsn'[q] = vrsn[q]
        /\ UNCHANGED << files, key >>
        /\ vrsn'[p] = vrsn[p] \/ Unlocked(vrsn'[p])
    BY <1>5 DEF Scan, Go, OwnInv, TypeInv, TypeOK
  <2>2. \A q \in Proc : pc[q] \in Live => vrsn'[p] # vrsn[q]
    BY <2>1, Constants DEF OwnInv, Mine, Unlocked, Apart, Early, Live
  <2>3. Mine(p)'
    BY <2>1 DEF Mine, Live
  <2> QED BY <1>0, <2>1, <2>2, <2>3, StartOwn DEF files, Starting, Early
<1>6. ASSUME NEW p \in Proc, AnswerReplay(p) PROVE OwnInv'
  <2>1. /\ pc[p] = "ask" /\ pc'[p] = "move" /\ \A q \in Proc : q # p => pc'[q] = pc[q]
        /\ UNCHANGED << files, vrsn, key >>
    BY <1>6 DEF AnswerReplay, Go, OwnInv, TypeInv, TypeOK
  <2>2. Mine(p)'
    BY <1>6, <2>1 DEF files, Mine, OwnInv, Live
  <2> QED BY <1>0, <2>1, <2>2, LiveOwn DEF files, Starting, Early, Late, Live
<1>7. ASSUME NEW p \in Proc, AnswerIgnore(p) PROVE OwnInv'
  <2>1. /\ pc[p] = "ask" /\ pc'[p] = "move" /\ \A q \in Proc : q # p => pc'[q] = pc[q]
        /\ UNCHANGED << files, vrsn, key >>
    BY <1>7 DEF AnswerIgnore, session, Go, OwnInv, TypeInv, TypeOK
  <2>2. Mine(p)'
    BY <1>7, <2>1 DEF files, Mine, OwnInv, Live
  <2> QED BY <1>0, <2>1, <2>2, LiveOwn DEF files, Starting, Early, Late, Live
<1>8. ASSUME NEW p \in Proc, AnswerReturn(p) PROVE OwnInv'
  <2>1. /\ pc[p] = "ask" /\ pc'[p] = "off" /\ \A q \in Proc : q # p => pc'[q] = pc[q]
        /\ UNCHANGED << files, vrsn, key >>
    BY <1>8 DEF AnswerReturn, session, Go, OwnInv, TypeInv, TypeOK
  <2>2. Mine(p)'
    BY <1>8, <2>1 DEF files, Mine, OwnInv, Live
  <2> QED BY <1>0, <2>1, <2>2, LiveOwn DEF files, Starting, Early, Late, Live
<1>13. ASSUME NEW p \in Proc, LoadScript(p) PROVE OwnInv'
  <2>1. /\ pc[p] = "load" /\ pc'[p] = "open" /\ \A q \in Proc : q # p => pc'[q] = pc[q]
        /\ UNCHANGED << files, vrsn, key >>
    BY <1>13 DEF LoadScript, Go, OwnInv, TypeInv, TypeOK
  <2>2. Mine(p)'
    BY <1>13, <2>1 DEF files, Mine, OwnInv, Live
  <2> QED BY <1>0, <2>1, <2>2, LiveOwn DEF files, Starting, Early, Late, Live
<1>19. ASSUME NEW p \in Proc, ReplayEnds(p) PROVE OwnInv'
  <2>1. /\ pc[p] = "replay" /\ pc'[p] = "edit" /\ \A q \in Proc : q # p => pc'[q] = pc[q]
        /\ UNCHANGED << files, vrsn, key >>
    BY <1>19 DEF ReplayEnds, Go, OwnInv, TypeInv, TypeOK
  <2>2. Mine(p)'
    BY <1>19, <2>1 DEF files, Mine, OwnInv, Live
  <2> QED BY <1>0, <2>1, <2>2, LiveOwn DEF files, Starting, Early, Late, Live
<1>9. ASSUME NEW p \in Proc, MoveKeys(p) PROVE OwnInv'
  <2>1. /\ pc[p] = "move" /\ pc'[p] = "create" /\ \A q \in Proc : q # p => pc'[q] = pc[q]
        /\ UNCHANGED << ec, holder, vrsn, key >>
    BY <1>9 DEF MoveKeys, session, Go, OwnInv, TypeInv, TypeOK
  <2>2. ek'[vrsn[p]] = 0 /\ \A v \in Vrsn : v # vrsn[p] => ek'[v] = ek[v]
    BY <1>9 DEF MoveKeys, OwnInv, TypeInv, TypeOK
  <2>3. Mine(p)'
    BY <2>1, <2>2 DEF Mine, Live
  <2>4. \A q \in Proc : pc[q] \in Live => vrsn[p] # vrsn[q] /\ vrsn[q] \in Vrsn
    BY <2>1 DEF OwnInv, Apart, Early, TypeInv, TypeOK
  <2> QED BY <1>0, <2>1, <2>2, <2>3, <2>4, StartOwn DEF Starting, Early, Late
<1>10. ASSUME NEW p \in Proc, CreateKeys(p) PROVE OwnInv'
  <2>1. /\ pc[p] = "create" /\ pc'[p] = "lock"
        /\ \A q \in Proc : q # p => pc'[q] = pc[q] /\ key'[q] = key[q]
        /\ UNCHANGED << ec, vrsn >>
    BY <1>10 DEF CreateKeys, Go, OwnInv, TypeInv, TypeOK
  <2>2. ek[vrsn[p]] = 0 /\ vrsn[p] \in Vrsn
    BY <2>1 DEF OwnInv, Mine, TypeInv, TypeOK
  <2>3. PICK i \in Inode : /\ ~ InUse(i) /\ ek' = [ek EXCEPT ![vrsn[p]] = i]
                           /\ holder' = [holder EXCEPT ![i] = none]
                           /\ key' = [key EXCEPT ![p] = i]
    BY <1>10, <2>2 DEF CreateKeys
  <2>4. Mine(p)'
    BY <2>1, <2>2, <2>3 DEF Mine, Live, OwnInv, TypeInv, TypeOK
  <2>5. \A q \in Proc : pc[q] \in Live => vrsn[p] # vrsn[q] /\ vrsn[q] \in Vrsn
    BY <2>1 DEF OwnInv, Apart, Late, TypeInv, TypeOK
  <2>6. \A q \in Proc : key[q] # i
    BY <2>3 DEF InUse
  <2>7. \A q \in Proc : pc[q] \in Live => ek'[vrsn[q]] = ek[vrsn[q]] /\ holder'[key[q]] = holder[key[q]]
    BY <2>3, <2>5, <2>6 DEF OwnInv, TypeInv, TypeOK
  <2> QED BY <1>0, <2>1, <2>4, <2>5, <2>7, StartOwn DEF Starting, Late
<1>11. ASSUME NEW p \in Proc, LockKeys(p) PROVE OwnInv'
  <2>1. /\ pc[p] = "lock" /\ pc'[p] = "load" /\ \A q \in Proc : q # p => pc'[q] = pc[q]
        /\ UNCHANGED << ek, ec, vrsn, key >>
        /\ holder[key[p]] = none /\ holder' = [holder EXCEPT ![key[p]] = p]
    BY <1>11 DEF LockKeys, session, Go, OwnInv, TypeInv, TypeOK
  <2>2. key[p] \in Inode
    BY <2>1 DEF OwnInv, TypeInv, TypeOK, KeyOpen
  <2>3. Mine(p)'
    BY <2>1, <2>2 DEF Mine, Live, OwnInv, TypeInv, TypeOK
  <2>4. \A q \in Proc : pc[q] \in Live => vrsn[p] # vrsn[q] /\ holder[key[q]] = q
    BY <2>1 DEF OwnInv, Apart, Mine, Late
  <2>5. \A q \in Proc : pc[q] \in Live => holder'[key[q]] = holder[key[q]]
    BY <2>1, <2>4, Constants DEF OwnInv, TypeInv, TypeOK
  <2> QED BY <1>0, <2>1, <2>3, <2>4, <2>5, StartOwn DEF Starting, Late
<1>12. ASSUME NEW p \in Proc, OpenChanges(p) PROVE OwnInv'
  <2>1. /\ pc[p] = "open" /\ pc'[p] = "state" /\ \A q \in Proc : q # p => pc'[q] = pc[q]
        /\ UNCHANGED << ek, holder, vrsn, key >> /\ ec' = [ec EXCEPT ![vrsn[p]] = p]
    BY <1>12 DEF OpenChanges, session, Go, OwnInv, TypeInv, TypeOK
  <2>2. Mine(p)'
    BY <2>1 DEF Mine, Live, OwnInv, TypeInv, TypeOK
  <2>3. \A q \in Proc : pc[q] \in Live => vrsn[p] # vrsn[q]
    BY <2>1 DEF OwnInv, Apart, Late
  <2>4. \A q \in Proc : pc[q] \in Live => ec'[vrsn[q]] = ec[vrsn[q]]
    BY <2>1, <2>3 DEF OwnInv, TypeInv, TypeOK
  <2> QED BY <1>0, <2>1, <2>2, <2>3, <2>4, StartOwn DEF Starting, Late
<1>14. ASSUME NEW p \in Proc, Ready(p) PROVE OwnInv'
  <2>1. /\ pc[p] = "state" /\ pc'[p] \in Live /\ \A q \in Proc : q # p => pc'[q] = pc[q]
        /\ UNCHANGED << files, vrsn, key >>
    BY <1>14 DEF Ready, session, Go, OwnInv, TypeInv, TypeOK, Live
  <2>2. Mine(p)'
    BY <2>1 DEF files, Mine, OwnInv, Live
  <2> QED BY <1>0, <2>1, <2>2, LiveOwn DEF files, Starting, Early, Late, Live
<1>15. ASSUME NEW p \in Proc, Type(p) PROVE OwnInv'
  BY <1>15, <1>0 DEF Type, session, OwnInv, OneStarts, Apart, Mine, Starting
<1>16. ASSUME NEW p \in Proc, getout(p) \/ BadState(p) PROVE OwnInv'
  <2> DEFINE c == IF crashed[p] THEN ec ELSE [ec EXCEPT ![vrsn[p]] = none]
  <2>1. /\ pc[p] \in Late /\ pc[p] \notin Early /\ vrsn[p] \in Vrsn /\ Dead(p, holder, c)
        /\ c \in [Vrsn -> Proc \cup {none, left}]
        /\ \A v \in Vrsn : v # vrsn[p] => c[v] = ec[v]
    BY <1>16 DEF getout, BadState, OwnInv, TypeInv, TypeOK, Early, Late
  <2>2. \A v \in Vrsn : v # vrsn[p] => ek'[v] = ek[v]
    BY <1>16 DEF getout, BadState, mvBack, OwnInv, TypeInv, TypeOK
  <2> HIDE DEF c
  <2> QED BY <1>0, <2>1, <2>2, DeadOwn DEF Late
<1>17. ASSUME NEW p \in Proc, fatal(p) PROVE OwnInv'
  <2> DEFINE c == IF ec[vrsn[p]] = none THEN [ec EXCEPT ![vrsn[p]] = left] ELSE ec
  <2>1. /\ pc[p] # "off" /\ vrsn[p] \in Vrsn /\ Dead(p, holder, c)
        /\ c \in [Vrsn -> Proc \cup {none, left}]
        /\ \A v \in Vrsn : v # vrsn[p] => c[v] = ec[v]
        /\ c[vrsn[p]] # ec[vrsn[p]] => ec[vrsn[p]] = none
    BY <1>17 DEF fatal, OwnInv, TypeInv, TypeOK
  <2>2. \A v \in Vrsn : v # vrsn[p] => ek'[v] = ek[v]
    BY <1>17 DEF fatal, mvBack, OwnInv, TypeInv, TypeOK
  <2>3. pc[p] \in Early => ek' = ek
    BY <1>17 DEF fatal
  <2> HIDE DEF c
  <2> QED BY <1>0, <2>1, <2>2, <2>3, DeadOwn
<1>18. ASSUME NEW p \in Proc, Kill(p) PROVE OwnInv'
  <2>1. pc[p] # "off" /\ Dead(p, holder, ec) /\ ek' = ek
        /\ ec \in [Vrsn -> Proc \cup {none, left}]
    BY <1>18 DEF Kill, OwnInv, TypeInv, TypeOK
  <2> QED BY <1>0, <2>1, DeadOwn
<1>20. ASSUME NEW p \in Proc, Exit(p) \/ ExitAbort(p) PROVE OwnInv'
  <2> DEFINE c == [ec EXCEPT ![vrsn[p]] = none]
  <2>1. /\ pc[p] \in Live /\ pc[p] \notin Early /\ pc[p] # "off" /\ Dead(p, holder, c)
        /\ c \in [Vrsn -> Proc \cup {none, left}]
        /\ \A v \in Vrsn : v # vrsn[p] => c[v] = ec[v]
    BY <1>20 DEF Exit, ExitAbort, OwnInv, TypeInv, TypeOK, Early, Live
  <2>2. \A v \in Vrsn : v # vrsn[p] => ek'[v] = ek[v]
    BY <1>20 DEF Exit, ExitAbort, OwnInv, TypeInv, TypeOK
  <2> HIDE DEF c
  <2> QED BY <1>0, <2>1, <2>2, DeadOwn
<1> QED
  BY <1>1, <1>2, <1>3, <1>4, <1>5, <1>6, <1>7, <1>8, <1>9, <1>10, <1>11, <1>12,
     <1>13, <1>14, <1>15, <1>16, <1>17, <1>18, <1>19, <1>20
     DEF Next, OwnInv

(* When no two sessions start at the same time, each session that has       *)
(* started has its key stroke file and its change file for itself, under    *)
(* their names and locked, whatever crashes, aborts and recoveries there    *)
(* have been before.                                                       *)
THEOREM OwnFilesCorrect == ASSUME ~ Overlap PROVE Spec => []OwnFiles
<1>1. OwnInv => OwnFiles
  BY DEF OwnInv, TypeInv, KeyOpen, Mine, OwnFiles
<1>2. Init => OwnInv
  BY OwnInit
<1>3. OwnInv /\ [Next]_vars => OwnInv'
  BY OwnStep
<1> QED BY <1>1, <1>2, <1>3, PTL DEF Spec

-----------------------------------------------------------------------------
(* The key strokes.  What makes StrokesOffered inductive: no two names are    *)
(* of one key stroke file (OneName); whoever holds a lock is at work on the *)
(* file that is locked (Held); and what a session that starts has found,    *)
(* chosen and loaded (Story): a record is moved aside only by a session     *)
(* that has found a crash, it has been settled unless the user chose to     *)
(* have it replayed, and then it is all in the script; until the replay is  *)
(* over, there is nothing in the record of the session's own.               *)
OneName == \A u, v \in Vrsn :
  /\ ek[u] # 0 /\ u # v => ek[u] # ek[v]
  /\ bek[u] # 0 /\ u # v => bek[u] # bek[v]
  /\ ek[u] # 0 => ek[u] # bek[v]

Held == \A i \in Inode : holder[i] # none =>
  pc[holder[i]] \in {"load", "open", "state"} \cup Live /\ key[holder[i]] = i

Story(p) ==
  LET e == ek[vrsn[p]]
      b == bek[vrsn[p]]
  IN  /\ pc[p] \in {"pick", "scan"} => ~ crashed[p]
      /\ pc[p] = "ask" => crashed[p]
      /\ pc[p] \in {"ask", "move"} => (crashed[p] <=> e # 0)
      /\ pc[p] = "move" /\ crashed[p] /\ ~ chose[p] => rec[e] \subseteq settled
      /\ pc[p] \in Late /\ crashed[p] /\ ~ chose[p] /\ b # 0 => rec[b] \subseteq settled
      /\ pc[p] \in {"open", "state"} /\ chose[p] => b # 0 /\ script[p] = rec[b]
      /\ script[p] # {} => pc[p] \in {"open", "state"} \cup Live
      /\ pc[p] = "replay" => chose[p]
      /\ pc[p] = "edit" => ~ chose[p]
      /\ pc[p] \in {"lock", "load", "open", "state", "replay"} => rec[key[p]] = {}

StrokesInv == OwnInv /\ OneName /\ Held /\ (\A p \in Proc : Story(p)) /\ StrokesOffered

(* Who is at work on the key stroke file he has locked. *)
Working == {"load", "open", "state"} \cup Live

(* In Late, with its files; for the provers. *)
LEMMA Steps ==
  /\ Early = {"pick", "scan", "ask", "move"} /\ Live = {"replay", "edit"}
  /\ Late = {"create", "lock", "load", "open", "state"}
  BY DEF Early, Late, Live

(* The record that was moved aside gets its name back. *)
LEMMA mvBackNames ==
  ASSUME TypeOK, OneName, NEW v \in Vrsn, mvBack(v)
  PROVE  OneName'
<1>1. CASE bek[v] = 0
  BY <1>1 DEF mvBack, OneName
<1>2. CASE bek[v] # 0
  <2>1. /\ \A u \in Vrsn : ek'[u] = IF u = v THEN bek[v] ELSE ek[u]
        /\ \A u \in Vrsn : bek'[u] = IF u = v THEN 0 ELSE bek[u]
    BY <1>2 DEF mvBack, TypeOK
  <2> QED BY <1>2, <2>1 DEF OneName
<1> QED BY <1>1, <1>2

(* No step gives a key stroke file a second name. *)
LEMMA OneNameStep ==
  ASSUME TypeOK, OneName, [Next]_vars
  PROVE  OneName'
<1>1. CASE UNCHANGED << ek, bek >>
  BY <1>1 DEF OneName
<1>2. ASSUME NEW p \in Proc, MoveKeys(p) PROVE OneName'
  <2>1. CASE ek[vrsn[p]] = 0
    BY <1>1, <1>2, <2>1 DEF MoveKeys
  <2>2. CASE ek[vrsn[p]] # 0
    <3>1. /\ \A u \in Vrsn : bek'[u] = IF u = vrsn[p] THEN ek[u] ELSE bek[u]
          /\ \A u \in Vrsn : ek'[u] = IF u = vrsn[p] THEN 0 ELSE ek[u]
          /\ vrsn[p] \in Vrsn
      BY <1>2, <2>2 DEF MoveKeys, TypeOK
    <3> QED BY <2>2, <3>1 DEF OneName
  <2> QED BY <2>1, <2>2
<1>3. ASSUME NEW p \in Proc, CreateKeys(p) PROVE OneName'
  <2>1. PICK i \in Inode : /\ ek[vrsn[p]] = 0 => ~ InUse(i)
                           /\ ek[vrsn[p]] # 0 => i = ek[vrsn[p]]
                           /\ ek' = [ek EXCEPT ![vrsn[p]] = i] /\ bek' = bek
    BY <1>3 DEF CreateKeys
  <2>2. \A u \in Vrsn : ek'[u] = IF u = vrsn[p] THEN i ELSE ek[u]
    BY <2>1 DEF TypeOK
  <2>3. vrsn[p] \in Vrsn /\ i # 0
    BY DEF TypeOK, Inode
  <2>4. CASE ek[vrsn[p]] = 0
    <3>1. \A u \in Vrsn : ek[u] # i /\ bek[u] # i
      BY <2>1, <2>4 DEF InUse
    <3> QED BY <2>1, <2>2, <2>3, <3>1 DEF OneName
  <2>5. CASE ek[vrsn[p]] # 0
    <3>1. \A u \in Vrsn : ek'[u] = ek[u]
      BY <2>1, <2>2, <2>5
    <3> QED BY <2>1, <3>1 DEF OneName
  <2> QED BY <2>4, <2>5
<1>4. ASSUME NEW p \in Proc, getout(p) PROVE OneName'
  BY <1>4, mvBackNames DEF getout, TypeOK
<1>5. ASSUME NEW p \in Proc, BadState(p) PROVE OneName'
  <2>1. /\ \A u \in Vrsn : ek'[u] = IF u = vrsn[p] THEN bek[u] ELSE ek[u]
        /\ \A u \in Vrsn : bek'[u] = IF u = vrsn[p] THEN 0 ELSE bek[u]
        /\ vrsn[p] \in Vrsn
    BY <1>5 DEF BadState, TypeOK
  <2> QED BY <2>1 DEF OneName
<1>6. ASSUME NEW p \in Proc, fatal(p) PROVE OneName'
  BY <1>1, <1>6, mvBackNames DEF fatal, TypeOK
<1>7. ASSUME NEW p \in Proc, Exit(p) PROVE OneName'
  <2>1. /\ \A u \in Vrsn : ek'[u] = IF u = vrsn[p] THEN 0 ELSE ek[u]
        /\ \A u \in Vrsn : bek'[u] = IF u = vrsn[p] THEN 0 ELSE bek[u]
        /\ vrsn[p] \in Vrsn
    BY <1>7 DEF Exit, TypeOK
  <2> QED BY <2>1 DEF OneName
<1>8. ASSUME NEW p \in Proc,
        \/ Begin(p) \/ PickVersion(p) \/ NoVersion(p) \/ Scan(p)
        \/ AnswerReplay(p) \/ AnswerIgnore(p) \/ AnswerReturn(p)
        \/ LockKeys(p) \/ LoadScript(p) \/ OpenChanges(p) \/ Ready(p)
        \/ Kill(p) \/ ExitAbort(p) \/ Type(p) \/ ReplayEnds(p)
      PROVE UNCHANGED << ek, bek >>
  BY <1>8 DEF Begin, PickVersion, NoVersion, Scan, AnswerReplay, AnswerIgnore, AnswerReturn, LockKeys,
     LoadScript, OpenChanges, Ready, Kill, ExitAbort, Type, ReplayEnds, files
<1> QED BY <1>1, <1>2, <1>3, <1>4, <1>5, <1>6, <1>7, <1>8 DEF Next, vars

(* Locks go with the process, and else with its step. *)
LEMMA HeldKeeps ==
  ASSUME Held, TypeOK, TypeOK', NEW p \in Proc,
         \A q \in Proc : q # p => pc'[q] = pc[q] /\ key'[q] = key[q],
         \A i \in Inode : holder'[i] \in {holder[i], none} \/ (holder'[i] = p /\ pc'[p] \in Working /\ key'[p] = i),
         \A i \in Inode : holder'[i] = p => pc'[p] \in Working /\ key'[p] = i
  PROVE  Held'
<1> SUFFICES ASSUME NEW i \in Inode, holder'[i] # none
             PROVE  pc'[holder'[i]] \in {"load", "open", "state"} \cup Live /\ key'[holder'[i]] = i
  BY DEF Held
<1>1. holder'[i] \in Proc
  BY DEF TypeOK
<1>2. CASE holder'[i] = p
  BY <1>2 DEF Working
<1>3. CASE holder'[i] # p
  <2>1. holder'[i] = holder[i]
    BY <1>3
  <2> QED BY <1>1, <1>3, <2>1 DEF Held
<1> QED BY <1>2, <1>3

(* Every lock is of a session at work on the file. *)
LEMMA HeldStep ==
  ASSUME Held, TypeInv, TypeInv', [Next]_vars
  PROVE  Held'
<1> USE DEF TypeInv
<1>1. CASE UNCHANGED vars
  BY <1>1 DEF vars, Held
<1>2. ASSUME NEW p \in Proc, NEW c, Dead(p, holder, c) PROVE Held'
  <2>1. /\ \A q \in Proc : q # p => pc'[q] = pc[q] /\ key'[q] = key[q]
        /\ \A i \in Inode : holder'[i] = IF holder[i] = p THEN none ELSE holder[i]
    BY <1>2 DEF Dead, Go, TypeOK
  <2>2. p # none
    BY Constants
  <2> QED BY <2>1, <2>2, HeldKeeps
<1>3. ASSUME NEW p \in Proc, getout(p) \/ BadState(p) \/ fatal(p) \/ Kill(p) \/ Exit(p) \/ ExitAbort(p)
      PROVE  Held'
  BY <1>2, <1>3 DEF getout, BadState, fatal, Kill, Exit, ExitAbort
<1>4. ASSUME NEW p \in Proc, LockKeys(p) PROVE Held'
  <2>1. /\ \A q \in Proc : q # p => pc'[q] = pc[q] /\ key'[q] = key[q]
        /\ \A i \in Inode : holder'[i] = IF i = key[p] THEN p ELSE holder[i]
        /\ pc'[p] = "load" /\ pc[p] = "lock" /\ key'[p] = key[p]
    BY <1>4 DEF LockKeys, Go, session, TypeOK
  <2>2. \A i \in Inode : holder[i] # p
    BY <2>1, Constants DEF Held, Live
  <2> QED BY <2>1, <2>2, HeldKeeps DEF Working
<1>5. ASSUME NEW p \in Proc, CreateKeys(p) PROVE Held'
  <2>1. /\ \A q \in Proc : q # p => pc'[q] = pc[q] /\ key'[q] = key[q]
        /\ \A i \in Inode : holder'[i] \in {holder[i], none}
        /\ pc[p] = "create"
    BY <1>5 DEF CreateKeys, Go, TypeOK
  <2>2. \A i \in Inode : holder[i] # p
    BY <2>1, Constants DEF Held, Live
  <2>3. p # none
    BY Constants
  <2> QED BY <2>1, <2>2, <2>3, HeldKeeps
<1>6. ASSUME NEW p \in Proc,
        \/ Begin(p) \/ PickVersion(p) \/ NoVersion(p) \/ Scan(p)
        \/ AnswerReplay(p) \/ AnswerIgnore(p) \/ AnswerReturn(p)
        \/ MoveKeys(p) \/ LoadScript(p) \/ OpenChanges(p) \/ Ready(p)
        \/ Type(p) \/ ReplayEnds(p)
      PROVE Held'
  <2>1. /\ \A q \in Proc : q # p => pc'[q] = pc[q]
        /\ holder' = holder /\ key' = key
        /\ pc[p] \in Working => pc'[p] \in Working
    BY <1>6, Steps DEF Begin, PickVersion, NoVersion, Scan, AnswerReplay, AnswerIgnore, AnswerReturn, MoveKeys,
       LoadScript, OpenChanges, Ready, Type, ReplayEnds, files, session, Go, TypeOK, Working
  <2>2. \A i \in Inode : holder[i] = p => pc[p] \in Working /\ key[p] = i
    BY Constants DEF Held, Working
  <2> QED BY <2>1, <2>2, HeldKeeps
<1> QED BY <1>1, <1>3, <1>4, <1>5, <1>6 DEF Next

(* What a session has found, chosen and loaded stays so while others step,   *)
(* if they leave the files it is about to recover from, and what it has    *)
(* recorded.                                                               *)
LEMMA StoryKeeps ==
  ASSUME NEW q \in Proc, Story(q), settled \subseteq settled',
         UNCHANGED << vrsn[q], crashed[q], chose[q], script[q], key[q], pc[q] >>,
         pc[q] \in (Early \cup Late) \ {"pick"} =>
           /\ ek'[vrsn[q]] = ek[vrsn[q]] /\ bek'[vrsn[q]] = bek[vrsn[q]]
           /\ ek[vrsn[q]] # 0 => rec'[ek[vrsn[q]]] = rec[ek[vrsn[q]]]
           /\ bek[vrsn[q]] # 0 => rec'[bek[vrsn[q]]] = rec[bek[vrsn[q]]],
         pc[q] \in {"lock", "load", "open", "state", "replay"} => rec'[key[q]] \subseteq rec[key[q]]
  PROVE  Story(q)'
<1>1. CASE pc[q] \in {"off", "pick"} \cup Live
  BY <1>1, Steps DEF Story
<1>2. CASE pc[q] \in {"scan", "ask", "move"}
  BY <1>2, Steps DEF Story
<1>3. CASE pc[q] \in Late
  BY <1>3, Steps DEF Story
<1>4. CASE pc[q] \notin {"off"} \cup Early \cup Late \cup Live
  BY <1>4, Steps DEF Story
<1> QED BY <1>1, <1>2, <1>3, <1>4, Steps

(* A session at work shares no version with one that starts, and only one    *)
(* starts at a time.                                                       *)
LEMMA Separate ==
  ASSUME OwnInv, NEW p \in Proc, NEW q \in Proc, p # q, pc[p] # "off",
         pc[q] \in (Early \cup Late) \ {"pick"}
  PROVE  pc[p] \in Live /\ vrsn[p] # vrsn[q]
<1>1. ~ Starting(p)
  BY Steps DEF OwnInv, OneStarts, Starting
<1>2. pc[p] \in Live
  BY <1>1 DEF Starting, OwnInv, TypeInv, TypeOK
<1> QED BY <1>2 DEF OwnInv, Apart

(* ... so that no step of one disturbs the other. *)
LEMMA OthersStory ==
  ASSUME OwnInv, NEW p \in Proc, NEW q \in Proc, p # q, pc[p] # "off", Story(q), settled \subseteq settled',
         UNCHANGED << vrsn[q], crashed[q], chose[q], script[q], key[q], pc[q], rec >>,
         \A v \in Vrsn : v # vrsn[p] => ek'[v] = ek[v] /\ bek'[v] = bek[v]
  PROVE  Story(q)'
<1>1. vrsn[q] \in Vrsn
  BY DEF OwnInv, TypeInv, TypeOK
<1>2. pc[q] \in (Early \cup Late) \ {"pick"} => vrsn[p] # vrsn[q]
  BY Separate
<1> QED BY <1>1, <1>2, StoryKeeps

(* Every session's story goes on as it began. *)
LEMMA StoryStep ==
  ASSUME OwnInv, OneName, Held, \A p \in Proc : Story(p), TypeInv', [Next]_vars
  PROVE  \A p \in Proc : Story(p)'
<1> USE DEF OwnInv, TypeInv
<1>1. CASE UNCHANGED vars
  BY <1>1 DEF vars, Story
<1>2. ASSUME NEW p \in Proc, NEW c, Dead(p, holder, c), pc[p] # "off", rec' = rec, settled \subseteq settled',
             \A v \in Vrsn : v # vrsn[p] => ek'[v] = ek[v] /\ bek'[v] = bek[v]
      PROVE  \A q \in Proc : Story(q)'
  <2>1. /\ \A q \in Proc : q # p => UNCHANGED << vrsn[q], crashed[q], chose[q], script[q], key[q], pc[q] >>
        /\ pc'[p] = "off" /\ script'[p] = {}
    BY <1>2 DEF Dead, Go, TypeOK
  <2>2. Story(p)'
    BY <2>1, Steps DEF Story
  <2> QED BY <1>2, <2>1, <2>2, OthersStory
<1>3. ASSUME NEW p \in Proc, getout(p) PROVE \A q \in Proc : Story(q)'
  BY <1>2, <1>3, Steps DEF getout, mvBack, TypeOK
<1>4. ASSUME NEW p \in Proc, BadState(p) PROVE \A q \in Proc : Story(q)'
  BY <1>2, <1>4 DEF BadState, TypeOK
<1>5. ASSUME NEW p \in Proc, fatal(p) PROVE \A q \in Proc : Story(q)'
  BY <1>2, <1>5 DEF fatal, mvBack, TypeOK
<1>6. ASSUME NEW p \in Proc, Kill(p) \/ ExitAbort(p) PROVE \A q \in Proc : Story(q)'
  BY <1>2, <1>6 DEF Kill, ExitAbort
<1>7. ASSUME NEW p \in Proc, Exit(p) PROVE \A q \in Proc : Story(q)'
  BY <1>2, <1>7 DEF Exit, TypeOK
(* The steps of a session that change no record. *)
<1>8. ASSUME NEW p \in Proc, pc[p] # "off", UNCHANGED rec, settled \subseteq settled', Story(p)',
             \A v \in Vrsn : v # vrsn[p] => ek'[v] = ek[v] /\ bek'[v] = bek[v],
             \A q \in Proc : q # p => UNCHANGED << vrsn[q], crashed[q], chose[q], script[q], key[q], pc[q] >>
      PROVE  \A q \in Proc : Story(q)'
  BY <1>8, OthersStory
<1>9. ASSUME NEW p \in Proc, Begin(p) PROVE \A q \in Proc : Story(q)'
  <2>1. /\ \A q \in Proc : q # p => UNCHANGED << vrsn[q], crashed[q], chose[q], script[q], key[q], pc[q] >>
        /\ UNCHANGED << rec, settled, ek, bek, script >> /\ pc[p] = "off" /\ pc'[p] = "pick"
        /\ ~ crashed'[p]
    BY <1>9 DEF Begin, Go, files, TypeOK
  <2>2. Story(p)'
    BY <2>1, Steps DEF Story
  <2>3. ASSUME NEW q \in Proc, q # p PROVE Story(q)'
    BY <2>1, <2>3, StoryKeeps
  <2> QED BY <2>2, <2>3
<1>10. ASSUME NEW p \in Proc, PickVersion(p) \/ NoVersion(p) \/ AnswerReturn(p) PROVE \A q \in Proc : Story(q)'
  <2>1. /\ \A q \in Proc : q # p => UNCHANGED << vrsn[q], crashed[q], chose[q], script[q], key[q], pc[q] >>
        /\ UNCHANGED << rec, settled, ek, bek, script >> /\ pc[p] \in {"pick", "ask"} /\ pc'[p] \in {"off", "scan"}
        /\ pc[p] = "ask" => pc'[p] = "off"
        /\ UNCHANGED crashed
    BY <1>10 DEF PickVersion, NoVersion, AnswerReturn, Go, files, session, TypeOK
  <2>2. Story(p)'
    BY <2>1, Steps DEF Story
  <2> QED BY <1>8, <2>1, <2>2
<1>11. ASSUME NEW p \in Proc, Scan(p) PROVE \A q \in Proc : Story(q)'
  <2>1. /\ \A q \in Proc : q # p => UNCHANGED << vrsn[q], crashed[q], chose[q], script[q], key[q], pc[q] >>
        /\ UNCHANGED << rec, settled, ek, bek, script, chose >> /\ pc[p] = "scan"
    BY <1>11 DEF Scan, Go, files, TypeOK
  <2>2. CASE pc'[p] = "ask"
    <3>1. /\ Unlocked(vrsn'[p]) /\ crashed'[p]
      BY <1>11, <2>2 DEF Scan, Go, TypeOK
    <3>2. Story(p)'
      BY <2>1, <2>2, <3>1, Steps DEF Story, Unlocked
    <3> QED BY <1>8, <2>1, <3>2
  <2>3. CASE pc'[p] # "ask"
    <3>1. /\ pc'[p] = "move" /\ vrsn' = vrsn /\ crashed' = crashed
          /\ ~ Unlocked(vrsn[p])
      BY <1>11, <2>3 DEF Scan, Go, TypeOK
    <3>2. ek[vrsn[p]] = 0
      <4>1. CASE ek[vrsn[p]] = 0
        BY <4>1
      <4>2. CASE ek[vrsn[p]] # 0
        <5> DEFINE i == ek[vrsn[p]]
                   q == holder[i]
        <5>1. i \in Inode /\ q \in Proc /\ q # none
          BY <3>1, <4>2 DEF Unlocked, TypeOK
        <5>2. pc[q] \in {"load", "open", "state"} \cup Live /\ key[q] = i
          BY <5>1 DEF Held
        <5>3. q # p
          BY <2>1, <5>2, Steps
        <5>4. pc[q] \in Live /\ vrsn[q] # vrsn[p] /\ vrsn[q] \in Vrsn /\ vrsn[p] \in Vrsn
          BY <2>1, <5>1, <5>2, <5>3, Separate, Steps, SMTT(45) DEF TypeOK
        <5>5. ek[vrsn[q]] = i
          BY <5>1, <5>2, <5>4 DEF Mine
        <5> HIDE DEF i, q
        <5> QED BY <4>2, <5>4, <5>5 DEF OneName, i
      <4> QED BY <4>1, <4>2
    <3>3. ~ crashed[p]
      BY <2>1 DEF Story
    <3>4. Story(p)'
      BY <2>1, <3>1, <3>2, <3>3, Steps DEF Story
    <3> QED BY <1>8, <2>1, <3>4
  <2> QED BY <2>2, <2>3
<1>12. ASSUME NEW p \in Proc, AnswerReplay(p) \/ AnswerIgnore(p) PROVE \A q \in Proc : Story(q)'
  <2>1. /\ \A q \in Proc : q # p => UNCHANGED << vrsn[q], crashed[q], chose[q], script[q], key[q], pc[q] >>
        /\ UNCHANGED << rec, ek, bek, script, vrsn, crashed >> /\ settled \subseteq settled'
        /\ pc[p] = "ask" /\ pc'[p] = "move"
        /\ chose'[p] \/ (ek[vrsn[p]] # 0 => rec[ek[vrsn[p]]] \subseteq settled')
    BY <1>12 DEF AnswerReplay, AnswerIgnore, Go, files, session, TypeOK
  <2>2. Story(p)'
    BY <2>1, Steps DEF Story
  <2> QED BY <1>8, <2>1, <2>2
<1>13. ASSUME NEW p \in Proc, MoveKeys(p) PROVE \A q \in Proc : Story(q)'
  <2>1. /\ \A q \in Proc : q # p => UNCHANGED << vrsn[q], crashed[q], chose[q], script[q], key[q], pc[q] >>
        /\ UNCHANGED << rec, settled, script, vrsn, crashed, chose >>
        /\ pc[p] = "move" /\ pc'[p] = "create"
        /\ \A v \in Vrsn : v # vrsn[p] => ek'[v] = ek[v] /\ bek'[v] = bek[v]
        /\ ek[vrsn[p]] # 0 => bek'[vrsn[p]] = ek[vrsn[p]]
    BY <1>13 DEF MoveKeys, Go, session, TypeOK
  <2>2. Story(p)'
    BY <2>1, Steps DEF Story
  <2> QED BY <1>8, <2>1, <2>2
<1>14. ASSUME NEW p \in Proc, CreateKeys(p) PROVE \A q \in Proc : Story(q)'
  <2>1. PICK i \in Inode : /\ ek[vrsn[p]] = 0 => ~ InUse(i)
                           /\ rec' = [rec EXCEPT ![i] = {}] /\ key' = [key EXCEPT ![p] = i]
    BY <1>14 DEF CreateKeys
  <2>2. /\ \A q \in Proc : q # p => UNCHANGED << vrsn[q], crashed[q], chose[q], script[q], key[q], pc[q] >>
        /\ UNCHANGED << bek, settled, script, vrsn, crashed, chose >>
        /\ pc[p] = "create" /\ pc'[p] = "lock"
        /\ key'[p] = i /\ rec'[i] = {} /\ \A j \in Inode : j # i => rec'[j] = rec[j]
    BY <1>14, <2>1 DEF CreateKeys, Go, TypeOK
  <2>3. bek[vrsn[p]] \in Inode \cup {0} /\ bek[vrsn[p]] # i
    BY <2>1, <2>2 DEF Mine, InUse, TypeOK
  <2>4. Story(p)'
    BY <2>2, <2>3, Steps DEF Story
  <2>5. ASSUME NEW q \in Proc, q # p PROVE Story(q)'
    <3>1. pc[q] \notin (Early \cup Late) \ {"pick"}
      BY <2>2, <2>5, Separate, Steps
    <3>2. pc[q] = "replay" => key[q] \in Inode
      BY Steps DEF TypeOK, KeyOpen
    <3>3. pc[q] = "replay" => rec'[key[q]] \subseteq rec[key[q]]
      BY <2>2, <3>2
    <3> QED BY <2>2, <2>5, <3>1, <3>3, StoryKeeps, Steps
  <2> QED BY <2>4, <2>5
<1>15. ASSUME NEW p \in Proc, LockKeys(p) \/ LoadScript(p) \/ OpenChanges(p) PROVE \A q \in Proc : Story(q)'
  <2>1. /\ \A q \in Proc : q # p => UNCHANGED << vrsn[q], crashed[q], chose[q], script[q], key[q], pc[q] >>
        /\ UNCHANGED << rec, ek, bek, settled, vrsn, crashed, chose, key >>
        /\ \/ pc[p] = "lock" /\ pc'[p] = "load" /\ script' = script
           \/ /\ pc[p] = "load" /\ pc'[p] = "open"
              /\ chose[p] => bek[vrsn[p]] # 0 /\ script'[p] = rec[bek[vrsn[p]]]
           \/ pc[p] = "open" /\ pc'[p] = "state" /\ script' = script
    BY <1>15 DEF LockKeys, LoadScript, OpenChanges, Go, files, session, TypeOK
  <2>2. Story(p)'
    BY <2>1, Steps DEF Story
  <2> QED BY <1>8, <2>1, <2>2
<1>16. ASSUME NEW p \in Proc, Ready(p) PROVE \A q \in Proc : Story(q)'
  <2>1. /\ \A q \in Proc : q # p => UNCHANGED << vrsn[q], crashed[q], chose[q], script[q], key[q], pc[q] >>
        /\ UNCHANGED << rec, ek, bek, settled, vrsn, crashed, chose, key, script >>
        /\ pc[p] = "state" /\ pc'[p] = IF chose[p] THEN "replay" ELSE "edit"
    BY <1>16 DEF Ready, Go, files, session, TypeOK
  <2>2. Story(p)'
    BY <2>1, Steps DEF Story
  <2> QED BY <1>8, <2>1, <2>2
<1>17. ASSUME NEW p \in Proc, ReplayEnds(p) PROVE \A q \in Proc : Story(q)'
  <2>1. /\ \A q \in Proc : q # p => UNCHANGED << vrsn[q], crashed[q], chose[q], script[q], key[q], pc[q] >>
        /\ UNCHANGED << rec, ek, bek, vrsn, crashed, key >> /\ settled \subseteq settled'
        /\ pc[p] = "replay" /\ pc'[p] = "edit" /\ ~ chose'[p]
    BY <1>17 DEF ReplayEnds, Go, files, TypeOK
  <2>2. Story(p)'
    BY <2>1, Steps DEF Story
  <2> QED BY <1>8, <2>1, <2>2
<1>18. ASSUME NEW p \in Proc, Type(p) PROVE \A q \in Proc : Story(q)'
  <2>1. /\ UNCHANGED << vrsn, crashed, chose, script, key, pc, ek, bek, settled >>
        /\ pc[p] = "edit" /\ \A j \in Inode : j # key[p] => rec'[j] = rec[j]
    BY <1>18 DEF Type, session, TypeOK
  <2>2. Story(p)'
    BY <2>1, Steps DEF Story
  <2>3. ek[vrsn[p]] = key[p] /\ key[p] # 0 /\ holder[key[p]] = p /\ vrsn[p] \in Vrsn
    BY <2>1, Steps DEF Mine, KeyOpen, TypeOK
  <2>4. ASSUME NEW q \in Proc, q # p PROVE Story(q)'
    <3>1. vrsn[q] \in Vrsn /\ ek[vrsn[q]] \in Inode \cup {0} /\ bek[vrsn[q]] \in Inode \cup {0}
      BY DEF TypeOK
    <3>2. bek[vrsn[q]] # key[p]
      BY <2>3, <3>1 DEF OneName
    <3>3. pc[q] \in (Early \cup Late) \ {"pick"} => ek[vrsn[q]] # key[p]
      <4>1. pc[q] \in (Early \cup Late) \ {"pick"} => vrsn[q] # vrsn[p]
        BY <2>1, <2>4, Separate
      <4> QED BY <2>3, <3>1, <4>1 DEF OneName
    <3>4. pc[q] \in {"lock", "load", "open", "state", "replay"} => key[q] # key[p] /\ key[q] \in Inode
      <4>1. pc[q] \in {"lock", "load", "open", "state"} => key[q] # key[p]
        BY <3>3, Steps DEF Mine
      <4>2. pc[q] = "replay" => key[q] # key[p]
        BY <2>3, <2>4, Steps DEF Mine
      <4>3. pc[q] \in {"lock", "load", "open", "state", "replay"} => key[q] \in Inode
        BY Steps DEF TypeOK, KeyOpen
      <4> QED BY <4>1, <4>2, <4>3
    <3>5. pc[q] \in {"lock", "load", "open", "state", "replay"} => rec'[key[q]] \subseteq rec[key[q]]
      BY <2>1, <3>4
    <3>6. /\ pc[q] \in (Early \cup Late) \ {"pick"} =>
               (ek[vrsn[q]] # 0 => rec'[ek[vrsn[q]]] = rec[ek[vrsn[q]]])
          /\ bek[vrsn[q]] # 0 => rec'[bek[vrsn[q]]] = rec[bek[vrsn[q]]]
      BY <2>1, <3>1, <3>2, <3>3
    <3>7. settled \subseteq settled' /\ UNCHANGED << vrsn[q], crashed[q], chose[q], script[q], key[q], pc[q] >>
          /\ ek'[vrsn[q]] = ek[vrsn[q]] /\ bek'[vrsn[q]] = bek[vrsn[q]]
      BY <2>1
    <3> QED BY <3>5, <3>6, <3>7, StoryKeeps
  <2> QED BY <2>2, <2>4
<1> QED BY <1>1, <1>3, <1>4, <1>5, <1>6, <1>7, <1>9, <1>10, <1>11, <1>12, <1>13, <1>14, <1>15, <1>16,
           <1>17, <1>18 DEF Next

(* A key stroke is in a record that the next start will find, or in one that *)
(* a session has moved aside to replay it, or has replayed and not saved.  *)
Found(s, v) == ek[v] # 0 /\ s \in rec[ek[v]]
Waits(s, p) == /\ bek[vrsn[p]] # 0 /\ s \in rec[bek[vrsn[p]]]
               /\ crashed[p]
               /\ pc[p] \in Late \/ s \in script[p]
Kept(s) == (\E v \in Vrsn : Found(s, v)) \/ (\E p \in Proc : Waits(s, p))

(* StrokesOffered in these terms. *)
LEMMA Offered ==
  TypeOK => (StrokesOffered <=> \A s \in 1 .. count.strokes : s \notin settled => Kept(s))
  BY DEF StrokesOffered, Found, Waits, Kept, TypeOK

(* Between two key strokes nothing is to be lost that has not been settled. *)
LEMMA OfferedKeeps ==
  ASSUME TypeOK, TypeOK', StrokesOffered, count'.strokes = count.strokes, settled \subseteq settled',
         \A s \in Stroke, v \in Vrsn : s \notin settled' /\ Found(s, v) => Kept(s)',
         \A s \in Stroke, p \in Proc : s \notin settled' /\ Waits(s, p) => Kept(s)'
  PROVE  StrokesOffered'
<1>1. ASSUME NEW s \in 1 .. count.strokes, s \notin settled'
      PROVE  Kept(s)'
  <2>1. s \in Stroke /\ s \notin settled
    BY <1>1, Constants DEF TypeOK, Stroke
  <2>2. Kept(s)
    BY <1>1, <2>1, Offered
  <2> QED BY <1>1, <2>1, <2>2 DEF Kept
<1>2. ASSUME NEW s \in 1 .. count'.strokes, s \notin settled'
      PROVE  Kept(s)'
  BY <1>1, <1>2
<1> QED BY <1>2 DEF StrokesOffered, Found, Waits, Kept, TypeOK

(* ... which a step of p sees to that changes no names but those of its own  *)
(* version and takes no key stroke out of a record that has one of the     *)
(* others.                                                                 *)
LEMMA OfferedOwn ==
  ASSUME TypeOK, TypeOK', StrokesOffered, NEW p \in Proc, count'.strokes = count.strokes, settled \subseteq settled',
         \A q \in Proc : q # p => UNCHANGED << vrsn[q], crashed[q], script[q], pc[q] >>,
         \A v \in Vrsn : v # vrsn[p] => ek'[v] = ek[v] /\ bek'[v] = bek[v],
         \A v \in Vrsn : /\ ek[v] # 0 => rec'[ek[v]] = rec[ek[v]]
                         /\ bek[v] # 0 => rec'[bek[v]] = rec[bek[v]],
         \A s \in Stroke : s \notin settled' /\ Found(s, vrsn[p]) => Kept(s)',
         \A s \in Stroke : s \notin settled' /\ Waits(s, p) => Kept(s)',
         bek' = bek \/ \A q \in Proc : q # p /\ vrsn[q] = vrsn[p] => pc[q] \notin Late /\ script[q] = {}
  PROVE  StrokesOffered'
<1>1. vrsn[p] \in Vrsn /\ \A q \in Proc : vrsn[q] \in Vrsn
  BY DEF TypeOK
<1>2. ASSUME NEW s \in Stroke, NEW v \in Vrsn, s \notin settled', Found(s, v)
      PROVE  Kept(s)'
  <2>1. CASE v = vrsn[p]
    BY <1>2, <2>1
  <2>2. CASE v # vrsn[p]
    <3>1. Found(s, v)'
      BY <1>2, <2>2 DEF Found
    <3> QED BY <3>1 DEF Kept
  <2> QED BY <2>1, <2>2
<1>3. ASSUME NEW s \in Stroke, NEW q \in Proc, s \notin settled', Waits(s, q)
      PROVE  Kept(s)'
  <2>1. CASE q = p
    BY <1>3, <2>1
  <2>2. CASE q # p
    <3>1. bek'[vrsn[q]] = bek[vrsn[q]]
      BY <1>1, <1>3, <2>2 DEF Waits
    <3>2. Waits(s, q)'
      BY <1>1, <1>3, <2>2, <3>1 DEF Waits
    <3> QED BY <3>2 DEF Kept
  <2> QED BY <2>1, <2>2
<1> QED BY <1>2, <1>3, OfferedKeeps

(* A step that leaves all key stroke files alone: only a record that is      *)
(* moved aside could be let go of.                                         *)
LEMMA OfferedSame ==
  ASSUME TypeOK, TypeOK', StrokesOffered, NEW p \in Proc, count'.strokes = count.strokes, settled \subseteq settled',
         \A q \in Proc : q # p => UNCHANGED << vrsn[q], crashed[q], script[q], pc[q] >>,
         UNCHANGED << ek, bek, rec >>,
         \A s \in Stroke : s \notin settled' /\ Waits(s, p) => Waits(s, p)'
  PROVE  StrokesOffered'
<1>1. vrsn[p] \in Vrsn
  BY DEF TypeOK
<1>2. \A s : Found(s, vrsn[p]) => \E v \in Vrsn : Found(s, v)'
  BY <1>1 DEF Found
<1> QED BY <1>2, OfferedOwn DEF Kept

(* Nobody else has the version of a session that has its files, or is about  *)
(* to move the record aside.                                               *)
LEMMA Alone ==
  ASSUME OwnInv, NEW p \in Proc, pc[p] \in {"move"} \cup Late \cup Live,
         NEW q \in Proc, Story(q), q # p, vrsn[q] = vrsn[p]
  PROVE  pc[q] \notin Late /\ script[q] = {}
<1>1. pc[q] \notin Late
  BY Separate, Steps DEF OwnInv, OneStarts, Starting, Apart
<1>2. pc[q] \notin Live
  <2>1. CASE pc[p] \in Live
    BY <2>1 DEF OwnInv, Mine
  <2>2. CASE pc[p] \in {"move"} \cup Late
    BY <2>2, Steps DEF OwnInv, Apart
  <2> QED BY <2>1, <2>2
<1> QED BY <1>1, <1>2, Steps DEF Story

(* mvBack gives a record that waits to be replayed the name under which the  *)
(* next start finds it, and what has that name is empty.                   *)
LEMMA OfferedBack ==
  ASSUME OwnInv, TypeOK', StrokesOffered, \A q \in Proc : Story(q), NEW p \in Proc, NEW c,
         pc[p] \in Late \/ pc[p] = "replay", mvBack(vrsn[p]), Dead(p, holder, c), UNCHANGED << rec, settled >>
  PROVE  StrokesOffered'
<1> USE DEF OwnInv, TypeInv
<1>1. /\ \A q \in Proc : q # p => UNCHANGED << vrsn[q], crashed[q], script[q], pc[q] >>
      /\ UNCHANGED << vrsn, count >> /\ vrsn[p] \in Vrsn
  BY DEF Dead, Go, TypeOK
<1>2. CASE bek[vrsn[p]] = 0
  <2>1. UNCHANGED << ek, bek >>
    BY <1>2 DEF mvBack
  <2>2. \A s \in Stroke : ~ Waits(s, p)
    BY <1>2 DEF Waits
  <2> QED BY <1>1, <2>1, <2>2, OfferedSame
<1>3. CASE bek[vrsn[p]] # 0
  <2>1. /\ \A v \in Vrsn : v # vrsn[p] => ek'[v] = ek[v] /\ bek'[v] = bek[v]
        /\ ek'[vrsn[p]] = bek[vrsn[p]]
    BY <1>1, <1>3 DEF mvBack, TypeOK
  <2>2. ek[vrsn[p]] = 0 \/ rec[ek[vrsn[p]]] = {}
    BY Steps DEF Mine, Story
  <2>3. \A s \in Stroke : ~ Found(s, vrsn[p])
    BY <2>2 DEF Found
  <2>4. ASSUME NEW s \in Stroke, Waits(s, p) PROVE Kept(s)'
    <3>1. Found(s, vrsn[p])'
      BY <1>1, <1>3, <2>1, <2>4 DEF Found, Waits
    <3> QED BY <1>1, <3>1 DEF Kept
  <2>5. \A q \in Proc : q # p /\ vrsn[q] = vrsn[p] => pc[q] \notin Late /\ script[q] = {}
    BY Alone, Steps
  <2>6. \A v \in Vrsn : /\ ek[v] # 0 => rec'[ek[v]] = rec[ek[v]]
                        /\ bek[v] # 0 => rec'[bek[v]] = rec[bek[v]]
    OBVIOUS
  <2>7. count'.strokes = count.strokes /\ settled \subseteq settled'
    BY <1>1
  <2> QED BY <1>1, <2>1, <2>3, <2>4, <2>5, <2>6, <2>7, OfferedOwn
<1> QED BY <1>2, <1>3

(* No step loses a key stroke.  Of a recovery, in Late or in replay, only the *)
(* ways out that put the record back end it, and a recovered session, in    *)
(* edit with its script, ends with exit.                                   *)
LEMMA OfferedStep ==
  ASSUME ~ KillRecovering, ~ StayRecovered, OwnInv, OneName, \A q \in Proc : Story(q), StrokesOffered,
         TypeInv', [Next]_vars
  PROVE  StrokesOffered'
<1> USE DEF OwnInv, TypeInv
<1>1. CASE UNCHANGED vars
  BY <1>1 DEF vars, StrokesOffered
(* What is not being recovered does not wait. *)
<1>2. ASSUME NEW p \in Proc, pc[p] \in {"off"} \cup Early \/ (pc[p] = "edit" /\ MayCrash(p)) \/ ~ crashed[p]
      PROVE  \A s \in Stroke : ~ Waits(s, p)
  <2>1. (script[p] = {} /\ pc[p] \notin Late) \/ ~ crashed[p]
    BY <1>2, Steps DEF Story, MayCrash
  <2> QED BY <2>1 DEF Waits
<1>3. ASSUME NEW p \in Proc, Begin(p) \/ PickVersion(p) \/ NoVersion(p) \/ Scan(p) \/ AnswerReplay(p)
                             \/ AnswerIgnore(p) \/ AnswerReturn(p)
      PROVE  StrokesOffered'
  <2>1. /\ \A q \in Proc : q # p => UNCHANGED << vrsn[q], crashed[q], script[q], pc[q] >>
        /\ UNCHANGED << ek, bek, rec >> /\ settled \subseteq settled' /\ count'.strokes = count.strokes
        /\ pc[p] \in {"off"} \cup Early
    BY <1>3, Steps DEF Begin, PickVersion, NoVersion, Scan, AnswerReplay, AnswerIgnore, AnswerReturn,
       Go, files, session, TypeOK
  <2> QED BY <1>2, <2>1, OfferedSame
<1>4. ASSUME NEW p \in Proc, LockKeys(p) \/ LoadScript(p) \/ OpenChanges(p)
      PROVE  StrokesOffered'
  <2>1. /\ \A q \in Proc : q # p => UNCHANGED << vrsn[q], crashed[q], script[q], pc[q] >>
        /\ UNCHANGED << ek, bek, rec, settled, vrsn, crashed, count >>
        /\ pc'[p] \in Late
    BY <1>4, Steps DEF LockKeys, LoadScript, OpenChanges, Go, files, session, TypeOK
  <2>2. \A s \in Stroke : Waits(s, p) => Waits(s, p)'
    BY <2>1 DEF Waits
  <2>3. count'.strokes = count.strokes /\ settled \subseteq settled'
    BY <2>1
  <2> QED BY <2>1, <2>2, <2>3, OfferedSame
<1>5. ASSUME NEW p \in Proc, Ready(p) PROVE StrokesOffered'
  <2>1. /\ \A q \in Proc : q # p => UNCHANGED << vrsn[q], crashed[q], script[q], pc[q] >>
        /\ UNCHANGED << ek, bek, rec, settled, vrsn, crashed, count, script >>
        /\ pc[p] = "state"
    BY <1>5 DEF Ready, Go, files, session, TypeOK
  <2>2. ASSUME NEW s \in Stroke, s \notin settled', Waits(s, p) PROVE Waits(s, p)'
    <3>1. chose[p]
      BY <2>1, <2>2, Steps DEF Story, Waits
    <3>2. s \in script[p]
      BY <2>1, <2>2, <3>1 DEF Story, Waits
    <3> QED BY <2>1, <2>2, <3>2 DEF Waits
  <2>3. count'.strokes = count.strokes /\ settled \subseteq settled'
    BY <2>1
  <2> QED BY <2>1, <2>2, <2>3, OfferedSame
<1>6. ASSUME NEW p \in Proc, ReplayEnds(p) PROVE StrokesOffered'
  <2>1. PICK last \in 0 .. MaxStroke :
          /\ script' = [script EXCEPT ![p] = {s \in script[p] : s <= last}]
          /\ settled' = settled \cup (script[p] \ {s \in script[p] : s <= last})
    BY <1>6 DEF ReplayEnds
  <2>2. /\ \A q \in Proc : q # p => UNCHANGED << vrsn[q], crashed[q], script[q], pc[q] >>
        /\ UNCHANGED << ek, bek, rec, vrsn, crashed, count >>
        /\ pc[p] = "replay" /\ script'[p] = {s \in script[p] : s <= last} /\ settled \subseteq settled'
    BY <1>6, <2>1 DEF ReplayEnds, Go, files, TypeOK
  <2>3. ASSUME NEW s \in Stroke, s \notin settled', Waits(s, p) PROVE Waits(s, p)'
    <3>1. s \in script[p]
      BY <2>2, <2>3, Steps DEF Waits
    <3>2. s \in script'[p]
      BY <2>1, <2>2, <2>3, <3>1
    <3> QED BY <2>2, <2>3, <3>2 DEF Waits
  <2> QED BY <2>2, <2>3, OfferedSame
<1>7. ASSUME NEW p \in Proc, NEW c, Dead(p, holder, c), UNCHANGED << ek, bek, rec, settled >>,
             \A s \in Stroke : ~ Waits(s, p)
      PROVE  StrokesOffered'
  <2>1. /\ \A q \in Proc : q # p => UNCHANGED << vrsn[q], crashed[q], script[q], pc[q] >>
        /\ count'.strokes = count.strokes /\ settled \subseteq settled'
    BY <1>7 DEF Dead, Go, TypeOK
  <2> QED BY <1>7, <2>1, OfferedSame
<1>8. ASSUME NEW p \in Proc, Kill(p) \/ ExitAbort(p) PROVE StrokesOffered'
  <2>1. pc[p] \in {"off"} \cup Early \/ (pc[p] = "edit" /\ MayCrash(p)) \/ ~ crashed[p]
    BY <1>8 DEF Kill, ExitAbort
  <2> QED BY <1>2, <1>7, <1>8, <2>1 DEF Kill, ExitAbort
<1>9. ASSUME NEW p \in Proc, fatal(p) PROVE StrokesOffered'
  <2> DEFINE c == IF ec[vrsn[p]] = none THEN [ec EXCEPT ![vrsn[p]] = left] ELSE ec
  <2>1. /\ Dead(p, holder, c) /\ UNCHANGED << rec, settled >> /\ MayCrash(p) /\ pc[p] # "off"
        /\ IF chose[p] /\ pc[p] \notin Early THEN mvBack(vrsn[p]) ELSE UNCHANGED << ek, bek >>
    BY <1>9 DEF fatal
  <2> HIDE DEF c
  <2>2. CASE chose[p] /\ pc[p] \notin Early
    <3>1. pc[p] \in Late \/ pc[p] = "replay"
      BY <2>1, <2>2, Steps DEF Story, TypeOK
    <3> QED BY <2>1, <2>2, <3>1, OfferedBack
  <2>3. CASE pc[p] \in Early \/ pc[p] = "edit"
    <3>1. UNCHANGED << ek, bek >>
      BY <2>1, <2>3, Steps DEF Story
    <3>2. \A s \in Stroke : ~ Waits(s, p)
      BY <1>2, <2>1, <2>3
    <3> QED BY <1>7, <2>1, <3>1, <3>2
  <2>4. CASE ~ chose[p] /\ pc[p] \in Late
    <3>1. \A s \in Stroke : s \notin settled' => ~ Waits(s, p)
      BY <2>1, <2>4 DEF Story, Waits
    <3>2. /\ \A q \in Proc : q # p => UNCHANGED << vrsn[q], crashed[q], script[q], pc[q] >>
          /\ UNCHANGED << ek, bek, rec >> /\ count'.strokes = count.strokes /\ settled \subseteq settled'
      BY <2>1, <2>4 DEF Dead, Go, TypeOK
    <3> QED BY <3>1, <3>2, OfferedSame
  <2>5. pc[p] = "replay" => chose[p]
    BY DEF Story
  <2> QED BY <2>1, <2>2, <2>3, <2>4, <2>5, Steps DEF TypeOK
<1>10. ASSUME NEW p \in Proc, getout(p) PROVE StrokesOffered'
  BY <1>10, OfferedBack DEF getout
<1>11. ASSUME NEW p \in Proc, BadState(p) PROVE StrokesOffered'
  <2>1. ek' = [ek EXCEPT ![vrsn[p]] = bek[vrsn[p]]] /\ bek' = [bek EXCEPT ![vrsn[p]] = 0]
        /\ pc[p] = "state" /\ ~ chose[p] /\ UNCHANGED << rec, settled >>
    BY <1>11 DEF BadState
  <2>2. /\ \A q \in Proc : q # p => UNCHANGED << vrsn[q], crashed[q], script[q], pc[q] >>
        /\ count'.strokes = count.strokes /\ settled \subseteq settled'
    BY <1>11 DEF BadState, Dead, Go, TypeOK
  <2>3. \A v \in Vrsn : v # vrsn[p] => ek'[v] = ek[v] /\ bek'[v] = bek[v]
    BY <2>1 DEF TypeOK
  <2>4. rec[ek[vrsn[p]]] = {}
    BY <2>1, Steps DEF Mine, Story
  <2>5. \A s \in Stroke : ~ Found(s, vrsn[p])
    BY <2>4 DEF Found
  <2>6. \A s \in Stroke : s \notin settled' => ~ Waits(s, p)
    BY <2>1, Steps DEF Story, Waits
  <2>7. \A q \in Proc : q # p /\ vrsn[q] = vrsn[p] => pc[q] \notin Late /\ script[q] = {}
    BY <2>1, Alone, Steps
  <2>8. \A v \in Vrsn : /\ ek[v] # 0 => rec'[ek[v]] = rec[ek[v]]
                        /\ bek[v] # 0 => rec'[bek[v]] = rec[bek[v]]
    BY <2>1
  <2> QED BY <2>2, <2>3, <2>5, <2>6, <2>7, <2>8, OfferedOwn
<1>12. ASSUME NEW p \in Proc, Exit(p) PROVE StrokesOffered'
  <2>1. ek' = [ek EXCEPT ![vrsn[p]] = 0] /\ bek' = [bek EXCEPT ![vrsn[p]] = 0]
        /\ pc[p] = "edit" /\ rec' = rec /\ settled' = settled \cup rec[key[p]] \cup script[p]
    BY <1>12 DEF Exit
  <2>2. /\ \A q \in Proc : q # p => UNCHANGED << vrsn[q], crashed[q], script[q], pc[q] >>
        /\ count'.strokes = count.strokes
    BY <1>12 DEF Exit, Dead, Go, TypeOK
  <2>3. \A v \in Vrsn : v # vrsn[p] => ek'[v] = ek[v] /\ bek'[v] = bek[v]
    BY <2>1 DEF TypeOK
  <2>4. \A s \in Stroke : s \notin settled' => ~ Found(s, vrsn[p])
    BY <2>1, Steps DEF Found, Mine
  <2>5. \A s \in Stroke : s \notin settled' => ~ Waits(s, p)
    BY <2>1, Steps DEF Waits
  <2>6. \A q \in Proc : q # p /\ vrsn[q] = vrsn[p] => pc[q] \notin Late /\ script[q] = {}
    BY <2>1, Alone, Steps
  <2>7. \A v \in Vrsn : /\ ek[v] # 0 => rec'[ek[v]] = rec[ek[v]]
                        /\ bek[v] # 0 => rec'[bek[v]] = rec[bek[v]]
    BY <2>1
  <2>8. settled \subseteq settled'
    BY <2>1
  <2> QED BY <2>2, <2>3, <2>4, <2>5, <2>6, <2>7, <2>8, OfferedOwn
<1>13. ASSUME NEW p \in Proc, MoveKeys(p) PROVE StrokesOffered'
  <2>1. /\ \A q \in Proc : q # p => UNCHANGED << vrsn[q], crashed[q], script[q], pc[q] >>
        /\ UNCHANGED << rec, settled, count, vrsn, crashed >> /\ pc[p] = "move" /\ pc'[p] = "create"
    BY <1>13 DEF MoveKeys, Go, session, TypeOK
  <2>2. count'.strokes = count.strokes /\ settled \subseteq settled'
    BY <2>1
  <2>3. \A s \in Stroke : ~ Waits(s, p)
    BY <1>2, <2>1, Steps
  <2>4. CASE ek[vrsn[p]] = 0
    <3>1. UNCHANGED << ek, bek >>
      BY <1>13, <2>4 DEF MoveKeys
    <3> QED BY <2>1, <2>2, <2>3, <3>1, OfferedSame
  <2>5. CASE ek[vrsn[p]] # 0
    <3>1. /\ \A v \in Vrsn : v # vrsn[p] => ek'[v] = ek[v] /\ bek'[v] = bek[v]
          /\ bek'[vrsn[p]] = ek[vrsn[p]]
      BY <1>13, <2>5 DEF MoveKeys, TypeOK
    <3>2. crashed[p]
      BY <2>1, <2>5 DEF Story
    <3>3. ASSUME NEW s \in Stroke, Found(s, vrsn[p]) PROVE Kept(s)'
      <4>1. Waits(s, p)'
        BY <2>1, <3>1, <3>2, <3>3, Steps DEF Found, Waits
      <4> QED BY <4>1 DEF Kept
    <3>4. \A q \in Proc : q # p /\ vrsn[q] = vrsn[p] => pc[q] \notin Late /\ script[q] = {}
      BY <2>1, Alone
    <3>5. \A v \in Vrsn : /\ ek[v] # 0 => rec'[ek[v]] = rec[ek[v]]
                          /\ bek[v] # 0 => rec'[bek[v]] = rec[bek[v]]
      BY <2>1
    <3> QED BY <2>1, <2>2, <2>3, <3>1, <3>3, <3>4, <3>5, OfferedOwn
  <2> QED BY <2>4, <2>5
<1>14. ASSUME NEW p \in Proc, CreateKeys(p) PROVE StrokesOffered'
  <2>1. PICK i \in Inode : /\ ek[vrsn[p]] = 0 => ~ InUse(i)
                           /\ ek' = [ek EXCEPT ![vrsn[p]] = i] /\ rec' = [rec EXCEPT ![i] = {}]
    BY <1>14 DEF CreateKeys
  <2>2. /\ \A q \in Proc : q # p => UNCHANGED << vrsn[q], crashed[q], script[q], pc[q] >>
        /\ UNCHANGED << bek, settled, count, vrsn, crashed, script >> /\ pc[p] = "create" /\ pc'[p] = "lock"
    BY <1>14 DEF CreateKeys, Go, TypeOK
  <2>3. ek[vrsn[p]] = 0 /\ ~ InUse(i)
    BY <2>1, <2>2 DEF Mine
  <2>4. \A v \in Vrsn : ek[v] # i /\ bek[v] # i
    BY <2>3 DEF InUse
  <2>5. \A v \in Vrsn : /\ ek[v] # 0 => rec'[ek[v]] = rec[ek[v]]
                        /\ bek[v] # 0 => rec'[bek[v]] = rec[bek[v]]
    BY <2>1, <2>4 DEF TypeOK
  <2>6. \A v \in Vrsn : v # vrsn[p] => ek'[v] = ek[v] /\ bek'[v] = bek[v]
    BY <2>1, <2>2 DEF TypeOK
  <2>7. \A s \in Stroke : ~ Found(s, vrsn[p])
    BY <2>3 DEF Found
  <2>8. ASSUME NEW s \in Stroke, Waits(s, p) PROVE Kept(s)'
    <3>1. vrsn[p] \in Vrsn
      BY DEF TypeOK
    <3>2. Waits(s, p)'
      BY <2>2, <2>5, <2>8, <3>1, Steps DEF Waits
    <3> QED BY <3>2 DEF Kept
  <2>9. count'.strokes = count.strokes /\ settled \subseteq settled'
    BY <2>2
  <2> QED BY <2>2, <2>5, <2>6, <2>7, <2>8, <2>9, OfferedOwn
(* A key stroke that is typed is recorded in the file the next start finds. *)
<1>15. ASSUME NEW p \in Proc, Type(p) PROVE StrokesOffered'
  <2>0. PICK n \in Nat : n = count.strokes
    BY DEF TypeOK
  <2>1. /\ rec' = [rec EXCEPT ![key[p]] = @ \cup {n + 1}] /\ count' = [count EXCEPT !.strokes = @ + 1]
        /\ UNCHANGED << ek, bek, vrsn, script, crashed, pc, settled >> /\ pc[p] = "edit"
    BY <1>15, <2>0 DEF Type, session
  <2>2. ek[vrsn[p]] = key[p] /\ key[p] \in Inode /\ key[p] # 0 /\ vrsn[p] \in Vrsn
    BY <2>1, Steps DEF Mine, KeyOpen, TypeOK
  <2>3. count'.strokes = n + 1
    BY <2>0, <2>1 DEF TypeOK
  <2>4. n + 1 \in rec'[key[p]] /\ \A i \in Inode : rec[i] \subseteq rec'[i]
    BY <2>1, <2>2 DEF TypeOK
  <2>5. Kept(n + 1)'
    <3>1. ek'[vrsn[p]] # 0 /\ n + 1 \in rec'[ek'[vrsn[p]]]
      BY <2>1, <2>2, <2>4
    <3> QED BY <2>2, <3>1 DEF Kept, Found
  <2>6. ASSUME NEW s, Kept(s) PROVE Kept(s)'
    <3>1. ASSUME NEW v \in Vrsn, Found(s, v) PROVE Found(s, v)'
      BY <2>1, <2>4, <3>1 DEF Found, TypeOK
    <3>2. ASSUME NEW q \in Proc, Waits(s, q) PROVE Waits(s, q)'
      <4>1. vrsn[q] \in Vrsn /\ bek[vrsn[q]] \in Inode
        BY <3>2 DEF Waits, TypeOK
      <4> QED BY <2>1, <2>4, <3>2, <4>1 DEF Waits
    <3> QED BY <2>6, <3>1, <3>2 DEF Kept
  <2>7. ASSUME NEW s \in 1 .. count'.strokes, s \notin settled' PROVE Kept(s)'
    <3>1. s = n + 1 \/ s \in 1 .. count.strokes
      BY <2>0, <2>3, <2>7
    <3>2. s \in 1 .. count.strokes => Kept(s)
      BY <2>1, <2>7, Offered
    <3> QED BY <2>5, <2>6, <3>1, <3>2
  <2> QED BY <2>7 DEF StrokesOffered, Found, Waits, Kept, TypeOK
<1> QED BY <1>1, <1>3, <1>4, <1>5, <1>6, <1>8, <1>9, <1>10, <1>11, <1>12, <1>13, <1>14, <1>15 DEF Next

(* README.md, of the key stroke file of an editor that crashes: no key       *)
(* stroke is lost that was typed and neither saved nor thrown away, for any *)
(* number of sessions, one of which starts at a time, that crash at any     *)
(* step but those of a recovery, as long as a session that has recovered is *)
(* left as the editor asks the user to.                                     *)
THEOREM StrokesOfferedCorrect ==
  ASSUME ~ Overlap, ~ KillRecovering, ~ StayRecovered
  PROVE  Spec => []StrokesOffered
<1>1. Init => StrokesInv
  <2> SUFFICES ASSUME Init PROVE StrokesInv
    OBVIOUS
  <2>1. OwnInv
    BY OwnInit
  <2>2. StrokesOffered
    BY DEF Init, StrokesOffered
  <2>3. \A p \in Proc : Story(p)
    BY Steps DEF Init, Story
  <2>4. OneName /\ Held
    BY DEF Init, OneName, Held
  <2> QED BY <2>1, <2>2, <2>3, <2>4 DEF StrokesInv
<1>2. StrokesInv /\ [Next]_vars => StrokesInv'
  <2> SUFFICES ASSUME StrokesInv, [Next]_vars PROVE StrokesInv'
    OBVIOUS
  <2>1. OwnInv' /\ TypeInv' /\ TypeInv /\ TypeOK
    BY OwnStep DEF StrokesInv, OwnInv, TypeInv
  <2>2. OneName'
    BY <2>1, OneNameStep DEF StrokesInv
  <2>3. Held'
    BY <2>1, HeldStep DEF StrokesInv
  <2>4. \A p \in Proc : Story(p)'
    BY <2>1, StoryStep DEF StrokesInv
  <2>5. StrokesOffered'
    BY <2>1, OfferedStep DEF StrokesInv
  <2> QED BY <2>1, <2>2, <2>3, <2>4, <2>5 DEF StrokesInv
<1>3. StrokesInv => StrokesOffered
  BY DEF StrokesInv
<1> QED BY <1>1, <1>2, <1>3, PTL DEF Spec
=============================================================================

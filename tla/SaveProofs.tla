---------------------------- MODULE SaveProofs -----------------------------
(* Proofs about Save: for any names, any disk the session finds (with links *)
(* between any of its names), any number of files and of tries, with and   *)
(* without rename(2), whatever call fails and wherever the editor dies, no *)
(* text that was on the disk is lost, no name is in the table twice, and   *)
(* no stream reads an inode that is truncated under it; and what a session *)
(* that is over has left on the disk.  AllIsSaved and TakenLast are for    *)
(* systems with rename(2), which localenv.h chooses.                       *)
EXTENDS Save, TLAPS, FiniteSetTheorems, WellFoundedInduction

(* What is assumed of the users throughout: Save says what each means.     *)
Careful == ~ Tangle /\ ~ RetryInPlace /\ ~ Reopen

-----------------------------------------------------------------------------
(* The inductive invariant. *)

(* The flags of a file, and what they say about the rest of its entry. *)
Shape ==
  \A i \in Fn :
    /\ file[i].st # "free" => file[i].name # None
    /\ file[i].st = "new" => file[i].base = None
    /\ file[i].st = "renamed" => file[i].old # None /\ file[i].old # file[i].name /\ file[i].can
    /\ file[i].st \in {"free", "deleted"} => ~ file[i].can
    /\ file[i].mod => file[i].can
    /\ file[i].st = "new" => ~ file[i].inplace
    /\ file[i].text = Torn => file[i].was = Torn

OwnBase == \A i, j \in Fn : i # j /\ file[i].base # None => file[i].base # file[j].base

(* The steps of savefile. *)
InPlace == {"unbak", "creatbak", "copybak", "freplace", "creat", "flush"}
ByTmp   == {"mkstemp", "tflush", "undel", "mvbak", "mvtemp"}
HasTmp  == ByTmp \ {"mkstemp"}
OfFile  == {"renold", "rename"} \cup InPlace \cup ByTmp
Over    == pc \in {"gone", "dead"}

(* No other name, and no stream, has the inode of n. *)
Alone(n) == /\ disk[n] # None
            /\ \A m \in Name : m # n => disk[m] # disk[n]
            /\ \A i \in Fn : file[i].base # disk[n]

(* The file that is saved, and its name, are those the step was reached with. *)
AtWhole == /\ pc = "edit" => ~ whole
           /\ pc \in {"baks", "saves", "deletes", "renames"} => whole

AtFile ==
  pc \in OfFile =>
    /\ cur \in Fn /\ dest # None /\ Active(cur)
    /\ whole => dest = file[cur].name /\ file[cur].mod
    /\ ~ whole => /\ pc \in ByTmp
                  /\ \A i \in Fn : file[i].st # "free" => file[i].name # dest
    /\ pc # "renold" => \A i \in Fn : file[i].st = "renamed" => file[i].old # dest
    /\ whole /\ pc \notin {"renold", "rename"} => file[cur].st # "renamed"

(* The backup in the making is nobody else's, and from creat on nobody reads *)
(* the original.                                                           *)
AtBackup ==
  /\ pc \in InPlace => whole /\ file[cur].st = "use"
  /\ pc = "creatbak" => disk[Bak[dest]] = None
  /\ pc \in {"copybak", "freplace"} => Alone(Bak[dest])
  /\ pc = "freplace" => data[disk[Bak[dest]]] = file[cur].was
  /\ pc \in {"creat", "flush"} =>
       disk[dest] # None /\ \A i \in Fn : file[i].base # disk[dest]

AtTmp ==
  /\ pc \notin HasTmp /\ ~ Over => tmp = None
  /\ pc \in HasTmp => tmp # None /\ Alone(tmp)
  /\ pc \in {"undel", "mvbak", "mvtemp"} => data[disk[tmp]] = file[cur].text
  /\ pc \in {"mvbak", "mvtemp"} => \A i \in Fn : file[i].st = "deleted" => file[i].name # dest

(* Where the text of a file that is on the disk is: under the name it has    *)
(* there, as it was read ...                                               *)
DiskName(i) == IF file[i].st = "renamed" THEN file[i].old ELSE file[i].name

ReadsOriginal(i) ==
  /\ file[i].base # None
  /\ disk[DiskName(i)] = file[i].base
  /\ data[file[i].base] = file[i].was

(* ... or, as it was read, in the backup, which the stream reads since      *)
(* la_freplace: then the file has been saved, or is being saved, or saving *)
(* it has failed and it will not be tried again ...                        *)
ReadsBackup(i) ==
  /\ file[i].base # None
  /\ disk[Bak[DiskName(i)]] = file[i].base
  /\ data[file[i].base] = file[i].was
  /\ \A n \in Editable : disk[n] # file[i].base
  /\ \/ ~ file[i].can /\ file[i].st = "use"
     \/ file[i].mod /\ ~ whole
     \/ file[i].mod /\ i = cur /\ pc \in {"creat", "flush"}

(* ... or, as it was edited, under its name or, if the second mv failed, that *)
(* of the temporary file, which are not written again ...                  *)
KeepsText(i, n) ==
  /\ Holds(n, file[i].text)
  /\ \A m \in Editable : m # file[i].name => disk[m] # disk[n]
  /\ \A k \in Fn : file[k].base # disk[n]

IsSaved(i) ==
  /\ ~ file[i].can /\ file[i].st = "use"
  /\ \E n \in {file[i].name} \cup Tmp : n # tmp /\ KeepsText(i, n)

(* ... or in the temporary file that is about to get its name. *)
BeingSaved(i) == i = cur /\ whole /\ pc = "mvtemp"

Home(i) == ReadsOriginal(i) \/ ReadsBackup(i) \/ IsSaved(i) \/ BeingSaved(i)

Homes == \A i \in Fn : file[i].st \in {"use", "renamed"} => Home(i)

Table == TypeOK /\ NameTable /\ Shape /\ OwnBase
At    == AtWhole /\ AtFile /\ AtBackup /\ AtTmp

SaveInv == Table /\ At /\ (~ Over => Homes) /\ (Over => TextSurvives)

-----------------------------------------------------------------------------
(* The searches of the table. *)

(* A set of numbers that is not empty has a least one. *)
LEMMA LeastNumber ==
  ASSUME NEW S \in SUBSET Nat, S # {}
  PROVE  \E i \in S : \A j \in S : i <= j
<1>1. PICK i \in S : \A j \in S : << j, i >> \notin OpToRel(<, Nat)
  BY NatLessThanWellFounded, WFMin
<1>2. \A j \in S : ~ (j < i)
  BY <1>1 DEF OpToRel
<1> QED BY <1>2

(* First finds a number of the set, unless it is empty. *)
LEMMA FirstIsIn ==
  ASSUME NEW S \in SUBSET (Nat \ {0})
  PROVE  /\ First(S) = 0 <=> S = {}
         /\ First(S) # 0 => First(S) \in S
<1>1. CASE S = {}
  BY <1>1 DEF First
<1>2. CASE S # {}
  BY <1>2, LeastNumber DEF First
<1> QED BY <1>1, <1>2

(* File numbers and inodes are positive numbers. *)
LEMMA FnNumbers == 0 \notin Fn /\ Fn \subseteq Nat \ {0} /\ Inode \subseteq Nat \ {0}
  BY ConstantsAssumption DEF Fn, Inode

(* A search says 0 when, and only when, no file has the name. *)
LEMMA Searches ==
  ASSUME NEW n
  PROVE  /\ hvname(n) = 0 <=> \A i \in Fn : Active(i) => file[i].name # n
         /\ hvoldname(n) = 0 <=> \A i \in Fn : file[i].st = "renamed" => file[i].old # n
         /\ hvdelname(n) = 0 <=> \A i \in Fn : file[i].st = "deleted" => file[i].name # n
<1>1. /\ {i \in Fn : Active(i) /\ file[i].name = n} \in SUBSET (Nat \ {0})
      /\ {i \in Fn : file[i].st = "renamed" /\ file[i].old = n} \in SUBSET (Nat \ {0})
      /\ {i \in Fn : file[i].st = "deleted" /\ file[i].name = n} \in SUBSET (Nat \ {0})
  BY FnNumbers
<1> QED BY <1>1, FirstIsIn DEF hvname, hvoldname, hvdelname

(* ... and else it says a file that has it. *)
LEMMA Found ==
  ASSUME NEW n
  PROVE  /\ hvoldname(n) # 0 => /\ hvoldname(n) \in Fn
                                /\ file[hvoldname(n)].st = "renamed"
                                /\ file[hvoldname(n)].old = n
         /\ hvdelname(n) # 0 => /\ hvdelname(n) \in Fn
                                /\ file[hvdelname(n)].st = "deleted"
                                /\ file[hvdelname(n)].name = n
<1>1. /\ {i \in Fn : file[i].st = "renamed" /\ file[i].old = n} \in SUBSET (Nat \ {0})
      /\ {i \in Fn : file[i].st = "deleted" /\ file[i].name = n} \in SUBSET (Nat \ {0})
  BY FnNumbers
<1> QED BY <1>1, FirstIsIn DEF hvoldname, hvdelname

(* The loops of saveall go to files of the kind they are for. *)
LEMMA FoundNext ==
  /\ NextEligible # 0 => NextEligible \in Fn /\ Eligible(NextEligible)
  /\ \A st : NextWith(st) # 0 => NextWith(st) \in Fn /\ file[NextWith(st)].st = st
<1>1. NextEligible # 0 => NextEligible \in Fn /\ Eligible(NextEligible)
  <2>1. {i \in Fn : i > cur /\ Eligible(i)} \in SUBSET (Nat \ {0})
    BY FnNumbers
  <2> QED BY <2>1, FirstIsIn DEF NextEligible
<1>2. ASSUME NEW st, NextWith(st) # 0 PROVE NextWith(st) \in Fn /\ file[NextWith(st)].st = st
  <2>1. {i \in Fn : i > cur /\ file[i].st = st /\ file[i].upd} \in SUBSET (Nat \ {0})
    BY FnNumbers
  <2> QED BY <1>2, <2>1, FirstIsIn DEF NextWith
<1> QED BY <1>1, <1>2

(* editfile puts a file where none is. *)
LEMMA FreeSlot ==
  LET newfn == First({i \in Fn : file[i].st = "free"})
  IN  newfn # 0 => newfn \in Fn /\ file[newfn].st = "free"
<1>1. {i \in Fn : file[i].st = "free"} \in SUBSET (Nat \ {0})
  BY FnNumbers
<1> QED BY <1>1, FirstIsIn

(* creat and mkstemp find an inode: there is one for every name and every   *)
(* stream, and the name that is given one has none yet.                    *)
LEMMA FreshInode ==
  ASSUME TypeOK, NEW m \in Name, disk[m] = None
  PROVE  /\ First(Unused(disk)) \in Inode
         /\ \A n \in Name : disk[n] # First(Unused(disk))
         /\ \A k \in Fn : file[k].base # First(Unused(disk))
<1> DEFINE Names == Name \ {m}
           OnDisk == {disk[n] : n \in Names}
           Read == {file[k].base : k \in Fn}
<1>1. IsFiniteSet(Names) /\ Cardinality(Names) = Cardinality(Name) - 1 /\ Cardinality(Name) \in Nat
  <2>1. IsFiniteSet(Name)
    BY ConstantsAssumption, FS_Union DEF Name
  <2> QED BY <2>1, FS_RemoveElement, FS_CardinalityType
<1>2. IsFiniteSet(OnDisk) /\ Cardinality(OnDisk) <= Cardinality(Names)
  <2> DEFINE f == [n \in Names |-> disk[n]]
  <2>1. f \in Surjection(Names, OnDisk)
    BY DEF Surjection
  <2> QED BY <1>1, <2>1, FS_Surjection
<1>3. IsFiniteSet(Read) /\ Cardinality(Read) <= MaxFn
  <2> DEFINE f == [k \in Fn |-> file[k].base]
  <2>1. f \in Surjection(Fn, Read)
    BY DEF Surjection
  <2>2. IsFiniteSet(Fn) /\ Cardinality(Fn) = MaxFn
    BY ConstantsAssumption, FS_Interval DEF Fn
  <2> QED BY <2>1, <2>2, FS_Surjection
<1>4. IsFiniteSet(OnDisk \cup Read) /\ Cardinality(OnDisk \cup Read) <= Cardinality(OnDisk) + Cardinality(Read)
  <2>1. Cardinality(OnDisk) \in Nat /\ Cardinality(Read) \in Nat
    BY <1>2, <1>3, FS_CardinalityType
  <2>2. Cardinality(OnDisk \cap Read) \in Nat
    BY <1>2, FS_Intersection, FS_CardinalityType
  <2> HIDE DEF OnDisk, Read
  <2>3. /\ IsFiniteSet(OnDisk \cup Read)
        /\ Cardinality(OnDisk \cup Read) = Cardinality(OnDisk) + Cardinality(Read) - Cardinality(OnDisk \cap Read)
    BY <1>2, <1>3, FS_Union
  <2> QED BY <2>1, <2>2, <2>3
<1>5. Cardinality(OnDisk \cup Read) < NInode
  <2>1. /\ Cardinality(OnDisk) \in Nat /\ Cardinality(Read) \in Nat
        /\ Cardinality(Names) \in Nat /\ Cardinality(OnDisk \cup Read) \in Nat
    BY <1>1, <1>2, <1>3, <1>4, FS_CardinalityType
  <2>2. NInode >= Cardinality(Name) + MaxFn /\ NInode \in Nat /\ MaxFn \in Nat
    BY ConstantsAssumption DEF Name
  <2> HIDE DEF OnDisk, Read, Names
  <2> QED BY <1>1, <1>2, <1>3, <1>4, <2>1, <2>2
<1>6. ~ (Inode \subseteq OnDisk \cup Read)
  <2>1. IsFiniteSet(Inode) /\ Cardinality(Inode) = NInode
    BY ConstantsAssumption, FS_Interval DEF Inode
  <2>2. Cardinality(OnDisk \cup Read) \in Nat
    BY <1>4, FS_CardinalityType
  <2> HIDE DEF OnDisk, Read
  <2>3. ASSUME Inode \subseteq OnDisk \cup Read PROVE FALSE
    <3>1. Inode \in SUBSET (OnDisk \cup Read)
      BY <2>3
    <3>2. Cardinality(Inode) <= Cardinality(OnDisk \cup Read)
      BY <3>1, <1>4, FS_Subset
    <3> QED BY <3>2, <1>5, <2>1, <2>2, ConstantsAssumption
  <2> QED BY <2>3
<1>7. PICK i \in Inode : i \notin OnDisk \cup Read
  BY <1>6
<1>8. i \in Unused(disk)
  <2>1. \A n \in Name : disk[n] # i
    BY <1>7, ConstantsAssumption DEF Inode
  <2> QED BY <1>7, <2>1 DEF Unused
<1>9. Unused(disk) \in SUBSET (Nat \ {0})
  BY FnNumbers DEF Unused
<1>10. First(Unused(disk)) \in Unused(disk)
  BY <1>8, <1>9, FirstIsIn
<1> QED BY <1>10 DEF Unused

(* What is left of two names after mv. *)
LEMMA Moves ==
  ASSUME TypeOK, NEW from \in Name, NEW to \in Name, from # to,
         NEW r \in mv(disk, from, to)
  PROVE  /\ r.disk \in [Name -> Inode \cup {None}]
         /\ \A n \in Name \ {from, to} : r.disk[n] = disk[n]
         /\ r.disk[from] \in {disk[from], None}
         /\ r.disk[to] \in {disk[from], disk[to], None}
         /\ r.ok => disk[from] # None /\ r.disk[to] = disk[from]
         /\ r.ok /\ disk[from] # disk[to] => r.disk[from] = None
         /\ ~ r.ok => r.disk[from] = disk[from]
         /\ r.ok \in BOOLEAN
<1> DEFINE there == [disk EXCEPT ![to] = disk[from]]
           moved == IF RENAME /\ disk[from] = disk[to] THEN disk ELSE [there EXCEPT ![from] = None]
<1>1. \/ r = Result(disk, FALSE)
      \/ disk[from] # None /\ r = Result(moved, TRUE)
      \/ r = Result(Unlink(disk, to), FALSE)
      \/ r = Result(there, FALSE)
  BY DEF mv
<1>2. disk \in [Name -> Inode \cup {None}]
  BY DEF TypeOK
<1>3. CASE r = Result(disk, FALSE)
  BY <1>2, <1>3 DEF Result
<1>4. CASE disk[from] # None /\ r = Result(moved, TRUE)
  BY <1>2, <1>4 DEF Result
<1>5. CASE r = Result(Unlink(disk, to), FALSE)
  BY <1>2, <1>5 DEF Result, Unlink
<1>6. CASE r = Result(there, FALSE)
  BY <1>2, <1>6 DEF Result
<1> QED BY <1>1, <1>3, <1>4, <1>5, <1>6

(* The kinds of names are apart, and no two names share a backup. *)
LEMMA NoneApart == /\ None \notin Editable /\ None \notin Spare /\ None \notin Inode /\ None \notin Name
                   /\ None \notin Tmp /\ Tmp \subseteq Name /\ Editable \subseteq Name
                   /\ Editable \cap Tmp = {}
                   /\ \A n \in Editable : /\ Bak[n] \in Name /\ Bak[n] # None
                                          /\ Bak[n] \notin Editable /\ Bak[n] \notin Tmp
                   /\ \A m, n \in Editable : Bak[m] = Bak[n] => m = n
  BY ConstantsAssumption DEF Name, Inode

-----------------------------------------------------------------------------
(* A session starts with an empty table. *)
LEMMA InvInit == Init => SaveInv
<1> SUFFICES ASSUME Init PROVE SaveInv
  OBVIOUS
<1>1. TypeOK
  <2>1. NoFile \in File
    BY ConstantsAssumption DEF NoFile, File, Status, Text, Inode
  <2>2. disk \in [Name -> Inode \cup {None}]
    BY ConstantsAssumption DEF Init, Name, Inode
  <2>3. data \in [Inode -> Text]
    BY ConstantsAssumption DEF Init, Inode, Text
  <2>4. file \in [Fn -> File]
    BY <2>1 DEF Init
  <2>5. bound \in [texts : 0 .. MaxText, exits : 0 .. MaxExits] /\ cur \in 0 .. MaxFn
    BY ConstantsAssumption DEF Init
  <2> QED BY <2>2, <2>3, <2>4, <2>5 DEF Init, TypeOK, Steps
<1>2. NameTable /\ Shape /\ OwnBase /\ Homes
  BY DEF Init, NoFile, NameTable, Shape, OwnBase, Homes, Torn
<1>3. At /\ ~ Over
  BY DEF Init, At, AtWhole, AtFile, AtBackup, AtTmp, Over, OfFile, InPlace, ByTmp, HasTmp
<1> QED BY <1>1, <1>2, <1>3 DEF SaveInv, Table

-----------------------------------------------------------------------------
(* The commands. *)

(* No two entries share a La_file: what is done to that of one is done to   *)
(* no other.                                                               *)
LEMMA OneStream ==
  ASSUME OwnBase, NEW i \in Fn
  PROVE  Streams(i) = {i}
  BY DEF OwnBase, Streams

LEMMA Unmodified ==
  ASSUME TypeOK, OwnBase, NEW i \in Fn
  PROVE  la_unmodify(i) = [file EXCEPT ![i] = [file[i] EXCEPT !.mod = FALSE]]
  BY OneStream DEF la_unmodify, TypeOK

LEMMA SavedOnly ==
  ASSUME TypeOK, OwnBase, whole, NEW i \in Fn
  PROVE  SavedFlags(i) = [file EXCEPT ![i] = [file[i] EXCEPT !.st = "use", !.can = FALSE, !.mod = FALSE]]
<1> DEFINE g == [file[i] EXCEPT !.mod = FALSE]
<1>1. la_unmodify(i) = [file EXCEPT ![i] = g]
  BY Unmodified
<1>2. SavedFlags(i) = [la_unmodify(i) EXCEPT ![i].st = "use", ![i].can = FALSE]
  BY DEF SavedFlags
<1>3. SavedFlags(i) = [[file EXCEPT ![i] = g] EXCEPT ![i].st = "use", ![i].can = FALSE]
  BY <1>1, <1>2
<1> QED BY <1>3 DEF TypeOK

(* Between commands nothing is being saved. *)
LEMMA EditAt ==
  ASSUME SaveInv, pc = "edit"
  PROVE  /\ ~ whole /\ tmp = None /\ Homes
         /\ pc' = "edit" /\ UNCHANGED << whole, tmp >> => At' /\ ~ Over'
  BY DEF SaveInv, At, AtWhole, AtFile, AtBackup, AtTmp, Over, OfFile, InPlace, ByTmp, HasTmp

(* A file that is opened has a name of its own; its inode is nobody's. *)
LEMMA EditFileKeeps ==
  ASSUME Careful, SaveInv, NEW n \in Editable, EditFile(n)
  PROVE  SaveInv'
<1> DEFINE held == hvoldname(n) # 0 \/ hvdelname(n) # 0
           newfn == First({i \in Fn : file[i].st = "free"})
           ino == disk[n]
           laf == la_ffopen(ino)
           named == [NoFile EXCEPT !.name = n, !.can = TRUE, !.upd = TRUE, !.las = TRUE]
           opened == IF held \/ ino = None
                     THEN [named EXCEPT !.st = "new"]
                     ELSE [named EXCEPT !.st = "use", !.base = ino, !.mod = laf.mod,
                                        !.text = laf.text, !.was = laf.was]
<1>1. /\ pc = "edit" /\ newfn # 0 /\ hvname(n) = 0
      /\ held \/ ino = None \/ Readers(ino) = {}
      /\ file' = [file EXCEPT ![newfn] = opened]
      /\ UNCHANGED << disk, data, pc, cur, dest, whole, tmp, bound, ignored >>
  BY DEF EditFile, Careful
<1> HIDE DEF newfn
<1>2. newfn \in Fn /\ file[newfn].st = "free"
  BY <1>1, FreeSlot DEF newfn
<1>3. TypeOK /\ NameTable /\ Shape /\ OwnBase /\ Homes
  BY <1>1, EditAt DEF SaveInv, Table
<1>4. n \in Name /\ ino \in Inode \cup {None} /\ (ino # None => data[ino] \in Text)
  BY <1>3 DEF TypeOK, Name
<1>5. /\ opened.name = n /\ opened.can /\ ~ opened.mod /\ ~ opened.inplace /\ opened.old = None
      /\ held \/ ino = None => opened.st = "new" /\ opened.base = None /\ opened.text = 0
      /\ ~ (held \/ ino = None) => /\ opened.st = "use" /\ opened.base = ino
                                   /\ opened.text = data[ino] /\ opened.was = data[ino]
      /\ opened \in File
  <2>1. 0 \in Text /\ None \in Editable \cup {None} /\ None \in Inode \cup {None}
    BY ConstantsAssumption DEF Text
  <2>2. /\ named.name = n /\ named.can /\ ~ named.mod /\ ~ named.inplace /\ named.old = None
        /\ named.base = None /\ named.text = 0 /\ named.was = 0 /\ named \in File
    BY <2>1 DEF NoFile, File, Status
  <2>3. CASE held \/ ino = None
    BY <2>2, <2>3 DEF File, Status
  <2>4. CASE ~ (held \/ ino = None)
    <3>1. laf = [mod |-> FALSE, text |-> data[ino], was |-> data[ino]]
      BY <1>1, <2>4 DEF la_ffopen
    <3> HIDE DEF named, laf
    <3> QED BY <1>4, <2>2, <2>4, <3>1, ZenonT(45) DEF File, Status
  <2> QED BY <2>3, <2>4
<1> HIDE DEF opened
<1>6. /\ file' \in [Fn -> File] /\ file'[newfn] = opened
      /\ \A i \in Fn : i # newfn => file'[i] = file[i]
  BY <1>1, <1>2, <1>3, <1>5 DEF TypeOK
<1>7. TypeOK'
  BY <1>1, <1>3, <1>6 DEF TypeOK
<1>8. \A i \in Fn : Active(i) => file[i].name # n
  BY <1>1, Searches
<1>9. held \/ \A i \in Fn : /\ file[i].st = "renamed" => file[i].old # n
                            /\ file[i].st = "deleted" => file[i].name # n
  BY Searches
<1>10. NameTable'
  <2> SUFFICES ASSUME NEW i \in Fn, NEW j \in Fn, i # j
               PROVE  /\ file'[i].st # "free" /\ file'[j].st # "free" /\ file'[i].name = file'[j].name
                           => \/ file'[i].st = "deleted" /\ file'[j].st \in {"new", "renamed"}
                              \/ file'[j].st = "deleted" /\ file'[i].st \in {"new", "renamed"}
                      /\ file'[i].st = "renamed" /\ file'[j].st # "free" /\ file'[i].old = file'[j].name
                           => file'[j].st = "new"
                      /\ file'[i].st = "renamed" /\ file'[j].st = "renamed" => file'[i].old # file'[j].old
    BY DEF NameTable
  <2>1. \A k \in Fn : file[k].st \in Status
    BY <1>3 DEF TypeOK, File
  <2> QED BY <1>2, <1>3, <1>5, <1>6, <1>8, <1>9, <2>1 DEF NameTable, Active, Status
<1>11. Shape'
  BY <1>2, <1>3, <1>5, <1>6, NoneApart DEF Shape, Torn
<1>12. OwnBase'
  <2>1. opened.base # None => \A i \in Fn : file[i].base # opened.base
    BY <1>1, <1>5 DEF Readers
  <2> QED BY <1>1, <1>2, <1>3, <1>5, <1>6, <2>1 DEF OwnBase
<1>13. Homes'
  <2> SUFFICES ASSUME NEW i \in Fn, file'[i].st \in {"use", "renamed"} PROVE Home(i)'
    BY DEF Homes
  <2>1. CASE i = newfn
    <3>1. opened.st = "use" /\ opened.base = ino /\ ino # None /\ opened.was = data[ino]
      BY <1>5, <1>6, <2>1
    <3>2. ReadsOriginal(i)'
      BY <1>1, <1>5, <1>6, <2>1, <3>1 DEF ReadsOriginal, DiskName
    <3> QED BY <3>2 DEF Home
  <2>2. CASE i # newfn
    <3>1. file'[i] = file[i] /\ Home(i)
      BY <1>3, <1>6, <2>2 DEF Homes
    <3>2. CASE ReadsOriginal(i)
      BY <1>1, <3>1, <3>2 DEF Home, ReadsOriginal, DiskName
    <3>3. CASE ReadsBackup(i)
      BY <1>1, <3>1, <3>3 DEF Home, ReadsBackup, DiskName
    <3>4. CASE IsSaved(i)
      <4>1. PICK m \in {file[i].name} \cup Tmp : m # tmp /\ KeepsText(i, m)
        BY <3>4 DEF IsSaved
      <4>2. file[i].name # n
        BY <1>8, <3>4 DEF IsSaved, Active
      <4>3. opened.base # disk[m]
        <5>1. disk[n] # disk[m] /\ disk[m] # None
          BY <4>1, <4>2 DEF KeepsText, Holds
        <5> QED BY <5>1, <1>5
      <4>4. KeepsText(i, m)'
        BY <1>1, <1>6, <3>1, <4>1, <4>3 DEF KeepsText, Holds
      <4> QED BY <1>1, <3>1, <3>4, <4>1, <4>4 DEF Home, IsSaved
    <3>5. CASE BeingSaved(i)
      BY <1>1, <3>5 DEF BeingSaved
    <3> QED BY <3>1, <3>2, <3>3, <3>4, <3>5 DEF Home
  <2> QED BY <2>1, <2>2
<1> QED BY <1>1, <1>7, <1>10, <1>11, <1>12, <1>13, EditAt DEF SaveInv, Table

(* A command that changes neither the disk nor what a file reads leaves it   *)
(* where it is; a file that may be changed still has what it was read from. *)
LEMMA EditHome ==
  ASSUME SaveInv, pc = "edit", UNCHANGED << disk, data, pc, whole, tmp >>,
         NEW i \in Fn, file[i].st \in {"use", "renamed"},
         \A k \in Fn : file'[k].base \in {file[k].base, None},
         file'[i].base = file[i].base, file'[i].was = file[i].was,
         DiskName(i)' = DiskName(i), file[i].mod => file'[i].mod,
         \/ file[i].can
         \/ /\ file'[i].st = file[i].st /\ file'[i].name = file[i].name
            /\ file'[i].can = file[i].can /\ file'[i].text = file[i].text
  PROVE  Home(i)'
<1>1. Home(i) /\ TypeOK /\ ~ whole
  BY EditAt DEF Homes, SaveInv, Table
<1>2. CASE ReadsOriginal(i)
  BY <1>2 DEF Home, ReadsOriginal
<1>3. CASE ReadsBackup(i)
  BY <1>1, <1>3 DEF Home, ReadsBackup
<1>4. CASE IsSaved(i)
  <2>1. PICK n \in {file[i].name} \cup Tmp : n # tmp /\ KeepsText(i, n)
    BY <1>4 DEF IsSaved
  <2>2. KeepsText(i, n)'
    BY <1>4, <2>1, NoneApart DEF KeepsText, Holds, IsSaved
  <2> QED BY <1>4, <2>1, <2>2 DEF Home, IsSaved
<1>5. CASE BeingSaved(i)
  BY <1>5 DEF BeingSaved
<1> QED BY <1>1, <1>2, <1>3, <1>4, <1>5 DEF Home

(* The text changes, but not what the disk held when it was read. *)
LEMMA ModifyKeeps ==
  ASSUME SaveInv, NEW i \in Fn, Modify(i)
  PROVE  SaveInv'
<1>1. TypeOK /\ NameTable /\ Shape /\ OwnBase /\ Homes /\ Active(i) /\ file[i].can /\ pc = "edit"
  BY EditAt DEF SaveInv, Table, Modify
<1>2. bound.texts + 1 \in Text /\ bound.texts + 1 # Torn /\ bound.texts + 1 \in 0 .. MaxText
  <2>1. bound.texts < MaxText
    BY DEF Modify
  <2> QED BY <1>1, <2>1, ConstantsAssumption DEF TypeOK, Text, Torn
<1> DEFINE g == [file[i] EXCEPT !.text = bound.texts + 1, !.mod = TRUE]
<1>4. g \in File /\ file' = [file EXCEPT ![i] = g]
  <2>1. file[i] \in File
    BY <1>1 DEF TypeOK
  <2>2. g \in File
    BY <1>2, <2>1 DEF File
  <2>3. file' = [k \in Fn |-> IF k \in Streams(i)
                               THEN [file[k] EXCEPT !.text = bound.texts + 1, !.mod = TRUE]
                               ELSE file[k]]
    BY DEF Modify
  <2>4. Streams(i) = {i}
    BY <1>1, OneStream
  <2>5. file' = [k \in Fn |-> IF k = i THEN g ELSE file[k]]
    BY <2>3, <2>4
  <2> QED BY <1>1, <2>2, <2>5 DEF TypeOK
<1>3. TypeOK'
  <2>1. file' \in [Fn -> File]
    BY <1>1, <1>4 DEF TypeOK
  <2>2. bound' \in [texts : 0 .. MaxText, exits : 0 .. MaxExits]
    BY <1>1, <1>2 DEF Modify, TypeOK
  <2> QED BY <1>1, <2>1, <2>2 DEF Modify, TypeOK
<1>5. \A k \in Fn : k # i => file'[k] = file[k]
  BY <1>1, <1>4 DEF TypeOK
<1>6. /\ file'[i].st = file[i].st /\ file'[i].name = file[i].name /\ file'[i].old = file[i].old
      /\ file'[i].base = file[i].base /\ file'[i].was = file[i].was
      /\ file'[i].can = file[i].can /\ file'[i].inplace = file[i].inplace
      /\ file'[i].mod /\ file'[i].text # Torn
  <2>1. file'[i] = g /\ file[i] \in File
    BY <1>1, <1>4 DEF TypeOK
  <2> QED BY <1>2, <2>1 DEF File
<1>7. NameTable' /\ OwnBase'
  BY <1>1, <1>5, <1>6 DEF NameTable, OwnBase
<1>8. Shape'
  <2>1. file'[i].can /\ file[i].st \notin {"free", "deleted"}
    BY <1>1, <1>6 DEF Active
  <2> QED BY <1>1, <1>5, <1>6, <2>1 DEF Shape
<1>9. Homes'
  <2>1. \A k \in Fn : DiskName(k)' = DiskName(k)
    BY <1>5, <1>6 DEF DiskName
  <2>2. UNCHANGED << disk, data, pc, whole, tmp >>
    BY DEF Modify
  <2> QED BY <1>1, <1>5, <1>6, <2>1, <2>2, EditHome DEF Homes
<1> QED BY <1>3, <1>7, <1>8, <1>9, EditAt DEF SaveInv, Table, Modify

(* A file gets its old name back: nobody has taken it, if users are careful. *)
LEMMA NameBackKeeps ==
  ASSUME Careful, SaveInv, NEW i \in Fn, NEW n \in Editable, NameBack(i, n)
  PROVE  SaveInv'
<1>1. /\ TypeOK /\ NameTable /\ Shape /\ OwnBase /\ Homes
      /\ file[i].st = "renamed" /\ file[i].old = n /\ pc = "edit" /\ hvname(n) = 0
  BY EditAt DEF SaveInv, Table, NameBack, Careful
<1>2. TypeOK'
  <2>1. file' \in [Fn -> File]
    BY <1>1 DEF NameBack, TypeOK, File, Status
  <2> QED BY <1>1, <2>1 DEF NameBack, TypeOK
<1>3. /\ file'[i] = [file[i] EXCEPT !.name = n, !.old = None, !.st = "use"]
      /\ \A k \in Fn : k # i => file'[k] = file[k]
  BY <1>1 DEF NameBack, TypeOK
<1>4. file[i] \in File
  BY <1>1 DEF TypeOK
<1>5. \A k \in Fn : /\ file'[k].base = file[k].base /\ file'[k].text = file[k].text
                    /\ file'[k].was = file[k].was /\ file'[k].can = file[k].can
                    /\ file'[k].inplace = file[k].inplace /\ file'[k].mod = file[k].mod
                    /\ k # i => file'[k].st = file[k].st /\ file'[k].name = file[k].name /\ file'[k].old = file[k].old
      /\ file'[i].st = "use" /\ file'[i].name = n
  <2> DEFINE g == [file[i] EXCEPT !.name = n, !.old = None, !.st = "use"]
  <2>1. /\ g.base = file[i].base /\ g.text = file[i].text /\ g.was = file[i].was
        /\ g.can = file[i].can /\ g.inplace = file[i].inplace /\ g.mod = file[i].mod
        /\ g.st = "use" /\ g.name = n
    BY <1>4 DEF File
  <2>2. file'[i] = g
    BY <1>3
  <2> HIDE DEF g
  <2> QED BY <1>3, <2>1, <2>2
<1>6. \A k \in Fn : Active(k) => file[k].name # n
  BY <1>1, Searches
<1>7. \A k \in Fn : file[k].st \in Status
  BY <1>1 DEF TypeOK, File
<1>8. NameTable'
  <2>1. \A k \in Fn : k # i =>
          /\ file'[k].st # "free" => file'[k].name # n
          /\ file'[k].st = "renamed" => file'[k].old # n
    BY <1>1, <1>5, <1>6, <1>7 DEF NameTable, Active, Status
  <2> QED BY <1>1, <1>5, <2>1 DEF NameTable
<1>9. Shape' /\ OwnBase'
  BY <1>1, <1>5, NoneApart DEF Shape, OwnBase
<1>10. DiskName(i)' = DiskName(i) /\ \A k \in Fn : k # i => DiskName(k)' = DiskName(k)
  BY <1>1, <1>5 DEF DiskName
<1>11. Homes'
  <2>1. UNCHANGED << disk, data, pc, whole, tmp >> /\ file[i].can
    BY <1>1 DEF NameBack, Shape
  <2>2. \A k \in Fn : file'[k].base \in {file[k].base, None}
    BY <1>5
  <2>3. Home(i)'
    BY <1>1, <1>5, <1>10, <2>1, <2>2, EditHome
  <2>4. ASSUME NEW k \in Fn, k # i, file'[k].st \in {"use", "renamed"} PROVE Home(k)'
    <3>1. file'[k] = file[k]
      BY <1>3, <2>4
    <3> QED BY <1>1, <1>10, <2>1, <2>2, <2>4, <3>1, EditHome
  <2> QED BY <2>3, <2>4 DEF Homes
<1> QED BY <1>2, <1>8, <1>9, <1>11, EditAt DEF SaveInv, Table, NameBack

(* A file is given a name that is neither ours nor on the disk. *)
LEMMA NameToKeeps ==
  ASSUME Careful, SaveInv, NEW i \in Fn, NEW n \in Editable, NameTo(i, n)
  PROVE  SaveInv'
<1> DEFINE f == file[i]
           renamed == IF f.st = "use"
                      THEN [f EXCEPT !.name = n, !.old = f.name, !.st = "renamed"]
                      ELSE [f EXCEPT !.name = n]
<1>1. /\ TypeOK /\ NameTable /\ Shape /\ OwnBase /\ Homes
      /\ pc = "edit" /\ Active(i) /\ f.can /\ ~ (f.st = "renamed" /\ f.old = n)
      /\ hvname(n) = 0 /\ (f.st = "new" \/ hvoldname(n) = 0)
      /\ file' = [file EXCEPT ![i] = renamed]
      /\ UNCHANGED << disk, data, pc, cur, dest, whole, tmp, bound, ignored >>
  BY EditAt DEF SaveInv, Table, NameTo, NameFree, Careful
<1>2. f \in File
  BY <1>1 DEF TypeOK
<1>3. /\ renamed \in File
      /\ renamed.base = f.base /\ renamed.text = f.text /\ renamed.was = f.was
      /\ renamed.can = f.can /\ renamed.inplace = f.inplace /\ renamed.mod = f.mod
      /\ renamed.name = n
      /\ f.st = "use" => renamed.old = f.name /\ renamed.st = "renamed"
      /\ f.st # "use" => renamed.old = f.old /\ renamed.st = f.st
  BY <1>2 DEF File, Status
<1> HIDE DEF renamed
<1>4. TypeOK'
  BY <1>1, <1>3 DEF TypeOK
<1>5. /\ file'[i] = renamed
      /\ \A k \in Fn : k # i => file'[k] = file[k]
  BY <1>1 DEF TypeOK
<1>6. /\ \A k \in Fn : Active(k) => file[k].name # n
      /\ f.st # "new" => \A k \in Fn : file[k].st = "renamed" => file[k].old # n
  BY <1>1, Searches
<1>7. \A k \in Fn : file[k].st \in Status
  BY <1>1 DEF TypeOK, File
<1>8. NameTable'
  <2>1. \A k \in Fn : k # i =>
          /\ file'[k].st # "free" /\ file'[k].name = n => file'[k].st = "deleted"
          /\ file'[k].st = "renamed" /\ file'[k].old = n => renamed.st = "new"
          /\ file'[k].st # "free" /\ renamed.st = "renamed" /\ file'[k].name = renamed.old => file'[k].st = "new"
          /\ file'[k].st = "renamed" /\ renamed.st = "renamed" => file'[k].old # renamed.old
    BY <1>1, <1>3, <1>5, <1>6, <1>7 DEF NameTable, Active, Status
  <2>2. renamed.st \in {"new", "renamed"}
    BY <1>1, <1>3 DEF Active
  <2> QED BY <1>1, <1>5, <1>3, <2>1, <2>2 DEF NameTable
<1>9. Shape'
  <2>1. \A k \in Fn : k # i => file'[k] = file[k]
    BY <1>5
  <2>2. f.st \in {"use", "new", "renamed"} /\ f.name # n /\ n # None
    BY <1>1, <1>6, NoneApart DEF Active
  <2>3. /\ renamed.st # "free" => renamed.name # None
        /\ renamed.st = "new" => renamed.base = None
        /\ renamed.st = "renamed" => renamed.old # None /\ renamed.old # renamed.name
    BY <1>1, <1>3, <2>2 DEF Shape
  <2>4. /\ renamed.mod => renamed.can
        /\ renamed.st = "new" => ~ renamed.inplace
        /\ renamed.text = Torn => renamed.was = Torn
    BY <1>1, <1>3 DEF Shape
  <2>5. \A k \in Fn : k # i =>
          /\ file'[k].st # "free" => file'[k].name # None
          /\ file'[k].st = "new" => file'[k].base = None
          /\ file'[k].st = "renamed" => file'[k].old # None /\ file'[k].old # file'[k].name /\ file'[k].can
          /\ file'[k].st \in {"free", "deleted"} => ~ file'[k].can
          /\ file'[k].mod => file'[k].can
          /\ file'[k].st = "new" => ~ file'[k].inplace
          /\ file'[k].text = Torn => file'[k].was = Torn
    BY <1>1, <2>1 DEF Shape
  <2>6. renamed.st \in {"new", "renamed"} /\ renamed.can
    BY <1>1, <1>3 DEF Active
  <2> QED BY <1>5, <2>3, <2>4, <2>5, <2>6 DEF Shape
<1>10. OwnBase'
  BY <1>1, <1>3, <1>5 DEF OwnBase
<1>11. Homes'
  <2>1. f.st \in {"use", "renamed"} => DiskName(i)' = DiskName(i)
    BY <1>1, <1>3, <1>5 DEF DiskName
  <2>2. \A k \in Fn : k # i => DiskName(k)' = DiskName(k)
    BY <1>5 DEF DiskName
  <2>3. file'[i].st \in {"use", "renamed"} => f.st \in {"use", "renamed"}
    BY <1>1, <1>3, <1>5
  <2> QED BY <1>1, <1>3, <1>5, <2>1, <2>2, <2>3, EditHome DEF Homes
<1> QED BY <1>1, <1>4, <1>8, <1>9, <1>10, <1>11, EditAt DEF SaveInv, Table

(* What delete makes of an entry. *)
Deleted(i) == IF file[i].st = "new" THEN [NoFile EXCEPT !.las = TRUE]
              ELSE [file[i] EXCEPT !.mod = FALSE, !.st = "deleted", !.old = None, !.can = FALSE,
                                   !.name = IF file[i].st = "renamed" THEN file[i].old ELSE file[i].name]

LEMMA DeletedStep ==
  ASSUME TypeOK, OwnBase, NEW i \in Fn, Delete(i)
  PROVE  file' = [file EXCEPT ![i] = Deleted(i)]
<1>1. CASE file[i].st = "new"
  BY <1>1 DEF Delete, Deleted
<1>2. CASE file[i].st # "new"
  <2> DEFINE g == [file[i] EXCEPT !.mod = FALSE]
  <2>1. la_unmodify(i) = [file EXCEPT ![i] = g]
    BY Unmodified
  <2>2. file' = [la_unmodify(i) EXCEPT
                   ![i].st = "deleted", ![i].old = None, ![i].can = FALSE,
                   ![i].name = IF file[i].st = "renamed" THEN file[i].old ELSE file[i].name]
    BY <1>2 DEF Delete
  <2> QED BY <1>2, <2>1, <2>2 DEF Deleted, TypeOK
<1> QED BY <1>1, <1>2

LEMMA DeletedShape ==
  ASSUME TypeOK, NEW i \in Fn
  PROVE  /\ Deleted(i) \in File
         /\ ~ Deleted(i).can /\ ~ Deleted(i).mod
         /\ file[i].st = "new" =>
              /\ Deleted(i).st = "free" /\ Deleted(i).base = None
              /\ Deleted(i).text = 0 /\ Deleted(i).was = 0
         /\ file[i].st # "new" =>
              /\ Deleted(i).st = "deleted" /\ Deleted(i).name = DiskName(i)
              /\ Deleted(i).base = file[i].base /\ Deleted(i).text = file[i].text
              /\ Deleted(i).was = file[i].was /\ Deleted(i).upd = file[i].upd
              /\ Deleted(i).inplace = file[i].inplace
<1>1. file[i] \in File /\ 0 \in Text /\ None \in Editable \cup {None} /\ None \in Inode \cup {None}
  BY ConstantsAssumption DEF TypeOK, Text
<1>2. CASE file[i].st = "new"
  BY <1>1, <1>2 DEF Deleted, NoFile, File, Status
<1>3. CASE file[i].st # "new"
  BY <1>1, <1>3, ZenonT(45) DEF Deleted, File, Status, DiskName
<1> QED BY <1>2, <1>3

(* A deleted file keeps the name it has on the disk, and what it reads. *)
LEMMA DeleteKeeps ==
  ASSUME SaveInv, NEW i \in Fn, Delete(i)
  PROVE  SaveInv'
<1> DEFINE f == file[i]
           gone == Deleted(i)
<1>1. /\ TypeOK /\ NameTable /\ Shape /\ OwnBase /\ Homes
      /\ pc = "edit" /\ Active(i) /\ f.can
      /\ file' = [file EXCEPT ![i] = gone]
      /\ UNCHANGED << disk, data, pc, cur, dest, whole, tmp, bound, ignored >>
  BY EditAt, DeletedStep DEF SaveInv, Table, Delete
<1>3. /\ gone \in File
      /\ gone.base \in {f.base, None} /\ ~ gone.can /\ ~ gone.mod
      /\ gone.text = Torn => gone.was = Torn
      /\ f.st = "new" => gone.st = "free"
      /\ f.st # "new" => gone.st = "deleted" /\ gone.name = DiskName(i)
  <2>1. f.text = Torn => f.was = Torn
    BY <1>1 DEF Shape
  <2> QED BY <1>1, <2>1, DeletedShape DEF Torn
<1> HIDE DEF gone
<1>4. TypeOK'
  BY <1>1, <1>3 DEF TypeOK
<1>5. /\ file'[i] = gone
      /\ \A k \in Fn : k # i => file'[k] = file[k]
  BY <1>1 DEF TypeOK
<1>6. NameTable'
  <2>1. f.st # "new" => \A k \in Fn : k # i =>
          /\ file[k].st # "free" /\ file[k].name = DiskName(i) => file[k].st \in {"new", "renamed"}
          /\ file[k].st = "renamed" => file[k].old # DiskName(i)
    BY <1>1 DEF NameTable, Active, DiskName
  <2> QED BY <1>1, <1>3, <1>5, <2>1 DEF NameTable, Active
<1>7. Shape'
  BY <1>1, <1>3, <1>5 DEF Shape, Active, DiskName, Torn
<1>8. OwnBase'
  BY <1>1, <1>3, <1>5 DEF OwnBase
<1>9. Homes'
  <2>1. \A k \in Fn : k # i => DiskName(k)' = DiskName(k)
    BY <1>5 DEF DiskName
  <2>2. file'[i].st \notin {"use", "renamed"}
    BY <1>1, <1>3, <1>5 DEF Active
  <2> QED BY <1>1, <1>3, <1>5, <2>1, <2>2, EditHome DEF Homes
<1> QED BY <1>1, <1>4, <1>6, <1>7, <1>8, <1>9, EditAt DEF SaveInv, Table

(* The update options do not touch names or texts. *)
LEMMA UpdateKeeps ==
  ASSUME SaveInv, NEW i \in Fn, NEW on \in BOOLEAN, NEW inplace \in BOOLEAN, Update(i, on, inplace)
  PROVE  SaveInv'
<1>1. /\ TypeOK /\ NameTable /\ Shape /\ OwnBase /\ Homes /\ pc = "edit"
      /\ inplace => on /\ file[i].st # "new"
      /\ file' = [file EXCEPT ![i].upd = on, ![i].inplace = IF on THEN inplace ELSE @]
      /\ UNCHANGED << disk, data, pc, cur, dest, whole, tmp, bound, ignored >>
  BY EditAt DEF SaveInv, Table, Update
<1>2. file[i] \in File
  BY <1>1 DEF TypeOK
<1> DEFINE g == [file[i] EXCEPT !.upd = on, !.inplace = IF on THEN inplace ELSE @]
<1>3. /\ g \in File /\ file'[i] = g
      /\ \A k \in Fn : k # i => file'[k] = file[k]
      /\ file' \in [Fn -> File]
  <2>1. g \in File
    BY <1>2 DEF File
  <2>2. file' = [file EXCEPT ![i] = g]
    BY <1>1, <2>1 DEF TypeOK
  <2> QED BY <1>1, <2>1, <2>2 DEF TypeOK
<1>4. TypeOK'
  BY <1>1, <1>3 DEF TypeOK
<1>5. /\ file'[i].st = file[i].st /\ file'[i].name = file[i].name /\ file'[i].old = file[i].old
      /\ file'[i].base = file[i].base /\ file'[i].was = file[i].was /\ file'[i].text = file[i].text
      /\ file'[i].can = file[i].can /\ file'[i].mod = file[i].mod
      /\ file'[i].inplace => file[i].inplace \/ file[i].st # "new"
  BY <1>1, <1>2, <1>3 DEF File
<1>6. NameTable' /\ Shape' /\ OwnBase'
  BY <1>1, <1>3, <1>5 DEF NameTable, Shape, OwnBase
<1>7. Homes'
  BY <1>1, <1>3, <1>5, EditHome DEF Homes, DiskName
<1> QED BY <1>1, <1>4, <1>6, <1>7, EditAt DEF SaveInv, Table

-----------------------------------------------------------------------------
(* Steps that change neither the disk nor the table. *)

(* What is said of the table holds while the table stays. *)
LEMMA SameTable ==
  ASSUME SaveInv, file' = file, TypeOK'
  PROVE  Table'
  BY DEF SaveInv, Table, NameTable, Shape, OwnBase

(* Leaving savefile or saveall, or passing between them, moves no text. *)
LEMMA SameHome ==
  ASSUME SaveInv, ~ Over, UNCHANGED << disk, data, file >>,
         tmp' \in {tmp, None}, pc # "mvtemp",
         (whole' = whole /\ pc \notin {"creat", "flush"}) \/ ~ whole'
  PROVE  Homes'
<1> SUFFICES ASSUME NEW i \in Fn, file[i].st \in {"use", "renamed"} PROVE Home(i)'
  BY DEF Homes
<1>1. Home(i)
  BY DEF SaveInv, Homes
<1>2. CASE ReadsOriginal(i)
  BY <1>2 DEF Home, ReadsOriginal, DiskName
<1>3. CASE ReadsBackup(i)
  BY <1>3 DEF Home, ReadsBackup, DiskName
<1>4. CASE IsSaved(i)
  <2>1. file[i].name # None
    BY DEF SaveInv, Table, Shape
  <2> QED BY <1>4, <2>1, NoneApart DEF Home, IsSaved, KeepsText, Holds
<1>5. CASE BeingSaved(i)
  BY <1>5 DEF BeingSaved
<1> QED BY <1>1, <1>2, <1>3, <1>4, <1>5 DEF Home

(* save goes to a name that is ours in no way. *)
LEMMA SaveCommandKeeps ==
  ASSUME SaveInv, NEW i \in Fn, NEW n \in Editable, SaveCommand(i, n)
  PROVE  SaveInv'
<1>1. /\ TypeOK /\ pc = "edit" /\ Active(i)
      /\ hvname(n) = 0 /\ hvdelname(n) = 0 /\ hvoldname(n) = 0
      /\ pc' = "mkstemp" /\ cur' = i /\ dest' = n /\ whole' = FALSE
      /\ UNCHANGED << disk, data, file, tmp, ignored >>
  BY DEF SaveInv, Table, SaveCommand
<1>2. TypeOK'
  <2>1. bound' \in [texts : 0 .. MaxText, exits : 0 .. MaxExits]
    BY <1>1, ConstantsAssumption DEF TypeOK, SaveCommand
  <2>2. i \in 0 .. MaxFn
    BY ConstantsAssumption DEF Fn
  <2> QED BY <1>1, <2>1, <2>2 DEF TypeOK, Steps
<1>3. \A k \in Fn : /\ file[k].st # "free" => file[k].name # n
                    /\ file[k].st = "renamed" => file[k].old # n
  <2>1. \A k \in Fn : file[k].st \in Status
    BY <1>1 DEF TypeOK, File
  <2> QED BY <1>1, <2>1, Searches DEF Active, Status
<1>4. At'
  BY <1>1, <1>3, EditAt, NoneApart DEF At, AtWhole, AtFile, AtBackup, AtTmp, Over,
                                       OfFile, InPlace, ByTmp, HasTmp, Active
<1>5. Homes' /\ ~ Over'
  BY <1>1, EditAt, SameHome DEF Over
<1> QED BY <1>1, <1>2, <1>4, <1>5, SameTable DEF SaveInv

(* exit is not tried again when saving in place has failed half way. *)
LEMMA ExitKeeps ==
  ASSUME Careful, SaveInv, Exit
  PROVE  SaveInv'
<1>1. /\ TypeOK /\ pc = "edit" /\ ~ whole /\ tmp = None /\ Homes
      /\ \A i \in Fn : file[i].mod /\ file[i].base # None
                       => \E n \in Editable : disk[n] = file[i].base
      /\ pc' = "baks" /\ cur' = 0 /\ whole' = TRUE
      /\ UNCHANGED << disk, data, file, dest, tmp, ignored >>
  BY EditAt DEF SaveInv, Table, Exit, Careful
<1>2. TypeOK'
  <2>1. bound' \in [texts : 0 .. MaxText, exits : 0 .. MaxExits]
    BY <1>1, ConstantsAssumption DEF TypeOK, Exit
  <2>2. 0 \in 0 .. MaxFn
    BY ConstantsAssumption
  <2> QED BY <1>1, <2>1, <2>2 DEF TypeOK, Steps
<1>3. At' /\ ~ Over'
  BY <1>1 DEF At, AtWhole, AtFile, AtBackup, AtTmp, Over, OfFile, InPlace, ByTmp, HasTmp
<1>4. Homes'
  <2> SUFFICES ASSUME NEW i \in Fn, file[i].st \in {"use", "renamed"} PROVE Home(i)'
    BY <1>1 DEF Homes
  <2>1. Home(i)
    BY <1>1 DEF Homes
  <2>2. CASE ReadsOriginal(i)
    BY <1>1, <2>2 DEF Home, ReadsOriginal, DiskName
  <2>3. CASE ReadsBackup(i)
    BY <1>1, <2>3 DEF Home, ReadsBackup, DiskName
  <2>4. CASE IsSaved(i)
    BY <1>1, <2>4 DEF Home, IsSaved, KeepsText, Holds
  <2>5. CASE BeingSaved(i)
    BY <1>1, <2>5 DEF BeingSaved
  <2> QED BY <2>1, <2>2, <2>3, <2>4, <2>5 DEF Home
<1> QED BY <1>1, <1>2, <1>3, <1>4, SameTable DEF SaveInv

(* In each of the four places the text has a name. *)
LEMMA HomesHold ==
  ASSUME SaveInv, ~ Over
  PROVE  TextSurvives
<1> SUFFICES ASSUME NEW i \in Fn, file[i].st \in {"use", "renamed"}
             PROVE  \E n \in Name : Holds(n, file[i].was) \/ Holds(n, file[i].text)
  BY DEF TextSurvives
<1>1. Home(i) /\ TypeOK /\ Shape
  BY DEF SaveInv, Homes, Table
<1>2. DiskName(i) \in Editable
  BY <1>1 DEF DiskName, Shape, TypeOK, File
<1>3. CASE ReadsOriginal(i)
  BY <1>2, <1>3, NoneApart DEF ReadsOriginal, Holds
<1>4. CASE ReadsBackup(i)
  BY <1>2, <1>4, NoneApart DEF ReadsBackup, Holds
<1>5. CASE IsSaved(i)
  <2>1. file[i].name \in Editable
    BY <1>2, <1>5 DEF IsSaved, DiskName
  <2> QED BY <1>5, <2>1, NoneApart DEF IsSaved, KeepsText
<1>6. CASE BeingSaved(i)
  <2>1. tmp \in Name /\ Holds(tmp, file[i].text)
    BY <1>1, <1>6, NoneApart DEF SaveInv, At, AtTmp, Alone, Holds, BeingSaved, HasTmp, ByTmp, TypeOK
  <2> QED BY <2>1
<1> QED BY <1>1, <1>3, <1>4, <1>5, <1>6 DEF Home

(* When the session is over, what it leaves is on the disk. *)
LEMMA OverKeeps ==
  ASSUME SaveInv, ~ Over, pc' \in {"gone", "dead"},
         UNCHANGED << disk, data, file, cur, dest, whole, tmp, bound, ignored >>
  PROVE  SaveInv'
<1>1. TypeOK'
  BY DEF SaveInv, Table, TypeOK
<1>2. Over' /\ TextSurvives'
  BY HomesHold DEF Over, TextSurvives, Holds
<1>3. At'
  BY DEF At, AtWhole, AtFile, AtBackup, AtTmp, Over, OfFile, InPlace, ByTmp, HasTmp
<1> QED BY <1>1, <1>2, <1>3, SameTable DEF SaveInv

(* The editor may die at any step of saving. *)
LEMMA CrashKeeps ==
  ASSUME SaveInv, Crash
  PROVE  SaveInv'
  BY OverKeeps DEF Crash, Over, Steps

(* saveall begins with the next file that has to be saved. *)
LEMMA StartSaveKeeps ==
  ASSUME SaveInv, StartSave
  PROVE  SaveInv'
<1>1. /\ Table /\ At /\ TypeOK /\ pc = "saves" /\ whole /\ tmp = None
      /\ UNCHANGED << disk, data, file, whole, tmp, bound, ignored >>
  BY DEF SaveInv, At, AtWhole, AtTmp, Over, HasTmp, ByTmp, StartSave, Table
<1>2. Homes'
  BY <1>1, SameHome DEF Over
<1>3. CASE NextEligible = 0
  <2>1. pc' = "deletes" /\ cur' = 0 /\ dest' = dest
    BY <1>3 DEF StartSave
  <2>2. TypeOK'
    BY <1>1, <2>1, ConstantsAssumption DEF TypeOK, Steps
  <2>3. At' /\ ~ Over'
    BY <1>1, <2>1 DEF At, AtWhole, AtFile, AtBackup, AtTmp, Over, OfFile, InPlace, ByTmp, HasTmp
  <2> QED BY <1>1, <1>2, <2>2, <2>3, SameTable DEF SaveInv
<1>4. CASE NextEligible # 0
  <2>1. pc' = "renold" /\ cur' = NextEligible /\ dest' = file[cur'].name
    BY <1>4 DEF StartSave
  <2>2. cur' \in Fn /\ Active(cur') /\ file[cur'].mod
    BY <1>4, <2>1, FoundNext DEF Eligible
  <2>3. dest' \in Editable /\ cur' \in 0 .. MaxFn
    BY <1>1, <2>1, <2>2, ConstantsAssumption DEF Table, Shape, TypeOK, File, Active, Fn
  <2>4. TypeOK'
    BY <1>1, <2>1, <2>3 DEF TypeOK, Steps
  <2>5. At' /\ ~ Over'
    BY <1>1, <2>1, <2>2, <2>3, NoneApart
       DEF At, AtWhole, AtFile, AtBackup, AtTmp, Over, OfFile, InPlace, ByTmp, HasTmp, Active
  <2> QED BY <1>1, <1>2, <2>4, <2>5, SameTable DEF SaveInv
<1> QED BY <1>3, <1>4

(* NO leaves the files as they are. *)
LEMMA GiveUpAt ==
  ASSUME GiveUp
  PROVE  At' /\ ~ Over' /\ ~ whole' /\ tmp' = None
  BY DEF GiveUp, At, AtWhole, AtFile, AtBackup, AtTmp, Over, OfFile, InPlace, ByTmp, HasTmp

(* Giving up resets the variables of the saving to values of their types. *)
LEMMA GiveUpType ==
  ASSUME TypeOK, GiveUp, disk' \in [Name -> Inode \cup {None}], data' \in [Inode -> Text],
         file' \in [Fn -> File], UNCHANGED bound, ignored' \in BOOLEAN
  PROVE  TypeOK'
<1>1. 0 \in 0 .. MaxFn
  BY ConstantsAssumption
<1>2. bound' \in [texts : 0 .. MaxText, exits : 0 .. MaxExits]
  BY DEF TypeOK
<1> QED BY <1>1, <1>2 DEF TypeOK, GiveUp

(* A directory that cannot be written stops the saving. *)
LEMMA DirCheckFailsKeeps ==
  ASSUME SaveInv, DirCheckFails
  PROVE  SaveInv'
<1>1. TypeOK'
  BY GiveUpType DEF DirCheckFails, SaveInv, Table, TypeOK
<1>2. Homes'
  BY SameHome, GiveUpAt DEF DirCheckFails, Over
<1> QED BY <1>1, <1>2, GiveUpAt, SameTable DEF SaveInv, DirCheckFails

-----------------------------------------------------------------------------
(* Steps that change a backup or a temporary file, and not the table. *)

(* Names of two files in the table that are not free to be the same. *)
LEMMA NamesApart ==
  ASSUME SaveInv, NEW i \in Fn, NEW t \in Fn, i # t,
         file[i].st \in {"use", "renamed"}, file[t].st \in {"use", "renamed", "new", "deleted"}
  PROVE  /\ file[i].st = "use" => file[i].name # file[t].name
         /\ file[t].st # "new" => DiskName(i) # file[t].name
         /\ file[t].st = "renamed" => DiskName(i) # file[t].old
  BY DEF SaveInv, Table, NameTable, DiskName

(* While the files are saved, those that read their backup are done with. *)
LEMMA BackupDone ==
  ASSUME SaveInv, whole, pc \notin {"creat", "flush"}, NEW i \in Fn, ReadsBackup(i)
  PROVE  ~ file[i].can /\ ~ file[i].mod /\ file[i].st = "use"
  BY DEF ReadsBackup, SaveInv, Table, Shape

(* A backup that a stream reads is not the backup of a file still to be saved. *)
LEMMA BackupsApart ==
  ASSUME SaveInv, whole, pc \notin {"creat", "flush"}, NEW i \in Fn, ReadsBackup(i),
         NEW t \in Fn, Active(t), file[t].mod
  PROVE  Bak[file[t].name] # Bak[DiskName(i)]
<1>1. file[i].st = "use" /\ i # t
  BY BackupDone
<1>2. file[i].name # file[t].name /\ file[i].name \in Editable /\ file[t].name \in Editable
  BY <1>1, NamesApart DEF Active, SaveInv, Table, Shape, TypeOK, File
<1> QED BY <1>1, <1>2, NoneApart DEF DiskName

(* A name the user does not know is changed, and an inode that nobody reads. *)
LEMMA SpareHome ==
  ASSUME SaveInv, ~ Over, pc # "mvtemp", file' = file,
         NEW s \in Name \ Editable, \A n \in Name : n # s => disk'[n] = disk[n],
         \A x \in Inode : \/ data'[x] = data[x]
                          \/ /\ \A n \in Name : n # s => disk[n] # x
                             /\ \A k \in Fn : file[k].base # x,
         s \in Tmp => s = tmp \/ disk[s] = None,
         tmp' \in {tmp, s, None},
         (whole' = whole /\ pc \notin {"creat", "flush"}) \/ ~ whole',
         \A i \in Fn : file[i].st \in {"use", "renamed"} /\ ReadsBackup(i) => s # Bak[DiskName(i)]
  PROVE  Homes'
<1> SUFFICES ASSUME NEW i \in Fn, file[i].st \in {"use", "renamed"} PROVE Home(i)'
  BY DEF Homes
<1>1. Home(i) /\ TypeOK
  BY DEF SaveInv, Homes, Table
<1>2. DiskName(i) \in Editable /\ file[i].name \in Editable /\ DiskName(i)' = DiskName(i)
  BY <1>1 DEF DiskName, SaveInv, Table, Shape, TypeOK, File
<1>3. CASE ReadsOriginal(i)
  <2>1. disk'[DiskName(i)] = disk[DiskName(i)]
    BY <1>2, NoneApart
  <2>2. file[i].base \in Inode /\ data'[file[i].base] = data[file[i].base]
    BY <1>1, <1>3 DEF TypeOK, File, ReadsOriginal
  <2> QED BY <1>2, <1>3, <2>1, <2>2 DEF Home, ReadsOriginal
<1>4. CASE ReadsBackup(i)
  <2>1. disk'[Bak[DiskName(i)]] = disk[Bak[DiskName(i)]] /\ \A n \in Editable : disk'[n] = disk[n]
    BY <1>2, <1>4, NoneApart
  <2>2. file[i].base \in Inode /\ data'[file[i].base] = data[file[i].base]
    BY <1>1, <1>4 DEF TypeOK, File, ReadsBackup
  <2> QED BY <1>2, <1>4, <2>1, <2>2 DEF Home, ReadsBackup
<1>5. CASE IsSaved(i)
  <2>1. PICK n \in {file[i].name} \cup Tmp : n # tmp /\ KeepsText(i, n)
    BY <1>5 DEF IsSaved
  <2>2. n \in Name /\ disk[n] # None
    BY <1>2, <2>1, NoneApart DEF KeepsText, Holds
  <2>3. n # s /\ n # tmp' /\ \A m \in Editable : disk'[m] = disk[m]
    BY <1>2, <2>1, <2>2, NoneApart
  <2>4. disk[n] \in Inode /\ disk'[n] = disk[n] /\ data'[disk[n]] = data[disk[n]]
    BY <1>1, <2>2, <2>3 DEF TypeOK
  <2>5. KeepsText(i, n)'
    BY <2>1, <2>3, <2>4 DEF KeepsText, Holds
  <2> QED BY <1>5, <2>1, <2>3, <2>5 DEF Home, IsSaved
<1>6. CASE BeingSaved(i)
  BY <1>6 DEF BeingSaved
<1> QED BY <1>1, <1>3, <1>4, <1>5, <1>6 DEF Home

(* The backups that the first pass removes are read by nobody. *)
LEMMA RemoveBackupsKeeps ==
  ASSUME SaveInv, RemoveBackups
  PROVE  SaveInv'
<1>1. /\ TypeOK /\ At /\ Table /\ pc = "baks" /\ whole /\ tmp = None /\ ~ Over
      /\ UNCHANGED << data, file, dest, whole, tmp, bound, ignored >>
  BY DEF SaveInv, Table, At, AtWhole, AtTmp, Over, HasTmp, ByTmp, RemoveBackups
<1>2. CASE NextEligible = 0
  <2>1. pc' = "saves" /\ cur' = 0 /\ disk' = disk
    BY <1>2 DEF RemoveBackups
  <2>2. TypeOK'
    BY <1>1, <2>1, ConstantsAssumption DEF TypeOK, Steps
  <2>3. At' /\ ~ Over'
    BY <1>1, <2>1 DEF At, AtWhole, AtFile, AtBackup, AtTmp, Over, OfFile, InPlace, ByTmp, HasTmp
  <2>4. Homes'
    BY <1>1, <2>1, SameHome
  <2> QED BY <1>1, <2>2, <2>3, <2>4, SameTable DEF SaveInv
<1>3. CASE NextEligible # 0
  <2> DEFINE e == NextEligible
             s == Bak[file[e].name]
  <2>1. cur' = e /\ pc' = pc /\ disk' = [disk EXCEPT ![s] = None]
    BY <1>3 DEF RemoveBackups, Unlink
  <2>2. e \in Fn /\ Active(e) /\ file[e].mod
    BY <1>3, FoundNext DEF Eligible
  <2> HIDE DEF e
  <2>3. file[e].name \in Editable /\ s \in Name \ Editable /\ s \notin Tmp
    BY <1>1, <2>2, NoneApart DEF Table, Shape, TypeOK, File, Active
  <2>4. disk' \in [Name -> Inode \cup {None}] /\ \A n \in Name : n # s => disk'[n] = disk[n]
    BY <1>1, <2>1, <2>3 DEF TypeOK
  <2>5. TypeOK'
    BY <1>1, <2>1, <2>2, <2>4, ConstantsAssumption DEF TypeOK, Fn
  <2>6. At' /\ ~ Over'
    BY <1>1, <2>1 DEF At, AtWhole, AtFile, AtBackup, AtTmp, Over, OfFile, InPlace, ByTmp, HasTmp
  <2>7. \A i \in Fn : file[i].st \in {"use", "renamed"} /\ ReadsBackup(i) => s # Bak[DiskName(i)]
    BY <1>1, <2>2, BackupsApart
  <2>8. Homes'
    BY <1>1, <2>3, <2>4, <2>7, SpareHome
  <2> QED BY <1>1, <2>5, <2>6, <2>8, SameTable DEF SaveInv
<1> QED BY <1>2, <1>3

(* What is known at a step of saving in place. *)
LEMMA AtInPlace ==
  ASSUME SaveInv, pc \in InPlace
  PROVE  /\ TypeOK /\ whole /\ cur \in Fn /\ file[cur].st = "use" /\ file[cur].mod
         /\ Active(cur) /\ dest = file[cur].name /\ dest \in Editable
         /\ Bak[dest] \in Name \ Editable /\ Bak[dest] \notin Tmp /\ tmp = None /\ ~ Over
         /\ pc \notin {"creat", "flush"} =>
              \A i \in Fn : file[i].st \in {"use", "renamed"} /\ ReadsBackup(i) => Bak[dest] # Bak[DiskName(i)]
<1>1. /\ TypeOK /\ whole /\ cur \in Fn /\ file[cur].st = "use" /\ file[cur].mod
      /\ dest = file[cur].name /\ dest # None /\ tmp = None /\ ~ Over
  BY DEF SaveInv, Table, At, AtFile, AtBackup, AtTmp, OfFile, InPlace, HasTmp, ByTmp, Over
<1>2. dest \in Editable /\ Active(cur)
  BY <1>1 DEF TypeOK, Active
<1> QED BY <1>1, <1>2, NoneApart, BackupsApart

(* At these steps the file is still read from the original. *)
LEMMA StillOriginal ==
  ASSUME SaveInv, pc \in InPlace \ {"creat", "flush"}
  PROVE  ReadsOriginal(cur) /\ DiskName(cur) = dest
<1>1. file[cur].st = "use" /\ file[cur].mod /\ cur \in Fn /\ dest = file[cur].name /\ whole /\ ~ Over
  BY AtInPlace
<1>2. file[cur].can
  BY <1>1 DEF SaveInv, Table, Shape
<1>3. Home(cur)
  BY <1>1 DEF SaveInv, Homes
<1>4. ~ ReadsBackup(cur) /\ ~ IsSaved(cur) /\ ~ BeingSaved(cur)
  BY <1>1, <1>2, BackupDone DEF IsSaved, BeingSaved, InPlace
<1> QED BY <1>1, <1>3, <1>4 DEF Home, DiskName

(* Nor is the one that is unlinked before the copy is made. *)
LEMMA UnlinkBackupKeeps ==
  ASSUME SaveInv, UnlinkBackup
  PROVE  SaveInv'
<1> DEFINE s == Bak[dest]
<1>1. /\ pc = "unbak" /\ pc' = "creatbak" /\ disk' = [disk EXCEPT ![s] = None]
      /\ UNCHANGED << data, file, cur, dest, whole, tmp, bound, ignored >>
  BY DEF UnlinkBackup, Unlink
<1>2. At /\ TypeOK /\ s \in Name \ Editable /\ s \notin Tmp /\ whole /\ tmp = None /\ ~ Over
      /\ \A i \in Fn : file[i].st \in {"use", "renamed"} /\ ReadsBackup(i) => s # Bak[DiskName(i)]
  BY <1>1, AtInPlace DEF InPlace, SaveInv
<1>3. /\ disk' \in [Name -> Inode \cup {None}] /\ disk'[s] = None
      /\ \A n \in Name : n # s => disk'[n] = disk[n]
  BY <1>1, <1>2 DEF TypeOK
<1>4. TypeOK'
  BY <1>1, <1>2, <1>3 DEF TypeOK, Steps
<1>5. At' /\ ~ Over'
  BY <1>1, <1>2, <1>3 DEF At, AtWhole, AtFile, AtBackup, AtTmp, Over, OfFile, InPlace, ByTmp, HasTmp, Active
<1>6. Homes'
  BY <1>1, <1>2, <1>3, SpareHome
<1> QED BY <1>1, <1>4, <1>5, <1>6, SameTable DEF SaveInv

(* The backup gets an inode of its own. *)
LEMMA CreateBackupKeeps ==
  ASSUME SaveInv, CreateBackup
  PROVE  SaveInv'
<1> DEFINE s == Bak[dest]
           x == First(Unused(disk))
<1>1. /\ pc = "creatbak" /\ pc' = "copybak"
      /\ disk' = [disk EXCEPT ![s] = x] /\ data' = [data EXCEPT ![x] = Torn]
      /\ UNCHANGED << file, cur, dest, whole, tmp, bound, ignored >>
  BY DEF CreateBackup
<1>2. /\ At /\ TypeOK /\ s \in Name \ Editable /\ s \notin Tmp /\ whole /\ tmp = None /\ ~ Over
      /\ \A i \in Fn : file[i].st \in {"use", "renamed"} /\ ReadsBackup(i) => s # Bak[DiskName(i)]
  BY <1>1, AtInPlace DEF InPlace, SaveInv
<1>3. disk[s] = None
  BY <1>1, <1>2 DEF At, AtBackup
<1>4. x \in Inode /\ (\A n \in Name : disk[n] # x) /\ \A k \in Fn : file[k].base # x
  BY <1>2, <1>3, FreshInode
<1> HIDE DEF x
<1>5. /\ disk' \in [Name -> Inode \cup {None}] /\ disk'[s] = x
      /\ \A n \in Name : n # s => disk'[n] = disk[n]
      /\ data' \in [Inode -> Text] /\ \A y \in Inode : y # x => data'[y] = data[y]
  BY <1>1, <1>2, <1>4 DEF TypeOK, Text
<1>6. TypeOK'
  BY <1>1, <1>2, <1>5 DEF TypeOK, Steps
<1>7. Alone(s)'
  BY <1>1, <1>4, <1>5, NoneApart DEF Alone
<1>8. At' /\ ~ Over'
  BY <1>1, <1>2, <1>7 DEF At, AtWhole, AtFile, AtBackup, AtTmp, Over, OfFile, InPlace, ByTmp, HasTmp, Active
<1>9. Homes'
  BY <1>1, <1>2, <1>4, <1>5, SpareHome
<1> QED BY <1>1, <1>6, <1>8, <1>9, SameTable DEF SaveInv

(* The backup gets the text that was read. *)
LEMMA filecopyKeeps ==
  ASSUME SaveInv, filecopy
  PROVE  SaveInv'
<1> DEFINE s == Bak[dest]
           x == disk[s]
<1>1. /\ pc = "copybak" /\ pc' = "freplace"
      /\ data' = [data EXCEPT ![x] = data[disk[dest]]]
      /\ UNCHANGED << disk, file, cur, dest, whole, tmp, bound, ignored >>
  BY DEF filecopy
<1>2. /\ At /\ TypeOK /\ s \in Name \ Editable /\ s \notin Tmp /\ whole /\ tmp = None /\ ~ Over
      /\ \A i \in Fn : file[i].st \in {"use", "renamed"} /\ ReadsBackup(i) => s # Bak[DiskName(i)]
      /\ dest \in Name
  BY <1>1, AtInPlace, NoneApart DEF InPlace, SaveInv
<1>3. Alone(s) /\ x \in Inode
  BY <1>1, <1>2 DEF At, AtBackup, Alone, TypeOK
<1>4. disk[dest] \in Inode /\ data[disk[dest]] = file[cur].was
  BY <1>1, <1>2, StillOriginal DEF InPlace, ReadsOriginal, TypeOK
<1>5. /\ data' \in [Inode -> Text] /\ data'[x] = file[cur].was
      /\ \A y \in Inode : y # x => data'[y] = data[y]
  BY <1>1, <1>2, <1>3, <1>4 DEF TypeOK
<1>6. TypeOK'
  BY <1>1, <1>2, <1>5 DEF TypeOK, Steps
<1>7. At' /\ ~ Over'
  BY <1>1, <1>2, <1>3, <1>5
     DEF At, AtWhole, AtFile, AtBackup, AtTmp, Over, OfFile, InPlace, ByTmp, HasTmp, Active, Alone
<1>8. Homes'
  BY <1>1, <1>2, <1>3, <1>5, SpareHome DEF Alone
<1> QED BY <1>1, <1>6, <1>7, <1>8, SameTable DEF SaveInv

(* What is known at a step of saving by a temporary file. *)
LEMMA AtByTmp ==
  ASSUME SaveInv, pc \in ByTmp
  PROVE  /\ TypeOK /\ At /\ ~ Over /\ cur \in Fn /\ Active(cur) /\ dest \in Editable
         /\ whole => dest = file[cur].name /\ file[cur].mod /\ file[cur].st \in {"use", "new"}
         /\ pc # "mkstemp" => tmp \in Tmp /\ Alone(tmp)
         /\ pc = "mkstemp" => tmp = None
<1>1. /\ TypeOK /\ At /\ ~ Over /\ cur \in Fn /\ Active(cur) /\ dest # None
      /\ whole => dest = file[cur].name /\ file[cur].mod /\ file[cur].st # "renamed"
      /\ pc # "mkstemp" => tmp # None /\ Alone(tmp)
      /\ pc = "mkstemp" => tmp = None
  BY DEF SaveInv, Table, At, AtFile, AtBackup, AtTmp, OfFile, HasTmp, ByTmp, Over
<1> QED BY <1>1 DEF TypeOK, Active

(* A temporary file is no backup. *)
LEMMA TmpApart ==
  ASSUME SaveInv, NEW t \in Tmp, NEW i \in Fn, file[i].st \in {"use", "renamed"}
  PROVE  t # Bak[DiskName(i)]
<1>1. DiskName(i) \in Editable
  BY DEF SaveInv, Table, Shape, TypeOK, File, DiskName
<1> QED BY <1>1, NoneApart

(* The temporary file gets a name and an inode of its own. *)
LEMMA mkstempKeeps ==
  ASSUME SaveInv, mkstemp
  PROVE  SaveInv'
<1> DEFINE x == First(Unused(disk))
<1>1. PICK t \in Tmp : disk[t] = None /\ tmp' = t /\ disk' = [disk EXCEPT ![t] = x]
  BY DEF mkstemp
<1>2. /\ pc = "mkstemp" /\ pc' = "tflush" /\ data' = [data EXCEPT ![x] = Torn]
      /\ UNCHANGED << file, cur, dest, whole, bound, ignored >>
  BY DEF mkstemp
<1>3. TypeOK /\ At /\ ~ Over /\ t \in Name \ Editable
  BY <1>2, AtByTmp, NoneApart DEF ByTmp
<1>4. x \in Inode /\ (\A n \in Name : disk[n] # x) /\ \A k \in Fn : file[k].base # x
  BY <1>1, <1>3, FreshInode
<1> HIDE DEF x
<1>5. /\ disk' \in [Name -> Inode \cup {None}] /\ disk'[t] = x
      /\ \A n \in Name : n # t => disk'[n] = disk[n]
      /\ data' \in [Inode -> Text] /\ \A y \in Inode : y # x => data'[y] = data[y]
  BY <1>1, <1>2, <1>3, <1>4 DEF TypeOK, Text
<1>6. TypeOK'
  BY <1>1, <1>2, <1>3, <1>5 DEF TypeOK, Steps
<1>7. Alone(t)'
  BY <1>2, <1>4, <1>5, NoneApart DEF Alone
<1>8. At' /\ ~ Over'
  BY <1>1, <1>2, <1>3, <1>7, NoneApart
     DEF At, AtWhole, AtFile, AtBackup, AtTmp, Over, OfFile, InPlace, ByTmp, HasTmp, Active, Alone
<1>9. \A i \in Fn : file[i].st \in {"use", "renamed"} /\ ReadsBackup(i) => t # Bak[DiskName(i)]
  BY TmpApart
<1>10. Homes'
  BY <1>1, <1>2, <1>3, <1>4, <1>5, <1>9, SpareHome
<1> QED BY <1>2, <1>6, <1>8, <1>10, SameTable DEF SaveInv

(* The new text is written where nobody reads. *)
LEMMA FlushTmpKeeps ==
  ASSUME SaveInv, FlushTmp
  PROVE  SaveInv'
<1> DEFINE x == disk[tmp]
<1>1. /\ pc = "tflush" /\ pc' = "undel" /\ data' = [data EXCEPT ![x] = file[cur].text]
      /\ UNCHANGED << disk, file, cur, dest, whole, tmp, bound, ignored >>
  BY DEF FlushTmp
<1>2. TypeOK /\ At /\ ~ Over /\ tmp \in Tmp /\ tmp \in Name \ Editable /\ Alone(tmp) /\ cur \in Fn
  BY <1>1, AtByTmp, NoneApart DEF ByTmp
<1>3. x \in Inode /\ file[cur].text \in Text
  BY <1>2 DEF TypeOK, Alone, File
<1>4. /\ data' \in [Inode -> Text] /\ data'[x] = file[cur].text
      /\ \A y \in Inode : y # x => data'[y] = data[y]
  BY <1>1, <1>2, <1>3 DEF TypeOK
<1>5. TypeOK'
  BY <1>1, <1>2, <1>4 DEF TypeOK, Steps
<1>6. At' /\ ~ Over'
  BY <1>1, <1>2, <1>4
     DEF At, AtWhole, AtFile, AtBackup, AtTmp, Over, OfFile, InPlace, ByTmp, HasTmp, Active, Alone
<1>7. \A i \in Fn : file[i].st \in {"use", "renamed"} /\ ReadsBackup(i) => tmp # Bak[DiskName(i)]
  BY <1>2, TmpApart
<1>8. Homes'
  BY <1>1, <1>2, <1>3, <1>4, <1>7, SpareHome DEF Alone
<1> QED BY <1>1, <1>5, <1>6, <1>8, SameTable DEF SaveInv

(* A failing call leaves the texts where they are. *)
LEMMA CallFailsKeeps ==
  ASSUME SaveInv, CallFails
  PROVE  SaveInv'
<1>1. GiveUp /\ UNCHANGED << data, file, bound, ignored >>
  BY DEF CallFails
<1>2. At' /\ ~ Over' /\ ~ whole' /\ tmp' = None
  BY <1>1, GiveUpAt
<1>3. TypeOK
  BY DEF SaveInv, Table
<1>4. CASE pc \in {"creatbak", "freplace", "creat", "flush", "mkstemp"} /\ UNCHANGED disk
  <2>1. TypeOK'
    BY <1>1, <1>3, <1>4, GiveUpType DEF TypeOK
  <2>2. Homes'
    BY <1>1, <1>2, <1>4, SameHome DEF Over
  <2> QED BY <1>1, <1>2, <2>1, <2>2, SameTable DEF SaveInv
<1>5. CASE pc = "copybak" /\ disk' = Unlink(disk, Bak[dest])
  <2> DEFINE s == Bak[dest]
  <2>1. /\ s \in Name \ Editable /\ s \notin Tmp /\ ~ Over
        /\ \A i \in Fn : file[i].st \in {"use", "renamed"} /\ ReadsBackup(i) => s # Bak[DiskName(i)]
    BY <1>5, AtInPlace DEF InPlace
  <2>2. disk' \in [Name -> Inode \cup {None}] /\ \A n \in Name : n # s => disk'[n] = disk[n]
    BY <1>3, <1>5, <2>1 DEF Unlink, TypeOK
  <2>3. TypeOK'
    BY <1>1, <1>3, <2>2, GiveUpType DEF TypeOK
  <2>4. Homes'
    BY <1>1, <1>2, <1>5, <2>1, <2>2, SpareHome
  <2> QED BY <1>1, <1>2, <2>3, <2>4, SameTable DEF SaveInv
<1>6. CASE pc = "tflush" /\ disk' = Unlink(disk, tmp)
  <2>1. tmp \in Tmp /\ tmp \in Name \ Editable /\ ~ Over
    BY <1>6, AtByTmp, NoneApart DEF ByTmp
  <2>2. disk' \in [Name -> Inode \cup {None}] /\ \A n \in Name : n # tmp => disk'[n] = disk[n]
    BY <1>3, <1>6, <2>1 DEF Unlink, TypeOK
  <2>3. TypeOK'
    BY <1>1, <1>3, <2>2, GiveUpType DEF TypeOK
  <2>4. \A i \in Fn : file[i].st \in {"use", "renamed"} /\ ReadsBackup(i) => tmp # Bak[DiskName(i)]
    BY <2>1, TmpApart
  <2>5. Homes'
    BY <1>1, <1>2, <1>6, <2>1, <2>2, <2>4, SpareHome
  <2> QED BY <1>1, <1>2, <2>3, <2>5, SameTable DEF SaveInv
<1> QED BY <1>4, <1>5, <1>6 DEF CallFails

-----------------------------------------------------------------------------
(* Saving in place: the stream is turned to the backup, the original is      *)
(* truncated, and written again.                                           *)

(* The bytes of the backup are those of the original, and so the text stays. *)
LEMMA la_freplaceText ==
  ASSUME SaveInv, la_freplace
  PROVE  /\ pc = "freplace" /\ pc' = "creat" /\ cur \in Fn
         /\ file'[cur] = [file[cur] EXCEPT !.base = disk[Bak[dest]]]
         /\ file' \in [Fn -> File]
         /\ \A k \in Fn : k # cur => file'[k] = file[k]
         /\ UNCHANGED << disk, data, cur, dest, whole, tmp, bound, ignored >>
<1>1. pc = "freplace" /\ TypeOK /\ cur \in Fn /\ At
  BY AtInPlace DEF la_freplace, InPlace, SaveInv
<1>2. data[disk[Bak[dest]]] = file[cur].was /\ Alone(Bak[dest]) /\ Bak[dest] \in Name
  BY <1>1, AtInPlace DEF At, AtBackup, InPlace
<1>3. file[cur] \in File /\ disk[Bak[dest]] \in Inode
  BY <1>1, <1>2 DEF TypeOK, Alone
<1> DEFINE g == [file[cur] EXCEPT !.base = disk[Bak[dest]]]
<1>4. g \in File
  BY <1>3 DEF File
<1>5. file' = [k \in Fn |-> IF k = cur
                            THEN [file[cur] EXCEPT !.base = disk[Bak[dest]], !.text = file[cur].text]
                            ELSE file[k]]
  <2>1. Streams(cur) = {cur}
    BY <1>1, OneStream DEF SaveInv, Table
  <2> QED BY <1>2, <2>1 DEF la_freplace
<1>6. file' = [file EXCEPT ![cur] = g]
  <2>1. [file[cur] EXCEPT !.base = disk[Bak[dest]], !.text = file[cur].text] = g
    BY <1>3 DEF File
  <2> QED BY <1>1, <1>5, <2>1 DEF TypeOK
<1> QED BY <1>1, <1>4, <1>6, ZenonT(45) DEF la_freplace, TypeOK

(* From now on the stream reads the backup, and nobody the original. *)
LEMMA la_freplaceKeeps ==
  ASSUME SaveInv, la_freplace
  PROVE  SaveInv'
<1> DEFINE x == disk[Bak[dest]]
<1>1. /\ pc = "freplace" /\ pc' = "creat" /\ cur \in Fn
      /\ file'[cur] = [file[cur] EXCEPT !.base = x] /\ file' \in [Fn -> File]
      /\ \A k \in Fn : k # cur => file'[k] = file[k]
      /\ UNCHANGED << disk, data, cur, dest, whole, tmp, bound, ignored >>
  BY la_freplaceText
<1>2. /\ TypeOK /\ NameTable /\ Shape /\ OwnBase /\ At /\ Homes
      /\ whole /\ file[cur].st = "use" /\ file[cur].mod /\ dest = file[cur].name
      /\ dest \in Editable /\ Bak[dest] \in Name \ Editable /\ tmp = None /\ ~ Over
      /\ \A i \in Fn : file[i].st \in {"use", "renamed"} /\ ReadsBackup(i) => Bak[dest] # Bak[DiskName(i)]
  BY <1>1, AtInPlace DEF InPlace, SaveInv, Table
<1>3. Alone(Bak[dest]) /\ data[x] = file[cur].was /\ x \in Inode /\ x # None
  BY <1>1, <1>2, NoneApart DEF At, AtBackup, Alone, TypeOK
<1>4. ReadsOriginal(cur) /\ DiskName(cur) = dest
  BY <1>1, StillOriginal DEF InPlace
<1>5. /\ file'[cur].base = x /\ file'[cur].st = file[cur].st /\ file'[cur].name = file[cur].name
      /\ file'[cur].old = file[cur].old /\ file'[cur].text = file[cur].text
      /\ file'[cur].was = file[cur].was /\ file'[cur].can = file[cur].can
      /\ file'[cur].mod = file[cur].mod /\ file'[cur].inplace = file[cur].inplace
  <2>1. file[cur] \in File
    BY <1>1, <1>2 DEF TypeOK
  <2> QED BY <1>1, <2>1 DEF File
<1>6. TypeOK'
  BY <1>1, <1>2 DEF TypeOK, Steps
<1> DEFINE others == \A k \in Fn : k # cur => file'[k] = file[k]
<1>6a. others
  BY <1>1
<1>7. NameTable'
  BY <1>2, <1>5, <1>6a DEF NameTable
<1>8. Shape'
  BY <1>2, <1>5, <1>6a DEF Shape
<1>9. \A k \in Fn : file[k].base # x
  BY <1>3 DEF Alone
<1>10. OwnBase'
  <2> HIDE DEF x
  <2> QED BY <1>2, <1>5, <1>9, <1>6a DEF OwnBase
<1>11. disk[dest] # None /\ \A k \in Fn : file'[k].base # disk[dest]
  <2>1. disk[dest] = file[cur].base /\ disk[dest] # None
    BY <1>4 DEF ReadsOriginal
  <2>2. \A k \in Fn : k # cur => file[k].base # disk[dest]
    BY <1>1, <1>2, <2>1 DEF OwnBase
  <2>3. x # disk[dest]
    BY <1>2, <1>3, NoneApart DEF Alone
  <2> QED BY <1>1, <1>5, <2>1, <2>2, <2>3
<1>12. At' /\ ~ Over'
  <2>1. /\ pc = "freplace" /\ pc' = "creat" /\ cur' = cur /\ dest' = dest /\ whole' = whole
        /\ tmp' = tmp /\ disk' = disk /\ cur \in Fn
    BY <1>1
  <2> QED BY <1>2, <1>5, <1>11, <1>6a, <2>1, ZenonT(45)
     DEF At, AtWhole, AtFile, AtBackup, AtTmp, Over, OfFile, InPlace, ByTmp, HasTmp, Active
<1>13. Homes'
  <2> SUFFICES ASSUME NEW i \in Fn, file'[i].st \in {"use", "renamed"} PROVE Home(i)'
    BY DEF Homes
  <2>1. CASE i = cur
    <3>1. \A n \in Editable : disk[n] # x
      BY <1>2, <1>3, NoneApart DEF Alone
    <3>2. DiskName(cur)' = dest
      BY <1>1, <1>2, <1>5 DEF DiskName
    <3>3. /\ pc' = "creat" /\ cur' = cur /\ disk' = disk /\ data' = data
          /\ file'[cur].mod /\ file'[cur].was = file[cur].was /\ file'[cur].base = x
      BY <1>1, <1>2, <1>5
    <3>4. ReadsBackup(cur)'
      BY <1>2, <1>3, <3>1, <3>2, <3>3 DEF ReadsBackup
    <3> QED BY <1>1, <2>1, <3>4 DEF Home
  <2>2. CASE i # cur
    <3>1. file'[i] = file[i] /\ Home(i) /\ DiskName(i)' = DiskName(i)
      BY <1>1, <1>2, <2>2 DEF Homes, DiskName
    <3>2. CASE ReadsOriginal(i)
      BY <1>1, <3>1, <3>2 DEF Home, ReadsOriginal
    <3>3. CASE ReadsBackup(i)
      BY <1>1, <1>2, <3>1, <3>3 DEF Home, ReadsBackup
    <3>4. CASE IsSaved(i)
      <4>1. PICK n \in {file[i].name} \cup Tmp : n # tmp /\ KeepsText(i, n)
        BY <3>4 DEF IsSaved
      <4>2. x # disk[n]
        <5>1. file[i].name \in Editable
          BY <1>2, <3>4 DEF IsSaved, Shape, TypeOK, File
        <5>2. n \in Name /\ n # Bak[dest]
          BY <1>2, <4>1, <5>1, NoneApart
        <5> QED BY <1>3, <5>2 DEF Alone
      <4>3. KeepsText(i, n)'
        BY <1>1, <1>5, <3>1, <4>1, <4>2, ZenonT(45) DEF KeepsText, Holds
      <4> QED BY <1>1, <3>1, <3>4, <4>1, <4>3 DEF Home, IsSaved
    <3>5. CASE BeingSaved(i)
      BY <1>1, <3>5 DEF BeingSaved
    <3> QED BY <3>1, <3>2, <3>3, <3>4, <3>5 DEF Home
  <2> QED BY <2>1, <2>2
<1> QED BY <1>6, <1>7, <1>8, <1>10, <1>12, <1>13 DEF SaveInv, Table

(* Nobody reads the original that is written now. *)
LEMMA AtCreat ==
  ASSUME SaveInv, pc \in {"creat", "flush"}
  PROVE  /\ disk[dest] \in Inode /\ \A k \in Fn : file[k].base # disk[dest]
         /\ ReadsBackup(cur) /\ DiskName(cur) = dest
<1>1. disk[dest] # None /\ \A k \in Fn : file[k].base # disk[dest]
  BY DEF SaveInv, At, AtBackup
<1>2. /\ TypeOK /\ cur \in Fn /\ file[cur].st = "use" /\ file[cur].mod /\ dest = file[cur].name
      /\ dest \in Editable /\ ~ Over
  BY AtInPlace DEF InPlace
<1>3. disk[dest] \in Inode
  BY <1>1, <1>2, NoneApart DEF TypeOK
<1>4. DiskName(cur) = dest /\ Home(cur) /\ file[cur].can
  BY <1>2 DEF DiskName, SaveInv, Homes, Table, Shape
<1>5. ~ ReadsOriginal(cur) /\ ~ IsSaved(cur) /\ ~ BeingSaved(cur)
  BY <1>1, <1>2, <1>4 DEF ReadsOriginal, IsSaved, BeingSaved
<1> QED BY <1>1, <1>3, <1>4, <1>5 DEF Home

(* Writing the original over does not touch the text of another file. *)
LEMMA OverwriteHome ==
  ASSUME SaveInv, pc \in {"creat", "flush"}, UNCHANGED << disk, tmp >>,
         \A x \in Inode : x # disk[dest] => data'[x] = data[x],
         NEW i \in Fn, i # cur, file[i].st \in {"use", "renamed"},
         file'[i] = file[i], \A k \in Fn : file'[k].base = file[k].base
  PROVE  Home(i)'
<1>1. /\ TypeOK /\ Shape /\ Home(i) /\ cur \in Fn /\ whole /\ file[cur].st = "use"
      /\ dest = file[cur].name /\ dest \in Editable
  BY AtInPlace DEF InPlace, SaveInv, Homes, Table
<1>2. \A k \in Fn : file[k].base # disk[dest]
  BY AtCreat
<1>3. DiskName(i)' = DiskName(i)
  BY DEF DiskName
<1>4. CASE ReadsOriginal(i)
  <2>1. file[i].base \in Inode
    BY <1>1, <1>4 DEF ReadsOriginal, TypeOK, File
  <2> QED BY <1>2, <1>3, <1>4, <2>1 DEF Home, ReadsOriginal
<1>5. CASE ReadsBackup(i)
  <2>1. file[i].base \in Inode
    BY <1>1, <1>5 DEF ReadsBackup, TypeOK, File
  <2>2. ~ file[i].can /\ file[i].st = "use"
    BY <1>1, <1>5 DEF ReadsBackup
  <2> QED BY <1>2, <1>3, <1>5, <2>1, <2>2 DEF Home, ReadsBackup
<1>6. CASE IsSaved(i)
  <2>1. PICK n \in {file[i].name} \cup Tmp : n # tmp /\ KeepsText(i, n)
    BY <1>6 DEF IsSaved
  <2>2. file[i].name # dest
    BY <1>1, <1>6, NamesApart DEF IsSaved
  <2>3. disk[dest] # disk[n]
    BY <1>1, <2>1, <2>2 DEF KeepsText
  <2>4. file[i].name \in Editable
    BY <1>1 DEF Shape, TypeOK, File
  <2>5. disk[n] \in Inode
    BY <1>1, <2>1, <2>4, NoneApart DEF KeepsText, Holds, TypeOK
  <2>6. KeepsText(i, n)'
    BY <2>1, <2>3, <2>5 DEF KeepsText, Holds
  <2> QED BY <1>6, <2>1, <2>6 DEF Home, IsSaved
<1>7. CASE BeingSaved(i)
  BY <1>7 DEF BeingSaved
<1> QED BY <1>1, <1>4, <1>5, <1>6, <1>7 DEF Home

(* No stream reads the file that creat truncates. *)
LEMMA TruncateKeepsTable ==
  ASSUME SaveInv, TruncateOriginal
  PROVE  file' = file
<1>1. pc = "creat" /\ TypeOK
  BY AtInPlace DEF TruncateOriginal, InPlace
<1>2. \A k \in Fn : file[k].base # disk[dest]
  BY <1>1, AtCreat
<1> QED BY <1>1, <1>2 DEF TruncateOriginal, TypeOK

(* While the original is torn, its text is in the backup. *)
LEMMA TruncateOriginalKeeps ==
  ASSUME SaveInv, TruncateOriginal
  PROVE  SaveInv'
<1>1. /\ pc = "creat" /\ pc' = "flush" /\ file' = file
      /\ data' = [data EXCEPT ![disk[dest]] = Torn]
      /\ UNCHANGED << disk, cur, dest, whole, tmp, bound, ignored >>
  BY TruncateKeepsTable DEF TruncateOriginal
<1>2. TypeOK /\ At /\ disk[dest] \in Inode /\ ReadsBackup(cur) /\ whole /\ cur \in Fn /\ file[cur].mod
      /\ \A k \in Fn : file[k].base # disk[dest]
  BY <1>1, AtCreat, AtInPlace DEF InPlace, SaveInv
<1>3. /\ data' \in [Inode -> Text]
      /\ \A x \in Inode : x # disk[dest] => data'[x] = data[x]
  BY <1>1, <1>2 DEF TypeOK, Text
<1>4. TypeOK'
  BY <1>1, <1>2, <1>3 DEF TypeOK, Steps
<1>5. At' /\ ~ Over'
  BY <1>1, <1>2 DEF At, AtWhole, AtFile, AtBackup, AtTmp, Over, OfFile, InPlace, ByTmp, HasTmp, Active
<1>6. Home(cur)'
  <2>1. file[cur].base \in Inode
    BY <1>2 DEF ReadsBackup, TypeOK, File
  <2> QED BY <1>1, <1>2, <1>3, <2>1 DEF Home, ReadsBackup, DiskName
<1>7. Homes'
  <2>1. ASSUME NEW i \in Fn, file'[i].st \in {"use", "renamed"} PROVE Home(i)'
    <3>1. CASE i = cur
      <4> QED BY <1>1, <1>6, <3>1
    <3>2. CASE i # cur
      BY <1>1, <1>3, <2>1, <3>2, OverwriteHome
    <3> QED BY <3>1, <3>2
  <2> QED BY <2>1 DEF Homes
<1> QED BY <1>1, <1>4, <1>5, <1>7, SameTable DEF SaveInv

(* The file is saved; its old text stays in the backup, which the stream reads. *)
LEMMA FlushInPlaceKeeps ==
  ASSUME SaveInv, FlushInPlace
  PROVE  SaveInv'
<1> DEFINE g == [file[cur] EXCEPT !.st = "use", !.can = FALSE, !.mod = FALSE]
<1>1. /\ pc = "flush" /\ data' = [data EXCEPT ![disk[dest]] = file[cur].text]
      /\ file' = SavedFlags(cur) /\ NextFile /\ UNCHANGED << disk, bound, ignored >>
  BY DEF FlushInPlace
<1>2. /\ TypeOK /\ NameTable /\ Shape /\ OwnBase /\ At /\ whole /\ tmp = None
      /\ cur \in Fn /\ file[cur].mod /\ file[cur].st = "use" /\ dest = file[cur].name
      /\ disk[dest] \in Inode /\ ReadsBackup(cur) /\ DiskName(cur) = dest
      /\ \A k \in Fn : file[k].base # disk[dest]
  BY <1>1, AtCreat, AtInPlace DEF InPlace, SaveInv, Table
<1>3. pc' = "saves" /\ dest' = None /\ tmp' = None /\ UNCHANGED << cur, whole >>
  BY <1>1, <1>2 DEF NextFile
<1>4. file[cur] \in File /\ g \in File /\ file[cur].text \in Text
  <2>1. file[cur] \in File
    BY <1>2 DEF TypeOK
  <2> QED BY <2>1 DEF File, Status
<1>5. file' = [file EXCEPT ![cur] = g]
  BY <1>1, <1>2, SavedOnly
<1>6. file' \in [Fn -> File] /\ file'[cur] = g /\ \A k \in Fn : k # cur => file'[k] = file[k]
  BY <1>2, <1>4, <1>5 DEF TypeOK
<1>7. /\ file'[cur].st = "use" /\ ~ file'[cur].can /\ ~ file'[cur].mod
      /\ file'[cur].name = file[cur].name /\ file'[cur].old = file[cur].old
      /\ file'[cur].base = file[cur].base /\ file'[cur].text = file[cur].text
      /\ file'[cur].was = file[cur].was
  BY <1>4, <1>6 DEF File
<1>8. /\ data' \in [Inode -> Text]
      /\ \A x \in Inode : x # disk[dest] => data'[x] = data[x]
  BY <1>1, <1>2, <1>4 DEF TypeOK
<1>9. TypeOK'
  BY <1>1, <1>2, <1>3, <1>6, <1>8 DEF TypeOK, Steps
<1>10. \A k \in Fn : k # cur => file'[k] = file[k]
  BY <1>6
<1>11. NameTable' /\ OwnBase'
  BY <1>2, <1>7, <1>10 DEF NameTable, OwnBase
<1>12. Shape'
  BY <1>2, <1>7, <1>10 DEF Shape
<1>13. At' /\ ~ Over'
  BY <1>2, <1>3 DEF At, AtWhole, AtFile, AtBackup, AtTmp, Over, OfFile, InPlace, ByTmp, HasTmp
<1>14. Home(cur)'
  <2>1. file[cur].base \in Inode
    BY <1>2 DEF ReadsBackup, TypeOK, File
  <2>2. DiskName(cur)' = DiskName(cur)
    BY <1>2, <1>3, <1>7 DEF DiskName
  <2> QED BY <1>1, <1>2, <1>3, <1>7, <1>8, <2>1, <2>2 DEF Home, ReadsBackup
<1>15. Homes'
  <2>1. ASSUME NEW i \in Fn, file'[i].st \in {"use", "renamed"} PROVE Home(i)'
    <3>1. CASE i = cur
      BY <1>3, <1>14, <3>1
    <3>2. CASE i # cur
      <4>1. \A k \in Fn : file'[k].base = file[k].base
        BY <1>7, <1>10
      <4>2. file'[i] = file[i]
        BY <1>10, <3>2
      <4> QED BY <1>1, <1>2, <1>3, <1>8, <2>1, <3>2, <4>1, <4>2, OverwriteHome
    <3> QED BY <3>1, <3>2
  <2> QED BY <2>1 DEF Homes
<1> QED BY <1>9, <1>11, <1>12, <1>13, <1>15 DEF SaveInv, Table

-----------------------------------------------------------------------------
(* Renaming. *)

(* What is left of a deleted file that is forgotten. *)
Freed(k) == [file[k] EXCEPT !.st = "free", !.name = None]

LEMMA FreedShape ==
  ASSUME TypeOK, NEW k \in Fn
  PROVE  /\ Freed(k) \in File /\ Freed(k).st = "free"
         /\ Freed(k).can = file[k].can /\ Freed(k).mod = file[k].mod
         /\ Freed(k).upd = file[k].upd /\ Freed(k).inplace = file[k].inplace
         /\ Freed(k).base = file[k].base /\ Freed(k).text = file[k].text
         /\ Freed(k).was = file[k].was
<1>1. file[k] \in File
  BY DEF TypeOK
<1> QED BY <1>1, ZenonT(45) DEF Freed, File, Status

(* A deleted file whose name is taken is forgotten, and only that one. *)
LEMMA Forgotten ==
  ASSUME SaveInv, NEW n \in Editable, NEW f \in [Fn -> File],
         \A k \in Fn : file[k].st = "deleted" => f[k] = file[k]
  PROVE  /\ FreeDeleted(f, n) \in [Fn -> File]
         /\ \A k \in Fn : file[k].st = "deleted" /\ file[k].name = n => FreeDeleted(f, n)[k] = Freed(k)
         /\ \A k \in Fn : file[k].st # "deleted" \/ file[k].name # n => FreeDeleted(f, n)[k] = f[k]
<1> DEFINE d == hvdelname(n)
<1>1. \A k \in Fn : Freed(k) \in File
  BY FreedShape DEF SaveInv, Table
<1>2. CASE d = 0
  <2>1. \A k \in Fn : file[k].st = "deleted" => file[k].name # n
    BY <1>2, Searches
  <2> QED BY <1>2, <2>1 DEF FreeDeleted
<1>3. CASE d # 0
  <2>1. d \in Fn /\ file[d].st = "deleted" /\ file[d].name = n
    BY <1>3, Found
  <2> HIDE DEF d
  <2>2. FreeDeleted(f, n) = [f EXCEPT ![d] = Freed(d)]
    BY <1>3, <2>1 DEF FreeDeleted, Freed, d
  <2>3. \A k \in Fn : file[k].st = "deleted" /\ file[k].name = n => k = d
    BY <2>1 DEF SaveInv, Table, NameTable
  <2> QED BY <1>1, <2>1, <2>2, <2>3
<1> QED BY <1>2, <1>3

(* What svrename does to the table, whether the call succeeds or fails. *)
LEMMA svrenameTable ==
  ASSUME SaveInv, ~ Over, NEW t \in Fn, file[t].st = "renamed", NEW next, svrename(t, next)
  PROVE  \E r \in mv(disk, file[t].old, file[t].name) :
           /\ disk' = r.disk /\ r.ok \in BOOLEAN
           /\ file' \in [Fn -> File]
           /\ ~ r.ok => file' = file /\ GiveUp
           /\ r.ok => /\ pc' = next /\ UNCHANGED << cur, dest, whole, tmp >>
                      /\ file'[t].st = "use" /\ file'[t].name = file[t].name
                      /\ file'[t].base = file[t].base /\ file'[t].text = file[t].text
                      /\ file'[t].was = file[t].was /\ file'[t].can = file[t].can
                      /\ file'[t].mod = file[t].mod /\ file'[t].inplace = file[t].inplace
                      /\ file'[t].upd = file[t].upd
                      /\ \A k \in Fn : k # t =>
                           IF file[k].st = "deleted" /\ file[k].name = file[t].name
                             THEN file'[k] = Freed(k) ELSE file'[k] = file[k]
           /\ UNCHANGED << data, bound, ignored >>
<1>1. TypeOK /\ file[t] \in File /\ file[t].old \in Editable /\ file[t].name \in Editable /\ file[t].old # file[t].name
  BY DEF SaveInv, Table, Shape, TypeOK, File
<1>2. PICK r \in mv(disk, file[t].old, file[t].name) :
        /\ disk' = r.disk
        /\ IF r.ok
             THEN /\ file' = FreeDeleted([file EXCEPT ![t].st = "use", ![t].old = None], file[t].name)
                  /\ pc' = next
                  /\ UNCHANGED << cur, dest, whole, tmp >>
             ELSE UNCHANGED file /\ GiveUp
        /\ UNCHANGED << data, bound, ignored >>
  BY DEF svrename
<1>3. r.ok \in BOOLEAN
  BY <1>1, Moves, NoneApart
<1> DEFINE g == [file[t] EXCEPT !.st = "use", !.old = None]
           f == [file EXCEPT ![t] = g]
<1>4. g \in File
  BY <1>1 DEF File, Status
<1>5. f \in [Fn -> File] /\ f[t] = g /\ \A k \in Fn : k # t => f[k] = file[k]
  BY <1>1, <1>4 DEF TypeOK
<1>6. [file EXCEPT ![t].st = "use", ![t].old = None] = f
  BY <1>1, <1>4 DEF TypeOK
<1>7. /\ g.st = "use" /\ g.name = file[t].name /\ g.base = file[t].base /\ g.text = file[t].text
      /\ g.was = file[t].was /\ g.can = file[t].can /\ g.mod = file[t].mod
      /\ g.inplace = file[t].inplace /\ g.upd = file[t].upd
  BY <1>1 DEF File
<1> HIDE DEF f, g
<1>8. /\ FreeDeleted(f, file[t].name) \in [Fn -> File]
      /\ FreeDeleted(f, file[t].name)[t] = g
      /\ \A k \in Fn : k # t =>
           IF file[k].st = "deleted" /\ file[k].name = file[t].name
             THEN FreeDeleted(f, file[t].name)[k] = Freed(k)
             ELSE FreeDeleted(f, file[t].name)[k] = file[k]
  BY <1>1, <1>5, Forgotten
<1>9. CASE r.ok
  <2>1. /\ file' = FreeDeleted(f, file[t].name) /\ pc' = next /\ UNCHANGED << cur, dest, whole, tmp >>
        /\ disk' = r.disk /\ UNCHANGED << data, bound, ignored >>
    BY <1>2, <1>6, <1>9
  <2>2. file' \in [Fn -> File] /\ file'[t] = g
    BY <1>8, <2>1
  <2>3. \A k \in Fn : k # t =>
          IF file[k].st = "deleted" /\ file[k].name = file[t].name
            THEN file'[k] = Freed(k) ELSE file'[k] = file[k]
    BY <1>8, <2>1
  <2> QED BY <1>3, <1>7, <1>9, <2>1, <2>2, <2>3
<1>10. CASE ~ r.ok
  BY <1>1, <1>2, <1>3, <1>10 DEF TypeOK
<1> QED BY <1>9, <1>10

(* ... and that no text moves but the one that is renamed. *)
LEMMA svrenameKeeps ==
  ASSUME SaveInv, whole, pc \in {"renold", "rename", "renames"}, NEW t \in Fn,
         file[t].st = "renamed", NEW next \in {"rename", "unbak", "mkstemp", "renames"},
         svrename(t, next)
  PROVE  /\ Table' /\ Homes' /\ ~ Over'
         /\ \/ GiveUp
            \/ /\ pc' = next /\ UNCHANGED << cur, dest, whole, tmp >>
               /\ file'[t].st = "use" /\ file'[t].name = file[t].name /\ file'[t].mod = file[t].mod
               /\ \A k \in Fn : k # t => file'[k] \in {file[k], Freed(k)} /\ (file'[k] # file[k] => file[k].st = "deleted")
<1> DEFINE old == file[t].old
           new == file[t].name
<1>1. /\ TypeOK /\ NameTable /\ Shape /\ OwnBase /\ Homes /\ ~ Over /\ tmp = None /\ file[t].can
      /\ old \in Editable /\ new \in Editable /\ old # new /\ old \in Name /\ new \in Name
  BY NoneApart DEF SaveInv, Table, Shape, TypeOK, File, At, AtTmp, HasTmp, ByTmp, Over
<1>2. PICK r \in mv(disk, old, new) :
           /\ disk' = r.disk /\ r.ok \in BOOLEAN
           /\ file' \in [Fn -> File]
           /\ ~ r.ok => file' = file /\ GiveUp
           /\ r.ok => /\ pc' = next /\ UNCHANGED << cur, dest, whole, tmp >>
                      /\ file'[t].st = "use" /\ file'[t].name = file[t].name
                      /\ file'[t].base = file[t].base /\ file'[t].text = file[t].text
                      /\ file'[t].was = file[t].was /\ file'[t].can = file[t].can
                      /\ file'[t].mod = file[t].mod /\ file'[t].inplace = file[t].inplace
                      /\ file'[t].upd = file[t].upd
                      /\ \A k \in Fn : k # t =>
                           IF file[k].st = "deleted" /\ file[k].name = file[t].name
                             THEN file'[k] = Freed(k) ELSE file'[k] = file[k]
           /\ UNCHANGED << data, bound, ignored >>
  BY <1>1, svrenameTable
<1>3. /\ disk' \in [Name -> Inode \cup {None}]
      /\ \A n \in Name \ {old, new} : disk'[n] = disk[n]
      /\ disk'[old] \in {disk[old], None} /\ disk'[new] \in {disk[old], disk[new], None}
      /\ r.ok => disk'[new] = disk[old]
      /\ ~ r.ok => disk'[old] = disk[old]
  BY <1>1, <1>2, Moves
<1>4. ~ r.ok => pc' = "edit" /\ ~ whole' /\ tmp' = None /\ cur' = 0 /\ dest' = None
  BY <1>2 DEF GiveUp
<1>5. TypeOK'
  <2>1. CASE r.ok
    BY <1>1, <1>2, <1>3, <2>1 DEF TypeOK, Steps
  <2>2. CASE ~ r.ok
    BY <1>1, <1>2, <1>3, <2>2, GiveUpType DEF TypeOK
  <2> QED BY <1>2, <2>1, <2>2
<1>6. \A k \in Fn : /\ Freed(k).st = "free" /\ Freed(k).base = file[k].base
                    /\ Freed(k).can = file[k].can /\ Freed(k).mod = file[k].mod
                    /\ Freed(k).text = file[k].text /\ Freed(k).was = file[k].was
  BY <1>1, FreedShape
<1>7. \A k \in Fn : file'[k].base \in {file[k].base, None}
  BY <1>2, <1>6
<1>8. ASSUME NEW i \in Fn, i # t, file[i].st \in {"use", "renamed"}, file'[i] = file[i]
      PROVE  Home(i)'
  <2>0. DiskName(i)' = DiskName(i)
    BY <1>8 DEF DiskName
  <2>1. /\ DiskName(i) # old /\ DiskName(i) # new /\ DiskName(i) \in Editable
        /\ file[i].st = "use" => file[i].name # new /\ file[i].name # old
    BY <1>1, <1>8, NamesApart DEF DiskName, Shape, TypeOK, File
  <2>2. Home(i)
    BY <1>1, <1>8 DEF Homes
  <2>3. CASE ReadsOriginal(i)
    BY <1>2, <1>3, <1>8, <2>0, <2>1, <2>3, NoneApart DEF Home, ReadsOriginal
  <2>4. CASE ReadsBackup(i)
    <3>1. \A n \in Editable : disk'[n] # file[i].base
      BY <1>1, <1>3, <2>4, NoneApart DEF ReadsBackup
    <3>2. Bak[DiskName(i)] \in Name \ {old, new}
      BY <1>1, <2>1, NoneApart
    <3>3. ~ file[i].can /\ file[i].st = "use"
      BY <2>4, BackupDone
    <3> QED BY <1>2, <1>3, <1>8, <2>0, <2>4, <3>1, <3>2, <3>3 DEF Home, ReadsBackup
  <2>5. CASE IsSaved(i)
    <3>1. PICK n \in {file[i].name} \cup Tmp : n # tmp /\ KeepsText(i, n)
      BY <2>5 DEF IsSaved
    <3>2. n \in Name \ {old, new} /\ n # None /\ disk[n] # None
      BY <1>1, <2>1, <2>5, <3>1, NoneApart DEF IsSaved, DiskName, KeepsText, Holds
    <3>3. \A m \in Editable : m # file[i].name => disk'[m] # disk[n]
      BY <1>1, <1>3, <2>1, <2>5, <3>1, <3>2, NoneApart DEF KeepsText, IsSaved
    <3>4. KeepsText(i, n)'
      BY <1>2, <1>3, <1>8, <2>0, <3>1, <3>2, <3>3, <1>7 DEF KeepsText, Holds
    <3> QED BY <1>1, <1>2, <1>4, <1>8, <2>0, <2>5, <3>1, <3>2, <3>4 DEF Home, IsSaved
  <2>6. CASE BeingSaved(i)
    BY <2>6 DEF BeingSaved
  <2> QED BY <2>2, <2>3, <2>4, <2>5, <2>6 DEF Home
<1>9. CASE ~ r.ok
  <2>1. Table'
    BY <1>2, <1>5, <1>9, SameTable
  <2>2. Homes'
    <3> SUFFICES ASSUME NEW i \in Fn, file[i].st \in {"use", "renamed"} PROVE Home(i)'
      BY <1>2, <1>9 DEF Homes
    <3>1. CASE i = t
      <4>1. ReadsOriginal(t)
        BY <1>1, <3>1, BackupDone DEF Homes, Home, IsSaved, BeingSaved
      <4> QED BY <1>2, <1>3, <1>9, <3>1, <4>1 DEF Home, ReadsOriginal, DiskName
    <3>2. CASE i # t
      BY <1>2, <1>8, <1>9, <3>2
    <3> QED BY <3>1, <3>2
  <2> QED BY <1>2, <1>4, <1>9, <2>1, <2>2 DEF Over
<1>10. CASE r.ok
  <2>0. \A k \in Fn : file[k].st \in Status
    BY <1>1 DEF TypeOK, File
  <2>1. \A k \in Fn : k # t => file'[k] = file[k] \/ (file'[k] = Freed(k) /\ file[k].st = "deleted" /\ file[k].name = new)
    BY <1>2, <1>10
  <2>2. /\ \A k \in Fn : k # t /\ file'[k].st # "free" => file'[k].name # new
        /\ \A k \in Fn : k # t /\ file'[k].st = "renamed" => file'[k].old # new
    <3>1. \A k \in Fn : k # t /\ file[k].st # "free" /\ file[k].name = new => file[k].st = "deleted"
      BY <1>1 DEF NameTable
    <3>2. \A k \in Fn : k # t /\ file[k].st = "renamed" => file[k].old # new
      BY <1>1 DEF NameTable
    <3> QED BY <1>2, <1>6, <1>10, <3>1, <3>2
  <2>3. /\ file'[t].st = "use" /\ file'[t].name = new /\ file'[t].base = file[t].base
        /\ file'[t].text = file[t].text /\ file'[t].was = file[t].was /\ file'[t].can = file[t].can
        /\ file'[t].mod = file[t].mod /\ file'[t].inplace = file[t].inplace
    BY <1>2, <1>10
  <2>4. NameTable'
    BY <1>1, <1>6, <2>1, <2>2, <2>3 DEF NameTable
  <2>5. Shape'
    <3>1. file[t].can /\ file'[t].can /\ new # None
      BY <1>1, <2>3, NoneApart
    <3>2. file[t].text = Torn => file[t].was = Torn
      BY <1>1 DEF Shape
    <3> QED BY <1>1, <1>6, <2>1, <2>3, <3>1, <3>2 DEF Shape, Torn
  <2>6. OwnBase'
    BY <1>1, <1>6, <2>1, <2>3 DEF OwnBase
  <2>7. Homes'
    <3> SUFFICES ASSUME NEW i \in Fn, file'[i].st \in {"use", "renamed"} PROVE Home(i)'
      BY DEF Homes
    <3>1. CASE i = t
      <4>1. ReadsOriginal(t)
        BY <1>1, <3>1, BackupDone DEF Homes, Home, IsSaved, BeingSaved
      <4>2. disk'[new] = file[t].base /\ DiskName(t)' = new /\ data' = data
        BY <1>2, <1>3, <1>10, <2>3, <4>1 DEF ReadsOriginal, DiskName
      <4> QED BY <2>3, <3>1, <4>1, <4>2 DEF Home, ReadsOriginal
    <3>2. CASE i # t
      <4>1. file'[i] = file[i] /\ file[i].st \in {"use", "renamed"}
        BY <1>6, <2>1, <3>2
      <4> QED BY <1>8, <3>2, <4>1
    <3> QED BY <3>1, <3>2
  <2>8. ~ Over'
    BY <1>2, <1>10 DEF Over
  <2> QED BY <1>2, <1>5, <1>10, <2>1, <2>3, <2>4, <2>5, <2>6, <2>7, <2>8 DEF Table
<1> QED BY <1>2, <1>9, <1>10

(* No renaming is called for. *)
LEMMA SkipKeeps ==
  ASSUME SaveInv, pc \in {"renold", "rename"}, NEW next \in {"rename", "unbak", "mkstemp"}, Skip(next),
         pc = "renold" => next = "rename" /\ hvoldname(dest) = 0,
         pc = "rename" => /\ next # "rename" /\ file[cur].st # "renamed"
                          /\ next = "unbak" => file[cur].st = "use"
  PROVE  SaveInv'
<1>1. /\ pc' = next /\ UNCHANGED << disk, data, file, cur, dest, whole, tmp, bound, ignored >>
      /\ TypeOK /\ At /\ whole /\ ~ Over
  BY DEF Skip, SaveInv, Table, At, AtFile, Over, OfFile, ByTmp
<1>2. TypeOK'
  BY <1>1 DEF TypeOK, Steps
<1>3. pc = "renold" => \A k \in Fn : file[k].st = "renamed" => file[k].old # dest
  BY Searches
<1>4. At' /\ ~ Over'
  BY <1>1, <1>3 DEF At, AtWhole, AtFile, AtBackup, AtTmp, Over, OfFile, InPlace, ByTmp, HasTmp, Active
<1>5. Homes'
  BY <1>1, SameHome
<1> QED BY <1>1, <1>2, <1>4, <1>5, SameTable DEF SaveInv

(* What is known before a file is saved. *)
LEMMA AtRename ==
  ASSUME SaveInv, pc \in {"renold", "rename"}
  PROVE  /\ whole /\ cur \in Fn /\ Active(cur) /\ dest = file[cur].name /\ file[cur].mod /\ dest # None
         /\ tmp = None /\ ~ Over
         /\ pc = "rename" => \A i \in Fn : file[i].st = "renamed" => file[i].old # dest
  BY DEF SaveInv, At, AtFile, AtTmp, OfFile, InPlace, ByTmp, HasTmp, Over

(* The file that has the old name we save to is out of the way. *)
LEMMA RenameOldestKeeps ==
  ASSUME SaveInv, RenameOldest
  PROVE  SaveInv'
<1> DEFINE t == hvoldname(dest)
<1>1. pc = "renold"
  BY DEF RenameOldest
<1>2. /\ whole /\ cur \in Fn /\ Active(cur) /\ dest = file[cur].name /\ file[cur].mod /\ dest # None
      /\ tmp = None /\ ~ Over
  BY <1>1, AtRename
<1>3. CASE t = 0
  <2>1. Skip("rename")
    BY <1>3 DEF RenameOldest
  <2> QED BY <1>1, <1>3, <2>1, SkipKeeps
<1>4. CASE t # 0
  <2>1. t \in Fn /\ file[t].st = "renamed" /\ file[t].old = dest
    BY <1>4, Found
  <2>2. svrename(t, "rename")
    BY <1>4 DEF RenameOldest
  <2> HIDE DEF t
  <2>3. /\ Table' /\ Homes' /\ ~ Over'
        /\ \/ GiveUp
           \/ /\ pc' = "rename" /\ UNCHANGED << cur, dest, whole, tmp >>
              /\ file'[t].st = "use" /\ file'[t].name = file[t].name /\ file'[t].mod = file[t].mod
              /\ \A k \in Fn : k # t => file'[k] \in {file[k], Freed(k)} /\ (file'[k] # file[k] => file[k].st = "deleted")
    BY <1>1, <1>2, <2>1, <2>2, svrenameKeeps
  <2>4. CASE GiveUp
    BY <2>3, <2>4, GiveUpAt DEF SaveInv
  <2>5. CASE pc' = "rename" /\ UNCHANGED << cur, dest, whole, tmp >> /\ file'[t].st = "use"
             /\ \A k \in Fn : k # t => file'[k] \in {file[k], Freed(k)} /\ (file'[k] # file[k] => file[k].st = "deleted")
    <3>1. cur # t
      BY <1>2, <2>1 DEF SaveInv, Table, Shape
    <3>2. file'[cur] = file[cur]
      BY <1>2, <2>5, <3>1 DEF Active
    <3>3. \A k \in Fn : file'[k].st = "renamed" => file'[k].old # dest
      <4>1. \A k \in Fn : Freed(k).st = "free"
        BY FreedShape DEF SaveInv, Table
      <4>2. \A k \in Fn : k # t /\ file[k].st = "renamed" => file[k].old # dest
        BY <2>1 DEF SaveInv, Table, NameTable
      <4> QED BY <2>5, <4>1, <4>2
    <3>4. At'
      BY <1>2, <2>5, <3>2, <3>3 DEF At, AtWhole, AtFile, AtBackup, AtTmp, Over, OfFile, InPlace, ByTmp, HasTmp, Active
    <3> QED BY <2>3, <3>4 DEF SaveInv
  <2> QED BY <2>3, <2>4, <2>5
<1> QED BY <1>3, <1>4

(* The file that is saved has its name on the disk. *)
LEMMA RenameFirstKeeps ==
  ASSUME SaveInv, RenameFirst
  PROVE  SaveInv'
<1> DEFINE next == IF file[cur].inplace THEN "unbak" ELSE "mkstemp"
<1>1. pc = "rename" /\ IF file[cur].st = "renamed" THEN svrename(cur, next) ELSE Skip(next)
  BY DEF RenameFirst
<1>2. /\ whole /\ cur \in Fn /\ Active(cur) /\ dest = file[cur].name /\ file[cur].mod /\ dest # None
      /\ tmp = None /\ ~ Over
      /\ \A i \in Fn : file[i].st = "renamed" => file[i].old # dest
  BY <1>1, AtRename
<1>3. next \in {"unbak", "mkstemp"} /\ (next = "unbak" => file[cur].st # "new")
  BY <1>2 DEF SaveInv, Table, Shape
<1> HIDE DEF next
<1>4. CASE file[cur].st # "renamed"
  <2>1. next = "unbak" => file[cur].st = "use"
    BY <1>2, <1>3, <1>4 DEF Active
  <2> QED BY <1>1, <1>3, <1>4, <2>1, SkipKeeps
<1>5. CASE file[cur].st = "renamed"
  <2>1. /\ Table' /\ Homes' /\ ~ Over'
        /\ \/ GiveUp
           \/ /\ pc' = next /\ UNCHANGED << cur, dest, whole, tmp >>
              /\ file'[cur].st = "use" /\ file'[cur].name = file[cur].name /\ file'[cur].mod = file[cur].mod
              /\ \A k \in Fn : k # cur => file'[k] \in {file[k], Freed(k)} /\ (file'[k] # file[k] => file[k].st = "deleted")
    BY <1>1, <1>2, <1>3, <1>5, svrenameKeeps
  <2>2. CASE GiveUp
    BY <2>1, <2>2, GiveUpAt DEF SaveInv
  <2>3. CASE /\ pc' = next /\ UNCHANGED << cur, dest, whole, tmp >>
             /\ file'[cur].st = "use" /\ file'[cur].name = file[cur].name /\ file'[cur].mod = file[cur].mod
             /\ \A k \in Fn : k # cur => file'[k] \in {file[k], Freed(k)} /\ (file'[k] # file[k] => file[k].st = "deleted")
    <3>1. \A k \in Fn : Freed(k).st = "free"
      BY FreedShape DEF SaveInv, Table
    <3>2. \A k \in Fn : file'[k].st = "renamed" => file'[k].old # dest
      BY <1>2, <2>3, <3>1
    <3>3. file'[cur].mod
      BY <1>2, <2>3
    <3>4. pc' = next /\ cur' = cur /\ dest' = dest /\ whole' = whole /\ tmp' = tmp
          /\ file'[cur].st = "use" /\ file'[cur].name = file[cur].name
      BY <2>3
    <3>5. At'
      BY <1>2, <1>3, <3>2, <3>3, <3>4
         DEF At, AtWhole, AtFile, AtBackup, AtTmp, Over, OfFile, InPlace, ByTmp, HasTmp, Active
    <3> QED BY <2>1, <3>5 DEF SaveInv
  <2> QED BY <2>1, <2>2, <2>3
<1> QED BY <1>4, <1>5

(* At the end the files that only have a new name get it. *)
LEMMA RenameNextKeeps ==
  ASSUME SaveInv, RenameNext
  PROVE  SaveInv'
<1> DEFINE t == NextWith("renamed")
<1>1. pc = "renames" /\ IF t = 0 THEN Skip("gone") ELSE svrename(t, "renames")
  BY DEF RenameNext
<1>2. whole /\ ~ Over /\ tmp = None
  BY <1>1 DEF SaveInv, At, AtWhole, AtTmp, HasTmp, ByTmp, Over
<1>3. CASE t = 0
  BY <1>1, <1>2, <1>3, OverKeeps DEF Skip
<1>4. CASE t # 0
  <2>1. t \in Fn /\ file[t].st = "renamed" /\ svrename(t, "renames")
    BY <1>1, <1>4, FoundNext
  <2> HIDE DEF t
  <2>2. /\ Table' /\ Homes' /\ ~ Over'
        /\ GiveUp \/ (pc' = "renames" /\ UNCHANGED << cur, dest, whole, tmp >>)
    BY <1>1, <1>2, <2>1, svrenameKeeps
  <2>3. CASE GiveUp
    BY <2>2, <2>3, GiveUpAt DEF SaveInv
  <2>4. CASE pc' = "renames" /\ UNCHANGED << cur, dest, whole, tmp >>
    <3>1. At'
      BY <1>2, <2>4 DEF At, AtWhole, AtFile, AtBackup, AtTmp, Over, OfFile, InPlace, ByTmp, HasTmp
    <3> QED BY <2>2, <3>1 DEF SaveInv
  <2> QED BY <2>2, <2>3, <2>4
<1> QED BY <1>3, <1>4

-----------------------------------------------------------------------------
(* Unlinking what was deleted. *)

(* A deleted name that is unlinked is not where a text is. *)
LEMMA UnlinkHome ==
  ASSUME SaveInv, ~ Over, NEW n \in Editable, disk' = Unlink(disk, n), UNCHANGED << data, tmp, whole >>,
         pc \notin {"creat", "flush", "mvtemp"},
         \A k \in Fn : file'[k].base \in {file[k].base, None},
         NEW i \in Fn, file[i].st \in {"use", "renamed"}, file'[i] = file[i],
         DiskName(i) # n
  PROVE  Home(i)'
<1>1. TypeOK /\ Home(i) /\ DiskName(i)' = DiskName(i) /\ DiskName(i) \in Editable /\ n \in Name
  BY NoneApart DEF SaveInv, Table, Shape, TypeOK, File, DiskName, Homes
<1>2. disk'[n] = None /\ \A m \in Name : m # n => disk'[m] = disk[m]
  BY <1>1 DEF Unlink, TypeOK
<1>3. CASE ReadsOriginal(i)
  BY <1>1, <1>2, <1>3, NoneApart DEF Home, ReadsOriginal
<1>4. CASE ReadsBackup(i)
  <2>1. Bak[DiskName(i)] \in Name /\ Bak[DiskName(i)] # n
    BY <1>1, NoneApart
  <2>2. \A m \in Editable : disk'[m] # file[i].base
    BY <1>2, <1>4, NoneApart DEF ReadsBackup
  <2> QED BY <1>1, <1>2, <1>4, <2>1, <2>2 DEF Home, ReadsBackup
<1>5. CASE IsSaved(i)
  <2>1. PICK m \in {file[i].name} \cup Tmp : m # tmp /\ KeepsText(i, m)
    BY <1>5 DEF IsSaved
  <2>2. m \in Name /\ m # n /\ disk[m] # None
    BY <1>1, <1>5, <2>1, NoneApart DEF IsSaved, DiskName, KeepsText, Holds
  <2>3. \A k \in Editable : k # file[i].name => disk'[k] # disk[m]
    BY <1>2, <2>1, <2>2, NoneApart DEF KeepsText
  <2>4. KeepsText(i, m)'
    BY <1>2, <2>1, <2>2, <2>3 DEF KeepsText, Holds
  <2> QED BY <1>5, <2>1, <2>4 DEF Home, IsSaved
<1>6. CASE BeingSaved(i)
  BY <1>6 DEF BeingSaved
<1> QED BY <1>1, <1>3, <1>4, <1>5, <1>6 DEF Home

(* At the end the deleted names go: no text is there. *)
LEMMA UnlinkNextKeeps ==
  ASSUME SaveInv, UnlinkNext
  PROVE  SaveInv'
<1> DEFINE t == NextWith("deleted")
<1>1. /\ pc = "deletes"
      /\ IF t = 0 THEN pc' = "renames" /\ cur' = 0 /\ UNCHANGED disk
                  ELSE disk' = Unlink(disk, file[t].name) /\ cur' = t /\ UNCHANGED pc
      /\ UNCHANGED << data, file, dest, whole, tmp, bound, ignored >>
  BY DEF UnlinkNext
<1>2. whole /\ ~ Over /\ tmp = None /\ TypeOK /\ Homes
  BY <1>1 DEF SaveInv, At, AtWhole, AtTmp, HasTmp, ByTmp, Over, Table
<1>3. CASE t = 0
  <2>1. TypeOK'
    BY <1>1, <1>2, <1>3, ConstantsAssumption DEF TypeOK, Steps
  <2>2. At' /\ ~ Over'
    BY <1>1, <1>2, <1>3 DEF At, AtWhole, AtFile, AtBackup, AtTmp, Over, OfFile, InPlace, ByTmp, HasTmp
  <2>3. Homes'
    BY <1>1, <1>2, <1>3, SameHome
  <2> QED BY <1>1, <2>1, <2>2, <2>3, SameTable DEF SaveInv
<1>4. CASE t # 0
  <2>1. t \in Fn /\ file[t].st = "deleted"
    BY <1>4, FoundNext
  <2>2. disk' = Unlink(disk, file[t].name) /\ cur' = t /\ pc' = pc
    BY <1>1, <1>4
  <2> HIDE DEF t
  <2>3. file[t].name \in Editable /\ file[t].name \in Name
    BY <1>2, <2>1, NoneApart DEF SaveInv, Table, Shape, TypeOK, File
  <2>4. TypeOK'
    BY <1>1, <1>2, <2>1, <2>2, <2>3, ConstantsAssumption DEF TypeOK, Unlink, Fn
  <2>5. At' /\ ~ Over'
    BY <1>1, <1>2, <2>2 DEF At, AtWhole, AtFile, AtBackup, AtTmp, Over, OfFile, InPlace, ByTmp, HasTmp
  <2>6. Homes'
    <3> SUFFICES ASSUME NEW i \in Fn, file[i].st \in {"use", "renamed"} PROVE Home(i)'
      BY <1>1 DEF Homes
    <3>1. DiskName(i) # file[t].name
      BY <2>1, NamesApart
    <3> QED BY <1>1, <1>2, <2>2, <2>3, <3>1, UnlinkHome
  <2> QED BY <1>1, <2>4, <2>5, <2>6, SameTable DEF SaveInv
<1> QED BY <1>3, <1>4


-----------------------------------------------------------------------------
(* Saving by a temporary file: it is written, and takes the name. *)

(* The name that is saved to is on the disk for no other file. *)
LEMMA DestApart ==
  ASSUME SaveInv, pc \in ByTmp, NEW i \in Fn, file[i].st \in {"use", "renamed"},
         ~ (whole /\ i = cur)
  PROVE  DiskName(i) # dest /\ (file[i].st = "use" => file[i].name # dest)
<1>1. /\ cur \in Fn /\ Active(cur) /\ AtFile
      /\ whole => dest = file[cur].name /\ file[cur].st \in {"use", "new"}
  BY AtByTmp DEF At
<1>2. CASE whole
  BY <1>1, <1>2, NamesApart DEF AtFile, OfFile, ByTmp, DiskName
<1>3. CASE ~ whole
  BY <1>1, <1>3 DEF AtFile, OfFile, ByTmp, DiskName
<1> QED BY <1>2, <1>3

(* A deleted file of the name we save to is unlinked first. *)
LEMMA UnlinkDeletedKeeps ==
  ASSUME SaveInv, UnlinkDeleted
  PROVE  SaveInv'
<1>1. /\ pc = "undel" /\ pc' = "mvbak"
      /\ disk' = IF hvdelname(dest) # 0 THEN Unlink(disk, dest) ELSE disk
      /\ file' = FreeDeleted(file, dest)
      /\ UNCHANGED << data, cur, dest, whole, tmp, bound, ignored >>
  BY DEF UnlinkDeleted
<1>2. /\ TypeOK /\ NameTable /\ Shape /\ OwnBase /\ At /\ ~ Over /\ cur \in Fn /\ Active(cur)
      /\ dest \in Editable /\ dest \in Name
      /\ whole => dest = file[cur].name /\ file[cur].mod /\ file[cur].st \in {"use", "new"}
      /\ tmp \in Tmp /\ Alone(tmp)
  BY <1>1, AtByTmp, NoneApart DEF ByTmp, SaveInv, Table
<1>3. /\ file' \in [Fn -> File]
      /\ \A k \in Fn : file[k].st = "deleted" /\ file[k].name = dest => file'[k] = Freed(k)
      /\ \A k \in Fn : file[k].st # "deleted" \/ file[k].name # dest => file'[k] = file[k]
  BY <1>1, <1>2, Forgotten DEF TypeOK
<1>4. \A k \in Fn : /\ Freed(k).st = "free" /\ Freed(k).base = file[k].base
                    /\ Freed(k).can = file[k].can /\ Freed(k).mod = file[k].mod
                    /\ Freed(k).text = file[k].text /\ Freed(k).was = file[k].was
  BY <1>2, FreedShape
<1>5. \A k \in Fn : file'[k] = file[k] \/ (file'[k] = Freed(k) /\ file[k].st = "deleted")
  BY <1>3
<1>6. \A k \in Fn : file'[k].base \in {file[k].base, None}
  BY <1>4, <1>5
<1>7. disk' \in [Name -> Inode \cup {None}] /\ \A n \in Name : n # dest => disk'[n] = disk[n]
  BY <1>1, <1>2 DEF TypeOK, Unlink
<1>8. disk'[dest] \in {disk[dest], None}
  BY <1>1, <1>2 DEF TypeOK, Unlink
<1>9. TypeOK'
  BY <1>1, <1>2, <1>3, <1>7 DEF TypeOK, Steps
<1>10. NameTable' /\ OwnBase'
  BY <1>2, <1>4, <1>5 DEF NameTable, OwnBase
<1>11. Shape'
  BY <1>2, <1>4, <1>5 DEF Shape, Torn
<1>12. file'[cur] = file[cur]
  BY <1>2, <1>3 DEF Active
<1>13. Alone(tmp)'
  <2>1. tmp \in Name /\ tmp # dest /\ disk[tmp] # None
    BY <1>2, NoneApart DEF Alone
  <2> QED BY <1>1, <1>2, <1>6, <1>7, <1>8, <2>1 DEF Alone
<1>14. \A k \in Fn : file'[k].st = "deleted" => file'[k].name # dest
  BY <1>3, <1>4
<1>15. At' /\ ~ Over'
  <2>1. tmp # dest /\ tmp # None /\ disk'[tmp] = disk[tmp]
    BY <1>2, <1>7, NoneApart
  <2>2. AtFile'
    BY <1>1, <1>2, <1>4, <1>5, <1>12 DEF At, AtFile, OfFile, InPlace, ByTmp, Active
  <2>3. AtTmp'
    BY <1>1, <1>2, <1>12, <1>13, <1>14, <2>1 DEF At, AtTmp, HasTmp, ByTmp, Over
  <2> QED BY <1>1, <2>2, <2>3 DEF At, AtWhole, AtBackup, Over, InPlace
<1>16. Homes'
  <2>1. CASE hvdelname(dest) # 0
    <3>1. PICK t \in Fn : file[t].st = "deleted" /\ file[t].name = dest
      BY <2>1, Found
    <3>2. ~ whole \/ file[cur].st = "new"
      BY <1>2, <3>1 DEF NameTable
    <3>3. ASSUME NEW i \in Fn, file'[i].st \in {"use", "renamed"} PROVE Home(i)'
      <4>1. file'[i] = file[i]
        BY <1>4, <1>5, <3>3
      <4>2. DiskName(i) # dest
        BY <1>1, <3>2, <3>3, <4>1, DestApart DEF ByTmp
      <4> QED BY <1>1, <1>2, <1>6, <2>1, <3>3, <4>1, <4>2, UnlinkHome
    <3> QED BY <3>3 DEF Homes
  <2>2. CASE hvdelname(dest) = 0
    <3>1. file' = file /\ disk' = disk
      BY <1>1, <2>2 DEF FreeDeleted
    <3> QED BY <1>1, <1>2, <3>1, SameHome
  <2> QED BY <2>1, <2>2
<1> QED BY <1>9, <1>10, <1>11, <1>15, <1>16 DEF SaveInv, Table

(* Names of which none is where the text of a file is, nor its backup, may   *)
(* change, unless one gets an inode that some file reads.                  *)
LEMMA MoveHome ==
  ASSUME SaveInv, pc \in {"mvbak", "mvtemp"}, NEW i \in Fn, file[i].st \in {"use", "renamed"},
         ~ (whole /\ i = cur), file'[i] = file[i], data' = data,
         \A k \in Fn : file'[k].base = file[k].base,
         NEW s \in {tmp, Bak[dest]}, \A n \in Name \ {dest, s} : disk'[n] = disk[n],
         disk'[dest] \in {disk[tmp], disk[dest], None},
         tmp' \in {tmp, None}, whole' \in {whole, FALSE}
  PROVE  Home(i)'
<1>1. /\ TypeOK /\ Shape /\ ~ Over /\ Home(i) /\ Alone(tmp) /\ tmp \in Tmp /\ tmp \in Name
      /\ dest \in Editable /\ dest \in Name
  BY AtByTmp, NoneApart DEF ByTmp, SaveInv, Table, Homes
<1>2. /\ DiskName(i) # dest /\ DiskName(i) \in Editable /\ DiskName(i)' = DiskName(i)
      /\ file[i].st = "use" => file[i].name # dest
      /\ file[i].name \in Editable
  BY <1>1, DestApart DEF ByTmp, DiskName, Shape, TypeOK, File
<1>3. s \notin Editable /\ s # Bak[DiskName(i)]
  BY <1>1, <1>2, NoneApart
<1>4. CASE ReadsOriginal(i)
  <2>1. disk'[DiskName(i)] = disk[DiskName(i)]
    BY <1>2, <1>3, NoneApart
  <2> QED BY <1>2, <1>4, <2>1 DEF Home, ReadsOriginal
<1>5. CASE ReadsBackup(i)
  <2>1. disk'[Bak[DiskName(i)]] = disk[Bak[DiskName(i)]]
    BY <1>1, <1>2, <1>3, NoneApart
  <2>2. \A n \in Editable : disk'[n] # file[i].base
    <3>1. disk[tmp] # file[i].base
      BY <1>1 DEF Alone
    <3>2. disk'[dest] # file[i].base
      BY <1>1, <1>5, <3>1, NoneApart DEF ReadsBackup
    <3>3. ASSUME NEW n \in Editable, n # dest PROVE disk'[n] # file[i].base
      BY <1>3, <1>5, <3>3, NoneApart DEF ReadsBackup
    <3> QED BY <3>2, <3>3
  <2>3. \/ ~ file[i].can /\ file[i].st = "use"
        \/ file[i].mod /\ ~ whole
    BY <1>5 DEF ReadsBackup
  <2>4. ~ whole => ~ whole'
    OBVIOUS
  <2> QED BY <1>2, <1>5, <2>1, <2>2, <2>3, <2>4 DEF Home, ReadsBackup
<1>6. CASE IsSaved(i)
  <2>1. PICK n \in {file[i].name} \cup Tmp : n # tmp /\ KeepsText(i, n)
    BY <1>6 DEF IsSaved
  <2>2. n \in Name /\ n # dest /\ n # s /\ n # None /\ disk[n] # None
    BY <1>1, <1>2, <1>6, <2>1, NoneApart DEF IsSaved, KeepsText, Holds
  <2>3. disk'[n] = disk[n] /\ disk[tmp] # disk[n] /\ n # tmp'
    BY <1>1, <2>1, <2>2 DEF Alone
  <2>4. \A m \in Editable : m # file[i].name => disk'[m] # disk[n]
    <3>1. disk'[dest] # disk[n]
      BY <1>1, <1>2, <1>6, <2>1, <2>2, <2>3 DEF KeepsText, IsSaved
    <3>2. ASSUME NEW m \in Editable, m # dest, m # file[i].name PROVE disk'[m] # disk[n]
      BY <1>3, <2>1, <3>2, NoneApart DEF KeepsText
    <3> QED BY <3>1, <3>2
  <2>5. KeepsText(i, n)'
    BY <2>1, <2>3, <2>4 DEF KeepsText, Holds
  <2> QED BY <1>6, <2>1, <2>3, <2>5 DEF Home, IsSaved
<1>7. CASE BeingSaved(i)
  BY <1>7 DEF BeingSaved
<1> QED BY <1>1, <1>4, <1>5, <1>6, <1>7 DEF Home

(* The original becomes the backup; the new text is in the temporary file. *)
LEMMA MoveToBackupKeeps ==
  ASSUME SaveInv, MoveToBackup
  PROVE  SaveInv'
<1> DEFINE s == Bak[dest]
<1>1. /\ pc = "mvbak" /\ pc' = "mvtemp"
      /\ UNCHANGED << data, file, cur, dest, whole, tmp, bound >>
  BY DEF MoveToBackup
<1>2. PICK r \in mv(disk, dest, s) :
        disk' = r.disk /\ ignored' = (ignored \/ (~ r.ok /\ disk[dest] # None))
  BY DEF MoveToBackup
<1>3. /\ TypeOK /\ At /\ ~ Over /\ cur \in Fn /\ dest \in Editable /\ dest \in Name
      /\ tmp \in Tmp /\ tmp \in Name /\ Alone(tmp) /\ s \in Name /\ s # dest /\ s # tmp /\ tmp # dest
  BY <1>1, AtByTmp, NoneApart DEF ByTmp
<1>4. /\ disk' \in [Name -> Inode \cup {None}]
      /\ \A n \in Name \ {dest, s} : disk'[n] = disk[n]
      /\ disk'[dest] \in {disk[dest], None}
      /\ disk'[s] \in {disk[dest], disk[s], None}
  BY <1>2, <1>3, Moves
<1>5. ignored' \in BOOLEAN
  BY <1>2
<1>6. TypeOK'
  BY <1>1, <1>3, <1>4, <1>5 DEF TypeOK, Steps
<1>7. Alone(tmp)'
  BY <1>1, <1>3, <1>4 DEF Alone
<1>8. At' /\ ~ Over'
  <2>1. disk'[tmp] = disk[tmp]
    BY <1>3, <1>4
  <2> QED BY <1>1, <1>3, <1>7, <2>1
      DEF At, AtWhole, AtFile, AtBackup, AtTmp, Over, OfFile, InPlace, ByTmp, HasTmp, Active
<1>9. ASSUME NEW i \in Fn, file[i].st \in {"use", "renamed"} PROVE Home(i)'
  <2>1. CASE whole /\ i = cur
    BY <1>1, <2>1 DEF Home, BeingSaved
  <2>2. CASE ~ (whole /\ i = cur)
    BY <1>1, <1>4, <1>9, <2>2, MoveHome
  <2> QED BY <2>1, <2>2
<1>10. Homes'
  BY <1>1, <1>9 DEF Homes
<1> QED BY <1>1, <1>6, <1>8, <1>10, SameTable DEF SaveInv

(* The temporary file becomes the original, or keeps the text if that fails. *)
LEMMA MoveTmpKeeps ==
  ASSUME SaveInv, MoveTmp
  PROVE  SaveInv'
<1>1. /\ pc = "mvtemp" /\ file' = SavedFlags(cur) /\ NextFile
      /\ UNCHANGED << data, bound >>
  BY DEF MoveTmp
<1>2. PICK r \in mv(disk, tmp, dest) : disk' = r.disk /\ ignored' = (ignored \/ ~ r.ok)
  BY DEF MoveTmp
<1>3. /\ TypeOK /\ NameTable /\ Shape /\ OwnBase /\ At /\ ~ Over /\ cur \in Fn
      /\ dest \in Editable /\ dest \in Name /\ tmp \in Tmp /\ tmp \in Name /\ tmp # dest /\ Alone(tmp)
      /\ whole => dest = file[cur].name /\ file[cur].mod /\ file[cur].st \in {"use", "new"}
  BY <1>1, AtByTmp, NoneApart DEF ByTmp, SaveInv, Table
<1>4. /\ disk' \in [Name -> Inode \cup {None}]
      /\ \A n \in Name \ {tmp, dest} : disk'[n] = disk[n]
      /\ disk'[dest] \in {disk[tmp], disk[dest], None}
      /\ r.ok => disk'[dest] = disk[tmp]
      /\ ~ r.ok => disk'[tmp] = disk[tmp]
      /\ r.ok \in BOOLEAN
  BY <1>2, <1>3, Moves
<1>5. ignored' \in BOOLEAN
  BY <1>2
<1>6. CASE ~ whole
  <2>1. file' = file /\ GiveUp
    BY <1>1, <1>6 DEF SavedFlags, NextFile
  <2>2. At' /\ ~ Over' /\ ~ whole' /\ tmp' = None
    BY <2>1, GiveUpAt
  <2>3. TypeOK'
    BY <1>1, <1>3, <1>4, <1>5, <2>1, GiveUpType DEF TypeOK
  <2>4. ASSUME NEW i \in Fn, file[i].st \in {"use", "renamed"} PROVE Home(i)'
    <3>1. whole' = FALSE /\ \A k \in Fn : file'[k] = file[k]
      BY <2>1 DEF GiveUp
    <3> QED BY <1>1, <1>4, <1>6, <2>2, <2>4, <3>1, MoveHome
  <2> QED BY <2>1, <2>2, <2>3, <2>4, SameTable DEF SaveInv, Homes
<1>7. CASE whole
  <2> DEFINE g == [file[cur] EXCEPT !.st = "use", !.can = FALSE, !.mod = FALSE]
  <2>1. pc' = "saves" /\ dest' = None /\ tmp' = None /\ UNCHANGED << cur, whole >>
    BY <1>1, <1>7 DEF NextFile
  <2>2. file[cur] \in File /\ g \in File
    <3>1. file[cur] \in File
      BY <1>3 DEF TypeOK
    <3> QED BY <3>1 DEF File, Status
  <2>3. file' = [file EXCEPT ![cur] = g]
    BY <1>1, <1>3, <1>7, SavedOnly
  <2>4. file' \in [Fn -> File] /\ file'[cur] = g /\ \A k \in Fn : k # cur => file'[k] = file[k]
    BY <1>3, <2>2, <2>3 DEF TypeOK
  <2>5. /\ file'[cur].st = "use" /\ ~ file'[cur].can /\ ~ file'[cur].mod
        /\ file'[cur].name = file[cur].name /\ file'[cur].old = file[cur].old
        /\ file'[cur].base = file[cur].base /\ file'[cur].text = file[cur].text
        /\ file'[cur].was = file[cur].was
    BY <2>2, <2>4 DEF File
  <2>6. \A k \in Fn : k # cur => file'[k] = file[k]
    BY <2>4
  <2>7. TypeOK'
    BY <1>1, <1>3, <1>4, <1>5, <2>1, <2>4 DEF TypeOK, Steps
  <2>8. /\ \A k \in Fn : k # cur /\ file[k].st # "free" => file[k].name # file[cur].name
        /\ \A k \in Fn : file[k].st = "renamed" => file[k].old # file[cur].name
    <3>1. /\ \A k \in Fn : file[k].st = "deleted" => file[k].name # file[cur].name
          /\ \A k \in Fn : file[k].st = "renamed" => file[k].old # file[cur].name
      BY <1>1, <1>3, <1>7 DEF At, AtTmp, AtFile, OfFile, ByTmp
    <3> QED BY <1>3, <1>7, <3>1 DEF NameTable
  <2>9. NameTable'
    BY <1>3, <2>5, <2>6, <2>8 DEF NameTable
  <2>10. OwnBase'
    BY <1>3, <2>5, <2>6 DEF OwnBase
  <2>11. Shape'
    BY <1>3, <1>7, <2>5, <2>6 DEF Shape
  <2>12. At' /\ ~ Over'
    BY <1>7, <2>1 DEF At, AtWhole, AtFile, AtBackup, AtTmp, Over, OfFile, InPlace, ByTmp, HasTmp
  <2>13. \A k \in Fn : file'[k].base = file[k].base
    BY <2>5, <2>6
  <2>14. data[disk[tmp]] = file[cur].text /\ disk[tmp] # None
    BY <1>1, <1>3 DEF At, AtTmp, Alone
  <2>15. IsSaved(cur)'
    <3>1. \A m \in Editable : m # dest => disk'[m] = disk[m] /\ disk[m] # disk[tmp]
      BY <1>3, <1>4, NoneApart DEF Alone
    <3>2. \A k \in Fn : file'[k].base # disk[tmp]
      BY <1>3, <2>13 DEF Alone
    <3>3. ASSUME NEW n \in {dest, tmp}, disk'[n] = disk[tmp] PROVE KeepsText(cur, n)'
      BY <1>1, <1>3, <1>7, <2>1, <2>5, <2>14, <3>1, <3>2, <3>3 DEF KeepsText, Holds
    <3>4. disk'[dest] = disk[tmp] \/ disk'[tmp] = disk[tmp]
      BY <1>4
    <3>5. dest # None /\ tmp # None
      BY <1>3, NoneApart
    <3> QED BY <1>3, <1>7, <2>1, <2>5, <3>3, <3>4, <3>5 DEF IsSaved
  <2>16. ASSUME NEW i \in Fn, file'[i].st \in {"use", "renamed"} PROVE Home(i)'
    <3>1. CASE i = cur
      BY <2>1, <2>15, <3>1 DEF Home
    <3>2. CASE i # cur
      BY <1>1, <1>4, <1>7, <2>1, <2>6, <2>13, <2>16, <3>2, MoveHome
    <3> QED BY <3>1, <3>2
  <2> QED BY <2>7, <2>9, <2>10, <2>11, <2>12, <2>16 DEF SaveInv, Table, Homes
<1> QED BY <1>6, <1>7

-----------------------------------------------------------------------------
(* Every step keeps the invariant. *)

(* Every command, *)
LEMMA CommandKeeps ==
  ASSUME Careful, SaveInv, Command
  PROVE  SaveInv'
<1>1. CASE Exit
  BY <1>1, ExitKeeps
<1>2. ASSUME NEW n \in Editable, EditFile(n) PROVE SaveInv'
  BY <1>2, EditFileKeeps
<1>3. ASSUME NEW i \in Fn, Modify(i) \/ Delete(i) PROVE SaveInv'
  BY <1>3, ModifyKeeps, DeleteKeeps
<1>4. ASSUME NEW i \in Fn, NEW n \in Editable, NameBack(i, n) \/ NameTo(i, n) \/ SaveCommand(i, n)
      PROVE  SaveInv'
  BY <1>4, NameBackKeeps, NameToKeeps, SaveCommandKeeps
<1>5. ASSUME NEW i \in Fn, NEW on \in BOOLEAN, NEW inplace \in BOOLEAN, Update(i, on, inplace)
      PROVE  SaveInv'
  BY <1>5, UpdateKeeps
<1> QED BY <1>1, <1>2, <1>3, <1>4, <1>5 DEF Command

(* every step of saving, *)
LEMMA SaveStepKeeps ==
  ASSUME SaveInv, SaveStep
  PROVE  SaveInv'
<1>1. CASE RemoveBackups \/ StartSave \/ DirCheckFails
  BY <1>1, RemoveBackupsKeeps, StartSaveKeeps, DirCheckFailsKeeps
<1>2. CASE RenameOldest \/ RenameFirst \/ CallFails
  BY <1>2, RenameOldestKeeps, RenameFirstKeeps, CallFailsKeeps
<1>3. CASE UnlinkBackup \/ CreateBackup \/ filecopy \/ la_freplace
  BY <1>3, UnlinkBackupKeeps, CreateBackupKeeps, filecopyKeeps, la_freplaceKeeps
<1>4. CASE TruncateOriginal \/ FlushInPlace
  BY <1>4, TruncateOriginalKeeps, FlushInPlaceKeeps
<1>5. CASE mkstemp \/ FlushTmp \/ UnlinkDeleted
  BY <1>5, mkstempKeeps, FlushTmpKeeps, UnlinkDeletedKeeps
<1>6. CASE MoveToBackup \/ MoveTmp
  BY <1>6, MoveToBackupKeeps, MoveTmpKeeps
<1>7. CASE UnlinkNext \/ RenameNext
  BY <1>7, UnlinkNextKeeps, RenameNextKeeps
<1> QED BY <1>1, <1>2, <1>3, <1>4, <1>5, <1>6, <1>7 DEF SaveStep

(* and doing nothing keep the invariant. *)
LEMMA StutterKeeps ==
  ASSUME SaveInv, UNCHANGED vars
  PROVE  SaveInv'
<1>1. UNCHANGED << disk, data, file, pc, cur, dest, whole, tmp, bound, ignored >>
  BY DEF vars
<1>2. TypeOK'
  BY <1>1 DEF SaveInv, Table, TypeOK
<1>3. Table'
  BY <1>1, <1>2, SameTable
<1>4. At' /\ (Over' <=> Over)
  BY <1>1 DEF SaveInv, At, AtWhole, AtFile, AtBackup, AtTmp, Over, Active, Alone
<1>5. ~ Over => Homes'
  BY <1>1 DEF SaveInv, Homes, Home, ReadsOriginal, ReadsBackup, IsSaved, BeingSaved, KeepsText,
              Holds, DiskName
<1>6. Over => TextSurvives'
  BY <1>1 DEF SaveInv, TextSurvives, Holds
<1> QED BY <1>3, <1>4, <1>5, <1>6 DEF SaveInv

(* The invariant is one of the specification. *)
THEOREM Invariance ==
  ASSUME Careful
  PROVE  Spec => []SaveInv
<1>1. Init => SaveInv
  BY InvInit
<1>2. SaveInv /\ [Next]_vars => SaveInv'
  <2> SUFFICES ASSUME SaveInv, [Next]_vars PROVE SaveInv'
    OBVIOUS
  <2>1. CASE Command
    BY <2>1, CommandKeeps
  <2>2. CASE SaveStep
    BY <2>2, SaveStepKeeps
  <2>3. CASE Crash
    BY <2>3, CrashKeeps
  <2>4. CASE UNCHANGED vars
    BY <2>4, StutterKeeps
  <2> QED BY <2>1, <2>2, <2>3, <2>4 DEF Next
<1> QED BY <1>1, <1>2, PTL DEF Spec

(* Every variable, and every entry of the table of files, has its type, at   *)
(* every step of saving and after every crash.                             *)
THEOREM TypeCorrect ==
  ASSUME Careful
  PROVE  Spec => []TypeOK
<1>1. SaveInv => TypeOK
  BY DEF SaveInv, Table
<1> QED BY <1>1, Invariance, PTL

(* hvname, hvoldname and hvdelname find one file at most: a name is in the   *)
(* table twice only as the comment on fileflags (e.h) allows.              *)
THEOREM NamesOnce ==
  ASSUME Careful
  PROVE  Spec => []NameTable
<1>1. SaveInv => NameTable
  BY DEF SaveInv, Table
<1> QED BY <1>1, Invariance, PTL

(* savefile and saveall never leave the disk without the text of a file, as  *)
(* it was read or as it was edited, whichever call fails and wherever the  *)
(* editor dies.                                                            *)
THEOREM NoTextIsLost ==
  ASSUME Careful
  PROVE  Spec => []TextSurvives
<1>1. SaveInv => TextSurvives
  BY HomesHold DEF SaveInv
<1> QED BY <1>1, Invariance, PTL

(* No stream reads an inode that savefile truncates, and la_freplace turns   *)
(* a stream only to a file that has the very text it read.                 *)
THEOREM NoStreamIsTorn ==
  ASSUME Careful
  PROVE  Spec => []EditorKeeps
<1>1. SaveInv => EditorKeeps
  BY DEF SaveInv, Table, Shape, EditorKeeps
<1> QED BY <1>1, Invariance, PTL

-----------------------------------------------------------------------------
(* No two names that the user edits are links of one file. *)
NoLinks == \A m, n \in Editable : m # n /\ disk[m] = disk[n] => disk[m] = None

-----------------------------------------------------------------------------
(* What a step of saving does to an entry of the table. *)

(* A deleted file is forgotten when its name is taken, or unlinked. *)
Forgets(i) ==
  /\ file[i].st = "deleted" /\ file'[i] = Freed(i)
  /\ \/ pc = "undel" /\ file[i].name = dest
     \/ \E t \in Fn : file[t].st = "renamed" /\ file'[t].st = "use" /\ file[t].name = file[i].name

(* What stays of every other. *)
SameEntry(i) == /\ file'[i].name = file[i].name /\ file'[i].text = file[i].text
                /\ file'[i].was = file[i].was /\ file'[i].upd = file[i].upd

SameFlags(i) == file'[i].can = file[i].can /\ file'[i].mod = file[i].mod

GetsName(i) == /\ pc \in {"renold", "rename", "renames"} /\ whole
               /\ file[i].st = "renamed" /\ file'[i].st = "use"
               /\ SameEntry(i) /\ SameFlags(i) /\ file'[i].base = file[i].base

TurnsToBackup(i) == /\ pc = "freplace" /\ i = cur /\ file[i].st = "use" /\ file'[i].st = "use"
                    /\ SameEntry(i) /\ SameFlags(i) /\ file[i].mod
                    /\ file'[i].base # None

IsDone(i) == /\ pc \in {"flush", "mvtemp"} /\ i = cur /\ whole /\ pc' = "saves" /\ cur' = cur
             /\ file'[i].st = "use" /\ ~ file'[i].can /\ ~ file'[i].mod
             /\ SameEntry(i) /\ file'[i].base = file[i].base

EntryStep(i) == file'[i] = file[i] \/ Forgets(i) \/ GetsName(i) \/ TurnsToBackup(i) \/ IsDone(i)

(* A file gets its new name, or the saving is given up. *)
LEMMA svrenameEntries ==
  ASSUME SaveInv, whole, pc \in {"renold", "rename", "renames"}, NEW t \in Fn,
         file[t].st = "renamed", NEW next, svrename(t, next), NEW i \in Fn
  PROVE  EntryStep(i)
<1>1. ~ Over
  BY DEF Over
<1>2. PICK r \in mv(disk, file[t].old, file[t].name) :
        /\ r.ok \in BOOLEAN
        /\ ~ r.ok => file' = file
        /\ r.ok => /\ file'[t].st = "use" /\ file'[t].name = file[t].name
                   /\ file'[t].base = file[t].base /\ file'[t].text = file[t].text
                   /\ file'[t].was = file[t].was /\ file'[t].can = file[t].can
                   /\ file'[t].mod = file[t].mod /\ file'[t].upd = file[t].upd
                   /\ \A k \in Fn : k # t =>
                        IF file[k].st = "deleted" /\ file[k].name = file[t].name
                          THEN file'[k] = Freed(k) ELSE file'[k] = file[k]
  BY <1>1, svrenameTable
<1>3. CASE ~ r.ok
  BY <1>2, <1>3 DEF EntryStep
<1>4. CASE r.ok /\ i = t
  BY <1>2, <1>4 DEF EntryStep, GetsName, SameEntry, SameFlags
<1>5. CASE r.ok /\ i # t
  BY <1>2, <1>5 DEF EntryStep, Forgets
<1> QED BY <1>2, <1>3, <1>4, <1>5

(* The flags that savefile sets when the file is saved. *)
LEMMA SavedEntry ==
  ASSUME SaveInv, pc \in {"flush", "mvtemp"}, file' = SavedFlags(cur), NextFile, NEW i \in Fn
  PROVE  /\ EntryStep(i)
         /\ whole => pc' = "saves" /\ IsDone(cur)
         /\ ~ whole => file' = file /\ GiveUp
<1> DEFINE g == [file[cur] EXCEPT !.st = "use", !.can = FALSE, !.mod = FALSE]
<1>1. file \in [Fn -> File] /\ cur \in Fn
  BY AtByTmp, AtInPlace DEF InPlace, ByTmp, TypeOK
<1>2. CASE ~ whole
  BY <1>2 DEF SavedFlags, NextFile, EntryStep
<1>3. CASE whole
  <2>1. file[cur] \in File /\ g \in File
    BY <1>1, ZenonT(45) DEF File, Status
  <2>2. file' = [file EXCEPT ![cur] = g]
    BY <1>1, <1>3, SavedOnly DEF SaveInv, Table
  <2>3. file'[cur] = g /\ \A k \in Fn : k # cur => file'[k] = file[k]
    BY <1>1, <2>1, <2>2
  <2>4. SameEntry(cur) /\ file'[cur].base = file[cur].base /\ file'[cur].st = "use"
        /\ ~ file'[cur].can /\ ~ file'[cur].mod
    BY <2>1, <2>3 DEF File, SameEntry
  <2>5. pc' = "saves" /\ cur' = cur
    BY <1>3 DEF NextFile
  <2>6. IsDone(cur)
    BY <1>3, <2>4, <2>5 DEF IsDone
  <2> QED BY <1>3, <2>3, <2>5, <2>6 DEF EntryStep
<1> QED BY <1>2, <1>3

(* The steps that rename call svrename, or do nothing. *)
LEMMA RenameSteps ==
  ASSUME SaveInv, RenameOldest \/ RenameFirst \/ RenameNext
  PROVE  /\ whole /\ pc \in {"renold", "rename", "renames"}
         /\ \/ \E t \in Fn, next \in {"rename", "unbak", "mkstemp", "renames"} :
                 /\ file[t].st = "renamed" /\ svrename(t, next)
                 /\ pc = "renames" <=> next = "renames"
            \/ /\ UNCHANGED << disk, data, file, cur, dest, whole, tmp, bound, ignored >>
               /\ \/ pc # "renames" /\ pc' \in {"rename", "unbak", "mkstemp"}
                  \/ pc = "renames" /\ pc' = "gone" /\ NextWith("renamed") = 0
<1>1. pc \in {"renold", "rename", "renames"}
  BY DEF RenameOldest, RenameFirst, RenameNext
<1>2. whole /\ (pc = "rename" => cur \in Fn)
  BY <1>1, AtRename DEF SaveInv, At, AtWhole
<1>3. CASE RenameOldest
  BY <1>1, <1>2, <1>3, Found DEF RenameOldest, Skip
<1>4. CASE RenameFirst
  <2>1. PICK next \in {"unbak", "mkstemp"} : next = IF file[cur].inplace THEN "unbak" ELSE "mkstemp"
    OBVIOUS
  <2> QED BY <1>1, <1>2, <1>4, <2>1 DEF RenameFirst, Skip
<1>5. CASE RenameNext
  BY <1>1, <1>2, <1>5, FoundNext DEF RenameNext, Skip
<1> QED BY <1>3, <1>4, <1>5

(* No step of saving does more. *)
LEMMA TableStep ==
  ASSUME SaveInv, SaveStep, NEW i \in Fn
  PROVE  EntryStep(i)
<1>1. CASE file' = file
  BY <1>1 DEF EntryStep
<1>2. CASE RenameOldest \/ RenameFirst \/ RenameNext
  BY <1>1, <1>2, RenameSteps, svrenameEntries
<1>3. CASE la_freplace
  <2>1. /\ pc = "freplace" /\ cur \in Fn /\ file'[cur] = [file[cur] EXCEPT !.base = disk[Bak[dest]]]
        /\ \A k \in Fn : k # cur => file'[k] = file[k]
    BY <1>3, la_freplaceText
  <2>2. file[cur] \in File /\ file[cur].st = "use" /\ file[cur].mod
    BY <2>1, AtInPlace DEF InPlace, TypeOK
  <2>3. disk[Bak[dest]] # None
    BY <2>1 DEF SaveInv, At, AtBackup, Alone
  <2>4. TurnsToBackup(cur)
    BY <2>1, <2>2, <2>3, ZenonT(45) DEF TurnsToBackup, SameEntry, SameFlags, File
  <2> QED BY <2>1, <2>4 DEF EntryStep
<1>4. CASE TruncateOriginal
  BY <1>1, <1>4, TruncateKeepsTable
<1>5. CASE FlushInPlace \/ MoveTmp
  BY <1>5, SavedEntry DEF FlushInPlace, MoveTmp
<1>6. CASE UnlinkDeleted
  <2>1. pc = "undel" /\ file' = FreeDeleted(file, dest)
    BY <1>6 DEF UnlinkDeleted
  <2>2. dest \in Editable /\ file \in [Fn -> File]
    BY <2>1, AtByTmp DEF ByTmp, TypeOK
  <2> QED BY <2>1, <2>2, Forgotten DEF EntryStep, Forgets
<1>7. CASE RemoveBackups \/ StartSave \/ DirCheckFails \/ CallFails \/ UnlinkBackup \/ CreateBackup
           \/ filecopy \/ mkstemp \/ FlushTmp \/ MoveToBackup \/ UnlinkNext
  BY <1>1, <1>7 DEF RemoveBackups, StartSave, DirCheckFails, CallFails, UnlinkBackup, CreateBackup,
                    filecopy, mkstemp, FlushTmp, MoveToBackup, UnlinkNext
<1> QED BY <1>2, <1>3, <1>4, <1>5, <1>6, <1>7 DEF SaveStep

-----------------------------------------------------------------------------
(* What a step of saving does to the disk. *)

(* Nothing is written where a file reads, or where a name leads that the     *)
(* user knows, but the file that is saved in place.                        *)
LEMMA DataStep ==
  ASSUME SaveInv, SaveStep, NEW x \in Inode
  PROVE  \/ data'[x] = data[x]
         \/ /\ \A k \in Fn : file[k].base # x
            /\ \/ \A n \in Editable : disk[n] # x
               \/ pc \in {"creat", "flush"} /\ disk[dest] = x
<1>1. CASE data' = data
  BY <1>1
<1>2. TypeOK /\ data \in [Inode -> Text]
  BY DEF SaveInv, Table, TypeOK
<1>3. CASE CreateBackup
  <2>1. pc = "creatbak" /\ data' = [data EXCEPT ![First(Unused(disk))] = Torn]
    BY <1>3 DEF CreateBackup
  <2>2. Bak[dest] \in Name /\ disk[Bak[dest]] = None
    BY <2>1, AtInPlace DEF InPlace, SaveInv, At, AtBackup
  <2>3. /\ \A n \in Name : disk[n] # First(Unused(disk))
        /\ \A k \in Fn : file[k].base # First(Unused(disk))
    BY <1>2, <2>2, FreshInode
  <2> QED BY <1>2, <2>1, <2>3, NoneApart
<1>4. CASE mkstemp
  <2>1. PICK t \in Tmp : disk[t] = None
    BY <1>4 DEF mkstemp
  <2>2. data' = [data EXCEPT ![First(Unused(disk))] = Torn]
    BY <1>4 DEF mkstemp
  <2>3. /\ \A n \in Name : disk[n] # First(Unused(disk))
        /\ \A k \in Fn : file[k].base # First(Unused(disk))
    BY <1>2, <2>1, FreshInode, NoneApart
  <2> QED BY <1>2, <2>2, <2>3, NoneApart
<1>5. CASE filecopy
  <2>1. pc = "copybak" /\ data' = [data EXCEPT ![disk[Bak[dest]]] = data[disk[dest]]]
    BY <1>5 DEF filecopy
  <2>2. Alone(Bak[dest]) /\ Bak[dest] \notin Editable
    BY <2>1, AtInPlace DEF InPlace, SaveInv, At, AtBackup
  <2> QED BY <1>2, <2>1, <2>2, NoneApart DEF Alone
<1>6. CASE FlushTmp
  <2>1. pc = "tflush" /\ data' = [data EXCEPT ![disk[tmp]] = file[cur].text]
    BY <1>6 DEF FlushTmp
  <2>2. Alone(tmp) /\ tmp \notin Editable
    BY <2>1, AtByTmp, NoneApart DEF ByTmp
  <2> QED BY <1>2, <2>1, <2>2, NoneApart DEF Alone
<1>7. CASE TruncateOriginal \/ FlushInPlace
  <2>1. pc \in {"creat", "flush"} /\ \E v : data' = [data EXCEPT ![disk[dest]] = v]
    BY <1>7 DEF TruncateOriginal, FlushInPlace
  <2>2. \A k \in Fn : file[k].base # disk[dest]
    BY <2>1, AtCreat
  <2> QED BY <1>2, <2>1, <2>2
<1>8. CASE RenameOldest \/ RenameFirst \/ RenameNext
  BY <1>1, <1>8, RenameSteps DEF svrename
<1>9. CASE RemoveBackups \/ StartSave \/ DirCheckFails \/ CallFails \/ UnlinkBackup \/ la_freplace
           \/ UnlinkDeleted \/ MoveToBackup \/ MoveTmp \/ UnlinkNext
  BY <1>1, <1>9 DEF RemoveBackups, StartSave, DirCheckFails, CallFails, UnlinkBackup, la_freplace,
                    UnlinkDeleted, MoveToBackup, MoveTmp, UnlinkNext
<1> QED BY <1>3, <1>4, <1>5, <1>6, <1>7, <1>8, <1>9 DEF SaveStep

(* The names that the renaming of a file changes. *)
LEMMA svrenameNames ==
  ASSUME SaveInv, NEW t \in Fn, file[t].st = "renamed", NEW next, svrename(t, next)
  PROVE  /\ file[t].old \in Editable /\ file[t].name \in Editable /\ file[t].old # file[t].name
         /\ \A n \in Name \ {file[t].old, file[t].name} : disk'[n] = disk[n]
<1>1. /\ TypeOK /\ file[t].old \in Editable /\ file[t].name \in Editable /\ file[t].old # file[t].name
  BY DEF SaveInv, Table, Shape, TypeOK, File
<1>2. PICK r \in mv(disk, file[t].old, file[t].name) : disk' = r.disk
  BY DEF svrename
<1> QED BY <1>1, <1>2, Moves, NoneApart

(* The steps that change one name, and no other. *)
OneName(s) ==
  \/ \E e \in Fn : pc = "baks" /\ Eligible(e) /\ s = Bak[file[e].name]
  \/ pc \in InPlace \cup ByTmp /\ s = Bak[dest]
  \/ pc \in ByTmp /\ s \in Tmp
  \/ pc \in {"undel", "mvbak", "mvtemp"} /\ s = dest
  \/ \E k \in Fn : pc = "deletes" /\ file[k].st = "deleted" /\ s = file[k].name
  \/ \E t \in Fn : pc \in {"renold", "rename", "renames"} /\ whole /\ file[t].st = "renamed"
                   /\ s \in {file[t].old, file[t].name}

(* Each step of saving changes names of its own kind only. *)
LEMMA NameStep ==
  ASSUME SaveInv, SaveStep, NEW n \in Name, disk'[n] # disk[n]
  PROVE  OneName(n)
<1>1. TypeOK /\ disk \in [Name -> Inode \cup {None}]
  BY DEF SaveInv, Table, TypeOK
<1>2. CASE RemoveBackups
  BY <1>1, <1>2, FoundNext DEF RemoveBackups, Unlink, OneName
<1>3. CASE RenameOldest \/ RenameFirst \/ RenameNext
  <2>1. PICK t \in Fn, next \in {"rename", "unbak", "mkstemp", "renames"} :
               file[t].st = "renamed" /\ svrename(t, next)
    BY <1>3, RenameSteps
  <2> QED BY <1>3, <2>1, RenameSteps, svrenameNames DEF OneName
<1>4. CASE UnlinkNext
  BY <1>1, <1>4, FoundNext DEF UnlinkNext, Unlink, OneName
<1>5. CASE UnlinkDeleted
  BY <1>1, <1>5 DEF UnlinkDeleted, Unlink, OneName
<1>6. CASE MoveToBackup
  <2>1. pc = "mvbak" /\ \E r \in mv(disk, dest, Bak[dest]) : disk' = r.disk
    BY <1>6 DEF MoveToBackup
  <2>2. dest \in Editable
    BY <2>1, AtByTmp DEF ByTmp
  <2>3. n \in {dest, Bak[dest]}
    BY <1>1, <2>1, <2>2, Moves, NoneApart
  <2> QED BY <2>1, <2>3 DEF OneName, ByTmp
<1>7. CASE MoveTmp
  <2>1. pc = "mvtemp" /\ \E r \in mv(disk, tmp, dest) : disk' = r.disk
    BY <1>7 DEF MoveTmp
  <2>2. dest \in Editable /\ tmp \in Tmp
    BY <2>1, AtByTmp DEF ByTmp
  <2>3. n \in {dest, tmp}
    BY <1>1, <2>1, <2>2, Moves, NoneApart
  <2> QED BY <2>1, <2>2, <2>3 DEF OneName, ByTmp
<1>8. CASE mkstemp
  BY <1>1, <1>8 DEF mkstemp, OneName, ByTmp
<1>9. CASE CallFails
  <2>1. \/ pc = "copybak" /\ disk' = Unlink(disk, Bak[dest])
        \/ pc = "tflush" /\ disk' = Unlink(disk, tmp)
    BY <1>9 DEF CallFails
  <2>2. pc = "tflush" => tmp \in Tmp
    BY AtByTmp DEF ByTmp
  <2> QED BY <1>1, <2>1, <2>2 DEF Unlink, OneName, InPlace, ByTmp
<1>10. CASE UnlinkBackup \/ CreateBackup
  BY <1>1, <1>10 DEF UnlinkBackup, CreateBackup, Unlink, OneName, InPlace
<1>11. CASE StartSave \/ DirCheckFails \/ filecopy \/ la_freplace \/ TruncateOriginal \/ FlushInPlace \/ FlushTmp
  BY <1>11 DEF StartSave, DirCheckFails, filecopy, la_freplace, TruncateOriginal, FlushInPlace, FlushTmp
<1> QED BY <1>2, <1>3, <1>4, <1>5, <1>6, <1>7, <1>8, <1>9, <1>10, <1>11 DEF SaveStep

-----------------------------------------------------------------------------
(* A file that has been saved is left alone. *)

Saved(i) == file[i].st = "use" /\ ~ file[i].can

(* It is none of those that are being saved. *)
LEMMA SavedApart ==
  ASSUME SaveInv, NEW i \in Fn, Saved(i)
  PROVE  /\ file[i].name \in Editable /\ ~ Eligible(i)
         /\ \A e \in Fn : Eligible(e) => file[e].name # file[i].name
         /\ \A k \in Fn : file[k].st = "deleted" => file[k].name # file[i].name
         /\ \A t \in Fn : file[t].st = "renamed" => file[t].old # file[i].name /\ file[t].name # file[i].name
         /\ pc \in OfFile => dest # file[i].name /\ dest \in Editable
         /\ pc \in OfFile /\ whole => i # cur
<1>1. Shape /\ TypeOK /\ NameTable
  BY DEF SaveInv, Table
<1>2. file[i].name \in Editable /\ ~ file[i].mod /\ ~ Eligible(i)
  BY <1>1 DEF Shape, TypeOK, File, Saved, Eligible
<1>3. \A e \in Fn : Active(e) /\ e # i => file[e].name # file[i].name
  BY NamesApart DEF Active, Saved
<1>4. \A t \in Fn : /\ file[t].st = "deleted" => file[t].name # file[i].name
                    /\ file[t].st = "renamed" => file[t].old # file[i].name /\ file[t].name # file[i].name
  BY <1>3, NamesApart DEF DiskName, Saved, Active
<1>5. ASSUME pc \in OfFile
      PROVE  dest # file[i].name /\ dest \in Editable /\ (whole => i # cur)
  <2>1. /\ cur \in Fn /\ dest # None /\ Active(cur)
        /\ whole => dest = file[cur].name /\ file[cur].mod
        /\ ~ whole => \A k \in Fn : file[k].st # "free" => file[k].name # dest
    BY <1>5 DEF SaveInv, At, AtFile
  <2>2. dest \in Editable
    BY <1>1, <2>1 DEF TypeOK
  <2> QED BY <1>2, <1>3, <2>1, <2>2 DEF Saved
<1> QED BY <1>2, <1>3, <1>4, <1>5 DEF Eligible

(* Nothing of it changes while others are saved. *)
LEMMA SavedStays ==
  ASSUME SaveInv, SaveStep, NEW i \in Fn, Saved(i)
  PROVE  /\ file'[i] = file[i]
         /\ disk'[file[i].name] = disk[file[i].name]
         /\ disk'[Bak[file[i].name]] = disk[Bak[file[i].name]]
         /\ file[i].base # None => data'[file[i].base] = data[file[i].base]
         /\ NoLinks /\ disk[file[i].name] # None => data'[disk[file[i].name]] = data[disk[file[i].name]]
<1> DEFINE n == file[i].name
<1>1. n \in Editable /\ n \in Name /\ Bak[n] \in Name
  BY SavedApart, NoneApart
<1>2. file'[i] = file[i]
  <2>1. EntryStep(i)
    BY TableStep
  <2>2. ~ Forgets(i) /\ ~ GetsName(i)
    BY DEF Forgets, GetsName, Saved
  <2>3. ~ TurnsToBackup(i) /\ ~ IsDone(i)
    BY SavedApart DEF TurnsToBackup, IsDone, OfFile, InPlace, ByTmp, SaveInv, Table, Shape, Saved
  <2> QED BY <2>1, <2>2, <2>3 DEF EntryStep
<1>3. ~ OneName(n)
  <2>1. n \notin Tmp /\ \A m \in Editable : n # Bak[m]
    BY <1>1, NoneApart
  <2>2. \A e \in Fn : Eligible(e) => file[e].name \in Editable
    BY DEF Eligible, Active, SaveInv, Table, Shape, TypeOK, File
  <2> QED BY <2>1, <2>2, SavedApart DEF OneName, OfFile, InPlace, ByTmp
<1>4. ~ OneName(Bak[n])
  <2>1. Bak[n] \notin Tmp /\ Bak[n] \notin Editable /\ \A m \in Editable : Bak[m] = Bak[n] => m = n
    BY <1>1, NoneApart
  <2>2. \A e \in Fn : file[e].st # "free" => file[e].name \in Editable
    BY DEF SaveInv, Table, Shape, TypeOK, File
  <2>3. \A t \in Fn : file[t].st = "renamed" => file[t].old \in Editable
    BY DEF SaveInv, Table, Shape, TypeOK, File
  <2> QED BY <2>1, <2>2, <2>3, SavedApart DEF OneName, OfFile, InPlace, ByTmp, Eligible, Active
<1>5. disk'[n] = disk[n] /\ disk'[Bak[n]] = disk[Bak[n]]
  BY <1>1, <1>3, <1>4, NameStep
<1>6. file[i].base # None => data'[file[i].base] = data[file[i].base]
  <2>1. file[i].base \in Inode \cup {None}
    BY DEF SaveInv, Table, TypeOK, File
  <2> QED BY <2>1, DataStep
<1>7. NoLinks /\ disk[n] # None => data'[disk[n]] = data[disk[n]]
  <2>1. disk[n] \in Inode \cup {None}
    BY <1>1 DEF SaveInv, Table, TypeOK
  <2>2. NoLinks /\ disk[n] # None /\ pc \in {"creat", "flush"} => disk[dest] # disk[n]
    BY <1>1, SavedApart DEF NoLinks, OfFile, InPlace
  <2> QED BY <1>1, <2>1, <2>2, DataStep
<1> QED BY <1>2, <1>5, <1>6, <1>7

-----------------------------------------------------------------------------
(* What a command does to an entry of the table. *)

Opens(i) == /\ file[i].st = "free" /\ file'[i].st \in {"new", "use"} /\ file'[i].can
            /\ file'[i].base = None => file'[i].was = 0
            /\ file'[i].text = file'[i].was

Edits(i) == /\ file[i].can /\ file'[i].can /\ file'[i].mod /\ file'[i].st = file[i].st
            /\ file'[i].name = file[i].name /\ file'[i].base = file[i].base
            /\ file'[i].was = file[i].was

(* The new name of a file that was on the disk is free there, or will be. *)
Names(i) ==
  /\ file[i].can /\ file'[i].st \in {"use", "new", "renamed"}
  /\ file'[i].st # "new" => file[i].st \in {"use", "renamed"}
  /\ SameFlags(i) /\ file'[i].text = file[i].text /\ file'[i].was = file[i].was
  /\ file'[i].base = file[i].base
  /\ file'[i].st = "renamed" =>
       \/ disk[file'[i].name] = None
       \/ \E k \in Fn : file[k].st = "deleted" /\ file[k].name = file'[i].name

(* A new file is gone; another keeps what it reads. *)
Drops(i) == /\ file'[i].st \in {"free", "deleted"} /\ ~ file'[i].can
            /\ \/ file'[i].was = 0
               \/ file'[i].was = file[i].was /\ file'[i].base = file[i].base

Updates(i) == /\ SameFlags(i) /\ file'[i].st = file[i].st /\ file'[i].name = file[i].name
              /\ file'[i].text = file[i].text /\ file'[i].was = file[i].was
              /\ file'[i].base = file[i].base

CommandEntry(i) == \/ file'[i] = file[i]
                   \/ Opens(i)
                   \/ Active(i) /\ (Edits(i) \/ Names(i) \/ Drops(i) \/ Updates(i))

(* A command changes one entry, in one of these ways. *)
LEMMA CommandEntries ==
  ASSUME Careful, SaveInv, Command, NEW i \in Fn
  PROVE  CommandEntry(i)
<1>1. TypeOK /\ Shape /\ file \in [Fn -> File] /\ file[i] \in File
  BY DEF SaveInv, Table, TypeOK
<1>2. CASE file' = file
  BY <1>2 DEF CommandEntry
<1>3. ASSUME NEW n \in Editable, EditFile(n) PROVE CommandEntry(i)
  <2> DEFINE held == hvoldname(n) # 0 \/ hvdelname(n) # 0
             newfn == First({k \in Fn : file[k].st = "free"})
             laf == la_ffopen(disk[n])
             named == [NoFile EXCEPT !.name = n, !.can = TRUE, !.upd = TRUE, !.las = TRUE]
             new == [named EXCEPT !.st = "new"]
             read == [named EXCEPT !.st = "use", !.base = disk[n], !.mod = laf.mod,
                                   !.text = laf.text, !.was = laf.was]
  <2>1. newfn \in Fn /\ file[newfn].st = "free"
    BY <1>3, FreeSlot DEF EditFile
  <2>2. file' = [file EXCEPT ![newfn] = IF held \/ disk[n] = None THEN new ELSE read]
    BY <1>3 DEF EditFile
  <2>3. /\ new.st = "new" /\ new.can /\ new.was = 0 /\ new.text = 0
        /\ read.st = "use" /\ read.can /\ read.base = disk[n]
        /\ read.text = laf.text /\ read.was = laf.was
    BY DEF NoFile
  <2>4. \A k \in Fn : k # newfn => file'[k] = file[k]
    BY <1>1, <2>1, <2>2
  <2>5. CASE held \/ disk[n] = None
    <3>1. file'[newfn] = new
      BY <1>1, <2>1, <2>2, <2>5
    <3>2. Opens(newfn)
      BY <2>1, <2>3, <3>1 DEF Opens
    <3> QED BY <2>4, <3>2 DEF CommandEntry
  <2>6. CASE ~ (held \/ disk[n] = None)
    <3>1. file'[newfn] = read
      BY <1>1, <2>1, <2>2, <2>6
    <3>2. laf.text = laf.was
      BY <1>3, <2>6 DEF EditFile, la_ffopen, Careful
    <3>3. Opens(newfn)
      BY <2>1, <2>3, <2>6, <3>1, <3>2 DEF Opens
    <3> QED BY <2>4, <3>3 DEF CommandEntry
  <2> QED BY <2>5, <2>6
<1>4. ASSUME NEW k \in Fn, Modify(k) PROVE CommandEntry(i)
  <2> DEFINE g == [file[k] EXCEPT !.text = bound.texts + 1, !.mod = TRUE]
  <2>1. file[k] \in File /\ Active(k) /\ file[k].can
    BY <1>1, <1>4 DEF Modify
  <2>2. file' = [j \in Fn |-> IF j = k THEN g ELSE file[j]]
    BY <1>4, OneStream DEF Modify, SaveInv, Table
  <2>3. file'[k] = g /\ \A j \in Fn : j # k => file'[j] = file[j]
    BY <1>1, <2>2
  <2>4. Edits(k)
    BY <2>1, <2>3 DEF Edits, File
  <2> QED BY <2>1, <2>3, <2>4 DEF CommandEntry
<1>5. ASSUME NEW k \in Fn, Delete(k) PROVE CommandEntry(i)
  <2>1. Active(k) /\ OwnBase
    BY <1>5 DEF Delete, SaveInv, Table
  <2>2. file' = [file EXCEPT ![k] = Deleted(k)]
    BY <1>1, <1>5, <2>1, DeletedStep
  <2>3. file'[k] = Deleted(k) /\ \A j \in Fn : j # k => file'[j] = file[j]
    BY <1>1, <2>2
  <2>4. Drops(k)
    BY <1>1, <2>3, DeletedShape DEF Drops
  <2> QED BY <2>1, <2>3, <2>4 DEF CommandEntry
<1>6. ASSUME NEW k \in Fn, NEW n \in Editable, NameBack(k, n) PROVE CommandEntry(i)
  <2> DEFINE g == [file[k] EXCEPT !.name = n, !.old = None, !.st = "use"]
  <2>1. file[k] \in File /\ file[k].st = "renamed" /\ file[k].can
    BY <1>1, <1>6 DEF NameBack, Shape
  <2>2. file' = [file EXCEPT ![k] = g]
    BY <1>1, <1>6, <2>1 DEF NameBack, File
  <2>3. file'[k] = g /\ \A j \in Fn : j # k => file'[j] = file[j]
    BY <1>1, <2>2
  <2>4. Names(k)
    BY <2>1, <2>3, ZenonT(45) DEF Names, SameFlags, File
  <2> QED BY <2>1, <2>3, <2>4 DEF CommandEntry, Active
<1>7. ASSUME NEW k \in Fn, NEW n \in Editable, NameTo(k, n) PROVE CommandEntry(i)
  <2> DEFINE f == file[k]
             g == [f EXCEPT !.name = n, !.old = f.name, !.st = "renamed"]
             h == [f EXCEPT !.name = n]
  <2>1. f \in File /\ Active(k) /\ f.can
    BY <1>1, <1>7 DEF NameTo
  <2>2. file' = [file EXCEPT ![k] = IF f.st = "use" THEN g ELSE h]
    BY <1>7 DEF NameTo
  <2>3. /\ file'[k] = IF f.st = "use" THEN g ELSE h
        /\ \A j \in Fn : j # k => file'[j] = file[j]
    BY <1>1, <2>2
  <2>4. f.st # "new" =>
          \/ disk[n] = None
          \/ \E j \in Fn : file[j].st = "deleted" /\ file[j].name = n
    BY <1>7, Found DEF Careful, NameTo, NameFree, OnDiskOnly
  <2>5. g.st = "renamed" /\ g.name = n /\ g.can = f.can /\ g.mod = f.mod /\ g.text = f.text
        /\ g.was = f.was /\ g.base = f.base
    BY <2>1 DEF File
  <2>6. h.st = f.st /\ h.name = n /\ h.can = f.can /\ h.mod = f.mod /\ h.text = f.text
        /\ h.was = f.was /\ h.base = f.base
    BY <2>1 DEF File
  <2>7. CASE f.st = "use"
    <3>1. file'[k] = g
      BY <2>3, <2>7
    <3> HIDE DEF g
    <3>2. Names(k)
      BY <2>1, <2>4, <2>5, <2>7, <3>1 DEF Names, SameFlags
    <3> QED BY <2>1, <2>3, <3>2 DEF CommandEntry
  <2>8. CASE f.st # "use"
    <3>1. file'[k] = h
      BY <2>3, <2>8
    <3> HIDE DEF h
    <3>2. Names(k)
      BY <2>1, <2>4, <2>6, <2>8, <3>1 DEF Names, SameFlags, Active
    <3> QED BY <2>1, <2>3, <3>2 DEF CommandEntry
  <2> QED BY <2>7, <2>8
<1>8. ASSUME NEW k \in Fn, NEW on \in BOOLEAN, NEW inplace \in BOOLEAN, Update(k, on, inplace)
      PROVE  CommandEntry(i)
  <2> DEFINE g == [file[k] EXCEPT !.upd = on, !.inplace = IF on THEN inplace ELSE file[k].inplace]
  <2>1. file[k] \in File /\ Active(k)
    BY <1>1, <1>8 DEF Update
  <2>2. file' = [file EXCEPT ![k] = g]
    BY <1>1, <1>8, <2>1 DEF Update, File
  <2>3. file'[k] = g /\ \A j \in Fn : j # k => file'[j] = file[j]
    BY <1>1, <2>2
  <2>4. Updates(k)
    BY <2>1, <2>3 DEF Updates, SameFlags, File
  <2> QED BY <2>1, <2>3, <2>4 DEF CommandEntry
<1>9. ASSUME Exit \/ \E k \in Fn, n \in Editable : SaveCommand(k, n) PROVE CommandEntry(i)
  BY <1>2, <1>9 DEF Exit, SaveCommand
<1> QED BY <1>3, <1>4, <1>5, <1>6, <1>7, <1>8, <1>9 DEF Command

(* Nothing else changes. *)
LEMMA CommandElse ==
  ASSUME Command
  PROVE  /\ UNCHANGED << disk, data, ignored >> /\ pc = "edit"
         /\ \/ pc' \in {"edit", "baks"}
            \/ pc' = "mkstemp" /\ ~ whole'
BY ZenonT(45) DEF Command, Exit, EditFile, Modify, Delete, NameBack, NameTo, SaveCommand, Update

-----------------------------------------------------------------------------
(* What the editor has read, and the backups. *)

(* A file that is not changed shows what it has read, and one that was not   *)
(* read is new.                                                            *)
AsReadOf(i) ==
  /\ file[i].base = None => file[i].was = 0
  /\ file[i].st \in {"use", "renamed"} /\ file[i].can /\ ~ file[i].mod => file[i].text = file[i].was

AsRead == \A i \in Fn : AsReadOf(i)

(* The stream of a saved file reads its backup, in which the text is as it   *)
(* was read, and this is so for the one that is about to be saved.         *)
Copied(i, n) == file[i].was # 0 => /\ file[i].base # None
                                   /\ disk[Bak[n]] = file[i].base
                                   /\ data[file[i].base] = file[i].was

Copies == /\ \A i \in Fn : Saved(i) => Copied(i, file[i].name)
          /\ pc = "mvtemp" /\ whole => Copied(cur, dest)

BackedUp == ~ ignored => Copies

(* Before anything is opened it holds. *)
LEMMA AsReadInit == Init => AsRead
BY DEF Init, AsRead, AsReadOf, NoFile

(* No step changes what was read but one that reads, and one that edits. *)
LEMMA AsReadStep ==
  ASSUME Careful, SaveInv, AsRead, [Next]_vars
  PROVE  AsRead'
<1> SUFFICES ASSUME NEW i \in Fn PROVE AsReadOf(i)'
  BY DEF AsRead
<1>1. AsReadOf(i)
  BY DEF AsRead
<1>2. CASE Command
  <2>1. CommandEntry(i) /\ Shape
    BY <1>2, CommandEntries DEF SaveInv, Table
  <2> QED BY <1>1, <2>1
       DEF AsReadOf, CommandEntry, Opens, Edits, Names, Drops, Updates, SameFlags, Active, Shape
<1>3. CASE SaveStep
  <2>1. EntryStep(i)
    BY <1>3, TableStep
  <2>2. Freed(i).base = file[i].base /\ Freed(i).was = file[i].was /\ Freed(i).st = "free"
    BY FreedShape DEF SaveInv, Table
  <2> QED BY <1>1, <2>1, <2>2
       DEF AsReadOf, EntryStep, Forgets, GetsName, TurnsToBackup, IsDone, SameEntry, SameFlags
<1>4. CASE Crash \/ UNCHANGED vars
  <2>1. file' = file
    BY <1>4 DEF Crash, vars
  <2> QED BY <1>1, <2>1 DEF AsReadOf
<1> QED BY <1>2, <1>3, <1>4 DEF Next

(* Only a command gives the user the right to change a file. *)
LEMMA SavedBefore ==
  ASSUME Careful, SaveInv, Command, NEW i \in Fn, Saved(i)'
  PROVE  /\ Saved(i) /\ file'[i].name = file[i].name /\ file'[i].text = file[i].text
         /\ file'[i].was = file[i].was /\ file'[i].base = file[i].base
<1>1. CommandEntry(i)
  BY CommandEntries
<1> QED BY <1>1
     DEF Saved, CommandEntry, Opens, Edits, Names, Drops, Updates, SameFlags

(* A file becomes a saved one only when savefile has done with it. *)
LEMMA BecomesSaved ==
  ASSUME SaveInv, SaveStep, NEW i \in Fn, Saved(i)'
  PROVE  Saved(i) \/ IsDone(i)
<1>1. EntryStep(i) /\ Shape
  BY TableStep DEF SaveInv, Table
<1>2. Freed(i).st = "free"
  BY FreedShape DEF SaveInv, Table
<1> QED BY <1>1, <1>2
     DEF Saved, EntryStep, Forgets, GetsName, TurnsToBackup, SameFlags, Shape

(* What is ignored stays ignored. *)
LEMMA StaysIgnored ==
  ASSUME SaveInv, [Next]_vars, ~ ignored'
  PROVE  ~ ignored
<1>1. ignored \in BOOLEAN
  BY DEF SaveInv, Table, TypeOK
<1>2. CASE Command
  BY <1>2, CommandElse
<1>3. CASE RenameOldest \/ RenameFirst \/ RenameNext
  BY <1>3, RenameSteps DEF svrename
<1>4. CASE MoveToBackup \/ MoveTmp
  BY <1>1, <1>4 DEF MoveToBackup, MoveTmp
<1>5. CASE RemoveBackups \/ StartSave \/ DirCheckFails \/ CallFails \/ UnlinkBackup \/ CreateBackup
           \/ filecopy \/ la_freplace \/ TruncateOriginal \/ FlushInPlace \/ mkstemp \/ FlushTmp
           \/ UnlinkDeleted \/ UnlinkNext
  BY <1>5 DEF RemoveBackups, StartSave, DirCheckFails, CallFails, UnlinkBackup, CreateBackup,
              filecopy, la_freplace, TruncateOriginal, FlushInPlace, mkstemp, FlushTmp,
              UnlinkDeleted, UnlinkNext
<1>6. CASE Crash \/ UNCHANGED vars
  BY <1>6 DEF Crash, vars
<1> QED BY <1>2, <1>3, <1>4, <1>5, <1>6 DEF Next, SaveStep

(* Until its own move, the file that is being saved reads its original. *)
LEMMA NotYetMoved ==
  ASSUME SaveInv, whole, pc \in {"undel", "mvbak"}, file[cur].st = "use"
  PROVE  ReadsOriginal(cur) /\ DiskName(cur) = dest
<1>1. cur \in Fn /\ dest = file[cur].name /\ file[cur].mod /\ ~ Over /\ Shape
  BY AtByTmp DEF ByTmp, SaveInv, Table
<1>2. Home(cur) /\ file[cur].can
  BY <1>1 DEF SaveInv, Homes, Shape
<1> QED BY <1>1, <1>2 DEF Home, ReadsBackup, IsSaved, BeingSaved, DiskName

(* Some steps can be told by where they are taken. *)
LEMMA StepAt ==
  ASSUME SaveStep
  PROVE  /\ pc = "flush" => FlushInPlace \/ CallFails
         /\ pc = "undel" => UnlinkDeleted
         /\ pc = "mvbak" => MoveToBackup
         /\ pc = "mvtemp" => MoveTmp
         /\ pc = "deletes" => UnlinkNext
         /\ pc = "renames" => RenameNext
<1>1. CASE RemoveBackups \/ StartSave \/ DirCheckFails \/ RenameOldest \/ RenameFirst \/ UnlinkBackup
           \/ CreateBackup \/ filecopy \/ mkstemp \/ FlushTmp
  BY <1>1 DEF RemoveBackups, StartSave, DirCheckFails, RenameOldest, RenameFirst, UnlinkBackup,
              CreateBackup, filecopy, mkstemp, FlushTmp
<1>2. CASE la_freplace
  <2>1. pc = "freplace"
    BY <1>2 DEF la_freplace
  <2> QED BY <2>1
<1>3. CASE TruncateOriginal
  <2>1. pc = "creat"
    BY <1>3 DEF TruncateOriginal
  <2> QED BY <2>1
<1>4. CASE CallFails
  BY <1>4 DEF CallFails
<1>5. CASE FlushInPlace \/ UnlinkDeleted \/ MoveToBackup \/ MoveTmp \/ UnlinkNext \/ RenameNext
  BY <1>5 DEF FlushInPlace, UnlinkDeleted, MoveToBackup, MoveTmp, UnlinkNext, RenameNext
<1> QED BY <1>1, <1>2, <1>3, <1>4, <1>5 DEF SaveStep

(* The step to mvtemp is MoveToBackup. *)
LEMMA ReachesMvtemp ==
  ASSUME SaveInv, SaveStep, pc' = "mvtemp"
  PROVE  MoveToBackup
<1>1. CASE RenameOldest \/ RenameFirst \/ RenameNext
  BY <1>1, RenameSteps DEF svrename, GiveUp
<1>2. CASE DirCheckFails \/ CallFails \/ FlushInPlace \/ MoveTmp
  BY <1>2 DEF DirCheckFails, CallFails, FlushInPlace, MoveTmp, NextFile, GiveUp
<1>3. CASE RemoveBackups \/ StartSave \/ UnlinkBackup \/ CreateBackup
           \/ filecopy \/ la_freplace \/ TruncateOriginal \/ mkstemp \/ FlushTmp
           \/ UnlinkDeleted \/ UnlinkNext
  BY <1>3 DEF RemoveBackups, StartSave, UnlinkBackup, CreateBackup, filecopy, la_freplace,
              TruncateOriginal, mkstemp, FlushTmp, UnlinkDeleted, UnlinkNext
<1> QED BY <1>1, <1>2, <1>3 DEF SaveStep

(* MoveToBackup that succeeds leaves the original, if there is one, in the   *)
(* backup.                                                                 *)
LEMMA BackupMade ==
  ASSUME SaveInv, MoveToBackup, ~ ignored'
  PROVE  /\ disk[dest] # None => disk'[Bak[dest]] = disk[dest]
         /\ disk'[dest] \in {disk[dest], None}
         /\ dest \in Editable /\ UNCHANGED << data, file, cur, dest, whole >>
<1>1. pc = "mvbak" /\ UNCHANGED << data, file, cur, dest, whole, tmp, bound >>
  BY DEF MoveToBackup
<1>2. PICK r \in mv(disk, dest, Bak[dest]) :
        disk' = r.disk /\ ignored' = (ignored \/ (~ r.ok /\ disk[dest] # None))
  BY DEF MoveToBackup
<1>3. TypeOK /\ dest \in Editable /\ dest \in Name /\ Bak[dest] \in Name /\ Bak[dest] # dest
  BY <1>1, AtByTmp, NoneApart DEF ByTmp
<1>4. /\ r.disk[dest] \in {disk[dest], None}
      /\ r.ok => r.disk[Bak[dest]] = disk[dest]
      /\ r.ok \in BOOLEAN
  BY <1>2, <1>3, Moves
<1> QED BY <1>1, <1>2, <1>3, <1>4

(* MoveTmp changes no backup and no inode, and when it succeeds the name has  *)
(* the new text.                                                           *)
LEMMA NewTextMoved ==
  ASSUME SaveInv, MoveTmp
  PROVE  /\ pc = "mvtemp" /\ UNCHANGED data /\ dest \in Editable
         /\ \A n \in Editable : disk'[Bak[n]] = disk[Bak[n]] /\ (n # dest => disk'[n] = disk[n])
         /\ disk'[dest] \in {disk[tmp], disk[dest], None}
         /\ ~ ignored' => disk'[dest] = disk[tmp]
         /\ Alone(tmp) /\ tmp \in Tmp /\ data[disk[tmp]] = file[cur].text
<1>1. pc = "mvtemp" /\ UNCHANGED data
  BY DEF MoveTmp
<1>2. PICK r \in mv(disk, tmp, dest) : disk' = r.disk /\ ignored' = (ignored \/ ~ r.ok)
  BY DEF MoveTmp
<1>3. /\ TypeOK /\ At /\ dest \in Editable /\ dest \in Name /\ tmp \in Tmp /\ tmp \in Name
      /\ tmp # dest /\ Alone(tmp)
  BY <1>1, AtByTmp, NoneApart DEF ByTmp
<1>4. /\ \A n \in Name \ {tmp, dest} : disk'[n] = disk[n]
      /\ disk'[dest] \in {disk[tmp], disk[dest], None}
      /\ r.ok => disk'[dest] = disk[tmp]
      /\ r.ok \in BOOLEAN
  BY <1>2, <1>3, Moves
<1>5. data[disk[tmp]] = file[cur].text
  BY <1>1, <1>3 DEF At, AtTmp
<1>6. \A n \in Editable : disk'[Bak[n]] = disk[Bak[n]] /\ (n # dest => disk'[n] = disk[n])
  BY <1>3, <1>4, NoneApart
<1> QED BY <1>1, <1>2, <1>3, <1>4, <1>5, <1>6

(* Nothing is saved at first. *)
LEMMA BackedUpInit == Init => BackedUp
BY DEF Init, BackedUp, Copies, Saved, NoFile

(* Neither later saves nor commands touch a backup that was made. *)
LEMMA BackedUpStep ==
  ASSUME Careful, SaveInv, AsRead, BackedUp, [Next]_vars
  PROVE  BackedUp'
<1> SUFFICES ASSUME ~ ignored' PROVE Copies'
  BY DEF BackedUp
<1>1. Copies
  BY StaysIgnored DEF BackedUp
<1>2. CASE Command
  <2>1. UNCHANGED << disk, data >> /\ (pc' = "mvtemp" => ~ whole')
    BY <1>2, CommandElse
  <2> QED BY <1>1, <1>2, <2>1, SavedBefore DEF Copied, Copies
<1>3. CASE SaveStep
  <2>1. ASSUME NEW i \in Fn, Saved(i)' PROVE Copied(i, file[i].name)'
    <3>1. CASE Saved(i)
      <4>1. Copied(i, file[i].name)
        BY <1>1, <3>1 DEF Copies
      <4> QED BY <1>3, <3>1, <4>1, SavedStays DEF Copied
    <3>2. CASE IsDone(i) /\ pc = "flush"
      <4>1. /\ i = cur /\ whole /\ file'[i].name = file[i].name /\ file'[i].was = file[i].was
            /\ file'[i].base = file[i].base /\ pc' = "saves"
        BY <3>2 DEF IsDone, SameEntry
      <4>2. ReadsBackup(i) /\ DiskName(i) = file[i].name /\ \A k \in Fn : file[k].base # disk[dest]
        BY <3>2, <4>1, AtCreat, AtInPlace DEF InPlace
      <4>3. disk' = disk
        BY <1>3, <3>2, <4>1, StepAt DEF FlushInPlace, CallFails, GiveUp
      <4>4. data'[file[i].base] = data[file[i].base]
        BY <1>3, <4>2, DataStep DEF ReadsBackup, SaveInv, Table, TypeOK, File
      <4> QED BY <4>1, <4>2, <4>3, <4>4 DEF Copied, ReadsBackup
    <3>3. CASE IsDone(i) /\ pc = "mvtemp"
      <4>1. /\ i = cur /\ whole /\ file'[i].name = file[i].name /\ file'[i].was = file[i].was
            /\ file'[i].base = file[i].base /\ dest = file[i].name
        BY <3>3, AtByTmp DEF IsDone, SameEntry, ByTmp
      <4>2. MoveTmp
        BY <1>3, <3>3, StepAt
      <4>3. Copied(i, dest)
        BY <1>1, <3>3, <4>1 DEF Copies
      <4> QED BY <4>1, <4>2, <4>3, NewTextMoved DEF Copied
    <3> QED BY <1>3, <2>1, <3>1, <3>2, <3>3, BecomesSaved DEF IsDone
  <2>2. ASSUME pc' = "mvtemp", whole' PROVE Copied(cur, dest)'
    <3>1. MoveToBackup
      BY <1>3, <2>2, ReachesMvtemp
    <3>2. /\ disk[dest] # None => disk'[Bak[dest]] = disk[dest]
          /\ UNCHANGED << data, file, cur, dest, whole >>
      BY <3>1, BackupMade
    <3>3. pc = "mvbak" /\ whole /\ cur \in Fn /\ file[cur].st \in {"use", "new"}
      BY <2>2, <3>1, <3>2, AtByTmp DEF MoveToBackup, ByTmp
    <3>4. CASE file[cur].st = "new"
      BY <3>2, <3>3, <3>4 DEF Copied, AsRead, AsReadOf, SaveInv, Table, Shape
    <3>5. CASE file[cur].st = "use"
      BY <3>2, <3>3, <3>5, NotYetMoved DEF ReadsOriginal, Copied
    <3> QED BY <3>3, <3>4, <3>5
  <2> QED BY <2>1, <2>2 DEF Copies
<1>4. CASE Crash \/ UNCHANGED vars
  <2>1. UNCHANGED << disk, data, file, cur, dest, whole >> /\ pc' \in {pc, "dead"}
    BY <1>4 DEF Crash, vars
  <2>2. \A i \in Fn : Saved(i)' => Saved(i)
    BY <2>1 DEF Saved
  <2> QED BY <1>1, <2>1, <2>2 DEF Copied, Copies
<1> QED BY <1>2, <1>3, <1>4 DEF Next

(* After a normal exit every file that was saved has in its backup, prebak   *)
(* and the name, the text it was read with, if both mv succeeded, with and *)
(* without rename(2), whatever was renamed and deleted meanwhile.          *)
THEOREM BackupIsKept ==
  ASSUME Careful
  PROVE  Spec => []BackupKept
<1> DEFINE Inv == AsRead /\ BackedUp
<1>1. Init => Inv
  BY AsReadInit, BackedUpInit
<1>2. SaveInv /\ Inv /\ [Next]_vars => Inv'
  BY AsReadStep, BackedUpStep
<1>3. Inv => BackupKept
  BY DEF BackedUp, Copies, BackupKept, Saved, Copied, Holds
<1> HIDE DEF Inv
<1> QED BY <1>1, <1>2, <1>3, Invariance, PTL DEF Spec

-----------------------------------------------------------------------------
(* How far saveall has come. *)

(* The name of a deleted file is not on the disk, or another file has it. *)
Gone(i) == disk[file[i].name] = None \/ \E j \in Fn : Active(j) /\ file[j].name = file[i].name

ToDelete(i) == file[i].st = "deleted" /\ file[i].upd

(* What the loops have passed is done. *)
Passed ==
  /\ pc = "saves" => \A i \in Fn : i <= cur => ~ Eligible(i)
  /\ pc \in OfFile /\ whole => \A i \in Fn : i < cur => ~ Eligible(i)
  /\ pc \in {"deletes", "renames", "gone"} => \A i \in Fn : ~ Eligible(i)
  /\ pc = "deletes" => \A i \in Fn : ToDelete(i) /\ i <= cur => Gone(i)
  /\ pc \in {"renames", "gone"} => \A i \in Fn : ToDelete(i) => Gone(i)
  /\ pc = "renames" => cur = 0
  /\ pc = "gone" => \A i \in Fn : file[i].upd => file[i].st # "renamed"

(* The loops pass no file of the kind they are for. *)
LEMMA NoneSkipped ==
  ASSUME cur \in Nat, NEW i \in Fn, cur < i
  PROVE  /\ Eligible(i) => NextEligible # 0 /\ NextEligible <= i
         /\ \A st : file[i].st = st /\ file[i].upd => NextWith(st) # 0 /\ NextWith(st) <= i
<1>1. ASSUME NEW S \in SUBSET (Nat \ {0}), i \in S PROVE First(S) # 0 /\ First(S) <= i
  <2>1. \E k \in S : \A j \in S : k <= j
    BY <1>1, LeastNumber
  <2>2. First(S) \in S /\ \A j \in S : First(S) <= j
    BY <1>1, <2>1 DEF First
  <2> QED BY <1>1, <2>2
<1>2. ASSUME Eligible(i) PROVE NextEligible # 0 /\ NextEligible <= i
  <2> DEFINE S == {k \in Fn : k > cur /\ Eligible(k)}
  <2>1. S \in SUBSET (Nat \ {0}) /\ i \in S
    BY <1>2, FnNumbers
  <2>2. NextEligible = First(S)
    BY DEF NextEligible
  <2> HIDE DEF S
  <2> QED BY <1>1, <2>1, <2>2
<1>3. ASSUME NEW st, file[i].st = st, file[i].upd PROVE NextWith(st) # 0 /\ NextWith(st) <= i
  <2> DEFINE S == {k \in Fn : k > cur /\ file[k].st = st /\ file[k].upd}
  <2>1. S \in SUBSET (Nat \ {0}) /\ i \in S
    BY <1>3, FnNumbers
  <2>2. NextWith(st) = First(S)
    BY DEF NextWith
  <2> HIDE DEF S
  <2> QED BY <1>1, <2>1, <2>2
<1> QED BY <1>2, <1>3

(* No step of saving makes a file one that is to be saved, or to be deleted,  *)
(* or renamed; and a file that is active stays so, with its name.          *)
LEMMA SaveStepKinds ==
  ASSUME SaveInv, SaveStep, NEW i \in Fn
  PROVE  /\ Eligible(i)' => Eligible(i)
         /\ file'[i].st \in {"deleted", "renamed"} => file'[i] = file[i]
         /\ Active(i) => Active(i)' /\ file'[i].name = file[i].name
<1>1. EntryStep(i)
  BY TableStep
<1>2. Freed(i).st = "free"
  BY FreedShape DEF SaveInv, Table
<1> QED BY <1>1, <1>2
     DEF EntryStep, Forgets, GetsName, TurnsToBackup, IsDone, SameEntry, SameFlags, Eligible, Active

(* Only saving a file, or giving up, leaves the steps of a file. *)
LEMMA OfFileStep ==
  ASSUME SaveInv, SaveStep, pc \in OfFile
  PROVE  \/ pc' = "edit"
         \/ pc' \in OfFile /\ cur' = cur /\ (whole' => whole)
         \/ pc' = "saves" /\ cur' = cur /\ whole /\ IsDone(cur) /\ cur \in Fn
<1>1. CASE RenameOldest \/ RenameFirst \/ RenameNext
  BY <1>1, RenameSteps DEF svrename, GiveUp, OfFile, InPlace, ByTmp
<1>2. CASE FlushInPlace \/ MoveTmp
  <2>1. pc \in {"flush", "mvtemp"} /\ file' = SavedFlags(cur) /\ NextFile
    BY <1>2 DEF FlushInPlace, MoveTmp
  <2>2. cur \in Fn
    BY <2>1, AtByTmp, AtInPlace DEF InPlace, ByTmp
  <2> QED BY <2>1, <2>2, SavedEntry DEF GiveUp, IsDone
<1>3. CASE DirCheckFails \/ CallFails
  BY <1>3 DEF DirCheckFails, CallFails, GiveUp
<1>4. CASE UnlinkBackup \/ CreateBackup \/ filecopy \/ la_freplace \/ TruncateOriginal \/ mkstemp
           \/ FlushTmp \/ UnlinkDeleted \/ MoveToBackup
  BY <1>4 DEF UnlinkBackup, CreateBackup, filecopy, la_freplace, TruncateOriginal, mkstemp, FlushTmp,
              UnlinkDeleted, MoveToBackup, OfFile, InPlace, ByTmp
<1>5. CASE RemoveBackups \/ StartSave \/ UnlinkNext
  BY <1>5 DEF RemoveBackups, StartSave, UnlinkNext, OfFile, InPlace, ByTmp
<1> QED BY <1>1, <1>2, <1>3, <1>4, <1>5 DEF SaveStep

(* The others are the loops. *)
LEMMA SaveStepOfFile ==
  ASSUME SaveStep
  PROVE  pc \in OfFile \/ RemoveBackups \/ StartSave \/ UnlinkNext \/ RenameNext \/ DirCheckFails
<1>1. CASE RenameOldest \/ RenameFirst \/ UnlinkBackup \/ CreateBackup \/ filecopy \/ mkstemp \/ FlushTmp
           \/ FlushInPlace \/ UnlinkDeleted \/ MoveToBackup \/ MoveTmp \/ CallFails
  BY <1>1 DEF RenameOldest, RenameFirst, UnlinkBackup, CreateBackup, filecopy, mkstemp, FlushTmp,
              FlushInPlace, UnlinkDeleted, MoveToBackup, MoveTmp, CallFails, OfFile, InPlace, ByTmp
<1>2. CASE la_freplace
  <2>1. pc = "freplace"
    BY <1>2 DEF la_freplace
  <2> QED BY <2>1 DEF OfFile, InPlace
<1>3. CASE TruncateOriginal
  <2>1. pc = "creat"
    BY <1>3 DEF TruncateOriginal
  <2> QED BY <2>1 DEF OfFile, InPlace
<1> QED BY <1>1, <1>2, <1>3 DEF SaveStep

(* Nothing is passed at first. *)
LEMMA PassedInit == Init => Passed
BY DEF Init, Passed, OfFile, InPlace, ByTmp

(* What the loops of saveall have passed stays done while they go on, *)
LEMMA PassedSaveStep ==
  ASSUME SaveInv, Passed, SaveStep
  PROVE  Passed'
<1>1. TypeOK /\ cur \in Nat /\ cur <= MaxFn /\ MaxFn \in Nat /\ \A i \in Fn : i \in Nat /\ 0 < i
  BY ConstantsAssumption DEF SaveInv, Table, TypeOK, Fn
<1>2. CASE pc' = "edit"
  BY <1>2 DEF Passed, OfFile, InPlace, ByTmp
<1>3. CASE pc \in OfFile /\ pc' # "edit"
  <2>1. CASE pc' \in OfFile /\ cur' = cur /\ (whole' => whole)
    BY <1>3, <2>1, SaveStepKinds DEF Passed, OfFile, InPlace, ByTmp
  <2>2. CASE pc' = "saves" /\ cur' = cur /\ whole /\ IsDone(cur) /\ cur \in Fn
    <3>1. \A i \in Fn : i < cur => ~ Eligible(i)'
      BY <1>3, <2>2, SaveStepKinds DEF Passed
    <3>2. ~ Eligible(cur)'
      BY <2>2 DEF IsDone, Eligible
    <3>3. \A i \in Fn : i <= cur => i < cur \/ i = cur
      BY <1>1
    <3> QED BY <2>2, <3>1, <3>2, <3>3 DEF Passed, OfFile, InPlace, ByTmp
  <2> QED BY <1>3, <2>1, <2>2, OfFileStep
<1>4. CASE RemoveBackups
  BY <1>1, <1>4 DEF RemoveBackups, Passed, OfFile, InPlace, ByTmp
<1>5. CASE StartSave
  <2>1. pc = "saves" /\ file' = file /\ whole' = whole
    BY <1>5 DEF StartSave
  <2>2. CASE NextEligible = 0
    <3>1. pc' = "deletes" /\ cur' = 0
      BY <1>5, <2>2 DEF StartSave
    <3>2. \A i \in Fn : ~ Eligible(i)
      BY <1>1, <2>1, <2>2, NoneSkipped DEF Passed
    <3>3. \A i \in Fn : ~ (i <= 0)
      BY <1>1
    <3> QED BY <2>1, <3>1, <3>2, <3>3 DEF Passed, OfFile, InPlace, ByTmp, Eligible, Active
  <2>3. CASE NextEligible # 0
    <3>1. pc' = "renold" /\ cur' = NextEligible
      BY <1>5, <2>3 DEF StartSave
    <3>2. ASSUME NEW i \in Fn, i < NextEligible PROVE ~ Eligible(i)
      <4>1. NextEligible \in Nat
        BY <1>1, <2>3, FoundNext
      <4>2. i <= cur \/ cur < i
        BY <1>1
      <4> QED BY <1>1, <2>1, <3>2, <4>1, <4>2, NoneSkipped DEF Passed
    <3> QED BY <2>1, <3>1, <3>2 DEF Passed, OfFile, InPlace, ByTmp, Eligible, Active
  <2> QED BY <2>2, <2>3
<1>6. CASE UnlinkNext
  <2>1. pc = "deletes" /\ file' = file
    BY <1>6 DEF UnlinkNext
  <2>2. /\ \A i \in Fn : ~ Eligible(i)
        /\ \A i \in Fn : ToDelete(i) /\ i <= cur => Gone(i)
    BY <2>1 DEF Passed
  <2>3. CASE NextWith("deleted") = 0
    <3>1. pc' = "renames" /\ cur' = 0 /\ disk' = disk
      BY <1>6, <2>3 DEF UnlinkNext
    <3>2. \A i \in Fn : ToDelete(i) => Gone(i)
      BY <1>1, <2>2, <2>3, NoneSkipped DEF ToDelete
    <3> QED BY <2>1, <2>2, <3>1, <3>2
         DEF Passed, OfFile, InPlace, ByTmp, Eligible, Active, ToDelete, Gone
  <2>4. CASE NextWith("deleted") # 0
    <3>1. PICK k : k = NextWith("deleted")
      OBVIOUS
    <3>2. /\ pc' = "deletes" /\ cur' = k /\ k \in Fn /\ file[k].st = "deleted"
          /\ disk' = Unlink(disk, file[k].name)
      BY <1>6, <2>4, <3>1, FoundNext DEF UnlinkNext
    <3>3. file[k].name \in Name
      BY <3>2, NoneApart DEF SaveInv, Table, Shape, TypeOK, File
    <3>4. disk'[file[k].name] = None /\ \A n : disk[n] = None => disk'[n] = None
      BY <1>1, <3>2, <3>3 DEF Unlink, TypeOK
    <3>5. ASSUME NEW i \in Fn, ToDelete(i), i <= k PROVE Gone(i)'
      <4>1. CASE i <= cur
        BY <2>1, <2>2, <3>4, <3>5, <4>1 DEF Gone, Active
      <4>2. CASE ~ (i <= cur)
        <5>1. k <= i
          BY <1>1, <3>1, <3>5, <4>2, NoneSkipped DEF ToDelete
        <5>2. i = k
          BY <1>1, <3>2, <3>5, <5>1
        <5> QED BY <2>1, <3>4, <5>2 DEF Gone
      <4> QED BY <4>1, <4>2
    <3> QED BY <2>1, <2>2, <3>2, <3>5
         DEF Passed, OfFile, InPlace, ByTmp, Eligible, Active, ToDelete
  <2> QED BY <2>3, <2>4
<1>7. CASE RenameNext /\ pc' # "edit"
  <2>1. pc = "renames" /\ cur = 0
    BY <1>7 DEF RenameNext, Passed
  <2>2. /\ \A i \in Fn : ~ Eligible(i)
        /\ \A i \in Fn : ToDelete(i) => Gone(i)
    BY <2>1 DEF Passed
  <2>3. \A i \in Fn : ~ Eligible(i)'
    BY <2>2, SaveStepKinds
  <2>4. ASSUME NEW i \in Fn, ToDelete(i)' PROVE Gone(i)'
    <3>1. file'[i] = file[i] /\ ToDelete(i) /\ Gone(i)
      BY <2>2, <2>4, SaveStepKinds DEF ToDelete
    <3>2. CASE \E j \in Fn : Active(j) /\ file[j].name = file[i].name
      BY <3>1, <3>2, SaveStepKinds DEF Gone
    <3>3. CASE disk[file[i].name] = None /\ disk'[file[i].name] # None
      <4>1. PICK t \in Fn, next \in {"rename", "unbak", "mkstemp", "renames"} :
               file[t].st = "renamed" /\ svrename(t, next)
        BY <1>7, <3>3, RenameSteps
      <4>2. PICK r \in mv(disk, file[t].old, file[t].name) : disk' = r.disk
        BY <4>1 DEF svrename
      <4>3. /\ file[t].old \in Name /\ file[t].name \in Name /\ file[t].old # file[t].name
            /\ file[i].name \in Name
        BY <3>1, <4>1, NoneApart DEF SaveInv, Table, Shape, TypeOK, File, ToDelete
      <4>4. file[i].name = file[t].name
        BY <1>1, <3>3, <4>2, <4>3, Moves
      <4>5. Active(t)
        BY <4>1 DEF Active
      <4> QED BY <3>1, <4>4, <4>5, SaveStepKinds DEF Gone
    <3> QED BY <3>1, <3>2, <3>3 DEF Gone
  <2>5. CASE pc' = "renames" /\ cur' = cur
    BY <2>1, <2>3, <2>4, <2>5 DEF Passed, OfFile, InPlace, ByTmp
  <2>6. CASE pc' = "gone" /\ file' = file /\ NextWith("renamed") = 0
    <3>1. \A i \in Fn : file'[i].upd => file'[i].st # "renamed"
      BY <1>1, <2>1, <2>6, NoneSkipped
    <3> QED BY <2>3, <2>4, <2>6, <3>1 DEF Passed, OfFile, InPlace, ByTmp
  <2> QED BY <1>7, <2>1, <2>5, <2>6, RenameSteps DEF svrename, GiveUp
<1>8. CASE DirCheckFails
  BY <1>2, <1>8 DEF DirCheckFails, GiveUp
<1> QED BY <1>2, <1>3, <1>4, <1>5, <1>6, <1>7, <1>8, SaveStepOfFile

(* and after. *)
LEMMA PassedStep ==
  ASSUME SaveInv, Passed, [Next]_vars
  PROVE  Passed'
<1>1. CASE Command
  BY <1>1, CommandElse DEF Passed, OfFile, InPlace, ByTmp
<1>2. CASE Crash
  BY <1>2 DEF Crash, Passed, OfFile, InPlace, ByTmp
<1>3. CASE UNCHANGED vars
  BY <1>3 DEF vars, Passed, Eligible, Active, ToDelete, Gone
<1> QED BY <1>1, <1>2, <1>3, PassedSaveStep DEF Next

-----------------------------------------------------------------------------
(* What a step takes from the disk. *)

(* With rename(2), an mv that fails changes nothing. *)
LEMMA MvFails ==
  ASSUME RENAME, NEW from, NEW to, NEW r \in mv(disk, from, to), ~ r.ok
  PROVE  r.disk = disk
BY DEF mv, Result

(* The name that a renamed file will get is on the disk only as that of a    *)
(* deleted one.                                                            *)
RenamedFree ==
  \A t \in Fn : file[t].st = "renamed" /\ disk[file[t].name] # None =>
    \E k \in Fn : file[k].st = "deleted" /\ file[k].name = file[t].name

(* Before MoveTmp the original is gone, or has become the backup. *)
Cleared == pc = "mvtemp" /\ ~ ignored => disk[dest] \in {None, disk[Bak[dest]]}

(* No file is renamed at first. *)
LEMMA RenamedFreeInit == Init => RenamedFree /\ Cleared
BY DEF Init, RenamedFree, Cleared, NoFile

(* The file that is being saved is none of the renamed ones. *)
LEMMA DestNotRenamed ==
  ASSUME SaveInv, pc \in ByTmp, NEW t \in Fn, file[t].st = "renamed"
  PROVE  file[t].name # dest
<1>1. /\ cur \in Fn /\ Active(cur) /\ NameTable
      /\ whole => dest = file[cur].name /\ file[cur].st \in {"use", "new"}
      /\ ~ whole => \A i \in Fn : file[i].st # "free" => file[i].name # dest
  BY AtByTmp DEF SaveInv, Table, At, AtFile, OfFile
<1> QED BY <1>1 DEF NameTable

(* Where files are renamed, no other step changes the disk. *)
LEMMA RenamingAt ==
  ASSUME SaveStep, pc \in {"renold", "rename", "renames"}, disk' # disk
  PROVE  RenameOldest \/ RenameFirst \/ RenameNext
<1>1. CASE RemoveBackups \/ StartSave \/ DirCheckFails \/ UnlinkBackup
           \/ CreateBackup \/ filecopy \/ mkstemp \/ FlushTmp \/ UnlinkNext
  BY <1>1 DEF RemoveBackups, StartSave, DirCheckFails, UnlinkBackup,
              CreateBackup, filecopy, mkstemp, FlushTmp, UnlinkNext
<1>2. CASE la_freplace
  <2>1. pc = "freplace"
    BY <1>2 DEF la_freplace
  <2> QED BY <2>1
<1>3. CASE TruncateOriginal
  <2>1. pc = "creat"
    BY <1>3 DEF TruncateOriginal
  <2> QED BY <2>1
<1>4. CASE CallFails
  BY <1>4 DEF CallFails
<1>5. CASE FlushInPlace \/ UnlinkDeleted \/ MoveToBackup \/ MoveTmp
  BY <1>5 DEF FlushInPlace, UnlinkDeleted, MoveToBackup, MoveTmp
<1> QED BY <1>1, <1>2, <1>3, <1>4, <1>5 DEF SaveStep

(* Saving gives no other file the name a renamed one waits for, *)
LEMMA RenamedFreeSaveStep ==
  ASSUME RENAME, SaveInv, RenamedFree, SaveStep
  PROVE  RenamedFree'
<1> SUFFICES ASSUME NEW t \in Fn, file'[t].st = "renamed", disk'[file'[t].name] # None
             PROVE  \E k \in Fn : file'[k].st = "deleted" /\ file'[k].name = file'[t].name
  BY DEF RenamedFree
<1> DEFINE n == file[t].name
<1>1. /\ file'[t] = file[t] /\ file[t].st = "renamed" /\ n \in Editable /\ n \in Name
      /\ TypeOK /\ Shape /\ NameTable
  BY SaveStepKinds, NoneApart DEF SaveInv, Table, Shape, TypeOK, File
<1>2. CASE disk[n] # None
  <2>1. PICK k \in Fn : file[k].st = "deleted" /\ file[k].name = n
    BY <1>1, <1>2 DEF RenamedFree
  <2>2. ~ Forgets(k)
    <3>1. CASE pc = "undel" /\ n = dest
      BY <1>1, <3>1, DestNotRenamed DEF ByTmp
    <3>2. ASSUME NEW t2 \in Fn, file[t2].st = "renamed", file'[t2].st = "use", file[t2].name = n
          PROVE  FALSE
      BY <1>1, <3>2 DEF NameTable
    <3> QED BY <2>1, <3>1, <3>2 DEF Forgets
  <2>3. file'[k] = file[k]
    <3>1. EntryStep(k)
      BY TableStep
    <3>2. file[k].st = "deleted" /\ (pc \in {"flush", "mvtemp"} /\ k = cur => Active(k))
      BY <2>1, AtByTmp, AtInPlace DEF ByTmp, InPlace
    <3> QED BY <2>2, <3>1, <3>2 DEF EntryStep, GetsName, TurnsToBackup, IsDone, Active
  <2> QED BY <1>1, <2>1, <2>3
<1>3. CASE disk[n] = None
  <2>1. disk'[n] # None
    BY <1>1
  <2>2. OneName(n)
    BY <1>1, <1>3, <2>1, NameStep
  <2>3. CASE pc = "deletes"
    <3>1. \E s : disk' = Unlink(disk, s) \/ disk' = disk
      BY <2>3, StepAt DEF UnlinkNext
    <3> QED BY <1>1, <1>3, <2>1, <3>1 DEF Unlink, TypeOK
  <2>4. CASE pc \in {"renold", "rename", "renames"}
    <3>1. RenameOldest \/ RenameFirst \/ RenameNext
      BY <1>3, <2>1, <2>4, RenamingAt
    <3>2. PICK u \in Fn, next \in {"rename", "unbak", "mkstemp", "renames"} :
               file[u].st = "renamed" /\ svrename(u, next)
      BY <1>3, <2>1, <3>1, RenameSteps
    <3>3. PICK r \in mv(disk, file[u].old, file[u].name) :
            /\ disk' = r.disk /\ r.ok \in BOOLEAN
            /\ r.ok => file'[u].st = "use"
      BY <2>4, <3>2, svrenameTable DEF Over
    <3>4. r.ok
      BY <1>3, <2>1, <3>3, MvFails
    <3>5. u # t
      BY <1>1, <3>3, <3>4
    <3>6. n # file[u].name /\ n # file[u].old
      BY <1>1, <3>2, <3>5 DEF NameTable
    <3> QED BY <1>1, <1>3, <2>1, <3>2, <3>6, svrenameNames
  <2>5. n \notin Tmp /\ \A m \in Editable : n # Bak[m]
    BY <1>1, NoneApart
  <2>6. \A e \in Fn : Eligible(e) => file[e].name \in Editable
    BY DEF Eligible, Active, SaveInv, Table, Shape, TypeOK, File
  <2>7. pc \in InPlace \cup ByTmp => dest \in Editable
    BY AtByTmp, AtInPlace
  <2>8. pc \in ByTmp => n # dest
    BY <1>1, DestNotRenamed
  <2> QED BY <2>2, <2>3, <2>4, <2>5, <2>6, <2>7, <2>8 DEF OneName, ByTmp
<1> QED BY <1>2, <1>3

(* and name refuses one that is on the disk. *)
LEMMA RenamedFreeStep ==
  ASSUME Careful, RENAME, SaveInv, RenamedFree, [Next]_vars
  PROVE  RenamedFree'
<1>1. CASE Command
  <2> SUFFICES ASSUME NEW t \in Fn, file'[t].st = "renamed", disk'[file'[t].name] # None
               PROVE  \E k \in Fn : file'[k].st = "deleted" /\ file'[k].name = file'[t].name
    BY DEF RenamedFree
  <2>1. CommandEntry(t) /\ disk' = disk
    BY <1>1, CommandEntries, CommandElse
  <2>2. \/ file[t].st = "renamed" /\ file'[t].name = file[t].name
        \/ \E k \in Fn : file[k].st = "deleted" /\ file[k].name = file'[t].name
    BY <2>1 DEF CommandEntry, Opens, Edits, Names, Drops, Updates
  <2>3. PICK k \in Fn : file[k].st = "deleted" /\ file[k].name = file'[t].name
    BY <2>1, <2>2 DEF RenamedFree
  <2>4. CommandEntry(k)
    BY <1>1, CommandEntries
  <2>5. file'[k] = file[k]
    BY <2>3, <2>4 DEF CommandEntry, Opens, Active
  <2> QED BY <2>3, <2>5
<1>2. CASE Crash \/ UNCHANGED vars
  BY <1>2 DEF Crash, vars, RenamedFree
<1> QED BY <1>1, <1>2, RenamedFreeSaveStep DEF Next

(* MoveToBackup has made way for MoveTmp, unless its failure was ignored. *)
LEMMA ClearedStep ==
  ASSUME SaveInv, Cleared, [Next]_vars
  PROVE  Cleared'
<1> SUFFICES ASSUME pc' = "mvtemp", ~ ignored'
             PROVE  disk'[dest'] \in {None, disk'[Bak[dest']]}
  BY DEF Cleared
<1>1. CASE Command
  BY <1>1, CommandElse
<1>2. CASE SaveStep
  BY <1>2, ReachesMvtemp, BackupMade
<1>3. CASE Crash \/ UNCHANGED vars
  BY <1>3 DEF Crash, vars, Cleared
<1> QED BY <1>1, <1>2, <1>3 DEF Next

(* A step takes the last name of a text only where it may. *)
LEMMA TakenLate ==
  ASSUME RENAME, SaveInv, Passed, RenamedFree, Cleared, SaveStep, ~ ignored',
         NEW n \in Editable, disk[n] # None, \A m \in Name : disk'[m] # disk[n]
  PROVE  /\ hvdelname(n) # 0
         /\ disk'[n] # None \/ n = dest \/ \A i \in Fn : ~ Eligible(i)
<1>1. /\ n \in Name /\ TypeOK /\ ~ ignored
      /\ \A m \in Editable : Bak[m] \in Name
  BY NoneApart, StaysIgnored DEF SaveInv, Table, Next
<1>2. OneName(n)
  BY <1>1, NameStep
<1>3. CASE n = dest /\ pc \in {"undel", "mvbak", "mvtemp"}
  <2>1. CASE pc = "undel"
    BY <1>1, <1>3, <2>1, StepAt DEF UnlinkDeleted
  <2>2. CASE pc = "mvbak"
    BY <1>1, <1>3, <2>2, StepAt, BackupMade
  <2>3. CASE pc = "mvtemp"
    <3>1. MoveTmp
      BY <2>3, StepAt
    <3>2. disk'[Bak[dest]] = disk[Bak[dest]]
      BY <3>1, NewTextMoved
    <3> QED BY <1>1, <1>3, <2>3, <3>2 DEF Cleared
  <2> QED BY <1>3, <2>1, <2>2, <2>3
<1>4. ASSUME NEW k \in Fn, pc = "deletes", file[k].st = "deleted", n = file[k].name
      PROVE  hvdelname(n) # 0 /\ \A i \in Fn : ~ Eligible(i)
  BY <1>4, Searches DEF Passed
<1>5. ASSUME NEW t \in Fn, pc \in {"renold", "rename", "renames"}, file[t].st = "renamed",
             n \in {file[t].old, file[t].name}
      PROVE  hvdelname(n) # 0 /\ disk'[n] # None
  <2>1. RenameOldest \/ RenameFirst \/ RenameNext
    BY <1>1, <1>5, RenamingAt
  <2>2. PICK u \in Fn, next \in {"rename", "unbak", "mkstemp", "renames"} :
               file[u].st = "renamed" /\ svrename(u, next)
    BY <1>1, <2>1, RenameSteps
  <2>3. /\ file[u].old \in Editable /\ file[u].name \in Editable /\ file[u].old # file[u].name
        /\ n \in {file[u].old, file[u].name}
    BY <1>1, <2>2, svrenameNames
  <2>4. PICK r \in mv(disk, file[u].old, file[u].name) : disk' = r.disk
    BY <2>2 DEF svrename
  <2>5. /\ r.ok => disk[file[u].old] # None /\ r.disk[file[u].name] = disk[file[u].old]
        /\ r.ok \in BOOLEAN
    BY <1>1, <2>3, <2>4, Moves, NoneApart
  <2>6. r.ok
    BY <1>1, <2>4, <2>5, MvFails
  <2>7. n # file[u].old
    BY <1>1, <2>3, <2>4, <2>5, <2>6, NoneApart
  <2>8. hvdelname(n) # 0
    BY <2>2, <2>3, <2>7, Searches DEF RenamedFree
  <2> QED BY <2>3, <2>4, <2>5, <2>6, <2>7, <2>8
<1>6. n \notin Tmp /\ \A m \in Editable : n # Bak[m]
  BY NoneApart
<1>7. \A e \in Fn : Eligible(e) => file[e].name \in Editable
  BY DEF Eligible, Active, SaveInv, Table, Shape, TypeOK, File
<1>8. pc \in InPlace \cup ByTmp => dest \in Editable
  BY AtByTmp, AtInPlace
<1> QED BY <1>2, <1>3, <1>4, <1>5, <1>6, <1>7, <1>8 DEF OneName

(* Permanent actions come as late as possible (saveall): while nothing is    *)
(* ignored, a step takes the last name of a text only if the user deleted  *)
(* it, and then either another file takes the name or all the saving is    *)
(* done.                                                                   *)
THEOREM TakenLast ==
  ASSUME Careful, RENAME
  PROVE  Spec => PermanentLast
<1> DEFINE Inv == Passed /\ RenamedFree /\ Cleared
           Late == ~ ignored' =>
             \A n \in Editable :
              disk[n] # None /\ (\A m \in Name : disk'[m] # disk[n]) =>
                /\ hvdelname(n) # 0
                /\ disk'[n] # None \/ n = dest \/ \A i \in Fn : ~ Eligible(i)
<1>1. Init => Inv
  BY PassedInit, RenamedFreeInit
<1>2. SaveInv /\ Inv /\ [Next]_vars => Inv'
  BY PassedStep, RenamedFreeStep, ClearedStep
<1>3. SaveInv /\ Inv /\ [Next]_vars => [Late]_vars
  <2> SUFFICES ASSUME SaveInv, Inv, Next PROVE Late
    OBVIOUS
  <2>1. CASE SaveStep
    BY <2>1, TakenLate
  <2>2. CASE Command \/ Crash
    <3>1. disk' = disk
      BY <2>2, CommandElse DEF Crash
    <3> QED BY <3>1, NoneApart
  <2> QED BY <2>1, <2>2 DEF Next
<1> HIDE DEF Inv
<1>4. Spec => [][Late]_vars
  <2> HIDE DEF Late
  <2> QED BY <1>1, <1>2, <1>3, Invariance, PTL DEF Spec
<1> QED BY <1>4 DEF PermanentLast

-----------------------------------------------------------------------------
(* What saveall has written. *)

(* With rename(2) no two names come to be links of one file. *)
LEMMA NoLinksStep ==
  ASSUME RENAME, SaveInv, NoLinks, [Next]_vars
  PROVE  NoLinks'
<1>1. TypeOK /\ disk \in [Name -> Inode \cup {None}] /\ Editable \subseteq Name
  BY NoneApart DEF SaveInv, Table, TypeOK
<1>2. CASE \A n \in Editable : disk'[n] \in {disk[n], None}
  BY <1>2 DEF NoLinks
<1>3. CASE Command \/ Crash \/ UNCHANGED vars
  BY <1>3, CommandElse DEF Crash, vars, NoLinks
<1>4. CASE SaveStep /\ pc \in {"deletes", "undel"}
  <2>1. (\E s : disk' = Unlink(disk, s)) \/ disk' = disk
    BY <1>4, StepAt DEF UnlinkNext, UnlinkDeleted
  <2> QED BY <1>1, <1>2, <2>1 DEF Unlink
<1>5. CASE SaveStep /\ pc = "mvbak"
  <2>1. PICK r \in mv(disk, dest, Bak[dest]) : disk' = r.disk
    BY <1>5, StepAt DEF MoveToBackup
  <2>2. dest \in Editable
    BY <1>5, AtByTmp DEF ByTmp
  <2> QED BY <1>1, <1>2, <2>1, <2>2, Moves, NoneApart
<1>6. CASE SaveStep /\ pc = "mvtemp"
  <2>1. /\ dest \in Editable /\ Alone(tmp) /\ tmp \notin Editable
        /\ \A n \in Editable : n # dest => disk'[n] = disk[n]
        /\ disk'[dest] \in {disk[tmp], disk[dest], None}
    BY <1>6, StepAt, NewTextMoved, NoneApart
  <2> QED BY <1>1, <2>1 DEF NoLinks, Alone
<1>7. CASE (RenameOldest \/ RenameFirst \/ RenameNext) /\ disk' # disk
  <2>1. PICK t \in Fn, next \in {"rename", "unbak", "mkstemp", "renames"} :
               file[t].st = "renamed" /\ svrename(t, next)
    BY <1>7, RenameSteps
  <2>2. PICK r \in mv(disk, file[t].old, file[t].name) : disk' = r.disk
    BY <2>1 DEF svrename
  <2>3. file[t].old \in Editable /\ file[t].name \in Editable /\ file[t].old # file[t].name
    BY <2>1, svrenameNames
  <2>4. /\ \A n \in Name \ {file[t].old, file[t].name} : disk'[n] = disk[n]
        /\ r.ok => disk[file[t].old] # None /\ disk'[file[t].name] = disk[file[t].old]
        /\ r.ok /\ disk[file[t].old] # disk[file[t].name] => disk'[file[t].old] = None
        /\ r.ok \in BOOLEAN
    BY <1>1, <2>2, <2>3, Moves
  <2>5. r.ok
    BY <1>7, <2>2, <2>4, MvFails
  <2>6. /\ disk'[file[t].name] = disk[file[t].old] /\ disk'[file[t].old] = None
        /\ \A n \in Editable \ {file[t].old, file[t].name} : disk'[n] = disk[n]
    BY <1>1, <2>3, <2>4, <2>5 DEF NoLinks
  <2> QED BY <2>3, <2>6 DEF NoLinks
<1>8. CASE SaveStep /\ pc \notin {"deletes", "undel", "mvbak", "mvtemp"}
           /\ ~ (RenameOldest \/ RenameFirst \/ RenameNext)
  <2>1. ASSUME NEW n \in Editable, disk'[n] # disk[n] PROVE FALSE
    <3>1. OneName(n)
      BY <1>1, <1>8, <2>1, NameStep
    <3>2. n \notin Tmp /\ \A m \in Editable : n # Bak[m]
      BY NoneApart
    <3>3. \A e \in Fn : Eligible(e) => file[e].name \in Editable
      BY DEF Eligible, Active, SaveInv, Table, Shape, TypeOK, File
    <3>4. pc \in InPlace \cup ByTmp => dest \in Editable
      BY AtByTmp, AtInPlace
    <3>5. pc \notin {"renold", "rename", "renames"}
      BY <1>1, <1>8, <2>1, RenamingAt
    <3> QED BY <1>8, <3>1, <3>2, <3>3, <3>4, <3>5 DEF OneName
  <2> QED BY <1>2, <2>1
<1>9. CASE disk' = disk
  BY <1>9 DEF NoLinks
<1> QED BY <1>3, <1>4, <1>5, <1>6, <1>7, <1>8, <1>9 DEF Next

(* The text of a saved file has its name. *)
Written == ~ ignored => \A i \in Fn : Saved(i) => Holds(file[i].name, file[i].text)

(* Nothing is saved at first. *)
LEMMA WrittenInit == Init => Written
BY DEF Init, Written, Saved, NoFile

(* Once written the text of a file is not written over. *)
LEMMA WrittenStep ==
  ASSUME Careful, SaveInv, NoLinks, Written, [Next]_vars
  PROVE  Written'
<1> SUFFICES ASSUME ~ ignored', NEW i \in Fn, Saved(i)' PROVE Holds(file[i].name, file[i].text)'
  BY DEF Written
<1>1. \A k \in Fn : Saved(k) => Holds(file[k].name, file[k].text)
  BY StaysIgnored DEF Written
<1>2. CASE Command
  BY <1>1, <1>2, CommandElse, SavedBefore DEF Holds
<1>3. CASE SaveStep /\ Saved(i)
  BY <1>1, <1>3, SavedStays DEF Holds
<1>4. CASE SaveStep /\ IsDone(i)
  <2>1. /\ i = cur /\ whole /\ file'[i].name = file[i].name /\ file'[i].text = file[i].text
        /\ pc \in {"flush", "mvtemp"} /\ pc' = "saves"
    BY <1>4 DEF IsDone, SameEntry
  <2>2. CASE pc = "flush"
    <3>1. FlushInPlace
      BY <1>4, <2>1, <2>2, StepAt DEF CallFails, GiveUp
    <3>2. disk' = disk /\ data' = [data EXCEPT ![disk[dest]] = file[cur].text]
      BY <3>1 DEF FlushInPlace
    <3>3. disk[dest] \in Inode /\ dest = file[cur].name /\ data \in [Inode -> Text]
      BY <2>2, AtCreat, AtInPlace DEF InPlace, TypeOK
    <3> QED BY <2>1, <3>2, <3>3, NoneApart DEF Holds
  <2>3. CASE pc = "mvtemp"
    <3>1. MoveTmp
      BY <1>4, <2>3, StepAt
    <3>2. dest = file[cur].name
      BY <2>1, <2>3, AtByTmp DEF ByTmp
    <3> QED BY <2>1, <3>1, <3>2, NewTextMoved DEF Holds, Alone
  <2> QED BY <2>1, <2>2, <2>3
<1>5. CASE Crash \/ UNCHANGED vars
  <2>1. UNCHANGED << disk, data, file >>
    BY <1>5 DEF Crash, vars
  <2> QED BY <1>1, <2>1 DEF Saved, Holds
<1> QED BY <1>2, <1>3, <1>4, <1>5, BecomesSaved DEF Next

(* When all is done, a file that was not changed is where it was read. *)
Unchanged == pc = "gone" => \A i \in Fn : file[i].st = "use" /\ file[i].can /\ ~ file[i].mod
                                           => ReadsOriginal(i)

(* The step to gone is RenameNext, with no file left. *)
LEMMA ReachesGone ==
  ASSUME SaveInv, SaveStep, pc' = "gone"
  PROVE  RenameNext
<1>1. CASE RenameOldest \/ RenameFirst
  BY <1>1, RenameSteps DEF RenameOldest, RenameFirst, svrename, GiveUp
<1>2. CASE DirCheckFails \/ CallFails \/ FlushInPlace \/ MoveTmp
  BY <1>2 DEF DirCheckFails, CallFails, FlushInPlace, MoveTmp, NextFile, GiveUp
<1>3. CASE RemoveBackups \/ StartSave \/ UnlinkBackup \/ CreateBackup
           \/ filecopy \/ la_freplace \/ TruncateOriginal \/ mkstemp \/ FlushTmp
           \/ UnlinkDeleted \/ MoveToBackup \/ UnlinkNext
  BY <1>3 DEF RemoveBackups, StartSave, UnlinkBackup, CreateBackup, filecopy, la_freplace,
              TruncateOriginal, mkstemp, FlushTmp, UnlinkDeleted, MoveToBackup, UnlinkNext
<1> QED BY <1>1, <1>2, <1>3 DEF SaveStep

(* The last step of saveall finds the unchanged files where they were. *)
LEMMA UnchangedStep ==
  ASSUME SaveInv, Unchanged, [Next]_vars
  PROVE  Unchanged'
<1> SUFFICES ASSUME pc' = "gone" PROVE Unchanged'
  BY DEF Unchanged
<1>1. CASE Command \/ Crash
  BY <1>1, CommandElse DEF Crash
<1>2. CASE UNCHANGED vars
  BY <1>2 DEF vars, Unchanged, ReadsOriginal, DiskName
<1>3. CASE SaveStep
  <2>1. RenameNext
    BY <1>3, ReachesGone
  <2>2. UNCHANGED << disk, data, file >> /\ pc = "renames" /\ whole /\ Homes
    BY <2>1, RenameSteps DEF svrename, GiveUp, SaveInv, Over
  <2>3. ASSUME NEW i \in Fn, file[i].st = "use", file[i].can, ~ file[i].mod PROVE ReadsOriginal(i)
    <3>1. Home(i)
      BY <2>2, <2>3 DEF Homes
    <3> QED BY <2>2, <2>3, <3>1 DEF Home, ReadsBackup, IsSaved, BeingSaved
  <2> QED BY <2>2, <2>3 DEF Unchanged, ReadsOriginal, DiskName
<1> QED BY <1>1, <1>2, <1>3 DEF Next

(* saveall returns YES only when all is done: if the session found no two of *)
(* the names to be links of one file, and nothing is ignored, every text   *)
(* is under its name, every deleted name is gone or taken, and no file is  *)
(* left to be renamed or saved.                                            *)
THEOREM AllIsSaved ==
  ASSUME Careful, RENAME
  PROVE  NoLinks /\ Spec => []SavedAll
<1> DEFINE Inv == AsRead /\ Passed /\ NoLinks /\ Written /\ Unchanged
<1>1. NoLinks /\ Init => Inv
  <2>1. Init => Unchanged
    BY DEF Init, Unchanged
  <2> QED BY <2>1, AsReadInit, PassedInit, WrittenInit
<1>2. SaveInv /\ Inv /\ [Next]_vars => Inv'
  BY AsReadStep, PassedStep, NoLinksStep, WrittenStep, UnchangedStep
<1>3. SaveInv /\ Inv => SavedAll
  <2> SUFFICES ASSUME SaveInv, Inv, pc = "gone", ~ ignored, NEW i \in Fn, file[i].upd
               PROVE  /\ file[i].st # "renamed" /\ ~ file[i].mod
                      /\ file[i].st = "use" => Holds(file[i].name, file[i].text)
                      /\ file[i].st = "deleted" =>
                           disk[file[i].name] = None \/ \E j \in Fn : Active(j) /\ file[j].name = file[i].name
    BY DEF SavedAll
  <2>1. file[i].st # "renamed" /\ ~ Eligible(i) /\ (ToDelete(i) => Gone(i))
    BY DEF Passed
  <2>2. ~ file[i].mod
    BY <2>1 DEF Eligible, Active, SaveInv, Table, Shape, TypeOK, File, Status
  <2>3. CASE file[i].st = "use" /\ ~ file[i].can
    BY <2>1, <2>2, <2>3 DEF Written, Saved
  <2>4. CASE file[i].st = "use" /\ file[i].can
    <3>1. ReadsOriginal(i) /\ file[i].text = file[i].was
      BY <2>2, <2>4 DEF Unchanged, AsRead, AsReadOf
    <3> QED BY <2>1, <2>2, <2>4, <3>1 DEF ReadsOriginal, DiskName, Holds
  <2> QED BY <2>1, <2>2, <2>3, <2>4 DEF ToDelete, Gone
<1> HIDE DEF Inv
<1> QED BY <1>1, <1>2, <1>3, Invariance, PTL DEF Spec
=============================================================================

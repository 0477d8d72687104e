-------------------------------- MODULE Save --------------------------------
(* Names and saving: what the commands edit, name, delete, update, save and *)
(* exit do to the table of files (fileflags, names, oldnames, fnlas) and,   *)
(* in savefile and saveall, to the disk.  Saving is a step per system call: *)
(* any call may fail, and the editor may crash between any two of them.     *)
(*                                                                         *)
(* The disk is names and inodes, because a stream of the line package goes *)
(* on reading the inode it has opened, whatever its name is now: saving in *)
(* place truncates the very inode from which the text is being read.       *)
EXTENDS Integers, FiniteSets

CONSTANTS
  Editable,     \* the names the user gives to files
  Spare,        \* the names mkstemp may make, and the backup names
  Tmp,          \* ... of which these are mkstemp's
  Bak,          \* Bak[n] = prebak, and the file part of n
  None,         \* no name, or no inode
  MaxFn,        \* FIRSTFILE + NTMPFILES .. MAXFILES - 1, numbered from 1
  NInode,       \* inodes there are
  MaxText,      \* texts there are: bounds the edits
  MaxExits,     \* times the user says exit, or save: bounds the retries
  RENAME,       \* there is a rename system call (localenv.h)
  InitDisk,     \* disks the session may find
  Tangle,       \* users give a file the old name of a renamed one
  RetryInPlace, \* users exit again when saving in place has failed after
                \* la_freplace: the stream reads the backup then
  DELETE,       \* there is a delete command (e.h)
  Reopen        \* users edit another link of a file they have deleted

ASSUME ConstantsAssumption ==
  /\ IsFiniteSet(Editable) /\ IsFiniteSet(Spare)
  /\ Editable \cap Spare = {} /\ None \notin Editable \cup Spare
  /\ Tmp \subseteq Spare
  /\ Bak \in [Editable -> Spare \ Tmp]
  /\ \A m, n \in Editable : Bak[m] = Bak[n] => m = n
  /\ MaxFn \in Nat /\ NInode \in Nat /\ MaxText \in Nat /\ MaxExits \in Nat
  /\ None \notin 1 .. NInode /\ NInode <= MaxText
  /\ NInode >= Cardinality(Editable \cup Spare) + MaxFn    \* creat finds one
  /\ RENAME \in BOOLEAN /\ DELETE \in BOOLEAN
  /\ Tangle \in BOOLEAN /\ RetryInPlace \in BOOLEAN /\ Reopen \in BOOLEAN
  /\ InitDisk \subseteq [Editable \cup Spare -> 1 .. NInode \cup {None}]

Name  == Editable \cup Spare
Fn    == 1 .. MaxFn
Inode == 1 .. NInode

(* A text is a number.  A file that was there first has the number of its   *)
(* inode; 0 is the empty file; Torn is a file half written, or a stream     *)
(* whose inode was truncated.                                              *)
Torn == -1
Text == {Torn} \cup 0 .. MaxText

(* st is INUSE with at most one of NEW, DELETED and RENAMED.  DWRITEABLE    *)
(* and CANMODIFY are one flag, can: files and directories are writeable,   *)
(* so that both are set by editfile and cleared by savefile.  The streams   *)
(* of an entry are fnlas and lastlook[].las: delete closes only the first, *)
(* so that the La_file stays open, and is still found by its inode.        *)
Status == {"free", "use", "new", "deleted", "renamed"}

File == [st : Status, name : Editable \cup {None}, old : Editable \cup {None},
         can : BOOLEAN, upd : BOOLEAN, inplace : BOOLEAN,
         las : BOOLEAN,                   \* the stream lastlook[].las is open
         mod : BOOLEAN,                   \* LA_MODIFIED
         base : Inode \cup {None},        \* the inode of la_ffs
         text : Text,                     \* what the La_file has
         was : Text]                      \* what the disk held when it was read

NoFile == [st |-> "free", name |-> None, old |-> None, can |-> FALSE, upd |-> FALSE,
           inplace |-> FALSE, las |-> FALSE, mod |-> FALSE, base |-> None,
           text |-> 0, was |-> 0]

VARIABLES
  disk,     \* disk[n]: the inode of a name
  data,     \* data[i]: the text of an inode
  file,     \* the table of files
  pc,       \* the step savefile or saveall is at; "edit" between commands
  cur,      \* the fn it is at
  dest,     \* origfile
  whole,    \* saveall, not the save command
  tmp,      \* tempfile
  bound,    \* texts made and exits tried so far
  ignored   \* a failing mv that savefile does not look at has happened

vars == << disk, data, file, pc, cur, dest, whole, tmp, bound, ignored >>

Steps == {"baks", "saves", "renold", "rename", "unbak", "creatbak", "copybak",
          "freplace", "creat", "flush", "mkstemp", "tflush", "undel", "mvbak",
          "mvtemp", "deletes", "renames"}

TypeOK ==
  /\ disk \in [Name -> Inode \cup {None}]
  /\ data \in [Inode -> Text]
  /\ file \in [Fn -> File]
  /\ pc \in Steps \cup {"edit", "gone", "dead"}
  /\ cur \in 0 .. MaxFn
  /\ dest \in Editable \cup {None}
  /\ whole \in BOOLEAN
  /\ tmp \in Tmp \cup {None}
  /\ bound \in [texts : 0 .. MaxText, exits : 0 .. MaxExits]
  /\ ignored \in BOOLEAN

Init ==
  /\ disk \in InitDisk
  /\ data = [i \in Inode |-> i]
  /\ file = [i \in Fn |-> NoFile]
  /\ pc = "edit" /\ cur = 0 /\ dest = None /\ whole = FALSE /\ tmp = None
  /\ bound = [texts |-> NInode, exits |-> 0]
  /\ ignored = FALSE

-----------------------------------------------------------------------------
(* e.f.c: the three searches of the table.  0 is their -1. *)

First(S) == IF S = {} THEN 0 ELSE CHOOSE i \in S : \A j \in S : i <= j

Active(i) == file[i].st \in {"use", "new", "renamed"}

hvname(n)    == First({i \in Fn : Active(i) /\ file[i].name = n})
hvoldname(n) == First({i \in Fn : file[i].st = "renamed" /\ file[i].old = n})
hvdelname(n) == First({i \in Fn : file[i].st = "deleted" /\ file[i].name = n})

(* System calls.  unlink does not fail: dircheck has just looked whether the *)
(* directory can be written, and for deletes DWRITEABLE says it could.     *)
Unlink(d, n) == [d EXCEPT ![n] = None]

Unused(d) == {i \in Inode : /\ \A n \in Name : d[n] # i
                            /\ \A k \in Fn : file[k].base # i}

(* mv gives the disks it may leave behind, and whether it says YES.  Without *)
(* rename(2) it unlinks name2, links name1 to it and unlinks name1.        *)
Result(d, yes) == [disk |-> d, ok |-> yes]

mv(d, from, to) ==
  LET moved == IF RENAME /\ d[from] = d[to]    \* rename(2) leaves two links
                 THEN d ELSE [d EXCEPT ![to] = d[from], ![from] = None]
  IN  {Result(d, FALSE)}
      \cup (IF d[from] = None THEN {} ELSE {Result(moved, TRUE)})
      \cup (IF RENAME THEN {}
            ELSE {Result(Unlink(d, to), FALSE)} \cup
                 (IF d[from] = None THEN {}
                  ELSE {Result([d EXCEPT ![to] = d[from]], FALSE)}))

-----------------------------------------------------------------------------
(* Commands, between which nothing else happens.  A command that is refused *)
(* changes nothing and is no step.                                         *)

(* The entries with a stream of the La_file that reads an inode, and those   *)
(* with a stream of that of i.  A new file reads the change file, where     *)
(* nobody looks for it.                                                    *)
Readers(ino) == {i \in Fn : file[i].base = ino}
Streams(i)   == {i} \cup {k \in Fn : file[i].base # None /\ file[k].base = file[i].base}

(* la_ffopen: a La_file that reads the inode already is shared, whatever    *)
(* has become of its text.                                                 *)
la_ffopen(ino) == IF Readers(ino) = {}
                    THEN [mod |-> FALSE, text |-> data[ino], was |-> data[ino]]
                    ELSE file[First(Readers(ino))]

la_unmodify(i) ==
  [k \in Fn |-> IF k \in Streams(i) THEN [file[k] EXCEPT !.mod = FALSE] ELSE file[k]]

(* The first entry that shares the La_file is the file the user gets, unless *)
(* it is a deleted one.                                                    *)
Linked(ino) ==
  LET tfn == First({i \in Readers(ino) : file[i].st \in {"use", "renamed", "deleted"}})
  IN  tfn # 0 /\ file[tfn].st # "deleted"

(* editfile (e.u.c): a file we have is shown again; a name that is held as  *)
(* an old or a deleted one, or is not on the disk, becomes a new file;     *)
(* another name (link) of an open file is that file.  What becomes of a    *)
(* session whose next entry still has a stream in lastlook is not followed: *)
(* la_clone makes a new stream over the open one.                          *)
EditFile(n) ==
  LET held  == hvoldname(n) # 0 \/ hvdelname(n) # 0
      newfn == First({i \in Fn : file[i].st = "free"})
      ino   == disk[n]
      laf   == la_ffopen(ino)
      named == [NoFile EXCEPT !.name = n, !.can = TRUE, !.upd = TRUE, !.las = TRUE]
      opened == IF held \/ ino = None
                  THEN [named EXCEPT !.st = "new"]
                  ELSE [named EXCEPT !.st = "use", !.base = ino, !.mod = laf.mod,
                                     !.text = laf.text, !.was = laf.was]
  IN  /\ pc = "edit" /\ newfn # 0 /\ ~ file[newfn].las
      /\ hvname(n) = 0
      /\ held \/ ino = None \/ (~ Linked(ino) /\ (Reopen \/ Readers(ino) = {}))
      /\ file' = [file EXCEPT ![newfn] = opened]
      /\ UNCHANGED << disk, data, pc, cur, dest, whole, tmp, bound, ignored >>

(* Any change of the text of a file. *)
Modify(i) ==
  /\ pc = "edit" /\ Active(i) /\ file[i].can
  /\ bound.texts < MaxText
  /\ file' = [k \in Fn |-> IF k \in Streams(i)
                             THEN [file[k] EXCEPT !.text = bound.texts + 1, !.mod = TRUE]
                             ELSE file[k]]
  /\ bound' = [bound EXCEPT !.texts = @ + 1]
  /\ UNCHANGED << disk, data, pc, cur, dest, whole, tmp, ignored >>

(* name (e.nm.c): back to the old name of this file, or to a name that is   *)
(* neither ours nor on the disk; deleted and old names count as free.      *)
NameBack(i, n) ==
  /\ pc = "edit" /\ file[i].st = "renamed" /\ file[i].old = n
  /\ Tangle \/ hvname(n) = 0
  /\ file' = [file EXCEPT ![i].name = n, ![i].old = None, ![i].st = "use"]
  /\ UNCHANGED << disk, data, pc, cur, dest, whole, tmp, bound, ignored >>

OnDiskOnly(n) == disk[n] # None /\ hvdelname(n) = 0 /\ hvoldname(n) = 0

(* Mutant of NameFree: a name of ours is not noticed. *)
NameFreeOfDisk(n) == ~ OnDiskOnly(n)

NameFree(n) == hvname(n) = 0 /\ ~ OnDiskOnly(n)

NameTo(i, n) ==
  LET f == file[i] IN
  /\ pc = "edit" /\ Active(i) /\ f.can /\ ~ (f.st = "renamed" /\ f.old = n)
  /\ NameFree(n)
  /\ Tangle \/ f.st = "new" \/ hvoldname(n) = 0
  /\ file' = [file EXCEPT ![i] = IF f.st = "use"
                                   THEN [f EXCEPT !.name = n, !.old = f.name, !.st = "renamed"]
                                   ELSE [f EXCEPT !.name = n]]
  /\ UNCHANGED << disk, data, pc, cur, dest, whole, tmp, bound, ignored >>

(* delete (e.nm.c): a new file is thrown away, a renamed one is deleted      *)
(* under the name it has on the disk.  The stream in lastlook stays open,   *)
(* and with it the La_file, its text and its inode.                        *)
Delete(i) ==
  LET f == file[i] IN
  /\ DELETE
  /\ pc = "edit" /\ Active(i) /\ f.can
  /\ file' = IF f.st = "new" THEN [file EXCEPT ![i] = [NoFile EXCEPT !.las = TRUE]]
             ELSE [la_unmodify(i) EXCEPT
                     ![i].st = "deleted", ![i].old = None, ![i].can = FALSE,
                     ![i].name = IF f.st = "renamed" THEN f.old ELSE f.name]
  /\ UNCHANGED << disk, data, pc, cur, dest, whole, tmp, bound, ignored >>

(* my_doupdate (e.cm.c): "update", "-update", "update inplace" and            *)
(* "update -inplace".                                                      *)
Update(i, on, inplace) ==
  LET f == file[i] IN
  /\ pc = "edit" /\ Active(i)
  /\ (on => f.can) /\ (inplace => on /\ f.st # "new")
  /\ << on, inplace >> # << f.upd, f.inplace >>
  /\ file' = [file EXCEPT ![i].upd = on, ![i].inplace = IF on THEN inplace ELSE @]
  /\ UNCHANGED << disk, data, pc, cur, dest, whole, tmp, bound, ignored >>

(* save (e.sv.c): refused for a name that is ours in any way. *)
SaveCommand(i, n) ==
  /\ pc = "edit" /\ Active(i) /\ bound.exits < MaxExits
  /\ hvname(n) = 0 /\ hvdelname(n) = 0 /\ hvoldname(n) = 0
  /\ pc' = "mkstemp" /\ cur' = i /\ dest' = n /\ whole' = FALSE
  /\ bound' = [bound EXCEPT !.exits = @ + 1]
  /\ UNCHANGED << disk, data, file, tmp, ignored >>

(* exit, or call: saveall. *)
Exit ==
  /\ pc = "edit" /\ bound.exits < MaxExits
  /\ RetryInPlace \/ \A i \in Fn : file[i].mod /\ file[i].base # None
                                   => \E n \in Editable : disk[n] = file[i].base
  /\ pc' = "baks" /\ cur' = 0 /\ whole' = TRUE
  /\ bound' = [bound EXCEPT !.exits = @ + 1]
  /\ UNCHANGED << disk, data, file, dest, tmp, ignored >>

-----------------------------------------------------------------------------
(* savefile and saveall. *)

(* What saveall saves: INUSE and UPDATE, not DELETED, and modified. *)
Eligible(i)  == Active(i) /\ file[i].upd /\ file[i].mod
NextEligible == First({i \in Fn : i > cur /\ Eligible(i)})

(* NO: saveall calls reenter, and the session goes on. *)
GiveUp == /\ pc' = "edit" /\ cur' = 0 /\ dest' = None /\ whole' = FALSE /\ tmp' = None

(* YES: nothing more will happen to a file that saveall has saved. *)
SavedFlags(i) ==
  IF whole THEN [la_unmodify(i) EXCEPT ![i].st = "use", ![i].can = FALSE] ELSE file

NextFile == IF whole THEN /\ pc' = "saves" /\ dest' = None /\ tmp' = None
                          /\ UNCHANGED << cur, whole >>
                     ELSE GiveUp

(* Mutant of RemoveBackups: what was deleted goes before anything is saved. *)
DeletesFirst ==
  /\ pc = "baks"
  /\ IF NextEligible = 0
       THEN pc' = "deletes" /\ cur' = 0 /\ UNCHANGED disk
       ELSE /\ cur' = NextEligible /\ UNCHANGED pc
            /\ disk' = Unlink(disk, Bak[file[NextEligible].name])
  /\ UNCHANGED << data, file, dest, whole, tmp, bound, ignored >>

(* The first pass only removes the backups of what the second will save. *)
RemoveBackups ==
  /\ pc = "baks"
  /\ IF NextEligible = 0
       THEN pc' = "saves" /\ cur' = 0 /\ UNCHANGED disk
       ELSE /\ cur' = NextEligible /\ UNCHANGED pc
            /\ disk' = Unlink(disk, Bak[file[NextEligible].name])
  /\ UNCHANGED << data, file, dest, whole, tmp, bound, ignored >>

StartSave ==
  /\ pc = "saves"
  /\ IF NextEligible = 0
       THEN pc' = "deletes" /\ cur' = 0 /\ UNCHANGED dest
       ELSE pc' = "renold" /\ cur' = NextEligible /\ dest' = file[NextEligible].name
  /\ UNCHANGED << disk, data, file, whole, tmp, bound, ignored >>

(* dircheck fails at the start of savefile, in either pass. *)
DirCheckFails ==
  /\ pc \in {"baks", "saves"} /\ NextEligible # 0
  /\ GiveUp
  /\ UNCHANGED << disk, data, file, bound, ignored >>

(* A deleted file whose name a file on the disk has taken is forgotten,      *)
(* except by lastlook.                                                     *)
KeepDeleted(f, n) == f     \* mutant of FreeDeleted: it is unlinked in the end
FreeDeleted(f, n) == IF hvdelname(n) = 0 THEN f
                     ELSE [f EXCEPT ![hvdelname(n)].st = "free", ![hvdelname(n)].name = None]

(* svrename: the file now has its new name on the disk, and a deleted file   *)
(* of that name has gone with it.                                          *)
svrename(t, next) ==
  \E r \in mv(disk, file[t].old, file[t].name) :
    /\ disk' = r.disk
    /\ IF r.ok
         THEN /\ file' = FreeDeleted([file EXCEPT ![t].st = "use", ![t].old = None],
                                     file[t].name)
              /\ pc' = next
              /\ UNCHANGED << cur, dest, whole, tmp >>
         ELSE UNCHANGED file /\ GiveUp
    /\ UNCHANGED << data, bound, ignored >>

Skip(next) == /\ pc' = next
              /\ UNCHANGED << disk, data, file, cur, dest, whole, tmp, bound, ignored >>

(* A renamed file whose old name is the one we save to is renamed first,     *)
(* then the file itself.                                                   *)
RenameOldest ==
  /\ pc = "renold"
  /\ LET t == hvoldname(dest) IN IF t # 0 THEN svrename(t, "rename") ELSE Skip("rename")

RenameFirst ==
  /\ pc = "rename"
  /\ LET next == IF file[cur].inplace THEN "unbak" ELSE "mkstemp"
     IN  IF file[cur].st = "renamed" THEN svrename(cur, next) ELSE Skip(next)

(* A system call of savefile fails, and it says so: NO. *)
CallFails ==
  /\ \/ pc \in {"creatbak", "freplace", "creat", "flush", "mkstemp"}
        /\ UNCHANGED disk
     \/ pc = "copybak" /\ disk' = Unlink(disk, Bak[dest])
     \/ pc = "tflush"  /\ disk' = Unlink(disk, tmp)
  /\ GiveUp
  /\ UNCHANGED << data, file, bound, ignored >>

(* Mutants of UnlinkBackup: no backup is made; of filecopy: the stream is    *)
(* left reading the original.                                              *)
NoBackup ==
  /\ pc = "unbak" /\ pc' = "creat"
  /\ disk' = Unlink(disk, Bak[dest])
  /\ UNCHANGED << data, file, cur, dest, whole, tmp, bound, ignored >>

CopyOnly ==
  /\ pc = "copybak" /\ pc' = "creat"
  /\ data' = [data EXCEPT ![disk[Bak[dest]]] = data[disk[dest]]]
  /\ UNCHANGED << disk, file, cur, dest, whole, tmp, bound, ignored >>

(* In place: the original is copied to the backup, from which the text is    *)
(* read from now on; then it is truncated and written again.               *)
UnlinkBackup ==
  /\ pc = "unbak" /\ pc' = "creatbak"
  /\ disk' = Unlink(disk, Bak[dest])
  /\ UNCHANGED << data, file, cur, dest, whole, tmp, bound, ignored >>

CreateBackup ==
  /\ pc = "creatbak" /\ pc' = "copybak"
  /\ disk[dest] # None
  /\ disk' = [disk EXCEPT ![Bak[dest]] = First(Unused(disk))]
  /\ data' = [data EXCEPT ![First(Unused(disk))] = Torn]
  /\ UNCHANGED << file, cur, dest, whole, tmp, bound, ignored >>

filecopy ==
  /\ pc = "copybak" /\ pc' = "freplace"
  /\ data' = [data EXCEPT ![disk[Bak[dest]]] = data[disk[dest]]]
  /\ UNCHANGED << disk, file, cur, dest, whole, tmp, bound, ignored >>

(* la_freplace trusts that the file it is given has the bytes of the one the *)
(* stream had: if it has not, the text is not what it was.                 *)
la_freplace ==
  LET f   == file[cur]
      ino == disk[Bak[dest]]
  IN  /\ pc = "freplace" /\ pc' = "creat"
      /\ file' = [k \in Fn |->
                   IF k \in Streams(cur)
                     THEN [file[k] EXCEPT !.base = ino,
                                          !.text = IF data[ino] = f.was THEN @ ELSE Torn]
                     ELSE file[k]]
      /\ UNCHANGED << disk, data, cur, dest, whole, tmp, bound, ignored >>

TruncateOriginal ==
  /\ pc = "creat" /\ pc' = "flush"
  /\ data' = [data EXCEPT ![disk[dest]] = Torn]
  /\ file' = [i \in Fn |-> IF file[i].base = disk[dest]
                             THEN [file[i] EXCEPT !.text = Torn] ELSE file[i]]
  /\ UNCHANGED << disk, cur, dest, whole, tmp, bound, ignored >>

FlushInPlace ==
  /\ pc = "flush"
  /\ data' = [data EXCEPT ![disk[dest]] = file[cur].text]
  /\ file' = SavedFlags(cur)
  /\ NextFile
  /\ UNCHANGED << disk, bound, ignored >>

(* Mutant of mkstemp: any spare name will do. *)
AnySpareName ==
  /\ pc = "mkstemp" /\ pc' = "tflush"
  /\ \E t \in Spare :
       /\ disk[t] = None
       /\ tmp' = t
       /\ disk' = [disk EXCEPT ![t] = First(Unused(disk))]
  /\ data' = [data EXCEPT ![First(Unused(disk))] = Torn]
  /\ UNCHANGED << file, cur, dest, whole, bound, ignored >>

(* Not in place: a temporary file is written, the original becomes the       *)
(* backup, and the temporary file the original.                            *)
mkstemp ==
  /\ pc = "mkstemp" /\ pc' = "tflush"
  /\ \E t \in Tmp :
       /\ disk[t] = None
       /\ tmp' = t
       /\ disk' = [disk EXCEPT ![t] = First(Unused(disk))]
  /\ data' = [data EXCEPT ![First(Unused(disk))] = Torn]
  /\ UNCHANGED << file, cur, dest, whole, bound, ignored >>

FlushTmp ==
  /\ pc = "tflush" /\ pc' = "undel"
  /\ data' = [data EXCEPT ![disk[tmp]] = file[cur].text]
  /\ UNCHANGED << disk, file, cur, dest, whole, tmp, bound, ignored >>

(* Mutant of UnlinkDeleted: what has the name goes, whether deleted or not. *)
UnlinkAny ==
  /\ pc = "undel" /\ pc' = "mvbak"
  /\ disk' = Unlink(disk, dest)
  /\ file' = FreeDeleted(file, dest)
  /\ UNCHANGED << data, cur, dest, whole, tmp, bound, ignored >>

UnlinkDeleted ==
  /\ pc = "undel" /\ pc' = "mvbak"
  /\ disk' = IF hvdelname(dest) # 0 THEN Unlink(disk, dest) ELSE disk
  /\ file' = FreeDeleted(file, dest)
  /\ UNCHANGED << data, cur, dest, whole, tmp, bound, ignored >>

(* tmp = mv (origfile, bakfile), and tmp is not looked at. *)
MoveToBackup ==
  /\ pc = "mvbak" /\ pc' = "mvtemp"
  /\ \E r \in mv(disk, dest, Bak[dest]) :
       /\ disk' = r.disk
       /\ ignored' = (ignored \/ (~ r.ok /\ disk[dest] # None))
  /\ UNCHANGED << data, file, cur, dest, whole, tmp, bound >>

(* tmp = mv (tempfile, origfile), nor is this one. *)
MoveTmp ==
  /\ pc = "mvtemp"
  /\ \E r \in mv(disk, tmp, dest) :
       /\ disk' = r.disk
       /\ ignored' = (ignored \/ ~ r.ok)
  /\ file' = SavedFlags(cur)
  /\ NextFile
  /\ UNCHANGED << data, bound >>

(* What is left: the deleted files, then the renamed ones. *)
NextWith(st) == First({i \in Fn : i > cur /\ file[i].st = st /\ file[i].upd})

(* Mutant of UnlinkNext: the loop looks at the same file again. *)
UnlinkFirst ==
  LET i == NextWith("deleted") IN
  /\ pc = "deletes"
  /\ IF i = 0 THEN pc' = "renames" /\ cur' = 0 /\ UNCHANGED disk
              ELSE disk' = Unlink(disk, file[i].name) /\ UNCHANGED << cur, pc >>
  /\ UNCHANGED << data, file, dest, whole, tmp, bound, ignored >>

UnlinkNext ==
  LET i == NextWith("deleted") IN
  /\ pc = "deletes"
  /\ IF i = 0 THEN pc' = "renames" /\ cur' = 0 /\ UNCHANGED disk
              ELSE disk' = Unlink(disk, file[i].name) /\ cur' = i /\ UNCHANGED pc
  /\ UNCHANGED << data, file, dest, whole, tmp, bound, ignored >>

RenameNext ==
  LET i == NextWith("renamed") IN
  /\ pc = "renames"
  /\ IF i = 0 THEN Skip("gone") ELSE svrename(i, "renames")

SaveStep == \/ RemoveBackups \/ StartSave \/ DirCheckFails
            \/ RenameOldest \/ RenameFirst \/ CallFails
            \/ UnlinkBackup \/ CreateBackup \/ filecopy \/ la_freplace
            \/ TruncateOriginal \/ FlushInPlace
            \/ mkstemp \/ FlushTmp \/ UnlinkDeleted \/ MoveToBackup \/ MoveTmp
            \/ UnlinkNext \/ RenameNext

(* The editor dies between two system calls. *)
Crash == /\ pc \in Steps /\ pc' = "dead"
         /\ UNCHANGED << disk, data, file, cur, dest, whole, tmp, bound, ignored >>

Command ==
  \/ Exit
  \/ \E n \in Editable : EditFile(n)
  \/ \E i \in Fn : Modify(i) \/ Delete(i)
  \/ \E i \in Fn, n \in Editable : NameBack(i, n) \/ NameTo(i, n) \/ SaveCommand(i, n)
  \/ \E i \in Fn, on, inplace \in BOOLEAN : Update(i, on, inplace)

Next == Command \/ SaveStep \/ Crash

(* The code of savefile and saveall runs on: its loops are bounded, and every *)
(* system call returns.  Users need not do anything.                       *)
Spec == Init /\ [][Next]_vars /\ WF_vars(SaveStep)

-----------------------------------------------------------------------------
(* What the table and the disk must satisfy. *)

(* A name is in the table more than once only as e.h (the comment on        *)
(* fileflags) lists it: a deleted name and a new or renamed one, and the    *)
(* old name of a renamed file and a new one.                               *)
NameTable ==
  \A i, j \in Fn : i # j =>
    /\ file[i].st # "free" /\ file[j].st # "free" /\ file[i].name = file[j].name
         => \/ file[i].st = "deleted" /\ file[j].st \in {"new", "renamed"}
            \/ file[j].st = "deleted" /\ file[i].st \in {"new", "renamed"}
    /\ file[i].st = "renamed" /\ file[j].st # "free" /\ file[i].old = file[j].name
         => file[j].st = "new"
    /\ file[i].st = "renamed" /\ file[j].st = "renamed" => file[i].old # file[j].old

Holds(n, t) == disk[n] # None /\ data[disk[n]] = t

(* Whatever fails and wherever the editor dies, the text of every file that  *)
(* was on the disk, as it was or as it was edited, has a name on the disk: *)
(* savefile writes the new text before it lets go of the old one.          *)
TextSurvives ==
  \A i \in Fn : file[i].st \in {"use", "renamed"} =>
    \E n \in Name : Holds(n, file[i].was) \/ Holds(n, file[i].text)

(* The editor goes on showing what the user wrote: no stream reads an inode  *)
(* that savefile truncates under it.                                       *)
EditorKeeps == \A i \in Fn : file[i].text = Torn => file[i].was = Torn

(* saveall returns YES only when all is done: every text under its name,     *)
(* every deleted name gone, no file left to be renamed.                    *)
SavedAll ==
  pc = "gone" /\ ~ ignored =>
    \A i \in Fn : file[i].upd =>
      /\ file[i].st # "renamed" /\ ~ file[i].mod
      /\ file[i].st = "use" => Holds(file[i].name, file[i].text)
      /\ file[i].st = "deleted" =>
           disk[file[i].name] = None \/ \E j \in Fn : Active(j) /\ file[j].name = file[i].name

(* After a normal exit, a file that was saved has a backup with the text it  *)
(* had before the session.                                                 *)
BackupKept ==
  pc = "gone" /\ ~ ignored =>
    \A i \in Fn : file[i].st = "use" /\ ~ file[i].can /\ file[i].was # 0
                    => Holds(Bak[file[i].name], file[i].was)

(* Permanent actions come as late as possible (saveall): a step takes the    *)
(* last name of a text only if the user deleted it, and then either another *)
(* file takes the name or all the saving is done.                          *)
PermanentLast ==
  [][~ ignored' =>
      \A n \in Editable :
       disk[n] # None /\ (\A m \in Name : disk'[m] # disk[n]) =>
         /\ hvdelname(n) # 0
         /\ disk'[n] # None \/ n = dest \/ \A i \in Fn : ~ Eligible(i)]_vars

(* saveall and savefile end: the session is over, or goes on. *)
SavingEnds == pc \in Steps ~> pc \in {"edit", "gone", "dead"}
=============================================================================

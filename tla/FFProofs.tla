------------------------------ MODULE FFProofs ------------------------------
(***************************************************************************)
(* Theorems about FF, for every number of files, streams and buffers, every *)
(* block size and every bound.                                             *)
(***************************************************************************)
EXTENDS FF, TLAPS, FiniteSetTheorems, SequenceTheorems

-----------------------------------------------------------------------------
(* Lemmas about the operators of FF. *)

(* Addresses and block numbers are natural numbers. *)
LEMMA MulNat == \A a, b \in Nat : a * b \in Nat
  OBVIOUS

(* An address has a block and an offset in it. *)
LEMMA DivRem == \A a \in Nat : Blk(a) \in Nat /\ Rem(a) \in Off
  BY BSizeAssumption DEF Blk, Rem, Off

(* write(2) leaves a file that is one. *)
LEMMA SysWriteType ==
  ASSUME NEW d \in Disks, NEW pos \in Nat, NEW c \in Nat, NEW buf,
         \A i \in 0 .. c - 1 : buf[i] \in Bytes
  PROVE  SysWrite(d, pos, c, buf) \in Disks
  <1>1. (IF c = 0 THEN d.len ELSE Greater(d.len, pos + c)) \in Nat
    BY DEF Disks, Greater
  <1>2. \A a \in Addr : a \in Int
    BY BSizeAssumption, BoundAssumption DEF Addr
  <1>3. ASSUME NEW a \in Addr
        PROVE  (IF a \in pos .. pos + c - 1 THEN buf[a - pos] ELSE d.at[a]) \in Bytes
    BY <1>2, <1>3 DEF Disks
  <1> QED
    BY <1>1, <1>3 DEF SysWrite, Disks

(* A buffer that belongs to a file holds a block of it. *)
Owned ==
  \A b \in Buf : ff_buf[b].fb_file # NoFile =>
    ff_buf[b].fb_bnum \in Nat /\ ff_buf[b].fb_count \in 0 .. BSIZE

(* A file with streams has a descriptor. *)
Attached == \A f \in File : ff_files[f].fn_refs > 0 => ff_files[f].path # NoPath

(* A call that concerns a file knows it, reads and writes have a buffer to  *)
(* use, and ff_free has one to free.                                       *)
CallOK ==
  /\ call.op \in {"read", "write", "close", "grow"} =>
       call.f \in File /\ ff_files[call.f].path # NoPath
  /\ call.op \in {"read", "write"} => Len(ff_flist) >= MinPool
  /\ call.op = "free" => Len(ff_flist) > MinPool

Types == TypeOK /\ Owned /\ CallOK /\ Attached

(* Where a transfer starts is an address. *)
LEMMA SeekToNat ==
  ASSUME TypeOK, NEW f \in File, NEW blk \in Nat
  PROVE  SeekTo(f, blk) \in Nat
  <1>1. blk * BSIZE \in Nat
    BY MulNat, BSizeAssumption
  <1> QED
    BY <1>1 DEF TypeOK, Files, SeekTo

(* Where a call is, and how much of its block it takes. *)
LEMMA Cursor ==
  ASSUME TypeOK
  PROVE  /\ CurOff \in Nat /\ CurBlk \in Nat /\ Rem(CurOff) \in Off
         /\ Fetching => ChunkLen \in 1 .. BSIZE - Rem(CurOff)
  <1>1. call.at \in Nat /\ call.done \in Nat /\ call.n \in Nat
    BY DEF TypeOK, Calls
  <1>2. CurOff \in Nat /\ CurBlk \in Nat /\ Rem(CurOff) \in Off
    BY <1>1, DivRem DEF CurOff, CurBlk
  <1>3. ASSUME Fetching PROVE ChunkLen \in 1 .. BSIZE - Rem(CurOff)
    <2>1. Rem(CurOff) \in 0 .. BSIZE - 1
      BY <1>2 DEF Off
    <2> QED
      BY <1>1, <1>3, <2>1, BSizeAssumption DEF ChunkLen, Lesser, Fetching
  <1> QED
    BY <1>2, <1>3

(* Touching a buffer reorders the pool and no more. *)
LEMMA TouchType ==
  ASSUME TypeOK, NEW b \in Buf
  PROVE  Touch(b) \in Seq(Buf) /\ Len(Touch(b)) = Len(ff_flist)
  <1> DEFINE n == Len(ff_flist)
  <1>1. ff_flist \in Seq(Buf) /\ n \in Nat /\ \A j \in 1 .. n : ff_flist[j] \in Buf
    BY DEF TypeOK
  <1>2. CASE ~ \E i \in 1 .. n : i > 2 /\ ff_flist[i] = b
    BY <1>1, <1>2 DEF Touch
  <1>3. CASE \E i \in 1 .. n : i > 2 /\ ff_flist[i] = b
    <2> DEFINE i == CHOOSE j \in 1 .. n : ff_flist[j] = b
               T == [j \in 1 .. n |-> IF j = 1 THEN b
                                      ELSE IF j <= i THEN ff_flist[j - 1] ELSE ff_flist[j]]
    <2>1. i \in 1 .. n
      BY <1>3
    <2>2. Touch(b) = T
      BY <1>3 DEF Touch
    <2> HIDE DEF i
    <2>3. \A j \in 1 .. n : T[j] \in Buf
      BY <1>1, <2>1
    <2>4. T \in Seq(Buf) /\ Len(T) = n
      BY <1>1, <2>3
    <2> QED
      BY <2>2, <2>4
  <1> QED
    BY <1>2, <1>3

-----------------------------------------------------------------------------
(* The reference counts. *)

StreamsOf(f) == {s \in Stream : ff_streams[s].f_file = f}

(* fn_refs counts the streams open on the file. *)
RefsMatch == \A f \in File : ff_files[f].fn_refs = Cardinality(StreamsOf(f))

(* No file is open before there are buffers, and ff_free leaves some. *)
Pooled == \A s \in Stream : Open(s) => Len(ff_flist) >= MinPool

TypeInv == Types /\ RefsMatch /\ Pooled

(* It holds to begin with. *)
LEMMA InitTypeInv == Init => TypeInv
  <1> SUFFICES ASSUME Init PROVE TypeInv
    OBVIOUS
  <1> USE BSizeAssumption, SlotAssumption
  <1>1. Ended("ok") \in Calls
    BY DEF Ended, Calls, Ops, Bytes, NoFile
  <1>2. FreeFile \in Files /\ FreeStream \in Streams /\ NewBuf \in Buffers
    BY DEF FreeFile, FreeStream, NewBuf, Files, Streams, Buffers, NoFile, Bytes
  <1>3. TypeOK
    BY <1>1, <1>2, PathAssumption DEF Init, TypeOK, NoFilter, NoFile
  <1>4. Owned /\ CallOK /\ Attached
    BY DEF Init, Owned, CallOK, Attached, NewBuf, Ended, NoFile, FreeFile
  <1>5. ASSUME NEW f \in File PROVE ff_files[f].fn_refs = Cardinality(StreamsOf(f))
    <2>1. StreamsOf(f) = {}
      BY DEF Init, StreamsOf, FreeStream, NoFile, File
    <2> QED
      BY <2>1, FS_EmptySet DEF Init, FreeFile
  <1>6. Pooled
    BY DEF Init, Pooled, Open, FreeStream
  <1> QED
    BY <1>3, <1>4, <1>5, <1>6 DEF TypeInv, Types, RefsMatch

-----------------------------------------------------------------------------
(* Every step keeps the types. *)

(* A call that has returned is none. *)
LEMMA ReturnType == ASSUME NEW r \in {"ok", "err"}, Return(r) PROVE call' \in Calls /\ CallOK'
  BY DEF Return, Ended, Calls, CallOK, Ops, Bytes, NoFile

(* A call that begins is one. *)
LEMMA RequestType ==
  ASSUME NEW op \in Ops, NEW s \in Stream \cup {0}, NEW f \in File \cup {NoFile},
         NEW at \in Nat, NEW n \in Nat, NEW v \in Bytes
  PROVE  Request(op, s, f, at, n, v) \in Calls
  BY DEF Request, Calls

(* A seek or a transfer changes the position of a file, and what ff takes it to
   be, and no more. *)
LEMMA MovedType ==
  ASSUME Types, NEW f \in File, NEW pos \in Nat, NEW realblk \in Nat \cup {-1},
         ff_files' = Moved(f, pos, realblk)
  PROVE  /\ ff_files' \in [File -> Files]
         /\ Attached'
         /\ call' = call /\ ff_flist' = ff_flist => CallOK'
  <1>1. /\ Moved(f, pos, realblk) \in [File -> Files]
        /\ \A g \in File : /\ Moved(f, pos, realblk)[g].path = ff_files[g].path
                           /\ Moved(f, pos, realblk)[g].fn_refs = ff_files[g].fn_refs
    BY ZenonT(45) DEF Types, TypeOK, Files, Moved
  <1>2. \A g \in File : /\ ff_files'[g].path = ff_files[g].path
                        /\ ff_files'[g].fn_refs = ff_files[g].fn_refs
    BY <1>1
  <1> QED
    BY <1>1, <1>2 DEF Types, Attached, CallOK

(* Buffers that leave their queues belong to no file. *)
LEMMA ReleasedType ==
  ASSUME Types, NEW S, ff_buf' = Released(S)
  PROVE  ff_buf' \in [Buf -> Buffers] /\ Owned'
  <1>1. NewBuf \in Buffers /\ NewBuf.fb_file = NoFile
    BY BSizeAssumption DEF NewBuf, Buffers, NoFile, Bytes
  <1> QED
    BY <1>1 DEF Types, TypeOK, Owned, Released

(* ff_alloc and ff_free. *)
LEMMA PoolTypes ==
  ASSUME Types, PoolStep
  PROVE  Types'
  <1>1. ASSUME NEW b \in Buf, Alloc(b)
        PROVE  Types'
    <2>1. ff_flist' \in Seq(Buf)
      BY <1>1 DEF Alloc, Types, TypeOK
    <2>2. ff_buf' \in [Buf -> Buffers] /\ Owned'
      BY <1>1, ReleasedType DEF Alloc
    <2> QED
      BY <1>1, <2>1, <2>2 DEF Alloc, Types, TypeOK, CallOK, Attached, Ready, Idle
  <1>2. CASE BeginFree
    <2>1. call' \in Calls
      BY <1>2, RequestType DEF BeginFree, Begin, Ops, Bytes, NoFile
    <2> QED
      BY <1>2, <2>1 DEF BeginFree, Begin, Types, TypeOK, Owned, CallOK, Attached, Request
  <1>3. CASE FreeBuf
    <2>1. Len(ff_flist) \in Nat /\ Len(ff_flist) > 1 /\ ff_flist \in Seq(Buf)
      BY <1>3, BoundAssumption DEF FreeBuf, Types, CallOK, TypeOK
    <2>2. SubSeq(ff_flist, 1, Len(ff_flist) - 1) \in Seq(Buf)
      BY <2>1, SubSeqProperties
    <2>3. ff_buf' \in [Buf -> Buffers] /\ Owned'
      BY <1>3, ReleasedType DEF FreeBuf
    <2>4. call' \in Calls /\ CallOK'
      BY <1>3, ReturnType DEF FreeBuf
    <2> QED
      BY <1>3, <2>2, <2>3, <2>4 DEF FreeBuf, Types, TypeOK, Attached
  <1> QED
    BY <1>1, <1>2, <1>3 DEF PoolStep

(* A buffer stays one whatever its count and its flag. *)
LEMMA BufferType ==
  ASSUME NEW x \in Buffers, NEW c \in -1 .. BSIZE, NEW w \in BOOLEAN
  PROVE  [x EXCEPT !.fb_wflg = w, !.fb_count = c] \in Buffers
  BY DEF Buffers

(* A buffer that takes a block over is one. *)
LEMMA FillType ==
  ASSUME Types, NEW b \in Buf, NEW c \in 0 .. BSIZE, NEW w \in BOOLEAN,
         NEW buf \in [Off -> Bytes], call.f \in File, CurBlk \in Nat, Fill(b, c, w, buf)
  PROVE  ff_buf' \in [Buf -> Buffers] /\ Owned'
  <1> DEFINE new == [fb_file |-> call.f, fb_bnum |-> CurBlk,
                     fb_count |-> c, fb_wflg |-> w, fb_buf |-> buf]
  <1>1. new \in Buffers /\ new.fb_bnum \in Nat /\ new.fb_count \in 0 .. BSIZE
    BY BSizeAssumption DEF Buffers
  <1>2. ff_buf' = [ff_buf EXCEPT ![b] = new]
    BY DEF Fill
  <1> HIDE DEF new
  <1> QED
    BY <1>1, <1>2 DEF Types, TypeOK, Owned

(* ff_putblk, done or failed. *)
LEMMA WriteBackTypes ==
  ASSUME Types, NEW b \in Buf, WriteBack(b) \/ WriteBackFails(b)
  PROVE  Types'
  <1> DEFINE f == ff_buf[b].fb_file
             blk == ff_buf[b].fb_bnum
             pos == SeekTo(f, blk)
  <1>1. /\ f \in File /\ blk \in Nat /\ ff_buf[b].fb_count \in 0 .. BSIZE
        /\ ff_buf[b].fb_buf \in [Off -> Bytes]
    BY DEF WriteBack, WriteBackFails, NeedsWrite, Types, TypeOK, Owned, Buffers
  <1>2. pos \in Nat
    BY <1>1, SeekToNat DEF Types
  <1>3. \A c \in 0 .. BSIZE : \A d \in Disks :
          c \in Nat /\ SysWrite(d, pos, c, ff_buf[b].fb_buf) \in Disks
    <2> SUFFICES ASSUME NEW c \in 0 .. BSIZE, NEW d \in Disks
                 PROVE  c \in Nat /\ SysWrite(d, pos, c, ff_buf[b].fb_buf) \in Disks
      OBVIOUS
    <2>1. \A i \in 0 .. c - 1 : ff_buf[b].fb_buf[i] \in Bytes
      BY <1>1, BSizeAssumption DEF Off
    <2>2. c \in Nat
      BY BSizeAssumption
    <2> HIDE DEF pos
    <2>3. SysWrite(d, pos, c, ff_buf[b].fb_buf) \in Disks
      BY <1>2, <2>1, <2>2, SysWriteType
    <2> QED
      BY <2>2, <2>3
  <1>4. CASE WriteBack(b)
    <2>1. disk' \in [Path -> Disks]
      BY <1>1, <1>3, <1>4 DEF WriteBack, Types, TypeOK
    <2>2. ff_files' \in [File -> Files] /\ Attached' /\ CallOK'
      <3>1. RealblkAfterPut(b) \in Nat \cup {-1}
        BY <1>1 DEF RealblkAfterPut
      <3>2. pos + ff_buf[b].fb_count \in Nat
        BY <1>1, <1>2
      <3> QED
        BY <1>1, <1>4, <3>1, <3>2, MovedType DEF WriteBack
    <2>3. ff_buf' \in [Buf -> Buffers] /\ Owned'
      <3> DEFINE new == [ff_buf[b] EXCEPT !.fb_wflg = FALSE, !.fb_count = 0]
      <3>1. /\ new \in Buffers /\ new.fb_file = f /\ new.fb_bnum = blk
            /\ new.fb_count = 0
        <4>1. ff_buf[b] \in Buffers /\ 0 \in -1 .. BSIZE /\ FALSE \in BOOLEAN
          BY BSizeAssumption DEF Types, TypeOK
        <4>2. new \in Buffers
          BY <4>1, BufferType
        <4> QED
          BY <4>1, <4>2 DEF Buffers
      <3>2. ff_buf' = [ff_buf EXCEPT ![b] = new]
        BY <1>4, SMTT(45) DEF WriteBack
      <3> HIDE DEF new
      <3> QED
        BY <1>1, <3>1, <3>2, BSizeAssumption DEF Types, TypeOK, Owned
    <2> QED
      BY <1>4, <2>1, <2>2, <2>3 DEF WriteBack, Types, TypeOK
  <1>5. CASE WriteBackFails(b)
    <2>1. PICK c \in 0 .. BSIZE :
            /\ disk' = [disk EXCEPT ![ff_files[f].path] = SysWrite(@, pos, c, ff_buf[b].fb_buf)]
            /\ ff_files' = Moved(f, pos + c, -1)
      <3>1. (IF ff_files[f].fdw THEN 0 .. ff_buf[b].fb_count - 1 ELSE {0}) \subseteq 0 .. BSIZE
        BY <1>1, BSizeAssumption
      <3> QED
        BY <1>5, <3>1, Zenon DEF WriteBackFails
    <2>2. disk' \in [Path -> Disks]
      BY <1>1, <1>3, <2>1 DEF Types, TypeOK
    <2>3. ff_files' \in [File -> Files] /\ Attached'
      <3>1. pos + c \in Nat
        BY <1>2, <1>3
      <3> QED
        BY <1>1, <2>1, <3>1, MovedType
    <2>4. call' \in Calls /\ CallOK'
      BY <1>5, ReturnType DEF WriteBackFails
    <2> QED
      BY <1>5, <2>2, <2>3, <2>4 DEF WriteBackFails, Types, TypeOK, Owned
  <1> QED
    BY <1>4, <1>5

(* The pool has a tail. *)
LEMMA VictimType ==
  ASSUME Types, LoadStep
  PROVE  Victim \in Buf
  <1>1. Len(ff_flist) >= MinPool
    BY DEF LoadStep, LoadNew, LoadBlk, LoadFails, Misses, Fetching, Types, CallOK
  <1>2. ff_flist \in Seq(Buf) /\ Len(ff_flist) \in 1 .. Len(ff_flist)
    BY <1>1, BoundAssumption DEF Types, TypeOK
  <1> QED
    BY <1>2 DEF Victim

(* ff_gblk on a miss. *)
LEMMA LoadTypes ==
  ASSUME Types, LoadStep
  PROVE  Types'
  <1>1. call.f \in File /\ CurBlk \in Nat
    BY Cursor DEF LoadStep, LoadNew, LoadBlk, LoadFails, Misses, Fetching, Types, CallOK
  <1>2. Victim \in Buf
    BY VictimType
  <1>3. CASE LoadNew
    <2>1. NewBuf.fb_buf \in [Off -> Bytes] /\ 0 \in 0 .. BSIZE /\ FALSE \in BOOLEAN
      BY BSizeAssumption DEF NewBuf, Bytes
    <2>2. ff_buf' \in [Buf -> Buffers] /\ Owned'
      BY <1>1, <1>2, <1>3, <2>1, FillType, Zenon DEF LoadNew
    <2> QED
      BY <1>3, <2>2 DEF LoadNew, Types, TypeOK, CallOK, Attached
  <1>4. CASE LoadBlk
    <2> DEFINE d == disk[ff_files[call.f].path]
               pos == SeekTo(call.f, CurBlk)
               got == IF ReadFlag THEN ReadLen(d, pos) ELSE 0
               c == IF ReadFlag THEN got ELSE BSIZE
               buf == [i \in Off |->
                         IF i < got /\ pos + i \in Addr THEN d.at[pos + i] ELSE Hole]
    <2>1. pos \in Nat
      BY <1>1, SeekToNat, SMTT(45) DEF Types
    <2>2. ff_files[call.f].path \in Path
      BY <1>1, <1>4 DEF LoadBlk, Misses, Fetching, Types, CallOK, TypeOK, Files
    <2>3. d \in Disks
      BY <2>2 DEF Types, TypeOK
    <2>4. got \in 0 .. BSIZE
      BY <2>1, <2>3, BSizeAssumption DEF ReadLen, Lesser, Disks
    <2>5. c \in 0 .. BSIZE
      BY <2>4, BSizeAssumption
    <2>6. buf \in [Off -> Bytes]
      BY <2>3, SMTT(45) DEF Disks, Bytes
    <2>7. Fill(Victim, c, FALSE, buf) /\ ff_files' = Moved(call.f, pos + got, RealblkAfterGet(CurBlk, c))
      BY <1>4 DEF LoadBlk
    <2>8. RealblkAfterGet(CurBlk, c) \in Nat \cup {-1} /\ pos + got \in Nat
      BY <1>1, <2>1, <2>4, <2>5 DEF RealblkAfterGet
    <2>9. ff_files' \in [File -> Files] /\ Attached' /\ CallOK'
      BY <1>1, <1>4, <2>7, <2>8, MovedType, ZenonT(45) DEF LoadBlk
    <2>10. ff_buf' \in [Buf -> Buffers] /\ Owned'
      BY <1>1, <1>2, <2>5, <2>6, <2>7, FillType
    <2> QED
      BY <1>4, <2>9, <2>10 DEF LoadBlk, Types, TypeOK
  <1>5. CASE LoadFails
    <2>1. ff_files' \in [File -> Files] /\ Attached'
      <3>1. SeekTo(call.f, CurBlk) \in Nat /\ ff_files[call.f].fn_realblk \in Nat \cup {-1}
        BY <1>1, SeekToNat DEF Types, TypeOK, Files
      <3> QED
        BY <1>1, <1>5, <3>1, MovedType DEF LoadFails
    <2>2. ff_buf' \in [Buf -> Buffers] /\ Owned'
      BY <1>5, ReleasedType DEF LoadFails
    <2>3. call' \in Calls /\ CallOK'
      BY <1>5, ReturnType DEF LoadFails
    <2> QED
      BY <1>5, <2>1, <2>2, <2>3 DEF LoadFails, Types, TypeOK
  <1> QED
    BY <1>3, <1>4, <1>5 DEF LoadStep

(* A file with an open stream is referenced, and so has a descriptor. *)
LEMMA OpenRefs ==
  ASSUME TypeInv, NEW s \in Stream, Open(s)
  PROVE  /\ ff_streams[s].f_file \in File
         /\ ff_files[ff_streams[s].f_file].fn_refs \in Nat \ {0}
         /\ ff_files[ff_streams[s].f_file].path # NoPath
         /\ Len(ff_flist) >= MinPool
  <1> DEFINE f == ff_streams[s].f_file
  <1>1. f \in File
    BY DEF TypeInv, Types, TypeOK, Streams, Open
  <1>2. IsFiniteSet(StreamsOf(f))
    <2>1. IsFiniteSet(Stream)
      BY SlotAssumption, FS_Interval DEF Stream
    <2> QED
      BY <2>1, FS_Subset DEF StreamsOf
  <1>3. s \in StreamsOf(f)
    BY DEF StreamsOf
  <1>4. Cardinality(StreamsOf(f)) # 0
    BY <1>2, <1>3, FS_EmptySet
  <1>5. ff_files[f].fn_refs \in Nat /\ ff_files[f].fn_refs # 0
    BY <1>1, <1>4 DEF TypeInv, Types, TypeOK, Files, RefsMatch
  <1> QED
    BY <1>1, <1>5 DEF TypeInv, Types, Attached, Pooled

(* ff_read. *)
LEMMA ReadTypes ==
  ASSUME TypeInv, ReadStep
  PROVE  Types'
  <1>1. ASSUME NEW s \in Stream, NEW at \in Nat, NEW n \in Nat, BeginRead(s, at, n)
        PROVE  Types'
    <2>1. /\ ff_streams[s].f_file \in File /\ ff_files[ff_streams[s].f_file].path # NoPath
          /\ Len(ff_flist) >= MinPool
      BY <1>1, OpenRefs DEF BeginRead
    <2>2. call' = Request("read", 0, ff_streams[s].f_file, at, n, Hole)
      BY <1>1 DEF BeginRead
    <2>3. call' \in Calls
      BY <2>1, <2>2, RequestType DEF Ops, Bytes
    <2>4. call'.op = "read" /\ call'.f = ff_streams[s].f_file
      BY <2>2 DEF Request
    <2> QED
      BY <1>1, <2>1, <2>3, <2>4
      DEF BeginRead, TypeInv, Types, TypeOK, Owned, CallOK, Attached
  <1>2. ASSUME NEW b \in Buf, ReadChunk(b)
        PROVE  Types'
    <2> DEFINE left == ff_files[call.f].fn_size - CurOff
               rn == Lesser(ChunkLen, left)
               more == [i \in 1 .. rn |-> ff_buf[b].fb_buf[Rem(CurOff) + i - 1]]
    <2>1. call.f \in File /\ call.op = "read" /\ Fetching
      BY <1>2 DEF ReadChunk, Fetching, TypeInv, Types, CallOK
    <2>2. left \in Int /\ left > 0
      <3>1. ff_files[call.f].fn_size \in Nat /\ CurOff \in Nat
        BY <2>1, Cursor DEF TypeInv, Types, TypeOK, Files
      <3> QED
        BY <1>2, <3>1 DEF ReadChunk
    <2>3. Rem(CurOff) \in 0 .. BSIZE - 1 /\ ChunkLen \in 1 .. BSIZE - Rem(CurOff)
      BY <2>1, Cursor DEF Off, TypeInv, Types
    <2>4. rn \in 1 .. BSIZE - Rem(CurOff)
      BY <2>2, <2>3, BSizeAssumption DEF Lesser
    <2>5. more \in Seq(Bytes)
      <3>1. \A i \in 1 .. rn : Rem(CurOff) + i - 1 \in Off
        BY <2>3, <2>4, BSizeAssumption DEF Off
      <3>2. \A o \in Off : ff_buf[b].fb_buf[o] \in Bytes
        BY DEF TypeInv, Types, TypeOK, Buffers
      <3>3. rn \in Nat
        BY <2>3, <2>4, BSizeAssumption
      <3> HIDE DEF rn
      <3> QED
        BY <3>1, <3>2, <3>3
    <2>6. call' = [call EXCEPT !.done = @ + rn, !.got = @ \o more]
      BY <1>2 DEF ReadChunk
    <2>7. call.done + rn \in Nat /\ call.got \o more \in Seq(Bytes)
      BY <2>3, <2>4, <2>5, BSizeAssumption, SMTT(45) DEF TypeInv, Types, TypeOK, Calls
    <2> HIDE DEF rn, more
    <2>8. call' \in Calls /\ call'.op = call.op /\ call'.f = call.f
      BY <2>6, <2>7 DEF TypeInv, Types, TypeOK, Calls
    <2>9. ff_flist' \in Seq(Buf) /\ Len(ff_flist') = Len(ff_flist)
      BY <1>2, TouchType DEF ReadChunk, TypeInv, Types
    <2> QED
      BY <1>2, <2>8, <2>9 DEF ReadChunk, TypeInv, Types, TypeOK, Owned, CallOK, Attached
  <1>3. ASSUME NEW b \in Buf, ReadEOF(b)
        PROVE  Types'
    <2>1. ff_flist' \in Seq(Buf)
      BY <1>3, TouchType DEF ReadEOF, TypeInv, Types
    <2>2. call' \in Calls /\ CallOK'
      BY <1>3, ReturnType DEF ReadEOF
    <2> QED
      BY <1>3, <2>1, <2>2 DEF ReadEOF, TypeInv, Types, TypeOK, Owned, Attached
  <1>4. CASE ReadReturn
    <2>1. call' \in Calls /\ CallOK'
      BY <1>4, ReturnType DEF ReadReturn
    <2> QED
      BY <1>4, <2>1 DEF ReadReturn, TypeInv, Types, TypeOK, Owned, Attached
  <1> QED
    BY <1>1, <1>2, <1>3, <1>4, LenAssumption DEF ReadStep, Places

(* ff_write. *)
LEMMA WriteTypes ==
  ASSUME TypeInv, WriteStep
  PROVE  Types'
  <1>1. ASSUME NEW s \in Stream, NEW at \in Nat, NEW n \in Nat,
               NEW v \in Byte, BeginWrite(s, at, n, v)
        PROVE  Types'
    <2>1. /\ ff_streams[s].f_file \in File /\ ff_files[ff_streams[s].f_file].path # NoPath
          /\ Len(ff_flist) >= MinPool
      BY <1>1, OpenRefs DEF BeginWrite
    <2>2. call' = Request("write", 0, ff_streams[s].f_file, at, n, v)
      BY <1>1 DEF BeginWrite
    <2>3. call' \in Calls
      BY <2>1, <2>2, RequestType DEF Ops, Bytes
    <2>4. call'.op = "write" /\ call'.f = ff_streams[s].f_file
      BY <2>2 DEF Request
    <2> QED
      BY <1>1, <2>1, <2>3, <2>4
      DEF BeginWrite, TypeInv, Types, TypeOK, Owned, CallOK, Attached
  <1>2. ASSUME NEW b \in Buf, WriteChunk(b)
        PROVE  Types'
    <2> DEFINE from == Rem(CurOff)
               to == from + ChunkLen
               count == Greater(to, ff_buf[b].fb_count)
               buf == [i \in Off |-> IF i \in from .. to - 1 THEN call.v ELSE ff_buf[b].fb_buf[i]]
    <2>1. call.f \in File /\ Fetching /\ b \in Have(call.f, CurBlk)
      BY <1>2 DEF WriteChunk, WriteChunkAs, Fetching, TypeInv, Types, CallOK
    <2>2. from \in 0 .. BSIZE - 1 /\ ChunkLen \in 1 .. BSIZE - from /\ CurBlk \in Nat
      BY <2>1, Cursor DEF Off, TypeInv, Types
    <2>3. ff_buf[b] \in Buffers /\ ff_buf[b].fb_file \in File
          /\ ff_buf[b].fb_bnum \in Nat /\ ff_buf[b].fb_count \in 0 .. BSIZE
      BY <2>1, <2>2 DEF Have, TypeInv, Types, TypeOK, Owned, NoFile, File
    <2>4. count \in 0 .. BSIZE
      BY <2>2, <2>3, BSizeAssumption DEF Greater
    <2>5. buf \in [Off -> Bytes]
      BY <2>3 DEF TypeInv, Types, TypeOK, Calls, Buffers
    <2>6. Fill(b, count, TRUE, buf)
      BY <1>2 DEF WriteChunk, WriteChunkAs
    <2> HIDE DEF count, buf
    <2>7. ff_buf' \in [Buf -> Buffers] /\ Owned'
      BY <2>1, <2>2, <2>4, <2>5, <2>6, FillType DEF TypeInv
    <2>8. call' \in Calls /\ call'.op = call.op /\ call'.f = call.f
      <3>1. call' = [call EXCEPT !.done = @ + ChunkLen]
        BY <1>2 DEF WriteChunk, WriteChunkAs
      <3>2. call.done + ChunkLen \in Nat
        BY <2>2, BSizeAssumption DEF TypeInv, Types, TypeOK, Calls
      <3> QED
        BY <3>1, <3>2 DEF TypeInv, Types, TypeOK, Calls
    <2>9. ff_flist' \in Seq(Buf) /\ Len(ff_flist') = Len(ff_flist)
      BY <1>2, TouchType DEF WriteChunk, WriteChunkAs, TypeInv, Types
    <2> QED
      BY <1>2, <2>7, <2>8, <2>9
      DEF WriteChunk, WriteChunkAs, TypeInv, Types, TypeOK, CallOK, Attached
  <1>3. CASE WriteReturn
    <2>1. call.f \in File
      BY <1>3 DEF WriteReturn, TypeInv, Types, CallOK
    <2>2. Greater(ff_files[call.f].fn_size, CurOff) \in Nat
      BY <2>1, Cursor DEF Greater, TypeInv, Types, TypeOK, Files
    <2>3. ff_files' \in [File -> Files] /\ Attached'
      <3>1. PICK g \in File, size \in Nat : ff_files' = [ff_files EXCEPT ![g].fn_size = size]
        BY <1>3, <2>1, <2>2 DEF WriteReturn
      <3> DEFINE new == [ff_files[g] EXCEPT !.fn_size = size]
      <3>2. ff_files \in [File -> Files] /\ ff_files[g] \in Files /\ Attached
        BY DEF TypeInv, Types, TypeOK
      <3>3. new \in Files /\ new.path = ff_files[g].path /\ new.fn_refs = ff_files[g].fn_refs
        BY <3>2 DEF Files
      <3>4. ff_files' = [ff_files EXCEPT ![g] = new]
        BY <3>1, <3>2
      <3> HIDE DEF new
      <3> QED
        BY <3>2, <3>3, <3>4 DEF Attached
    <2>4. call' \in Calls /\ CallOK'
      BY <1>3, ReturnType DEF WriteReturn
    <2> QED
      BY <1>3, <2>3, <2>4 DEF WriteReturn, TypeInv, Types, TypeOK, Owned
  <1> QED
    BY <1>1, <1>2, <1>3, LenAssumption DEF WriteStep, Places

(* ff_flush and ff_sync. *)
LEMMA FlushSyncTypes ==
  ASSUME TypeInv, FlushStep \/ SyncStep
  PROVE  Types'
  <1> USE DEF Quiet
  <1>1. ASSUME call' \in Calls, CallOK', Quiet PROVE Types'
    BY <1>1 DEF TypeInv, Types, TypeOK, Owned, Attached
  <1>2. ASSUME NEW s \in Stream, BeginFlush(s)
        PROVE  Types'
    BY <1>1, <1>2, RequestType
    DEF BeginFlush, Begin, Ops, Bytes, Request, CallOK
  <1>3. CASE FlushReturn
    BY <1>1, <1>3, ReturnType DEF FlushReturn
  <1>4. CASE BeginSync
    <2>1. 1 \in Stream
      BY SlotAssumption DEF Stream
    <2> QED
      BY <1>1, <1>4, <2>1, RequestType
      DEF BeginSync, Begin, Ops, Bytes, Request, CallOK
  <1>5. CASE SyncBadStream
    BY <1>1, <1>5, ReturnType DEF SyncBadStream
  <1>6. CASE SyncNext
    <2>1. CASE call.s < NStream
      <3>1. call.s + 1 \in Stream
        BY <2>1, SlotAssumption DEF TypeInv, Types, TypeOK, Calls, Stream
      <3>2. call' = [call EXCEPT !.s = @ + 1]
        BY <1>6, <2>1 DEF SyncNext
      <3>3. call' \in Calls /\ call'.op = "sync"
        BY <1>6, <3>1, <3>2 DEF SyncNext, TypeInv, Types, TypeOK, Calls
      <3> QED
        BY <1>1, <1>6, <3>3 DEF SyncNext, CallOK
    <2>2. CASE ~ (call.s < NStream)
      BY <1>1, <1>6, <2>2, ReturnType DEF SyncNext
    <2> QED
      BY <2>1, <2>2
  <1> QED
    BY <1>2, <1>3, <1>4, <1>5, <1>6 DEF FlushStep, SyncStep

(* ff_grow. *)
LEMMA GrowTypes ==
  ASSUME TypeInv, GrowStep
  PROVE  Types'
  <1>1. ASSUME NEW s \in Stream, BeginGrow(s)
        PROVE  Types'
    <2>1. ff_streams[s].f_file \in File /\ ff_files[ff_streams[s].f_file].path # NoPath
      BY <1>1, OpenRefs DEF BeginGrow
    <2>2. call' = Request("grow", 0, ff_streams[s].f_file, 0, 0, Hole)
      BY <1>1 DEF BeginGrow
    <2>3. call' \in Calls
      BY <2>1, <2>2, RequestType DEF Ops, Bytes
    <2>4. call'.op = "grow" /\ call'.f = ff_streams[s].f_file
      BY <2>2 DEF Request
    <2> QED
      BY <1>1, <2>1, <2>3, <2>4
      DEF BeginGrow, Quiet, TypeInv, Types, TypeOK, Owned, CallOK, Attached
  <1>2. CASE GrowReturn
    <2>1. call.f \in File /\ ff_files[call.f].path \in Path
      BY <1>2 DEF GrowReturn, TypeInv, Types, TypeOK, CallOK, Files
    <2> DEFINE size == Greater(ff_files[call.f].fn_size, disk[ff_files[call.f].path].len)
    <2>2. size \in Nat
      BY <2>1 DEF Greater, TypeInv, Types, TypeOK, Files, Disks
    <2>3. ff_files' \in [File -> Files] /\ Attached'
      <3>1. ff_files' = [ff_files EXCEPT ![call.f].fn_size = size]
        BY <1>2 DEF GrowReturn
      <3> HIDE DEF size
      <3> QED
        BY <2>1, <2>2, <3>1, ZenonT(45) DEF TypeInv, Types, TypeOK, Files, Attached
    <2>4. ff_buf' \in [Buf -> Buffers] /\ Owned'
      BY <1>2, ReleasedType DEF GrowReturn, TypeInv
    <2>5. call' \in Calls /\ CallOK'
      BY <1>2, ReturnType DEF GrowReturn
    <2> QED
      BY <1>2, <2>3, <2>4, <2>5 DEF GrowReturn, TypeInv, Types, TypeOK, NoFilter
  <1> QED
    BY <1>1, <1>2 DEF GrowStep

(* A filter that writes on the file. *)
LEMMA FilterTypes ==
  ASSUME TypeInv, FilterStep
  PROVE  Types'
  <1>1. ASSUME NEW s \in Stream, NEW k \in Nat, NEW v \in Byte, Filter(s, k, v)
        PROVE  Types'
    <2> DEFINE f == ff_streams[s].f_file
               p == ff_files[f].path
               end == ff_files[f].fn_size
               old == IF BuiltinFill THEN Truncated ELSE disk[p]
               out == [i \in 0 .. k - 1 |-> v]
    <2>1. f \in File /\ p \in Path /\ end \in Nat
      BY <1>1, OpenRefs DEF Filter, TypeInv, Types, TypeOK, Files
    <2>2. old \in Disks
      <3>1. Truncated \in Disks
        BY DEF Truncated, Disks, Bytes
      <3> QED
        BY <2>1, <3>1 DEF TypeInv, Types, TypeOK
    <2>3. \A i \in 0 .. k - 1 : out[i] \in Bytes
      BY DEF Bytes
    <2> HIDE DEF old, out
    <2>4. SysWrite(old, end, k, out) \in Disks
      BY <2>1, <2>2, <2>3, SysWriteType
    <2>5. /\ disk' = [disk EXCEPT ![p] = SysWrite(old, end, k, out)]
          /\ filter' = [f |-> f, k |-> k]
      BY <1>1 DEF Filter, old, out
    <2>6. disk' \in [Path -> Disks] /\ filter' \in [f : File \cup {NoFile}, k : Nat]
      BY <2>1, <2>4, <2>5 DEF TypeInv, Types, TypeOK
    <2> QED
      BY <1>1, <2>6 DEF Filter, TypeInv, Types, TypeOK, Owned, CallOK, Attached
  <1>2. CASE FilterAborted
    BY <1>2 DEF FilterAborted, NoFilter, TypeInv, Types, TypeOK, Owned, CallOK, Attached
  <1> QED
    BY <1>1, <1>2, LenAssumption DEF FilterStep

(* A file that is opened once more gains a reference, and perhaps a mode. *)
LEMMA SharedType ==
  ASSUME NEW file \in Files, NEW w \in BOOLEAN
  PROVE  /\ Shared(file, w) \in Files
         /\ Shared(file, w).path = file.path
         /\ Shared(file, w).fn_refs = file.fn_refs + 1
  <1> DEFINE mode == file.fn_mode \/ w
             refs == file.fn_refs + 1
  <1>1. mode \in BOOLEAN /\ refs \in Nat
    BY DEF Files
  <1>2. Shared(file, w) = [file EXCEPT !.fn_refs = refs, !.fn_mode = mode]
    BY DEF Shared
  <1> HIDE DEF mode
  <1> QED
    BY <1>1, <1>2 DEF Files

(* ff_open. *)
LEMMA OpenTypes ==
  ASSUME TypeInv, NEW p \in Path, NEW w \in BOOLEAN, OpenShared(p, w) \/ OpenNew(p, w)
  PROVE  Types'
  <1>1. ASSUME NEW s \in Stream, NEW f \in File, OpenStream(s, f, w)
        PROVE  ff_streams' \in [Stream -> Streams]
    BY <1>1 DEF OpenStream, Streams, TypeInv, Types, TypeOK
  <1>2. CASE OpenShared(p, w)
    <2>1. PICK s \in Stream, f \in OpenOn(p) :
            /\ OpenStream(s, f, w)
            /\ ff_files' = [ff_files EXCEPT ![f] = Shared(@, w)]
      BY <1>2, Zenon DEF OpenShared
    <2>2. f \in File /\ ff_files[f] \in Files /\ ff_files[f].fn_refs > 0
      BY DEF OpenOn, TypeInv, Types, TypeOK
    <2>3. ff_files' \in [File -> Files] /\ Attached'
      BY <2>1, <2>2, SharedType DEF TypeInv, Types, TypeOK, Attached
    <2>4. ff_streams' \in [Stream -> Streams]
      BY <1>1, <2>1, <2>2
    <2> QED
      BY <1>2, <2>3, <2>4 DEF OpenShared, Ready, Idle, TypeInv, Types, TypeOK, Owned, CallOK
  <1>3. CASE OpenNew(p, w)
    <2> DEFINE new == [path |-> p, pos |-> 0, fdw |-> w, fn_refs |-> 1, fn_mode |-> w,
                       fn_realblk |-> 0, fn_size |-> disk[p].len]
    <2>1. PICK s \in Stream, f \in Lowest(FreeFiles) :
            OpenStream(s, f, w) /\ ff_files' = [ff_files EXCEPT ![f] = new]
      BY <1>3, Zenon DEF OpenNew
    <2>2. f \in File
      BY DEF Lowest, FreeFiles
    <2>3. new \in Files /\ new.path # NoPath
      BY PathAssumption DEF Files, Disks, TypeInv, Types, TypeOK
    <2> HIDE DEF new
    <2>4. ff_files' \in [File -> Files] /\ Attached'
      BY <2>1, <2>2, <2>3 DEF TypeInv, Types, TypeOK, Attached
    <2>5. ff_streams' \in [Stream -> Streams]
      BY <1>1, <2>1, <2>2
    <2> QED
      BY <1>3, <2>4, <2>5 DEF OpenNew, Ready, Idle, TypeInv, Types, TypeOK, Owned, CallOK
  <1> QED
    BY <1>2, <1>3

(* ff_close. *)
LEMMA CloseTypes ==
  ASSUME TypeInv, CloseStep
  PROVE  Types'
  <1>1. ASSUME NEW s \in Stream, BeginClose(s)
        PROVE  Types'
    <2> DEFINE f == ff_streams[s].f_file
    <2>1. f \in File /\ ff_files[f].fn_refs \in Nat \ {0} /\ ff_files[f].path # NoPath
      BY <1>1, OpenRefs DEF BeginClose
    <2>2. ff_files' = [ff_files EXCEPT ![f].fn_refs = @ - 1]
      BY <1>1 DEF BeginClose
    <2>3. /\ ff_files' \in [File -> Files] /\ ff_files'[f].path = ff_files[f].path
          /\ Attached'
      <3>1. ff_files[f].fn_refs - 1 \in Nat
        BY <2>1
      <3> QED
        BY <2>1, <2>2, <3>1, ZenonT(45) DEF TypeInv, Types, TypeOK, Files, Attached
    <2>4. ff_streams' \in [Stream -> Streams]
      BY <1>1 DEF BeginClose, FreeStream, Streams, TypeInv, Types, TypeOK
    <2>5. call' = Request("close", 0, f, 0, 0, Hole)
      BY <1>1 DEF BeginClose, Begin
    <2>6. call' \in Calls
      BY <2>1, <2>5, RequestType DEF Ops, Bytes
    <2>7. call'.op = "close" /\ call'.f = f
      BY <2>5 DEF Request
    <2> QED
      BY <1>1, <2>1, <2>3, <2>4, <2>6, <2>7 DEF BeginClose, TypeInv, Types, TypeOK, Owned, CallOK
  <1>2. ASSUME NEW b \in Buf, CloseRelease(b)
        PROVE  Types'
    <2>1. ff_buf' \in [Buf -> Buffers] /\ Owned'
      BY <1>2, ReleasedType DEF CloseRelease, TypeInv
    <2> QED
      BY <1>2, <2>1 DEF CloseRelease, TypeInv, Types, TypeOK, CallOK, Attached
  <1>3. CASE CloseShared
    <2>1. call' \in Calls /\ CallOK'
      BY <1>3, ReturnType DEF CloseShared
    <2> QED
      BY <1>3, <2>1 DEF CloseShared, Quiet, TypeInv, Types, TypeOK, Owned, Attached
  <1>4. CASE CloseReturn
    <2>1. call' \in Calls /\ CallOK'
      BY <1>4, ReturnType DEF CloseReturn
    <2>2. call.f \in File
      BY <1>4 DEF CloseReturn, Closing, TypeInv, Types, CallOK
    <2>3. FreeFile \in Files /\ FreeFile.fn_refs = 0
      BY DEF FreeFile, Files
    <2>4. ff_files' \in [File -> Files] /\ Attached'
      BY <1>4, <2>2, <2>3 DEF CloseReturn, TypeInv, Types, TypeOK, Attached
    <2> QED
      BY <1>4, <2>1, <2>4 DEF CloseReturn, TypeInv, Types, TypeOK, Owned
  <1> QED
    BY <1>1, <1>2, <1>3, <1>4 DEF CloseStep

(* Every step leaves every variable of its type. *)
LEMMA TypesStep == TypeInv /\ [Next]_vars => Types'
  <1> SUFFICES ASSUME TypeInv, [Next]_vars PROVE Types'
    OBVIOUS
  <1>1. CASE PoolStep
    BY <1>1, PoolTypes DEF TypeInv
  <1>2. CASE PutStep
    BY <1>2, WriteBackTypes DEF PutStep, TypeInv
  <1>3. CASE LoadStep
    BY <1>3, LoadTypes DEF TypeInv
  <1>4. CASE ReadStep
    BY <1>4, ReadTypes
  <1>5. CASE WriteStep
    BY <1>5, WriteTypes
  <1>6. CASE FlushStep \/ SyncStep
    BY <1>6, FlushSyncTypes
  <1>7. CASE GrowStep
    BY <1>7, GrowTypes
  <1>8. CASE FilterStep
    BY <1>8, FilterTypes
  <1>9. CASE OpenStep
    <2>1. \A p \in Path : \A w \in Modes[p] : w \in BOOLEAN
      BY PathAssumption
    <2> QED
      BY <1>9, <2>1, OpenTypes DEF OpenStep
  <1>10. CASE CloseStep
    BY <1>10, CloseTypes
  <1>11. CASE UNCHANGED vars
    BY <1>11 DEF vars, TypeInv, Types, TypeOK, Owned, CallOK, Attached
  <1> QED
    BY <1>1, <1>2, <1>3, <1>4, <1>5, <1>6, <1>7, <1>8, <1>9, <1>10, <1>11 DEF Next

-----------------------------------------------------------------------------
(* Every step keeps the reference counts and the pool. *)

(* A file has finitely many streams. *)
LEMMA StreamsFinite == \A f : IsFiniteSet(StreamsOf(f))
  <1>1. IsFiniteSet(Stream)
    BY SlotAssumption, FS_Interval DEF Stream
  <1> QED
    BY <1>1, FS_Subset DEF StreamsOf

(* A step that opens and closes no stream keeps the references. *)
LEMMA SameRefs ==
  ASSUME TypeInv, ff_streams' = ff_streams,
         \A f \in File : ff_files'[f].fn_refs = ff_files[f].fn_refs
  PROVE  RefsMatch'
  BY DEF TypeInv, RefsMatch, StreamsOf

(* One more stream on a file. *)
LEMMA OpenStreamRefs ==
  ASSUME TypeInv, NEW s \in Stream, NEW f \in File, NEW w, OpenStream(s, f, w)
  PROVE  /\ Cardinality(StreamsOf(f))' = Cardinality(StreamsOf(f)) + 1
         /\ \A g \in File \ {f} : StreamsOf(g)' = StreamsOf(g)
  <1>1. ff_streams[s].f_file = NoFile /\ NoFile \notin File
    BY DEF OpenStream, Lowest, FreeStreams, File, NoFile
  <1>2. /\ ff_streams'[s].f_file = f
        /\ \A r \in Stream \ {s} : ff_streams'[r] = ff_streams[r]
    BY DEF OpenStream, TypeInv, Types, TypeOK
  <1>3. s \notin StreamsOf(f) /\ StreamsOf(f)' = StreamsOf(f) \cup {s}
    BY <1>1, <1>2 DEF StreamsOf
  <1>4. Cardinality(StreamsOf(f) \cup {s}) = Cardinality(StreamsOf(f)) + 1
    BY <1>3, StreamsFinite, FS_AddElement
  <1> QED
    BY <1>1, <1>2, <1>3, <1>4 DEF StreamsOf

(* One stream less. *)
LEMMA FreeStreamRefs ==
  ASSUME TypeInv, NEW s \in Stream, NEW f \in File, ff_streams[s].f_file = f,
         ff_streams' = [ff_streams EXCEPT ![s] = FreeStream]
  PROVE  /\ Cardinality(StreamsOf(f))' = Cardinality(StreamsOf(f)) - 1
         /\ \A g \in File \ {f} : StreamsOf(g)' = StreamsOf(g)
  <1>1. NoFile \notin File
    BY DEF File, NoFile
  <1>2. /\ ff_streams'[s].f_file = NoFile
        /\ \A r \in Stream \ {s} : ff_streams'[r] = ff_streams[r]
    BY DEF FreeStream, TypeInv, Types, TypeOK
  <1>3. s \in StreamsOf(f) /\ StreamsOf(f)' = StreamsOf(f) \ {s}
    BY <1>1, <1>2 DEF StreamsOf
  <1>4. Cardinality(StreamsOf(f) \ {s}) = Cardinality(StreamsOf(f)) - 1
    BY <1>3, StreamsFinite, FS_RemoveElement
  <1> QED
    BY <1>1, <1>2, <1>3, <1>4 DEF StreamsOf

(* Every step keeps the references exact. *)
LEMMA RefsStep == TypeInv /\ [Next]_vars => RefsMatch'
  <1> SUFFICES ASSUME TypeInv, [Next]_vars PROVE RefsMatch'
    OBVIOUS
  <1>0. ASSUME NEW f \in File, NEW pos, NEW realblk, ff_files' = Moved(f, pos, realblk)
        PROVE  \A g \in File : ff_files'[g].fn_refs = ff_files[g].fn_refs
    <2> DEFINE new == [ff_files[f] EXCEPT !.pos = pos, !.fn_realblk = realblk]
    <2>1. ff_files' = [ff_files EXCEPT ![f] = new]
      BY <1>0 DEF Moved
    <2>2. new.fn_refs = ff_files[f].fn_refs
      BY SMTT(45) DEF TypeInv, Types, TypeOK, Files
    <2> HIDE DEF new
    <2> QED
      BY <2>1, <2>2 DEF TypeInv, Types, TypeOK
  <1>1. CASE PutStep
    <2>1. PICK b \in Buf : WriteBack(b) \/ WriteBackFails(b)
      BY <1>1 DEF PutStep
    <2>2. ff_buf[b].fb_file \in File
      BY <2>1 DEF WriteBack, WriteBackFails, NeedsWrite, TypeInv, Types, TypeOK, Buffers
    <2> QED
      BY <1>0, <2>1, <2>2, SameRefs DEF WriteBack, WriteBackFails
  <1>2. CASE LoadStep
    <2>1. call.f \in File
      BY <1>2 DEF LoadStep, LoadNew, LoadBlk, LoadFails, Misses, Fetching, TypeInv, Types, CallOK
    <2> QED
      BY <1>0, <1>2, <2>1, SameRefs DEF LoadStep, LoadNew, LoadBlk, LoadFails
  <1>3. CASE PoolStep \/ ReadStep \/ FlushStep \/ SyncStep \/ FilterStep
    <2>1. UNCHANGED <<ff_files, ff_streams>>
      BY <1>3
      DEF PoolStep, Alloc, BeginFree, FreeBuf, ReadStep, BeginRead, ReadChunk, ReadEOF, ReadReturn,
          FlushStep, BeginFlush, FlushReturn, SyncStep, BeginSync, SyncBadStream, SyncNext,
          FilterStep, Filter, FilterAborted, Quiet
    <2> QED
      BY <2>1, SameRefs
  <1>4. CASE WriteStep \/ GrowStep
    <2>1. ASSUME NEW size, ff_files' = [ff_files EXCEPT ![call.f].fn_size = size]
          PROVE  \A g \in File : ff_files'[g].fn_refs = ff_files[g].fn_refs
      <3> DEFINE new == [ff_files[call.f] EXCEPT !.fn_size = size]
      <3>1. ff_files' = [ff_files EXCEPT ![call.f] = new]
        BY <2>1
      <3>2. call.f \in File => new.fn_refs = ff_files[call.f].fn_refs
        BY DEF TypeInv, Types, TypeOK, Files
      <3> HIDE DEF new
      <3> QED
        BY <3>1, <3>2 DEF TypeInv, Types, TypeOK
    <2>2. CASE WriteReturn \/ GrowReturn
      BY <2>1, <2>2, SameRefs DEF WriteReturn, GrowReturn
    <2>3. CASE ~ (WriteReturn \/ GrowReturn)
      BY <1>4, <2>3, SameRefs
      DEF WriteStep, BeginWrite, WriteChunk, WriteChunkAs, GrowStep, BeginGrow, Quiet
    <2> QED
      BY <2>2, <2>3
  <1>5. CASE OpenStep
    <2>1. PICK p \in Path, w \in BOOLEAN : OpenShared(p, w) \/ OpenNew(p, w)
      <3>1. \A p \in Path : \A w \in Modes[p] : w \in BOOLEAN
        BY PathAssumption
      <3> QED
        BY <1>5, <3>1 DEF OpenStep
    <2>2. CASE OpenShared(p, w)
      <3>1. PICK s \in Stream, f \in OpenOn(p) :
              OpenStream(s, f, w) /\ ff_files' = [ff_files EXCEPT ![f] = Shared(@, w)]
        BY <2>2, Zenon DEF OpenShared
      <3>2. f \in File
        BY DEF OpenOn
      <3>3. \A g \in File : ff_files'[g].fn_refs =
              IF g = f THEN ff_files[f].fn_refs + 1 ELSE ff_files[g].fn_refs
        BY <3>1, <3>2, SharedType DEF TypeInv, Types, TypeOK
      <3> QED
        BY <3>1, <3>2, <3>3, OpenStreamRefs DEF TypeInv, RefsMatch
    <2>3. CASE OpenNew(p, w)
      <3>1. PICK s \in Stream, f \in Lowest(FreeFiles) :
              /\ OpenStream(s, f, w)
              /\ ff_files' = [ff_files EXCEPT ![f] =
                   [path |-> p, pos |-> 0, fdw |-> w, fn_refs |-> 1, fn_mode |-> w,
                    fn_realblk |-> 0, fn_size |-> disk[p].len]]
        BY <2>3, Zenon DEF OpenNew
      <3>2. f \in File /\ ff_files[f].fn_refs = 0
        BY DEF Lowest, FreeFiles
      <3>3. \A g \in File : ff_files'[g].fn_refs = IF g = f THEN 1 ELSE ff_files[g].fn_refs
        BY <3>1, <3>2 DEF TypeInv, Types, TypeOK
      <3> QED
        BY <3>1, <3>2, <3>3, OpenStreamRefs DEF TypeInv, RefsMatch
    <2> QED
      BY <2>1, <2>2, <2>3
  <1>6. CASE CloseStep
    <2>1. ASSUME NEW s \in Stream, BeginClose(s) PROVE RefsMatch'
      <3>1. PICK f \in File : f = ff_streams[s].f_file
        BY <2>1, OpenRefs DEF BeginClose
      <3>2. /\ ff_files' = [ff_files EXCEPT ![f].fn_refs = @ - 1]
            /\ ff_streams' = [ff_streams EXCEPT ![s] = FreeStream]
        BY <2>1, <3>1 DEF BeginClose
      <3>3. \A g \in File : ff_files'[g].fn_refs =
              IF g = f THEN ff_files[f].fn_refs - 1 ELSE ff_files[g].fn_refs
        BY <3>1, <3>2 DEF TypeInv, Types, TypeOK, Files
      <3>4. /\ Cardinality(StreamsOf(f))' = Cardinality(StreamsOf(f)) - 1
            /\ \A g \in File \ {f} : StreamsOf(g)' = StreamsOf(g)
        BY <3>1, <3>2, FreeStreamRefs
      <3> QED
        BY <3>3, <3>4 DEF TypeInv, RefsMatch
    <2>2. CASE CloseReturn
      <3>1. call.f \in File /\ ff_files[call.f].fn_refs = 0
        BY <2>2 DEF CloseReturn, Closing, TypeInv, Types, CallOK
      <3> QED
        BY <2>2, <3>1, SameRefs DEF CloseReturn, FreeFile, TypeInv, Types, TypeOK
    <2>3. CASE CloseShared \/ \E b \in Buf : CloseRelease(b)
      BY <2>3, SameRefs DEF CloseShared, CloseRelease, Quiet
    <2> QED
      BY <1>6, <2>1, <2>2, <2>3 DEF CloseStep
  <1>7. CASE UNCHANGED vars
    BY <1>7, SameRefs DEF vars
  <1> QED
    BY <1>1, <1>2, <1>3, <1>4, <1>5, <1>6, <1>7 DEF Next

(* Every step keeps every buffer of a file in the pool, once. *)
LEMMA PooledStep == TypeInv /\ [Next]_vars => Pooled'
  <1> SUFFICES ASSUME TypeInv, [Next]_vars PROVE Pooled'
    OBVIOUS
  <1>0. ff_flist \in Seq(Buf) /\ Len(ff_flist) \in Nat
    BY DEF TypeInv, Types, TypeOK
  <1>1. ASSUME \A s \in Stream : Open(s)' => Open(s), Len(ff_flist') >= Len(ff_flist),
               Len(ff_flist') \in Nat
        PROVE  Pooled'
    BY <1>0, <1>1, BoundAssumption DEF TypeInv, Pooled
  <1>2. ASSUME ff_streams' = ff_streams PROVE \A s \in Stream : Open(s)' => Open(s)
    BY <1>2 DEF Open
  <1>3. CASE PoolStep
    <2>1. ASSUME NEW b \in Buf, Alloc(b) PROVE Pooled'
      <3>1. ff_flist' = <<b>> \o ff_flist /\ ff_streams' = ff_streams
        BY <2>1 DEF Alloc
      <3>2. Len(ff_flist') = Len(ff_flist) + 1
        BY <1>0, <3>1
      <3> QED
        BY <1>0, <1>1, <1>2, <3>1, <3>2
    <2>2. CASE BeginFree
      BY <1>0, <1>1, <1>2, <2>2 DEF BeginFree
    <2>3. CASE FreeBuf
      <3>1. Len(ff_flist) > MinPool
        BY <2>3 DEF FreeBuf, TypeInv, Types, CallOK
      <3>2. Len(ff_flist') = Len(ff_flist) - 1
        BY <1>0, <2>3, <3>1, BoundAssumption, SubSeqProperties DEF FreeBuf
      <3> QED
        BY <1>0, <3>1, <3>2, BoundAssumption DEF Pooled
    <2> QED
      BY <1>3, <2>1, <2>2, <2>3 DEF PoolStep
  <1>4. CASE OpenStep
    <2>1. Len(ff_flist) >= MinPool /\ ff_flist' = ff_flist
      BY <1>4 DEF OpenStep, OpenShared, OpenNew
    <2> QED
      BY <2>1 DEF Pooled
  <1>5. CASE ReadStep \/ WriteStep
    <2>1. ff_streams' = ff_streams /\ (ff_flist' = ff_flist \/ \E b \in Buf : ff_flist' = Touch(b))
      BY <1>5
      DEF ReadStep, BeginRead, ReadChunk, ReadEOF, ReadReturn,
          WriteStep, BeginWrite, WriteChunk, WriteChunkAs, WriteReturn
    <2>2. Len(ff_flist') = Len(ff_flist)
      BY <2>1, TouchType DEF TypeInv, Types
    <2> QED
      BY <1>0, <1>1, <1>2, <2>1, <2>2, SMTT(45)
  <1>6. CASE CloseStep
    <2>1. ff_flist' = ff_flist
      BY <1>6 DEF CloseStep, BeginClose, CloseRelease, CloseShared, CloseReturn, Quiet
    <2>2. \A s \in Stream : Open(s)' => Open(s)
      BY <1>6 DEF CloseStep, BeginClose, CloseRelease, CloseShared, CloseReturn, Quiet,
                  FreeStream, Open, TypeInv, Types, TypeOK
    <2> QED
      BY <1>0, <1>1, <2>1, <2>2
  <1>7. CASE UNCHANGED <<ff_flist, ff_streams>>
    BY <1>0, <1>1, <1>2, <1>7
  <1>8. PutStep \/ LoadStep \/ FlushStep \/ SyncStep \/ GrowStep \/ FilterStep
          => UNCHANGED <<ff_flist, ff_streams>>
    BY DEF PutStep, WriteBack, WriteBackFails, LoadStep, LoadNew, LoadBlk, LoadFails,
           FlushStep, BeginFlush, FlushReturn, SyncStep, BeginSync, SyncBadStream, SyncNext,
           GrowStep, BeginGrow, GrowReturn, FilterStep, Filter, FilterAborted, Quiet
  <1> QED
    BY <1>3, <1>4, <1>5, <1>6, <1>7, <1>8 DEF Next, vars

(* The inductive invariant holds throughout. *)
LEMMA TypeInvariance == Spec => []TypeInv
  <1>1. Init => TypeInv
    BY InitTypeInv
  <1>2. TypeInv /\ [Next]_vars => TypeInv'
    BY TypesStep, RefsStep, PooledStep DEF TypeInv
  <1> QED
    BY <1>1, <1>2, PTL DEF Spec

(* Every variable always has its type: in particular no buffer ever holds   *)
(* more than FF_BSIZE bytes, no call runs on a file without a descriptor,  *)
(* and fn_refs never goes below zero.                                      *)
THEOREM TypeCorrect == Spec => []TypeOK
  <1>1. TypeInv => TypeOK
    BY DEF TypeInv, Types
  <1> QED
    BY <1>1, TypeInvariance, PTL

-----------------------------------------------------------------------------
(* One copy of a block. *)

(* Buffers that keep their block, or lose it, make no second copy. *)
LEMMA KeepsOneCopy ==
  ASSUME OneCopy,
         \A b \in Buf : \/ ff_buf'[b].fb_file = NoFile
                       \/ /\ ff_buf'[b].fb_file = ff_buf[b].fb_file
                          /\ ff_buf'[b].fb_bnum = ff_buf[b].fb_bnum
  PROVE  OneCopy'
  BY DEF OneCopy

(* Buffers that leave their queues copy nothing. *)
LEMMA ReleasedOneCopy == ASSUME OneCopy, NEW S, ff_buf' = Released(S) PROVE OneCopy'
  <1>1. \A b \in Buf : ff_buf'[b].fb_file = NoFile \/ ff_buf'[b] = ff_buf[b]
    BY DEF Released, NewBuf
  <1> QED
    BY <1>1, KeepsOneCopy

(* A block is loaded only when no buffer holds it. *)
LEMMA LoadOneCopy ==
  ASSUME Types, OneCopy, Misses, NEW b \in Buf, NEW c, NEW w, NEW buf, Fill(b, c, w, buf)
  PROVE  OneCopy'
  <1>1. \A d \in Buf : ~ (ff_buf[d].fb_file = call.f /\ ff_buf[d].fb_bnum = CurBlk)
    BY DEF Misses, Have
  <1>2. /\ ff_buf'[b].fb_file = call.f /\ ff_buf'[b].fb_bnum = CurBlk
        /\ \A d \in Buf \ {b} : ff_buf'[d] = ff_buf[d]
    BY DEF Fill, Types, TypeOK
  <1> QED
    BY <1>1, <1>2 DEF OneCopy

(* Every step keeps the copies apart. *)
LEMMA OneCopyStep == TypeInv /\ OneCopy /\ [Next]_vars => OneCopy'
  <1> SUFFICES ASSUME TypeInv, OneCopy, [Next]_vars PROVE OneCopy'
    OBVIOUS
  <1>0. ASSUME ff_buf' = ff_buf PROVE OneCopy'
    BY <1>0 DEF OneCopy
  <1>1. CASE PoolStep
    BY <1>0, <1>1, ReleasedOneCopy DEF PoolStep, Alloc, BeginFree, FreeBuf
  <1>2. ASSUME NEW b \in Buf, WriteBack(b) PROVE OneCopy'
    <2> DEFINE new == [ff_buf[b] EXCEPT !.fb_wflg = FALSE, !.fb_count = 0]
    <2>1. ff_buf' = [ff_buf EXCEPT ![b] = new]
      BY <1>2 DEF WriteBack
    <2>2. new.fb_file = ff_buf[b].fb_file /\ new.fb_bnum = ff_buf[b].fb_bnum
      BY DEF TypeInv, Types, TypeOK, Buffers
    <2> HIDE DEF new
    <2> QED
      BY <2>1, <2>2, KeepsOneCopy DEF TypeInv, Types, TypeOK
  <1>3. CASE LoadStep
    <2>1. Victim \in Buf
      BY <1>3, VictimType DEF TypeInv
    <2>2. CASE LoadNew
      BY <2>1, <2>2, LoadOneCopy DEF LoadNew, TypeInv
    <2>3. CASE LoadBlk
      BY <2>1, <2>3, LoadOneCopy DEF LoadBlk, TypeInv
    <2>4. CASE LoadFails
      BY <2>4, ReleasedOneCopy DEF LoadFails
    <2> QED
      BY <1>3, <2>2, <2>3, <2>4 DEF LoadStep
  <1>4. ASSUME NEW b \in Buf, WriteChunk(b) PROVE OneCopy'
    <2>1. ff_buf[b].fb_file = call.f /\ ff_buf[b].fb_bnum = CurBlk
      BY <1>4 DEF WriteChunk, WriteChunkAs, Have
    <2>2. PICK c, buf : Fill(b, c, TRUE, buf)
      BY <1>4 DEF WriteChunk, WriteChunkAs
    <2>3. \A d \in Buf : /\ ff_buf'[d].fb_file = ff_buf[d].fb_file
                         /\ ff_buf'[d].fb_bnum = ff_buf[d].fb_bnum
      BY <2>1, <2>2 DEF Fill, TypeInv, Types, TypeOK
    <2> QED
      BY <2>3, KeepsOneCopy
  <1>5. CASE GrowStep \/ CloseStep
    BY <1>0, <1>5, ReleasedOneCopy
    DEF GrowStep, BeginGrow, GrowReturn, CloseStep, BeginClose, CloseRelease, CloseShared,
        CloseReturn, Quiet
  <1>6. CASE ReadStep \/ FlushStep \/ SyncStep \/ FilterStep \/ OpenStep
    BY <1>0, <1>6
    DEF ReadStep, BeginRead, ReadChunk, ReadEOF, ReadReturn,
        FlushStep, BeginFlush, FlushReturn, SyncStep, BeginSync, SyncBadStream, SyncNext,
        FilterStep, Filter, FilterAborted, OpenStep, OpenShared, OpenNew, Quiet
  <1>7. CASE PutStep
    BY <1>0, <1>2, <1>7 DEF PutStep, WriteBackFails
  <1>8. CASE WriteStep
    BY <1>0, <1>4, <1>8 DEF WriteStep, BeginWrite, WriteReturn
  <1>9. CASE UNCHANGED vars
    BY <1>0, <1>9 DEF vars
  <1> QED
    BY <1>1, <1>3, <1>5, <1>6, <1>7, <1>8, <1>9 DEF Next

(* No block of a file is ever in two buffers, whatever fails: what one call *)
(* wrote to a block is what the next call finds of it.                     *)
THEOREM OneCopyCorrect == Spec => []OneCopy
  <1>1. Init => OneCopy
    BY DEF Init, OneCopy, NewBuf
  <1>2. TypeInv /\ OneCopy /\ [Next]_vars => OneCopy'
    BY OneCopyStep
  <1> QED
    BY <1>1, <1>2, TypeInvariance, PTL DEF Spec

-----------------------------------------------------------------------------
(* fn_realblk, as long as no read fails and no block is overwritten unread. *)

(* A block that ends before another begins has the lower number. *)
LEMMA BlocksOrdered ==
  ASSUME NEW a \in Nat, NEW b \in Nat, (a + 1) * BSIZE <= b * BSIZE
  PROVE  a + 1 <= b
  <1>1. SUFFICES ASSUME b <= a PROVE FALSE
    OBVIOUS
  <1>2. PICK d \in Nat : a = b + d
    BY <1>1
  <1>3. (a + 1) * BSIZE = b * BSIZE + d * BSIZE + BSIZE
    BY <1>2, BSizeAssumption
  <1>4. d * BSIZE \in Nat /\ b * BSIZE \in Nat
    BY MulNat, BSizeAssumption
  <1> QED
    BY <1>3, <1>4, BSizeAssumption

(* A pass that takes a whole block starts where the block starts. *)
LEMMA WholeBlock ==
  ASSUME TypeOK, Fetching, ~ ChunkLen < BSIZE
  PROVE  /\ call.at <= CurBlk * BSIZE
         /\ (CurBlk + 1) * BSIZE <= call.at + call.n
  <1>1. /\ call.at \in Nat /\ call.done \in Nat /\ call.n \in Nat
        /\ CurOff = call.at + call.done
    BY DEF TypeOK, Calls, CurOff
  <1>2. CurBlk \in Nat /\ Rem(CurOff) \in 0 .. BSIZE - 1 /\ ChunkLen <= BSIZE - Rem(CurOff)
        /\ ChunkLen \in Nat
    BY Cursor, BSizeAssumption DEF Off
  <1>3. ChunkLen = BSIZE /\ Rem(CurOff) = 0
    BY <1>2, BSizeAssumption
  <1>4. call.n - call.done >= BSIZE
    BY <1>1, <1>3, BSizeAssumption DEF ChunkLen, Lesser
  <1>5. CurOff = CurBlk * BSIZE
    BY <1>1, <1>3, BSizeAssumption DEF CurBlk, Blk, Rem
  <1>6. (CurBlk + 1) * BSIZE = CurBlk * BSIZE + BSIZE
    BY <1>2, BSizeAssumption
  <1> QED
    BY <1>1, <1>4, <1>5, <1>6, BSizeAssumption

(* PosImage, also where fn_fd is closed. *)
Image == \A f \in File :
  ff_files[f].fn_realblk # -1 => ff_files[f].pos = ff_files[f].fn_realblk * BSIZE

(* A stream that may write makes its file one that may be written. *)
WriteModes ==
  /\ \A s \in Stream : Open(s) /\ ff_streams[s].f_mode =>
       ff_files[ff_streams[s].f_file].fn_mode
  /\ call.op = "write" => ff_files[call.f].fn_mode

(* A write in progress takes no whole block of the file. *)
PartsOnly ==
  call.op = "write" => \A blk \in Nat :
    ~ (/\ call.at <= blk * BSIZE
       /\ (blk + 1) * BSIZE <= call.at + call.n
       /\ blk * BSIZE < ff_files[call.f].fn_size)

PosInv == Image /\ WriteModes /\ PartsOnly

(* So a block of the file is never taken over without being read. *)
LEMMA AlwaysRead ==
  ASSUME TypeInv, PosInv, LoadBlk
  PROVE  ReadFlag
  <1> SUFFICES ASSUME ~ ReadFlag PROVE FALSE
    OBVIOUS
  <1>1. call.op = "write" /\ ~ ChunkLen < BSIZE /\ Fetching /\ InFile
    BY DEF LoadBlk, Misses, Fetching, ReadFlag
  <1>2. CurBlk * BSIZE < ff_files[call.f].fn_size
    BY <1>1 DEF InFile, PosInv, WriteModes
  <1>3. CurBlk \in Nat
    BY Cursor DEF TypeInv, Types
  <1> QED
    BY <1>1, <1>2, <1>3, WholeBlock DEF PosInv, PartsOnly, TypeInv, Types

(* A step leaves what PosInv says of the files and the streams alone, and   *)
(* the call goes on or ends.                                               *)
SameFiles ==
  \A f \in File : /\ ff_files'[f].pos = ff_files[f].pos
                  /\ ff_files'[f].fn_realblk = ff_files[f].fn_realblk

SameModes ==
  /\ ff_streams' = ff_streams
  /\ \A f \in File : ff_files'[f].fn_mode = ff_files[f].fn_mode

SameCall ==
  call'.op = "write" =>
    /\ call.op = "write" /\ call'.f = call.f /\ call'.at = call.at /\ call'.n = call.n
    /\ ff_files'[call.f].fn_size = ff_files[call.f].fn_size

(* The positions hang on the files alone. *)
LEMMA SameFilesImage == Image /\ SameFiles => Image'
  BY DEF Image, SameFiles

(* ... and the modes on the files, the streams and the call. *)
LEMMA SameCallPosInv ==
  ASSUME TypeInv, PosInv, SameModes, SameCall
  PROVE  WriteModes' /\ PartsOnly'
  <1>1. \A s \in Stream : Open(s) => ff_streams[s].f_file \in File
    BY DEF TypeInv, Types, TypeOK, Streams, Open
  <1>2. call.op = "write" => call.f \in File
    BY DEF TypeInv, Types, CallOK
  <1> QED
    BY <1>1, <1>2 DEF PosInv, WriteModes, PartsOnly, SameModes, SameCall, Open

(* A transfer that leaves the position where fn_realblk says, or says nothing. *)
LEMMA MovedPosInv ==
  ASSUME TypeInv, PosInv, NEW f \in File, NEW pos, NEW realblk,
         realblk # -1 => pos = realblk * BSIZE,
         ff_files' = Moved(f, pos, realblk), ff_streams' = ff_streams,
         call' = call \/ call'.op # "write"
  PROVE  PosInv'
  <1> DEFINE new == [ff_files[f] EXCEPT !.pos = pos, !.fn_realblk = realblk]
  <1>1. ff_files' = [ff_files EXCEPT ![f] = new]
    BY DEF Moved
  <1>2. /\ new.pos = pos /\ new.fn_realblk = realblk
        /\ new.fn_mode = ff_files[f].fn_mode /\ new.fn_size = ff_files[f].fn_size
    BY DEF TypeInv, Types, TypeOK, Files
  <1> HIDE DEF new
  <1>3. Image'
    BY <1>1, <1>2 DEF PosInv, Image, TypeInv, Types, TypeOK
  <1>4. \A g \in File : /\ ff_files'[g].fn_mode = ff_files[g].fn_mode
                        /\ ff_files'[g].fn_size = ff_files[g].fn_size
    BY <1>1, <1>2 DEF TypeInv, Types, TypeOK
  <1>5. call.op = "write" => call.f \in File
    BY DEF TypeInv, Types, CallOK
  <1>6. SameModes /\ SameCall
    BY <1>4, <1>5 DEF SameModes, SameCall
  <1> QED
    BY <1>3, <1>6, SameCallPosInv DEF PosInv

(* ff_putblk and ff_gblk seek to the block, or are there already. *)
LEMMA SeekToBlock ==
  ASSUME Image, NEW f \in File, NEW blk \in Nat
  PROVE  SeekTo(f, blk) = blk * BSIZE
  BY DEF Image, SeekTo

(* The end of a block is the start of the next. *)
LEMMA NextBlock == ASSUME NEW blk \in Nat PROVE blk * BSIZE + BSIZE = (blk + 1) * BSIZE
  BY BSizeAssumption

(* ff_putblk, done or failed. *)
LEMMA WriteBackPos ==
  ASSUME TypeInv, PosInv, NEW b \in Buf, WriteBack(b) \/ WriteBackFails(b)
  PROVE  PosInv'
  <1> DEFINE f == ff_buf[b].fb_file
             blk == ff_buf[b].fb_bnum
             c == ff_buf[b].fb_count
  <1>1. f \in File /\ blk \in Nat /\ c \in 0 .. BSIZE
    BY DEF WriteBack, WriteBackFails, NeedsWrite, TypeInv, Types, TypeOK, Owned, Buffers
  <1>2. SeekTo(f, blk) = blk * BSIZE
    BY <1>1, SeekToBlock DEF PosInv
  <1>3. CASE WriteBack(b)
    <2>1. /\ ff_files' = Moved(f, SeekTo(f, blk) + c, RealblkAfterPut(b))
          /\ ff_streams' = ff_streams /\ call' = call
      BY <1>3 DEF WriteBack
    <2>2. RealblkAfterPut(b) # -1 => SeekTo(f, blk) + c = RealblkAfterPut(b) * BSIZE
      BY <1>1, <1>2, NextBlock DEF RealblkAfterPut
    <2> QED
      BY <1>1, <2>1, <2>2, MovedPosInv
  <1>4. CASE WriteBackFails(b)
    <2>1. PICK k : ff_files' = Moved(f, SeekTo(f, blk) + k, -1)
      BY <1>4, SMTT(45) DEF WriteBackFails
    <2>2. ff_streams' = ff_streams /\ call'.op # "write"
      BY <1>4 DEF WriteBackFails, Return, Ended
    <2> QED
      BY <1>1, <2>1, <2>2, MovedPosInv, SMTT(45)
  <1> QED
    BY <1>3, <1>4, SMTT(45)

(* ff_gblk on a miss, when no read fails. *)
LEMMA LoadPos ==
  ASSUME TypeInv, PosInv, ~ FailReads, LoadStep
  PROVE  PosInv'
  <1>1. CASE LoadNew
    <2>1. SameFiles /\ SameModes /\ SameCall
      BY <1>1 DEF LoadNew, SameFiles, SameModes, SameCall
    <2> QED
      BY <2>1, SameFilesImage, SameCallPosInv DEF PosInv
  <1>2. CASE LoadBlk
    <2> DEFINE f == call.f
               pos == SeekTo(f, CurBlk)
               got == ReadLen(disk[ff_files[f].path], pos)
    <2>1. f \in File /\ CurBlk \in Nat
      BY <1>2, Cursor DEF LoadBlk, Misses, Fetching, TypeInv, Types, CallOK
    <2>2. ReadFlag
      BY <1>2, AlwaysRead, SMTT(45)
    <2>3. ff_files' = Moved(f, pos + got, RealblkAfterGet(CurBlk, got))
      BY <1>2, <2>2 DEF LoadBlk
    <2>4. pos = CurBlk * BSIZE
      BY <2>1, SeekToBlock DEF PosInv
    <2>5. RealblkAfterGet(CurBlk, got) # -1 =>
            pos + got = RealblkAfterGet(CurBlk, got) * BSIZE
      <3>1. CurBlk * BSIZE \in Nat
        BY <2>1, MulNat, BSizeAssumption, SMTT(45)
      <3> QED
        BY <2>1, <2>4, <3>1, NextBlock DEF RealblkAfterGet
    <2>6. ff_streams' = ff_streams /\ call' = call
      BY <1>2 DEF LoadBlk
    <2> QED
      BY <2>1, <2>3, <2>5, <2>6, MovedPosInv, SMTT(45)
  <1> QED
    BY <1>1, <1>2 DEF LoadStep, LoadFails

(* The size of a file is no part of its position. *)
LEMMA SizePosInv ==
  ASSUME TypeInv, PosInv, NEW size, ff_files' = [ff_files EXCEPT ![call.f].fn_size = size],
         ff_streams' = ff_streams, call'.op # "write"
  PROVE  PosInv'
  <1> DEFINE new == [ff_files[call.f] EXCEPT !.fn_size = size]
  <1>1. ff_files' = [ff_files EXCEPT ![call.f] = new]
    OBVIOUS
  <1>2. call.f \in File =>
          /\ new.pos = ff_files[call.f].pos /\ new.fn_realblk = ff_files[call.f].fn_realblk
          /\ new.fn_mode = ff_files[call.f].fn_mode
    BY DEF TypeInv, Types, TypeOK, Files
  <1> HIDE DEF new
  <1>3. SameFiles /\ SameModes /\ SameCall
    BY <1>1, <1>2 DEF SameFiles, SameModes, SameCall, TypeInv, Types, TypeOK
  <1> QED
    BY <1>3, SameFilesImage, SameCallPosInv DEF PosInv

(* ff_write, when no whole block is overwritten. *)
LEMMA WritePos ==
  ASSUME TypeInv, PosInv, ~ Overwrite, WriteStep
  PROVE  PosInv'
  <1>1. ASSUME NEW s \in Stream, NEW at \in Places, NEW n \in WriteLens, NEW v \in Byte,
               BeginWrite(s, at, n, v)
        PROVE  PosInv'
    <2> DEFINE f == ff_streams[s].f_file
               sz == ff_files[f].fn_size
    <2>1. f \in File /\ sz \in Nat
      BY <1>1, OpenRefs DEF BeginWrite, TypeInv, Types, TypeOK, Files
    <2>2. /\ call' = Request("write", 0, f, at, n, v)
          /\ ff_files' = ff_files /\ ff_streams' = ff_streams
          /\ ff_streams[s].f_mode /\ Open(s) /\ WriteAllowed(at, n, sz)
      BY <1>1 DEF BeginWrite, SizeOf
    <2>3. call'.op = "write" /\ call'.f = f /\ call'.at = at /\ call'.n = n
      BY <2>2 DEF Request
    <2>4. Image' /\ WriteModes'
      BY <2>2, <2>3 DEF PosInv, Image, WriteModes, Open
    <2>5. PartsOnly'
      <3> SUFFICES ASSUME NEW blk \in Nat, at <= blk * BSIZE, (blk + 1) * BSIZE <= at + n,
                          blk * BSIZE < sz
                   PROVE  FALSE
        BY <2>2, <2>3 DEF PartsOnly
      <3>1. at + n <= MaxBlk * BSIZE
        BY <2>2 DEF WriteAllowed
      <3>2. at + n \in Nat /\ MaxBlk * BSIZE \in Nat /\ (blk + 1) * BSIZE \in Nat
        BY LenAssumption, BoundAssumption, BSizeAssumption, MulNat DEF Places
      <3>3. (blk + 1) * BSIZE <= MaxBlk * BSIZE
        BY <3>1, <3>2
      <3>4. blk \in 0 .. MaxBlk - 1
        BY <3>3, BlocksOrdered, BoundAssumption
      <3> QED
        BY <2>2, <3>4 DEF WriteAllowed
    <2> QED
      BY <2>4, <2>5 DEF PosInv
  <1>2. ASSUME NEW b \in Buf, WriteChunk(b) PROVE PosInv'
    <2>1. /\ ff_files' = ff_files /\ ff_streams' = ff_streams
          /\ call' = [call EXCEPT !.done = @ + ChunkLen]
      BY <1>2 DEF WriteChunk, WriteChunkAs
    <2>2. /\ call'.op = call.op /\ call'.f = call.f /\ call'.at = call.at
          /\ call'.n = call.n
      BY <2>1 DEF TypeInv, Types, TypeOK, Calls
    <2>3. SameFiles /\ SameModes /\ SameCall
      BY <2>1, <2>2 DEF SameFiles, SameModes, SameCall
    <2> QED
      BY <2>3, SameFilesImage, SameCallPosInv DEF PosInv
  <1>3. CASE WriteReturn
    <2>1. call'.op # "write"
      BY <1>3 DEF WriteReturn, Return, Ended
    <2>2. /\ ff_files' = [ff_files EXCEPT ![call.f].fn_size =
                            Greater(ff_files[call.f].fn_size, CurOff)]
          /\ ff_streams' = ff_streams
      BY <1>3 DEF WriteReturn
    <2> QED
      BY <2>1, <2>2, SizePosInv
  <1> QED
    BY <1>1, <1>2, <1>3 DEF WriteStep

(* Opening a file once more leaves its position alone. *)
LEMMA SharedPos ==
  ASSUME NEW file \in Files, NEW w \in BOOLEAN
  PROVE  /\ Shared(file, w).pos = file.pos /\ Shared(file, w).fn_realblk = file.fn_realblk
         /\ Shared(file, w).fn_mode = (file.fn_mode \/ w)
  <1> DEFINE mode == file.fn_mode \/ w
             refs == file.fn_refs + 1
  <1>1. mode \in BOOLEAN
    BY DEF Files
  <1>2. Shared(file, w) = [file EXCEPT !.fn_refs = refs, !.fn_mode = mode]
    BY DEF Shared
  <1> HIDE DEF mode, refs
  <1>3. /\ Shared(file, w).pos = file.pos /\ Shared(file, w).fn_realblk = file.fn_realblk
        /\ Shared(file, w).fn_mode = mode
    BY <1>1, <1>2 DEF Files
  <1> QED
    BY <1>3 DEF mode

(* ff_open. *)
LEMMA OpenPos ==
  ASSUME TypeInv, PosInv, NEW p \in Path, NEW w \in BOOLEAN, OpenShared(p, w) \/ OpenNew(p, w)
  PROVE  PosInv'
  <1>1. call' = call /\ call.op # "write"
    BY DEF OpenShared, OpenNew, Ready, Idle
  <1>2. \A r \in Stream : Open(r) => ff_streams[r].f_file \in File
    BY DEF TypeInv, Types, TypeOK, Streams, Open
  <1>3. ASSUME NEW s \in Stream, NEW f \in File, NEW new, OpenStream(s, f, w),
               ff_files' = [ff_files EXCEPT ![f] = new],
               new.fn_realblk # -1 => new.pos = new.fn_realblk * BSIZE,
               w => new.fn_mode,
               \A r \in StreamsOf(f) : ff_files[f].fn_mode => new.fn_mode
        PROVE  PosInv'
    <2>1. Image'
      BY <1>3 DEF PosInv, Image, TypeInv, Types, TypeOK
    <2>2. \A r \in Stream : ff_streams'[r] =
            IF r = s THEN [f_file |-> f, f_mode |-> w] ELSE ff_streams[r]
      BY <1>3 DEF OpenStream, TypeInv, Types, TypeOK
    <2>3. ASSUME NEW r \in Stream, Open(r)', ff_streams'[r].f_mode
          PROVE  ff_files'[ff_streams'[r].f_file].fn_mode
      <3>1. CASE r = s
        BY <1>3, <2>2, <2>3, <3>1 DEF TypeInv, Types, TypeOK
      <3>2. CASE r # s
        <4>1. Open(r) /\ ff_streams[r].f_mode /\ ff_streams'[r] = ff_streams[r]
          BY <2>2, <2>3, <3>2 DEF Open
        <4>2. ff_files[ff_streams[r].f_file].fn_mode /\ ff_streams[r].f_file \in File
          BY <1>2, <4>1 DEF PosInv, WriteModes
        <4>3. ff_streams[r].f_file = f => r \in StreamsOf(f)
          BY DEF StreamsOf
        <4> QED
          BY <1>3, <4>1, <4>2, <4>3 DEF TypeInv, Types, TypeOK
      <3> QED
        BY <3>1, <3>2
    <2> QED
      BY <1>1, <2>1, <2>3 DEF PosInv, WriteModes, PartsOnly
  <1>4. CASE OpenShared(p, w)
    <2>1. PICK s \in Stream, f \in OpenOn(p) :
            OpenStream(s, f, w) /\ ff_files' = [ff_files EXCEPT ![f] = Shared(@, w)]
      BY <1>4, Zenon DEF OpenShared
    <2>2. f \in File /\ ff_files[f] \in Files
      BY DEF OpenOn, TypeInv, Types, TypeOK
    <2> DEFINE new == Shared(ff_files[f], w)
    <2>3. /\ new.pos = ff_files[f].pos /\ new.fn_realblk = ff_files[f].fn_realblk
          /\ new.fn_mode = (ff_files[f].fn_mode \/ w)
      BY <2>2, SharedPos
    <2>4. ff_files' = [ff_files EXCEPT ![f] = new]
      BY <2>1
    <2> HIDE DEF new
    <2> QED
      BY <1>3, <2>1, <2>2, <2>3, <2>4 DEF PosInv, Image
  <1>5. CASE OpenNew(p, w)
    <2> DEFINE new == [path |-> p, pos |-> 0, fdw |-> w, fn_refs |-> 1, fn_mode |-> w,
                       fn_realblk |-> 0, fn_size |-> disk[p].len]
    <2>1. PICK s \in Stream, f \in Lowest(FreeFiles) :
            OpenStream(s, f, w) /\ ff_files' = [ff_files EXCEPT ![f] = new]
      BY <1>5, Zenon DEF OpenNew
    <2>2. f \in File /\ ff_files[f].fn_refs = 0
      BY DEF Lowest, FreeFiles
    <2>3. StreamsOf(f) = {}
      BY <2>2, StreamsFinite, FS_EmptySet DEF TypeInv, RefsMatch
    <2>4. new.pos = 0 /\ new.fn_realblk = 0 /\ new.fn_mode = w /\ 0 = 0 * BSIZE
      BY BSizeAssumption
    <2> HIDE DEF new
    <2> QED
      BY <1>3, <2>1, <2>2, <2>3, <2>4
  <1> QED
    BY <1>4, <1>5

(* A call that returns, or another one than ff_write, is no write. *)
LEMMA NoWrite ==
  ASSUME NEW r, NEW op, NEW s, NEW f, op # "write", Return(r) \/ Begin(op, s, f)
  PROVE  call'.op # "write"
  BY DEF Return, Ended, Begin, Request

(* ff_close. *)
LEMMA ClosePos ==
  ASSUME TypeInv, PosInv, CloseStep
  PROVE  PosInv'
  <1>1. ASSUME NEW s \in Stream, BeginClose(s) PROVE PosInv'
    <2>1. PICK f \in File : f = ff_streams[s].f_file
      BY <1>1, OpenRefs DEF BeginClose
    <2> DEFINE new == [ff_files[f] EXCEPT !.fn_refs = ff_files[f].fn_refs - 1]
    <2>2. /\ ff_files' = [ff_files EXCEPT ![f] = new]
          /\ ff_streams' = [ff_streams EXCEPT ![s] = FreeStream]
          /\ call'.op # "write"
      BY <1>1, <2>1 DEF BeginClose, Begin, Request
    <2>3. /\ new.pos = ff_files[f].pos /\ new.fn_realblk = ff_files[f].fn_realblk
          /\ new.fn_mode = ff_files[f].fn_mode
      BY DEF TypeInv, Types, TypeOK, Files
    <2> HIDE DEF new
    <2>4. Image' /\ \A g \in File : ff_files'[g].fn_mode = ff_files[g].fn_mode
      BY <2>2, <2>3 DEF PosInv, Image, TypeInv, Types, TypeOK
    <2>5. \A r \in Stream : Open(r)' =>
            Open(r) /\ ff_streams'[r] = ff_streams[r] /\ ff_streams[r].f_file \in File
      BY <2>2 DEF Open, FreeStream, Streams, TypeInv, Types, TypeOK
    <2>6. \A r \in Stream : Open(r)' /\ ff_streams'[r].f_mode =>
            ff_files'[ff_streams'[r].f_file].fn_mode
      BY <2>4, <2>5 DEF PosInv, WriteModes
    <2> QED
      BY <2>2, <2>4, <2>6 DEF PosInv, WriteModes, PartsOnly
  <1>2. CASE CloseReturn
    <2>1. call.f \in File /\ ff_files[call.f].fn_refs = 0
      BY <1>2 DEF CloseReturn, Closing, TypeInv, Types, CallOK
    <2>2. StreamsOf(call.f) = {}
      BY <2>1, StreamsFinite, FS_EmptySet DEF TypeInv, RefsMatch
    <2>3. /\ ff_files' = [ff_files EXCEPT ![call.f] = FreeFile] /\ ff_streams' = ff_streams
          /\ call'.op # "write"
      BY <1>2 DEF CloseReturn, Return, Ended
    <2>4. FreeFile.pos = 0 /\ FreeFile.fn_realblk = 0 /\ 0 = 0 * BSIZE
      BY BSizeAssumption DEF FreeFile
    <2>5. Image'
      BY <2>1, <2>3, <2>4 DEF PosInv, Image, TypeInv, Types, TypeOK
    <2>6. \A r \in Stream : Open(r) =>
            ff_streams[r].f_file \in File \ {call.f}
      BY <2>2 DEF StreamsOf, Open, Streams, TypeInv, Types, TypeOK
    <2> QED
      BY <2>3, <2>5, <2>6 DEF PosInv, WriteModes, PartsOnly, Open, TypeInv, Types, TypeOK
  <1>3. CASE CloseShared \/ \E b \in Buf : CloseRelease(b)
    <2>1. UNCHANGED <<ff_files, ff_streams>> /\ (call' = call \/ call'.op # "write")
      BY <1>3, NoWrite DEF CloseShared, CloseRelease, Quiet
    <2>2. SameFiles /\ SameModes /\ SameCall
      BY <2>1 DEF SameFiles, SameModes, SameCall
    <2> QED
      BY <2>2, SameFilesImage, SameCallPosInv DEF PosInv
  <1> QED
    BY <1>1, <1>2, <1>3 DEF CloseStep

(* Every step keeps the positions right. *)
LEMMA PosInvStep ==
  ASSUME ~ FailReads, ~ Overwrite, TypeInv, PosInv, [Next]_vars
  PROVE  PosInv'
  <1>1. CASE PutStep
    BY <1>1, WriteBackPos DEF PutStep
  <1>2. CASE LoadStep
    BY <1>2, LoadPos
  <1>3. CASE WriteStep
    BY <1>3, WritePos
  <1>4. CASE OpenStep
    <2>1. \A p \in Path : \A w \in Modes[p] : w \in BOOLEAN
      BY PathAssumption
    <2> QED
      BY <1>4, <2>1, OpenPos DEF OpenStep
  <1>5. CASE CloseStep
    BY <1>5, ClosePos
  <1>6. CASE GrowReturn
    <2>1. call'.op # "write"
      BY <1>6 DEF GrowReturn, Return, Ended
    <2> QED
      BY <1>6, <2>1, SizePosInv DEF GrowReturn
  <1>7. CASE PoolStep \/ ReadStep \/ FlushStep \/ SyncStep \/ FilterStep
             \/ (\E s \in Stream : BeginGrow(s)) \/ UNCHANGED vars
    <2>1. UNCHANGED <<ff_files, ff_streams>>
      BY <1>7
      DEF PoolStep, Alloc, BeginFree, FreeBuf, ReadStep, BeginRead, ReadChunk, ReadEOF, ReadReturn,
          FlushStep, BeginFlush, FlushReturn, SyncStep, BeginSync, SyncBadStream, SyncNext,
          FilterStep, Filter, FilterAborted, BeginGrow, Quiet, vars
    <2>2. call' = call \/ call'.op # "write"
      <3>0. CASE PoolStep
        BY <3>0, NoWrite DEF PoolStep, Alloc, BeginFree, FreeBuf
      <3>1. CASE FlushStep \/ FilterStep \/ UNCHANGED vars
        BY <3>1, NoWrite
        DEF FlushStep, BeginFlush, FlushReturn, FilterStep, Filter, FilterAborted, vars
      <3>2. CASE ReadStep
        <4>1. ASSUME NEW b \in Buf, ReadChunk(b) PROVE call'.op = "read"
          BY <4>1 DEF ReadChunk, TypeInv, Types, TypeOK, Calls
        <4> QED
          BY <3>2, <4>1 DEF ReadStep, BeginRead, ReadEOF, ReadReturn, Request, Return, Ended
      <3>3. CASE SyncStep
        <4>1. CASE SyncNext
          BY <4>1, SMTT(45) DEF SyncNext, Return, Ended, TypeInv, Types, TypeOK, Calls
        <4> QED
          BY <3>3, <4>1 DEF SyncStep, BeginSync, SyncBadStream, Begin, Request, Return, Ended
      <3>4. CASE \E s \in Stream : BeginGrow(s)
        BY <3>4 DEF BeginGrow, Request
      <3> QED
        BY <1>7, <3>0, <3>1, <3>2, <3>3, <3>4
    <2>3. SameFiles /\ SameModes /\ SameCall
      BY <2>1, <2>2 DEF SameFiles, SameModes, SameCall
    <2> QED
      BY <2>3, SameFilesImage, SameCallPosInv DEF PosInv
  <1> QED
    BY <1>1, <1>2, <1>3, <1>4, <1>5, <1>6, <1>7 DEF Next, GrowStep

(* As long as no read(2) fails and no caller overwrites a whole block of a  *)
(* file, fn_realblk is the block the system's position of fn_fd is at: the *)
(* seeks that ff_putblk and ff_gblk leave out are not needed, whichever    *)
(* writes fail or stop short.                                              *)
THEOREM PosImageCorrect ==
  ASSUME ~ FailReads, ~ Overwrite
  PROVE  Spec => []PosImage
  <1>1. Init => PosInv
    <2> SUFFICES ASSUME Init PROVE PosInv
      OBVIOUS
    <2>1. 0 = 0 * BSIZE
      BY BSizeAssumption
    <2> QED
      BY <2>1 DEF Init, PosInv, Image, WriteModes, PartsOnly, FreeFile, FreeStream, Open, Ended
  <1>2. TypeInv /\ PosInv /\ [Next]_vars => PosInv'
    BY PosInvStep
  <1>3. PosInv => PosImage
    BY DEF PosInv, Image, PosImage
  <1> QED
    BY <1>1, <1>2, <1>3, TypeInvariance, PTL DEF Spec
=============================================================================

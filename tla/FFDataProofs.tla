--------------------------- MODULE FFDataProofs ----------------------------
(***************************************************************************)
(* Theorems about the bytes in FF's buffers and on the disk, for every     *)
(* number of files, streams and buffers, every block size and every bound, *)
(* and with writes that fail at any point: no byte is only in a buffer     *)
(* that may be taken for another block; a flush or a close that succeeds   *)
(* leaves the file on disk; and callers see one array of bytes per file    *)
(* (FileStore).                                                            *)
(***************************************************************************)
EXTENDS FFProofs

-----------------------------------------------------------------------------
(* What the theorems leave out, each a case in which bytes are lost: reads *)
(* that fail, callers that overwrite a whole block, filters that start     *)
(* while there are bytes behind the end of the file, and filters that      *)
(* truncate it.                                                            *)
Calm == ~ FailReads /\ ~ Overwrite /\ ~ Untidy /\ ~ BuiltinFill

(* How far a file reaches while it is written. *)
Reach(f) == IF call.op = "write" /\ call.f = f
              THEN Greater(ff_files[f].fn_size, CurOff) ELSE ff_files[f].fn_size

(* A buffer that is about to write the byte at address a. *)
Tells(b, a) == ff_buf[b].fb_wflg /\ Rem(a) < ff_buf[b].fb_count

BufsAgree(f, a) ==
  LET d == disk[ff_files[f].path]
  IN  \A b \in Buf : Covers(b, f, a) /\ ~ Tells(b, a) =>
        a < d.len /\ ff_buf[b].fb_buf[Rem(a)] = d.at[a]

Cached(f, a) == \E b \in Buf : Covers(b, f, a)

(* CleanAgrees, as far as a write in progress has come.  The blocks that a  *)
(* failed write has left behind the end of the file agree, too: ff_grow    *)
(* may make them a part of it.                                             *)
AgreesAt(f, a) ==
  /\ a < Reach(f) \/ Blk(a) * BSIZE > Reach(f) => BufsAgree(f, a)
  /\ a < Reach(f) => Cached(f, a) \/ a < disk[ff_files[f].path].len

Agree == \A f \in File : ff_files[f].path # NoPath => \A a \in Addr : AgreesAt(f, a)

(* A read stays in the file, and a write that has written a part of a block *)
(* is at the start of the next, or done.                                   *)
CallInFile ==
  /\ call.op \in {"read", "write"} => call.at <= ff_files[call.f].fn_size
  /\ call.op = "read" => CurOff <= ff_files[call.f].fn_size
  /\ call.op = "write" /\ Fetching /\ call.done > 0 => Rem(CurOff) = 0

(* Buffers belong to files that have a descriptor, and are in the pool. *)
Backed == \A b \in Buf : ff_buf[b].fb_file # NoFile =>
  /\ ff_files[ff_buf[b].fb_file].path # NoPath
  /\ \E i \in 1 .. Len(ff_flist) : ff_flist[i] = b

(* No file is in two slots. *)
OneSlot == \A f, g \in File :
  ff_files[f].path # NoPath /\ ff_files[f].path = ff_files[g].path => f = g

DataInv == Agree /\ CallInFile /\ Backed /\ OneSlot

-----------------------------------------------------------------------------
(* The files.  Only ff_open and the last ff_close change what file a slot   *)
(* is of.                                                                  *)
Same(f) == /\ ff_files'[f].path = ff_files[f].path
           /\ ff_files'[f].fdw = ff_files[f].fdw

SameSize(f) == ff_files'[f].fn_size = ff_files[f].fn_size

(* A seek or a transfer. *)
LEMMA MovedSame ==
  ASSUME TypeInv, NEW f \in File, NEW pos, NEW realblk, ff_files' = Moved(f, pos, realblk)
  PROVE  \A g \in File : Same(g) /\ SameSize(g)
  <1> DEFINE new == [ff_files[f] EXCEPT !.pos = pos, !.fn_realblk = realblk]
  <1>1. ff_files[f] \in Files /\ ff_files' = [ff_files EXCEPT ![f] = new]
    BY DEF Moved, TypeInv, Types, TypeOK
  <1>2. /\ new.path = ff_files[f].path /\ new.fdw = ff_files[f].fdw
        /\ new.fn_size = ff_files[f].fn_size
    BY <1>1 DEF Files
  <1> HIDE DEF new
  <1> QED
    BY <1>1, <1>2 DEF Same, SameSize, TypeInv, Types, TypeOK

(* A call that raises the size of its file. *)
LEMMA SizedSame ==
  ASSUME TypeInv, NEW f \in File, NEW size, ff_files' = [ff_files EXCEPT ![f].fn_size = size]
  PROVE  \A g \in File : Same(g) /\ ff_files'[g].fn_size = IF g = f THEN size ELSE ff_files[g].fn_size
  <1> DEFINE new == [ff_files[f] EXCEPT !.fn_size = size]
  <1>1. ff_files[f] \in Files /\ ff_files' = [ff_files EXCEPT ![f] = new]
    BY DEF TypeInv, Types, TypeOK
  <1>2. /\ new.path = ff_files[f].path /\ new.fdw = ff_files[f].fdw
        /\ new.fn_size = size
    BY <1>1 DEF Files
  <1> HIDE DEF new
  <1> QED
    BY <1>1, <1>2 DEF Same, TypeInv, Types, TypeOK

(* What holds of the buffers and the calls, for the steps that follow. *)
LEMMA BufFacts ==
  ASSUME TypeInv
  PROVE  /\ \A b \in Buf : ff_buf[b].fb_file \in File \cup {NoFile} /\ ff_buf[b] \in Buffers
         /\ \A b \in Buf : ff_buf[b].fb_file # NoFile =>
              /\ ff_buf[b].fb_file \in File
              /\ ff_buf[b].fb_bnum \in Nat /\ ff_buf[b].fb_count \in 0 .. BSIZE
         /\ call.op \in {"read", "write", "close", "grow"} => call.f \in File
  BY DEF TypeInv, Types, TypeOK, Owned, CallOK, Buffers

(* Opening a file once more. *)
LEMMA SharedSame ==
  ASSUME TypeInv, NEW p \in Path, NEW w \in BOOLEAN, OpenShared(p, w)
  PROVE  \A g \in File : Same(g) /\ SameSize(g)
  <1>1. PICK f \in File : ff_files' = [ff_files EXCEPT ![f] = Shared(ff_files[f], w)]
    BY DEF OpenShared, OpenOn
  <1>2. ff_files[f] \in Files
    BY DEF TypeInv, Types, TypeOK
  <1> DEFINE new == Shared(ff_files[f], w)
             mode == ff_files[f].fn_mode \/ w
             refs == ff_files[f].fn_refs + 1
  <1>3. new = [ff_files[f] EXCEPT !.fn_refs = refs, !.fn_mode = mode]
    BY DEF Shared
  <1> HIDE DEF mode, refs, new
  <1>4. new.path = ff_files[f].path /\ new.fdw = ff_files[f].fdw /\ new.fn_size = ff_files[f].fn_size
    BY <1>2, <1>3 DEF Files
  <1> QED
    BY <1>1, <1>4 DEF Same, SameSize, new, TypeInv, Types, TypeOK

(* Closing one of its streams. *)
LEMMA CloseSame ==
  ASSUME TypeInv, NEW s \in Stream, BeginClose(s)
  PROVE  \A g \in File : Same(g) /\ SameSize(g)
  <1> DEFINE f == ff_streams[s].f_file
             refs == ff_files[f].fn_refs - 1
             new == [ff_files[f] EXCEPT !.fn_refs = refs]
  <1>1. ff_files' = [ff_files EXCEPT ![f] = new] /\ f \in File
    BY DEF BeginClose, Open, TypeInv, Types, TypeOK, Streams
  <1>2. ff_files[f] \in Files
    BY <1>1 DEF TypeInv, Types, TypeOK
  <1> HIDE DEF f, refs
  <1>3. new.path = ff_files[f].path /\ new.fdw = ff_files[f].fdw /\ new.fn_size = ff_files[f].fn_size
    BY <1>2, SMTT(45) DEF Files
  <1> HIDE DEF new
  <1> QED
    BY <1>1, <1>3 DEF Same, SameSize, TypeInv, Types, TypeOK

(* Steps that leave the table of files alone. *)
Unfiled == \/ BeginFree \/ FreeBuf \/ (\E b \in Buf : Alloc(b))
           \/ LoadNew \/ FlushStep \/ SyncStep \/ FilterStep
           \/ (\E s \in Stream, at \in Places, n \in ReadLens : BeginRead(s, at, n))
           \/ (\E b \in Buf : ReadChunk(b) \/ ReadEOF(b) \/ WriteChunk(b) \/ CloseRelease(b))
           \/ ReadReturn \/ CloseShared
           \/ (\E s \in Stream, at \in Places, n \in WriteLens, v \in Byte : BeginWrite(s, at, n, v))
           \/ (\E s \in Stream : BeginGrow(s))
           \/ UNCHANGED vars

(* ... and they do. *)
LEMMA UnfiledSame == ASSUME Unfiled PROVE ff_files' = ff_files
  BY DEF Unfiled, BeginFree, FreeBuf, Alloc, LoadNew, FlushStep, BeginFlush, FlushReturn, SyncStep, BeginSync,
     SyncBadStream, SyncNext, FilterStep, Filter, FilterAborted, BeginRead, ReadChunk, ReadEOF, WriteChunk,
     WriteChunkAs, CloseRelease, ReadReturn, CloseShared, BeginWrite, BeginGrow, Quiet, vars

(* The steps of Next, by what they do to the table. *)
LEMMA Steps ==
  ASSUME [Next]_vars
  PROVE  \/ Unfiled
         \/ (\E b \in Buf : WriteBack(b)) \/ (\E b \in Buf : WriteBackFails(b)) \/ LoadBlk \/ LoadFails
         \/ WriteReturn \/ GrowReturn
         \/ (\E s \in Stream : BeginClose(s)) \/ CloseReturn
         \/ (\E p \in Path : \E w \in Modes[p] : OpenShared(p, w))
         \/ (\E p \in Path : \E w \in Modes[p] : OpenNew(p, w))
  BY DEF Next, PoolStep, PutStep, LoadStep, ReadStep, WriteStep, GrowStep, OpenStep, CloseStep, Unfiled

(* Every step but ff_open's of a file nobody has open and the last ff_close's. *)
LEMMA PlainSame ==
  ASSUME TypeInv,
         \/ Unfiled
         \/ (\E b \in Buf : WriteBack(b)) \/ (\E b \in Buf : WriteBackFails(b)) \/ LoadBlk \/ LoadFails
         \/ WriteReturn \/ GrowReturn
         \/ (\E s \in Stream : BeginClose(s))
         \/ (\E p \in Path : \E w \in Modes[p] : OpenShared(p, w))
  PROVE  \A g \in File : Same(g)
  <1>1. CASE Unfiled
    BY <1>1, UnfiledSame DEF Same
  <1>2. ASSUME NEW b \in Buf, WriteBack(b) \/ WriteBackFails(b) PROVE \A g \in File : Same(g)
    <2>1. ff_buf[b].fb_file \in File
      BY <1>2, BufFacts, ZenonT(45) DEF WriteBack, WriteBackFails, NeedsWrite
    <2>2. \E pos, realblk : ff_files' = Moved(ff_buf[b].fb_file, pos, realblk)
      BY <1>2 DEF WriteBack, WriteBackFails
    <2> QED
      BY <2>1, <2>2, MovedSame, SMTT(45)
  <1>3. ASSUME LoadBlk \/ LoadFails PROVE \A g \in File : Same(g)
    <2>1. call.f \in File
      BY <1>3, BufFacts DEF LoadBlk, LoadFails, Misses, Fetching
    <2>2. \E pos, realblk : ff_files' = Moved(call.f, pos, realblk)
      BY <1>3 DEF LoadBlk, LoadFails
    <2> QED
      BY <2>1, <2>2, MovedSame, SMTT(45)
  <1>4. ASSUME WriteReturn \/ GrowReturn PROVE \A g \in File : Same(g)
    <2>1. call.f \in File
      BY <1>4, BufFacts DEF WriteReturn, GrowReturn
    <2>2. \E size : ff_files' = [ff_files EXCEPT ![call.f].fn_size = size]
      BY <1>4 DEF WriteReturn, GrowReturn
    <2> QED
      BY <2>1, <2>2, SizedSame
  <1>5. ASSUME NEW s \in Stream, BeginClose(s) PROVE \A g \in File : Same(g)
    BY <1>5, CloseSame
  <1>6. ASSUME NEW p \in Path, NEW w \in Modes[p], OpenShared(p, w) PROVE \A g \in File : Same(g)
    <2>1. w \in BOOLEAN
      BY PathAssumption
    <2> QED
      BY <1>6, <2>1, SharedSame
  <1> QED
    BY <1>1, <1>2, <1>3, <1>4, <1>5, <1>6

(* A slot f and a stream s that ff_open has given to a file.               *)
NewSlot(p, w, f, s) ==
  /\ ff_files[f].path = NoPath /\ (\A r \in Stream : ff_streams[r].f_file # f)
  /\ ff_files'[f].path = p /\ ff_files'[f].fdw = w /\ ff_files'[f].fn_size = disk[p].len
  /\ \A g \in File : g # f => ff_files'[g] = ff_files[g]
  /\ \A g \in File : ff_files[g].path # p
  /\ ff_streams' = [ff_streams EXCEPT ![s] = [f_file |-> f, f_mode |-> w]]
  /\ UNCHANGED <<disk, ff_buf, ff_flist, call, filter>> /\ call.op = "none"

(* ff_open of a file that is in no slot yet. *)
LEMMA OpenNewFacts ==
  ASSUME TypeInv, NEW p \in Path, NEW w \in BOOLEAN, OpenNew(p, w)
  PROVE  \E f \in File, s \in Stream : NewSlot(p, w, f, s)
  <1> DEFINE new == [path |-> p, pos |-> 0, fdw |-> w, fn_refs |-> 1, fn_mode |-> w,
                     fn_realblk |-> 0, fn_size |-> disk[p].len]
  <1>1. PICK s \in Stream, f \in Lowest(FreeFiles) :
          OpenStream(s, f, w) /\ ff_files' = [ff_files EXCEPT ![f] = new]
    BY Zenon DEF OpenNew
  <1>2. f \in File /\ ff_files[f].fn_refs = 0
    BY DEF Lowest, FreeFiles
  <1>3. StreamsOf(f) = {}
    BY <1>2, StreamsFinite, FS_EmptySet DEF TypeInv, RefsMatch
  <1>4. \A g \in File : ff_files[g].fn_refs \in Nat
    BY DEF TypeInv, Types, TypeOK, Files
  <1>5. ~ HalfClosed /\ OpenOn(p) = {} /\ p # NoPath
    BY PathAssumption DEF OpenNew
  <1>6. \A g \in File : ff_files[g].path # p
    BY <1>4, <1>5 DEF HalfClosed, OpenOn
  <1>7. ff_files[f].path = NoPath
    BY <1>2, <1>5 DEF HalfClosed
  <1>8. ff_files'[f] = new /\ \A g \in File : g # f => ff_files'[g] = ff_files[g]
    BY <1>1, <1>2 DEF TypeInv, Types, TypeOK
  <1>9. ff_streams' = [ff_streams EXCEPT ![s] = [f_file |-> f, f_mode |-> w]]
    BY <1>1 DEF OpenStream
  <1>10. UNCHANGED <<disk, ff_buf, ff_flist, call, filter>> /\ call.op = "none"
    BY DEF OpenNew, Ready, Idle
  <1>11. \A r \in Stream : ff_streams[r].f_file # f
    BY <1>3 DEF StreamsOf
  <1>12. ff_files'[f].path = p /\ ff_files'[f].fdw = w /\ ff_files'[f].fn_size = disk[p].len
    BY <1>8
  <1> HIDE DEF new
  <1>13. NewSlot(p, w, f, s)
    BY <1>6, <1>7, <1>8, <1>9, <1>10, <1>11, <1>12 DEF NewSlot
  <1> QED
    BY <1>2, <1>13

(* The last ff_close has let go of the buffers, and no stream is left. *)
LEMMA CloseReturnFacts ==
  ASSUME TypeInv, CloseReturn
  PROVE  /\ call.f \in File /\ Queue(call.f) = {} /\ call'.op = "none"
         /\ \A r \in Stream : ff_streams[r].f_file # call.f
         /\ ff_files'[call.f].path = NoPath
         /\ \A g \in File : g # call.f => ff_files'[g] = ff_files[g]
         /\ UNCHANGED <<disk, ff_streams, ff_buf, ff_flist, filter>>
  <1>1. call.f \in File /\ call.op = "close" /\ ff_files[call.f].fn_refs = 0
    BY BufFacts DEF CloseReturn, Closing
  <1>2. StreamsOf(call.f) = {}
    BY <1>1, StreamsFinite, FS_EmptySet DEF TypeInv, RefsMatch
  <1>3. /\ ff_files'[call.f] = FreeFile
        /\ \A g \in File : g # call.f => ff_files'[g] = ff_files[g]
    BY <1>1 DEF CloseReturn, TypeInv, Types, TypeOK
  <1> QED
    BY <1>1, <1>2, <1>3 DEF CloseReturn, Return, Ended, FreeFile, StreamsOf

(* So no two slots are of the same file. *)
LEMMA OneSlotStep ==
  ASSUME TypeInv, OneSlot, [Next]_vars
  PROVE  OneSlot'
  <1>1. CASE \A g \in File : Same(g)
    BY <1>1 DEF Same, OneSlot
  <1>2. CASE CloseReturn
    BY <1>2, CloseReturnFacts DEF OneSlot
  <1>3. ASSUME NEW p \in Path, NEW w \in Modes[p], OpenNew(p, w) PROVE OneSlot'
    <2>1. w \in BOOLEAN
      BY PathAssumption
    <2>2. PICK f \in File, s \in Stream : NewSlot(p, w, f, s)
      BY <1>3, <2>1, OpenNewFacts
    <2> QED
      BY <2>2 DEF OneSlot, NewSlot
  <1> QED
    BY <1>1, <1>2, <1>3, Steps, PlainSame

-----------------------------------------------------------------------------
(* The buffers. *)

(* What WriteBack, a load and WriteChunk make of a buffer. *)
LEMMA WrittenBack ==
  ASSUME TypeInv, NEW b \in Buf, WriteBack(b)
  PROVE  /\ ff_buf'[b].fb_file = ff_buf[b].fb_file /\ ff_buf'[b].fb_bnum = ff_buf[b].fb_bnum
         /\ ff_buf'[b].fb_buf = ff_buf[b].fb_buf /\ ~ ff_buf'[b].fb_wflg
         /\ \A c \in Buf : c # b => ff_buf'[c] = ff_buf[c]
  <1> DEFINE new == [ff_buf[b] EXCEPT !.fb_wflg = FALSE, !.fb_count = 0]
  <1>1. ff_buf' = [ff_buf EXCEPT ![b] = new] /\ ff_buf[b] \in Buffers
    BY DEF WriteBack, TypeInv, Types, TypeOK
  <1>2. /\ new.fb_file = ff_buf[b].fb_file /\ new.fb_bnum = ff_buf[b].fb_bnum
        /\ new.fb_buf = ff_buf[b].fb_buf /\ new.fb_wflg = FALSE
    BY <1>1 DEF Buffers
  <1> HIDE DEF new
  <1> QED
    BY <1>1, <1>2 DEF TypeInv, Types, TypeOK

(* A load, or a pass of ff_write. *)
LEMMA Filled ==
  ASSUME TypeInv, NEW b \in Buf, NEW c, NEW w, NEW buf, Fill(b, c, w, buf)
  PROVE  /\ ff_buf'[b].fb_file = call.f /\ ff_buf'[b].fb_bnum = CurBlk
         /\ ff_buf'[b].fb_buf = buf /\ ff_buf'[b].fb_wflg = w /\ ff_buf'[b].fb_count = c
         /\ \A d \in Buf : d # b => ff_buf'[d] = ff_buf[d]
  BY DEF Fill, TypeInv, Types, TypeOK

(* Buffers that leave their queues. *)
LEMMA ReleasedBufs ==
  ASSUME NEW S, ff_buf' = Released(S)
  PROVE  \A b \in Buf : /\ b \in S => ff_buf'[b].fb_file = NoFile /\ ~ ff_buf'[b].fb_wflg
                        /\ b \notin S => ff_buf'[b] = ff_buf[b]
  BY DEF Released, NewBuf

(* Blocks are only loaded, or written to, by ff_read and ff_write. *)
LEMMA Loads ==
  ASSUME TypeInv, LoadNew \/ LoadBlk
  PROVE  /\ Victim \in Buf /\ call.f \in File /\ ff_files[call.f].path # NoPath
         /\ ~ NeedsWrite(Victim) /\ Misses /\ call' = call /\ ff_flist' = ff_flist
         /\ Len(ff_flist) >= 1 /\ \E c, buf : Fill(Victim, c, FALSE, buf)
  <1>1. Misses /\ ~ NeedsWrite(Victim) /\ call' = call /\ ff_flist' = ff_flist
    BY DEF LoadNew, LoadBlk
  <1>2. call.f \in File /\ ff_files[call.f].path # NoPath /\ Len(ff_flist) >= MinPool
    BY <1>1 DEF Misses, Fetching, TypeInv, Types, CallOK
  <1>3. Victim \in Buf
    BY VictimType DEF LoadStep, TypeInv
  <1>4. Len(ff_flist) \in Nat
    BY DEF TypeInv, Types, TypeOK
  <1>5. \E c, buf : Fill(Victim, c, FALSE, buf)
    BY DEF LoadNew, LoadBlk
  <1>6. Len(ff_flist) >= 1
    BY <1>2, <1>4, BoundAssumption
  <1> QED
    BY <1>1, <1>2, <1>3, <1>5, <1>6

(* A pass of ff_write, and its buffer. *)
LEMMA Writes ==
  ASSUME TypeInv, NEW b \in Buf, WriteChunk(b)
  PROVE  /\ call.op = "write" /\ Fetching /\ b \in Have(call.f, CurBlk)
         /\ call.f \in File /\ ff_files[call.f].path # NoPath
         /\ ff_buf'[b].fb_file = call.f /\ ff_buf'[b].fb_bnum = CurBlk /\ ff_buf'[b].fb_wflg
         /\ \A d \in Buf : d # b => ff_buf'[d] = ff_buf[d]
  <1>1. call.op = "write" /\ Fetching /\ b \in Have(call.f, CurBlk) /\ \E c, buf : Fill(b, c, TRUE, buf)
    BY DEF WriteChunk, WriteChunkAs
  <1>2. call.f \in File /\ ff_files[call.f].path # NoPath
    BY <1>1 DEF TypeInv, Types, CallOK
  <1> QED
    BY <1>1, <1>2, Filled, ZenonT(45)

(* Every step either leaves the buffers alone, releases some, writes one    *)
(* out, loads one or writes to one.                                        *)
LEMMA BufSteps ==
  ASSUME [Next]_vars
  PROVE  \/ ff_buf' = ff_buf \/ (\E S : ff_buf' = Released(S))
         \/ (\E b \in Buf : WriteBack(b)) \/ LoadNew \/ LoadBlk \/ (\E b \in Buf : WriteChunk(b))
  <1>1. Unfiled => \/ ff_buf' = ff_buf \/ (\E S : ff_buf' = Released(S))
                   \/ LoadNew \/ (\E b \in Buf : WriteChunk(b))
    BY ZenonT(45) DEF Unfiled, BeginFree, FreeBuf, Alloc, FlushStep, BeginFlush, FlushReturn, SyncStep, BeginSync,
       SyncBadStream, SyncNext, FilterStep, Filter, FilterAborted, BeginRead, ReadChunk, ReadEOF,
       CloseRelease, ReadReturn, CloseShared, BeginWrite, BeginGrow, Quiet, vars
  <1>2. (\E b \in Buf : WriteBackFails(b)) \/ WriteReturn \/ (\E s \in Stream : BeginClose(s)) \/ CloseReturn
        \/ (\E p \in Path : \E w \in Modes[p] : OpenShared(p, w))
        \/ (\E p \in Path : \E w \in Modes[p] : OpenNew(p, w)) => ff_buf' = ff_buf
    BY DEF WriteBackFails, WriteReturn, BeginClose, CloseReturn, OpenShared, OpenNew
  <1>3. LoadFails \/ GrowReturn => \E S : ff_buf' = Released(S)
    BY DEF LoadFails, GrowReturn
  <1> QED
    BY <1>1, <1>2, <1>3, Steps, SMTT(45)

(* A buffer keeps its file, loses it, or has that of the call. *)
LEMMA Belongs ==
  ASSUME TypeInv, [Next]_vars, NEW b \in Buf, ff_buf'[b].fb_file # NoFile
  PROVE  \/ ff_buf'[b].fb_file = ff_buf[b].fb_file
         \/ /\ LoadNew \/ LoadBlk
            /\ b = Victim /\ ff_buf'[b].fb_file = call.f
  <1>1. CASE ff_buf' = ff_buf
    BY <1>1
  <1>2. ASSUME NEW S, ff_buf' = Released(S) PROVE ff_buf'[b].fb_file = ff_buf[b].fb_file
    BY <1>2, ReleasedBufs
  <1>3. ASSUME NEW c \in Buf, WriteBack(c) PROVE ff_buf'[b].fb_file = ff_buf[b].fb_file
    BY <1>3, WrittenBack
  <1>4. ASSUME LoadNew \/ LoadBlk
        PROVE  ff_buf'[b].fb_file = ff_buf[b].fb_file \/ (b = Victim /\ ff_buf'[b].fb_file = call.f)
    BY <1>4, Loads, Filled
  <1>5. ASSUME NEW c \in Buf, WriteChunk(c) PROVE ff_buf'[b].fb_file = ff_buf[b].fb_file
    BY <1>5, Writes DEF Have
  <1> QED
    BY <1>1, <1>2, <1>3, <1>4, <1>5, BufSteps

-----------------------------------------------------------------------------
(* The pool. *)
Pooling(b) == \E i \in 1 .. Len(ff_flist) : ff_flist[i] = b

(* Touching a buffer loses none. *)
LEMMA TouchKeeps ==
  ASSUME TypeInv, NEW b \in Buf, NEW c, Pooling(c)
  PROVE  \E i \in 1 .. Len(Touch(b)) : Touch(b)[i] = c
  <1> DEFINE n == Len(ff_flist)
  <1>1. ff_flist \in Seq(Buf) /\ n \in Nat
    BY DEF TypeInv, Types, TypeOK
  <1>2. PICK k \in 1 .. n : ff_flist[k] = c
    BY DEF Pooling
  <1>3. CASE ~ \E i \in 1 .. n : i > 2 /\ ff_flist[i] = b
    BY <1>2, <1>3 DEF Touch
  <1>4. CASE \E i \in 1 .. n : i > 2 /\ ff_flist[i] = b
    <2> DEFINE i == CHOOSE j \in 1 .. n : ff_flist[j] = b
               T == [j \in 1 .. n |-> IF j = 1 THEN b
                                      ELSE IF j <= i THEN ff_flist[j - 1] ELSE ff_flist[j]]
    <2>1. i \in 1 .. n /\ ff_flist[i] = b
      BY <1>4
    <2>2. Touch(b) = T /\ Len(Touch(b)) = n
      BY <1>4, TouchType DEF Touch, TypeInv, Types
    <2> HIDE DEF i
    <2>3. CASE k = i
      <3>1. T[1] = c /\ 1 \in 1 .. n
        BY <1>1, <1>2, <2>1, <2>3
      <3> QED
        BY <2>2, <3>1
    <2>4. CASE k < i
      <3>1. T[k + 1] = c /\ k + 1 \in 1 .. n
        BY <1>1, <1>2, <2>1, <2>4
      <3> QED
        BY <2>2, <3>1
    <2>5. CASE k > i
      <3>1. T[k] = c
        BY <1>1, <1>2, <2>1, <2>5
      <3> QED
        BY <1>2, <2>2, <3>1
    <2> QED
      BY <1>1, <2>1, <1>2, <2>3, <2>4, <2>5
  <1> QED
    BY <1>3, <1>4

(* A buffer only leaves the pool when it leaves its queue. *)
LEMMA PoolingStep ==
  ASSUME TypeInv, [Next]_vars, NEW b \in Buf, Pooling(b)
  PROVE  Pooling(b)' \/ ff_buf'[b].fb_file = NoFile
  <1> DEFINE n == Len(ff_flist)
  <1>0. ff_flist \in Seq(Buf) /\ n \in Nat
    BY DEF TypeInv, Types, TypeOK
  <1>1. CASE ff_flist' = ff_flist
    BY <1>1 DEF Pooling
  <1>2. ASSUME NEW c \in Buf, Alloc(c) PROVE Pooling(b)'
    <2>1. ff_flist' = <<c>> \o ff_flist
      BY <1>2 DEF Alloc
    <2>2. PICK i \in 1 .. n : ff_flist[i] = b
      BY DEF Pooling
    <2>3. Len(ff_flist') = n + 1 /\ ff_flist'[i + 1] = ff_flist[i] /\ i + 1 \in 1 .. n + 1
      BY <1>0, <2>1, <2>2
    <2> QED
      BY <2>2, <2>3 DEF Pooling
  <1>3. CASE FreeBuf
    <2>1. /\ ff_flist' = SubSeq(ff_flist, 1, n - 1) /\ ff_buf' = Released({Victim})
      BY <1>3 DEF FreeBuf
    <2>2. PICK i \in 1 .. n : ff_flist[i] = b
      BY DEF Pooling
    <2>3. CASE i = n
      <3>1. b = Victim
        BY <2>2, <2>3 DEF Victim
      <3> QED
        BY <2>1, <3>1, ReleasedBufs
    <2>4. CASE i # n
      <3>1. Len(ff_flist') = n - 1 /\ i \in 1 .. n - 1 /\ ff_flist'[i] = ff_flist[i]
        BY <1>0, <2>1, <2>2, <2>4
      <3> QED
        BY <2>2, <3>1 DEF Pooling
    <2> QED
      BY <2>3, <2>4
  <1>4. ASSUME NEW c \in Buf, ff_flist' = Touch(c) PROVE Pooling(b)'
    BY <1>4, TouchKeeps, SMTT(45) DEF Pooling
  <1>5. \/ ff_flist' = ff_flist \/ (\E c \in Buf : Alloc(c)) \/ FreeBuf
        \/ (\E c \in Buf : ff_flist' = Touch(c))
    <2>1. Unfiled => \/ ff_flist' = ff_flist \/ (\E c \in Buf : Alloc(c)) \/ FreeBuf
                     \/ (\E c \in Buf : ff_flist' = Touch(c))
      BY ZenonT(45) DEF Unfiled, BeginFree, FlushStep, BeginFlush, FlushReturn, SyncStep, BeginSync, LoadNew,
         SyncBadStream, SyncNext, FilterStep, Filter, FilterAborted, BeginRead, ReadChunk, ReadEOF,
         WriteChunk, WriteChunkAs, CloseRelease, ReadReturn, CloseShared, BeginWrite, BeginGrow, Quiet, vars
    <2>2. (\E c \in Buf : WriteBack(c)) \/ (\E c \in Buf : WriteBackFails(c)) \/ LoadBlk \/ LoadFails
          \/ WriteReturn \/ GrowReturn \/ (\E s \in Stream : BeginClose(s)) \/ CloseReturn
          \/ (\E p \in Path : \E w \in Modes[p] : OpenShared(p, w))
          \/ (\E p \in Path : \E w \in Modes[p] : OpenNew(p, w)) => ff_flist' = ff_flist
      BY DEF WriteBack, WriteBackFails, LoadBlk, LoadFails, WriteReturn, GrowReturn, BeginClose, CloseReturn,
         OpenShared, OpenNew
    <2> QED
      BY <2>1, <2>2, Steps
  <1> QED
    BY <1>1, <1>2, <1>3, <1>4, <1>5

(* A buffer is let go before its file is, and before it leaves the pool. *)
LEMMA BackedStep ==
  ASSUME TypeInv, Backed, [Next]_vars
  PROVE  Backed'
  <1> SUFFICES ASSUME NEW b \in Buf, ff_buf'[b].fb_file # NoFile
               PROVE  ff_files'[ff_buf'[b].fb_file].path # NoPath /\ Pooling(b)'
    BY DEF Backed, Pooling
  <1>1. /\ ff_buf'[b].fb_file \in File /\ ff_files[ff_buf'[b].fb_file].path # NoPath
        /\ Pooling(b)
    <2>1. CASE ff_buf'[b].fb_file = ff_buf[b].fb_file
      BY <2>1, BufFacts DEF Backed, Pooling
    <2>2. ASSUME LoadNew \/ LoadBlk, b = Victim, ff_buf'[b].fb_file = call.f
          PROVE  ff_buf'[b].fb_file \in File /\ ff_files[ff_buf'[b].fb_file].path # NoPath /\ Pooling(b)
      <3>1. Len(ff_flist) \in 1 .. Len(ff_flist)
        <4>1. Len(ff_flist) \in Nat
          BY DEF TypeInv, Types, TypeOK
        <4>2. Len(ff_flist) >= 1
          BY <2>2, Loads
        <4> QED
          BY <4>1, <4>2
      <3> QED
        BY <2>2, <3>1, Loads DEF Pooling, Victim
    <2> QED
      BY <2>1, <2>2, Belongs
  <1>2. Pooling(b)'
    BY <1>1, PoolingStep
  <1>3. ff_files'[ff_buf'[b].fb_file].path # NoPath
    <2>1. CASE \A g \in File : Same(g)
      BY <1>1, <2>1 DEF Same
    <2>2. CASE CloseReturn
      <3>1. ff_buf[b].fb_file # call.f /\ ff_buf' = ff_buf
        BY <2>2, CloseReturnFacts DEF Queue
      <3> QED
        BY <1>1, <2>2, <3>1, CloseReturnFacts
    <2>3. ASSUME NEW p \in Path, NEW w \in Modes[p], OpenNew(p, w)
          PROVE  ff_files'[ff_buf'[b].fb_file].path # NoPath
      <3>1. w \in BOOLEAN
        BY PathAssumption
      <3>2. PICK f \in File, s \in Stream : NewSlot(p, w, f, s)
        BY <2>3, <3>1, OpenNewFacts
      <3>3. ff_buf'[b].fb_file # f
        BY <1>1, <3>2 DEF NewSlot
      <3> QED
        BY <1>1, <3>2, <3>3 DEF NewSlot
    <2> QED
      BY <2>1, <2>2, <2>3, Steps, PlainSame
  <1> QED
    BY <1>2, <1>3

-----------------------------------------------------------------------------
(* The call. *)

(* Every step goes on with the call, begins or ends one that neither reads   *)
(* nor writes a file's bytes, or is one of ff_read or ff_write.            *)
LEMMA CallSteps ==
  ASSUME TypeInv, [Next]_vars
  PROVE  \/ call' = call \/ call'.op \notin {"read", "write"}
         \/ (\E s \in Stream, at \in Places, n \in ReadLens : BeginRead(s, at, n))
         \/ (\E s \in Stream, at \in Places, n \in WriteLens, v \in Byte : BeginWrite(s, at, n, v))
         \/ (\E b \in Buf : ReadChunk(b)) \/ (\E b \in Buf : WriteChunk(b))
  <1>1. ASSUME NEW r, Return(r) PROVE call'.op \notin {"read", "write"}
    BY <1>1 DEF Return, Ended
  <1>2. ASSUME NEW op, NEW s, NEW f, op \notin {"read", "write"}, Begin(op, s, f)
        PROVE  call'.op \notin {"read", "write"}
    BY <1>2, SMTT(45) DEF Begin, Request
  <1>3. (\E b \in Buf : Alloc(b)) \/ LoadNew \/ LoadBlk \/ (\E b \in Buf : WriteBack(b)) \/ FilterStep
        \/ (\E b \in Buf : CloseRelease(b)) \/ (\E p \in Path : \E w \in Modes[p] : OpenShared(p, w))
        \/ (\E p \in Path : \E w \in Modes[p] : OpenNew(p, w)) \/ UNCHANGED vars => call' = call
    BY DEF Alloc, LoadNew, LoadBlk, WriteBack, FilterStep, Filter, FilterAborted, CloseRelease, OpenShared,
       OpenNew, vars
  <1>4. FreeBuf \/ (\E b \in Buf : ReadEOF(b)) \/ ReadReturn \/ FlushReturn \/ SyncBadStream \/ CloseShared
        \/ (\E b \in Buf : WriteBackFails(b)) \/ LoadFails \/ WriteReturn \/ GrowReturn \/ CloseReturn
        => \E r : Return(r)
    BY DEF FreeBuf, ReadEOF, ReadReturn, FlushReturn, SyncBadStream, CloseShared, WriteBackFails, LoadFails,
       WriteReturn, GrowReturn, CloseReturn
  <1>5. BeginFree => call'.op \notin {"read", "write"}
    BY <1>2 DEF BeginFree
  <1>6. ASSUME NEW s \in Stream, BeginFlush(s) \/ BeginSync \/ BeginClose(s) \/ BeginGrow(s)
        PROVE  call'.op \notin {"read", "write"}
    BY <1>6 DEF BeginFlush, BeginSync, BeginClose, BeginGrow, Begin, Request
  <1>7. ASSUME SyncNext PROVE call'.op \notin {"read", "write"}
    <2>1. CASE call.s < NStream
      <3>1. call' = [call EXCEPT !.s = @ + 1] /\ call.op = "sync" /\ call \in Calls
        BY <1>7, <2>1 DEF SyncNext, TypeInv, Types, TypeOK
      <3> QED
        BY <3>1 DEF Calls
    <2>2. CASE ~ (call.s < NStream)
      BY <1>7, <1>1, <2>2 DEF SyncNext
    <2> QED
      BY <2>1, <2>2
  <1>8. 1 \in Stream
    BY SlotAssumption DEF Stream
  <1>9. BeginSync => call'.op \notin {"read", "write"}
    BY <1>6, <1>8
  <1>10. Unfiled => \/ call' = call \/ call'.op \notin {"read", "write"}
                    \/ (\E s \in Stream, at \in Places, n \in ReadLens : BeginRead(s, at, n))
                    \/ (\E s \in Stream, at \in Places, n \in WriteLens, v \in Byte : BeginWrite(s, at, n, v))
                    \/ (\E b \in Buf : ReadChunk(b)) \/ (\E b \in Buf : WriteChunk(b))
    BY <1>1, <1>3, <1>4, <1>5, <1>6, <1>7, <1>9 DEF Unfiled, FlushStep, SyncStep
  <1> QED
    BY <1>1, <1>3, <1>4, <1>6, <1>10, Steps

(* Only ff_write begins a write. *)
LEMMA WriteCalls ==
  ASSUME TypeInv, [Next]_vars, call'.op = "write"
  PROVE  \/ (\E s \in Stream, at \in Places, n \in WriteLens, v \in Byte : BeginWrite(s, at, n, v))
         \/ (\E b \in Buf : WriteChunk(b))
         \/ call' = call
  <1>1. ASSUME NEW s, NEW at, NEW n, BeginRead(s, at, n) PROVE FALSE
    BY <1>1 DEF BeginRead, Request
  <1>2. ASSUME NEW b, ReadChunk(b) PROVE FALSE
    BY <1>2 DEF ReadChunk, TypeInv, Types, TypeOK, Calls
  <1> QED
    BY <1>1, <1>2, CallSteps

-----------------------------------------------------------------------------
(* How far files reach. *)

(* While a call reads or writes no file changes its size. *)
LEMMA CallSizes ==
  ASSUME TypeInv, [Next]_vars, call'.op \in {"read", "write"}
  PROVE  \A g \in File : Same(g) /\ SameSize(g)
  <1>1. CASE Unfiled
    BY <1>1, UnfiledSame DEF Same, SameSize
  <1>2. ASSUME NEW b \in Buf, WriteBack(b) PROVE \A g \in File : Same(g) /\ SameSize(g)
    <2>1. ff_buf[b].fb_file \in File
      BY <1>2, BufFacts DEF WriteBack, NeedsWrite
    <2>2. \E pos, realblk : ff_files' = Moved(ff_buf[b].fb_file, pos, realblk)
      BY <1>2 DEF WriteBack
    <2> QED
      BY <2>1, <2>2, MovedSame
  <1>3. ASSUME LoadBlk PROVE \A g \in File : Same(g) /\ SameSize(g)
    <2>1. call.f \in File
      BY <1>3, BufFacts DEF LoadBlk, Misses, Fetching
    <2>2. \E pos, realblk : ff_files' = Moved(call.f, pos, realblk)
      BY <1>3 DEF LoadBlk
    <2> QED
      BY <2>1, <2>2, MovedSame
  <1>4. ASSUME NEW p \in Path, NEW w \in Modes[p], OpenShared(p, w)
        PROVE  \A g \in File : Same(g) /\ SameSize(g)
    <2>1. w \in BOOLEAN
      BY PathAssumption
    <2> QED
      BY <1>4, <2>1, SharedSame
  <1>5. ~ ((\E b \in Buf : WriteBackFails(b)) \/ LoadFails \/ WriteReturn \/ GrowReturn \/ CloseReturn)
    BY DEF WriteBackFails, LoadFails, WriteReturn, GrowReturn, CloseReturn, Return, Ended
  <1>6. ASSUME NEW s \in Stream, BeginClose(s) PROVE FALSE
    <2>1. Begin("close", 0, ff_streams[s].f_file)
      BY <1>6 DEF BeginClose
    <2> QED
      BY <2>1 DEF Begin, Request
  <1>7. ASSUME NEW p \in Path, NEW w \in Modes[p], OpenNew(p, w) PROVE FALSE
    BY <1>7 DEF OpenNew, Ready, Idle
  <1> QED
    BY <1>1, <1>2, <1>3, <1>4, <1>5, <1>6, <1>7, Steps

(* The steps that change the size of a file that is open. *)
LEMMA Sizes ==
  ASSUME TypeInv, [Next]_vars, NEW f \in File, ff_files[f].path # NoPath
  PROVE  SameSize(f) \/ WriteReturn \/ GrowReturn \/ (CloseReturn /\ f = call.f)
  <1>1. CASE Unfiled
    BY <1>1, UnfiledSame DEF SameSize
  <1>2. ASSUME NEW b \in Buf, WriteBack(b) \/ WriteBackFails(b) PROVE SameSize(f)
    <2>1. ff_buf[b].fb_file \in File
      BY <1>2, BufFacts DEF WriteBack, WriteBackFails, NeedsWrite
    <2>2. \E pos, realblk : ff_files' = Moved(ff_buf[b].fb_file, pos, realblk)
      BY <1>2 DEF WriteBack, WriteBackFails
    <2> QED
      BY <2>1, <2>2, MovedSame
  <1>3. ASSUME LoadBlk \/ LoadFails PROVE SameSize(f)
    <2>1. call.f \in File
      BY <1>3, BufFacts DEF LoadBlk, LoadFails, Misses, Fetching
    <2>2. \E pos, realblk : ff_files' = Moved(call.f, pos, realblk)
      BY <1>3 DEF LoadBlk, LoadFails
    <2> QED
      BY <2>1, <2>2, MovedSame
  <1>4. ASSUME NEW p \in Path, NEW w \in Modes[p], OpenShared(p, w) PROVE SameSize(f)
    <2>1. w \in BOOLEAN
      BY PathAssumption
    <2> QED
      BY <1>4, <2>1, SharedSame
  <1>5. ASSUME NEW s \in Stream, BeginClose(s) PROVE SameSize(f)
    BY <1>5, CloseSame
  <1>6. CloseReturn => SameSize(f) \/ f = call.f
    BY CloseReturnFacts DEF SameSize
  <1>7. ASSUME NEW p \in Path, NEW w \in Modes[p], OpenNew(p, w) PROVE SameSize(f)
    <2>1. w \in BOOLEAN
      BY PathAssumption
    <2>2. PICK g \in File, s \in Stream : NewSlot(p, w, g, s)
      BY <1>7, <2>1, OpenNewFacts
    <2> QED
      BY <2>2 DEF NewSlot, SameSize
  <1> QED
    BY <1>1, <1>2, <1>3, <1>4, <1>5, <1>6, <1>7, Steps

(* A write ends when it is done, or when a buffer cannot be written out. *)
LEMMA EndsWrite ==
  ASSUME Calm, TypeInv, [Next]_vars, call.op = "write", call'.op # "write"
  PROVE  WriteReturn \/ \E b \in Buf : WriteBackFails(b)
  <1>1. ~ LoadFails
    BY DEF Calm, LoadFails
  <1>2. ~ Idle /\ ~ Ready
    BY DEF Idle, Ready
  <1>3. ~ (BeginFree \/ (\E s \in Stream : BeginFlush(s) \/ BeginGrow(s) \/ BeginClose(s)) \/ BeginSync)
    BY <1>2 DEF BeginFree, BeginFlush, BeginGrow, BeginClose, BeginSync, Begin
  <1>4. ~ (\E s \in Stream, at \in Places, n \in ReadLens : BeginRead(s, at, n))
    BY <1>2 DEF BeginRead
  <1>5. ~ (FreeBuf \/ (\E b \in Buf : ReadChunk(b) \/ ReadEOF(b)) \/ ReadReturn \/ FlushReturn
           \/ SyncBadStream \/ SyncNext \/ GrowReturn \/ CloseShared \/ CloseReturn)
    BY DEF FreeBuf, ReadChunk, ReadEOF, ReadReturn, FlushReturn, SyncBadStream, SyncNext, GrowReturn,
       CloseShared, CloseReturn, Closing
  <1>6. ASSUME NEW b \in Buf, WriteChunk(b) PROVE FALSE
    BY <1>6 DEF WriteChunk, WriteChunkAs, TypeInv, Types, TypeOK, Calls
  <1>7. ASSUME NEW s \in Stream, NEW at, NEW n, NEW v, BeginWrite(s, at, n, v) PROVE FALSE
    BY <1>7 DEF BeginWrite, Request
  <1>8. call' = call => FALSE
    OBVIOUS
  <1>9. (\E b \in Buf : Alloc(b)) \/ LoadNew \/ LoadBlk \/ (\E b \in Buf : WriteBack(b)) \/ FilterStep
        \/ (\E b \in Buf : CloseRelease(b)) \/ (\E p \in Path : \E w \in Modes[p] : OpenShared(p, w))
        \/ (\E p \in Path : \E w \in Modes[p] : OpenNew(p, w)) \/ UNCHANGED vars => call' = call
    BY DEF Alloc, LoadNew, LoadBlk, WriteBack, FilterStep, Filter, FilterAborted, CloseRelease, OpenShared,
       OpenNew, vars
  <1>10. ~ Unfiled
    BY <1>3, <1>4, <1>5, <1>6, <1>7, <1>8, <1>9 DEF Unfiled, FlushStep, SyncStep
  <1> QED
    BY <1>1, <1>3, <1>5, <1>8, <1>9, <1>10, Steps

(* ff_write's loop: where a pass ends the next begins, at a block. *)
LEMMA NextAtBlock ==
  ASSUME NEW a \in Nat
  PROVE  Rem(a + (BSIZE - Rem(a))) = 0
  <1>1. Blk(a) \in Nat /\ Rem(a) \in 0 .. BSIZE - 1
    BY DivRem DEF Off
  <1>2. a = Blk(a) * BSIZE + Rem(a)
    BY BSizeAssumption DEF Blk, Rem
  <1>3. a + (BSIZE - Rem(a)) = (Blk(a) + 1) * BSIZE
    BY <1>1, <1>2, BSizeAssumption
  <1>4. \A q \in Nat : (q * BSIZE) % BSIZE = 0
    BY BSizeAssumption
  <1> QED
    BY <1>1, <1>3, <1>4 DEF Rem

(* A read stops at the end of the file, a write begins before it.         *)
LEMMA CallInFileStep ==
  ASSUME TypeInv, CallInFile, [Next]_vars
  PROVE  CallInFile'
  <1> SUFFICES ASSUME call'.op \in {"read", "write"} PROVE CallInFile'
    BY DEF CallInFile, Fetching
  <1>1. \A g \in File : SameSize(g)
    BY CallSizes
  <1>2. \A g \in File : ff_files[g].fn_size \in Nat
    BY DEF TypeInv, Types, TypeOK, Files
  <1>3. call \in Calls /\ call.at \in Nat /\ call.done \in Nat /\ call.n \in Nat
        /\ CurOff \in Nat /\ Rem(CurOff) \in 0 .. BSIZE - 1
    BY Cursor DEF TypeInv, Types, TypeOK, Calls, Off
  <1>4. call.op \in {"read", "write"} => call.f \in File
    BY BufFacts
  <1>5. ASSUME call' = call PROVE CallInFile'
    BY <1>1, <1>4, <1>5 DEF CallInFile, SameSize, CurOff, Fetching
  <1>6. ASSUME NEW s \in Stream, NEW at \in Places, NEW n, NEW v,
               BeginRead(s, at, n) \/ BeginWrite(s, at, n, v)
        PROVE  CallInFile'
    <2>1. /\ call'.at = at /\ call'.done = 0 /\ call'.f = ff_streams[s].f_file
          /\ at <= SizeOf(s) /\ Open(s)
      BY <1>6 DEF BeginRead, BeginWrite, Request, WriteAllowed
    <2>2. ff_streams[s].f_file \in File
      BY <2>1, OpenRefs DEF TypeInv
    <2>3. at \in Nat
      BY MulNat, BoundAssumption, BSizeAssumption DEF Places
    <2> QED
      BY <1>1, <2>1, <2>2, <2>3 DEF CallInFile, SameSize, SizeOf, CurOff
  <1>7. ASSUME NEW b \in Buf, ReadChunk(b) PROVE CallInFile'
    <2> DEFINE left == ff_files[call.f].fn_size - CurOff
               rn == Lesser(ChunkLen, left)
    <2>1. /\ call'.op = "read" /\ call'.f = call.f /\ call'.at = call.at
          /\ call'.done = call.done + rn /\ call.op = "read" /\ Fetching
      BY <1>3, <1>7 DEF ReadChunk, Calls
    <2>2. ChunkLen \in Nat /\ call.f \in File /\ left \in Int
      BY <1>2, <1>3, <1>4, <2>1, Cursor, BSizeAssumption DEF TypeInv, Types, Off
    <2>3. rn <= left /\ rn \in Int
      BY <2>2 DEF Lesser
    <2> HIDE DEF rn
    <2>4. CurOff' <= ff_files[call.f].fn_size
      BY <1>2, <1>3, <2>1, <2>2, <2>3 DEF CurOff
    <2> QED
      BY <1>1, <2>1, <2>2, <2>4 DEF CallInFile, SameSize
  <1>8. ASSUME NEW b \in Buf, WriteChunk(b) PROVE CallInFile'
    <2>1. /\ call'.op = "write" /\ call'.f = call.f /\ call'.at = call.at /\ call'.n = call.n
          /\ call'.done = call.done + ChunkLen /\ call.op = "write" /\ Fetching
      BY <1>3, <1>8 DEF WriteChunk, WriteChunkAs, Calls
    <2>2. Rem(CurOff)' = 0 \/ ~ Fetching'
      <3>1. CASE ChunkLen = BSIZE - Rem(CurOff)
        <4>1. CurOff' = CurOff + (BSIZE - Rem(CurOff))
          BY <1>3, <2>1, <3>1, BSizeAssumption DEF CurOff
        <4> QED
          BY <1>3, <4>1, NextAtBlock DEF Rem
      <3>2. CASE ChunkLen = call.n - call.done
        BY <1>3, <2>1, <3>2 DEF Fetching
      <3> QED
        BY <3>1, <3>2 DEF ChunkLen, Lesser
    <2> QED
      BY <1>1, <1>4, <2>1, <2>2 DEF CallInFile, SameSize
  <1> QED
    BY <1>5, <1>6, <1>7, <1>8, CallSteps

(* Only a pass of ff_write, a write that fails, ff_grow and ff_close change *)
(* how far a file reaches.                                                 *)
LEMMA ReachStep ==
  ASSUME Calm, TypeInv, CallInFile, [Next]_vars, NEW f \in File, ff_files[f].path # NoPath
  PROVE  \/ Reach(f)' = Reach(f) \/ (CloseReturn /\ f = call.f)
         \/ (\E b \in Buf : WriteChunk(b)) \/ GrowReturn
         \/ (\E b \in Buf : WriteBackFails(b))
  <1>1. ff_files[f].fn_size \in Nat /\ CurOff \in Nat
    BY Cursor DEF TypeInv, Types, TypeOK, Files
  <1>2. CASE call.op # "write" /\ call'.op # "write"
    <2>1. ~ WriteReturn
      BY <1>2 DEF WriteReturn
    <2> QED
      BY <1>2, <2>1, Sizes DEF Reach, SameSize
  <1>3. ASSUME call.op = "write", call'.op # "write", WriteReturn PROVE Reach(f)' = Reach(f)
    <2>1. WriteReturn
      BY <1>3
    <2>2. PICK g \in File : g = call.f
      BY <1>3, BufFacts
    <2>3. PICK size : size = Greater(ff_files[g].fn_size, CurOff)
      OBVIOUS
    <2>4. ff_files' = [ff_files EXCEPT ![g].fn_size = size]
      BY <2>1, <2>2, <2>3 DEF WriteReturn
    <2>5. \A h \in File : Same(h) /\ ff_files'[h].fn_size = IF h = g THEN size ELSE ff_files[h].fn_size
      BY <2>4, SizedSame, ZenonT(60)
    <2> QED
      BY <1>3, <2>2, <2>3, <2>5 DEF Reach
  <1>4. CASE call'.op = "write"
    <2>1. SameSize(f)
      BY <1>4, CallSizes
    <2>2. ASSUME NEW s \in Stream, NEW at \in Places, NEW n, NEW v, BeginWrite(s, at, n, v)
          PROVE  Reach(f)' = Reach(f)
      <3>1. /\ call'.f = ff_streams[s].f_file /\ CurOff' = at + 0 /\ call.op # "write"
            /\ at <= ff_files[ff_streams[s].f_file].fn_size
        BY <2>2 DEF BeginWrite, Request, CurOff, WriteAllowed, SizeOf, Ready, Idle
      <3>2. at \in Nat
        BY MulNat, BoundAssumption, BSizeAssumption DEF Places
      <3> QED
        BY <1>1, <2>1, <3>1, <3>2 DEF Reach, SameSize, Greater
    <2>3. ASSUME call' = call PROVE Reach(f)' = Reach(f)
      BY <2>1, <2>3 DEF Reach, SameSize, CurOff
    <2> QED
      BY <1>4, <2>2, <2>3, WriteCalls
  <1> QED
    BY <1>2, <1>3, <1>4, EndsWrite

(* A pass of ff_write. *)
LEMMA WriteReach ==
  ASSUME TypeInv, [Next]_vars, NEW b \in Buf, WriteChunk(b), NEW f \in File
  PROVE  /\ f # call.f => Reach(f)' = Reach(f)
         /\ f = call.f => Reach(f) = Greater(ff_files[f].fn_size, CurOff)
                          /\ Reach(f)' = Greater(ff_files[f].fn_size, CurOff + ChunkLen)
  <1>1. /\ call'.op = "write" /\ call'.f = call.f /\ call'.at = call.at
        /\ call'.done = call.done + ChunkLen /\ call.op = "write" /\ Fetching
        /\ call.at \in Nat /\ call.done \in Nat
    BY DEF WriteChunk, WriteChunkAs, Calls, TypeInv, Types, TypeOK
  <1>2. ChunkLen \in Nat
    BY <1>1, Cursor, BSizeAssumption DEF TypeInv, Types, Off
  <1>3. SameSize(f)
    BY <1>1, CallSizes
  <1>4. CurOff' = CurOff + ChunkLen
    BY <1>1, <1>2 DEF CurOff
  <1> QED
    BY <1>1, <1>3, <1>4 DEF Reach, SameSize

(* ff_grow. *)
LEMMA GrowReach ==
  ASSUME TypeInv, GrowReturn, NEW f \in File
  PROVE  /\ call.op = "grow" /\ call.f \in File /\ Reach(f) = ff_files[f].fn_size
         /\ Reach(f)' = IF f = call.f THEN Greater(ff_files[f].fn_size, disk[ff_files[f].path].len)
                        ELSE ff_files[f].fn_size
  <1>1. /\ call.op = "grow" /\ call'.op # "write" /\ call.f \in File
        /\ ff_files' = [ff_files EXCEPT ![call.f].fn_size =
             Greater(ff_files[call.f].fn_size, disk[ff_files[call.f].path].len)]
    BY BufFacts DEF GrowReturn, Return, Ended
  <1>2. ff_files'[f].fn_size = IF f = call.f
          THEN Greater(ff_files[call.f].fn_size, disk[ff_files[call.f].path].len) ELSE ff_files[f].fn_size
    BY <1>1, SizedSame, ZenonT(45)
  <1> QED
    BY <1>1, <1>2 DEF Reach

(* An address is in its block. *)
LEMMA InBlock ==
  ASSUME NEW a \in Nat
  PROVE  /\ a = Blk(a) * BSIZE + Rem(a) /\ Blk(a) \in Nat /\ Rem(a) \in 0 .. BSIZE - 1
         /\ Blk(a) * BSIZE \in Nat /\ Blk(a) * BSIZE <= a
  <1>1. Blk(a) \in Nat /\ Rem(a) \in 0 .. BSIZE - 1
    BY DivRem DEF Off
  <1>2. a = Blk(a) * BSIZE + Rem(a)
    BY BSizeAssumption DEF Blk, Rem
  <1>3. Blk(a) * BSIZE \in Nat
    BY <1>1, MulNat, BSizeAssumption
  <1> QED
    BY <1>1, <1>2, <1>3

-----------------------------------------------------------------------------
(* The bytes. *)

(* Block and offset say where an address is. *)
LEMMA Placed ==
  ASSUME NEW a \in Nat, NEW q \in Nat, NEW i \in 0 .. BSIZE - 1, a = q * BSIZE + i
  PROVE  Blk(a) = q /\ Rem(a) = i
  <1>1. a = Blk(a) * BSIZE + Rem(a) /\ Blk(a) \in Nat /\ Rem(a) \in 0 .. BSIZE - 1
    BY InBlock
  <1>2. PICK b : b = Blk(a)
    OBVIOUS
  <1>3. ASSUME b > q PROVE FALSE
    <2> DEFINE d == b - q - 1
    <2>1. d \in Nat /\ b = q + 1 + d
      BY <1>1, <1>2, <1>3
    <2> HIDE DEF d
    <2>2. b * BSIZE = q * BSIZE + BSIZE + d * BSIZE /\ d * BSIZE \in Nat /\ q * BSIZE \in Nat
      BY <2>1, MulNat, BSizeAssumption
    <2> QED
      BY <1>1, <1>2, <2>2, BSizeAssumption
  <1>4. ASSUME b < q PROVE FALSE
    <2> DEFINE d == q - b - 1
    <2>1. d \in Nat /\ q = b + 1 + d
      BY <1>1, <1>2, <1>4
    <2> HIDE DEF d
    <2>2. q * BSIZE = b * BSIZE + BSIZE + d * BSIZE /\ d * BSIZE \in Nat /\ b * BSIZE \in Nat
      BY <1>1, <1>2, <2>1, MulNat, BSizeAssumption
    <2> QED
      BY <1>1, <1>2, <2>2, BSizeAssumption
  <1>5. b = q
    BY <1>1, <1>2, <1>3, <1>4
  <1>6. a = q * BSIZE + Rem(a)
    BY <1>1, <1>2, <1>5
  <1>7. q * BSIZE \in Nat /\ Rem(a) \in Nat
    BY <1>1, MulNat, BSizeAssumption
  <1> QED
    BY <1>2, <1>5, <1>6, <1>7, BSizeAssumption

(* What lies within a block's length behind its start is in it. *)
LEMMA SameBlk ==
  ASSUME NEW a \in Nat, NEW q \in Nat, q * BSIZE <= a, a < q * BSIZE + BSIZE
  PROVE  Blk(a) = q /\ Rem(a) = a - q * BSIZE
  <1>1. q * BSIZE \in Nat
    BY MulNat, BSizeAssumption
  <1>2. PICK i \in 0 .. BSIZE - 1 : a = q * BSIZE + i
    BY <1>1, BSizeAssumption
  <1> QED
    BY <1>1, <1>2, Placed

(* What the steps do to the bytes. *)
LEMMA DataSteps ==
  ASSUME Calm, TypeInv, Backed, [Next]_vars
  PROVE  \/ UNCHANGED <<disk, ff_buf>>
         \/ (disk' = disk /\ \E S : ff_buf' = Released(S) /\ \A b \in S \cap Buf : ~ NeedsWrite(b))
         \/ GrowReturn \/ (\E b \in Buf : WriteBack(b) \/ WriteBackFails(b)) \/ LoadNew \/ LoadBlk
         \/ (\E b \in Buf : WriteChunk(b)) \/ (\E s \in Stream, k \in WriteLens, v \in Byte : Filter(s, k, v))
  <1>1. ASSUME NEW b \in Buf, Alloc(b)
        PROVE  disk' = disk /\ \E S : ff_buf' = Released(S) /\ \A c \in S \cap Buf : ~ NeedsWrite(c)
    BY <1>1 DEF Alloc, Backed, NeedsWrite
  <1>2. ASSUME FreeBuf
        PROVE  disk' = disk /\ \E S : ff_buf' = Released(S) /\ \A c \in S \cap Buf : ~ NeedsWrite(c)
    BY <1>2 DEF FreeBuf, NeedsWrite
  <1>3. ASSUME NEW b \in Buf, CloseRelease(b)
        PROVE  disk' = disk /\ \E S : ff_buf' = Released(S) /\ \A c \in S \cap Buf : ~ NeedsWrite(c)
    BY <1>3 DEF CloseRelease
  <1>4. BeginFree \/ FlushStep \/ SyncStep \/ FilterAborted
        \/ (\E s \in Stream, at \in Places, n \in ReadLens : BeginRead(s, at, n))
        \/ (\E b \in Buf : ReadChunk(b) \/ ReadEOF(b)) \/ ReadReturn \/ CloseShared
        \/ (\E s \in Stream, at \in Places, n \in WriteLens, v \in Byte : BeginWrite(s, at, n, v))
        \/ (\E s \in Stream : BeginGrow(s)) \/ UNCHANGED vars
        => UNCHANGED <<disk, ff_buf>>
    BY DEF BeginFree, FlushStep, BeginFlush, FlushReturn, SyncStep, BeginSync, SyncBadStream, SyncNext,
       FilterAborted, BeginRead, ReadChunk, ReadEOF, ReadReturn, CloseShared, BeginWrite, BeginGrow, Quiet, vars
  <1>5. WriteReturn \/ (\E s \in Stream : BeginClose(s)) \/ CloseReturn
        \/ (\E p \in Path : \E w \in Modes[p] : OpenShared(p, w))
        \/ (\E p \in Path : \E w \in Modes[p] : OpenNew(p, w)) => UNCHANGED <<disk, ff_buf>>
    BY DEF WriteReturn, BeginClose, CloseReturn, OpenShared, OpenNew
  <1>6. ~ LoadFails
    BY DEF Calm, LoadFails
  <1> QED
    BY <1>1, <1>2, <1>3, <1>4, <1>5, <1>6, Steps DEF Unfiled, FilterStep

(* A step that keeps, of what is known of an address, what is on disk, and  *)
(* lets go only of buffers that had nothing to say of it.                  *)
Keeps(f, a) ==
  LET p == ff_files[f].path
  IN  /\ ff_files'[f].path = p
      /\ a < disk[p].len => a < disk'[p].len /\ disk'[p].at[a] = disk[p].at[a]
      /\ \A b \in Buf : Covers(b, f, a)' =>
           /\ Covers(b, f, a) /\ (Tells(b, a) => Tells(b, a)')
           /\ ff_buf'[b].fb_buf[Rem(a)] = ff_buf[b].fb_buf[Rem(a)]
      /\ \A b \in Buf : Covers(b, f, a) => Covers(b, f, a)' \/ ~ Tells(b, a)

(* Then the buffers that are left agree with the disk, *)
LEMMA KeepsBufs ==
  ASSUME NEW f \in File, NEW a \in Addr, BufsAgree(f, a), Keeps(f, a)
  PROVE  BufsAgree(f, a)'
  BY Zenon DEF BufsAgree, Keeps

(* what is no longer in the cache is on disk, *)
LEMMA KeepsCached ==
  ASSUME NEW f \in File, NEW a \in Addr, BufsAgree(f, a), Keeps(f, a),
         Cached(f, a) \/ a < disk[ff_files[f].path].len
  PROVE  Cached(f, a)' \/ a < disk'[ff_files'[f].path].len
  BY Zenon DEF BufsAgree, Keeps, Cached

(* and Agree holds where the file reaches as far as before. *)
LEMMA KeepsAgrees ==
  ASSUME NEW f \in File, NEW a \in Addr, AgreesAt(f, a), Keeps(f, a), Reach(f)' = Reach(f)
  PROVE  AgreesAt(f, a)'
  <1>1. a < Reach(f)' \/ Blk(a) * BSIZE > Reach(f)' => BufsAgree(f, a)'
    BY KeepsBufs DEF AgreesAt
  <1>2. a < Reach(f)' => Cached(f, a)' \/ a < disk'[ff_files'[f].path].len
    BY KeepsCached DEF AgreesAt
  <1> QED
    BY <1>1, <1>2 DEF AgreesAt

(* Nothing is lost with buffers that are not dirty. *)
LEMMA ReleasedKeeps ==
  ASSUME disk' = disk, NEW S, ff_buf' = Released(S), \A b \in S \cap Buf : ~ NeedsWrite(b),
         NEW f \in File, Same(f), NEW a \in Addr
  PROVE  Keeps(f, a)
  <1>1. ASSUME NEW b \in Buf, Covers(b, f, a)' PROVE ff_buf'[b] = ff_buf[b]
    BY <1>1, ReleasedBufs DEF Covers, File, NoFile
  <1>2. ASSUME NEW b \in Buf, Covers(b, f, a), ~ Covers(b, f, a)' PROVE ~ Tells(b, a)
    <2>1. b \in S
      BY <1>2, ReleasedBufs DEF Covers
    <2> QED
      BY <1>2, <2>1 DEF Covers, NeedsWrite, Tells, File, NoFile
  <1>3. \A b \in Buf : Covers(b, f, a)' =>
          /\ Covers(b, f, a) /\ (Tells(b, a) => Tells(b, a)')
          /\ ff_buf'[b].fb_buf[Rem(a)] = ff_buf[b].fb_buf[Rem(a)]
    BY <1>1 DEF Covers, Tells
  <1> QED
    BY <1>2, <1>3 DEF Keeps, Same

(* Nothing is lost when neither the disk nor a buffer changes. *)
LEMMA SameKeeps ==
  ASSUME disk' = disk, ff_buf' = ff_buf, NEW f \in File, Same(f), NEW a \in Addr
  PROVE  Keeps(f, a)
  BY DEF Keeps, Same, Covers, Tells

(* What ff_putblk hands to write(2), of which c bytes are taken. *)
Put(b, c) ==
  LET f == ff_buf[b].fb_file
  IN  disk' = [disk EXCEPT ![ff_files[f].path] =
                 SysWrite(@, SeekTo(f, ff_buf[b].fb_bnum), c, ff_buf[b].fb_buf)]

(* The bytes go where they belong, and no other byte of a file changes.    *)
LEMMA PutBytes ==
  ASSUME TypeInv, PosInv, OneSlot, Backed, NEW b \in Buf, NeedsWrite(b),
         NEW c \in Nat, c <= ff_buf[b].fb_count,
         Put(b, c),
         NEW f \in File, ff_files[f].path # NoPath, NEW a \in Addr
  PROVE  LET p == ff_files[f].path
         IN  /\ a < disk[p].len => a < disk'[p].len
             /\ ~ (Covers(b, f, a) /\ Tells(b, a)) => disk'[p].at[a] = disk[p].at[a]
             /\ Covers(b, f, a) /\ Rem(a) < c =>
                  a < disk'[p].len /\ disk'[p].at[a] = ff_buf[b].fb_buf[Rem(a)]
  <1> DEFINE p == ff_files[f].path
  <1>1. PICK g \in File, blk \in Nat, n \in 0 .. BSIZE :
          g = ff_buf[b].fb_file /\ blk = ff_buf[b].fb_bnum /\ n = ff_buf[b].fb_count
    BY BufFacts DEF NeedsWrite
  <1>2. ff_files[g].path # NoPath
    BY <1>1 DEF Backed, NeedsWrite
  <1>3. PICK pos \in Nat : pos = blk * BSIZE
    BY <1>1, MulNat, BSizeAssumption
  <1>4. SeekTo(g, blk) = pos
    BY <1>1, <1>3, SeekToBlock DEF PosInv
  <1>5. disk' = [disk EXCEPT ![ff_files[g].path] = SysWrite(@, pos, c, ff_buf[b].fb_buf)]
    BY <1>1, <1>4 DEF Put
  <1>6. disk \in [Path -> Disks] /\ p \in Path /\ ff_files[g].path \in Path /\ a \in Nat /\ c <= n
    BY <1>1, <1>2 DEF TypeInv, Types, TypeOK, Files, Addr
  <1>7. CASE f # g
    <2>1. disk'[p] = disk[p]
      BY <1>2, <1>5, <1>6, <1>7 DEF OneSlot
    <2> QED
      BY <1>1, <1>7, <2>1 DEF Covers
  <1>8. CASE f = g
    <2> DEFINE buf == ff_buf[b].fb_buf
    <2>1. disk'[p] = SysWrite(disk[p], pos, c, buf)
      BY <1>5, <1>6, <1>8
    <2>2. a = Blk(a) * BSIZE + Rem(a) /\ Rem(a) \in 0 .. BSIZE - 1
      BY <1>6, InBlock
    <2>3. disk[p].len \in Nat
      BY <1>6 DEF Disks
    <2>4. a < disk[p].len => a < disk'[p].len
      BY <1>3, <1>6, <2>1, <2>3 DEF SysWrite, Greater
    <2>5. ASSUME Covers(b, f, a), Rem(a) < c PROVE a < disk'[p].len /\ disk'[p].at[a] = buf[Rem(a)]
      <3>1. a = pos + Rem(a)
        BY <1>1, <1>3, <2>2, <2>5 DEF Covers
      <3>2. a \in pos .. pos + c - 1 /\ c # 0 /\ a - pos = Rem(a)
        BY <1>3, <1>6, <2>2, <2>5, <3>1
      <3> QED
        BY <1>3, <1>6, <2>1, <2>3, <3>2 DEF SysWrite, Greater
    <2>6. ASSUME ~ (Covers(b, f, a) /\ Tells(b, a)) PROVE disk'[p].at[a] = disk[p].at[a]
      <3>1. a \notin pos .. pos + c - 1
        <4> SUFFICES ASSUME a \in pos .. pos + c - 1 PROVE FALSE
          OBVIOUS
        <4>1. blk * BSIZE <= a /\ a < blk * BSIZE + BSIZE
          BY <1>1, <1>3, <1>6, BSizeAssumption
        <4>2. Blk(a) = blk /\ Rem(a) = a - blk * BSIZE
          BY <1>1, <1>6, <4>1, SameBlk
        <4>3. Rem(a) < n
          BY <1>1, <1>3, <1>6, <4>2
        <4> QED
          BY <1>1, <1>8, <2>6, <4>2, <4>3 DEF Covers, Tells, NeedsWrite
      <3> QED
        BY <2>1, <3>1 DEF SysWrite
    <2> QED
      BY <2>4, <2>5, <2>6
  <1> QED
    BY <1>7, <1>8

(* A buffer that is written out agrees with the disk up to fb_count. *)
LEMMA WriteBackAgrees ==
  ASSUME TypeInv, PosInv, OneCopy, OneSlot, Backed, NEW b \in Buf, WriteBack(b),
         NEW f \in File, ff_files[f].path # NoPath, Same(f), Reach(f)' = Reach(f),
         NEW a \in Addr, AgreesAt(f, a)
  PROVE  AgreesAt(f, a)'
  <1> DEFINE p == ff_files[f].path
  <1>1. PICK c \in Nat : c = ff_buf[b].fb_count
    BY BufFacts DEF WriteBack, NeedsWrite
  <1>2. NeedsWrite(b) /\ c <= ff_buf[b].fb_count /\ Put(b, c)
    BY <1>1 DEF WriteBack, Put
  <1>3. /\ a < disk[p].len => a < disk'[p].len
        /\ ~ (Covers(b, f, a) /\ Tells(b, a)) => disk'[p].at[a] = disk[p].at[a]
        /\ Covers(b, f, a) /\ Rem(a) < c =>
             a < disk'[p].len /\ disk'[p].at[a] = ff_buf[b].fb_buf[Rem(a)]
    BY <1>2, PutBytes
  <1>4. \A d \in Buf : (Covers(d, f, a)' <=> Covers(d, f, a)) /\ ff_buf'[d].fb_buf = ff_buf[d].fb_buf
    BY WrittenBack DEF Covers
  <1>5. CASE Covers(b, f, a) /\ Tells(b, a)
    <2>1. \A d \in Buf : Covers(d, f, a) => d = b
      BY <1>5 DEF OneCopy, Covers, File, NoFile
    <2>2. a < disk'[p].len /\ disk'[p].at[a] = ff_buf[b].fb_buf[Rem(a)]
      BY <1>1, <1>3, <1>5 DEF Tells
    <2>3. BufsAgree(f, a)'
      BY <1>4, <2>1, <2>2 DEF BufsAgree, Same
    <2> QED
      BY <2>2, <2>3 DEF AgreesAt, Same
  <1>6. CASE ~ (Covers(b, f, a) /\ Tells(b, a))
    <2>1. \A d \in Buf : Covers(d, f, a) => (Tells(d, a) => Tells(d, a)')
      BY <1>6, WrittenBack DEF Tells
    <2>2. Keeps(f, a)
      BY <1>3, <1>4, <1>6, <2>1 DEF Keeps, Same
    <2> QED
      BY <2>2, KeepsAgrees
  <1> QED
    BY <1>5, <1>6

(* What a write that fails leaves behind the end of the file are whole      *)
(* blocks, which it had done with.                                         *)
LEMMA ReachFalls ==
  ASSUME TypeInv, CallInFile, [Next]_vars, NEW b \in Buf, WriteBackFails(b),
         NEW f \in File, ff_files[f].path # NoPath, NEW a \in Addr, AgreesAt(f, a)
  PROVE  /\ a < Reach(f)' => a < Reach(f)
         /\ a < Reach(f)' \/ Blk(a) * BSIZE > Reach(f)' => BufsAgree(f, a)
  <1>1. /\ call'.op = "none" /\ b \in PutNext
    BY DEF WriteBackFails, Return, Ended
  <1>2. SameSize(f)
    <2>1. ~ WriteReturn /\ ~ GrowReturn /\ ~ CloseReturn
      <3>1. b \in PutNext /\ NeedsWrite(b)
        BY DEF WriteBackFails
      <3>2. ~ GrowReturn
        BY <3>1 DEF GrowReturn
      <3>3. ~ WriteReturn
        BY <3>1 DEF WriteReturn, PutNext, Misses, Closing
      <3>4. ~ CloseReturn
        BY <3>1 DEF CloseReturn, PutNext, Closing, First, Misses, Fetching
      <3> QED
        BY <3>2, <3>3, <3>4
    <2> QED
      BY <2>1, Sizes
  <1>3. PICK size \in Nat : size = ff_files[f].fn_size
    BY DEF TypeInv, Types, TypeOK, Files
  <1>4. Reach(f)' = size
    BY <1>1, <1>2, <1>3 DEF Reach, SameSize
  <1>5. a \in Nat /\ CurOff \in Nat /\ call.at \in Nat /\ call.done \in Nat
    BY Cursor DEF Addr, TypeInv, Types, TypeOK, Calls
  <1>6. CASE Reach(f) = size
    BY <1>4, <1>6 DEF AgreesAt
  <1>7. CASE Reach(f) # size
    <2>1. call.op = "write" /\ call.f = f /\ Reach(f) = CurOff /\ CurOff > size
      BY <1>3, <1>5, <1>7 DEF Reach, Greater
    <2>2. Misses /\ Fetching
      BY <1>1, <2>1 DEF PutNext, Closing, Misses
    <2>3. call.at <= size /\ call.done > 0
      BY <1>3, <1>5, <2>1 DEF CallInFile, CurOff
    <2>4. Rem(CurOff) = 0
      BY <2>1, <2>2, <2>3 DEF CallInFile
    <2>5. CASE Blk(a) = CurBlk
      <3>1. BufsAgree(f, a)
        BY <2>1, <2>2, <2>5 DEF BufsAgree, Covers, Misses, Have
      <3> QED
        BY <1>3, <1>4, <1>5, <2>1, <3>1
    <2>6. CASE Blk(a) # CurBlk
      <3>1. CurOff = CurBlk * BSIZE /\ CurBlk \in Nat
        BY <1>5, <2>4, InBlock DEF CurBlk
      <3>2. a = Blk(a) * BSIZE + Rem(a) /\ Rem(a) \in 0 .. BSIZE - 1 /\ Blk(a) * BSIZE \in Nat
        BY <1>5, InBlock
      <3>3. ~ (CurOff <= a /\ a < CurOff + BSIZE)
        BY <1>5, <2>6, <3>1, SameBlk
      <3>4. a < CurOff \/ Blk(a) * BSIZE > CurOff
        BY <1>5, <3>2, <3>3, BSizeAssumption
      <3> QED
        BY <1>3, <1>4, <1>5, <2>1, <3>4 DEF AgreesAt
    <2> QED
      BY <2>5, <2>6
  <1> QED
    BY <1>6, <1>7

(* A buffer that could not be written out, or not all of it, stays dirty. *)
LEMMA WriteBackFailsAgrees ==
  ASSUME TypeInv, PosInv, OneCopy, OneSlot, Backed, CallInFile, [Next]_vars, NEW b \in Buf, WriteBackFails(b),
         NEW f \in File, ff_files[f].path # NoPath, Same(f), NEW a \in Addr, AgreesAt(f, a)
  PROVE  AgreesAt(f, a)'
  <1> DEFINE p == ff_files[f].path
  <1>1. PICK n \in 0 .. BSIZE : n = ff_buf[b].fb_count
    BY BufFacts DEF WriteBackFails, NeedsWrite
  <1>2. NeedsWrite(b) /\ ff_buf' = ff_buf
    BY DEF WriteBackFails
  <1>3. PICK c \in 0 .. n : Put(b, c)
    <2>1. PICK c \in IF ff_files[ff_buf[b].fb_file].fdw THEN 0 .. n - 1 ELSE {0} : Put(b, c)
      BY <1>1 DEF WriteBackFails, Put
    <2> QED
      BY <1>1, <2>1
  <1>4. /\ a < disk[p].len => a < disk'[p].len
        /\ ~ (Covers(b, f, a) /\ Tells(b, a)) => disk'[p].at[a] = disk[p].at[a]
    BY <1>1, <1>2, <1>3, PutBytes
  <1>5. CASE Covers(b, f, a) /\ Tells(b, a)
    <2>1. \A d \in Buf : Covers(d, f, a) => d = b
      BY <1>5 DEF OneCopy, Covers, File, NoFile
    <2>2. BufsAgree(f, a)' /\ Cached(f, a)'
      BY <1>2, <1>5, <2>1 DEF BufsAgree, Cached, Covers, Tells
    <2> QED
      BY <2>2 DEF AgreesAt
  <1>6. CASE ~ (Covers(b, f, a) /\ Tells(b, a))
    <2>1. Keeps(f, a)
      BY <1>2, <1>4, <1>6 DEF Keeps, Same, Covers, Tells
    <2>2. a < Reach(f)' \/ Blk(a) * BSIZE > Reach(f)' => BufsAgree(f, a)'
      BY <2>1, ReachFalls, KeepsBufs
    <2>3. a < Reach(f)' => Cached(f, a)' \/ a < disk'[ff_files'[f].path].len
      BY <2>1, ReachFalls, KeepsCached DEF AgreesAt
    <2> QED
      BY <2>2, <2>3 DEF AgreesAt
  <1> QED
    BY <1>5, <1>6

(* A block is loaded over a buffer that is not dirty: of the other blocks   *)
(* nothing is lost.                                                        *)
LEMMA LoadKeeps ==
  ASSUME TypeInv, [Next]_vars, LoadNew \/ LoadBlk,
         NEW f \in File, NEW a \in Addr, f # call.f \/ Blk(a) # CurBlk
  PROVE  Keeps(f, a)
  <1>1. /\ Victim \in Buf /\ ~ NeedsWrite(Victim) /\ Misses /\ call' = call
        /\ disk' = disk /\ \E c, buf : Fill(Victim, c, FALSE, buf)
    BY Loads DEF LoadNew, LoadBlk
  <1>2. PICK v \in Buf : v = Victim
    BY <1>1
  <1>3. /\ ff_buf'[v].fb_file = call.f /\ ff_buf'[v].fb_bnum = CurBlk
        /\ \A b \in Buf : b # v => ff_buf'[b] = ff_buf[b]
    BY <1>1, <1>2, Filled
  <1>4. Same(f)
    BY <1>1, CallSizes DEF Misses, Fetching
  <1>5. \A b \in Buf : Covers(b, f, a)' => b # v /\ ff_buf'[b] = ff_buf[b]
    BY <1>3 DEF Covers
  <1>6. \A b \in Buf : Covers(b, f, a)' =>
          /\ Covers(b, f, a) /\ (Tells(b, a) => Tells(b, a)')
          /\ ff_buf'[b].fb_buf[Rem(a)] = ff_buf[b].fb_buf[Rem(a)]
    BY <1>5 DEF Covers, Tells
  <1>7. \A b \in Buf : Covers(b, f, a) => Covers(b, f, a)' \/ ~ Tells(b, a)
    <2>1. Covers(v, f, a) => ~ Tells(v, a)
      BY <1>1, <1>2 DEF Covers, Tells, NeedsWrite, File, NoFile
    <2>2. \A b \in Buf : Covers(b, f, a) /\ b # v => Covers(b, f, a)'
      BY <1>3 DEF Covers
    <2> QED
      BY <2>1, <2>2
  <1> QED
    BY <1>1, <1>4, <1>6, <1>7, SMTT(45) DEF Keeps, Same

(* The block holds what is on disk, of all that the file has of it.        *)
LEMMA LoadAgrees ==
  ASSUME TypeInv, PosInv, CallInFile, [Next]_vars, LoadNew \/ LoadBlk,
         NEW f \in File, ff_files[f].path # NoPath, Reach(f)' = Reach(f), NEW a \in Addr, AgreesAt(f, a)
  PROVE  AgreesAt(f, a)'
  <1> DEFINE p == ff_files[f].path
             d == disk[p]
  <1>1. /\ Victim \in Buf /\ call.f \in File /\ ~ NeedsWrite(Victim) /\ Misses /\ call' = call
        /\ disk' = disk /\ \E c, buf : Fill(Victim, c, FALSE, buf)
    BY Loads DEF LoadNew, LoadBlk
  <1>2. PICK v \in Buf : v = Victim
    BY <1>1
  <1>3. /\ ff_buf'[v].fb_file = call.f /\ ff_buf'[v].fb_bnum = CurBlk /\ ~ ff_buf'[v].fb_wflg
        /\ \A b \in Buf : b # v => ff_buf'[b] = ff_buf[b]
    BY <1>1, <1>2, Filled
  <1>4. Same(f)
    BY <1>1, CallSizes DEF Misses, Fetching
  <1>5. a \in Nat /\ f # NoFile /\ p \in Path
    BY DEF Addr, File, NoFile, TypeInv, Types, TypeOK, Files
  <1>6. CASE f # call.f \/ Blk(a) # CurBlk
    BY <1>6, LoadKeeps, KeepsAgrees
  <1>7. CASE f = call.f /\ Blk(a) = CurBlk
    <2>2. CurOff \in Nat /\ CurBlk \in Nat /\ call.at \in Nat /\ call.done \in Nat
          /\ ff_files[f].fn_size \in Nat /\ call.op \in {"read", "write"} /\ Fetching
      BY <1>1, Cursor DEF TypeInv, Types, TypeOK, Calls, Files, Misses, Fetching
    <2>3. PICK pos \in Nat : pos = CurBlk * BSIZE
      BY <2>2, MulNat, BSizeAssumption
    <2>4. a = pos + Rem(a) /\ Rem(a) \in 0 .. BSIZE - 1 /\ pos <= a
      BY <1>5, <1>7, <2>3, InBlock
    <2> SUFFICES ASSUME a < Reach(f)
                 PROVE  BufsAgree(f, a)' /\ (Cached(f, a)' \/ a < disk'[ff_files'[f].path].len)
      <3>1. Reach(f) = ff_files[f].fn_size \/ Reach(f) = Greater(ff_files[f].fn_size, CurOff)
        BY DEF Reach
      <3>2. Blk(a) * BSIZE <= CurOff
        BY <1>7, <2>2, <2>3, InBlock DEF CurBlk
      <3>3. call.op = "read" => CurOff <= ff_files[f].fn_size
        BY <1>7 DEF CallInFile
      <3>4. CurOff <= Reach(f) /\ Reach(f) \in Nat
        BY <1>7, <2>2, <3>1, <3>3 DEF Reach, Greater
      <3>5. ~ (Blk(a) * BSIZE > Reach(f))
        BY <1>7, <2>2, <2>3, <3>2, <3>4
      <3> QED
        BY <3>5 DEF AgreesAt
    <2>1. a < d.len
      <3>1. ~ Cached(f, a)
        BY <1>1, <1>7 DEF Misses, Have, Covers, Cached
      <3> QED
        BY <3>1 DEF AgreesAt
    <2>5. ~ LoadNew
      <3> SUFFICES ASSUME ~ InFile PROVE FALSE
        BY DEF LoadNew
      <3>1. ff_files[f].fn_size <= pos
        BY <1>7, <2>2, <2>3 DEF InFile
      <3>2. call.op = "write" /\ a < CurOff
        BY <1>5, <1>7, <2>2, <2>4, <3>1 DEF Reach, Greater
      <3>3. call.at <= ff_files[f].fn_size
        BY <1>7, <2>2 DEF CallInFile
      <3>4. call.done > 0
        BY <1>5, <2>2, <2>4, <3>1, <3>2, <3>3 DEF CurOff
      <3>5. Rem(CurOff) = 0
        BY <2>2, <3>2, <3>4 DEF CallInFile
      <3>6. CurOff = pos + Rem(CurOff)
        BY <2>2, <2>3, InBlock DEF CurBlk
      <3> QED
        BY <1>5, <2>2, <2>4, <3>2, <3>5, <3>6
    <2>6. ReadFlag /\ LoadBlk
      BY <2>5, AlwaysRead
    <2>7. SeekTo(f, CurBlk) = pos
      BY <2>2, <2>3, SeekToBlock DEF PosInv
    <2>8. PICK got : got = ReadLen(d, pos)
      OBVIOUS
    <2>9. Rem(a) < got
      <3>1. d.len \in Nat
        BY <1>5 DEF TypeInv, Types, TypeOK, Disks
      <3> QED
        BY <1>5, <2>1, <2>4, <2>8, <3>1, BSizeAssumption DEF ReadLen, Lesser
    <2>10. ff_buf'[v].fb_buf = [i \in Off |-> IF i < got /\ pos + i \in Addr THEN d.at[pos + i] ELSE Hole]
      <3>1. PICK buf : buf = [i \in Off |-> IF i < got /\ pos + i \in Addr THEN d.at[pos + i] ELSE Hole]
        OBVIOUS
      <3>2. Fill(v, got, FALSE, buf)
        BY <1>2, <1>7, <2>6, <2>7, <2>8, <3>1 DEF LoadBlk
      <3>3. ff_buf'[v].fb_buf = buf
        BY <3>2, Filled, ZenonT(45)
      <3> QED
        BY <3>1, <3>3
    <2>11. ff_buf'[v].fb_buf[Rem(a)] = d.at[a]
      BY <2>4, <2>9, <2>10 DEF Off
    <2>12. \A b \in Buf : Covers(b, f, a)' => b = v
      BY <1>1, <1>3, <1>7 DEF Covers, Misses, Have
    <2>13. Covers(v, f, a)'
      BY <1>3, <1>7 DEF Covers
    <2> QED
      BY <1>1, <1>4, <2>1, <2>11, <2>12, <2>13 DEF BufsAgree, Cached, Same
  <1> QED
    BY <1>6, <1>7, SMTT(45)

(* A pass of ff_write: what it adds to the file is in the buffer, dirty. *)
LEMMA WriteChunkAgrees ==
  ASSUME TypeInv, OneCopy, Agree, [Next]_vars, NEW b \in Buf, WriteChunk(b),
         NEW f \in File, ff_files[f].path # NoPath, NEW a \in Addr
  PROVE  AgreesAt(f, a)'
  <1> DEFINE off == Rem(CurOff)
             to == off + ChunkLen
             count == Greater(to, ff_buf[b].fb_count)
             buf == [i \in Off |-> IF i \in off .. to - 1 THEN call.v ELSE ff_buf[b].fb_buf[i]]
  <1>1. /\ call.op = "write" /\ Fetching /\ b \in Have(call.f, CurBlk) /\ call.f \in File
        /\ ff_buf'[b].fb_file = call.f /\ ff_buf'[b].fb_bnum = CurBlk /\ ff_buf'[b].fb_wflg
        /\ \A c \in Buf : c # b => ff_buf'[c] = ff_buf[c]
    BY Writes
  <1>2. disk' = disk
    BY DEF WriteChunk, WriteChunkAs
  <1>3. ff_buf'[b].fb_count = count /\ ff_buf'[b].fb_buf = buf
    <2>1. Fill(b, count, TRUE, buf)
      BY DEF WriteChunk, WriteChunkAs
    <2> HIDE DEF count, buf
    <2> QED
      BY <2>1 DEF Fill, TypeInv, Types, TypeOK
  <1> HIDE DEF count, buf
  <1>4. Same(f)
    <2>1. call'.op = "write"
      BY <1>1 DEF WriteChunk, WriteChunkAs, TypeInv, Types, TypeOK, Calls
    <2> QED
      BY <2>1, CallSizes
  <1>5. /\ CurOff \in Nat /\ CurBlk \in Nat /\ off \in 0 .. BSIZE - 1
        /\ ChunkLen \in 1 .. BSIZE - off /\ a \in Nat /\ ff_files[f].fn_size \in Nat
    BY <1>1, Cursor DEF TypeInv, Types, TypeOK, Files, Off, Addr
  <1>6. \A c \in Buf : Covers(c, f, a)' <=> Covers(c, f, a)
    BY <1>1 DEF Covers, Have
  <1>7. PICK pos \in Nat : pos = CurBlk * BSIZE
    BY <1>5, MulNat, BSizeAssumption
  <1>8. CurOff = pos + off /\ ChunkLen \in Nat
    BY <1>5, <1>7, InBlock, BSizeAssumption DEF CurBlk
  <1>9. /\ f # call.f => Reach(f)' = Reach(f)
        /\ f = call.f => /\ Reach(f) = Greater(ff_files[f].fn_size, CurOff)
                         /\ Reach(f)' = Greater(ff_files[f].fn_size, CurOff + ChunkLen)
    BY WriteReach
  <1>10. CASE ~ Covers(b, f, a)
    <2>1. \A c \in Buf : Covers(c, f, a) => ff_buf'[c] = ff_buf[c]
      BY <1>1, <1>10
    <2>2. Keeps(f, a)
      BY <1>2, <1>4, <1>6, <2>1 DEF Keeps, Same, Tells
    <2>3. CASE f # call.f
      BY <1>9, <2>2, <2>3, KeepsAgrees DEF Agree
    <2>4. CASE f = call.f
      <3>1. Blk(a) # CurBlk
        BY <1>1, <1>10, <2>4 DEF Covers, Have
      <3>2. ~ (pos <= a /\ a < pos + BSIZE)
        BY <1>5, <1>7, <3>1, SameBlk
      <3>3. ~ (CurOff <= a /\ a < CurOff + ChunkLen)
        BY <1>5, <1>7, <1>8, <3>2, BSizeAssumption
      <3>4. Blk(a) * BSIZE \in Nat
        BY <1>5, InBlock
      <3>5. /\ a < Reach(f)' => a < Reach(f)
            /\ Blk(a) * BSIZE > Reach(f)' => Blk(a) * BSIZE > Reach(f)
        BY <1>5, <1>8, <1>9, <2>4, <3>3, <3>4 DEF Greater
      <3>6. AgreesAt(f, a)
        BY DEF Agree
      <3>7. a < Reach(f)' \/ Blk(a) * BSIZE > Reach(f)' => BufsAgree(f, a)'
        BY <2>2, <3>5, <3>6, KeepsBufs DEF AgreesAt
      <3>8. a < Reach(f)' => Cached(f, a)' \/ a < disk'[ff_files'[f].path].len
        BY <2>2, <3>5, <3>6, KeepsCached DEF AgreesAt
      <3> QED
        BY <3>7, <3>8 DEF AgreesAt
    <2> QED
      BY <2>3, <2>4
  <1>11. CASE Covers(b, f, a)
    <2>1. f = call.f /\ Blk(a) = CurBlk
      BY <1>1, <1>11 DEF Covers, Have
    <2>2. a = pos + Rem(a) /\ Rem(a) \in 0 .. BSIZE - 1 /\ Rem(a) \in Off
      BY <1>5, <1>7, <2>1, InBlock DEF Off
    <2>3. \A c \in Buf : Covers(c, f, a) => c = b
      BY <1>11 DEF OneCopy, Covers, File, NoFile
    <2>4. ff_buf[b].fb_count \in 0 .. BSIZE
      BY <1>11, BufFacts DEF Covers, File, NoFile
    <2> SUFFICES ASSUME a < Reach(f)' PROVE BufsAgree(f, a)' /\ Cached(f, a)'
      <3>1. pos <= CurOff /\ CurOff <= Reach(f)' /\ Reach(f)' \in Nat
        BY <1>5, <1>7, <1>8, <1>9, <2>1 DEF Greater
      <3>2. ~ (Blk(a) * BSIZE > Reach(f)')
        BY <1>5, <1>7, <1>8, <2>1, <3>1
      <3> QED
        BY <3>2 DEF AgreesAt
    <2>5. ASSUME ~ Tells(b, a)'
          PROVE  a < disk'[ff_files[f].path].len
                 /\ ff_buf'[b].fb_buf[Rem(a)] = disk'[ff_files[f].path].at[a]
      <3>1. Rem(a) >= count
        <4>1. ~ (Rem(a) < ff_buf'[b].fb_count)
          BY <1>1, <2>5 DEF Tells
        <4>2. count \in Int
          BY <1>5, <1>8, <2>4 DEF count, Greater
        <4> QED
          BY <1>3, <2>2, <4>1, <4>2
      <3>2. Rem(a) >= off + ChunkLen /\ Rem(a) >= ff_buf[b].fb_count
        BY <1>5, <1>8, <2>2, <2>4, <3>1 DEF count, Greater
      <3>3. a >= CurOff + ChunkLen /\ a < Reach(f)
        BY <1>5, <1>8, <1>9, <2>1, <2>2, <3>2 DEF Greater
      <3>4. ~ Tells(b, a)
        BY <2>2, <2>4, <3>2 DEF Tells
      <3>5. /\ a < disk[ff_files[f].path].len
            /\ ff_buf[b].fb_buf[Rem(a)] = disk[ff_files[f].path].at[a]
        BY <1>11, <3>3, <3>4 DEF Agree, AgreesAt, BufsAgree
      <3>6. ff_buf'[b].fb_buf[Rem(a)] = ff_buf[b].fb_buf[Rem(a)]
        <4>1. Rem(a) \notin off .. to - 1
          BY <1>5, <1>8, <2>2, <3>2
        <4> HIDE DEF off, to
        <4>2. buf[Rem(a)] = ff_buf[b].fb_buf[Rem(a)]
          BY <2>2, <4>1 DEF buf
        <4> QED
          BY <1>3, <4>2
      <3> QED
        BY <1>2, <3>5, <3>6
    <2> QED
      BY <1>4, <1>6, <1>11, <2>3, <2>5 DEF BufsAgree, Cached, Same
  <1> QED
    BY <1>10, <1>11

(* ff_grow: the one block that the new bytes are in and of which the file   *)
(* had only a part, is let go.                                             *)
LEMMA GrowAgrees ==
  ASSUME TypeInv, Agree, [Next]_vars, GrowReturn,
         NEW f \in File, ff_files[f].path # NoPath, NEW a \in Addr
  PROVE  AgreesAt(f, a)'
  <1>1. /\ disk' = disk /\ \A b \in PutNext : ~ NeedsWrite(b)
        /\ \E S : S = PutNext /\ ff_buf' = Released(S)
    BY DEF GrowReturn
  <1>2. Same(f) /\ AgreesAt(f, a)
    BY PlainSame DEF Agree
  <1>3. Keeps(f, a)
    BY <1>1, <1>2, ReleasedKeeps
  <1>4. CASE f # call.f
    BY <1>2, <1>3, <1>4, GrowReach, KeepsAgrees
  <1>5. CASE f = call.f
    <2> DEFINE d == disk[ff_files[f].path]
    <2>1. /\ call.op = "grow" /\ Reach(f) = ff_files[f].fn_size
          /\ Reach(f)' = Greater(ff_files[f].fn_size, d.len)
      BY <1>5, GrowReach
    <2>2. a \in Nat /\ ff_files[f].fn_size \in Nat /\ d.len \in Nat
      <3>1. ff_files[f].path \in Path
        BY DEF TypeInv, Types, TypeOK, Files
      <3> QED
        BY <3>1 DEF TypeInv, Types, TypeOK, Files, Disks, Addr
    <2>3. PutNext = Have(f, LastBlk(f))
      BY <1>5, <2>1 DEF PutNext, Misses, Fetching, Closing
    <2>4. PICK blk \in Nat : blk = Blk(a) /\ blk * BSIZE \in Nat
      BY <2>2, InBlock
    <2>5. CASE a < Reach(f) \/ blk * BSIZE > Reach(f)
      <3>1. BufsAgree(f, a)
        BY <1>2, <2>4, <2>5 DEF AgreesAt
      <3>2. a < Reach(f)' => Cached(f, a) \/ a < d.len
        BY <1>2, <2>1, <2>2 DEF Greater, AgreesAt
      <3>3. BufsAgree(f, a)' /\ (a < Reach(f)' => Cached(f, a)' \/ a < disk'[ff_files'[f].path].len)
        BY <1>3, <3>1, <3>2, KeepsBufs, KeepsCached
      <3> QED
        BY <3>3 DEF AgreesAt
    <2>6. CASE ff_files[f].fn_size <= a /\ blk * BSIZE <= ff_files[f].fn_size
      <3>1. ff_files[f].fn_size < blk * BSIZE + BSIZE
        <4>1. a = blk * BSIZE + Rem(a) /\ Rem(a) \in 0 .. BSIZE - 1
          BY <2>2, <2>4, InBlock
        <4> QED
          BY <2>2, <2>4, <2>6, <4>1, BSizeAssumption
      <3>2. LastBlk(f) = blk
        BY <2>2, <2>4, <2>6, <3>1, SameBlk DEF LastBlk
      <3>3. \A b \in Buf : ~ Covers(b, f, a)'
        <4> SUFFICES ASSUME NEW b \in Buf, Covers(b, f, a)' PROVE FALSE
          OBVIOUS
        <4>1. b \notin PutNext /\ ff_buf'[b] = ff_buf[b]
          BY <1>1, ReleasedBufs DEF Covers, File, NoFile
        <4> QED
          BY <2>3, <2>4, <3>2, <4>1 DEF Covers, Have
      <3>4. a < Reach(f)' => a < d.len
        BY <2>1, <2>2, <2>6 DEF Greater
      <3> QED
        BY <1>1, <1>2, <3>3, <3>4 DEF AgreesAt, BufsAgree, Same
    <2> QED
      BY <2>1, <2>2, <2>4, <2>5, <2>6
  <1> QED
    BY <1>4, <1>5

(* A filter writes behind the end of its file, and on no other. *)
LEMMA FilterKeeps ==
  ASSUME Calm, TypeInv, OneSlot, NEW s \in Stream, NEW k \in WriteLens, NEW v \in Byte, Filter(s, k, v),
         NEW f \in File, ff_files[f].path # NoPath, NEW a \in Addr,
         f = ff_streams[s].f_file => a < ff_files[f].fn_size
  PROVE  Keeps(f, a)
  <1> DEFINE p == ff_files[f].path
  <1>1. Open(s) /\ UNCHANGED <<ff_files, ff_buf>>
    BY DEF Filter
  <1>2. PICK g \in File : g = ff_streams[s].f_file /\ ff_files[g].path # NoPath
    BY <1>1, OpenRefs
  <1>3. PICK end \in Nat : end = ff_files[g].fn_size
    BY SMTT(45) DEF TypeInv, Types, TypeOK, Files
  <1>4. \E buf : disk' = [disk EXCEPT ![ff_files[g].path] = SysWrite(@, end, k, buf)]
    BY <1>2, <1>3 DEF Filter, Calm
  <1>5. disk \in [Path -> Disks] /\ p \in Path /\ ff_files[g].path \in Path /\ a \in Nat /\ k \in Nat
    BY <1>2, LenAssumption DEF TypeInv, Types, TypeOK, Files, Addr
  <1>6. CASE f # g
    <2>1. disk'[p] = disk[p]
      BY <1>2, <1>4, <1>5, <1>6 DEF OneSlot
    <2> QED
      BY <1>1, <2>1 DEF Keeps, Covers, Tells
  <1>7. CASE f = g
    <2>1. PICK buf : disk'[p] = SysWrite(disk[p], end, k, buf)
      BY <1>4, <1>5, <1>7
    <2>2. a \notin end .. end + k - 1
      BY <1>2, <1>3, <1>5, <1>7
    <2>3. disk'[p].at[a] = disk[p].at[a]
      BY <2>1, <2>2 DEF SysWrite
    <2>4. disk[p].len \in Nat
      BY <1>5 DEF Disks
    <2>5. a < disk[p].len => a < disk'[p].len
      BY <1>3, <1>5, <2>1, <2>4 DEF SysWrite, Greater
    <2> QED
      BY <1>1, <2>3, <2>5 DEF Keeps, Covers, Tells
  <1> QED
    BY <1>6, <1>7

(* So it leaves buffers and disk in agreement. *)
LEMMA FilterAgrees ==
  ASSUME Calm, TypeInv, OneSlot, NEW s \in Stream, NEW k \in WriteLens, NEW v \in Byte, Filter(s, k, v),
         NEW f \in File, ff_files[f].path # NoPath, NEW a \in Addr, AgreesAt(f, a)
  PROVE  AgreesAt(f, a)'
  <1>1. Open(s) /\ call.op = "none" /\ UNCHANGED <<ff_files, ff_buf, call>>
    BY DEF Filter, Ready, Idle
  <1>2. PICK g \in File : g = ff_streams[s].f_file
    BY <1>1, OpenRefs
  <1>3. PICK end \in Nat : end = ff_files[g].fn_size
    BY DEF TypeInv, Types, TypeOK, Files
  <1>5. a \in Nat
    BY DEF Addr
  <1>6. ff_files[f].fn_size \in Nat /\ Reach(f) = ff_files[f].fn_size /\ Reach(f)' = Reach(f)
    BY <1>1 DEF Reach, TypeInv, Types, TypeOK, Files
  <1>7. CASE f = g => a < end
    <2>1. Keeps(f, a)
      BY <1>2, <1>3, <1>7, FilterKeeps
    <2> QED
      BY <1>6, <2>1, KeepsAgrees
  <1>9. CASE f = g /\ end <= a
    <2>1. PICK blk \in Nat : blk = Blk(a) /\ blk * BSIZE \in Nat
      BY <1>5, InBlock
    <2> SUFFICES ASSUME blk * BSIZE > end PROVE BufsAgree(f, a)'
      BY <1>3, <1>5, <1>6, <1>9, <2>1 DEF AgreesAt
    <2>2. ~ Cached(f, a)
      <3> SUFFICES ASSUME NEW b \in Buf, Covers(b, f, a) PROVE FALSE
        BY DEF Cached
      <3>1. b \in Queue(f) /\ ff_buf[b].fb_bnum = blk /\ ff_buf[b].fb_count \in 0 .. BSIZE
        BY <2>1, BufFacts DEF Queue, Covers, File, NoFile
      <3>2. Tidy(f)
        BY <1>2, <1>9 DEF Filter, Calm
      <3>3. blk * BSIZE + ff_buf[b].fb_count <= end
        BY <1>3, <1>9, <3>1, <3>2 DEF Tidy
      <3> QED
        BY <1>3, <2>1, <3>1, <3>3
    <2> QED
      BY <1>1, <2>2 DEF BufsAgree, Cached, Covers
  <1> QED
    BY <1>3, <1>5, <1>7, <1>9

(* ff_open of a file nobody has open: none of it is in the cache. *)
LEMMA OpenAgrees ==
  ASSUME TypeInv, Agree, Backed, NEW p \in Path, NEW w \in Modes[p], OpenNew(p, w),
         NEW f \in File, ff_files'[f].path # NoPath, NEW a \in Addr
  PROVE  AgreesAt(f, a)'
  <1>1. w \in BOOLEAN
    BY PathAssumption
  <1>2. PICK g \in File, s \in Stream : NewSlot(p, w, g, s)
    BY <1>1, OpenNewFacts
  <1>3. disk' = disk /\ ff_buf' = ff_buf /\ call' = call /\ call.op = "none"
    BY <1>2 DEF NewSlot
  <1>4. CASE f # g
    <2>1. ff_files'[f] = ff_files[f]
      BY <1>2, <1>4 DEF NewSlot
    <2>2. Reach(f)' = Reach(f) /\ Same(f) /\ ff_files[f].path # NoPath
      BY <1>3, <2>1 DEF Reach, Same
    <2>3. Keeps(f, a)
      BY <1>3, <2>2, SameKeeps
    <2> QED
      BY <2>2, <2>3, KeepsAgrees DEF Agree
  <1>5. CASE f = g
    <2>1. a < Reach(f)' => a < disk[p].len
      BY <1>2, <1>3, <1>5 DEF NewSlot, Reach
    <2>2. \A b \in Buf : ~ Covers(b, f, a)
      BY <1>2, <1>5 DEF NewSlot, Backed, Covers, File, NoFile
    <2>3. ff_files'[f].path = p
      BY <1>2, <1>5 DEF NewSlot
    <2>4. \A b \in Buf : ~ Covers(b, f, a)'
      BY <1>3, <2>2 DEF Covers
    <2> QED
      BY <1>3, <2>1, <2>3, <2>4 DEF AgreesAt, BufsAgree
  <1> QED
    BY <1>4, <1>5

(* Every step keeps buffers and disk in agreement. *)
LEMMA AgreeStep ==
  ASSUME Calm, TypeInv, PosInv, OneCopy, DataInv, [Next]_vars
  PROVE  Agree'
  <1> SUFFICES ASSUME NEW f \in File, ff_files'[f].path # NoPath, NEW a \in Addr
               PROVE  AgreesAt(f, a)'
    BY DEF Agree
  <1> USE DEF DataInv
  <1>1. ASSUME NEW p \in Path, NEW w \in Modes[p], OpenNew(p, w) PROVE AgreesAt(f, a)'
    BY <1>1, OpenAgrees
  <1>2. ASSUME \A p \in Path : \A w \in Modes[p] : ~ OpenNew(p, w) PROVE AgreesAt(f, a)'
    <2>1. Same(f) /\ ~ (CloseReturn /\ f = call.f)
      <3>1. CASE CloseReturn
        BY <3>1, CloseReturnFacts DEF Same
      <3>2. CASE ~ CloseReturn
        BY <1>2, <3>2, Steps, PlainSame DEF Calm, LoadFails
      <3> QED
        BY <3>1, <3>2
    <2>2. ff_files[f].path # NoPath
      BY <2>1 DEF Same
    <2>3. AgreesAt(f, a)
      BY <2>2 DEF Agree
    <2>4. CASE \E b \in Buf : WriteChunk(b)
      BY <2>2, <2>4, WriteChunkAgrees
    <2>5. CASE GrowReturn
      BY <2>2, <2>5, GrowAgrees
    <2>6. CASE \E b \in Buf : WriteBackFails(b)
      BY <2>1, <2>2, <2>3, <2>6, WriteBackFailsAgrees
    <2>7. ASSUME ~ (\E b \in Buf : WriteChunk(b)), ~ GrowReturn, ~ (\E b \in Buf : WriteBackFails(b))
          PROVE  AgreesAt(f, a)'
      <3>1. Reach(f)' = Reach(f)
        BY <2>1, <2>2, <2>7, ReachStep
      <3>2. CASE UNCHANGED <<disk, ff_buf>>
        BY <2>1, <2>3, <3>1, <3>2, SameKeeps, KeepsAgrees
      <3>3. ASSUME disk' = disk, NEW S, ff_buf' = Released(S), \A b \in S \cap Buf : ~ NeedsWrite(b)
            PROVE  AgreesAt(f, a)'
        BY <2>1, <2>3, <3>1, <3>3, ReleasedKeeps, KeepsAgrees
      <3>4. ASSUME NEW b \in Buf, WriteBack(b) PROVE AgreesAt(f, a)'
        BY <2>1, <2>2, <2>3, <3>1, <3>4, WriteBackAgrees
      <3>5. CASE LoadNew \/ LoadBlk
        BY <2>2, <2>3, <3>1, <3>5, LoadAgrees
      <3>6. ASSUME NEW s \in Stream, NEW k \in WriteLens, NEW v \in Byte, Filter(s, k, v)
            PROVE  AgreesAt(f, a)'
        BY <2>2, <2>3, <3>6, FilterAgrees
      <3> QED
        BY <2>7, <3>2, <3>3, <3>4, <3>5, <3>6, DataSteps
    <2> QED
      BY <2>4, <2>5, <2>6, <2>7
  <1> QED
    BY <1>1, <1>2

-----------------------------------------------------------------------------
(* The invariant, and what follows from it. *)
LEMMA DataInvariance ==
  ASSUME Calm
  PROVE  Spec => [](TypeInv /\ PosInv /\ OneCopy /\ DataInv)
  <1>1. Init => DataInv
    <2>1. ASSUME Init PROVE DataInv
      <3>1. /\ \A f \in File : ff_files[f].path = NoPath
            /\ \A b \in Buf : ff_buf[b].fb_file = NoFile
            /\ \A s \in Stream : ~ Open(s)
            /\ call.op = "none"
        BY <2>1 DEF Init, FreeFile, NewBuf, FreeStream, Open, Ended
      <3>2. Agree
        BY <3>1 DEF Agree
      <3>3. CallInFile
        BY <3>1 DEF CallInFile
      <3>4. Backed /\ OneSlot
        BY <3>1 DEF Backed, OneSlot
      <3> QED
        BY <3>2, <3>3, <3>4 DEF DataInv
    <2> QED
      BY <2>1
  <1>2. TypeInv /\ PosInv /\ OneCopy /\ DataInv /\ [Next]_vars => DataInv'
    <2>1. ASSUME TypeInv, PosInv, OneCopy, DataInv, [Next]_vars PROVE DataInv'
      <3>1. Agree'
        BY <2>1, AgreeStep
      <3>2. CallInFile' /\ Backed' /\ OneSlot'
        BY <2>1, CallInFileStep, BackedStep, OneSlotStep DEF DataInv
      <3> QED
        BY <3>1, <3>2 DEF DataInv
    <2> QED
      BY <2>1
  <1>3. Init => PosInv /\ OneCopy
    <2>1. ASSUME Init PROVE PosInv /\ OneCopy
      <3>1. /\ \A f \in File : ff_files[f].fn_realblk = 0 /\ ff_files[f].pos = 0
            /\ \A b \in Buf : ff_buf[b].fb_file = NoFile
            /\ \A s \in Stream : ~ Open(s)
            /\ call.op = "none"
        BY <2>1 DEF Init, FreeFile, NewBuf, FreeStream, Open, Ended
      <3>2. 0 = 0 * BSIZE
        BY BSizeAssumption
      <3> QED
        BY <3>1, <3>2 DEF PosInv, Image, WriteModes, PartsOnly, OneCopy
    <2> QED
      BY <2>1
  <1>4. TypeInv /\ PosInv /\ [Next]_vars => PosInv'
    BY PosInvStep DEF Calm
  <1>5. TypeInv /\ OneCopy /\ [Next]_vars => OneCopy'
    BY OneCopyStep
  <1>6. Spec => []TypeInv
    BY TypeInvariance
  <1> QED
    BY <1>1, <1>2, <1>3, <1>4, <1>5, <1>6, PTL DEF Spec

(* A byte that no dirty buffer is about to write is on disk, and any buffer *)
(* that covers it agrees with the disk.                                    *)
THEOREM CleanAgreesCorrect == ASSUME Calm PROVE Spec => []CleanAgrees
  <1>1. ASSUME TypeInv, DataInv PROVE CleanAgrees
    <2> SUFFICES ASSUME NEW f \in File, ff_files[f].path # NoPath,
                        NEW a \in Addr, a < ff_files[f].fn_size
                 PROVE  LET d == disk[ff_files[f].path]
                        IN  /\ \A b \in Buf : /\ Covers(b, f, a)
                                              /\ (ff_buf[b].fb_wflg => Rem(a) >= ff_buf[b].fb_count)
                                 => a < d.len /\ ff_buf[b].fb_buf[Rem(a)] = d.at[a]
                            /\ (\A b \in Buf : ~ Covers(b, f, a)) => a < d.len
      BY DEF CleanAgrees
    <2>1. ff_files[f].fn_size \in Nat /\ CurOff \in Nat /\ a \in Nat /\ Rem(a) \in 0 .. BSIZE - 1
      <3>1. ff_files[f].fn_size \in Nat /\ CurOff \in Nat
        BY <1>1, Cursor DEF TypeInv, Types, TypeOK, Files
      <3>2. a \in Nat
        BY DEF Addr
      <3> QED
        BY <3>1, <3>2, InBlock
    <2>2. a < Reach(f)
      BY <2>1 DEF Reach, Greater
    <2>3. AgreesAt(f, a)
      BY <1>1, <2>2 DEF DataInv, Agree
    <2>4. ASSUME NEW b \in Buf, Covers(b, f, a), ff_buf[b].fb_wflg => Rem(a) >= ff_buf[b].fb_count
          PROVE  ~ Tells(b, a)
      <3>1. ff_buf[b].fb_count \in 0 .. BSIZE
        BY <1>1, <2>4, BufFacts DEF Covers, File, NoFile
      <3> QED
        BY <2>1, <2>4, <3>1 DEF Tells
    <2> QED
      BY <2>2, <2>3, <2>4 DEF AgreesAt, BufsAgree, Cached
  <1>2. Spec => [](TypeInv /\ DataInv)
    BY DataInvariance, PTL
  <1>3. TypeInv /\ DataInv => CleanAgrees
    BY <1>1
  <1> QED
    BY <1>2, <1>3, PTL

-----------------------------------------------------------------------------
(* What the invariant of FlushDurable and Implements adds to that of CleanAgrees. *)

(* Every byte of a file has an address. *)
Limit == MaxBlk * BSIZE

SizesFit ==
  /\ \A p \in Path : disk[p].len <= Limit
  /\ \A f \in File : ff_files[f].path # NoPath => ff_files[f].fn_size <= Limit

WriteFits == call.op = "write" => call.done <= call.n /\ call.at + call.n <= Limit

DirtyFit == \A b \in Buf : NeedsWrite(b) => ff_buf[b].fb_bnum < MaxBlk

(* A flush has a stream, and a call that concerns no file knows none. *)
CallKnown ==
  /\ call.op = "flush" => call.s \in Stream /\ Open(call.s)
  /\ call.op \notin {"read", "write", "close", "grow"} => call.f = NoFile

FitInv == SizesFit /\ WriteFits /\ DirtyFit /\ CallKnown

-----------------------------------------------------------------------------
(* The limit. *)

(* Whole blocks fit. *)
LEMMA BlocksFit ==
  ASSUME NEW q \in Nat
  PROVE  /\ Limit \in Nat
         /\ q < MaxBlk => q * BSIZE + BSIZE <= Limit
         /\ q * BSIZE < Limit => q < MaxBlk
  <1>1. Limit \in Nat /\ q * BSIZE \in Nat
    BY MulNat, BoundAssumption, BSizeAssumption DEF Limit
  <1>2. ASSUME q < MaxBlk PROVE q * BSIZE + BSIZE <= Limit
    <2> DEFINE d == MaxBlk - q - 1
    <2>1. d \in Nat /\ MaxBlk = q + 1 + d
      BY <1>2, BoundAssumption
    <2> HIDE DEF d
    <2>2. MaxBlk * BSIZE = q * BSIZE + BSIZE + d * BSIZE /\ d * BSIZE \in Nat
      BY <2>1, MulNat, BSizeAssumption
    <2> QED
      BY <1>1, <2>2, BSizeAssumption DEF Limit
  <1>3. ASSUME ~ (q < MaxBlk) PROVE Limit <= q * BSIZE
    <2> DEFINE d == q - MaxBlk
    <2>1. d \in Nat /\ q = MaxBlk + d
      BY <1>3, BoundAssumption
    <2> HIDE DEF d
    <2>2. q * BSIZE = MaxBlk * BSIZE + d * BSIZE /\ d * BSIZE \in Nat
      BY <2>1, MulNat, BoundAssumption, BSizeAssumption
    <2> QED
      BY <1>1, <2>2 DEF Limit
  <1> QED
    BY <1>1, <1>2, <1>3

(* ff_putblk, done or failed, hands some bytes of a dirty buffer to write(2). *)
LEMMA Puts ==
  ASSUME TypeInv, NEW b \in Buf, WriteBack(b) \/ WriteBackFails(b)
  PROVE  NeedsWrite(b) /\ \E c \in Nat : c <= ff_buf[b].fb_count /\ Put(b, c)
  <1>1. NeedsWrite(b)
    BY DEF WriteBack, WriteBackFails
  <1>2. PICK n \in 0 .. BSIZE : n = ff_buf[b].fb_count
    BY <1>1, BufFacts DEF NeedsWrite
  <1>3. CASE WriteBack(b)
    <2>1. Put(b, n)
      BY <1>2, <1>3 DEF WriteBack, Put
    <2> QED
      BY <1>1, <1>2, <2>1, BSizeAssumption
  <1>4. CASE WriteBackFails(b)
    <2>1. PICK c \in IF ff_files[ff_buf[b].fb_file].fdw THEN 0 .. n - 1 ELSE {0} : Put(b, c)
      BY <1>2, <1>4 DEF WriteBackFails, Put
    <2>2. c \in Nat /\ c <= n
      BY <1>2
    <2> QED
      BY <1>1, <1>2, <2>1, <2>2, SMTT(45)
  <1> QED
    BY <1>3, <1>4, SMTT(45)

(* The dirty buffer's block fits, and so does what is written of it. *)
LEMMA PutFits ==
  ASSUME TypeInv, PosInv, Backed, FitInv, NEW b \in Buf, NeedsWrite(b),
         NEW c \in Nat, c <= ff_buf[b].fb_count, Put(b, c), NEW p \in Path
  PROVE  disk'[p].len <= Limit
  <1>1. PICK g \in File, blk \in Nat, n \in 0 .. BSIZE :
          g = ff_buf[b].fb_file /\ blk = ff_buf[b].fb_bnum /\ n = ff_buf[b].fb_count
    BY BufFacts DEF NeedsWrite
  <1>2. PICK pos \in Nat : pos = blk * BSIZE
    BY <1>1, MulNat, BSizeAssumption
  <1>3. SeekTo(g, blk) = pos
    BY <1>1, <1>2, SeekToBlock DEF PosInv
  <1>4. disk' = [disk EXCEPT ![ff_files[g].path] = SysWrite(@, pos, c, ff_buf[b].fb_buf)]
    BY <1>1, <1>3 DEF Put
  <1>5. /\ disk \in [Path -> Disks] /\ disk[p].len \in Nat /\ disk[p].len <= Limit
        /\ blk < MaxBlk /\ Limit \in Nat
    BY <1>1, BlocksFit DEF TypeInv, Types, TypeOK, Disks, FitInv, SizesFit, DirtyFit
  <1>6. pos + c <= Limit
    BY <1>1, <1>2, <1>5, BlocksFit, BSizeAssumption
  <1>7. CASE p # ff_files[g].path
    BY <1>4, <1>5, <1>7
  <1>8. CASE p = ff_files[g].path
    <2>1. PICK buf : disk'[p] = SysWrite(disk[p], pos, c, buf)
      BY <1>4, <1>5, <1>8
    <2> QED
      BY <1>2, <1>5, <1>6, <2>1 DEF SysWrite, Greater
  <1> QED
    BY <1>7, <1>8

(* The system's files grow by what is put and what filters write. *)
LEMMA DisksFit ==
  ASSUME Calm, TypeInv, PosInv, Backed, FitInv, [Next]_vars, NEW p \in Path
  PROVE  disk'[p].len <= Limit
  <1>1. disk \in [Path -> Disks] /\ disk[p].len \in Nat /\ disk[p].len <= Limit /\ Limit \in Nat
    BY BlocksFit DEF TypeInv, Types, TypeOK, Disks, FitInv, SizesFit
  <1>2. ASSUME NEW b \in Buf, WriteBack(b) \/ WriteBackFails(b) PROVE disk'[p].len <= Limit
    BY <1>2, Puts, PutFits
  <1>3. ASSUME NEW s \in Stream, NEW k \in WriteLens, NEW v \in Byte, Filter(s, k, v)
        PROVE  disk'[p].len <= Limit
    <2>1. PICK g \in File : g = ff_streams[s].f_file /\ ff_files[g].path # NoPath
      BY <1>3, OpenRefs DEF Filter
    <2>2. PICK end \in Nat : end = ff_files[g].fn_size
      BY DEF TypeInv, Types, TypeOK, Files
    <2>3. PICK buf : disk' = [disk EXCEPT ![ff_files[g].path] = SysWrite(@, end, k, buf)]
      BY <1>3, <2>1, <2>2 DEF Filter, Calm
    <2>4. end + k <= Limit /\ k \in Nat
      BY <1>3, <2>1, <2>2, LenAssumption DEF Filter, Limit
    <2>5. CASE p # ff_files[g].path
      BY <1>1, <2>3, <2>5
    <2>6. CASE p = ff_files[g].path
      <3>1. disk'[p] = SysWrite(disk[p], end, k, buf)
        BY <1>1, <2>3, <2>6, SMTT(45)
      <3> QED
        BY <1>1, <2>2, <2>4, <3>1 DEF SysWrite, Greater
    <2> QED
      BY <2>5, <2>6
  <1>4. LoadNew \/ LoadBlk \/ GrowReturn \/ (\E b \in Buf : WriteChunk(b)) => disk' = disk
    BY DEF LoadNew, LoadBlk, GrowReturn, WriteChunk, WriteChunkAs
  <1> QED
    BY <1>1, <1>2, <1>3, <1>4, DataSteps

(* A file that is open has the size it had, or that its write, ff_grow or   *)
(* ff_open gives it.                                                       *)
LEMMA FilesFit ==
  ASSUME Calm, TypeInv, FitInv, [Next]_vars, NEW f \in File, ff_files'[f].path # NoPath
  PROVE  ff_files'[f].fn_size <= Limit
  <1>1. Limit \in Nat /\ \A g \in File : ff_files[g].fn_size \in Nat
    BY BlocksFit DEF TypeInv, Types, TypeOK, Files
  <1>2. ASSUME NEW p \in Path, NEW w \in Modes[p], OpenNew(p, w) PROVE ff_files'[f].fn_size <= Limit
    <2>1. w \in BOOLEAN
      BY PathAssumption
    <2>2. PICK g \in File, s \in Stream : NewSlot(p, w, g, s)
      BY <1>2, <2>1, OpenNewFacts
    <2> QED
      BY <2>2 DEF NewSlot, FitInv, SizesFit
  <1>3. ASSUME \A p \in Path : \A w \in Modes[p] : ~ OpenNew(p, w) PROVE ff_files'[f].fn_size <= Limit
    <2>1. ~ (CloseReturn /\ f = call.f)
      BY CloseReturnFacts
    <2>2. ff_files[f].path # NoPath
      <3>1. CASE CloseReturn
        BY <2>1, <3>1, CloseReturnFacts
      <3>2. CASE ~ CloseReturn
        BY <1>3, <3>2, Steps, PlainSame DEF Same
      <3> QED
        BY <3>1, <3>2
    <2>3. ff_files[f].fn_size <= Limit
      BY <2>2 DEF FitInv, SizesFit
    <2>4. ASSUME WriteReturn PROVE ff_files'[f].fn_size <= Limit
      <3>1. PICK g \in File : g = call.f
        BY <2>4, BufFacts DEF WriteReturn
      <3>2. PICK size : size = Greater(ff_files[g].fn_size, CurOff)
        OBVIOUS
      <3>3. \A h \in File : Same(h) /\ ff_files'[h].fn_size = IF h = g THEN size ELSE ff_files[h].fn_size
        <4>1. ff_files' = [ff_files EXCEPT ![g].fn_size = size]
          BY <2>4, <3>1, <3>2 DEF WriteReturn
        <4> QED
          BY <4>1, SizedSame, ZenonT(60)
      <3>4. CurOff <= Limit /\ CurOff \in Nat
        BY <1>1, <2>4 DEF WriteReturn, FitInv, WriteFits, CurOff, TypeInv, Types, TypeOK, Calls
      <3> QED
        BY <1>1, <2>3, <3>2, <3>3, <3>4 DEF Greater
    <2>5. ASSUME GrowReturn PROVE ff_files'[f].fn_size <= Limit
      <3>1. PICK g \in File : g = call.f /\ ff_files[g].path # NoPath
        BY <2>5 DEF GrowReturn, TypeInv, Types, CallOK
      <3>2. PICK size : size = Greater(ff_files[g].fn_size, disk[ff_files[g].path].len)
        OBVIOUS
      <3>3. \A h \in File : Same(h) /\ ff_files'[h].fn_size = IF h = g THEN size ELSE ff_files[h].fn_size
        <4>1. ff_files' = [ff_files EXCEPT ![g].fn_size = size]
          BY <2>5, <3>1, <3>2 DEF GrowReturn
        <4> QED
          BY <4>1, SizedSame, ZenonT(60)
      <3>4. ff_files[g].path \in Path
        BY <3>1 DEF TypeInv, Types, TypeOK, Files
      <3>5. disk[ff_files[g].path].len <= Limit /\ ff_files[g].fn_size <= Limit
        BY <3>1, <3>4 DEF FitInv, SizesFit
      <3> QED
        BY <2>3, <3>2, <3>3, <3>5 DEF Greater
    <2> QED
      BY <2>1, <2>2, <2>3, <2>4, <2>5, Sizes DEF SameSize
  <1> QED
    BY <1>2, <1>3

(* A write does not go past the limit: its callers see to that. *)
LEMMA WriteFitsStep ==
  ASSUME TypeInv, FitInv, [Next]_vars
  PROVE  WriteFits'
  <1> SUFFICES ASSUME call'.op = "write" PROVE call'.done <= call'.n /\ call'.at + call'.n <= Limit
    BY DEF WriteFits, Limit
  <1>1. ASSUME NEW s \in Stream, NEW at \in Places, NEW n \in WriteLens, NEW v, BeginWrite(s, at, n, v)
        PROVE  call'.done <= call'.n /\ call'.at + call'.n <= Limit
    <2>1. call'.done = 0 /\ call'.n = n /\ call'.at = at /\ at + n <= Limit
      BY <1>1 DEF BeginWrite, Request, WriteAllowed, Limit
    <2> QED
      BY <2>1, LenAssumption
  <1>2. ASSUME NEW b \in Buf, WriteChunk(b) PROVE call'.done <= call'.n /\ call'.at + call'.n <= Limit
    <2>1. /\ call'.done = call.done + ChunkLen /\ call'.n = call.n /\ call'.at = call.at
          /\ call.op = "write" /\ call.n \in Nat /\ call.done \in Nat
      BY <1>2 DEF WriteChunk, WriteChunkAs, TypeInv, Types, TypeOK, Calls
    <2>2. Fetching
      BY <1>2 DEF WriteChunk, WriteChunkAs
    <2>3. ChunkLen \in Nat
      BY <2>2, Cursor, BSizeAssumption DEF TypeInv, Types, Off
    <2>4. Rem(CurOff) \in 0 .. BSIZE - 1
      BY Cursor DEF TypeInv, Types, Off
    <2>5. ChunkLen <= call.n - call.done
      BY <2>1, <2>4, BSizeAssumption DEF ChunkLen, Lesser
    <2> QED
      BY <2>1, <2>3, <2>5 DEF FitInv, WriteFits
  <1>3. call' = call => call'.done <= call'.n /\ call'.at + call'.n <= Limit
    BY DEF FitInv, WriteFits
  <1> QED
    BY <1>1, <1>2, <1>3, WriteCalls

(* The block a pass of ff_write writes to. *)
LEMMA DirtyFitStep ==
  ASSUME TypeInv, FitInv, [Next]_vars
  PROVE  DirtyFit'
  <1> SUFFICES ASSUME NEW b \in Buf, NeedsWrite(b)' PROVE ff_buf'[b].fb_bnum < MaxBlk
    BY DEF DirtyFit
  <1>1. ff_buf'[b] = ff_buf[b] => ff_buf'[b].fb_bnum < MaxBlk
    BY DEF NeedsWrite, FitInv, DirtyFit
  <1>2. ASSUME NEW S, ff_buf' = Released(S) PROVE ff_buf'[b].fb_bnum < MaxBlk
    BY <1>1, <1>2, ReleasedBufs DEF NeedsWrite
  <1>3. ASSUME NEW c \in Buf, WriteBack(c) PROVE ff_buf'[b].fb_bnum < MaxBlk
    BY <1>1, <1>3, WrittenBack DEF NeedsWrite
  <1>4. ASSUME LoadNew \/ LoadBlk PROVE ff_buf'[b].fb_bnum < MaxBlk
    BY <1>1, <1>4, Loads, Filled, ZenonT(45) DEF NeedsWrite
  <1>5. ASSUME NEW c \in Buf, WriteChunk(c) PROVE ff_buf'[b].fb_bnum < MaxBlk
    <2>1. call.op = "write" /\ Fetching /\ (b # c => ff_buf'[b] = ff_buf[b]) /\ ff_buf'[c].fb_bnum = CurBlk
      BY <1>5, Writes
    <2>2. call.at \in Nat /\ call.done \in Nat /\ call.n \in Nat /\ CurOff \in Nat
      BY Cursor DEF TypeInv, Types, TypeOK, Calls
    <2>3. CurOff < Limit
      <3>1. call.at + call.n <= Limit /\ Limit \in Nat
        BY <2>1, BlocksFit DEF FitInv, WriteFits
      <3> QED
        BY <2>1, <2>2, <3>1 DEF Fetching, CurOff
    <2>4. CurBlk \in Nat /\ CurBlk * BSIZE \in Nat /\ CurBlk * BSIZE <= CurOff
      BY <2>2, InBlock DEF CurBlk
    <2>5. CurBlk < MaxBlk
      BY <2>2, <2>3, <2>4, BlocksFit
    <2> QED
      BY <1>1, <2>1, <2>5
  <1> QED
    BY <1>1, <1>2, <1>3, <1>4, <1>5, BufSteps

(* Streams are opened and closed between the calls. *)
LEMMA StreamSteps ==
  ASSUME [Next]_vars
  PROVE  ff_streams' = ff_streams \/ Ready
  <1>1. (\E s \in Stream : BeginClose(s)) \/ OpenStep => Ready
    BY DEF BeginClose, Begin, OpenStep, OpenShared, OpenNew
  <1>2. PoolStep \/ PutStep \/ LoadStep \/ ReadStep \/ WriteStep \/ FlushStep \/ SyncStep \/ GrowStep
        \/ FilterStep \/ (\E b \in Buf : CloseRelease(b)) \/ CloseShared \/ CloseReturn \/ UNCHANGED vars
        => ff_streams' = ff_streams
    BY DEF PoolStep, BeginFree, FreeBuf, Alloc, PutStep, WriteBack, WriteBackFails, LoadStep, LoadNew, LoadBlk,
       LoadFails, ReadStep, BeginRead, ReadChunk, ReadEOF, ReadReturn, WriteStep, BeginWrite, WriteChunk,
       WriteChunkAs, WriteReturn, FlushStep, BeginFlush, FlushReturn, SyncStep, BeginSync, SyncBadStream,
       SyncNext, GrowStep, BeginGrow, GrowReturn, FilterStep, Filter, FilterAborted, CloseRelease, CloseShared,
       CloseReturn, Quiet, vars
  <1> QED
    BY <1>1, <1>2 DEF Next, CloseStep

(* A call is made when there is none: *)
Asked(op, s, f, at, n, v) ==
  /\ call' = Request(op, s, f, at, n, v) /\ Idle
  /\ op \in Ops \ {"none"} /\ at \in Nat /\ n \in Nat /\ v \in Bytes
  /\ IF op \in {"read", "write", "close", "grow"} THEN f \in File /\ ff_files'[f].path # NoPath
                                                  ELSE f = NoFile
  /\ op = "flush" => s \in Stream /\ Open(s)
  /\ ff_streams' = ff_streams \/ op = "close"

Asks == \E op, s, f, at, n, v : Asked(op, s, f, at, n, v)

(* The steps that are calls. *)
LEMMA Calling ==
  ASSUME TypeInv,
         \/ BeginFree \/ BeginSync \/ \E s \in Stream : BeginFlush(s) \/ BeginGrow(s) \/ BeginClose(s)
         \/ \E s \in Stream, at \in Places, n \in ReadLens : BeginRead(s, at, n)
         \/ \E s \in Stream, at \in Places, n \in WriteLens, v \in Byte : BeginWrite(s, at, n, v)
  PROVE  Asks
  <1>1. Hole \in Bytes /\ 0 \in Nat
    BY DEF Bytes
  <1>2. CASE BeginFree \/ BeginSync
    <2>1. PICK op, s : op \in {"free", "sync"} /\ Begin(op, s, NoFile) /\ ff_streams' = ff_streams
      BY <1>2 DEF BeginFree, BeginSync, Quiet
    <2>2. Asked(op, s, NoFile, 0, 0, Hole)
      BY <1>1, <2>1 DEF Asked, Begin, Ready, Ops
    <2> QED
      BY <2>2 DEF Asks
  <1>3. ASSUME NEW s \in Stream, BeginFlush(s) PROVE Asks
    <2>1. Asked("flush", s, NoFile, 0, 0, Hole)
      BY <1>1, <1>3 DEF Asked, BeginFlush, Begin, Ready, Ops, Quiet
    <2> QED
      BY <2>1 DEF Asks
  <1>4. ASSUME NEW s \in Stream, BeginGrow(s) PROVE Asks
    <2>1. PICK f \in File : f = ff_streams[s].f_file /\ ff_files[f].path # NoPath
      BY <1>4, OpenRefs DEF BeginGrow
    <2>2. Asked("grow", 0, f, 0, 0, Hole)
      BY <1>1, <1>4, <2>1 DEF Asked, BeginGrow, Ops, Quiet
    <2> QED
      BY <2>2 DEF Asks
  <1>5. ASSUME NEW s \in Stream, BeginClose(s) PROVE Asks
    <2>1. PICK f \in File : f = ff_streams[s].f_file /\ ff_files[f].path # NoPath
      BY <1>5, OpenRefs DEF BeginClose
    <2>2. ff_files'[f].path # NoPath
      BY <1>5, <2>1, CloseSame DEF Same
    <2>3. Begin("close", 0, f)
      BY <1>5, <2>1 DEF BeginClose
    <2>4. Asked("close", 0, f, 0, 0, Hole)
      BY <1>1, <2>2, <2>3 DEF Asked, Begin, Ready, Ops
    <2> QED
      BY <2>4 DEF Asks
  <1>6. ASSUME NEW s \in Stream, NEW at \in Places, NEW n \in ReadLens \cup WriteLens,
               NEW v \in Byte \cup {Hole}, NEW op \in {"read", "write"}, Open(s), Idle, ff_streams' = ff_streams,
               call' = Request(op, 0, ff_streams[s].f_file, at, n, v), ff_files' = ff_files
        PROVE  Asks
    <2>1. PICK f \in File : f = ff_streams[s].f_file /\ ff_files[f].path # NoPath
      BY <1>6, OpenRefs
    <2>2. at \in Nat /\ n \in Nat /\ v \in Bytes
      BY <1>6, LenAssumption, BlocksFit DEF Places, Limit, Bytes
    <2>3. Asked(op, 0, f, at, n, v)
      BY <1>6, <2>1, <2>2 DEF Asked, Ops
    <2> QED
      BY <2>3 DEF Asks
  <1>7. ASSUME NEW s \in Stream, NEW at \in Places, NEW n \in ReadLens, BeginRead(s, at, n) PROVE Asks
    BY <1>6, <1>7 DEF BeginRead
  <1>8. ASSUME NEW s \in Stream, NEW at \in Places, NEW n \in WriteLens, NEW v \in Byte, BeginWrite(s, at, n, v)
        PROVE  Asks
    BY <1>6, <1>8 DEF BeginWrite, Ready
  <1> QED
    BY <1>2, <1>3, <1>4, <1>5, <1>7, <1>8

(* ... and it ends. *)
Ends == call.op # "none" /\ \E r : Return(r)

(* The steps that return. *)
LEMMA Returning ==
  ASSUME \/ FreeBuf \/ (\E b \in Buf : ReadEOF(b) \/ WriteBackFails(b)) \/ ReadReturn \/ FlushReturn
         \/ SyncBadStream \/ CloseShared \/ WriteReturn \/ GrowReturn \/ CloseReturn
  PROVE  Ends
  <1>1. ASSUME NEW b, WriteBackFails(b) PROVE Ends
    <2>1. b \in PutNext /\ \E r : Return(r)
      BY <1>1 DEF WriteBackFails
    <2>2. call.op # "none"
      BY <2>1 DEF PutNext, Misses, Fetching, Closing
    <2> QED
      BY <2>1, <2>2, SMTT(45) DEF Ends
  <1>2. FreeBuf \/ ReadReturn \/ FlushReturn \/ SyncBadStream \/ CloseShared \/ WriteReturn \/ GrowReturn
        \/ CloseReturn \/ (\E b \in Buf : ReadEOF(b)) => Ends
    BY DEF Ends, FreeBuf, ReadReturn, FlushReturn, SyncBadStream, CloseShared, WriteReturn, GrowReturn,
       CloseReturn, Closing, ReadEOF
  <1> QED
    BY <1>1, <1>2

(* Every step, by what it does to the call. *)
LEMMA CallMoves ==
  ASSUME Calm, TypeInv, [Next]_vars
  PROVE  \/ call' = call \/ Asks \/ Ends \/ SyncNext
         \/ \E b \in Buf : ReadChunk(b) \/ WriteChunk(b)
  <1>1. ~ LoadFails
    BY SMTT(45) DEF Calm, LoadFails
  <1>2. (\E b \in Buf : Alloc(b)) \/ LoadNew \/ LoadBlk \/ (\E b \in Buf : WriteBack(b)) \/ FilterStep
        \/ (\E b \in Buf : CloseRelease(b)) \/ (\E p \in Path : \E w \in Modes[p] : OpenShared(p, w))
        \/ (\E p \in Path : \E w \in Modes[p] : OpenNew(p, w)) \/ UNCHANGED vars => call' = call
    BY DEF Alloc, LoadNew, LoadBlk, WriteBack, FilterStep, Filter, FilterAborted, CloseRelease, OpenShared,
       OpenNew, vars
  <1>3. Unfiled => \/ call' = call \/ Asks \/ Ends \/ SyncNext
                   \/ \E b \in Buf : ReadChunk(b) \/ WriteChunk(b)
    BY <1>2, Calling, Returning DEF Unfiled, FlushStep, SyncStep
  <1> QED
    BY <1>1, <1>2, <1>3, Calling, Returning, Steps

(* What a call knows stays true until it ends. *)
LEMMA CallKnownStep ==
  ASSUME Calm, TypeInv, FitInv, [Next]_vars
  PROVE  CallKnown'
  <1>1. call.op # "none" => ff_streams' = ff_streams
    BY StreamSteps DEF Ready, Idle
  <1>2. CASE call' = call
    BY <1>1, <1>2 DEF FitInv, CallKnown, Open
  <1>3. ASSUME NEW op, NEW s, NEW f, NEW at, NEW n, NEW v, Asked(op, s, f, at, n, v) PROVE CallKnown'
    <2>1. call'.op = op /\ call'.s = s /\ call'.f = f
      BY <1>3 DEF Asked, Request
    <2> QED
      BY <1>3, <2>1 DEF Asked, CallKnown, Open
  <1>4. CASE Ends
    BY <1>4 DEF Ends, Return, Ended, CallKnown
  <1>5. CASE SyncNext
    <2>1. CASE call.s < NStream
      <3>1. call'.op = "sync" /\ call'.f = call.f /\ call.op = "sync"
        BY <1>5, <2>1 DEF SyncNext, TypeInv, Types, TypeOK, Calls
      <3> QED
        BY <3>1 DEF FitInv, CallKnown
    <2>2. CASE ~ (call.s < NStream)
      BY <1>5, <2>2 DEF SyncNext, Return, Ended, CallKnown
    <2> QED
      BY <2>1, <2>2
  <1>6. ASSUME NEW b \in Buf, ReadChunk(b) \/ WriteChunk(b) PROVE CallKnown'
    <2>1. call'.op \in {"read", "write"}
      BY <1>6 DEF ReadChunk, WriteChunk, WriteChunkAs, TypeInv, Types, TypeOK, Calls
    <2> QED
      BY <2>1 DEF CallKnown
  <1> QED
    BY <1>2, <1>3, <1>4, <1>5, <1>6, CallMoves DEF Asks

(* The bounds are kept. *)
LEMMA FitInvariance ==
  ASSUME Calm
  PROVE  Spec => [](TypeInv /\ PosInv /\ OneCopy /\ DataInv /\ FitInv)
  <1>1. Init => FitInv
    <2> SUFFICES ASSUME Init PROVE FitInv
      OBVIOUS
    <2>1. /\ \A f \in File : ff_files[f].path = NoPath
          /\ \A b \in Buf : ff_buf[b].fb_file = NoFile
          /\ call.op = "none" /\ call.f = NoFile /\ disk \in InitDisk
      BY DEF Init, FreeFile, NewBuf, Ended
    <2>2. \A p \in Path : disk[p].len <= Limit
      BY <2>1, FitAssumption DEF Limit
    <2> QED
      BY <2>1, <2>2 DEF FitInv, SizesFit, WriteFits, DirtyFit, CallKnown, NeedsWrite
  <1>2. TypeInv /\ PosInv /\ DataInv /\ FitInv /\ [Next]_vars => FitInv'
    <2> SUFFICES ASSUME TypeInv, PosInv, DataInv, FitInv, [Next]_vars PROVE FitInv'
      OBVIOUS
    <2>1. Limit' = Limit
      BY DEF Limit
    <2>2. SizesFit'
      BY <2>1, DisksFit, FilesFit DEF SizesFit, DataInv
    <2> QED
      BY <2>2, WriteFitsStep, DirtyFitStep, CallKnownStep DEF FitInv
  <1> QED
    BY <1>1, <1>2, DataInvariance, PTL DEF Spec


-----------------------------------------------------------------------------
(* What is flushed is on disk. *)

(* A file without dirty buffers is on disk, with all its bytes. *)
LEMMA AllOnDisk ==
  ASSUME TypeInv, DataInv, FitInv, NEW f \in File, ff_files[f].path # NoPath, Dirty(f) = {}
  PROVE  OnDisk(f)
  <1> DEFINE d == disk[ff_files[f].path]
  <1>1. /\ ff_files[f].fn_size \in Nat /\ ff_files[f].fn_size <= Limit /\ Limit \in Nat
        /\ d.len \in Nat /\ CurOff \in Nat
    BY BlocksFit, Cursor DEF FitInv, SizesFit, TypeInv, Types, TypeOK, Files, Disks
  <1>2. ASSUME NEW b \in Buf, NEW a, Covers(b, f, a) PROVE ~ Tells(b, a)
    BY <1>2 DEF Dirty, Queue, Covers, Tells
  <1>3. ASSUME NEW a \in Addr, a < ff_files[f].fn_size
        PROVE  a < d.len /\ \A b \in Buf : Covers(b, f, a) => ff_buf[b].fb_buf[Rem(a)] = d.at[a]
    <2>1. a \in Nat
      BY DEF Addr
    <2>2. a < Reach(f)
      BY <1>1, <1>3, <2>1 DEF Reach, Greater
    <2>3. AgreesAt(f, a)
      BY DEF DataInv, Agree
    <2> QED
      BY <1>2, <2>2, <2>3 DEF AgreesAt, BufsAgree, Cached
  <1>4. d.len >= ff_files[f].fn_size
    <2>1. CASE ff_files[f].fn_size = 0
      BY <1>1, <2>1
    <2>2. CASE ff_files[f].fn_size > 0
      <3>1. PICK a \in Nat : a = ff_files[f].fn_size - 1
        BY <1>1, <2>2
      <3>2. a \in Addr /\ a < ff_files[f].fn_size
        BY <1>1, <3>1 DEF Addr, Limit
      <3>3. a < d.len
        BY <1>3, <3>2
      <3> QED
        BY <1>1, <3>1, <3>3
    <2> QED
      BY <1>1, <2>1, <2>2
  <1>5. ASSUME NEW a \in Addr, a < ff_files[f].fn_size PROVE d.at[a] = Seen(f, a)
    <2>1. CASE \E b \in Buf : Covers(b, f, a)
      <3>1. PICK b \in Buf : b = (CHOOSE c \in Buf : Covers(c, f, a)) /\ Covers(b, f, a)
        BY <2>1
      <3> QED
        BY <1>3, <1>5, <2>1, <3>1 DEF Seen
    <2>2. CASE ~ \E b \in Buf : Covers(b, f, a)
      BY <2>2 DEF Seen
    <2> QED
      BY <2>1, <2>2
  <1> QED
    BY <1>4, <1>5 DEF OnDisk

(* ff_flush and the last ff_close end well when there is nothing left to    *)
(* write, and only then.                                                   *)
LEMMA EndsFlush ==
  ASSUME Calm, TypeInv, [Next]_vars, call.op = "flush" \/ Closing, Idle', call'.ret = "ok"
  PROVE  FlushReturn \/ CloseReturn
  <1>1. call.op \in {"flush", "close"} /\ call' # call /\ ~ Idle /\ ~ Ready
    BY DEF Idle, Ready, Closing
  <1>2. ~ LoadFails
    BY DEF Calm, LoadFails
  <1>3. ~ (BeginFree \/ (\E s \in Stream : BeginFlush(s) \/ BeginGrow(s) \/ BeginClose(s)) \/ BeginSync)
    BY <1>1 DEF BeginFree, BeginFlush, BeginGrow, BeginClose, BeginSync, Begin
  <1>4. ~ (\/ \E s \in Stream, at \in Places, n \in ReadLens : BeginRead(s, at, n)
           \/ \E s \in Stream, at \in Places, n \in WriteLens, v \in Byte : BeginWrite(s, at, n, v))
    BY <1>1 DEF BeginRead, BeginWrite
  <1>5. ~ (FreeBuf \/ (\E b \in Buf : ReadChunk(b) \/ ReadEOF(b) \/ WriteChunk(b)) \/ ReadReturn
           \/ WriteReturn \/ SyncBadStream \/ SyncNext \/ GrowReturn \/ CloseShared)
    BY <1>1 DEF FreeBuf, ReadChunk, ReadEOF, WriteChunk, WriteChunkAs, ReadReturn, WriteReturn, SyncBadStream,
       SyncNext, GrowReturn, CloseShared
  <1>6. ASSUME NEW b \in Buf, WriteBackFails(b) PROVE FALSE
    BY <1>6, SMTT(45) DEF WriteBackFails, Return, Ended
  <1>7. (\E b \in Buf : Alloc(b)) \/ LoadNew \/ LoadBlk \/ (\E b \in Buf : WriteBack(b)) \/ FilterStep
        \/ (\E b \in Buf : CloseRelease(b)) \/ (\E p \in Path : \E w \in Modes[p] : OpenShared(p, w))
        \/ (\E p \in Path : \E w \in Modes[p] : OpenNew(p, w)) \/ UNCHANGED vars => call' = call
    BY DEF Alloc, LoadNew, LoadBlk, WriteBack, FilterStep, Filter, FilterAborted, CloseRelease, OpenShared,
       OpenNew, vars
  <1>8. Unfiled => FlushReturn
    BY <1>1, <1>3, <1>4, <1>5, <1>7 DEF Unfiled, FlushStep, SyncStep
  <1> QED
    BY <1>1, <1>2, <1>3, <1>5, <1>6, <1>7, <1>8, Steps

(* When ff_flush of a stream that may write, or the last ff_close of a file, *)
(* returns success, the file on disk has all the bytes of the file and they *)
(* are those its callers see, whatever writes failed before.                *)
THEOREM FlushDurable == ASSUME Calm PROVE Spec => FlushIsDurable
  <1>1. TypeInv /\ DataInv /\ FitInv /\ [Next]_vars
        => [ Idle' /\ call'.ret = "ok" =>
               /\ call.op = "flush" /\ ff_streams[call.s].f_mode => OnDisk(ff_streams[call.s].f_file)
               /\ Closing => OnDisk(call.f) ]_vars
    <2> SUFFICES ASSUME TypeInv, DataInv, FitInv, [Next]_vars, Idle', call'.ret = "ok"
                 PROVE  /\ call.op = "flush" /\ ff_streams[call.s].f_mode
                             => OnDisk(ff_streams[call.s].f_file)
                        /\ Closing => OnDisk(call.f)
      OBVIOUS
    <2>1. ASSUME call.op = "flush", ff_streams[call.s].f_mode PROVE OnDisk(ff_streams[call.s].f_file)
      <3>1. FlushReturn
        BY <2>1, EndsFlush DEF CloseReturn, Closing
      <3>2. call.s \in Stream /\ Open(call.s)
        BY <2>1 DEF FitInv, CallKnown
      <3>3. ff_streams[call.s].f_file \in File /\ ff_files[ff_streams[call.s].f_file].path # NoPath
        BY <3>2, OpenRefs
      <3>4. Dirty(ff_streams[call.s].f_file) = {}
        BY <2>1, <3>1 DEF FlushReturn, Flushed
      <3> QED
        BY <3>3, <3>4, AllOnDisk
    <2>2. ASSUME Closing PROVE OnDisk(call.f)
      <3>1. CloseReturn
        BY <2>2, EndsFlush DEF FlushReturn, Closing
      <3>2. call.f \in File /\ ff_files[call.f].path # NoPath
        BY <2>2 DEF Closing, TypeInv, Types, CallOK
      <3>3. Dirty(call.f) = {}
        BY <3>1 DEF CloseReturn, Dirty
      <3> QED
        BY <3>2, <3>3, AllOnDisk
    <2> QED
      BY <2>1, <2>2
  <1> QED
    BY <1>1, FitInvariance, PTL DEF Spec, FlushIsDurable

-----------------------------------------------------------------------------
(* What callers see: the arrays of bytes of FileStore. *)

(* The bytes of a file that is open, *)
OpenView ==
  \A f \in File, p \in Path : ff_files[f].path = p =>
    /\ AbsSize[p] = ff_files[f].fn_size
    /\ \A a \in Addr : AbsData[p][a] = IF a >= ff_files[f].fn_size THEN Hole ELSE Seen(f, a)

(* and of one that is not. *)
ClosedView ==
  \A p \in Path : (\A f \in File : ff_files[f].path # p) =>
    /\ AbsSize[p] = disk[p].len
    /\ \A a \in Addr : AbsData[p][a] = IF a >= disk[p].len THEN Hole ELSE disk[p].at[a]

(* The tables have the shape that FileStore gives them. *)
Shaped ==
  /\ AbsSize = [p \in Path |-> AbsSize[p]]
  /\ AbsData = [p \in Path |-> [a \in Addr |-> AbsData[p][a]]]

(* What is seen is in the one buffer that covers it, or on disk. *)
SeenWhere ==
  \A f \in File, a \in Addr :
    /\ \A b \in Buf : Covers(b, f, a) => Seen(f, a) = ff_buf[b].fb_buf[Rem(a)]
    /\ ~ Cached(f, a) => Seen(f, a) = disk[ff_files[f].path].at[a]

Views == OpenView /\ ClosedView /\ Shaped /\ SeenWhere

(* The view follows from there being one slot for a file and one copy of a  *)
(* block.                                                                  *)
LEMMA ViewsHold == OneSlot /\ OneCopy => Views
  <1> SUFFICES ASSUME OneSlot, OneCopy PROVE Views
    OBVIOUS
  <1>1. SeenWhere
    <2> SUFFICES ASSUME NEW f \in File, NEW a \in Addr
                 PROVE  /\ \A b \in Buf : Covers(b, f, a) => Seen(f, a) = ff_buf[b].fb_buf[Rem(a)]
                        /\ ~ Cached(f, a) => Seen(f, a) = disk[ff_files[f].path].at[a]
      BY DEF SeenWhere
    <2>1. ASSUME NEW b \in Buf, Covers(b, f, a) PROVE Seen(f, a) = ff_buf[b].fb_buf[Rem(a)]
      <3>1. PICK c \in Buf : c = (CHOOSE d \in Buf : Covers(d, f, a)) /\ Covers(c, f, a)
        BY <2>1
      <3>2. c = b
        BY <2>1, <3>1 DEF Covers, OneCopy, File, NoFile
      <3> QED
        BY <2>1, <3>1, <3>2 DEF Seen
    <2>2. ASSUME ~ Cached(f, a) PROVE Seen(f, a) = disk[ff_files[f].path].at[a]
      BY <2>2 DEF Seen, Cached
    <2> QED
      BY <2>1, <2>2
  <1>2. OpenView
    <2> SUFFICES ASSUME NEW f \in File, NEW p \in Path, ff_files[f].path = p
                 PROVE  /\ AbsSize[p] = ff_files[f].fn_size
                        /\ \A a \in Addr : AbsData[p][a] =
                             IF a >= ff_files[f].fn_size THEN Hole ELSE Seen(f, a)
      BY DEF OpenView
    <2>1. f \in SlotsOf(p) /\ p # NoPath
      BY PathAssumption DEF SlotsOf
    <2>2. PICK g \in SlotsOf(p) : g = CHOOSE h \in SlotsOf(p) : TRUE
      BY <2>1
    <2>3. g = f
      BY <2>1, <2>2 DEF SlotsOf, OneSlot
    <2>4. AbsSize[p] = ff_files[f].fn_size
      BY <2>1, <2>2, <2>3 DEF AbsSize
    <2>5. AbsData[p] = [a \in Addr |-> IF a >= AbsSize[p] THEN Hole ELSE Seen(g, a)]
      BY <2>1, <2>2 DEF AbsData
    <2>6. \A a \in Addr : AbsData[p][a] = IF a >= AbsSize[p] THEN Hole ELSE Seen(f, a)
      BY <2>3, <2>5
    <2> QED
      BY <2>4, <2>6
  <1>3. ClosedView
    <2> SUFFICES ASSUME NEW p \in Path, \A f \in File : ff_files[f].path # p
                 PROVE  /\ AbsSize[p] = disk[p].len
                        /\ \A a \in Addr : AbsData[p][a] =
                             IF a >= disk[p].len THEN Hole ELSE disk[p].at[a]
      BY DEF ClosedView
    <2>1. SlotsOf(p) = {}
      BY DEF SlotsOf
    <2>2. AbsSize[p] = disk[p].len
      BY <2>1 DEF AbsSize
    <2> QED
      BY <2>1, <2>2 DEF AbsData
  <1>4. Shaped
    BY DEF Shaped, AbsSize, AbsData
  <1> QED
    BY <1>1, <1>2, <1>3, <1>4 DEF Views

(* ... after a step as before it. *)
LEMMA ViewsNext == OneSlot' /\ OneCopy' => Views'
  BY ViewsHold, PTL

(* Bytes that a step keeps are seen as before. *)
LEMMA KeepsSeen ==
  ASSUME SeenWhere, SeenWhere', NEW f \in File, NEW a \in Addr, AgreesAt(f, a), a < Reach(f), Keeps(f, a)
  PROVE  Seen(f, a)' = Seen(f, a)
  <1>1. ASSUME NEW b \in Buf, Covers(b, f, a)' PROVE Seen(f, a)' = Seen(f, a)
    <2>1. Covers(b, f, a) /\ ff_buf'[b].fb_buf[Rem(a)] = ff_buf[b].fb_buf[Rem(a)]
      BY <1>1 DEF Keeps
    <2>2. Seen(f, a)' = ff_buf'[b].fb_buf[Rem(a)]
      BY <1>1 DEF SeenWhere, Rem
    <2> QED
      BY <2>1, <2>2 DEF SeenWhere
  <1>2. ASSUME ~ Cached(f, a)' PROVE Seen(f, a)' = Seen(f, a)
    <2> DEFINE p == ff_files[f].path
    <2>1. Seen(f, a)' = disk'[ff_files'[f].path].at[a] /\ ff_files'[f].path = p
      BY <1>2 DEF SeenWhere, Keeps
    <2>2. a < disk[p].len /\ Seen(f, a) = disk[p].at[a]
      <3>1. ASSUME NEW b \in Buf, Covers(b, f, a) PROVE a < disk[p].len /\ Seen(f, a) = disk[p].at[a]
        <4>1. ~ Tells(b, a)
          BY <1>2, <3>1 DEF Keeps, Cached
        <4> QED
          BY <3>1, <4>1 DEF AgreesAt, BufsAgree, SeenWhere
      <3>2. ASSUME ~ Cached(f, a) PROVE a < disk[p].len /\ Seen(f, a) = disk[p].at[a]
        BY <3>2 DEF AgreesAt, SeenWhere
      <3> QED
        BY <3>1, <3>2 DEF Cached
    <2>3. disk'[p].at[a] = disk[p].at[a]
      BY <2>2 DEF Keeps
    <2> QED
      BY <2>1, <2>2, <2>3
  <1> QED
    BY <1>1, <1>2 DEF Cached

(* Bytes that only go to the disk are seen as before, written or not. *)
LEMMA PutSeen ==
  ASSUME TypeInv, PosInv, DataInv, SeenWhere, SeenWhere', NEW b \in Buf, WriteBack(b) \/ WriteBackFails(b),
         NEW f \in File, ff_files[f].path # NoPath, Same(f), NEW a \in Addr
  PROVE  Seen(f, a)' = Seen(f, a)
  <1>1. PICK c \in Nat : c <= ff_buf[b].fb_count /\ Put(b, c) /\ NeedsWrite(b)
    BY Puts
  <1>2. \A e \in Buf : ff_buf'[e].fb_file = ff_buf[e].fb_file /\ ff_buf'[e].fb_bnum = ff_buf[e].fb_bnum
                       /\ ff_buf'[e].fb_buf = ff_buf[e].fb_buf
    <2>1. CASE WriteBack(b)
      BY <2>1, WrittenBack, SMTT(45)
    <2>2. CASE WriteBackFails(b)
      BY <2>2 DEF WriteBackFails
    <2> QED
      BY <2>1, <2>2
  <1>3. \A e \in Buf : Covers(e, f, a)' <=> Covers(e, f, a)
    BY <1>2 DEF Covers, Blk
  <1>4. ASSUME NEW e \in Buf, Covers(e, f, a) PROVE Seen(f, a)' = Seen(f, a)
    <2>1. Seen(f, a)' = ff_buf'[e].fb_buf[Rem(a)]
      BY <1>3, <1>4 DEF SeenWhere, Rem
    <2> QED
      BY <1>2, <1>4, <2>1 DEF SeenWhere
  <1>5. ASSUME ~ Cached(f, a) PROVE Seen(f, a)' = Seen(f, a)
    <2>1. ~ Covers(b, f, a) /\ ~ Cached(f, a)'
      BY <1>3, <1>5 DEF Cached
    <2>2. disk'[ff_files[f].path].at[a] = disk[ff_files[f].path].at[a]
      BY <1>1, <2>1, PutBytes DEF DataInv
    <2> QED
      BY <1>5, <2>1, <2>2 DEF SeenWhere, Same
  <1> QED
    BY <1>4, <1>5 DEF Cached

(* So are those of a block that is loaded: they were on disk. *)
LEMMA LoadSeen ==
  ASSUME TypeInv, Agree, Agree', SeenWhere, SeenWhere', [Next]_vars, LoadNew \/ LoadBlk,
         NEW f \in File, ff_files[f].path # NoPath, Same(f), NEW a \in Addr, a < Reach(f), Reach(f)' = Reach(f)
  PROVE  Seen(f, a)' = Seen(f, a)
  <1>1. CASE f # call.f \/ Blk(a) # CurBlk
    BY <1>1, LoadKeeps, KeepsSeen DEF Agree
  <1>2. CASE f = call.f /\ Blk(a) = CurBlk
    <2> DEFINE d == disk[ff_files[f].path]
    <2>1. disk' = disk /\ Misses
      BY Loads DEF LoadNew, LoadBlk
    <2>2. ~ Cached(f, a)
      BY <1>2, <2>1 DEF Cached, Misses, Have, Covers
    <2>3. Seen(f, a) = d.at[a]
      BY <2>2 DEF SeenWhere
    <2>4. PICK b \in Buf : Covers(b, f, a)' /\ ~ Tells(b, a)'
      <3>1. PICK b \in Buf : b = Victim
        BY Loads
      <3>2. PICK c, buf : Fill(b, c, FALSE, buf)
        BY <3>1, Loads
      <3>3. ff_buf'[b].fb_file = call.f /\ ff_buf'[b].fb_bnum = CurBlk /\ ~ ff_buf'[b].fb_wflg
        BY <3>2, Filled
      <3> QED
        BY <1>2, <3>3 DEF Covers, Tells, Blk
    <2>5. Seen(f, a)' = ff_buf'[b].fb_buf[Rem(a)]
      BY <2>4 DEF SeenWhere, Rem
    <2>6. BufsAgree(f, a)'
      <3>1. AgreesAt(f, a)'
        BY DEF Agree, Same
      <3> QED
        BY <3>1 DEF AgreesAt
    <2>7. ff_buf'[b].fb_buf[Rem(a)] = d.at[a]
      BY <2>1, <2>4, <2>6 DEF BufsAgree, Same, Rem
    <2> QED
      BY <2>3, <2>5, <2>7, SMTT(45)
  <1> QED
    BY <1>1, <1>2

(* Every step but a pass of ff_write and the last ff_close: what a file has, *)
(* and what a write has added to it so far, is seen as before.             *)
LEMMA SeenStep ==
  ASSUME Calm, TypeInv, PosInv, DataInv, Agree', SeenWhere, SeenWhere', [Next]_vars,
         NEW f \in File, ff_files[f].path # NoPath, Same(f), ~ (CloseReturn /\ f = call.f),
         ~ \E b \in Buf : WriteChunk(b),
         NEW a \in Addr, a < Reach(f)
  PROVE  Seen(f, a)' = Seen(f, a)
  <1>1. AgreesAt(f, a)
    BY DEF DataInv, Agree
  <1>2. CASE UNCHANGED <<disk, ff_buf>>
    BY <1>1, <1>2, SameKeeps, KeepsSeen
  <1>3. ASSUME disk' = disk, NEW S, ff_buf' = Released(S), \A b \in S \cap Buf : ~ NeedsWrite(b)
        PROVE  Seen(f, a)' = Seen(f, a)
    BY <1>1, <1>3, ReleasedKeeps, KeepsSeen
  <1>4. CASE GrowReturn
    BY <1>3, <1>4 DEF GrowReturn
  <1>5. ASSUME NEW b \in Buf, WriteBack(b) \/ WriteBackFails(b) PROVE Seen(f, a)' = Seen(f, a)
    BY <1>5, PutSeen
  <1>6. CASE LoadNew \/ LoadBlk
    <2>1. Reach(f)' = Reach(f)
      <3>1. call' = call /\ call.op \in {"read", "write"}
        BY <1>6, Loads DEF Misses, Fetching
      <3>2. SameSize(f)
        BY <3>1, CallSizes
      <3> QED
        BY <3>1, <3>2 DEF Reach, SameSize, CurOff
    <2> QED
      BY <1>6, <2>1, LoadSeen DEF DataInv
  <1>7. ASSUME NEW s \in Stream, NEW k \in WriteLens, NEW v \in Byte, Filter(s, k, v)
        PROVE  Seen(f, a)' = Seen(f, a)
    <2>1. a < ff_files[f].fn_size
      BY <1>7 DEF Filter, Ready, Idle, Reach
    <2>2. Keeps(f, a)
      BY <1>7, <2>1, FilterKeeps DEF DataInv
    <2> QED
      BY <1>1, <2>2, KeepsSeen
  <1> QED
    BY <1>2, <1>3, <1>4, <1>5, <1>6, <1>7, DataSteps DEF DataInv

(* A pass of ff_write is seen at once, and nothing else of it. *)
LEMMA WriteSeen ==
  ASSUME TypeInv, SeenWhere, SeenWhere', [Next]_vars, NEW b \in Buf, WriteChunk(b),
         NEW f \in File, Same(f), NEW a \in Addr
  PROVE  Seen(f, a)' = IF f = call.f /\ a \in CurOff .. CurOff + ChunkLen - 1 THEN call.v ELSE Seen(f, a)
  <1> DEFINE off == Rem(CurOff)
             to == off + ChunkLen
             count == Greater(to, ff_buf[b].fb_count)
             buf == [i \in Off |-> IF i \in off .. to - 1 THEN call.v ELSE ff_buf[b].fb_buf[i]]
  <1>0. ff_buf'[b].fb_buf = buf
    <2>1. Fill(b, count, TRUE, buf)
      BY DEF WriteChunk, WriteChunkAs
    <2> HIDE DEF count, buf
    <2> QED
      BY <2>1 DEF Fill, TypeInv, Types, TypeOK
  <1>8. off = Rem(CurOff) /\ to = off + ChunkLen
    OBVIOUS
  <1> HIDE DEF count, buf, off, to
  <1>1. /\ a \in Nat /\ CurOff \in Nat /\ ChunkLen \in 1 .. BSIZE - Rem(CurOff)
        /\ Rem(CurOff) \in 0 .. BSIZE - 1 /\ CurBlk \in Nat
    BY Writes, Cursor DEF Addr, TypeInv, Types, Off
  <1>2. /\ call.op = "write" /\ ff_buf'[b].fb_file = call.f /\ ff_buf'[b].fb_bnum = CurBlk
        /\ ff_buf[b].fb_file = call.f /\ ff_buf[b].fb_bnum = CurBlk
        /\ \A d \in Buf : d # b => ff_buf'[d] = ff_buf[d]
    BY Writes DEF Have
  <1>3. CASE f = call.f /\ Blk(a) = CurBlk
    <2>1. Covers(b, f, a) /\ Covers(b, f, a)'
      BY <1>2, <1>3 DEF Covers, Blk
    <2>2. Seen(f, a) = ff_buf[b].fb_buf[Rem(a)] /\ Seen(f, a)' = ff_buf'[b].fb_buf[Rem(a)]
      BY <2>1 DEF SeenWhere, Rem
    <2>3. a = CurBlk * BSIZE + Rem(a) /\ CurOff = CurBlk * BSIZE + Rem(CurOff) /\ Rem(a) \in 0 .. BSIZE - 1
          /\ CurBlk * BSIZE \in Nat
      BY <1>1, <1>3, InBlock DEF CurBlk
    <2>4. Rem(a) \in off .. to - 1 <=> a \in CurOff .. CurOff + ChunkLen - 1
      BY <1>1, <1>8, <2>3, BSizeAssumption
    <2>5. buf[Rem(a)] = IF Rem(a) \in off .. to - 1 THEN call.v ELSE ff_buf[b].fb_buf[Rem(a)]
      <3>1. Rem(a) \in Off
        BY <2>3 DEF Off
      <3> QED
        BY <3>1 DEF buf
    <2> QED
      BY <1>0, <1>3, <2>2, <2>4, <2>5
  <1>4. CASE ~ (f = call.f /\ Blk(a) = CurBlk)
    <2>1. ~ (f = call.f /\ a \in CurOff .. CurOff + ChunkLen - 1)
      <3>1. ASSUME a \in CurOff .. CurOff + ChunkLen - 1 PROVE Blk(a) = CurBlk
        <4>1. CurOff = CurBlk * BSIZE + Rem(CurOff) /\ CurBlk * BSIZE \in Nat
          BY <1>1, InBlock DEF CurBlk
        <4>2. CurBlk * BSIZE <= a /\ a < CurBlk * BSIZE + BSIZE
          BY <1>1, <3>1, <4>1, BSizeAssumption
        <4> QED
          BY <1>1, <4>2, SameBlk
      <3> QED
        BY <1>4, <3>1
    <2>2. \A d \in Buf : (Covers(d, f, a)' <=> Covers(d, f, a)) /\ (Covers(d, f, a) => d # b)
      BY <1>2, <1>4 DEF Covers, Blk
    <2>3. Seen(f, a)' = Seen(f, a)
      <3>1. ASSUME NEW d \in Buf, Covers(d, f, a) PROVE Seen(f, a)' = Seen(f, a)
        <4>1. Seen(f, a)' = ff_buf'[d].fb_buf[Rem(a)]
          BY <2>2, <3>1 DEF SeenWhere, Rem
        <4> QED
          BY <1>2, <2>2, <3>1, <4>1 DEF SeenWhere
      <3>2. ASSUME ~ Cached(f, a) PROVE Seen(f, a)' = Seen(f, a)
        <4>1. ~ Cached(f, a)' /\ disk' = disk
          BY <2>2, <3>2 DEF Cached, WriteChunk, WriteChunkAs
        <4> QED
          BY <3>2, <4>1 DEF SeenWhere, Same
      <3> QED
        BY <3>1, <3>2 DEF Cached
    <2> QED
      BY <2>1, <2>3
  <1> QED
    BY <1>3, <1>4

(* What a write in progress has done so far is seen. *)
Wrote ==
  call.op = "write" => \A a \in Addr : a \in call.at .. CurOff - 1 => Seen(call.f, a) = call.v

(* A buffer taken over, written out or loaded meanwhile does not undo it. *)
LEMMA WroteStep ==
  ASSUME Calm, TypeInv, PosInv, DataInv, Agree', SeenWhere, SeenWhere', Wrote, [Next]_vars
  PROVE  Wrote'
  <1> SUFFICES ASSUME call'.op = "write", NEW a \in Addr, a \in call'.at .. CurOff' - 1
               PROVE  Seen(call.f, a)' = call'.v
    BY DEF Wrote, Addr
  <1>1. \A g \in File : Same(g) /\ SameSize(g)
    BY CallSizes
  <1>2. a \in Nat /\ call.at \in Nat /\ call.done \in Nat /\ CurOff \in Nat /\ CurOff = call.at + call.done
    BY Cursor DEF Addr, TypeInv, Types, TypeOK, Calls, CurOff
  <1>3. ASSUME NEW s \in Stream, NEW at \in Places, NEW n \in WriteLens, NEW v, BeginWrite(s, at, n, v)
        PROVE  FALSE
    <2>1. call'.at = at /\ call'.done = 0
      BY <1>3 DEF BeginWrite, Request
    <2>2. at \in Nat
      BY BlocksFit DEF Places, Limit
    <2> QED
      BY <2>1, <2>2 DEF CurOff
  <1>4. ASSUME NEW b \in Buf, WriteChunk(b) PROVE Seen(call.f, a)' = call'.v
    <2>1. /\ call.op = "write" /\ call.f \in File /\ call'.f = call.f /\ call'.v = call.v
          /\ call'.at = call.at /\ call'.done = call.done + ChunkLen
      BY <1>4, Writes DEF WriteChunk, WriteChunkAs, TypeInv, Types, TypeOK, Calls
    <2>2. ChunkLen \in Nat
      BY <1>4, Writes, Cursor, BSizeAssumption DEF TypeInv, Types, Off
    <2>3. a \in call.at .. CurOff - 1 \/ a \in CurOff .. CurOff + ChunkLen - 1
      BY <1>2, <2>1, <2>2 DEF CurOff
    <2>4. PICK f \in File : f = call.f
      BY <2>1
    <2>5. Seen(f, a)' = IF f = call.f /\ a \in CurOff .. CurOff + ChunkLen - 1 THEN call.v ELSE Seen(f, a)
      BY <1>1, <1>4, WriteSeen
    <2>6. a \in call.at .. CurOff - 1 => Seen(f, a) = call.v
      BY <2>1, <2>4 DEF Wrote
    <2>7. Seen(f, a)' = call.v
      BY <2>3, <2>4, <2>5, <2>6
    <2> QED
      BY <2>1, <2>4, <2>7
  <1>5. ASSUME call' = call, ~ \E b \in Buf : WriteChunk(b) PROVE Seen(call.f, a)' = call'.v
    <2>1. PICK f \in File : f = call.f /\ ff_files[f].path # NoPath
      BY <1>5 DEF TypeInv, Types, CallOK
    <2>2. a < Reach(f)
      <3>1. a < CurOff /\ ff_files[f].fn_size \in Nat
        BY <1>2, <1>5, SMTT(45) DEF CurOff, TypeInv, Types, TypeOK, Files
      <3> QED
        BY <1>2, <1>5, <2>1, <3>1 DEF Reach, Greater
    <2>3. Seen(f, a)' = Seen(f, a)
      BY <1>1, <1>5, <2>1, <2>2, SeenStep DEF CloseReturn, Closing
    <2>4. Seen(f, a) = call.v
      BY <1>5, <2>1 DEF Wrote, CurOff
    <2> QED
      BY <1>5, <2>1, <2>3, <2>4
  <1> QED
    BY <1>3, <1>4, <1>5, WriteCalls

-----------------------------------------------------------------------------
(* A step changes what is seen of the file of its call, if of any. *)

LEMMA OwnSizes ==
  ASSUME TypeInv, [Next]_vars, NEW f \in File, ff_files[f].path # NoPath
  PROVE  SameSize(f) \/ (f = call.f /\ (WriteReturn \/ GrowReturn \/ CloseReturn))
  <1>1. ASSUME WriteReturn \/ GrowReturn, f # call.f PROVE SameSize(f)
    <2>1. PICK g \in File : g = call.f
      BY <1>1, BufFacts DEF WriteReturn, GrowReturn
    <2>2. PICK size : ff_files' = [ff_files EXCEPT ![g].fn_size = size]
      BY <1>1, <2>1 DEF WriteReturn, GrowReturn
    <2>3. \A h \in File : Same(h) /\ ff_files'[h].fn_size = IF h = g THEN size ELSE ff_files[h].fn_size
      BY <2>2, SizedSame, ZenonT(60)
    <2> QED
      BY <1>1, <2>1, <2>3 DEF SameSize
  <1> QED
    BY <1>1, Sizes

(* The files that are not open stay as they are, *)
LEMMA DiskClosed ==
  ASSUME Calm, TypeInv, PosInv, DataInv, [Next]_vars, NEW p \in Path, \A f \in File : ff_files[f].path # p
  PROVE  disk'[p] = disk[p]
  <1>1. disk \in [Path -> Disks]
    BY DEF TypeInv, Types, TypeOK
  <1>2. ASSUME NEW b \in Buf, WriteBack(b) \/ WriteBackFails(b) PROVE disk'[p] = disk[p]
    <2>1. PICK c \in Nat : Put(b, c) /\ NeedsWrite(b)
      BY <1>2, Puts
    <2>2. PICK g \in File : g = ff_buf[b].fb_file
      BY <2>1, BufFacts DEF NeedsWrite
    <2>3. PICK d : disk' = [disk EXCEPT ![ff_files[g].path] = d]
      BY <2>1, <2>2 DEF Put
    <2> QED
      BY <1>1, <2>3
  <1>3. ASSUME NEW s \in Stream, NEW k \in WriteLens, NEW v \in Byte, Filter(s, k, v)
        PROVE  disk'[p] = disk[p]
    <2>1. PICK g \in File : g = ff_streams[s].f_file
      BY <1>3, OpenRefs DEF Filter
    <2>2. PICK d : disk' = [disk EXCEPT ![ff_files[g].path] = d]
      BY <1>3, <2>1 DEF Filter
    <2> QED
      BY <1>1, <2>2
  <1>4. LoadNew \/ LoadBlk \/ GrowReturn \/ (\E b \in Buf : WriteChunk(b)) => disk' = disk
    BY DEF LoadNew, LoadBlk, GrowReturn, WriteChunk, WriteChunkAs
  <1> QED
    BY <1>2, <1>3, <1>4, DataSteps DEF DataInv

(* The view of a file is its size and its bytes. *)
LEMMA SameView ==
  ASSUME Shaped, Shaped', NEW p \in Path, \A a \in Addr : AbsData'[p][a] = AbsData[p][a]
  PROVE  AbsData'[p] = AbsData[p]
  <1>1. AbsData[p] = [a \in Addr |-> AbsData[p][a]] /\ AbsData'[p] = [a \in Addr |-> AbsData'[p][a]]
    BY DEF Shaped, Addr
  <1> QED
    BY <1>1

(* also when one of them is opened: *)
LEMMA ClosedKept ==
  ASSUME Calm, TypeInv, PosInv, DataInv, Views, Views', [Next]_vars,
         NEW p \in Path, \A f \in File : ff_files[f].path # p
  PROVE  AbsSize'[p] = AbsSize[p] /\ AbsData'[p] = AbsData[p]
  <1>1. disk'[p] = disk[p]
    BY DiskClosed
  <1>2. /\ AbsSize[p] = disk[p].len
        /\ \A a \in Addr : AbsData[p][a] = IF a >= disk[p].len THEN Hole ELSE disk[p].at[a]
    BY DEF Views, ClosedView
  <1>3. ASSUME NEW f \in File, ff_files'[f].path = p
        PROVE  AbsSize'[p] = AbsSize[p] /\ AbsData'[p] = AbsData[p]
    <2>1. PICK q \in Path, w \in BOOLEAN, g \in File, s \in Stream : NewSlot(q, w, g, s)
      <3>1. PICK q \in Path : \E w \in Modes[q] : OpenNew(q, w)
        <4>1. ~ Same(f)
          BY <1>3 DEF Same
        <4>2. CASE CloseReturn
          BY <1>3, <4>1, <4>2, CloseReturnFacts, PathAssumption DEF Same
        <4> QED
          BY <4>1, <4>2, Steps, PlainSame DEF Calm, LoadFails
      <3>2. PICK w \in BOOLEAN : OpenNew(q, w)
        BY <3>1, PathAssumption
      <3> QED
        BY <3>2, OpenNewFacts
    <2>2. f = g /\ p = q
      BY <1>3, <2>1 DEF NewSlot
    <2>3. ff_files'[f].fn_size = disk[p].len /\ disk' = disk /\ ff_buf' = ff_buf
      BY <2>1, <2>2 DEF NewSlot
    <2>4. \A a \in Addr : ~ Cached(f, a)'
      BY <2>1, <2>2, <2>3 DEF NewSlot, DataInv, Backed, Cached, Covers, File, NoFile
    <2>5. AbsSize'[p] = disk[p].len
          /\ \A a \in Addr : AbsData'[p][a] = IF a >= disk[p].len THEN Hole ELSE Seen(f, a)'
      BY <1>3, <2>3 DEF Views, OpenView, Addr
    <2>6. \A a \in Addr : Seen(f, a)' = disk[p].at[a]
      BY <1>3, <2>3, <2>4 DEF Views, SeenWhere, Addr
    <2>7. \A a \in Addr : AbsData'[p][a] = AbsData[p][a]
      BY <1>2, <2>5, <2>6
    <2> QED
      BY <1>2, <2>5, <2>7, SameView DEF Views
  <1>4. ASSUME \A f \in File : ff_files'[f].path # p
        PROVE  AbsSize'[p] = AbsSize[p] /\ AbsData'[p] = AbsData[p]
    <2>1. /\ AbsSize'[p] = disk'[p].len
          /\ \A a \in Addr : AbsData'[p][a] = IF a >= disk'[p].len THEN Hole ELSE disk'[p].at[a]
      BY <1>4 DEF Views, ClosedView, File, Addr
    <2>2. \A a \in Addr : AbsData'[p][a] = AbsData[p][a]
      BY <1>1, <1>2, <2>1
    <2> QED
      BY <1>1, <1>2, <2>1, <2>2, SameView DEF Views
  <1> QED
    BY <1>3, <1>4

(* The step closes the file of its call, or changes what is seen of it. *)
Touches(f) == f = call.f /\ (WriteReturn \/ GrowReturn \/ CloseReturn \/ \E b \in Buf : WriteChunk(b))

LEMMA StaysOpen ==
  ASSUME Calm, TypeInv, DataInv, [Next]_vars, NEW f \in File, ff_files[f].path # NoPath,
         ~ (CloseReturn /\ f = call.f)
  PROVE  Same(f)
  <1>1. CASE CloseReturn
    BY <1>1, CloseReturnFacts DEF Same
  <1>2. ASSUME NEW p \in Path, NEW w \in Modes[p], OpenNew(p, w) PROVE Same(f)
    <2>1. w \in BOOLEAN
      BY PathAssumption
    <2>2. PICK g \in File, s \in Stream : NewSlot(p, w, g, s)
      BY <1>2, <2>1, OpenNewFacts
    <2> QED
      BY <2>2 DEF NewSlot, Same
  <1> QED
    BY <1>1, <1>2, Steps, PlainSame DEF Calm, LoadFails

(* and the other files that are open are seen as before. *)
LEMMA OpenKept ==
  ASSUME Calm, TypeInv, PosInv, DataInv, Agree', Views, Views', [Next]_vars,
         NEW f \in File, NEW p \in Path, ff_files[f].path = p, ~ Touches(f)
  PROVE  AbsSize'[p] = AbsSize[p] /\ AbsData'[p] = AbsData[p]
  <1>1. ff_files[f].path # NoPath /\ ~ (CloseReturn /\ f = call.f)
    BY PathAssumption DEF Touches
  <1>2. Same(f) /\ SameSize(f)
    BY <1>1, StaysOpen, OwnSizes DEF Touches
  <1>3. /\ AbsSize[p] = ff_files[f].fn_size
        /\ \A a \in Addr : AbsData[p][a] = IF a >= ff_files[f].fn_size THEN Hole ELSE Seen(f, a)
    BY DEF Views, OpenView
  <1>4. /\ AbsSize'[p] = ff_files[f].fn_size
        /\ \A a \in Addr : AbsData'[p][a] = IF a >= ff_files[f].fn_size THEN Hole ELSE Seen(f, a)'
    BY <1>2 DEF Views, OpenView, Same, SameSize, Addr
  <1>5. ASSUME NEW a \in Addr, ~ (a >= ff_files[f].fn_size) PROVE Seen(f, a)' = Seen(f, a)
    <2>1. ASSUME NEW b \in Buf, WriteChunk(b) PROVE Seen(f, a)' = Seen(f, a)
      <3>1. f # call.f
        BY <2>1 DEF Touches
      <3> QED
        BY <1>2, <2>1, <3>1, WriteSeen DEF Views
    <2>2. ASSUME ~ \E b \in Buf : WriteChunk(b) PROVE Seen(f, a)' = Seen(f, a)
      <3>1. a < Reach(f)
        <4>1. a \in Nat /\ CurOff \in Nat /\ ff_files[f].fn_size \in Nat
          BY Cursor DEF Addr, TypeInv, Types, TypeOK, Files
        <4> QED
          BY <1>5, <4>1 DEF Reach, Greater
      <3> QED
        BY <1>1, <1>2, <2>2, <3>1, SeenStep DEF Views
    <2> QED
      BY <2>1, <2>2
  <1>6. \A a \in Addr : AbsData'[p][a] = AbsData[p][a]
    BY <1>3, <1>4, <1>5
  <1> QED
    BY <1>3, <1>4, <1>6, SameView DEF Views

-----------------------------------------------------------------------------
(* FF implements FileStore, step by step. *)

StoreInv == TypeInv /\ PosInv /\ OneCopy /\ DataInv /\ FitInv /\ Wrote

(* What is known before and after a step. *)
Sound == /\ Calm /\ TypeInv /\ PosInv /\ DataInv /\ FitInv /\ Wrote /\ Views
         /\ TypeInv' /\ DataInv' /\ Views' /\ [Next]_vars

LEMMA PathKept ==
  ASSUME Sound, NEW p \in Path, \A f \in File : ff_files[f].path = p => ~ Touches(f)
  PROVE  AbsSize'[p] = AbsSize[p] /\ AbsData'[p] = AbsData[p]
  <1> USE DEF Sound
  <1>1. ASSUME NEW f \in File, ff_files[f].path = p PROVE AbsSize'[p] = AbsSize[p] /\ AbsData'[p] = AbsData[p]
    <2>1. ~ Touches(f) /\ Agree'
      BY <1>1 DEF DataInv
    <2> QED
      BY <1>1, <2>1, OpenKept
  <1>2. ASSUME \A f \in File : ff_files[f].path # p PROVE AbsSize'[p] = AbsSize[p] /\ AbsData'[p] = AbsData[p]
    BY <1>2, ClosedKept
  <1> QED
    BY <1>1, <1>2

(* Most steps change nothing that is seen. *)
LEMMA AllKept ==
  ASSUME Sound, ~ (WriteReturn \/ GrowReturn \/ CloseReturn \/ \E b \in Buf : WriteChunk(b))
  PROVE  AbsSize' = AbsSize /\ AbsData' = AbsData
  <1>1. \A p \in Path : AbsSize'[p] = AbsSize[p] /\ AbsData'[p] = AbsData[p]
    BY PathKept DEF Touches
  <1>2. /\ AbsSize = [p \in Path |-> AbsSize[p]] /\ AbsSize' = [p \in Path |-> AbsSize'[p]]
        /\ AbsData = [p \in Path |-> [a \in Addr |-> AbsData[p][a]]]
        /\ AbsData' = [p \in Path |-> [a \in Addr |-> AbsData'[p][a]]]
    BY DEF Sound, Views, Shaped, Addr
  <1> QED
    BY <1>1, <1>2

(* A call that goes on goes on with its file. *)
LEMMA CallFile ==
  ASSUME Sound, call.f \in File, ~ CloseReturn
  PROVE  ff_files[call.f].path \in Path /\ ff_files'[call.f].path = ff_files[call.f].path
  <1>1. ff_files[call.f].path \in Path
    <2>1. call.op \in {"read", "write", "close", "grow"}
      BY DEF Sound, FitInv, CallKnown, File, NoFile
    <2> QED
      BY <2>1 DEF Sound, TypeInv, Types, TypeOK, CallOK, Files
  <1> QED
    BY <1>1, StaysOpen, PathAssumption DEF Sound, Same

(* Between the passes of its loops nothing shows. *)
LEMMA Stutters ==
  ASSUME Sound, call' = call
  PROVE  UNCHANGED FS!vars
  <1>1. ~ (WriteReturn \/ GrowReturn \/ CloseReturn \/ \E b \in Buf : WriteChunk(b))
    <2>1. ~ (WriteReturn \/ GrowReturn \/ CloseReturn)
      BY DEF WriteReturn, GrowReturn, CloseReturn, Closing, Return, Ended
    <2>2. ASSUME NEW b \in Buf, WriteChunk(b) PROVE FALSE
      <3>1. TypeOK /\ TypeInv
        BY DEF Sound, TypeInv, Types
      <3>2. call.done \in Nat /\ call'.done = call.done + ChunkLen
        BY <2>2, <3>1 DEF WriteChunk, WriteChunkAs, TypeOK, Calls
      <3>3. ChunkLen \in 1 .. BSIZE - Rem(CurOff) /\ Rem(CurOff) \in Off
        BY <2>2, <3>1, Writes, Cursor
      <3> QED
        BY <3>2, <3>3, BSizeAssumption DEF Off
    <2> QED
      BY <2>1, <2>2
  <1>2. AbsSize' = AbsSize /\ AbsData' = AbsData
    BY <1>1, AllKept
  <1>3. call.f \in File \cup {NoFile}
    BY DEF Sound, TypeInv, Types, TypeOK, Calls
  <1>4. AbsCall' = AbsCall
    BY <1>1, <1>3, CallFile DEF AbsCall
  <1> QED
    BY <1>2, <1>4 DEF FS!vars

(* A call. *)
LEMMA BeginSim ==
  ASSUME Sound, Asks
  PROVE  FS!Begin
  <1>1. PICK op, s, f, at, n, v : Asked(op, s, f, at, n, v)
    BY DEF Asks
  <1>2. call.op = "none" /\ call'.op = op /\ op # "none"
    BY <1>1 DEF Asked, Idle, Request
  <1>3. ~ (WriteReturn \/ GrowReturn \/ CloseReturn \/ \E b \in Buf : WriteChunk(b))
    BY <1>2 DEF WriteReturn, GrowReturn, CloseReturn, Closing, WriteChunk, WriteChunkAs
  <1>4. AbsSize' = AbsSize /\ AbsData' = AbsData
    BY <1>3, AllKept
  <1>5. AbsCall.op = "none"
    BY <1>2 DEF AbsCall
  <1>6. AbsCall' \in FS!Requests
    <2>1. PICK p : p = IF f = NoFile THEN NoPath ELSE ff_files'[f].path
      OBVIOUS
    <2>2. p \in Path \cup {NoPath}
      BY <1>1, <2>1 DEF Asked, Sound, TypeInv, Types, TypeOK, Files
    <2>3. AbsCall' = [op |-> op, p |-> p, at |-> at, n |-> n, v |-> v, done |-> 0, got |-> << >>, ret |-> "ok"]
      BY <1>1, <2>1 DEF AbsCall, Asked, Request
    <2>4. op \in {"read", "write", "flush", "sync", "close", "grow", "free"} /\ at \in Nat /\ n \in Nat
          /\ v \in Byte \cup {Hole}
      BY <1>1 DEF Asked, Ops, Bytes
    <2> QED
      BY <2>2, <2>3, <2>4 DEF FS!Requests
  <1> QED
    BY <1>4, <1>5, <1>6 DEF FS!Begin

(* The end of a call that changes nothing. *)
LEMMA ReturnSim ==
  ASSUME Sound, Ends, ~ (WriteReturn \/ GrowReturn \/ CloseReturn)
  PROVE  FS!Return
  <1>1. call.op # "none" /\ call'.op = "none"
    BY DEF Ends, Return, Ended
  <1>2. ASSUME NEW b \in Buf, WriteChunk(b) PROVE FALSE
    BY <1>1, <1>2 DEF WriteChunk, WriteChunkAs, Sound, TypeInv, Types, TypeOK, Calls
  <1>3. AbsSize' = AbsSize /\ AbsData' = AbsData
    BY <1>2, AllKept
  <1> QED
    BY <1>1, <1>3 DEF FS!Return, AbsCall

(* ff_sync goes on to the next stream, or is done. *)
LEMMA SyncSim ==
  ASSUME Sound, SyncNext
  PROVE  FS!Return \/ UNCHANGED FS!vars
  <1>1. call.op = "sync" /\ ff_files' = ff_files /\ ff_buf' = ff_buf
    BY DEF SyncNext, Quiet
  <1>2. CASE call.s < NStream
    <2>1. call' = [call EXCEPT !.s = @ + 1]
      BY <1>2 DEF SyncNext
    <2>2. /\ call'.op = call.op /\ call'.f = call.f /\ call'.at = call.at /\ call'.n = call.n /\ call'.v = call.v
          /\ call'.done = call.done /\ call'.got = call.got /\ call'.ret = call.ret
      BY <2>1 DEF Sound, TypeInv, Types, TypeOK, Calls
    <2>3. AbsCall' = AbsCall
      BY <1>1, <2>2 DEF AbsCall
    <2>4. ~ (WriteReturn \/ GrowReturn \/ CloseReturn \/ \E b \in Buf : WriteChunk(b))
      BY <1>1 DEF WriteReturn, GrowReturn, CloseReturn, Closing, WriteChunk, WriteChunkAs
    <2> QED
      BY <2>3, <2>4, AllKept DEF FS!vars
  <1>3. CASE ~ (call.s < NStream)
    <2>1. Ends
      BY <1>1, <1>3, SMTT(45) DEF SyncNext, Ends
    <2> QED
      BY <1>1, <2>1, ReturnSim DEF WriteReturn, GrowReturn, CloseReturn, Closing
  <1> QED
    BY <1>2, <1>3

(* A pass of ff_read delivers the bytes of the file. *)
LEMMA ReadSim ==
  ASSUME Sound, NEW b \in Buf, ReadChunk(b)
  PROVE  FS!ReadSome
  <1> DEFINE left == ff_files[call.f].fn_size - CurOff
             rn == Lesser(ChunkLen, left)
  <1>0. /\ TypeInv /\ TypeOK /\ SizesFit /\ SeenWhere /\ OpenView
    BY DEF Sound, TypeInv, Types, FitInv, Views
  <1>1. /\ call.op = "read" /\ Fetching /\ b \in Have(call.f, CurBlk) /\ left > 0
        /\ call' = [call EXCEPT
             !.done = @ + rn,
             !.got = @ \o [i \in 1 .. rn |-> ff_buf[b].fb_buf[Rem(CurOff) + i - 1]]]
        /\ UNCHANGED <<disk, ff_files, ff_streams, ff_buf, filter>>
    BY DEF ReadChunk
  <1>2. ~ (WriteReturn \/ GrowReturn \/ CloseReturn \/ \E c \in Buf : WriteChunk(c))
    BY <1>1 DEF WriteReturn, GrowReturn, CloseReturn, Closing, WriteChunk, WriteChunkAs
  <1>3. AbsSize' = AbsSize /\ AbsData' = AbsData
    BY <1>2, AllKept
  <1>4. call.f \in File
    BY <1>0, <1>1, BufFacts
  <1>5. PICK p \in Path : p = ff_files[call.f].path /\ p = ff_files'[call.f].path
    BY <1>2, <1>4, CallFile
  <1>6. /\ CurOff \in Nat /\ CurBlk \in Nat /\ Rem(CurOff) \in 0 .. BSIZE - 1
        /\ ChunkLen \in 1 .. BSIZE - Rem(CurOff)
        /\ call.at \in Nat /\ call.n \in Nat /\ call.done \in Nat /\ CurOff = call.at + call.done
        /\ ChunkLen <= call.n - call.done
        /\ ff_files[call.f].fn_size \in Nat /\ ff_files[call.f].fn_size <= Limit /\ Limit \in Nat
    <2>1. /\ CurOff \in Nat /\ CurBlk \in Nat /\ Rem(CurOff) \in 0 .. BSIZE - 1
          /\ ChunkLen \in 1 .. BSIZE - Rem(CurOff)
      BY <1>0, <1>1, Cursor DEF Off
    <2>2. /\ call.at \in Nat /\ call.n \in Nat /\ call.done \in Nat /\ CurOff = call.at + call.done
      BY <1>0 DEF TypeOK, Calls, CurOff
    <2>3. ChunkLen <= call.n - call.done
      BY <2>1, <2>2, BSizeAssumption DEF ChunkLen, Lesser
    <2>4. ff_files[call.f].fn_size \in Nat /\ ff_files[call.f].fn_size <= Limit /\ Limit \in Nat
      BY <1>0, <1>4, <1>5, PathAssumption, BlocksFit DEF TypeOK, Files, SizesFit
    <2> QED
      BY <2>1, <2>2, <2>3, <2>4
  <1>7. PICK k \in 1 .. call.n - call.done : k = rn /\ CurOff + k <= ff_files[call.f].fn_size /\ k <= ChunkLen
    <2>1. rn \in 1 .. call.n - call.done /\ CurOff + rn <= ff_files[call.f].fn_size /\ rn <= ChunkLen
      BY <1>1, <1>6, BSizeAssumption DEF Lesser
    <2> QED
      BY <2>1
  <1>8. AbsSize[p] = ff_files[call.f].fn_size
    BY <1>0, <1>4, <1>5 DEF OpenView
  <1>9. ASSUME NEW i \in 1 .. k
        PROVE  AbsData[p][call.at + call.done + i - 1] = ff_buf[b].fb_buf[Rem(CurOff) + i - 1]
    <2>1. PICK a \in Nat : a = CurOff + i - 1
      BY <1>6
    <2>2. a < ff_files[call.f].fn_size /\ a \in Addr
      BY <1>6, <1>7, <2>1 DEF Addr, Limit
    <2>3. CurOff = CurBlk * BSIZE + Rem(CurOff) /\ CurBlk * BSIZE \in Nat
      BY <1>6, InBlock DEF CurBlk
    <2>4. CurBlk * BSIZE <= a /\ a < CurBlk * BSIZE + BSIZE /\ a - CurBlk * BSIZE = Rem(CurOff) + i - 1
      BY <1>6, <1>7, <2>1, <2>3, BSizeAssumption
    <2>5. Blk(a) = CurBlk /\ Rem(a) = Rem(CurOff) + i - 1
      BY <1>6, <2>4, SameBlk
    <2>6. Covers(b, call.f, a)
      BY <1>1, <2>5 DEF Covers, Have
    <2>7. Seen(call.f, a) = ff_buf[b].fb_buf[Rem(a)]
      BY <1>0, <1>4, <2>2, <2>6 DEF SeenWhere
    <2>8. AbsData[p][a] = Seen(call.f, a)
      <3>1. AbsData[p][a] = IF a >= ff_files[call.f].fn_size THEN Hole ELSE Seen(call.f, a)
        BY <1>0, <1>4, <1>5, <2>2 DEF OpenView
      <3>2. ~ (a >= ff_files[call.f].fn_size)
        BY <1>6, <2>2
      <3> QED
        BY <3>1, <3>2
    <2>9. call.at + call.done + i - 1 = a
      BY <1>6, <2>1
    <2> QED
      BY <2>5, <2>7, <2>8, <2>9
  <1>10. /\ call'.op = call.op /\ call'.f = call.f /\ call'.at = call.at /\ call'.n = call.n /\ call'.v = call.v
         /\ call'.ret = call.ret /\ call'.done = call.done + k
         /\ call'.got = call.got \o [i \in 1 .. k |-> ff_buf[b].fb_buf[Rem(CurOff) + i - 1]]
    <2> HIDE DEF left, rn
    <2> QED
      BY <1>0, <1>1, <1>7 DEF TypeOK, Calls
  <1>11. PICK g : /\ g = [i \in 1 .. k |-> AbsData[p][call.at + call.done + i - 1]]
                  /\ g = [i \in 1 .. k |-> ff_buf[b].fb_buf[Rem(CurOff) + i - 1]]
    BY <1>9
  <1>12. AbsCall = [op |-> call.op, p |-> p, at |-> call.at, n |-> call.n, v |-> call.v,
                    done |-> call.done, got |-> call.got, ret |-> call.ret]
    BY <1>4, <1>5 DEF AbsCall, File, NoFile
  <1>13. AbsCall' = [op |-> call.op, p |-> p, at |-> call.at, n |-> call.n, v |-> call.v,
                     done |-> call.done + k, got |-> call.got \o g, ret |-> call.ret]
    <2>1. call'.got = call.got \o g
      BY <1>10, <1>11
    <2>2. /\ call'.op = call.op /\ call'.at = call.at /\ call'.n = call.n /\ call'.v = call.v
          /\ call'.ret = call.ret /\ call'.done = call.done + k
      BY <1>10
    <2>3. (IF call'.f = NoFile THEN NoPath ELSE ff_files'[call'.f].path) = p
      BY <1>4, <1>5, <1>10 DEF File, NoFile
    <2> QED
      BY <2>1, <2>2, <2>3, Zenon DEF AbsCall
  <1>14. AbsCall' = [AbsCall EXCEPT !.done = @ + k, !.got = @ \o g]
    <2>1. PICK r, op, at, n, v, done, got, ret :
            /\ r = AbsCall /\ op = call.op /\ at = call.at /\ n = call.n /\ v = call.v /\ done = call.done
            /\ got = call.got /\ ret = call.ret
      OBVIOUS
    <2>2. PICK d, h, q : d = done + k /\ h = got \o g /\ q = [r EXCEPT !.done = d]
      OBVIOUS
    <2>3. r = [op |-> op, p |-> p, at |-> at, n |-> n, v |-> v, done |-> done, got |-> got, ret |-> ret]
      BY <1>12, <2>1
    <2>4. q = [op |-> op, p |-> p, at |-> at, n |-> n, v |-> v, done |-> d, got |-> got, ret |-> ret]
      BY <2>2, <2>3
    <2>5. [q EXCEPT !.got = h]
          = [op |-> op, p |-> p, at |-> at, n |-> n, v |-> v, done |-> d, got |-> h, ret |-> ret]
      BY <2>4
    <2>6. [r EXCEPT !.done = d, !.got = h] = [[r EXCEPT !.done = d] EXCEPT !.got = h]
      OBVIOUS
    <2>7. [r EXCEPT !.done = @ + k, !.got = @ \o g] = [r EXCEPT !.done = d, !.got = h]
      <3>1. r.done + k = d /\ r.got \o g = h
        BY <2>2, <2>3
      <3> QED
        BY <3>1, Zenon
    <2>8. AbsCall' = [op |-> op, p |-> p, at |-> at, n |-> n, v |-> v, done |-> d, got |-> h, ret |-> ret]
      BY <1>13, <2>1, <2>2
    <2> QED
      BY <2>1, <2>2, <2>5, <2>6, <2>7, <2>8, Zenon
  <1>15. g = [i \in 1 .. k |-> AbsData[AbsCall.p][AbsCall.at + AbsCall.done + i - 1]]
    BY <1>11, <1>12
  <1>16. /\ AbsCall.op = "read" /\ k \in 1 .. AbsCall.n - AbsCall.done
         /\ AbsCall.at + AbsCall.done + k <= AbsSize[AbsCall.p]
    BY <1>1, <1>6, <1>7, <1>8, <1>12
  <1> QED
    BY <1>3, <1>14, <1>15, <1>16 DEF FS!ReadSome

(* Only the file of the call is seen to change. *)
LEMMA OneChanged ==
  ASSUME Sound, NEW p \in Path, ff_files[call.f].path = p
  PROVE  /\ AbsSize' = [AbsSize EXCEPT ![p] = AbsSize'[p]]
         /\ AbsData' = [AbsData EXCEPT ![p] = AbsData'[p]]
         /\ \A q \in Path \ {p} : AbsData'[q] = AbsData[q]
         /\ AbsData'[p] = [a \in Addr |-> AbsData'[p][a]]
  <1>1. \A q \in Path : q # p => AbsSize'[q] = AbsSize[q] /\ AbsData'[q] = AbsData[q]
    BY PathKept DEF Touches
  <1>2. /\ AbsSize = [q \in Path |-> AbsSize[q]] /\ AbsSize' = [q \in Path |-> AbsSize'[q]]
        /\ AbsData = [q \in Path |-> [a \in Addr |-> AbsData[q][a]]]
        /\ AbsData' = [q \in Path |-> [a \in Addr |-> AbsData'[q][a]]]
    BY DEF Sound, Views, Shaped, Addr
  <1> QED
    BY <1>1, <1>2

(* A pass of ff_write replaces bytes of the file. *)
LEMMA WriteSim ==
  ASSUME Sound, NEW b \in Buf, WriteChunk(b)
  PROVE  FS!WriteSome
  <1>1. /\ call.op = "write" /\ Fetching /\ call.f \in File /\ TypeInv /\ TypeOK /\ [Next]_vars
        /\ call' = [call EXCEPT !.done = @ + ChunkLen] /\ ff_files' = ff_files
    BY Writes DEF WriteChunk, WriteChunkAs, Sound, TypeInv, Types
  <1>2. PICK f \in File, p \in Path : f = call.f /\ p = ff_files[f].path /\ ff_files'[f].path = p
    <2>1. ~ CloseReturn
      BY <1>1 DEF CloseReturn, Closing
    <2> QED
      BY <1>1, <2>1, CallFile
  <1>3. PICK k, off, sz \in Nat :
          /\ k = ChunkLen /\ off = CurOff /\ sz = ff_files[f].fn_size /\ k >= 1 /\ k <= call.n - call.done
          /\ off = call.at + call.done
    <2>1. CurOff \in Nat /\ Rem(CurOff) \in 0 .. BSIZE - 1 /\ ChunkLen \in 1 .. BSIZE - Rem(CurOff)
      BY <1>1, Cursor DEF Off
    <2>2. call.at \in Nat /\ call.n \in Nat /\ call.done \in Nat /\ ff_files[f].fn_size \in Nat
          /\ CurOff = call.at + call.done
      BY <1>1 DEF TypeOK, Calls, Files, CurOff
    <2>3. ChunkLen <= call.n - call.done
      BY <2>1, <2>2, BSizeAssumption DEF ChunkLen, Lesser
    <2> QED
      BY <2>1, <2>2, <2>3, BSizeAssumption
  <1>4. /\ AbsSize[p] = sz /\ AbsSize'[p] = sz
        /\ \A a \in Addr : AbsData[p][a] = IF a >= sz THEN Hole ELSE Seen(f, a)
        /\ \A a \in Addr : AbsData'[p][a] = IF a >= sz THEN Hole ELSE Seen(f, a)'
    <2>1. OpenView /\ OpenView'
      BY DEF Sound, Views
    <2> QED
      BY <1>1, <1>2, <1>3, <2>1 DEF OpenView, Addr
  <1>5. AbsSize' = AbsSize
    <2>1. AbsSize = [q \in Path |-> AbsSize[q]]
      BY DEF Sound, Views, Shaped
    <2>2. AbsSize' = [AbsSize EXCEPT ![p] = AbsSize'[p]]
      BY <1>2, OneChanged
    <2>3. PICK T : T = AbsSize
      OBVIOUS
    <2>4. [T EXCEPT ![p] = sz] = T
      BY <1>4, <2>1, <2>3
    <2> QED
      BY <1>4, <2>2, <2>3, <2>4, Zenon
  <1>6. PICK span, v : span = off .. off + k - 1 /\ v = call.v
    OBVIOUS
  <1>7. \A a \in Addr : Seen(f, a)' = IF a \in span THEN v ELSE Seen(f, a)
    <2>1. SeenWhere /\ SeenWhere' /\ Same(f)
      BY <1>1 DEF Sound, Views, Same
    <2> QED
      BY <1>1, <1>2, <1>3, <1>6, <2>1, WriteSeen
  <1>8. PICK part : part = span \cap 0 .. sz - 1
    OBVIOUS
  <1>9. AbsData'[p] = FS!Overlay(AbsData[p], part, v)
    <2>1. ASSUME NEW a \in Addr PROVE AbsData'[p][a] = IF a \in part THEN v ELSE AbsData[p][a]
      <3>1. a \in part <=> a \in span /\ ~ (a >= sz)
        BY <1>3, <1>6, <1>8 DEF Addr
      <3> QED
        BY <1>4, <1>7, <3>1
    <2>2. AbsData'[p] = [a \in Addr |-> AbsData'[p][a]]
      BY <1>2, OneChanged
    <2> QED
      BY <2>1, <2>2 DEF FS!Overlay
  <1>10. AbsData' = [AbsData EXCEPT ![p] = FS!Overlay(@, part, v)]
    <2>1. AbsData' = [AbsData EXCEPT ![p] = AbsData'[p]]
      BY <1>2, OneChanged
    <2> QED
      BY <1>9, <2>1, Zenon
  <1>11. AbsCall = [op |-> call.op, p |-> p, at |-> call.at, n |-> call.n, v |-> call.v,
                    done |-> call.done, got |-> call.got, ret |-> call.ret]
    BY <1>1, <1>2 DEF AbsCall, File, NoFile
  <1>12. AbsCall' = [op |-> call.op, p |-> p, at |-> call.at, n |-> call.n, v |-> call.v,
                     done |-> call.done + k, got |-> call.got, ret |-> call.ret]
    <2>1. /\ call'.op = call.op /\ call'.f = call.f /\ call'.at = call.at /\ call'.n = call.n /\ call'.v = call.v
          /\ call'.got = call.got /\ call'.ret = call.ret /\ call'.done = call.done + k
      BY <1>1, <1>3 DEF TypeOK, Calls
    <2>2. (IF call'.f = NoFile THEN NoPath ELSE ff_files'[call'.f].path) = p
      BY <1>1, <1>2, <2>1 DEF File, NoFile
    <2> QED
      BY <2>1, <2>2, Zenon DEF AbsCall
  <1>13. AbsCall' = [AbsCall EXCEPT !.done = @ + k]
    BY <1>11, <1>12
  <1>14. /\ AbsCall.op = "write" /\ k \in 1 .. AbsCall.n - AbsCall.done /\ AbsCall.p = p /\ AbsCall.v = v
         /\ part = (AbsCall.at + AbsCall.done .. AbsCall.at + AbsCall.done + k - 1) \cap 0 .. AbsSize[AbsCall.p] - 1
    BY <1>1, <1>3, <1>4, <1>6, <1>8, <1>11
  <1> QED
    BY <1>5, <1>10, <1>13, <1>14 DEF FS!WriteSome

(* ff_write has written: the file holds the whole request. *)
LEMMA WriteOKSim ==
  ASSUME Sound, WriteReturn
  PROVE  FS!WriteOK
  <1>0. TypeInv /\ TypeOK /\ CallInFile /\ WriteFits /\ Wrote /\ SeenWhere /\ SeenWhere' /\ OpenView /\ OpenView'
    BY DEF Sound, TypeInv, Types, DataInv, FitInv, Views
  <1>1. /\ call.op = "write" /\ ~ Fetching /\ call'.op = "none" /\ disk' = disk /\ ff_buf' = ff_buf
        /\ ff_files' = [ff_files EXCEPT ![call.f].fn_size = Greater(@, CurOff)]
    BY DEF WriteReturn, Return, Ended
  <1>2. PICK f \in File, p \in Path : f = call.f /\ p = ff_files[f].path /\ ff_files'[f].path = p
    <2>1. call.f \in File
      BY <1>0, <1>1, BufFacts
    <2>2. ~ CloseReturn
      BY <1>1 DEF CloseReturn, Closing
    <2> QED
      BY <2>1, <2>2, CallFile
  <1>3. PICK at, n, off, sz \in Nat :
          at = call.at /\ n = call.n /\ call.done = n /\ off = CurOff /\ off = at + n
          /\ sz = ff_files[f].fn_size /\ at <= sz
    <2>1. call.at \in Nat /\ call.n \in Nat /\ call.done \in Nat /\ ff_files[f].fn_size \in Nat
      BY <1>0 DEF TypeOK, Calls, Files
    <2>2. call.done = call.n
      BY <1>0, <1>1, <2>1 DEF WriteFits, Fetching
    <2>3. call.at <= ff_files[f].fn_size
      BY <1>0, <1>1, <1>2 DEF CallInFile
    <2>4. CurOff = call.at + call.n /\ CurOff \in Nat
      BY <2>1, <2>2 DEF CurOff
    <2> QED
      BY <2>1, <2>2, <2>3, <2>4
  <1>4. PICK end \in Nat : end = Greater(sz, off) /\ ff_files'[f].fn_size = end
    <2>1. PICK size : size = Greater(sz, off)
      OBVIOUS
    <2>2. ff_files' = [ff_files EXCEPT ![f].fn_size = size]
      BY <1>1, <1>2, <1>3, <2>1
    <2>3. \A h \in File : Same(h) /\ ff_files'[h].fn_size = IF h = f THEN size ELSE ff_files[h].fn_size
      BY <1>0, <2>2, SizedSame, ZenonT(60)
    <2>4. size \in Nat
      BY <2>1 DEF Greater
    <2> QED
      BY <2>1, <2>3, <2>4
  <1>5. /\ AbsSize[p] = sz /\ AbsSize'[p] = end
        /\ \A a \in Addr : AbsData[p][a] = IF a >= sz THEN Hole ELSE Seen(f, a)
        /\ \A a \in Addr : AbsData'[p][a] = IF a >= end THEN Hole ELSE Seen(f, a)'
    BY <1>0, <1>2, <1>3, <1>4 DEF OpenView, Addr
  <1>6. \A a \in Addr : Seen(f, a)' = Seen(f, a)
    <2> SUFFICES ASSUME NEW a \in Addr PROVE Seen(f, a)' = Seen(f, a)
      OBVIOUS
    <2>1. ASSUME NEW b \in Buf, Covers(b, f, a) PROVE Seen(f, a)' = Seen(f, a)
      <3>1. Covers(b, f, a)'
        BY <1>1, <2>1 DEF Covers
      <3>2. Seen(f, a)' = ff_buf'[b].fb_buf[Rem(a)]
        BY <1>0, <3>1 DEF SeenWhere, Rem
      <3> QED
        BY <1>0, <1>1, <2>1, <3>2 DEF SeenWhere
    <2>2. ASSUME ~ Cached(f, a) PROVE Seen(f, a)' = Seen(f, a)
      <3>1. ~ Cached(f, a)'
        BY <1>1, <2>2 DEF Cached, Covers
      <3> QED
        BY <1>0, <1>1, <1>2, <2>2, <3>1 DEF SeenWhere
    <2> QED
      BY <2>1, <2>2 DEF Cached
  <1>7. PICK span, v : span = at .. at + n - 1 /\ v = call.v
    OBVIOUS
  <1>8. \A a \in Addr : a \in span => Seen(f, a) = v
    BY <1>0, <1>1, <1>2, <1>3, <1>7 DEF Wrote
  <1>9. AbsData'[p] = FS!Overlay(AbsData[p], span, v)
    <2>1. ASSUME NEW a \in Addr PROVE AbsData'[p][a] = IF a \in span THEN v ELSE AbsData[p][a]
      <3>1. a \in Nat
        BY DEF Addr
      <3>2. a \in span => ~ (a >= end)
        BY <1>3, <1>4, <1>7, <3>1, SMTT(45) DEF Greater
      <3>3. a \notin span => (a >= end <=> a >= sz)
        BY <1>3, <1>4, <1>7, <3>1, SMTT(45) DEF Greater
      <3>4. CASE a \in span
        BY <1>5, <1>6, <1>8, <3>2, <3>4
      <3>5. CASE a \notin span
        BY <1>5, <1>6, <3>3, <3>5
      <3> QED
        BY <3>4, <3>5
    <2>2. AbsData'[p] = [a \in Addr |-> AbsData'[p][a]]
      BY <1>2, OneChanged
    <2> QED
      BY <2>1, <2>2 DEF FS!Overlay
  <1>10. AbsData' = [AbsData EXCEPT ![p] = FS!Overlay(@, span, v)]
    <2>1. AbsData' = [AbsData EXCEPT ![p] = AbsData'[p]]
      BY <1>2, OneChanged
    <2> QED
      BY <1>9, <2>1, Zenon
  <1>11. AbsSize' = [AbsSize EXCEPT ![p] = IF at + n > @ THEN at + n ELSE @]
    <2>1. AbsSize' = [AbsSize EXCEPT ![p] = AbsSize'[p]]
      BY <1>2, OneChanged
    <2>2. AbsSize'[p] = IF at + n > AbsSize[p] THEN at + n ELSE AbsSize[p]
      BY <1>3, <1>4, <1>5 DEF Greater
    <2> QED
      BY <2>1, <2>2, Zenon
  <1>12. /\ AbsCall.op = "write" /\ AbsCall.p = p /\ AbsCall.at = at /\ AbsCall.n = n /\ AbsCall.v = v
         /\ AbsCall.done = AbsCall.n /\ AbsCall'.op = "none"
    BY <1>1, <1>2, <1>3, <1>7 DEF AbsCall, File, NoFile
  <1>13. span = FS!Written
    BY <1>7, <1>12 DEF FS!Written
  <1> QED
    BY <1>10, <1>11, <1>12, <1>13 DEF FS!WriteOK

(* A call that leaves its file longer, or as it was. *)
LEMMA DiscoverSim ==
  ASSUME Sound, call.op \in {"grow", "close"}, call'.op = "none", call.f \in File,
         NEW p \in Path, ff_files[call.f].path = p,
         AbsSize[p] \in Nat, AbsSize'[p] \in Nat, AbsSize'[p] >= AbsSize[p],
         \A a \in Addr : /\ a < AbsSize[p] => AbsData'[p][a] = AbsData[p][a]
                         /\ a >= AbsSize[p] => AbsData[p][a] = Hole
                         /\ a >= AbsSize'[p] => AbsData'[p][a] = Hole
  PROVE  FS!Return \/ FS!Discover
  <1>1. /\ AbsSize' = [AbsSize EXCEPT ![p] = AbsSize'[p]]
        /\ AbsData' = [AbsData EXCEPT ![p] = AbsData'[p]]
        /\ \A q \in Path \ {p} : AbsData'[q] = AbsData[q]
    BY OneChanged
  <1>2. AbsCall.op = call.op /\ AbsCall'.op = "none" /\ AbsCall.p = p
    BY DEF AbsCall, File, NoFile
  <1>3. CASE AbsSize'[p] > AbsSize[p]
    BY <1>1, <1>2, <1>3 DEF FS!Discover
  <1>4. CASE AbsSize'[p] = AbsSize[p]
    <2>1. \A a \in Addr : AbsData'[p][a] = AbsData[p][a]
      <3> SUFFICES ASSUME NEW a \in Addr PROVE AbsData'[p][a] = AbsData[p][a]
        OBVIOUS
      <3>1. a \in Nat
        BY DEF Addr
      <3> QED
        BY <1>4, <3>1
    <2>2. AbsData'[p] = AbsData[p]
      BY <2>1, SameView DEF Sound, Views
    <2>3. AbsSize = [q \in Path |-> AbsSize[q]] /\ AbsData = [q \in Path |-> [a \in Addr |-> AbsData[q][a]]]
      BY DEF Sound, Views, Shaped
    <2>4. PICK T, D : T = AbsSize /\ D = AbsData
      OBVIOUS
    <2>5. [T EXCEPT ![p] = T[p]] = T /\ [D EXCEPT ![p] = D[p]] = D
      BY <2>3, <2>4
    <2>6. AbsSize' = AbsSize /\ AbsData' = AbsData
      BY <1>1, <1>4, <2>2, <2>4, <2>5, Zenon
    <2> QED
      BY <1>2, <2>6 DEF FS!Return
  <1> QED
    BY <1>3, <1>4

(* ff_grow. *)
LEMMA GrowSim ==
  ASSUME Sound, GrowReturn
  PROVE  FS!Return \/ FS!Discover
  <1>0. /\ Calm /\ TypeInv /\ TypeOK /\ PosInv /\ DataInv /\ Agree' /\ SeenWhere /\ SeenWhere'
        /\ OpenView /\ OpenView' /\ [Next]_vars
    BY DEF Sound, TypeInv, Types, DataInv, Views
  <1>1. call.op = "grow" /\ call'.op = "none" /\ call.f \in File
    BY <1>0, BufFacts DEF GrowReturn, Return, Ended
  <1>2. ~ CloseReturn /\ ~ \E b \in Buf : WriteChunk(b)
    BY <1>1 DEF CloseReturn, Closing, WriteChunk, WriteChunkAs
  <1>3. PICK f \in File, p \in Path : f = call.f /\ p = ff_files[f].path /\ ff_files'[f].path = p
    BY <1>1, <1>2, CallFile
  <1>4. PICK sz, len \in Nat : sz = ff_files[f].fn_size /\ len = disk[p].len
    BY <1>0 DEF TypeOK, Files, Disks
  <1>5. ff_files'[f].fn_size = Greater(sz, len) /\ Same(f)
    <2>1. PICK size : size = Greater(sz, len)
      OBVIOUS
    <2>2. ff_files' = [ff_files EXCEPT ![f].fn_size = size]
      BY <1>3, <1>4, <2>1 DEF GrowReturn
    <2>3. \A h \in File : Same(h) /\ ff_files'[h].fn_size = IF h = f THEN size ELSE ff_files[h].fn_size
      BY <1>0, <2>2, SizedSame, ZenonT(60)
    <2> QED
      BY <2>1, <2>3
  <1>6. PICK end \in Nat : end = ff_files'[f].fn_size /\ end >= sz
    BY <1>5 DEF Greater
  <1>7. /\ AbsSize[p] = sz /\ AbsSize'[p] = end
        /\ \A a \in Addr : AbsData[p][a] = IF a >= sz THEN Hole ELSE Seen(f, a)
        /\ \A a \in Addr : AbsData'[p][a] = IF a >= end THEN Hole ELSE Seen(f, a)'
    BY <1>0, <1>3, <1>4, <1>6 DEF OpenView, Addr
  <1>8. ASSUME NEW a \in Addr
        PROVE  /\ a < sz => AbsData'[p][a] = AbsData[p][a]
               /\ a >= sz => AbsData[p][a] = Hole
               /\ a >= end => AbsData'[p][a] = Hole
    <2>1. a \in Nat
      BY DEF Addr
    <2>2. ASSUME a < sz PROVE AbsData'[p][a] = AbsData[p][a]
      <3>1. a < Reach(f) /\ ff_files[f].path # NoPath
        BY <1>1, <1>3, <1>4, <2>2, PathAssumption DEF Reach
      <3>2. Seen(f, a)' = Seen(f, a)
        BY <1>0, <1>2, <1>5, <3>1, SeenStep
      <3>3. ~ (a >= sz) /\ ~ (a >= end)
        BY <1>6, <2>1, <2>2
      <3> QED
        BY <1>7, <3>2, <3>3
    <2> QED
      BY <1>7, <2>2
  <1> QED
    BY <1>1, <1>3, <1>6, <1>7, <1>8, DiscoverSim

(* The last ff_close: what the file had is on disk. *)
LEMMA CloseSim ==
  ASSUME Sound, CloseReturn
  PROVE  FS!Return \/ FS!Discover
  <1>0. TypeInv /\ TypeOK /\ DataInv /\ FitInv /\ OneSlot /\ OpenView /\ ClosedView'
    BY DEF Sound, TypeInv, Types, DataInv, Views
  <1>1. call.op = "close" /\ call'.op = "none" /\ call.f \in File
    BY <1>0, CloseReturnFacts DEF CloseReturn, Closing
  <1>2. PICK f \in File, p \in Path : f = call.f /\ p = ff_files[f].path /\ p # NoPath
    <2>1. ff_files[call.f].path \in Path
      BY <1>0, <1>1 DEF TypeInv, Types, TypeOK, CallOK, Files
    <2> QED
      BY <1>1, <2>1, PathAssumption
  <1>3. PICK sz, len \in Nat : sz = ff_files[f].fn_size /\ len = disk[p].len
    BY <1>0 DEF TypeOK, Files, Disks
  <1>4. len >= sz /\ \A a \in Addr : a < sz => disk[p].at[a] = Seen(f, a)
    <2>1. Dirty(f) = {}
      BY <1>2 DEF CloseReturn, Dirty
    <2>2. OnDisk(f)
      BY <1>0, <1>2, <2>1, AllOnDisk
    <2> QED
      BY <1>2, <1>3, <2>2 DEF OnDisk
  <1>5. /\ AbsSize[p] = sz
        /\ \A a \in Addr : AbsData[p][a] = IF a >= sz THEN Hole ELSE Seen(f, a)
    BY <1>0, <1>2, <1>3 DEF OpenView
  <1>6. /\ AbsSize'[p] = len
        /\ \A a \in Addr : AbsData'[p][a] = IF a >= len THEN Hole ELSE disk[p].at[a]
    <2>1. \A g \in File : ff_files'[g].path # p
      BY <1>0, <1>2, CloseReturnFacts DEF OneSlot
    <2>2. disk' = disk
      BY <1>0, CloseReturnFacts
    <2> QED
      BY <1>0, <1>3, <2>1, <2>2 DEF ClosedView, File, Addr
  <1>7. ASSUME NEW a \in Addr
        PROVE  /\ a < sz => AbsData'[p][a] = AbsData[p][a]
               /\ a >= sz => AbsData[p][a] = Hole
               /\ a >= len => AbsData'[p][a] = Hole
    <2>1. a \in Nat
      BY DEF Addr
    <2>2. a < sz => ~ (a >= sz) /\ ~ (a >= len)
      BY <1>4, <2>1
    <2> QED
      BY <1>4, <1>5, <1>6, <2>2
  <1> QED
    BY <1>1, <1>2, <1>4, <1>5, <1>6, <1>7, DiscoverSim

(* No file is open at first: what is seen is what is on disk. *)
LEMMA Starts == Init => FS!Init
  <1> SUFFICES ASSUME Init PROVE FS!Init
    OBVIOUS
  <1>1. /\ \A f \in File : ff_files[f].path = NoPath
        /\ \A b \in Buf : ff_buf[b].fb_file = NoFile
        /\ call.op = "none" /\ disk \in [Path -> Disks]
    BY PathAssumption DEF Init, FreeFile, NewBuf, Ended
  <1>2. OneSlot /\ OneCopy
    BY <1>1 DEF OneSlot, OneCopy
  <1>3. Views
    BY <1>2, ViewsHold
  <1>4. \A p \in Path : \A f \in File : ff_files[f].path # p
    BY <1>1, PathAssumption
  <1>5. ASSUME NEW p \in Path
        PROVE  AbsSize[p] \in Nat /\ \A a \in Addr : AbsData[p][a] \in Byte \cup {Hole}
    <2>1. /\ AbsSize[p] = disk[p].len
          /\ \A a \in Addr : AbsData[p][a] = IF a >= disk[p].len THEN Hole ELSE disk[p].at[a]
      BY <1>3, <1>4 DEF Views, ClosedView
    <2>2. disk[p].len \in Nat /\ \A a \in Addr : disk[p].at[a] \in Byte \cup {Hole}
      BY <1>1 DEF Disks, Bytes
    <2> QED
      BY <2>1, <2>2
  <1>6. AbsSize \in [Path -> Nat] /\ AbsData \in [Path -> [Addr -> Byte \cup {Hole}]]
    BY <1>3, <1>5 DEF Views, Shaped
  <1>7. AbsCall.op = "none"
    BY <1>1 DEF AbsCall
  <1> QED
    BY <1>6, <1>7 DEF FS!Init

(* Every step of the package is one of FileStore, or none. *)
LEMMA StoreStep ==
  ASSUME Sound
  PROVE  [FS!Next]_FS!vars
  <1>1. CASE call' = call
    BY <1>1, Stutters
  <1>2. CASE Asks
    BY <1>2, BeginSim DEF FS!Next
  <1>3. CASE Ends
    <2>1. CASE WriteReturn
      BY <2>1, WriteOKSim DEF FS!Next
    <2>2. CASE GrowReturn
      BY <2>2, GrowSim DEF FS!Next
    <2>3. CASE CloseReturn
      BY <2>3, CloseSim DEF FS!Next
    <2>4. CASE ~ (WriteReturn \/ GrowReturn \/ CloseReturn)
      BY <1>3, <2>4, ReturnSim DEF FS!Next
    <2> QED
      BY <2>1, <2>2, <2>3, <2>4
  <1>4. CASE SyncNext
    BY <1>4, SyncSim DEF FS!Next
  <1>5. ASSUME NEW b \in Buf, ReadChunk(b) PROVE [FS!Next]_FS!vars
    BY <1>5, ReadSim DEF FS!Next
  <1>6. ASSUME NEW b \in Buf, WriteChunk(b) PROVE [FS!Next]_FS!vars
    BY <1>6, WriteSim DEF FS!Next
  <1> QED
    BY <1>1, <1>2, <1>3, <1>4, <1>5, <1>6, CallMoves DEF Sound

(* The invariant of the refinement. *)
LEMMA StoreInvariance ==
  ASSUME Calm
  PROVE  Spec => []StoreInv
  <1>1. Init => Wrote
    BY DEF Init, Ended, Wrote
  <1>2. ASSUME TypeInv, PosInv, OneCopy, DataInv, Wrote, OneCopy', DataInv', [Next]_vars PROVE Wrote'
    <2>1. Views /\ Views'
      BY <1>2, ViewsHold, ViewsNext DEF DataInv
    <2> QED
      BY <1>2, <2>1, WroteStep DEF Views, DataInv
  <1>3. TypeInv /\ PosInv /\ OneCopy /\ DataInv /\ OneCopy' /\ DataInv' /\ Wrote /\ [Next]_vars => Wrote'
    BY <1>2
  <1> QED
    BY <1>1, <1>3, FitInvariance, PTL DEF Spec, StoreInv

(* For its callers the package is an array of bytes for each file: a read   *)
(* delivers what was last written, across the misses, the victims written  *)
(* out, the writes that fail, the flushes, the filters' output and the     *)
(* closing and opening in between; a write that fails leaves the file no    *)
(* longer than it was; and only ff_grow, and closing and opening again,    *)
(* find what is on disk behind the end that callers knew.                  *)
THEOREM Implements == ASSUME Calm PROVE Spec => ImplementsFileStore
  <1>1. Init => FS!Init
    BY Starts
  <1>2. StoreInv /\ StoreInv' /\ [Next]_vars => [FS!Next]_FS!vars
    <2> SUFFICES ASSUME StoreInv, StoreInv', [Next]_vars PROVE [FS!Next]_FS!vars
      OBVIOUS
    <2>1. Views /\ Views'
      BY ViewsHold, ViewsNext DEF StoreInv, DataInv
    <2>2. Sound
      BY <2>1 DEF Sound, StoreInv
    <2> QED
      BY <2>2, StoreStep
  <1> QED
    BY <1>1, <1>2, StoreInvariance, PTL DEF Spec, ImplementsFileStore, FS!Spec
=============================================================================

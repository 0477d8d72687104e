--------------------------------- MODULE FF ---------------------------------
(***************************************************************************)
(* The FF package (ff3/): a pool of block buffers shared by every open     *)
(* file, between the callers' byte streams and the system's files.         *)
(*                                                                         *)
(* A buffer belongs to at most one file (fb_file) and holds one block of   *)
(* it; ff_flist orders all buffers by recency and its tail is the victim   *)
(* of the next miss.  The queue of a file is the set of the buffers that   *)
(* belong to it: the order of that queue is only ever used after ff_sort,  *)
(* as ascending block numbers.                                             *)
(*                                                                         *)
(* The package has no threads: a call runs to its end before the next one  *)
(* begins.  It is not atomic, though.  Each system call it makes can fail, *)
(* and a failure in the middle leaves what was done before it.  `call` is  *)
(* the call in progress, and an action is one pass of a loop of it.        *)
(***************************************************************************)
EXTENDS Integers, Sequences

CONSTANTS
  Path,         \* the files of the system
  NFile,        \* how many slots ff_files has (NOFILE)
  NStream,      \* how many slots ff_streams has (NOFFFDS)
  Buf,          \* every Ff_buf that could be allocated
  Byte,         \* the bytes callers write
  Hole,         \* a byte nobody wrote: in a hole of a file, or left over in a
                \* buffer
  NoPath,       \* the path of a slot whose fn_fd is closed
  BSIZE,        \* FF_BSIZE
  MaxBlk,       \* bound: no file grows beyond MaxBlk blocks
  ReadLens,     \* bound: how many bytes a caller reads at once
  WriteLens,    \* bound: how many bytes a caller writes at once
  MinPool,      \* bound: how many buffers callers keep in the pool, once
                \* they have opened a file
  Modes,        \* Modes[p]: do callers open file p for writing too?
  InitDisk,     \* what the system's files may hold at the start
  FailWrites,   \* may write(2) fail, or stop short?
  FailReads,    \* may read(2) fail?
  Overwrite,    \* do callers overwrite a whole block inside the file?
  Untidy,       \* does a filter start when there are bytes past fn_size?
  BuiltinFill   \* is the editor compiled with -DBUILTINFILL?

ASSUME BSizeAssumption == BSIZE \in Nat \ {0}
ASSUME BoundAssumption == MaxBlk \in Nat \ {0} /\ MinPool \in Nat \ {0}
ASSUME LenAssumption == ReadLens \subseteq Nat \ {0} /\ WriteLens \subseteq Nat \ {0}
ASSUME SlotAssumption == NFile \in Nat \ {0} /\ NStream \in Nat \ {0}

VARIABLES
  disk,        \* disk[p]: length and bytes of file p, as the system has them
  ff_files,    \* the Ff_file table
  ff_streams,  \* the Ff_stream table (a position is set by each request)
  ff_buf,      \* the buffers
  ff_flist,    \* the pool, most recently used first
  call,        \* the call in progress
  filter       \* the filter that is writing on a file, and how much it writes

vars == <<disk, ff_files, ff_streams, ff_buf, ff_flist, call, filter>>

-----------------------------------------------------------------------------
File   == 1 .. NFile
Stream == 1 .. NStream
NoFile == 0

Addr  == 0 .. MaxBlk * BSIZE - 1
Off   == 0 .. BSIZE - 1
Bytes == Byte \cup {Hole}
Blk(a) == a \div BSIZE   \* my_ldiv: the block of an address, and the
Rem(a) == a % BSIZE      \* offset in the block

Lesser(a, b)  == IF a < b THEN a ELSE b
Greater(a, b) == IF a > b THEN a ELSE b

Files == [path : Path \cup {NoPath},  \* the file fn_fd is open on
          pos : Nat,                  \* the system's position of fn_fd
          fdw : BOOLEAN,              \* was fn_fd opened for writing?
          fn_refs : Nat,
          fn_mode : BOOLEAN,          \* the F_WRITE bit; F_READ is always set
          fn_realblk : Nat \cup {-1},
          fn_size : Nat]

Streams == [f_file : File \cup {NoFile}, f_mode : BOOLEAN]

Buffers == [fb_file : File \cup {NoFile},
            fb_bnum : Nat \cup {-1},
            fb_count : -1 .. BSIZE,
            fb_wflg : BOOLEAN,
            fb_buf : [Off -> Bytes]]

Disks == [len : Nat, at : [Addr -> Bytes]]

ASSUME PathAssumption == /\ NoPath \notin Path
                         /\ Modes \in [Path -> SUBSET BOOLEAN]
                         /\ InitDisk \subseteq [Path -> Disks]

(* No file is longer at the start than there are addresses. *)
ASSUME FitAssumption == \A d \in InitDisk : \A p \in Path : d[p].len <= MaxBlk * BSIZE

Ops == {"none", "read", "write", "flush", "sync", "close", "grow", "free"}

Calls == [op : Ops, s : Stream \cup {0}, f : File \cup {NoFile},
          at : Nat, n : Nat, v : Bytes,
          done : Nat,                 \* how much of n is done
          got : Seq(Bytes),           \* what a read has delivered
          ret : {"ok", "err"}]        \* how the last call ended

FreeFile == [path |-> NoPath, pos |-> 0, fdw |-> FALSE, fn_refs |-> 0,
             fn_mode |-> FALSE, fn_realblk |-> 0, fn_size |-> 0]

NoFilter == [f |-> NoFile, k |-> 0]

FreeStream == [f_file |-> NoFile, f_mode |-> FALSE]

(* A buffer as ff_use puts it into the pool. *)
NewBuf == [fb_file |-> NoFile, fb_bnum |-> -1, fb_count |-> -1,
           fb_wflg |-> FALSE, fb_buf |-> [i \in Off |-> Hole]]

Request(op, s, f, at, n, v) ==
  [op |-> op, s |-> s, f |-> f, at |-> at, n |-> n, v |-> v,
   done |-> 0, got |-> << >>, ret |-> "ok"]

Ended(r) ==
  [op |-> "none", s |-> 0, f |-> NoFile, at |-> 0, n |-> 0, v |-> Hole,
   done |-> 0, got |-> << >>, ret |-> r]

Init ==
  /\ disk \in InitDisk
  /\ ff_files = [f \in File |-> FreeFile]
  /\ ff_streams = [s \in Stream |-> FreeStream]
  /\ ff_buf = [b \in Buf |-> NewBuf]
  /\ ff_flist = << >>
  /\ call = Ended("ok")
  /\ filter = NoFilter

Idle == call.op = "none"
Return(r) == call' = Ended(r)

(* While a filter runs the editor only reads, to feed it, and then asks for *)
(* the new size (runlines, receive).                                       *)
Ready == Idle /\ filter = NoFilter

Begin(op, s, f) == Ready /\ call' = Request(op, s, f, 0, 0, Hole)

-----------------------------------------------------------------------------
(* The pool. *)

Victim == ff_flist[Len(ff_flist)]

(* ff_haveblk *)
Have(f, blk) == {b \in Buf : ff_buf[b].fb_file = f /\ ff_buf[b].fb_bnum = blk}

(* The queue of a file. *)
Queue(f) == {b \in Buf : ff_buf[b].fb_file = f}

(* The one with the lowest block number: ff_sort puts it first. *)
First(bufs) == {b \in bufs : \A c \in bufs : ff_buf[b].fb_bnum <= ff_buf[c].fb_bnum}

Dirty(f) == {b \in Queue(f) : ff_buf[b].fb_wflg}

(* Off its queue a buffer is as good as new: its block number and count are *)
(* not looked at again, and what it held is left-over bytes.               *)
Released(bufs) == [b \in Buf |-> IF b \in bufs THEN NewBuf ELSE ff_buf[b]]

(* A buffer that is neither first nor second moves to the front. *)
Touch(b) ==
  IF \E i \in 1 .. Len(ff_flist) : i > 2 /\ ff_flist[i] = b
    THEN LET i == CHOOSE j \in 1 .. Len(ff_flist) : ff_flist[j] = b
         IN  [j \in 1 .. Len(ff_flist) |->
                IF j = 1 THEN b ELSE IF j <= i THEN ff_flist[j - 1] ELSE ff_flist[j]]
    ELSE ff_flist

(* ff_use, ff_alloc: one more buffer, at the front. *)
Alloc(b) ==
  /\ Ready
  /\ \A i \in 1 .. Len(ff_flist) : ff_flist[i] # b
  /\ ff_flist' = <<b>> \o ff_flist
  /\ ff_buf' = Released({b})
  /\ UNCHANGED <<disk, ff_files, ff_streams, call, filter>>

(* ff_free: the tail leaves the pool, after being written if need be; one  *)
(* buffer always stays.                                                    *)
BeginFree == Len(ff_flist) > MinPool /\ Begin("free", 0, NoFile)
          /\ UNCHANGED <<disk, ff_files, ff_streams, ff_buf, ff_flist, filter>>

FreeBuf ==
  /\ call.op = "free"
  /\ ~ (ff_buf[Victim].fb_file # NoFile /\ ff_buf[Victim].fb_wflg)
  /\ ff_flist' = SubSeq(ff_flist, 1, Len(ff_flist) - 1)
  /\ ff_buf' = Released({Victim})
  /\ Return("ok")
  /\ UNCHANGED <<disk, ff_files, ff_streams, filter>>

-----------------------------------------------------------------------------
(* ff_putblk: what a call hands to it, and write(2). *)

(* The block the loop of ff_read or ff_write is at, and its share of it. *)
CurOff == call.at + call.done
CurBlk == Blk(CurOff)
ChunkLen == Lesser(BSIZE - Rem(CurOff), call.n - call.done)

Fetching == call.op \in {"read", "write"} /\ call.done < call.n

(* Mutant of Misses: a block to be overwritten whole is not looked for. *)
MissesWhole == Fetching /\ (Have(call.f, CurBlk) = {} \/ (call.op = "write" /\ ChunkLen = BSIZE))

Misses == Fetching /\ Have(call.f, CurBlk) = {}

LastBlk(f) == Blk(ff_files[f].fn_size)

(* The file whose buffers ff_flush is writing out, if the stream may. *)
Flushed == IF ff_streams[call.s].f_mode THEN Dirty(ff_streams[call.s].f_file) ELSE {}

(* The last stream of the file is gone. *)
Closing == call.op = "close" /\ ff_files[call.f].fn_refs = 0

(* The buffers the call hands to ff_putblk next. *)
PutNext ==
  CASE Misses \/ call.op = "free"      -> {Victim}
    [] call.op \in {"flush", "sync"}   -> First(Flushed)
    [] Closing                         -> First(Queue(call.f))
    [] call.op = "grow"                -> Have(call.f, LastBlk(call.f))
    [] OTHER                           -> {}

NeedsWrite(b) == ff_buf[b].fb_file # NoFile /\ ff_buf[b].fb_wflg

(* Where a transfer of block blk of file f starts: ff seeks unless          *)
(* fn_realblk says the system is there already.                            *)
SeekTo(f, blk) ==
  IF ff_files[f].fn_realblk # blk THEN blk * BSIZE ELSE ff_files[f].pos

(* The system's position of fn_fd, and what ff takes it to be. *)
Moved(f, pos, realblk) ==
  [ff_files EXCEPT ![f] = [@ EXCEPT !.pos = pos, !.fn_realblk = realblk]]

(* write(2) of the first c bytes of buf at pos. *)
SysWrite(d, pos, c, buf) ==
  [len |-> IF c = 0 THEN d.len ELSE Greater(d.len, pos + c),
   at  |-> [a \in Addr |-> IF a \in pos .. pos + c - 1 THEN buf[a - pos] ELSE d.at[a]]]

(* Mutant of RealblkAfterPut: a partial block counts as a whole one. *)
RealblkAfterAnyPut(b) == ff_buf[b].fb_bnum + 1

RealblkAfterPut(b) ==
  IF ff_buf[b].fb_count = BSIZE THEN ff_buf[b].fb_bnum + 1 ELSE -1

WriteBack(b) ==
  /\ b \in PutNext /\ NeedsWrite(b)
  /\ LET f == ff_buf[b].fb_file
         c == ff_buf[b].fb_count
         pos == SeekTo(f, ff_buf[b].fb_bnum)
     IN  /\ ff_files[f].fdw
         /\ disk' = [disk EXCEPT ![ff_files[f].path] = SysWrite(@, pos, c, ff_buf[b].fb_buf)]
         /\ ff_files' = Moved(f, pos + c, RealblkAfterPut(b))
  /\ ff_buf' = [ff_buf EXCEPT ![b] = [@ EXCEPT !.fb_wflg = FALSE, !.fb_count = 0]]
  /\ UNCHANGED <<ff_streams, ff_flist, call, filter>>

(* Mutant of WriteBackFails: the caller is not told. *)
WriteBackFailsUnseen(b) ==
  /\ b \in PutNext /\ NeedsWrite(b) /\ FailWrites
  /\ ff_files' = [ff_files EXCEPT ![ff_buf[b].fb_file].fn_realblk = -1]
  /\ Return("ok")
  /\ UNCHANGED <<disk, ff_streams, ff_buf, ff_flist, filter>>

(* write(2) fails, or stops short after c bytes.  The buffer stays dirty,  *)
(* where it is, and the call that needed it returns an error.              *)
WriteBackFails(b) ==
  /\ b \in PutNext /\ NeedsWrite(b)
  /\ LET f == ff_buf[b].fb_file
         pos == SeekTo(f, ff_buf[b].fb_bnum)
     IN  /\ FailWrites \/ ~ ff_files[f].fdw
         /\ \E c \in IF ff_files[f].fdw THEN 0 .. ff_buf[b].fb_count - 1 ELSE {0} :
              /\ disk' = [disk EXCEPT ![ff_files[f].path] =
                            SysWrite(@, pos, c, ff_buf[b].fb_buf)]
              /\ ff_files' = Moved(f, pos + c, -1)
  /\ Return("err")
  /\ UNCHANGED <<ff_streams, ff_buf, ff_flist, filter>>

-----------------------------------------------------------------------------
(* ff_gblk on a miss: the victim, clean by now, takes the block over. *)

(* A whole block about to be overwritten is not read first. *)
ReadFlag == call.op = "read" \/ ChunkLen < BSIZE

InFile == CurBlk * BSIZE < ff_files[call.f].fn_size \/ ~ ff_files[call.f].fn_mode

(* What read(2) delivers at pos: how many bytes. *)
ReadLen(d, pos) == IF pos < d.len THEN Lesser(BSIZE, d.len - pos) ELSE 0

RealblkAfterGet(blk, c) == IF c = BSIZE THEN blk + 1 ELSE IF c # 0 THEN -1 ELSE blk

(* Buffer b becomes, or is, the one of the current block, with this in it. *)
Fill(b, count, wflg, buf) ==
  ff_buf' = [ff_buf EXCEPT ![b] = [fb_file |-> call.f, fb_bnum |-> CurBlk,
                                   fb_count |-> count, fb_wflg |-> wflg, fb_buf |-> buf]]

(* Past the end of a file open for writing there is nothing to read. *)
LoadNew ==
  /\ Misses /\ ~ NeedsWrite(Victim) /\ ~ InFile
  /\ Fill(Victim, 0, FALSE, NewBuf.fb_buf)
  /\ UNCHANGED <<disk, ff_files, ff_streams, ff_flist, call, filter>>

LoadBlk ==
  /\ Misses /\ ~ NeedsWrite(Victim) /\ InFile
  /\ LET f == call.f
         d == disk[ff_files[f].path]
         pos == SeekTo(f, CurBlk)
         got == IF ReadFlag THEN ReadLen(d, pos) ELSE 0
         c == IF ReadFlag THEN got ELSE BSIZE
     IN  /\ Fill(Victim, c, FALSE, [i \in Off |->
              IF i < got /\ pos + i \in Addr THEN d.at[pos + i] ELSE Hole])
         /\ ff_files' = Moved(f, pos + got, RealblkAfterGet(CurBlk, c))
  /\ UNCHANGED <<disk, ff_streams, ff_flist, call, filter>>

(* read(2) fails: the victim is out of its old queue and in no new one. *)
LoadFails ==
  /\ Misses /\ ~ NeedsWrite(Victim) /\ InFile /\ ReadFlag /\ FailReads
  /\ ff_buf' = Released({Victim})
  /\ ff_files' = Moved(call.f, SeekTo(call.f, CurBlk), ff_files[call.f].fn_realblk)
  /\ Return("err")
  /\ UNCHANGED <<disk, ff_streams, ff_flist, filter>>

-----------------------------------------------------------------------------
(* ff_seek and ff_read (ff_getc, ff_point): the caller's request, one pass *)
(* per block, and the return.                                              *)

Open(s) == ff_streams[s].f_file # NoFile
SizeOf(s) == ff_files[ff_streams[s].f_file].fn_size

BeginRead(s, at, n) ==
  /\ Idle /\ Open(s) /\ at <= SizeOf(s)
  /\ call' = Request("read", 0, ff_streams[s].f_file, at, n, Hole)
  /\ UNCHANGED <<disk, ff_files, ff_streams, ff_buf, ff_flist, filter>>

(* Mutant of ReadChunk: the end of the file is only looked for first. *)
ReadChunkPastEnd(b) ==
  /\ call.op = "read" /\ Fetching /\ b \in Have(call.f, CurBlk)
  /\ CurOff < ff_files[call.f].fn_size
  /\ call' = [call EXCEPT
       !.done = @ + ChunkLen,
       !.got = @ \o [i \in 1 .. ChunkLen |-> ff_buf[b].fb_buf[Rem(CurOff) + i - 1]]]
  /\ ff_flist' = Touch(b)
  /\ UNCHANGED <<disk, ff_files, ff_streams, ff_buf, filter>>

ReadChunk(b) ==
  /\ call.op = "read" /\ Fetching /\ b \in Have(call.f, CurBlk)
  /\ LET left == ff_files[call.f].fn_size - CurOff
         rn == Lesser(ChunkLen, left)
     IN  /\ left > 0
         /\ call' = [call EXCEPT
               !.done = @ + rn,
               !.got = @ \o [i \in 1 .. rn |-> ff_buf[b].fb_buf[Rem(CurOff) + i - 1]]]
  /\ ff_flist' = Touch(b)
  /\ UNCHANGED <<disk, ff_files, ff_streams, ff_buf, filter>>

ReadEOF(b) ==
  /\ call.op = "read" /\ Fetching /\ b \in Have(call.f, CurBlk)
  /\ CurOff >= ff_files[call.f].fn_size
  /\ ff_flist' = Touch(b)
  /\ Return("ok")
  /\ UNCHANGED <<disk, ff_files, ff_streams, ff_buf, filter>>

ReadReturn ==
  /\ call.op = "read" /\ ~ Fetching
  /\ Return("ok")
  /\ UNCHANGED <<disk, ff_files, ff_streams, ff_buf, ff_flist, filter>>

-----------------------------------------------------------------------------
(* ff_seek and ff_write (ff_putc). *)

(* Callers write at the end of the file or before it, and unless Overwrite *)
(* is set never a whole block that is already part of the file.            *)
WriteAllowed(at, n, sz) ==
  /\ at <= sz /\ at + n <= MaxBlk * BSIZE
  /\ Overwrite \/ \A blk \in 0 .. MaxBlk - 1 :
       ~ (at <= blk * BSIZE /\ (blk + 1) * BSIZE <= at + n /\ blk * BSIZE < sz)

BeginWrite(s, at, n, v) ==
  /\ Ready /\ Open(s) /\ ff_streams[s].f_mode
  /\ WriteAllowed(at, n, SizeOf(s))
  /\ call' = Request("write", 0, ff_streams[s].f_file, at, n, v)
  /\ UNCHANGED <<disk, ff_files, ff_streams, ff_buf, ff_flist, filter>>

(* The bytes of a pass go into the buffer, which then counts `count` and is *)
(* dirty or not.                                                           *)
WriteChunkAs(b, count, wflg) ==
  /\ call.op = "write" /\ Fetching /\ b \in Have(call.f, CurBlk)
  /\ LET from == Rem(CurOff)
         to == from + ChunkLen
     IN  Fill(b, count, wflg, [i \in Off |->
           IF i \in from .. to - 1 THEN call.v ELSE ff_buf[b].fb_buf[i]])
  /\ call' = [call EXCEPT !.done = @ + ChunkLen]
  /\ ff_flist' = Touch(b)
  /\ UNCHANGED <<disk, ff_files, ff_streams, filter>>

(* Mutants of WriteChunk: the count is added to, not raised; the buffer is  *)
(* not marked.                                                             *)
WriteChunkAdds(b) == WriteChunkAs(b, ff_buf[b].fb_count + ChunkLen, TRUE)
WriteChunkUnmarked(b) ==
  WriteChunkAs(b, Greater(Rem(CurOff) + ChunkLen, ff_buf[b].fb_count), ff_buf[b].fb_wflg)

WriteChunk(b) ==
  WriteChunkAs(b, Greater(Rem(CurOff) + ChunkLen, ff_buf[b].fb_count), TRUE)

WriteReturn ==
  /\ call.op = "write" /\ ~ Fetching
  /\ ff_files' = [ff_files EXCEPT ![call.f].fn_size = Greater(@, CurOff)]
  /\ Return("ok")
  /\ UNCHANGED <<disk, ff_streams, ff_buf, ff_flist, filter>>

-----------------------------------------------------------------------------
(* ff_flush and ff_sync.  Each dirty buffer of the file goes out in turn   *)
(* (WriteBack) and stays in the cache.                                     *)

Quiet == UNCHANGED <<disk, ff_files, ff_streams, ff_buf, ff_flist, filter>>

BeginFlush(s) == Open(s) /\ Begin("flush", s, NoFile) /\ Quiet

FlushReturn == call.op = "flush" /\ Flushed = {} /\ Return("ok") /\ Quiet

BeginSync == Begin("sync", 1, NoFile) /\ Quiet

(* ff_flush of a stream that is not open is an error, and ends the loop.   *)
SyncBadStream == call.op = "sync" /\ ~ Open(call.s) /\ Return("err") /\ Quiet

SyncNext ==
  /\ call.op = "sync" /\ Open(call.s) /\ Flushed = {}
  /\ IF call.s < NStream THEN call' = [call EXCEPT !.s = @ + 1] ELSE Return("ok")
  /\ Quiet

-----------------------------------------------------------------------------
(* ff_grow: another process may have appended to the file.                 *)

BeginGrow(s) ==
  /\ Idle /\ Open(s)
  /\ filter.f \in {NoFile, ff_streams[s].f_file}
  /\ call' = Request("grow", 0, ff_streams[s].f_file, 0, 0, Hole)
  /\ Quiet

(* Mutant of GrowReturn: the last block stays in the cache. *)
GrowKeepsBlock ==
  /\ call.op = "grow"
  /\ \A b \in PutNext : ~ NeedsWrite(b)
  /\ ff_files' = [ff_files EXCEPT ![call.f].fn_size =
                    Greater(@, disk[ff_files[call.f].path].len)]
  /\ Return("ok")
  /\ filter' = NoFilter
  /\ UNCHANGED <<disk, ff_streams, ff_buf, ff_flist>>

GrowReturn ==
  /\ call.op = "grow"
  /\ \A b \in PutNext : ~ NeedsWrite(b)
  /\ ff_buf' = Released(PutNext)
  /\ ff_files' = [ff_files EXCEPT ![call.f].fn_size =
                    Greater(@, disk[ff_files[call.f].path].len)]
  /\ Return("ok")
  /\ filter' = NoFilter
  /\ UNCHANGED <<disk, ff_streams, ff_flist>>

(* A filter started by the editor writes k bytes onto the end of the file  *)
(* (runlines), through a descriptor of its own that it positions at        *)
(* fn_size.  Built with -DBUILTINFILL the editor does it itself, through   *)
(* fopen (.., "w") (callines).  An aborted filter or an aborted write can  *)
(* leave bytes past fn_size; unless Untidy is set, no filter starts then.  *)
Tidy(f) ==
  /\ disk[ff_files[f].path].len <= ff_files[f].fn_size
  /\ \A b \in Queue(f) :
       ff_buf[b].fb_bnum * BSIZE + ff_buf[b].fb_count <= ff_files[f].fn_size

Truncated == [len |-> 0, at |-> [a \in Addr |-> Hole]]

Filter(s, k, v) ==
  /\ Ready /\ Open(s) /\ ff_streams[s].f_mode
  /\ LET f == ff_streams[s].f_file
         p == ff_files[f].path
         end == ff_files[f].fn_size
     IN  /\ Untidy \/ Tidy(f)
         /\ Dirty(f) = {}
         /\ end + k <= MaxBlk * BSIZE
         /\ disk' = [disk EXCEPT ![p] =
              SysWrite(IF BuiltinFill THEN Truncated ELSE @, end, k, [i \in 0 .. k - 1 |-> v])]
         /\ filter' = [f |-> f, k |-> k]
  /\ UNCHANGED <<ff_files, ff_streams, ff_buf, ff_flist, call>>

(* The user interrupts: the filter is killed, and what it wrote stays.     *)
FilterAborted ==
  /\ Idle /\ filter # NoFilter
  /\ filter' = NoFilter
  /\ UNCHANGED <<disk, ff_files, ff_streams, ff_buf, ff_flist, call>>

-----------------------------------------------------------------------------
(* ff_open and ff_close. *)

Lowest(S) == {x \in S : \A y \in S : x <= y}

FreeStreams == {s \in Stream : ff_streams[s].f_file = NoFile}
FreeFiles   == {f \in File : ff_files[f].fn_refs = 0}
OpenOn(p)   == {f \in File : ff_files[f].fn_refs > 0 /\ ff_files[f].path = p}

(* ff_close failed on some file: its slot counts as free while its buffers *)
(* still belong to it.  The editor only meets this on its way out, and the *)
(* model opens nothing any more.                                           *)
HalfClosed == \E f \in File : ff_files[f].fn_refs = 0 /\ ff_files[f].path # NoPath

OpenStream(s, f, w) ==
  /\ s \in Lowest(FreeStreams)
  /\ ff_streams' = [ff_streams EXCEPT ![s] = [f_file |-> f, f_mode |-> w]]

(* A file that is open already is shared: one Ff_file, one descriptor.     *)
Shared(file, w) == [file EXCEPT !.fn_refs = @ + 1, !.fn_mode = @ \/ w]

OpenShared(p, w) ==
  /\ Ready /\ Len(ff_flist) >= MinPool /\ ~ HalfClosed
  /\ \E s \in Stream, f \in OpenOn(p) :
       /\ OpenStream(s, f, w)
       /\ ff_files' = [ff_files EXCEPT ![f] = Shared(@, w)]
  /\ UNCHANGED <<disk, ff_buf, ff_flist, call, filter>>

OpenNew(p, w) ==
  /\ Ready /\ Len(ff_flist) >= MinPool /\ ~ HalfClosed
  /\ OpenOn(p) = {}
  /\ \E s \in Stream, f \in Lowest(FreeFiles) :
       /\ OpenStream(s, f, w)
       /\ ff_files' = [ff_files EXCEPT ![f] =
            [path |-> p, pos |-> 0, fdw |-> w, fn_refs |-> 1, fn_mode |-> w,
             fn_realblk |-> 0, fn_size |-> disk[p].len]]
  /\ UNCHANGED <<disk, ff_buf, ff_flist, call, filter>>

BeginClose(s) ==
  /\ Open(s)
  /\ LET f == ff_streams[s].f_file
     IN  /\ ff_files' = [ff_files EXCEPT ![f].fn_refs = @ - 1]
         /\ Begin("close", 0, f)
  /\ ff_streams' = [ff_streams EXCEPT ![s] = FreeStream]
  /\ UNCHANGED <<disk, ff_buf, ff_flist, filter>>

CloseRelease(b) ==
  /\ Closing /\ b \in PutNext /\ ~ NeedsWrite(b)
  /\ ff_buf' = Released({b})
  /\ UNCHANGED <<disk, ff_files, ff_streams, ff_flist, call, filter>>

CloseShared ==
  /\ call.op = "close" /\ ~ Closing
  /\ Return("ok")
  /\ Quiet

CloseReturn ==
  /\ Closing /\ Queue(call.f) = {}
  /\ ff_files' = [ff_files EXCEPT ![call.f] = FreeFile]
  /\ Return("ok")
  /\ UNCHANGED <<disk, ff_streams, ff_buf, ff_flist, filter>>

-----------------------------------------------------------------------------
(* The operations of the package, and the filters. *)

PoolStep  == BeginFree \/ FreeBuf \/ \E b \in Buf : Alloc(b)
PutStep   == \E b \in Buf : WriteBack(b) \/ WriteBackFails(b)
LoadStep  == LoadNew \/ LoadBlk \/ LoadFails
FlushStep == FlushReturn \/ \E s \in Stream : BeginFlush(s)
SyncStep  == BeginSync \/ SyncBadStream \/ SyncNext
GrowStep  == GrowReturn \/ \E s \in Stream : BeginGrow(s)
OpenStep  == \E p \in Path : \E w \in Modes[p] : OpenShared(p, w) \/ OpenNew(p, w)

Places == 0 .. MaxBlk * BSIZE

ReadStep ==
  \/ \E s \in Stream, at \in Places, n \in ReadLens : BeginRead(s, at, n)
  \/ \E b \in Buf : ReadChunk(b) \/ ReadEOF(b)
  \/ ReadReturn

WriteStep ==
  \/ \E s \in Stream, at \in Places, n \in WriteLens, v \in Byte : BeginWrite(s, at, n, v)
  \/ \E b \in Buf : WriteChunk(b)
  \/ WriteReturn

CloseStep ==
  \/ \E s \in Stream : BeginClose(s)
  \/ \E b \in Buf : CloseRelease(b)
  \/ CloseShared \/ CloseReturn

FilterStep ==
  FilterAborted \/ \E s \in Stream, k \in WriteLens, v \in Byte : Filter(s, k, v)

Next ==
  \/ PoolStep \/ PutStep \/ LoadStep \/ ReadStep \/ WriteStep \/ FlushStep
  \/ SyncStep \/ GrowStep \/ FilterStep \/ OpenStep \/ CloseStep

Spec == Init /\ [][Next]_vars

-----------------------------------------------------------------------------
(* Properties. *)

(* Every variable holds a value of its type; in particular a buffer never  *)
(* holds more than FF_BSIZE bytes (the checks under DEBUG in ff_write and  *)
(* ff_putblk).                                                             *)
TypeOK ==
  /\ disk \in [Path -> Disks]
  /\ ff_files \in [File -> Files]
  /\ ff_streams \in [Stream -> Streams]
  /\ ff_buf \in [Buf -> Buffers]
  /\ ff_flist \in Seq(Buf)
  /\ call \in Calls
  /\ filter \in [f : File \cup {NoFile}, k : Nat]

(* No block of a file is in two buffers: ff_haveblk returns the first it   *)
(* meets, so a second copy would hide what was written to the first.       *)
OneCopy ==
  \A b, c \in Buf :
    /\ ff_buf[b].fb_file # NoFile
    /\ ff_buf[c].fb_file = ff_buf[b].fb_file
    /\ ff_buf[c].fb_bnum = ff_buf[b].fb_bnum
    => b = c

(* fn_realblk is the image of the system's file position (ff.h): unless it *)
(* is -1, fn_fd stands at the start of that block.                         *)
PosImage ==
  \A f \in File :
    ff_files[f].path # NoPath /\ ff_files[f].fn_realblk # -1
      => ff_files[f].pos = ff_files[f].fn_realblk * BSIZE

Covers(b, f, a) == ff_buf[b].fb_file = f /\ ff_buf[b].fb_bnum = Blk(a)

(* A byte of the file that no dirty buffer is about to write is on disk,   *)
(* and any buffer that covers it agrees with the disk.  Losing a buffer    *)
(* that is not dirty, or the tail of one past fb_count, loses nothing.     *)
CleanAgrees ==
  \A f \in File : ff_files[f].path # NoPath =>
    \A a \in Addr : a < ff_files[f].fn_size =>
      LET d == disk[ff_files[f].path]
      IN  /\ \A b \in Buf : Covers(b, f, a) /\ (ff_buf[b].fb_wflg => Rem(a) >= ff_buf[b].fb_count)
                 => a < d.len /\ ff_buf[b].fb_buf[Rem(a)] = d.at[a]
          /\ (\A b \in Buf : ~ Covers(b, f, a)) => a < d.len

(* What a caller of the package sees of file f at address a. *)
Seen(f, a) ==
  IF \E b \in Buf : Covers(b, f, a)
    THEN ff_buf[CHOOSE b \in Buf : Covers(b, f, a)].fb_buf[Rem(a)]
    ELSE disk[ff_files[f].path].at[a]

(* ff_flush and the last ff_close return success only when every byte of   *)
(* the file is on disk.                                                    *)
OnDisk(f) ==
  LET d == disk[ff_files[f].path]
  IN  /\ d.len >= ff_files[f].fn_size
      /\ \A a \in Addr : a < ff_files[f].fn_size => d.at[a] = Seen(f, a)

FlushIsDurable ==
  [][ Idle' /\ call'.ret = "ok" =>
        /\ call.op = "flush" /\ ff_streams[call.s].f_mode => OnDisk(ff_streams[call.s].f_file)
        /\ Closing => OnDisk(call.f) ]_vars

(* "Ff_sync writes out all the dirty buffers in the cache" (Doc), when no   *)
(* write fails.                                                            *)
SyncWritesAll ==
  [][ call.op = "sync" /\ Idle' => \A b \in Buf : ~ NeedsWrite(b) ]_vars

(* ff_grow "nails down the new size" of the change file (receive): what it  *)
(* adds to the file is the output of the filter that has just run.         *)
ReceivesFilterOutput ==
  [][ call.op = "grow" /\ filter # NoFilter /\ Idle' /\ call'.ret = "ok" =>
        \A f \in File : f = filter.f =>
          ff_files'[f].fn_size = ff_files[f].fn_size + filter.k ]_vars

(* A filter adds to the end of the change file: with its last block written *)
(* out first nothing in it gets clobbered (the comment in runlines and     *)
(* callines).                                                              *)
FilterClobbersNothing ==
  [][ Idle /\ Idle' => \A f \in File : ff_files[f].path # NoPath =>
        \A a \in Addr : a < ff_files[f].fn_size =>
          disk'[ff_files[f].path].at[a] = disk[ff_files[f].path].at[a] ]_vars

(* The package implements FileStore: the bytes of a file are those in the  *)
(* buffers, where there are any, and those on disk elsewhere.              *)
SlotsOf(p) == {f \in File : ff_files[f].path = p}

AbsSize == [p \in Path |->
  IF SlotsOf(p) = {} THEN disk[p].len
  ELSE ff_files[CHOOSE f \in SlotsOf(p) : TRUE].fn_size]

AbsData == [p \in Path |-> [a \in Addr |->
  IF a >= AbsSize[p] THEN Hole
  ELSE IF SlotsOf(p) = {} THEN disk[p].at[a]
  ELSE Seen(CHOOSE f \in SlotsOf(p) : TRUE, a)]]

AbsCall ==
  [op |-> call.op, p |-> IF call.f = NoFile THEN NoPath ELSE ff_files[call.f].path,
   at |-> call.at, n |-> call.n, v |-> call.v, done |-> call.done,
   got |-> call.got, ret |-> call.ret]

FS == INSTANCE FileStore WITH size <- AbsSize, data <- AbsData, call <- AbsCall

ImplementsFileStore == FS!Spec
=============================================================================

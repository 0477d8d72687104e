# The RAND editor: models, checks, proofs

This directory holds TLA+ models of the parts of the RAND editor (`e20`) that
keep the user's text: the buffered file package `ff3/`, the line package
`la1/`, and, above them, the line in hand, the pick, close and erase buffers,
the saving of files, and the recovery of sessions that crashed.

| abstract | detailed | models | TLC | TLAPS |
|---|---|---|---|---|
| `FileStore`: an array of bytes per file | `FF` | ff3: buffers, queues, system calls, filters | `MCFF` | `FFProofs`, `FFDataProofs` |
| `LineFile`: a sequence of lines per file | `LA` | la1: fsds, chains, streams, change file | `MCLA` | `LAInvariant`, `LAChainProofs`, `LAProofs` |
| `Reader`: lines of bytes, read through streams | `LineBytes` | la1: encoded lengths, reading, seeking, flushing | `MCLineBytes` | |
| `Text`: edits of lines of files | `CLine` | e20: the line in hand, windows, workspaces | `MCCLine` | `CLineProofs` |
| `Buffers`: what each buffer holds | `QBuf` (over `LineFile`) | e20: pick, close, erase, adjust, run buffers in #p and #o | `MCQBuf` | `QBufProofs` |
| | `Save` | e20: names, deletion, saving, system call by system call | `MCSave` | `SaveProofs` |
| | `Session` | e20: versions, locks, key stroke files, recovery | `MCSession` | `SessionProofs` |

Every detailed module is shown, by TLC, to implement the abstract one beside
it. `QBuf` takes what LA does to lines and streams from `LineFile`, which `LA`
implements, so that the two compose; `CLine` and `QBuf` divide the commands
between the line in hand and the buffers. `PROJECT.json` has components, runs,
mutants, the map to the source, findings and hazards.

Contents: 1 inventory; 2 the models; 3 the runs; 4 the proofs; 5 findings and
observations; 6 what is left out; 7 plan.

## 1. Inventory

The editor is one process without threads. What is concurrent in it are the
filters it forks (`fill`, `sort`, any command), which append to a file that the
editor has in its buffers, and the crash of the editor itself, after which the
recorded key strokes are replayed, perhaps while other editors run in the same
directory. What makes it hard is sharing of another
kind: many streams into one file, all moved by each other's edits; fsds (pieces
of files) that one file's chain takes from another's; blocks of many files in a
handful of buffers; and every step of an operation that may fail.

    e20  ---- GetLine/putline, edlines, savefile, runlines ----
      |  streams: one per window, the line cache, pick/close/erase buffers
      v
    la1  ---- la_linsert, la_ldelete, la_lcopy, la_lseek, ... ----
      |  chains of fsds; new lines go to the end of the change file
      v
    ff3  ---- ff_read, ff_write, ff_flush, ff_grow, ... ----
      |  blocks in buffers, least recently used first
      v
    read(2) write(2) lseek(2)          filters: append to the change file
                                       behind ff3's back

| component | state | operations | hard | correct when |
|---|---|---|---|---|
| `ff3/` buffered files | `ff_files`, `ff_streams`, buffers with file, block, count and mode; per file size, mode, position of the system | open, close, read, write, seek, flush, sync, free, grow, sort | a buffer is reused, of another file, in the middle of a call; short and failing transfers; files that grow behind it | callers see one array of bytes per file; a successful flush is on disk; `fn_realblk` is the system's position |
| `la1/` files as lines | `La_fsd` chains, `La_file` (counts, mode), `La_stream` (place, reserved lines), change file, collection | open, clone, close, insert, delete/move, copy, replace, blank, collect, seek, align | breaks and links move other streams; operations fail half way; fsds are shared by files | an edit takes effect at once or not at all; every stream stays at its text; counts are exact |
| `la1/` bytes of lines | encoded line lengths in fsds | `la_parse`, `la_lget`, `la_clseek`, `la_lflush` | long lines, 8-bit and 16-bit fields | what is read back is what was put in |
| filters (`e.ru.c`) | the pipe, `chgend`, the child | `runlines`, `receive`, `callines` | child and parent write to one file; interrupts | the filter's output, all of it and nothing else, replaces the lines |
| editing (`e.e.c`, `e.put.c`, `e.u.c`) | qbufs: streams into #p and #o that have reserved lines | open, close, pick, erase, put, split, join, boxes | four buffers share #o, to which everything that goes is appended, and which may be edited too; failures half way | what was taken last is what is put |
| line cache (`e.la.c`) | `cline`, `ncline`, `fcline`, `clinelas` | `GetLine`, `putline` | deferred write back over a file that has changed | no edit is lost or put elsewhere |
| names and saving (`e.nm.c`, `e.q.c`, `e.sv.c`) | `fileflags`, `names`, `oldnames`; temporary, backup and original file | edit, name, delete, update, `savefile`, `saveall` | names that files exchange; failures and crashes between unlink, rename, write; inodes under streams | at each moment some file holds the old text or the new; YES means all is done |
| windows, workspaces, marks (`e.wk.c`, `e.wi.c`, `e.mk.c`) | streams per window | split, remove, switch | streams of closed windows | each window shows its own file |
| start-up and recovery (`e.c`, `e.sb.c`, `e.t.c`) | `.ek` and `.ec` files by version, locks, the replay | choose, lock, move aside, replay, exit, crash | crashes at any step, of a recovery too; other sessions in the directory | no key stroke is lost; files are a session's own |
| macros and keys (`e.record.c`, `e.macro.c`, `e.keys.c`) | tables of keys | record, play | sequential | out of scope here |
| main loop, screen, keyboard | input queue, screen image | commands, drawing | wording and layout | out of scope here |

`fill/` are separate sequential filters; `Yost/`, `t_xcolor/`, `termcap*/` are
older copies and third-party code. `Yost/la3/doc/Doc.n` and `ff3/Doc` are the
documents of the two packages and are quoted in the findings.

The hazards, each at its line with the properties that cover it, are in
`PROJECT.json`.

## 2. The models

### FF and FileStore

`FileStore` has the contents of each file and the requests of callers: a read
returns the bytes that are there, a write replaces them, and if it is cut short
it says how far it got. `FF` has the package's own state:

| FF | ff3 |
|---|---|
| `disk[p]` | what the system has: the length and the bytes of each file |
| `ff_files[f]` | an `Ff_file`: `fn_refs`, `fn_mode`, `fn_size`, `fn_realblk`, and the descriptor `fn_fd` as the system sees it: which file, at what position, open for writing or not |
| `ff_streams[s]` | an `Ff_stream`: `f_file`, `f_mode` (the position is in each request) |
| `ff_buf[b]` | an `Ff_buf`: `fb_file`, `fb_bnum`, `fb_count`, `fb_wflg`, its bytes |
| `ff_flist` | the buffers, most recently used first |
| `call` | the operation in progress |
| `filter` | the filter that appends to a file, and what it writes |

An operation begins, takes one step per block, and returns; each step that needs
a buffer takes a victim, writes it back if it is dirty (`WriteBack`,
`WriteBackFails`), reads the new block (`LoadBlk`, `LoadFails`) and copies
bytes. Nothing else happens during a call: the package has no threads; but
which system call fails, and how short a transfer stops, is open at each one.
`Filter`, `FilterAborted` and `Truncated` are what `e.ru.c` does to the change
file between calls.

Simplifications: the queue of a file is the set of buffers with that `fb_file`
(its order matters only after `ff_sort`); `ff_seek` is part of the request;
failing `open` and `stat` change nothing; EINTR is retried; bytes of a buffer
that were never read or written are a value of their own, `Hole`; a slot whose
close failed (close.c:23-31) is not opened again; callers do not seek past the
end; while a filter runs the editor only reads, then grows the file or abandons
it; the filter starts with nothing dirty (e.ru.c:428, whose result is not
looked at); a filter that goes on after an abort of the parent is not modelled.
`ff_open` leaves `f_file` set when open(2) fails (open.c:125-131), `ff_fdopen`
takes a descriptor not at its start (open.c:134), and the counters are chars
(ff.h:37-39): these are not in the model.

### LA and LineFile

`LineFile` has the lines of each file, the places of the streams and the request
in progress. `Ask` makes a request, `Grant` carries out exactly what it asked for
in one step and reports success, `GiveUp` reports an error and leaves every file
as it was. `LA` has

| LA | la1 |
|---|---|
| `fsd[d]` | a `La_fsd`: in which file, from which line, how many |
| `chain[f]` | `la_ffsd` to `la_lfsd`, without the empty one at the end |
| `laf[f]` | a `La_file`: `la_refs`, `la_fsrefs`, `la_nlines`, `LA_MODIFIED` |
| `las[s]` | a `La_stream`: `la_cfsd`, `la_fsline`, `la_lpos`, `la_rlines`, `LA_STAY` |
| `chg` | the change file |
| `coll` | `prevstate`, `chgpos`, `nxchgpos` of lalcol.c |
| `call` | the operation in progress, with the steps it has yet to take |

An operation is a sequence of steps in `call.todo`, in the order of the source:
`la_linsert` is `<<"zp", "parse", "write", "link">>`, `la_ldelete` that moves
lines `<<"del", "zd", "break", "bend", "unlink", "place">>`; `la_lreplace`,
`la_blank` and `la_lrcollect` are made of the steps of the others, as in the
code. A step that needs an fsd can fail (`Fail`): what was made is freed, and
what `la_lreplace` or `la_blank` had linked in is sought and deleted again
(`Undo`). `Seek` is `la_lseek` with its three routes, so that an inexact
`la_nlines` or `la_fsline` would take a stream to the wrong fsd.

`LA` implements `LineFile`: in the middle of an operation the abstract state is
what it was when it began, and the request what the caller asked for
(`call.was`); at its return it is what the chains and the streams are by then. So an edit takes effect when it
returns, whole and as it was asked for, or fails and takes none. The request is
part of the abstract state on purpose: without it a copy of too few lines would
pass for a copy of fewer.

Simplifications: a place is a line, bytes within a line are left out; how many
lines `la_parse` puts into an fsd is any number up to `LA_FSDLMAX`, since it
depends on their lengths; opening a file that is open is `Clone`;
`la_chglas` and `la_blank`'s stream on the change file are there from the
start; the second stream of `la_break` is the value of `Seek`; callers replace
and make blanks only on streams that do not stay (no caller in `e20` does
otherwise), insert and collect at least one line, and close files whose lines
are nowhere else, unless `CloseShared`; a copy starts only with memory for all
of it and runs out only before its first fsd is made (what `la_freefsd` does
otherwise, lalcopy.c:89-93, is undefined).

### LineBytes and Reader

`LA` leaves out the bytes of a line; `LineBytes` has one file, and those.
`la_parse` encodes the length of a line in one char, or, negated, in two; cuts
fsds before they outgrow their chars and their short; and gives a line that is
too long, or has no newline, an fsd of its own (`ParseLine`). A stream has
`la_fsbyte`, `la_lbyte` and `la_ffpos` besides its place: `la_lseek` (`Walk`,
forward from an fsd's beginning or backward from where it is, `BackOver` telling
a length's second byte by the sign of the first), `la_break`, `la_linsert` and
`la_ldelete` have to keep them exact (`StreamsExact`). `Reader` knows lines of
bytes and streams at bytes of them; `la_lget`, `la_clseek` and `la_lpnt`
implement it, the newline that is missing on disk included. `la_lflush` fills a
buffer of `BUFSIZ` line by line and writes it (`FlushGet`, `FlushWrite`); a
write may be short, be cut by the alarm, or by the user. `la_lcount` is a
function, compared with what its comment says of paragraphs.

Simplifications: one file and one edit; memory does not run out (that is in
`LA`); the widths are scaled.

### CLine and Text

`Text` is what the user sees: an edit changes the lines it names, of the file he
is in. In `CLine` (e.la.c) the line in hand is `st.line`, of stream `st.las`
(`clinelas`) and number `st.no`; `st.f` is `fcline`, `st.x` `xcline`. `GetLine`
and `putline` are functions on that state; every command of e.e.c that goes
through the line in hand, the display (`credisplay`), and what e.wi.c, e.wk.c and
e.u.c do to windows, workspaces and their streams are actions. The refinement
maps the files with the line in hand put in its place (`seen`) to `Text`.

Simplifications: two windows with two workspaces each; the top line of a window
is chosen anew wherever it is shown; #o and #p are in no window; the default
file of `editfile` is one of the two. The results of `pkarg` and of rectangles
are words of their own, not computed.

### QBuf and Buffers

A buffer has no lines: it is a stream (`buflas`) that has reserved lines of #p
(pick) or #o (all others). `Buffers` has neither #p nor #o: `held[b]` is what was
last taken into `b`, with the user's file `text`. In `QBuf`, `st.text` has the
lines of the three files, `st.las` the streams (`fnlas`, `curlas`, `buflas`) and
`st.ncols` whether a buffer is a rectangle. `edlines` is `Begin`, `AtEnd`, a
call of LA that moves or copies the lines, `End`, in the order of the source;
`edrect` is `WriteOut` and `Rewrite`; `dojoin` and `receive` are composed of the
same steps. `LF!Move`, `LF!Ins` and `LF!LinesAt` are those of `LineFile`: which
streams are pushed, stay, lose their reservation. `cmd` records the command that
was given; `TakesWhatIsAsked` compares it with what the buffer has then, in #p
and #o too, and the refinement (`ImplementsBuffers`) says that no other buffer
is ever disturbed, by any command in any file.

Simplifications: a line is its part left of the rectangle and its part in it; how
overlay, underlay and blot mix two texts, and what an insertion pushes to the
right, are left out. The line in hand has always been put back (`GetLine (-1)`
begins `ed`). Joins have both join points in the file: left out is a `joinmark`
whose mark reaches behind the end (`dojoin` cuts it short, e.e.c:296-297; a plain
join returns before that, e.e.c:240-242). A copy from #o into the same fsd of #o (section 5, `SameFsdCopy`) is
taken to be what `LineFile` says.

### Save

`disk` maps names to inodes and `data` inodes to texts, since a stream goes on
reading the inode it has open, whatever its name is now. `file` is the table
(`fileflags`, `names`, `oldnames`, whether the stream in `lastlook` is open, and of
the La_file the inode, `LA_MODIFIED` and the text shown). A La_file is one for
each inode, as `la_open` finds it (laopen.c:161-170): `Streams(i)` are the entries
that have a stream of the same one, and what is changed or marked through one is
changed for all. `delete` closes `fnlas[curfile]` and not the clone in `lastlook`
(e.nm.c:193, e.u.c:353), so the La_file of a deleted file stays open, with its text
and its inode, and editing another link of that file finds it there; the passing
runs have users not do so (`Reopen = FALSE`; section 5 has what happens when they
do). The delete command is compiled with `DELETE` only, which e.h:39 has commented
out and Ifdefs:54 undefines: `DELETE` is a constant, TRUE in the runs, any value in
the proofs. `savefile` and `saveall` take a step per system call
(`SaveStep`, `pc`), each of which may fail and take the error path of the code;
`Crash` may come between any two. The commands edit, delete, update, save and
exit are one action each, name is two (`NameBack`, `NameTo`).

Simplifications: users do not edit the backup (comma) files themselves; a name in
a writeable directory can be unlinked; `ff_close` in `la_freplace` succeeds;
files and directories are writeable, so that `DWRITEABLE` and `CANMODIFY` are one
flag. Not followed is a session whose next free entry of the table still has an
open stream in `lastlook` (`la_clone` at e.u.c:353 makes a stream over the open
one; see the end of section 5). `mv`'s results are ignored as in the code (e.sv.c:278-280): such a failure
sets `ignored`, and what a later exit promises is not asked for then. Those are
the runs in which `saveall` says YES though a file was not saved under its name.

### Session

`ek[v]`, `bek[v]` are the key stroke files with version `v` and those moved aside,
`ec[v]` whose change file has the name, `rec[i]` the keys in an inode, `holder`
the locks. A session (`pc[p]`) goes through the start-up of e.c step by step:
`PickVersion`, `Scan`, the three answers, `MoveKeys`, `CreateKeys`, `LockKeys`,
`LoadScript`, `OpenChanges`, `Ready`, the replay, and editing. It leaves by `Exit`,
`ExitAbort`, `getout`, `fatal` or `Kill`, each of which puts back, removes or
leaves what the code does at that point.

Simplifications: a key is in the file when it is typed (it is in a stdio buffer
until `flushkeys`, every `MAXTYP` keys or every minute); the option `-replay`,
running without tracks and the question `2 ?` are left out; so is what stdio
does when `getout` flushes a key stroke file that has been closed, and a rename of
the key stroke file that fails at e.c:1476, whose result nobody looks at (the keys
to replay would be truncated by the next line).

## 3. The runs

`Save` states fairness, and `SavingEnds` is the liveness property: `WF(SaveStep)`
says that the code of `savefile` and `saveall` runs on. It is justified because
there is one thread, its loops go through the table once, and every system call
in them returns, with success or failure; the user is not assumed to do
anything, and neither is the disk to work. Elsewhere nothing waits: a call
returns because its steps run out, and the deadlock check of TLC shows that some
step is always possible.

| run | instance | shows |
|---|---|---|
| `ff_cache` | 2 files, 2 streams, 3 buffers, blocks of 2 bytes, filters, no failures | with fewer buffers than blocks, callers see one array of bytes per file; `fn_realblk` is exact; clean buffers agree with the disk |
| `ff_failures` | any write fails or stops short | the same; a flush or a last close that succeeds has everything on disk |
| `ff_read_errors` | any read fails too | a block is in one buffer at most |
| `la_streams` | 1 file of 3 lines, 2 streams that stay and reserve, 1 edit, fsds of up to 3 lines | an edit by one stream leaves the other at its text and its reservation honest; collections; undo |
| `la_files` | 2 files, 2 streams, 2 edits, fsds of up to 2 lines | fsds move between files, are copied and freed: each is in one place, `la_fsrefs` is exact, failures undo |
| `line_bytes` | 5 files of lines at the limits of the encoding, 2 streams, 1 edit, a flush with short and interrupted writes | streams stay at their bytes; reads give the right bytes; a flush tells how many lines are out; paragraphs are counted |
| `cline` | 2 files of up to 3 lines, 2 windows, 4 workspaces, 2 edits, any moves | the line in hand is never stale, nor of a window that is gone; no typed line is lost or put elsewhere |
| `qbuf` | a file of 2 lines, 3 commands on 2 lines, rectangles, LA out of memory | every buffer holds what it was given last, and puts just that |
| `save` | 2 names, 2 table entries, any call failing, a crash anywhere, 2 exits | some name always has the old text or the new; YES means all is saved; backups; permanent actions come last; saving ends |
| `session` | 5 sessions of 2 processes, 2 versions, 3 keys, crashes, aborts, kills | no key is lost; no session touches another's files |
| `save_tangle`, `cline_same` | small | the findings of section 5 |

Bounds. Three buffers are the least with which the package moves the tail of its
list (open.c:316), and blocks of two bytes give whole, partial and last blocks;
two files make buffers change hands. For `la1`, three lines in fsds of up to
three give every way to break (at an end, twice, in three within one fsd), for
each of the ways `la_parse` may have cut the file. One edit after any seeking,
staying, reserving and cloning shows what it does to another stream (streams
still seek after the last edit, but reserve nothing any more); two edits
show an operation on chains, and on memory, that another has left behind. Files
may have four lines at most: requests that are too long happen. `Counts`
includes more lines than there are from most places, and, in `la_files`, more
than an fsd holds, so that blanks are made in two chunks and the second fails.
Six fsds run out. Not reached by these bounds: three files, and three streams at
one place (each stream is set right independently of the others).

For `line_bytes` the widths are scaled: `LA_NLLINE` 7 is 2, so that lengths up to
3 take one byte, up to 19 two, and longer lines are special; `LA_FSDLMAX` 127
is 3, `LA_FSDBMAX` 255 is 6, `LA_FSDNBMAX` 32767 is 31, `BUFSIZ` 8 and
`FF_BSIZE` 16. The five files have lines at 1, 3, 4, 19 and 20 characters, an
fsd that is full in each of the three ways, and a missing newline at the end of
a special line and of another. A flush begins where `FlushAt` says.

For `cline`, two edits are a typed line and one that would put it in the wrong
place; moves are not bounded. `Rows = 2` (for one row see section 5). For
`qbuf`, three commands are one that takes, one that may disturb, one that puts
or disturbs again; a count of two with a file of two lines is also one line (the
last) and more than there are. Adjust
and run are used alike, which the symmetry uses. For `save`, two files are what
it takes to exchange names, with one disk where an old backup is there and one
where two names are links; `save_tangle` has three names. Exiting twice is a
retry. For `session`, five starts are a session, its recovery, the recovery of
that, and two beside them.

`CHECK_DEADLOCK FALSE` is set where the system does stop: `save`, `save_tangle`
(exit, crash), `session` (bounds on starts), `qbuf` and `cline_same` (bounds on
the edits).

## 4. The proofs

What TLC finds on small instances these modules prove for every value of the
constants. Where a theorem assumes that a constant is FALSE, that constant is one
of section 5's: it stands for something the code really does, TLC shows that the
property is violated when it is TRUE, and the passing runs set it to FALSE too.

| module | theorem | property | assumed |
|---|---|---|---|
| `FFProofs` | `TypeCorrect` | `TypeOK` | |
| | `OneCopyCorrect` | `OneCopy` | |
| | `PosImageCorrect` | `PosImage` | `~ FailReads`, `~ Overwrite` |
| `FFDataProofs` | `CleanAgreesCorrect` | `CleanAgrees` | `Calm` |
| | `FlushDurable` | `FlushIsDurable` | `Calm` |
| | `Implements` | `ImplementsFileStore` | `Calm` |
| `LAProofs` | `Invariance` | `IInv` (of `LAInvariant`) | `Careful` |
| | `Typed` | `TypeOK` | `Careful` |
| | `Consistency` | `Consistent` | `Careful` |
| | `OnePlace` | `OneChain` | `Careful` |
| | `FsrefsCounted` | `FsrefsExact` | `Careful` |
| | `NeverAborts` | (no abort of lalcopy.c:99) | `Careful` |
| | `TextInvariance` | `JInv` (of `LAInvariant`) | `Careful` |
| | `CollectsApart` | `CollectionApart` | `Careful` |
| | `Tells` | `ModifiedTells` | `Careful` |
| `SessionProofs` | `TypeCorrect` | `TypeOK` | |
| | `OwnFilesCorrect` | `OwnFiles` | `~ Overlap` |
| | `StrokesOfferedCorrect` | `StrokesOffered` | `~ Overlap`, `~ KillRecovering`, `~ StayRecovered` |
| `SaveProofs` | `TypeCorrect` | `TypeOK` | `Careful` |
| | `NamesOnce` | `NameTable` | `Careful` |
| | `NoTextIsLost` | `TextSurvives` | `Careful` |
| | `NoStreamIsTorn` | `EditorKeeps` | `Careful` |
| | `BackupIsKept` | `BackupKept` | `Careful` |
| | `TakenLast` | `PermanentLast` | `Careful`, `RENAME` |
| | `AllIsSaved` | `SavedAll` | `Careful`, `RENAME`, no two of the names links at the start |
| `CLineProofs` | `TypeCorrect` | `TypeOK` | `Careful` |
| | `LineIsCurrent` | `CacheCurrent` | `Careful` |
| | `StreamIsOpen` | `CacheStreamOpen` | `Careful` |
| | `NeverFatal` | `NoFatal` | `Careful` |
| | `Implements` | `ImplementsText` | `Careful` |
| `QBufProofs` | `TypeCorrect` | `TypeOK` | |
| | `TakenRight` | `TakesWhatIsAsked` | `Careful` |
| | `BuffersImplemented` | `ImplementsBuffers` | `Careful` |

### ff3

`FFProofs` is for any number of files, streams and buffers, any size of blocks,
and any failures.

`TypeOK` alone is not inductive. The invariant is

    TypeInv == Types /\ RefsMatch /\ Pooled
    Types   == TypeOK /\ Owned /\ CallOK /\ Attached

`Owned`: a buffer of a file holds a block of it, of 0 .. BSIZE bytes (a free one
has `fb_bnum = -1`, and -1 * BSIZE is no address to seek to). `CallOK`: a call in
progress knows its file, and has a buffer to use. `Attached` and `RefsMatch`: a
file has a descriptor as long as streams refer to it, and `fn_refs` is exactly
their number, so that a close never takes the file from under another stream.
`Pooled`: while a stream is open there are buffers, so that the tail of the list
exists when a victim is wanted. `OneCopy` is then preserved because a buffer is
given a block only in a step whose guard, `Misses`, says that no other has it
(`ff_haveblk`), and every other step gives blocks up or leaves them. `PosInv ==
Image /\ WriteModes /\ PartsOnly` is the invariant for the position: `Image` is
`PosImage` for closed descriptors too; `WriteModes`, that a file may be written
when a stream of it may; `PartsOnly`, that a write in progress takes no whole
block of the file, so that every block it misses is read and the position moves
as `fn_realblk` says.

`FFDataProofs` is about the bytes: that no byte is only in a buffer which may be
taken for another block. It assumes

    Calm == ~ FailReads /\ ~ Overwrite /\ ~ Untidy /\ ~ BuiltinFill

Writes may fail, or stop short, at any time. The rest is where bytes really are
lost: with `FailReads` TLC finds `CleanAgrees` violated, and the other three are
in section 5. `CleanAgrees` speaks of the addresses inside the file, when no call
is looked at; neither is enough for a step. The invariant is

    DataInv == Agree /\ CallInFile /\ Backed /\ OneSlot

`Agree` is about every address a call may yet make part of the file: up to
`Reach(f)`, which is `fn_size` or, while a write is in progress, where it has come
to; and, since `ff_grow` takes the size from the disk, also about the
blocks that a write which failed has left in buffers behind the end.
`CallInFile`: a write begins inside the file or at its end, so that it leaves no
hole, and after its first pass it is at the start of a block; a read stays in the
file. `Backed`: a buffer that holds a block is in the pool, and its file has a
descriptor. `OneSlot`: a path is open in one slot of `ff_files`, so that no other
slot writes the file. The lemma
`AgreeStep` has a step per action; those that do not touch bytes are handled by
comparing what a buffer and the disk hold before and after (`KeepsAgrees`), and
six that do have a lemma each (`WriteBackAgrees`, `WriteBackFailsAgrees`,
`LoadAgrees`, `WriteChunkAgrees`, `GrowAgrees`, `FilterAgrees`).

The second half of `FFDataProofs` is about what callers are promised, also with writes that fail.
Its one assumption on the constants beyond `Calm` is `FitAssumption` of `FF`: the
files that are there at the start have an address for every byte. It adds to
`DataInv`

    FitInv == SizesFit /\ WriteFits /\ DirtyFit /\ CallKnown

so that no byte of a file is outside the addresses that the properties range over.
`FlushDurable` then follows at the last step of a flush (`EndsFlush`): it is taken
when no buffer of the file is dirty, and by `Agree` what no dirty buffer is
about to write is on the disk (`AllOnDisk`).

`Implements` is the refinement of `FileStore`. What callers see of a path (`Views`)
is `fn_size` and, at each address, the buffer that has it or else the disk
(`OpenView`), and the disk alone while no stream is open (`ClosedView`). The lemmas
say which steps leave the view as it is: putting a block, wholly or in part,
because the bytes it puts were seen already (`PutSeen`); taking a buffer, because
what it held was on the disk (`LoadSeen`); closing, because the last close flushes
(`DiskClosed`, `OpenKept`). Only a pass of `ff_write` changes it, and by exactly the
bytes of that pass (`WriteSeen`). The invariant is

    StoreInv == TypeInv /\ PosInv /\ OneCopy /\ DataInv /\ FitInv /\ Wrote

`Wrote`: the passes that a write in progress has made are what is seen, from where
it began to where it has come to. Without it the step that returns could not be
matched with `WriteOK`, which asks for the whole request. Then there is a lemma for
each kind of step: a pass of `ff_read` is `ReadSome`, a pass of `ff_write` is
`WriteSome`, its return is `WriteOK`; the end of `ff_grow`, and of the last
`ff_close` of a file, is `Return` or, when the disk has more than `fn_size`,
`Discover`; a write of a buffer that fails ends the call with `Return`; all other
steps begin a call, return from one or change nothing.

### LA

`LAProofs` is for any number of files, streams, fsds and lines, any texts, any
order of requests, and whatever fails; memory, the number of fsds, may run out at
any step. `Careful == ~ SameFsdCopy /\ ~ CloseShared`, which the theorems spell
out: no copy breaks the very fsd it copies from, and no file is closed whose lines
are in others. Section 5 has what happens otherwise.

`TypeOK` is not inductive: that `la_fsrefs` does not fall below zero takes that it
is exact, and that takes that each fsd is in one place. `OneChain` is not either:
whether the fsds that are freed are in no chain depends on what the step finds
that frees them, and so on how the operation came there. The invariant is

    IInv == Base /\ Script /\ Who /\ Stage /\ NeverAbort
    Base == TypeOK /\ Books /\ InStore /\ Collected

`Books` is what is true of chains and streams at every step: each fsd in use is
in one chain or list (`Placing`), the counts are those of the chains (`Numbered`,
`Refs`, `FsrefsExact`), every stream is in the chain of its file at its line
(`Placed`), files that are not open have no chain (`Shut`). `InStore`: what an fsd
describes is in its file on disk, or in the change file. `Script` gives the order
in which each operation takes its steps, `Who` the streams it works on, `Stage` what
each step finds that those before it have prepared: that the stream is at an end
of an fsd before a chain is linked in; that what is cut out begins and ends at ends of
fsds; how much of a copy is made and what is left of it, which is why its walk never
finds the last fsd missing (`NeverAborts`); and that what a failed `la_lreplace` or
`la_blank` has to take out again is whole fsds (`Cleft`), so that undoing needs no
memory and cannot fail.

TLC checked `IInv` on the instances of `la_streams` and `la_files` first (614683
and 926278 states). In `LAChainProofs` are the facts about chains: the
number of lines before each fsd (`Sums`), what becomes of it when an fsd is broken,
when a chain is linked in or cut out, and where `Seek` takes a stream by each of its
routes; then, for each operation on chains, that it keeps `Books`. They are proved by
induction over the places in a chain, with `Least` and `Induct`: that a set of
naturals which is not empty has a least element, and that one which has 0 and
with each number the next has them all. Each action has a lemma (`...Next`) that it
keeps `IInv`: those that break and cut out are in `LAChainProofs`, the others in
`LAProofs`. A failure is one lemma for all steps (`FailNext`).

`CollectionApart` and `ModifiedTells` are about texts, and take more:

    JInv  == IInv /\ Text1
    Text1 == Appending /\ Uncollected /\ Reading /\ Untouched

`Uncollected` says of every step what `CollectionApart` says of those outside a
collection's end, where the fsds just made describe the lines and no others do.
`Appending`: an insert in progress puts its lines behind all that is in the change
file, and so behind what is being collected. `Untouched`: the fsds of a file that
is not marked as modified follow each other from its first line on disk to its last,
which breaking them, for a copy, does not change; `Reading` says so of the part of a
file that `la_open` has parsed. Each action has a second lemma (`...Text`).

### Session

`SessionProofs` is for any number of processes, versions, keys and sessions.

`OwnFiles` is not inductive: it says nothing of a session on its way from choosing
a version to editing, nor of why the next one may not choose the same. The
invariant is

    OwnInv == TypeInv /\ OneStarts /\ Apart /\ \A p \in Proc : Mine(p)

`OneStarts`: one session starts at a time (the assumption). `Mine(p)`: what is
`p`'s own at each step of start-up: first no file has the name, then its own has,
then it is locked, then the change file is its own too. `Apart`: who has
chosen a version has chosen another than every running session; it holds when
the version is chosen because a running session's lock, or its change file, is
seen by the test, and is kept because versions do not change later. A
session that ends touches only names of its own version (`DeadOwn`), which
`Apart` keeps away from the others'.

That no key stroke is lost, `StrokesOffered`, needs to know where the keys of each
session are at every step:

    StrokesInv == OwnInv /\ OneName /\ Held /\ (\A p \in Proc : Story(p)) /\ StrokesOffered

`Story(p)` tells, for each step of a start, what the session has found, what it
has moved aside and which keys it has yet to replay; `Held`, that a lock is held by
who is at work on that key stroke file; `OneName`, that no inode has two names, so
that a name that is unlinked takes away one record and no other.

### Save

`SaveProofs` is for any names, any disk the session finds (links between any of
its names included), any number of files and of tries, with and without
rename(2), with and without a delete command, whatever call fails and wherever the
editor dies. `Careful == ~ Tangle /\ ~ RetryInPlace /\ ~ Reopen`: a name that is
somebody's old name is not taken, a save in place that failed is not tried again,
and no other link of a deleted file is edited; section 5 has all three. By the last
no two entries of the table, those of deleted and forgotten files included, have a
stream of one La_file (`OneStream`), so that marking one as saved or as not
modified says nothing of another.

    SaveInv == Table /\ At /\ (~ Over => Homes) /\ (Over => TextSurvives)

`Homes` says where the text of each file is, while the editor runs: in the
original, under the name the disk has for it; or in the backup, which the stream
reads since `la_freplace`; or as edited under the file's name or that of the
temporary file; or in the temporary file that is about to get the name. In each
case it says why nothing else writes there: no other name of the session's files
is a link to it. `At` gives, for each step of `savefile`, what is true between the
system calls: from `mkstemp` on nobody else has the temporary inode, from `creat` on
nobody reads the original. When the editor is gone, or dead, nothing changes
any more and `TextSurvives` is all that is left to say. `Table` is the flags of a
file and the table of names; `NameTable` needs no more than it.

The second half of `SaveProofs` is about what a session that is over has left. `SaveInv` says
where a text is, not that saving has reached it, and nothing of what is past. The
lemmas `TableStep`, `NameStep` and `DataStep` say once what a step of saving does to
an entry of the table, which names it can change and which inodes it writes;
`SavedStays` follows, that a file that is saved, its name, its backup and
the inode it reads are left alone from then on. With these:

* `BackupIsKept` has `AsRead` (a stream without an inode has read nothing, and a
  file that is not changed shows what was read) and `BackedUp`, which says where the
  backup of a saved file is, and in what state `MoveTmp` finds that of the next.
* `TakenLast` has `Passed`, what the loops of `saveall` have behind them (it needs
  that `First` skips none, `NoneSkipped`); `RenamedFree`, that the name a
  renamed file waits for is on the disk only if a deleted file has it; and `Cleared`,
  that `MoveTmp` writes over nothing that is not in the backup.
* `AllIsSaved` has, beside `AsRead` and `Passed`, `NoLinks`, `Written` (the text of a
  saved file has its name) and `Unchanged` (files that were not changed are where
  they were read). `NoLinks` is assumed of the disk that is found, and then kept.
  Section 5 has what happens when it does not hold.

The last two assume `RENAME`, which localenv.h:27 chooses: without rename(2) a `mv`
that fails half-way leaves a link behind, so that neither `RenamedFree` nor
`NoLinks` is kept. TLC finds nothing against the two properties with
`RENAME = FALSE` in the configuration of `save`, whose two names and two exits are
too few for such a link to be opened as a file of its own.

### CLine

`CLineProofs` is for any files, lines and edits, and two rows or more. `Careful == ~ EditCurrent /\
~ BehindEnd /\ ~ Interrupt /\ ~ PutFails /\ Rows >= 2`: the first four are in
section 5, and so is a window of one line. A window that was split into one above
and one below is shown again from the border between them on, which is two lines
at least (e.wi.c:312-333).

`CInv` adds to the properties that the windows and workspaces are what the user
has opened (`Shown`, `Made`) and that the line in hand is a line of an open stream
(`Hand`). `Implements` is the refinement: under the mapping of section 2 each step
is an edit of `Text`, a switch of `Text`, or changes nothing the user sees. The
lemma `Steps` proves the invariant and the refinement together, action by action,
since an action of the editor is a sequence of the same few operations (put the
line back, take another, move the window), and what each does to the text the
user sees is one lemma about that operation.

### QBuf

`QBufProofs` is for any files, texts, counts, programs and number of commands,
with every way to fail that section 5 has; `NameAssumption` says that the names of
the files and buffers differ. `TypeOK` says more than types: every stream is at a
line of its file, and none has been left with the order to stay (unless LA fails
where the editor does not undo). By itself it is not kept: it takes `Fit`, that a
stream is in the file it was opened for, that `fnlas` of #o and #p are at the
ends of their files, whatever is closed, filtered or joined in them, and which
streams may stay at the moment. What Ins, Del and Move do to it (`InsIs`,
`DelIs`, `MoveIs`) is proved once; then each step of `edlines`, `edrect`,
`dojoin` and `receive` has its lemma, and the commands follow from those.

`TakenRight` builds on the same invariant. That a buffer holds what was asked for
is the work of three orders that LA obeys at a distance: the buffer's stream is
put at the end of its file and told to stay, then the lines are inserted there
through another stream, then their number is reserved; after that the command
still edits, in the same file if it is #o or #p that is edited. `InsPlaces` and
`DelPlaces` say where an edit leaves any other stream of the file; from these,
`Took` (the lines came where the stream stays) is proved of every way to take
(`CloseTakes`, `EraseTakes`, `PickTakes`, `PickRectTakes`, `ClearRectTakes`,
`ReceiveTakes`, `JoinTakes`), and `Still` (lines that are reserved stay together
or are no longer reserved, `InsStill` and `DelStill`) of whatever comes after.
Its `Careful` is `~ HalfFails`, `~ JoinInPick` and `~ CloseInOld`: each of the
last two violates the property, the first leaves streams with the order to stay.

`BuffersImplemented` is the refinement: each command is a step of `Buffers`, told
of the user's file, or an `EditOwn` of #o or #p. What it needs beyond `Inv` is

    AtStart  == Careful /\ Inv /\ Secure(st)
    Secure(x) == \A c \in Buf : Sure(x, c)
    Sure(x, c) == \/ Whole(x, c)     \* what it has reserved is in its file
                  \/ x.las[buflas(c)].la_lpos = Lsize(x, qtmpfn(c)) /\ x.ncols[c] = 0

A stream with fewer lines behind it than it has reserved would, in `Buffers`'
words, hold what the next command appends for another buffer. LA has no such
stream, except one at the end of its file: `receive` reserves lines even when they
could not be moved (e.ru.c:809-811). There it holds nothing, and goes on holding
nothing, because what is appended pushes a stream at the end that need not stay
(which is why it matters that `LA_STAY` is taken back on every way out, and why
`HalfFails` is excluded). The proof has three parts. First, every operation the
commands are made of *leaves* the buffers that the command is not about
(`Leaves`): they have what they had, or, when #o or #p themselves are edited, may
have lost it, and never get anything else; and those after which the command's own
buffer has still to be sure are `Firm`. Second, what each command makes of the
user's file (`CloseText`, `EraseText`, `RewriteText`, `receiveText`,
`PutLinesText`, `PutRectText`, `JoinText`) is what `Buffers` says, by lemmas that
say of its operators what they do element by element, and that nothing else does
that (`InsertIs`, `InsertOnly`, `DeleteIs`, `DeleteOnly`, `ExtendedIs`). Third, one
lemma per command (`PickStep` to `PutStep`) puts the two together with what
`TakenRight` rests on.

### What stays with TLC

Liveness under fairness, and `ENABLED`. Of `LA`: `ReservedUnaltered` and the
refinement of `LineFile`, which need more than that every stream is at its
line, namely what each edit does to the sequence of lines (`Text`), for which
`LAChainProofs` has the places only. All of `LineBytes`: encoded lengths and bytes
are read by RECURSIVE operators, which the prover does not take. No proof has been
tried of the properties of section 5 that no run lists.

Induction over data is not out of reach where it is over places: the library's
induction theorems cannot be used, but `Induct` of `LAChainProofs` says the same
of sets of naturals.

## 5. Findings and observations

Two runs find what the code does against what it says (`PROJECT.json` has the
lines):

* `save_tangle` (`Tangle = TRUE`): going back to an old name does not ask who has
  it now (e.nm.c:49-56), and a name that is somebody's old name is accepted
  (e.nm.c:87-90); `saveall` then renames in the order of the table, and one
  file's text overwrites another's. e.h:428-434 and e.q.c:345-348 say otherwise.
* `cline_same` (`EditCurrent = TRUE`): a line is typed in F, then `e F`, then
  `e G`: the typed line goes into G (e.u.c:149-150, 429, 440; e.la.c:176).

The models have more, behind constants that the passing runs set to FALSE. Each
of these, set to TRUE (or as it says) in the run's configuration, makes TLC show what is
described:

| constant | module, property violated | what the code does |
|---|---|---|
| `Overwrite` | FF, `PosImage` | when a whole block inside a file is overwritten, `ff_gblk` seeks, skips the read and still takes the position to be behind the block (open.c:298-302); ff.h:49 calls it the image of the system's |
| `Untidy`, with one file and `WriteLens = {1, 2}` | FF, `ReceivesFilterOutput` | what an interrupted filter left on the change file is taken for output of the next (e.ru.c:541) |
| `BuiltinFill` | FF, `FilterClobbersNothing` | `callines`, with `-DBUILTINFILL`, truncates the change file it appends to (e.ru.c:895) |
| (none) | FF, `SyncWritesAll` | `ff_sync` stops at the first slot that is not open (sync.c:13); ff3/Doc:110 says that all dirty buffers are written |
| `CloseShared` | LA, `StaysActive` | a file whose lines are elsewhere stays open but its chain has been freed (laclose.c:26-29; Doc.n:613) |
| `SameFsdCopy` | LA, `CopyInsertsCopy` | `la_lcopy` keeps `slas->la_cfsd` across the break of the target (lalcopy.c:39-42): within one fsd it aborts or copies other lines (Doc.n:777). The editor gets there from e.e.c:756 when a buffer is put into #o or #p itself |
| `BehindEnd` | CLine, `NoFatal` | the case key, or a click, behind the end of the file ends the editor (e.e.c:398; e.la.c:221) |
| `Interrupt` | CLine, `CacheStreamOpen` | a display that was interrupted takes no other line into hand, and the window goes (e.t.c:3060) |
| `PutFails` | CLine, `ImplementsText` | `GetLine` does not look at `putline`'s result (e.la.c:80): without memory the typed line is lost |
| `Rows = 1` | CLine, `CacheStreamOpen` | two windows of one line side by side show the same line of a file: when the one it is in hand of is removed, `GetLine` finds it in hand (e.la.c:71-76), and `removewindow` closes the stream it came by |
| `InitDisk` with two links among three names, `MaxFn = 2`, `MaxText = 12` | Save, `SavedAll` | once a file has been saved in place its stream reads the backup (lafrpl.c), so that if another save fails and the session goes on, another link of the file is not recognised (e.u.c:219-236) and opened as a file of its own: saving that in place overwrites, under both names, what the first save wrote |
| `Reopen` | Save, `SavedAll` | a file with two links is edited, changed and deleted, then its other link is edited. `delete` clears `LA_MODIFIED` and closes one of two streams (e.nm.c:190-193), the other is in `lastlook` (e.u.c:353); so `la_open` finds the La_file (laopen.c:161-170), and `editfile`, at the deleted entry, goes on with it, though its comment says "we go and make a NEW one" (e.u.c:223). The changed text is shown as if it had been read, exit writes nothing and says YES (e.q.c:345-348); eleven states in the configuration of `save`. Only where `DELETE` is defined |
| `RetryInPlace` | Save, `BackupKept` | a second exit after saving in place has failed unlinks the only backup (e.sv.c:145, 180; editor.nroff:294-297) |
| `Overlap` | Session, `OwnFiles` | two sessions that start together test the lock, let it go, and use one file (e.c:1345, 1460, 1476) |
| `StayRecovered` | Session, `StrokesOffered` | replayed keys are not recorded (e.t.c:3173): a session that goes on after a recovery and crashes has lost them (README.md:252-255; `recovermsg_e20` says to exit first) |
| `KillRecovering` | Session, `StrokesOffered` | a kill during a recovery leaves the keys under the name they were moved to, where no start looks |
| `HalfFails` | QBuf, `ImplementsBuffers` | `la_blank` fails after `la_ldelete` (e.e.c:734): `dlas` is at the end of #o, so that nothing comes back; `edrect`'s err1 leaves `LA_STAY` and the old count; `dojoin` goes on when its pick has failed (e.e.c:331) |
| `JoinInPick` | QBuf, `TakesWhatIsAsked` | joinmark in #p: `edlines` aligns the close buffer, of #o, with a stream of #p, which fails, and still reserves the lines (e.e.c:706-717): the buffer has others. The comment, e.e.c:272, says "Pick all the lines into the join buffer" |
| `CloseInOld` | QBuf, `TakesWhatIsAsked` | lines closed in #o are not kept, but the buffer's width is reset (e.e.c:667-668): a rectangle it had turns into lines |

The properties named for FF and LA that no run lists are in their modules: name
them in the configuration too. Seen while reading, and outside the models: a new
file that is deleted frees its entry of the table (e.nm.c:181-183) but not its stream
in `lastlook`, and `la_clone` of the next file with that entry clears and links a
stream that is in the chain of the other's La_file already (e.u.c:353); `edlines`' err1 with QNONE
uses `blas` without a value (e.e.c:686-688); la_lflush says a write that was
timed out is tried again (Doc.n:837-839), but when a part had gone out `errno` is
not EINTR (lalflush.c:103) and it ends with `LA_WRTERR`, upon which `runlines`
gives up (e.ru.c:541); `la_clseek` backward has no bound (laclseek.c:26;
Doc.n:631-641; no caller in e20); a line that is a form feed and text begins a
paragraph, where `la_lcount`'s comment counts it as blank; `ff_open` leaves
`f_file` set when open(2) fails (open.c:125-131); `receive` sets the
reservation although `la_lrcollect` failed (e.ru.c:809-811: in the model, the
buffer then holds nothing, and the next put fails with an old error).

## 6. What is left out

* Terminal, mouse, screen, resizing, command parsing, searching, tags, profile
  and key bindings: text and layout, sequential; marks are positions that no
  edit adjusts.
* Macros (e.record.c, e.macro.c): recorded keys are input again.
* Ranges (e.ra.c) and `fill`, `just`, `center`: sequential text work over the
  operations that are modelled.
* `ff_sort`'s sorting, `ff_fdopen` on a positioned descriptor (open.c:134), the
  overflow of char counters (ff.h:37-39), `la_lcopy` out of memory after its
  first fsd (lalcopy.c:89-93: undefined), `la_lrcollect` with nothing collected
  (lalcol.c:117), `la_lreplace` with a stream that stays (lalrpl.c:29; no caller).
* `la_bsize` and seeking backward by characters: nothing in e20 calls them.
  `lafins.c` is not compiled. `ladeb.c` prints.
* `Yost/`, `t_xcolor/`, `termcap/` and the like: older copies and third-party
  code, by far the most lines of the repository; `Yost/la3/doc/Doc.n` and
  `ff3/Doc` are the documents of the two packages and are quoted.

## 7. Plan

1. Proofs: for `LA`, `ReservedUnaltered` and the refinement of `LineFile`,
   with lemmas on `Text` like those on `Sums`; `LineBytes` with recursive
   functions.
2. The failing copy of lalcopy.c:89-93.
3. Ranges and searching (e.ra.c, e.se.c, e.re.c) as functions on lines.
4. `CLine` and `QBuf` in one model: rectangles in the line in hand while a buffer
   is put.

----------------------------- MODULE LineBytes -----------------------------
(* The bytes within the lines of a file of the LA package: how la_parse     *)
(* encodes the lengths of lines in the fsdbytes of fsds, how a stream's    *)
(* la_fsbyte, la_lbyte and la_ffpos follow them when it seeks, reads, and  *)
(* when fsds are broken under it, and how la_lflush writes lines out.  One *)
(* file; LA has the files, their chains and what may fail.                 *)
EXTENDS Integers, Sequences, FiniteSets, SequencesExt, FiniteSetsExt

CONSTANTS
  Stream, Clone,  \* the streams, and the clone that la_break and la_lflush make
  LA_NLLINE,      \* bits of a character without the sign: 7 in the code
  LA_FSDLMAX,     \* lines, fsdbytes and bytes that an fsd may describe
  LA_FSDBMAX,
  LA_FSDNBMAX,
  BUFSIZ,         \* la_lflush's buffer
  FF_BSIZE,       \* a block of ff3
  Files,          \* what the file may be: sequences of [chars, nonl]
  News,           \* what may be inserted: sequences of numbers of characters
  ReadLens,       \* how much la_lget is asked for
  FormFeed, Dot,  \* the bytes that are \f, and . or '
  FlushAt,        \* bounds where the streams are when la_lflush is called
  MaxEdits        \* bounds the edits

LLINE          == 2 ^ LA_NLLINE
MaxNonSpecial  == LLINE * LLINE + LLINE - 1     \* LA_MAX_NON_SPECIAL_FSD
Short          == LA_FSDNBMAX + 1               \* a short is -Short .. Short - 1

ASSUME LineBytesAssumption ==
  /\ Clone \notin Stream
  /\ LA_FSDLMAX < LLINE /\ MaxNonSpecial <= LA_FSDNBMAX /\ LA_FSDBMAX > 3
  /\ \A f \in Files : \A i \in 1 .. Len(f) : f[i].nonl => i = Len(f)

VARIABLES
  chain,  \* the fsds of the file, the empty one at the end
  las,    \* the streams
  chg,    \* the size of the change file
  got,    \* what the last read gave
  fl,     \* la_lflush
  edits   \* counts the edits

vars == << chain, las, chg, got, fl, edits >>

Streams == Stream \cup {Clone}

Fsds == [file : {"disk", "chg"}, pos : Nat, nbytes : Nat, nlines : 0 .. LLINE - 1,
         bytes : Seq(-LLINE .. LLINE - 1) \cup ({0} \X {0, 1} \X Nat)]
Las  == [cfsd : Nat, fsline : Nat, fsbyte : Nat, lbyte : Nat, ffpos : Nat, lpos : Nat]

Closed == [cfsd |-> 0, fsline |-> 0, fsbyte |-> 0, lbyte |-> 0, ffpos |-> 0, lpos |-> 0]

Lines(c) == FoldLeft(LAMBDA n, f : n + f.nlines, 0, c)
Eof(x)   == x.cfsd = Len(chain)

Idle  == [at |-> "idle", start |-> 0, left |-> 0, lcnt |-> 0, buf |-> << >>, out |-> << >>,
          tot |-> 0, n |-> 0, timeout |-> FALSE, eintr |-> FALSE]

-----------------------------------------------------------------------------
(* la_parse. *)

(* An int put into a char. *)
Char(x) == ((x + LLINE) % (2 * LLINE)) - LLINE

(* The fsdbytes of a line: its length if that fits into a char, else minus  *)
(* the higher bits of it and the lower bits.                               *)
Encoded(chars) == IF chars > LLINE - 1 THEN << Char(-(chars \div LLINE)), chars % LLINE >>
                                       ELSE << chars >>

Fsd(file, pos, nbytes, nlines, bytes) ==
  [file |-> file, pos |-> pos, nbytes |-> nbytes, nlines |-> nlines, bytes |-> bytes]

(* "makefsd". *)
Cut(p) ==
  IF p.n = 0 THEN p
  ELSE [p EXCEPT !.fsds = Append(@, Fsd(p.file, p.pos, p.nb, p.n, p.bytes)),
                 !.pos = @ + p.nb, !.n = 0, !.nb = 0, !.bytes = << >>]

(* A line that is too long, or has no newline, has a special fsd for itself. *)
Special(p, l) ==
  [p EXCEPT !.fsds = Append(@, Fsd(p.file, p.pos, l.chars, 1,
                                   << 0, IF l.nonl THEN 1 ELSE 0, l.chars >>)),
            !.pos = @ + l.chars]

Plain(p, l) == [p EXCEPT !.n = @ + 1, !.nb = @ + l.chars, !.bytes = @ \o Encoded(l.chars)]

Full(p) == p.n >= LA_FSDLMAX \/ Len(p.bytes) >= LA_FSDBMAX - 2

(* Mutant of ParseLine: how many bytes the fsd describes is not looked at. *)
ParseLineAny(p, l) ==
  LET q == IF Full(p) THEN Cut(p) ELSE p IN
  IF l.chars > MaxNonSpecial \/ l.nonl THEN Special(Cut(q), l) ELSE Plain(q, l)

ParseLine(p, l) ==
  LET q == IF Full(p) THEN Cut(p) ELSE p IN
  CASE l.chars > MaxNonSpecial \/ l.nonl -> Special(Cut(q), l)
    [] q.nb + l.chars > LA_FSDNBMAX -> Plain(Cut(q), l)
    [] OTHER -> Plain(q, l)

la_parse(file, pos, ls) ==
  Cut(FoldLeft(ParseLine, [file |-> file, pos |-> pos, fsds |-> << >>,
                           n |-> 0, nb |-> 0, bytes |-> << >>], ls)).fsds

Empty == Fsd("chg", 0, 0, 0, << >>)

Init ==
  /\ \E ls \in Files : chain = Append(la_parse("disk", 0, ls), Empty)
  /\ las = [s \in Streams |-> IF s = Clone THEN Closed ELSE [Closed EXCEPT !.cfsd = 1]]
  /\ chg = 0 /\ got = << >> /\ fl = Idle /\ edits = 0

-----------------------------------------------------------------------------
(* Sizes of lines. *)

IsSpecial(f) == f.bytes[1] = 0

Width(bytes, k) == IF bytes[k + 1] < 0 THEN 2 ELSE 1
Length(bytes, k) == IF bytes[k + 1] < 0 THEN (-bytes[k + 1]) * LLINE + bytes[k + 2]
                                        ELSE bytes[k + 1]

la_lwsize(c, x) ==
  LET f == c[x.cfsd] IN
  CASE x.cfsd = Len(c) -> 0
    [] x.cfsd < Len(c) /\ IsSpecial(f) -> f.bytes[3] + f.bytes[2]
    [] OTHER -> Length(f.bytes, x.fsbyte)

la_lrsize(c, x) == IF x.cfsd = Len(c) THEN 0 ELSE la_lwsize(c, x) - x.lbyte

(* Over n lines from the k-th fsdbyte on: where that leads, and the bytes. *)
RECURSIVE Over(_, _, _)
Over(bytes, k, n) ==
  IF n = 0 THEN [k |-> k, off |-> 0]
  ELSE LET rest == Over(bytes, k + Width(bytes, k), n - 1)
       IN [rest EXCEPT !.off = @ + Length(bytes, k)]

(* Back over n lines: a negative byte before a line's last one is its too. *)
RECURSIVE BackOver(_, _, _)
BackOver(bytes, k, n) ==
  IF n = 0 THEN [k |-> k, off |-> 0]
  ELSE LET long == k > 1 /\ bytes[k - 1] < 0
           rest == BackOver(bytes, IF long THEN k - 2 ELSE k - 1, n - 1)
       IN [rest EXCEPT !.off = @ + bytes[k] + (IF long THEN (-bytes[k - 1]) * LLINE ELSE 0)]

-----------------------------------------------------------------------------
(* la_lseek. *)

AsShort(x)  == ((x + Short) % (2 * Short)) - Short
AsUshort(x) == x % (2 * Short)

(* The fsd that is n lines behind the beginning of fsd i, or n before it. *)
RECURSIVE Forward(_, _, _)
Forward(c, i, n) == IF n >= c[i].nlines THEN Forward(c, i + 1, n - c[i].nlines)
                                        ELSE << i, n >>
RECURSIVE Backward(_, _, _)
Backward(c, i, n) == IF n > c[i - 1].nlines THEN Backward(c, i - 1, n - c[i - 1].nlines)
                                            ELSE << i - 1, c[i - 1].nlines - n >>

(* From the beginning of the line that x is at, n lines. *)
In(c, x, i, line, n) ==
  LET o == Over(c[i].bytes, 0, line) IN
  [x EXCEPT !.cfsd = i, !.fsline = line, !.fsbyte = o.k, !.ffpos = AsShort(o.off), !.lpos = @ + n]

Walk(c, x, n) ==
  LET f == c[x.cfsd] IN
  CASE n = 0 -> x
    [] n > 0 /\ n >= f.nlines - x.fsline ->
         LET to == Forward(c, x.cfsd + 1, n - (f.nlines - x.fsline)) IN In(c, x, to[1], to[2], n)
    [] n > 0 /\ n < f.nlines - x.fsline ->
         LET o == Over(f.bytes, x.fsbyte, n)
         IN [x EXCEPT !.fsline = @ + n, !.fsbyte = o.k, !.ffpos = AsShort(@ + o.off), !.lpos = @ + n]
    [] n < 0 /\ -n > x.fsline ->
         LET to == Backward(c, x.cfsd, -n - x.fsline) IN In(c, x, to[1], to[2], n)
    [] OTHER ->
         LET o == BackOver(f.bytes, x.fsbyte, -n)
         IN [x EXCEPT !.fsline = @ + n, !.fsbyte = o.k,
                      !.ffpos = AsShort(AsUshort(@ - o.off)), !.lpos = @ + n]

la_lseek(c, x, n) ==
  LET total == Lines(c)
      delta == n - x.lpos
      begin == [Closed EXCEPT !.cfsd = 1]
      end   == [Closed EXCEPT !.cfsd = Len(c), !.lpos = total]
  IN CASE n <= 0 -> begin
       [] n >= total /\ n > 0 -> end
       [] n \in 1 .. total - 1 ->
            IF delta < 0 /\ -delta > x.fsline /\ n * 2 <= x.lpos THEN Walk(c, begin, n)
            ELSE IF delta > 0 /\ delta >= c[x.cfsd].nlines - x.fsline /\ delta * 2 > total - x.lpos
                   THEN Walk(c, end, n - total)
            ELSE Walk(c, [x EXCEPT !.ffpos = @ - x.lbyte, !.lbyte = 0], delta)

-----------------------------------------------------------------------------
(* Reading. *)

(* Mutant of la_clseek: what is left of the line is taken for all of it. *)
ClseekWhole(c, x, n) ==
  LET f == c[x.cfsd]
      rest == la_lrsize(c, x)
  IN IF n < rest /\ n > 0 THEN [x EXCEPT !.lbyte = @ + n, !.ffpos = @ + n]
     ELSE IF x.fsline + 1 >= f.nlines
            THEN [Closed EXCEPT !.cfsd = x.cfsd + 1, !.lpos = x.lpos + 1]
          ELSE [x EXCEPT !.lpos = @ + 1, !.lbyte = 0, !.fsline = @ + 1,
                         !.fsbyte = @ + Width(f.bytes, x.fsbyte),
                         !.ffpos = @ + la_lwsize(c, x)]

(* Within the line, or to the next; 0 is to the next too. *)
la_clseek(c, x, n) ==
  LET f == c[x.cfsd]
      rest == la_lrsize(c, x)
  IN IF n < rest /\ n > 0 THEN [x EXCEPT !.lbyte = @ + n, !.ffpos = @ + n]
     ELSE IF x.fsline + 1 >= f.nlines
            THEN [Closed EXCEPT !.cfsd = x.cfsd + 1, !.lpos = x.lpos + 1]
          ELSE [x EXCEPT !.lpos = @ + 1, !.lbyte = 0, !.fsline = @ + 1,
                         !.fsbyte = @ + Width(f.bytes, x.fsbyte), !.ffpos = @ + rest]

OnDisk(f, off, n) == [k \in 1 .. n |-> << f.file, f.pos + off + k - 1 >>]
Newline == << "newline", 0 >>
NoNewline(f) == IsSpecial(f) /\ f.bytes[2] = 1

(* la_lget: the bytes, and the stream after it. *)
la_lget(c, x, n) ==
  LET f == c[x.cfsd]
      rest == la_lrsize(c, x)
      bytes == IF rest > n THEN OnDisk(f, x.ffpos, n)
               ELSE IF NoNewline(f) THEN Append(OnDisk(f, x.ffpos, rest - 1), Newline)
               ELSE OnDisk(f, x.ffpos, rest)
  IN IF x.cfsd = Len(c) THEN [bytes |-> << >>, las |-> x]
     ELSE [bytes |-> bytes, las |-> la_clseek(c, x, Len(bytes))]

(* la_lpnt: no more than the rest of the block that ff_point points into. *)
la_lpnt(c, x) ==
  LET f == c[x.cfsd]
      rest == la_lrsize(c, x)
      want == IF NoNewline(f) /\ rest > 1 THEN rest - 1 ELSE rest
      n == Min({want, FF_BSIZE - ((f.pos + x.ffpos) % FF_BSIZE)})
      bytes == IF NoNewline(f) /\ rest = 1 THEN << Newline >> ELSE OnDisk(f, x.ffpos, n)
  IN IF x.cfsd = Len(c) THEN [bytes |-> << >>, las |-> x]
     ELSE [bytes |-> bytes, las |-> la_clseek(c, x, Len(bytes))]

LSeek(s, n) ==
  /\ fl.at = "idle"
  /\ las' = [las EXCEPT ![s] = la_lseek(chain, @, n)]
  /\ got' = << >>
  /\ UNCHANGED << chain, chg, fl, edits >>

LGet(s, n) ==
  /\ fl.at = "idle" /\ ~ Eof(las[s])
  /\ LET r == la_lget(chain, las[s], n)
     IN got' = r.bytes /\ las' = [las EXCEPT ![s] = r.las]
  /\ UNCHANGED << chain, chg, fl, edits >>

LPnt(s) ==
  /\ fl.at = "idle" /\ ~ Eof(las[s])
  /\ LET r == la_lpnt(chain, las[s])
     IN got' = r.bytes /\ las' = [las EXCEPT ![s] = r.las]
  /\ UNCHANGED << chain, chg, fl, edits >>

-----------------------------------------------------------------------------
(* la_break (BRK_REAL): fsds are broken so that one begins where stream s   *)
(* is and, if there are nlines, one behind them.  st = [chain, las].       *)

(* Mutant of AfterBreak: la_fsbyte is left as it was in the last part. *)
AfterBreakByte(x, i, n, m, w) ==
  LET parts == IF m = n THEN 1 ELSE 2 IN
  CASE x.cfsd < i \/ (x.cfsd = i /\ x.fsline < n) -> x
    [] x.cfsd > i -> [x EXCEPT !.cfsd = @ + parts]
    [] x.cfsd = i /\ x.fsline \in n .. m - 1 ->
         [x EXCEPT !.cfsd = i + 1, !.fsline = @ - n, !.fsbyte = @ - w[1].k, !.ffpos = @ - w[1].off]
    [] OTHER ->
         [x EXCEPT !.cfsd = i + parts, !.fsline = @ - m, !.fsbyte = @ - w[1].k, !.ffpos = @ - w[2].off]

(* Where the streams are after fsd i was broken before line n and, unless   *)
(* m is n, before line m of it; w tells how many fsdbytes and bytes there  *)
(* are before each.                                                        *)
AfterBreak(x, i, n, m, w) ==
  LET parts == IF m = n THEN 1 ELSE 2 IN
  CASE x.cfsd < i \/ (x.cfsd = i /\ x.fsline < n) -> x
    [] x.cfsd > i -> [x EXCEPT !.cfsd = @ + parts]
    [] x.cfsd = i /\ x.fsline \in n .. m - 1 ->
         [x EXCEPT !.cfsd = i + 1, !.fsline = @ - n, !.fsbyte = @ - w[1].k, !.ffpos = @ - w[1].off]
    [] OTHER ->
         [x EXCEPT !.cfsd = i + parts, !.fsline = @ - m, !.fsbyte = @ - w[2].k, !.ffpos = @ - w[2].off]

Part(f, n, m, w) ==
  Fsd(f.file, f.pos + w[1].off, w[2].off - w[1].off, m - n, SubSeq(f.bytes, w[1].k + 1, w[2].k))

BreakIn(st, s, nlines) ==
  LET x == st.las[s]
      i == x.cfsd
      f == st.chain[i]
      n == x.fsline
      m == n + nlines
      w1 == [k |-> x.fsbyte, off |-> x.ffpos]
      o == Over(f.bytes, x.fsbyte, nlines)
      w2 == [k |-> o.k, off |-> x.ffpos + o.off]
      parts == << Part(f, 0, n, << [k |-> 0, off |-> 0], w1 >>) >>
               \o (IF nlines > 0 THEN << Part(f, n, m, << w1, w2 >>) >> ELSE << >>)
               \o << Part(f, m, f.nlines, << w2, [k |-> Len(f.bytes), off |-> f.nbytes] >>) >>
  IN [chain |-> SubSeq(st.chain, 1, i - 1) \o parts \o SubSeq(st.chain, i + 1, Len(st.chain)),
      las |-> [t \in Streams |-> AfterBreak(st.las[t], i, n, m, << w1, w2 >>)]]

AtLine(x) == [x EXCEPT !.ffpos = @ - x.lbyte, !.lbyte = 0]

(* One break, at the line that stream s is at. *)
Break(st, s) ==
  LET b == [st EXCEPT !.las[s] = AtLine(@)] IN
  IF st.las[s].cfsd = Len(st.chain) THEN st
  ELSE IF st.las[s].fsline = 0 THEN b ELSE BreakIn(b, s, 0)

(* Two: in one go if both are inside an fsd, else with a clone. *)
Breaks(st, s, nlines) ==
  LET b == [st EXCEPT !.las[s] = AtLine(@)]
      x == st.las[s]
  IN IF x.fsline > 0 /\ x.fsline + nlines < st.chain[x.cfsd].nlines
       THEN LET c == BreakIn(b, s, nlines) IN [st |-> c, n |-> nlines, last |-> c.las[s].cfsd + 1]
     ELSE LET c == Break(st, s)
              d == Break([c EXCEPT !.las[Clone] =
                            la_lseek(c.chain, c.las[s], c.las[s].lpos + nlines)], Clone)
          IN [st |-> [d EXCEPT !.las[Clone] = Closed],
              n |-> d.las[Clone].lpos - d.las[s].lpos, last |-> d.las[Clone].cfsd]

-----------------------------------------------------------------------------
(* la_linsert, with la_parse of the buffer and la_link. *)

Lens(new) == [k \in DOMAIN new |-> [chars |-> new[k], nonl |-> FALSE]]
Total(new) == FoldLeft(+, 0, new)

Insert(s, new) ==
  LET b == Break([chain |-> chain, las |-> las], s)
      i == b.las[s].cfsd
      fsds == IF new = << >> THEN << >> ELSE la_parse("chg", chg, Lens(new))
  IN
  /\ fl.at = "idle" /\ edits < MaxEdits
  /\ chain' = SubSeq(b.chain, 1, i - 1) \o fsds \o SubSeq(b.chain, i, Len(b.chain))
  /\ las' = [t \in Streams |->
               IF t # Clone /\ b.las[t].lpos >= b.las[s].lpos
                 THEN [b.las[t] EXCEPT !.cfsd = @ + Len(fsds), !.lpos = @ + Len(new)]
                 ELSE b.las[t]]
  /\ chg' = chg + Total(new)
  /\ edits' = edits + 1 /\ got' = << >>
  /\ UNCHANGED fl

(* la_ldelete, of lines that go nowhere. *)
Delete(s, nlines) ==
  LET r == Breaks([chain |-> chain, las |-> las], s, nlines)
      b == r.st
      first == b.las[s].cfsd
      lpos == b.las[s].lpos
  IN
  /\ fl.at = "idle" /\ edits < MaxEdits /\ ~ Eof(las[s]) /\ nlines > 0
  /\ chain' = SubSeq(b.chain, 1, first - 1) \o SubSeq(b.chain, r.last, Len(b.chain))
  /\ las' = [t \in Streams |->
               CASE t = Clone \/ b.las[t].lpos < lpos -> b.las[t]
                 [] t # Clone /\ b.las[t].lpos \in lpos .. lpos + r.n - 1 ->
                      [Closed EXCEPT !.cfsd = first, !.lpos = lpos]
                 [] OTHER -> [b.las[t] EXCEPT !.lpos = @ - r.n, !.cfsd = @ - (r.last - first)]]
  /\ edits' = edits + 1 /\ got' = << >>
  /\ UNCHANGED << chg, fl >>

-----------------------------------------------------------------------------
(* la_lcount, of paragraphs: how many lines there are from start to the end *)
(* of the number-th paragraph; mode 3 stops at a line with a . or ' too.   *)

RECURSIVE Paragraphs(_, _, _, _, _)
Paragraphs(c, x, number, dots, r) ==
  LET size == la_lwsize(c, x)
      one  == IF size > 1 THEN la_lget(c, x, 1) ELSE [bytes |-> << Newline >>, las |-> x]
      ff   == one.bytes[1] \in FormFeed
      Go(left, q) == Paragraphs(c, la_clseek(c, one.las, 0), left, dots, q)
  IN CASE size = 0 -> r.nlines
       [] size > 0 /\ r.gap ->
            IF size = 1 \/ (ff /\ size = 2) THEN Go(number, [r EXCEPT !.ngap = @ + 1])
            ELSE Go(number, [nlines |-> r.nlines + r.ngap + 1, ngap |-> 0, gap |-> FALSE])
       [] size > 0 /\ ~ r.gap ->
            IF dots /\ one.bytes[1] \in Dot THEN r.nlines
            ELSE IF size > 1 /\ ~ ff THEN Go(number, [r EXCEPT !.nlines = @ + 1])
            ELSE IF number <= 1 THEN r.nlines
            ELSE Go(number - 1, IF size <= 2 THEN [r EXCEPT !.gap = TRUE, !.ngap = 1]
                                             ELSE [r EXCEPT !.nlines = @ + 1])

(* Mutant of la_lcount: it stops at a . in any paragraph. *)
CountDots(c, x, start, number, mode) ==
  IF number <= 0 \/ Lines(c) - start <= 0 THEN 0
  ELSE Paragraphs(c, la_lseek(c, x, start), number, mode = 3,
                  [nlines |-> 0, ngap |-> 0, gap |-> TRUE])

la_lcount(c, x, start, number, mode) ==
  IF number <= 0 \/ Lines(c) - start <= 0 THEN 0
  ELSE Paragraphs(c, la_lseek(c, x, start), number, mode = 3 /\ number = 1,
                  [nlines |-> 0, ngap |-> 0, gap |-> TRUE])

-----------------------------------------------------------------------------
(* la_lflush: lines are read into a buffer until that is full, through a   *)
(* clone, and it is written out.  With a timeout (a filter is written to)   *)
(* alarms may hit write(2), and the user may interrupt it.                 *)

FlushBegin(start, n, timeout) ==
  /\ fl.at = "idle" /\ n > 0 /\ start + n <= Lines(chain)
  /\ timeout \/ (start = 0 /\ n = Lines(chain))
  /\ \A s \in Stream : las[s].lpos \in FlushAt /\ las[s].lbyte = 0
  /\ \E eintr \in {FALSE, timeout} :
       fl' = [Idle EXCEPT !.at = "fill", !.start = start, !.left = n, !.n = n,
                          !.timeout = timeout, !.eintr = eintr]
  /\ \E s \in Stream : las' = [las EXCEPT ![Clone] = la_lseek(chain, las[s], start)]
  /\ got' = << >>
  /\ UNCHANGED << chain, chg, edits >>

(* Mutant of Fits: a line that just fills the buffer is one for the next. *)
FitsNot(rest, room) == rest < room
Fits(rest, room) == rest <= room

FlushGet ==
  LET rest == la_lrsize(chain, las[Clone])
      room == BUFSIZ - Len(fl.buf)
      nget == IF Fits(rest, room) THEN rest ELSE room
      lcnt == IF Fits(rest, room) THEN fl.lcnt + 1 ELSE fl.lcnt
      r == la_lget(chain, las[Clone], nget)
      full == Len(fl.buf) + nget >= BUFSIZ \/ lcnt = fl.left
  IN
  /\ fl.at = "fill"
  /\ las' = [las EXCEPT ![Clone] = r.las]
  /\ fl' = [fl EXCEPT !.lcnt = lcnt, !.buf = @ \o r.bytes, !.at = IF full THEN "write" ELSE @]
  /\ UNCHANGED << chain, chg, got, edits >>

Ended(tot, out) ==
  /\ fl' = [Idle EXCEPT !.at = "end", !.start = fl.start, !.n = fl.n, !.tot = tot, !.out = out]
  /\ las' = [las EXCEPT ![Clone] = Closed]

(* la_lget gives less than it was asked for. *)
FlushReadFails == fl.at = "fill" /\ Ended(-1, fl.out) /\ UNCHANGED << chain, chg, got, edits >>

FlushReturn == fl.at = "end" /\ fl' = Idle /\ UNCHANGED << chain, las, chg, got, edits >>

FlushWrite ==
  /\ fl.at = "write"
  /\ IF fl.left = fl.lcnt THEN Ended(fl.tot + fl.lcnt, fl.out \o fl.buf)
     ELSE /\ fl' = [fl EXCEPT !.at = "fill", !.left = @ - fl.lcnt, !.tot = @ + fl.lcnt,
                              !.lcnt = 0, !.out = @ \o fl.buf, !.buf = << >>]
          /\ UNCHANGED las
  /\ UNCHANGED << chain, chg, got, edits >>

(* write(2) comes back with less: an error, unless errno says EINTR, be it  *)
(* that of an earlier call.                                                *)
FlushShort ==
  /\ fl.at = "write"
  /\ \E k \in 0 .. Len(fl.buf) - 1 :
       IF fl.timeout /\ fl.eintr /\ k > 0
         THEN fl' = [fl EXCEPT !.out = @ \o SubSeq(fl.buf, 1, k),
                               !.buf = SubSeq(@, k + 1, Len(@))] /\ UNCHANGED las
         ELSE Ended(fl.tot, fl.out \o SubSeq(fl.buf, 1, k))
  /\ UNCHANGED << chain, chg, got, edits >>

FlushAlarm ==
  /\ fl.at = "write" /\ fl.timeout
  /\ fl' = [fl EXCEPT !.eintr = TRUE]
  /\ UNCHANGED << chain, las, chg, got, edits >>

FlushInterrupt ==
  /\ fl.at = "write" /\ fl.timeout
  /\ Ended(fl.tot, fl.out)
  /\ UNCHANGED << chain, chg, got, edits >>

Next ==
  \/ \E s \in Stream :
       \/ \E n \in 0 .. Lines(chain) : LSeek(s, n)
       \/ \E n \in ReadLens : LGet(s, n)
       \/ LPnt(s)
       \/ \E new \in News : Insert(s, new)
       \/ \E n \in 1 .. Lines(chain) : Delete(s, n)
  \/ \E start \in 0 .. Lines(chain), n \in 1 .. Lines(chain), timeout \in BOOLEAN :
       FlushBegin(start, n, timeout)
  \/ FlushGet \/ FlushReadFails \/ FlushWrite \/ FlushShort \/ FlushAlarm \/ FlushInterrupt \/ FlushReturn

Spec == Init /\ [][Next]_vars

-----------------------------------------------------------------------------
(* Properties. *)

(* The lines that an fsd describes. *)
RECURSIVE LinesAt(_, _, _)
LinesAt(f, k, pos) ==
  IF k >= Len(f.bytes) THEN << >>
  ELSE << [file |-> f.file, pos |-> pos, chars |-> Length(f.bytes, k), nonl |-> FALSE] >>
         \o LinesAt(f, k + Width(f.bytes, k), pos + Length(f.bytes, k))

LinesOf(f) ==
  CASE f.bytes = << >> -> << >>
    [] f.bytes # << >> /\ IsSpecial(f) ->
         << [file |-> f.file, pos |-> f.pos, chars |-> f.bytes[3], nonl |-> f.bytes[2] = 1] >>
    [] OTHER -> LinesAt(f, 0, f.pos)

Text == FlattenSeq([i \in DOMAIN chain |-> LinesOf(chain[i])])

(* Every fsd fits into its chars and shorts (the widths of La_fsd), and says *)
(* of itself how many lines and bytes it describes.                        *)
TypeOK ==
  /\ chain \in Seq(Fsds) /\ las \in [Streams -> Las]
  /\ chg \in Nat /\ edits \in 0 .. MaxEdits
  /\ fl.at \in {"idle", "fill", "write", "end"}
  /\ \A i \in DOMAIN chain :
       LET f == chain[i] IN
       /\ (i = Len(chain)) <=> (f.nlines = 0)
       /\ f.nlines = Len(LinesOf(f)) /\ f.nlines <= LA_FSDLMAX
       /\ f.nlines > 0 /\ ~ IsSpecial(f) => f.nbytes <= LA_FSDNBMAX /\ Len(f.bytes) <= LA_FSDBMAX
       /\ f.nbytes = FoldLeft(LAMBDA n, l : n + l.chars, 0, LinesOf(f))

(* Whatever has been broken, inserted and deleted under it, a stream's      *)
(* la_fsbyte is at the encoded length of its line, la_ffpos at its byte in  *)
(* the file, and la_lpos tells how many lines are before it.               *)
StreamsExact ==
  \A s \in Streams : LET x == las[s] IN x.cfsd # 0 =>
    /\ x.lpos = Lines(SubSeq(chain, 1, x.cfsd - 1)) + x.fsline
    /\ IF Eof(x) THEN x.fsline = 0 /\ x.fsbyte = 0 /\ x.lbyte = 0 /\ x.ffpos = 0
       ELSE LET f == chain[x.cfsd] IN
            /\ x.fsline < f.nlines
            /\ x.lbyte < la_lwsize(chain, x)
            /\ IsSpecial(f) => x.fsbyte = 0 /\ x.ffpos = x.lbyte
            /\ ~ IsSpecial(f) =>
                 LET o == Over(f.bytes, 0, x.fsline)
                 IN x.fsbyte = o.k /\ x.ffpos = o.off + x.lbyte

Reading == INSTANCE Reader WITH
  text <- Text,
  at <- [s \in Stream |-> [line |-> las[s].lpos, byte |-> las[s].lbyte]]

(* A read gives the bytes from where the stream is up to no more than the   *)
(* newline, the one that is missing on disk included.                      *)
ImplementsReader == Reading!Spec

(* Doc.n of la_lflush: "Returns number of lines written, and if that equals  *)
(* min (nlines, la_linesize (plas)), all went OK.  Else, part of the next    *)
(* line may have been written out."                                        *)
FlushExact ==
  fl.at = "end" =>
    LET want == Reading!AllBytes(SubSeq(Text, fl.start + 1, fl.start + fl.n))
        told == Reading!AllBytes(SubSeq(Text, fl.start + 1, fl.start + fl.tot))
    IN /\ IsPrefix(fl.out, want) /\ IsPrefix(told, fl.out)
       /\ fl.tot = fl.n => fl.out = want

(* The comment of la_lcount: "A paragraph is a block of non-blank lines.  A  *)
(* line with a form-feed in the first column is considered blank"; one that *)
(* has text after the form feed begins a paragraph.                        *)
First(l) == Reading!Bytes(l)[1]
Blank(l) == LET b == Reading!Bytes(l) IN Len(b) = 1 \/ (Len(b) = 2 /\ b[1] \in FormFeed)

ParagraphEnds(start, dots) ==
  {i \in start + 1 .. Len(Text) :
     /\ ~ Blank(Text[i])
     /\ \/ i = Len(Text)
        \/ Blank(Text[i + 1]) \/ First(Text[i + 1]) \in FormFeed
        \/ dots /\ First(Text[i + 1]) \in Dot}

CountsParagraphs ==
  fl.at = "idle" /\ got = << >> => \A start \in 0 .. Len(Text), number \in 1 .. 3, mode \in {2, 3} :
    LET ends == ParagraphEnds(start, mode = 3 /\ number = 1)
        upto == {e \in ends : Cardinality({d \in ends : d < e}) < number}
    IN \A s \in Stream : la_lcount(chain, las[s], start, number, mode)
                            = IF upto = {} THEN 0 ELSE Max(upto) - start
=============================================================================

------------------------------- MODULE CLine --------------------------------
(* The line the editor has in its hands (e.la.c): GetLine brings a line of   *)
(* the current workspace into cline, what is typed changes only cline, and *)
(* putline writes it back, as late as when another line is wanted, through *)
(* the stream it came from; by then the user may be in another window, in  *)
(* another file, or may have removed the window.  Files are sequences of   *)
(* lines, as LineFile promises.                                            *)
EXTENDS Integers, Sequences

CONSTANTS
  File, Word, blank, MaxLines, Text0,   \* see Text
  NoFile,       \* the file of a workspace that has none
  Rows,         \* the text lines of a window
  MaxEdits,     \* bounds the edits
  EditCurrent,  \* the user may edit the file he is already in
  BehindEnd,    \* the user may press the case key, or click, behind the end
  Interrupt,    \* the user may press INT, which stops a display (dintrup)
  PutFails      \* la_clone and la_lreplace may fail: no memory, no disk space

ASSUME CLineAssumption ==
  /\ blank \notin Word /\ MaxLines \in Nat
  /\ Text0 \in [File -> Seq(Word \cup {blank})]
  /\ \A f \in File : Len(Text0[f]) <= MaxLines
  /\ NoFile \notin File /\ Rows \in Nat \ {0} /\ MaxEdits \in Nat
  /\ {EditCurrent, BehindEnd, Interrupt, PutFails} \subseteq BOOLEAN

Win  == {1, 2}                   \* the second may be made and removed
Wksp == Win \X {1, 2}            \* a window's two workspaces
none == << 0, 0 >>               \* clinelas = 0
MaxLn == MaxLines + 1            \* the cursor goes behind the end of a file
Ln   == 0 .. MaxLn
NO   == 0
YES  == 1
TOLD == 2                        \* fcline after credisplay: changed, and shown

VARIABLES
  st,     \* the files, the workspaces and the line in hand
  shown,  \* shown[i]: which workspace of a window is not its altwksp
  win,    \* the window the cursor is in
  edits   \* the edits so far

vars == << st, shown, win, edits >>

The == INSTANCE Text WITH text <- st.text, cur <- st.wk[<< win, shown[win] >>].file
Line   == The!Line
LineNo == The!LineNo

(* st.wk[w] is a workspace's file and whether its stream is open; st.las,   *)
(* st.no, st.line, st.f and st.x are clinelas, clineno, cline, fcline and  *)
(* xcline; st.fatal tells that putline has found a bug and the editor ends.*)
TypeOK ==
  /\ st \in [text : [File -> UNION {[1 .. n -> Line] : n \in 0 .. MaxLines}],
             wk : [Wksp -> [file : File \cup {NoFile}, open : BOOLEAN]],
             las : Wksp \cup {none}, no : Ln, line : Line,
             f : {NO, YES, TOLD}, x : BOOLEAN, fatal : BOOLEAN]
  /\ shown \in [Win -> 1 .. 2] /\ win \in Win /\ edits \in 0 .. MaxEdits

noFile == [file |-> NoFile, open |-> FALSE]
On(f)  == [file |-> f, open |-> TRUE]

Cur     == << win, shown[win] >>         \* curwksp
Alt(i)  == << i, 3 - shown[i] >>
Shows(i) == << i, shown[i] >>
Made(i)  == st.wk[Shows(i)].open

Init ==
  /\ \E f \in File :
       st = [text |-> Text0, wk |-> [w \in Wksp |-> IF w = << 1, 1 >> THEN On(f) ELSE noFile],
             las |-> none, no |-> 0, line |-> blank, f |-> NO, x |-> FALSE, fatal |-> FALSE]
  /\ shown = [i \in Win |-> 1] /\ win = 1 /\ edits = 0

-----------------------------------------------------------------------------
(* putline, on a state s.  The stream is cloned, sought to the line, and the *)
(* line replaced: at the end of the file it is put there, wherever clineno *)
(* is.  A stream that is not open cannot be cloned.                        *)
Pending(s) == s.f # NO /\ s.las # none /\ s.wk[s.las].open

At(s) == IF s.no < Len(s.text[s.wk[s.las].file]) THEN s.no
                                                 ELSE Len(s.text[s.wk[s.las].file])
TextWith(s) == LET f == s.wk[s.las].file
               IN  [s.text EXCEPT ![f] = The!Put(@, At(s), s.line)]
Written(s) == [s EXCEPT !.text = TextWith(s), !.f = NO, !.las = none,
                        !.fatal = Len(TextWith(s)[s.wk[s.las].file]) < s.no]

putline(s) == IF Pending(s) THEN Written(s) ELSE s

(* What putline may come to: without memory the line stays in hand, and    *)
(* without disk space it is given up.                                      *)
putlines(s) ==
  {putline(s)} \cup (IF PutFails /\ Pending(s)
                     THEN {s, [s EXCEPT !.f = NO, !.las = none]} ELSE {})

(* Mutant of GetFlush: the file is changed under the line in hand. *)
NotFlushed(s) == {s}

(* GetLine (-1). *)
GetFlush(s) == {[r EXCEPT !.las = none] : r \in putlines(s)}

(* Mutant of HaveIt: the line number is enough. *)
HaveNumber(s, w, ln) == s.las # none /\ s.no = ln

(* The file is compared, not the stream. *)
HaveIt(s, w, ln) == /\ s.las # none /\ s.wk[s.las].file = s.wk[w].file
                    /\ s.no = ln

(* GetLine (ln), when curlas is the stream of workspace w. *)
GetLine(s, w, ln) ==
  LET f == s.wk[w].file
      behind(r) == [r EXCEPT !.las = w, !.no = ln, !.line = blank,
                             !.f = NO, !.x = TRUE]
      read(r)   == [r EXCEPT !.las = w, !.no = ln, !.line = r.text[f][ln + 1],
                             !.f = NO, !.x = FALSE]
  IN  IF ln >= Len(s.text[f])  THEN {behind(r) : r \in putlines(s)}
      ELSE IF HaveIt(s, w, ln) THEN {s}
      ELSE {read(r) : r \in putlines(s)}

GetLines(s, w, ln1, ln2) == UNION {GetLine(r, w, ln2) : r \in GetLine(s, w, ln1)}

(* putup, of a window's rows from one to another; the first may show any    *)
(* line, since the user scrolls.  Only the first and the last row matter   *)
(* to the line in hand.  dintrup is asked before the first row and before  *)
(* each but the last.                                                      *)
putup(s, w, rows) ==
  UNION { GetLines(s, w, t, t + rows - 1)
          \cup (IF Interrupt THEN {s} \cup GetLine(s, w, t) ELSE {})
        : t \in 0 .. MaxLn - rows + 1 }

ShowsFile(f) == {w \in {Shows(i) : i \in Win} : st.wk[w] = On(f)}

(* redisplay: nothing, or some rows of the windows that show file f. *)
redisplay(s, f) ==
  {s} \cup UNION {GetLines(s, w, ln1, ln2) : w \in ShowsFile(f), ln1 \in Ln, ln2 \in Ln}

-----------------------------------------------------------------------------
(* The edits, in the current window. *)

curfile == st.wk[Cur].file
Size(s) == Len(s.text[curfile])
WithText(s, t) == [s EXCEPT !.text[curfile] = t]

(* Mutant of Fits: an edit makes the file as long as it likes. *)
FitsAny(t) == TRUE

(* la_blank and la_lcopy do not make a file too long. *)
Fits(t) == Len(t) <= MaxLines

(* An edit leaves one of the states ss, and everything else as it was. *)
Edits(ss) ==
  /\ edits < MaxEdits /\ ~ st.fatal
  /\ edits' = edits + 1 /\ st' \in ss
  /\ UNCHANGED << shown, win >>

(* Mutant of LongEnough: the file is not extended. *)
NotExtended(t, ln) == t

(* The lines of the file when line ln of it is to be typed in. *)
LongEnough(t, ln) == The!Extended(t, ln + 1)

(* A character is typed, or deleted: the line in hand becomes v, and if    *)
(* it is behind the end of the file, the file is extended by blank lines.  *)
printchar == \E ln \in LineNo, v \in Line :
  LET type(r) == LET t == LongEnough(r.text[curfile], ln)
                 IN  IF Fits(t) THEN [WithText(r, t) EXCEPT !.line = v, !.x = FALSE, !.f = YES]
                                ELSE r
  IN  Edits({type(r) : r \in GetLine(st, Cur, ln)})

(* The case key changes a character, or moves the cursor; fcline is set    *)
(* whichever it does.                                                      *)
chgcase == \E ln \in Ln, v \in Word :
  Edits({ [r EXCEPT !.line = IF @ = blank THEN blank ELSE v, !.f = YES]
        : r \in {q \in GetLine(st, Cur, ln) : BehindEnd \/ ~ q.x} })

(* ed: the line in hand is written first, so that the file has its full    *)
(* size; then the lines of the file are changed, not cline, to t.          *)
ed(t(_)) == Edits(UNION { redisplay(WithText(r, t(r.text[curfile])), curfile)
                        : r \in {q \in GetFlush(st) : Fits(t(q.text[curfile]))} })

(* ed (OPOPEN) and ed (OPCLOSE), of a line the file has; ed (OPINSERT),    *)
(* behind the end after blank lines; edrect, which replaces a line.        *)
open   == \E ln \in LineNo :
  LET t(x) == IF ln < Len(x) THEN The!Insert(x, ln, << blank >>) ELSE x IN ed(t)
close  == \E ln \in LineNo :
  LET t(x) == IF ln < Len(x) THEN The!Delete(x, ln, 1) ELSE x IN ed(t)
insert == \E ln \in LineNo, v \in Line :
  LET t(x) == The!Insert(The!Extended(x, ln), ln, << v >>) IN ed(t)
edrect == \E ln \in LineNo, v \in Line :
  LET t(x) == The!Put(x, ln, v) IN ed(t)

(* splitlines: the rest of the line goes on nl lines further down, as the  *)
(* line in hand, when blank lines were made for it and the first part was  *)
(* put.                                                                    *)
splitlines == \E ln \in LineNo, nl \in 1 .. MaxLines, head \in Line, tail \in Word :
  LET blanked(r) == WithText(r, The!Insert(r.text[curfile], ln + 1, The!Blanks(nl)))
      first(r)   == UNION { putlines([q EXCEPT !.line = head, !.f = YES])
                          : q \in GetLine(blanked(r), Cur, ln) }
      second(r)  == [r EXCEPT !.line = tail, !.las = Cur, !.no = ln + nl, !.f = YES]
      flushed    == UNION {GetFlush(r) : r \in GetLine(st, Cur, ln)}
      made       == {r \in flushed : Size(r) + nl <= MaxLines}
  IN  /\ \A r \in GetLine(st, Cur, ln) : ~ r.x /\ r.line # blank
      /\ Edits((flushed \ made) \cup
               UNION {redisplay(second(r), curfile) : r \in UNION {first(q) : q \in made}})

(* joinlines: the line takes in the next one that is not blank, nl further *)
(* down, and stays in hand; the lines it has taken in are closed.          *)
joinlines == \E ln \in LineNo, nl \in 1 .. MaxLines, v \in Word :
  LET joined == { [r EXCEPT !.line = v, !.f = YES]
                : r \in UNION {GetLines(q, Cur, ln + nl, ln) : q \in GetFlush(st)} }
      shut(r) == WithText(r, The!Delete(r.text[curfile], ln + 1, nl))
      flushed == UNION {GetFlush(q) : q \in UNION {redisplay(r, curfile) : r \in joined}}
  IN  /\ \A r \in GetFlush(st) :
           /\ ln + nl < Size(r) /\ r.text[curfile][ln + nl + 1] # blank
           /\ \A i \in 1 .. nl - 1 : r.text[curfile][ln + i + 1] = blank
      /\ Edits(UNION {redisplay(shut(r), curfile) : r \in flushed})

-----------------------------------------------------------------------------
(* What moves the user about, and what shows or saves the files. *)

Goes(ss) == ~ st.fatal /\ st' \in ss /\ UNCHANGED edits

(* The cursor rests on a line, or part of the window is shown. *)
look == Goes(UNION {GetLine(st, Cur, ln) : ln \in Ln}) /\ UNCHANGED << shown, win >>

(* savefile, of whatever file, puts the line in hand. *)
savefile == Goes(putlines(st)) /\ UNCHANGED << shown, win >>

(* credisplay, before a command or a motion: when the line in hand has been *)
(* changed since the last time, the line of the cursor is shown in the     *)
(* other windows of the file.                                              *)
credisplay == \E ln \in Ln :
  /\ st.f = YES
  /\ ln = st.no \/ ln < Size(st) \/ BehindEnd
  /\ Goes({ [r EXCEPT !.f = TOLD]
          : r \in {st} \cup UNION {GetLine(st, w, ln) : w \in ShowsFile(curfile) \ {Cur}} })
  /\ UNCHANGED << shown, win >>

chgwindow == \E i \in Win \ {win} :
  Made(i) /\ win' = i /\ Goes({st}) /\ UNCHANGED shown

switchfile ==
  /\ st.wk[Alt(win)].open
  /\ Goes(putup(st, Alt(win), Rows))
  /\ shown' = [shown EXCEPT ![win] = 3 - @] /\ UNCHANGED win

(* editfile and doedit: the file of the alternate workspace is released,   *)
(* the two are exchanged, and the stream of the one is opened again for    *)
(* the new file.  The window is not shown again if the file is the same.   *)
editfile == \E f \in File :
  LET s == [st EXCEPT !.wk[Alt(win)] = On(f)]
  IN  /\ EditCurrent \/ f # curfile
      /\ Goes(IF f = curfile THEN {s} ELSE putup(s, Alt(win), Rows))
      /\ shown' = [shown EXCEPT ![win] = 3 - @] /\ UNCHANGED win

(* makewindow, without a file or with one: the new window has the current  *)
(* file and the alternate one, or the new one and the current one.         *)
makewindow == \E alt \in {st.wk[Alt(1)].file, curfile} :
                \E f \in IF alt = curfile THEN File \ {curfile} ELSE {curfile} :
  LET s == [st EXCEPT !.wk[<< 2, 1 >>] = IF alt = NoFile THEN noFile ELSE On(alt),
                      !.wk[<< 2, 2 >>] = On(f)]
  IN  /\ ~ Made(2)
      /\ Goes(putup(s, << 2, 2 >>, Rows))
      /\ shown' = [shown EXCEPT ![2] = 2] /\ win' = 2

Without2(s) == [s EXCEPT !.wk = [w \in Wksp |-> IF w[1] = 2 THEN noFile ELSE @[w]]]

(* Mutant of removewindow: the first window is not shown again. *)
removeUnseen == /\ Made(2) /\ win' = 1 /\ shown' = [shown EXCEPT ![2] = 1]
                /\ Goes({Without2(st)})

(* removewindow: the last window made goes; what it hid of the other one is *)
(* shown there, and then its streams are closed and it is freed.           *)
removewindow == /\ Made(2) /\ win' = 1 /\ shown' = [shown EXCEPT ![2] = 1]
                /\ Goes({Without2(r) : r \in putup(st, Shows(1), Rows)})

Next == \/ printchar \/ chgcase \/ open \/ close \/ insert \/ edrect
        \/ splitlines \/ joinlines
        \/ look \/ savefile \/ credisplay
        \/ chgwindow \/ switchfile \/ editfile \/ makewindow \/ removewindow

Spec == Init /\ [][Next]_vars

-----------------------------------------------------------------------------
(* A line in hand that has not been changed is the line of the file, and   *)
(* one that has been is of the file still: what GetLine says it has, and   *)
(* what putline will replace (e.la.c).                                     *)
CacheCurrent ==
  st.las # none /\ ~ st.fatal =>
    LET t == st.text[st.wk[st.las].file]
    IN  /\ ~ st.x => st.no < Len(t)
        /\ ~ st.x /\ st.f = NO => st.line = t[st.no + 1]

(* The line in hand is of a stream that is open, so that it can be written *)
(* back: no window is freed, and no workspace released, before the display *)
(* has taken another line (e.wi.c, e.u.c).                                 *)
CacheStreamOpen == st.las # none => st.wk[st.las].open

(* putline never finds the file shorter than the line it has just put.     *)
NoFatal == ~ st.fatal

(* What the user sees, the files and what is typed, changes as Text says:  *)
(* whatever windows and workspaces do, no typed line is lost, none is put  *)
(* twice, or in another line, or in another file than the user is in, and  *)
(* moving about changes nothing.                                           *)
seen == IF Pending(st) THEN TextWith(st) ELSE st.text
Abstract == INSTANCE Text WITH text <- seen, cur <- curfile
ImplementsText == Abstract!Spec
=============================================================================

----------------------------- MODULE CLineProofs ----------------------------
(* Proofs about CLine: for any files, any number of lines and of edits, and *)
(* two rows or more, the line in hand is what GetLine says it is, its       *)
(* stream is open, putline finds the file as it left it, and what the user  *)
(* sees changes as Text says: the deferred writing back loses no line and   *)
(* doubles none.                                                            *)
EXTENDS CLine, TLAPS, SequenceTheorems

(* What is assumed of users and machine throughout: CLine says what each     *)
(* means, and that without one of them the editor does not keep what is    *)
(* proved.                                                                 *)
Careful == ~ EditCurrent /\ ~ BehindEnd /\ ~ Interrupt /\ ~ PutFails /\ Rows >= 2

-----------------------------------------------------------------------------
(* Lines of files. *)

(* Which numbers lines have, and where the cursor goes. *)
LEMMA LineNumbers == /\ MaxLines \in Nat /\ MaxLn = MaxLines + 1 /\ Ln \subseteq Nat /\ LineNo \subseteq Ln
                     /\ blank \in Line
                     /\ \A n : n \in LineNo <=> n \in Nat /\ n < MaxLines
                     /\ \A n : n \in Ln <=> n \in Nat /\ n <= MaxLines + 1
  BY CLineAssumption DEF MaxLn, Ln, LineNo, The!LineNo, Line, The!Line

(* The lines of a file. *)
Texts == {t \in Seq(Line) : Len(t) <= MaxLines}

(* TypeOK says it without Seq, for TLC. *)
LEMMA TextsAre == UNION {[1 .. n -> Line] : n \in 0 .. MaxLines} = Texts
<1>1. ASSUME NEW n \in 0 .. MaxLines, NEW t \in [1 .. n -> Line] PROVE t \in Texts
  <2>1. n \in Nat /\ n <= MaxLines
    BY LineNumbers
  <2>2. t \in Seq(Line) /\ Len(t) = n
    BY <2>1
  <2> QED BY <2>1, <2>2 DEF Texts
<1>2. ASSUME NEW t \in Texts PROVE t \in UNION {[1 .. n -> Line] : n \in 0 .. MaxLines}
  <2>1. Len(t) \in 0 .. MaxLines /\ t \in [1 .. Len(t) -> Line]
    BY LineNumbers, LenProperties DEF Texts
  <2> QED BY <2>1
<1> QED BY <1>1, <1>2

(* The lines of two sequences, one after the other. *)
LEMMA Joined ==
  ASSUME NEW a \in Seq(Line), NEW b \in Seq(Line)
  PROVE  /\ a \o b \in Seq(Line)
         /\ Len(a \o b) = Len(a) + Len(b)
         /\ \A i \in 1 .. Len(a) + Len(b) : (a \o b)[i] = IF i <= Len(a) THEN a[i] ELSE b[i - Len(a)]
  BY ConcatProperties

(* n blank lines. *)
LEMMA BlankLines ==
  ASSUME NEW n \in Nat
  PROVE  /\ The!Blanks(n) \in Seq(Line) /\ Len(The!Blanks(n)) = n
         /\ \A i \in 1 .. n : The!Blanks(n)[i] = blank
  BY LineNumbers DEF The!Blanks

(* A file that is long enough stays; else blank lines are put behind it. *)
LEMMA ExtendedLines ==
  ASSUME NEW t \in Seq(Line), NEW n \in Nat
  PROVE  /\ The!Extended(t, n) \in Seq(Line)
         /\ Len(The!Extended(t, n)) = IF n <= Len(t) THEN Len(t) ELSE n
         /\ \A i \in 1 .. Len(The!Extended(t, n)) :
              The!Extended(t, n)[i] = IF i <= Len(t) THEN t[i] ELSE blank
         /\ n <= Len(t) => The!Extended(t, n) = t
<1>1. Len(t) \in Nat
  BY LenProperties
<1>2. CASE n <= Len(t)
  BY <1>1, <1>2 DEF The!Extended
<1>3. CASE ~ (n <= Len(t))
  <2> DEFINE b == The!Blanks(n - Len(t))
  <2>1. n - Len(t) \in Nat
    BY <1>1, <1>3
  <2>2. b \in Seq(Line) /\ Len(b) = n - Len(t) /\ \A i \in 1 .. n - Len(t) : b[i] = blank
    BY <2>1, BlankLines
  <2>3. The!Extended(t, n) = t \o b
    BY <1>3 DEF The!Extended
  <2> HIDE DEF b
  <2>4. /\ t \o b \in Seq(Line) /\ Len(t \o b) = Len(t) + Len(b)
        /\ \A i \in 1 .. Len(t) + Len(b) : (t \o b)[i] = IF i <= Len(t) THEN t[i] ELSE b[i - Len(t)]
    BY <2>2, Joined
  <2>5. ASSUME NEW i \in 1 .. n, ~ (i <= Len(t)) PROVE b[i - Len(t)] = blank
    BY <1>1, <2>2, <2>5
  <2> QED BY <1>1, <1>3, <2>2, <2>3, <2>4, <2>5
<1> QED BY <1>2, <1>3

(* A line of the file, or behind its end, is replaced. *)
LEMMA PutLines ==
  ASSUME NEW t \in Seq(Line), NEW ln \in Nat, NEW v \in Line
  PROVE  /\ The!Put(t, ln, v) \in Seq(Line)
         /\ Len(The!Put(t, ln, v)) = IF ln < Len(t) THEN Len(t) ELSE ln + 1
         /\ \A i \in 1 .. Len(The!Put(t, ln, v)) :
              The!Put(t, ln, v)[i] = IF i = ln + 1 THEN v ELSE IF i <= Len(t) THEN t[i] ELSE blank
<1> DEFINE e == The!Extended(t, ln + 1)
<1>1. /\ e \in Seq(Line) /\ Len(t) \in Nat
      /\ Len(e) = IF ln + 1 <= Len(t) THEN Len(t) ELSE ln + 1
      /\ \A i \in 1 .. Len(e) : e[i] = IF i <= Len(t) THEN t[i] ELSE blank
  BY ExtendedLines, LenProperties
<1>2. The!Put(t, ln, v) = [e EXCEPT ![ln + 1] = v]
  BY DEF The!Put
<1> HIDE DEF e
<1>3. ln + 1 \in 1 .. Len(e)
  BY <1>1
<1>4. /\ [e EXCEPT ![ln + 1] = v] \in Seq(Line)
      /\ Len([e EXCEPT ![ln + 1] = v]) = Len(e)
      /\ \A j \in 1 .. Len(e) : [e EXCEPT ![ln + 1] = v][j] = IF j = ln + 1 THEN v ELSE e[j]
  BY <1>1, <1>3, ExceptSeq
<1> QED BY <1>1, <1>2, <1>4

(* Lines are inserted before line ln. *)
LEMMA InsertLines ==
  ASSUME NEW t \in Seq(Line), NEW ln \in Nat, ln <= Len(t), NEW new \in Seq(Line)
  PROVE  /\ The!Insert(t, ln, new) \in Seq(Line)
         /\ Len(The!Insert(t, ln, new)) = Len(t) + Len(new)
         /\ \A i \in 1 .. Len(The!Insert(t, ln, new)) :
              The!Insert(t, ln, new)[i] = IF i <= ln THEN t[i]
                                          ELSE IF i <= ln + Len(new) THEN new[i - ln]
                                          ELSE t[i - Len(new)]
<1> DEFINE a == SubSeq(t, 1, ln)
           b == SubSeq(t, ln + 1, Len(t))
<1>1. Len(t) \in Nat /\ Len(new) \in Nat /\ \A i \in 1 .. Len(t) : t[i] \in Line
  BY LenProperties, ElementOfSeq
<1>2. a \in Seq(Line) /\ Len(a) = ln /\ \A i \in 1 .. ln : a[i] = t[i]
  <2>1. \A i \in 1 .. ln : t[i] \in Line
    BY <1>1
  <2>2. /\ a \in Seq(Line) /\ Len(a) = (IF 1 <= ln THEN ln - 1 + 1 ELSE 0)
        /\ \A i \in 1 .. ln - 1 + 1 : a[i] = t[1 + i - 1]
    BY <2>1, SubSeqProperties
  <2> HIDE DEF a
  <2> QED BY <2>2
<1>3. /\ b \in Seq(Line) /\ Len(b) = Len(t) - ln
      /\ \A i \in 1 .. Len(t) - ln : b[i] = t[i + ln]
  <2>1. \A i \in ln + 1 .. Len(t) : t[i] \in Line
    BY <1>1
  <2>2. /\ b \in Seq(Line) /\ Len(b) = (IF ln + 1 <= Len(t) THEN Len(t) - (ln + 1) + 1 ELSE 0)
        /\ \A i \in 1 .. Len(t) - (ln + 1) + 1 : b[i] = t[ln + 1 + i - 1]
    BY <1>1, <2>1, SubSeqProperties
  <2> HIDE DEF b
  <2>3. \A i \in 1 .. Len(t) - ln : ln + 1 + i - 1 = i + ln /\ i \in 1 .. Len(t) - (ln + 1) + 1
    BY <1>1
  <2> QED BY <1>1, <2>2, <2>3
<1>4. The!Insert(t, ln, new) = (a \o new) \o b
  BY DEF The!Insert
<1> HIDE DEF a, b
<1>5. /\ a \o new \in Seq(Line) /\ Len(a \o new) = ln + Len(new)
      /\ \A i \in 1 .. ln + Len(new) : (a \o new)[i] = IF i <= ln THEN a[i] ELSE new[i - ln]
  BY <1>2, Joined
<1> DEFINE c == a \o new
<1> HIDE DEF c
<1>6. c \in Seq(Line) /\ Len(c) = ln + Len(new)
      /\ \A i \in 1 .. ln + Len(new) : c[i] = IF i <= ln THEN a[i] ELSE new[i - ln]
  BY <1>5 DEF c
<1>7. /\ c \o b \in Seq(Line) /\ Len(c \o b) = Len(c) + Len(b)
      /\ \A i \in 1 .. Len(c) + Len(b) : (c \o b)[i] = IF i <= Len(c) THEN c[i] ELSE b[i - Len(c)]
  BY <1>3, <1>6, Joined
<1>8. The!Insert(t, ln, new) = c \o b
  BY <1>4 DEF c
<1>9. ASSUME NEW i \in 1 .. Len(t) + Len(new)
      PROVE  (c \o b)[i] = IF i <= ln THEN t[i]
                           ELSE IF i <= ln + Len(new) THEN new[i - ln] ELSE t[i - Len(new)]
  <2>1. CASE i <= ln + Len(new)
    <3>1. (c \o b)[i] = c[i] /\ i \in 1 .. ln + Len(new)
      BY <1>1, <1>3, <1>6, <1>7, <2>1
    <3> QED BY <1>2, <1>6, <2>1, <3>1
  <2>2. CASE ~ (i <= ln + Len(new))
    <3>1. (c \o b)[i] = b[i - (ln + Len(new))] /\ i - (ln + Len(new)) \in 1 .. Len(t) - ln
      BY <1>1, <1>3, <1>6, <1>7, <2>2, SMTT(45)
    <3>2. b[i - (ln + Len(new))] = t[(i - (ln + Len(new))) + ln]
      BY <1>3, <3>1
    <3>3. (i - (ln + Len(new))) + ln = i - Len(new)
      BY <1>1
    <3> QED BY <1>1, <2>2, <3>1, <3>2, <3>3
  <2> QED BY <2>1, <2>2
<1>10. Len(c \o b) = Len(t) + Len(new)
  BY <1>1, <1>3, <1>6, <1>7
<1> QED BY <1>7, <1>8, <1>9, <1>10

(* n lines from line ln on are deleted. *)
LEMMA DeleteLines ==
  ASSUME NEW t \in Seq(Line), NEW ln \in Nat, NEW n \in Nat, ln + n <= Len(t)
  PROVE  /\ The!Delete(t, ln, n) \in Seq(Line)
         /\ Len(The!Delete(t, ln, n)) = Len(t) - n
<1> DEFINE a == SubSeq(t, 1, ln)
           b == SubSeq(t, ln + n + 1, Len(t))
<1>1. Len(t) \in Nat /\ \A i \in 1 .. Len(t) : t[i] \in Line
  BY LenProperties, ElementOfSeq
<1>2. a \in Seq(Line) /\ Len(a) = ln
  <2>1. \A i \in 1 .. ln : t[i] \in Line
    BY <1>1
  <2>2. a \in Seq(Line) /\ Len(a) = (IF 1 <= ln THEN ln - 1 + 1 ELSE 0)
    BY <2>1, SubSeqProperties
  <2> HIDE DEF a
  <2> QED BY <2>2
<1>3. b \in Seq(Line) /\ Len(b) = Len(t) - (ln + n)
  <2>1. \A i \in ln + n + 1 .. Len(t) : t[i] \in Line
    BY <1>1
  <2>2. b \in Seq(Line) /\ Len(b) = (IF ln + n + 1 <= Len(t) THEN Len(t) - (ln + n + 1) + 1 ELSE 0)
    BY <1>1, <2>1, SubSeqProperties
  <2> HIDE DEF b
  <2> QED BY <1>1, <2>2
<1>4. The!Delete(t, ln, n) = a \o b
  BY DEF The!Delete
<1> HIDE DEF a, b
<1>5. a \o b \in Seq(Line) /\ Len(a \o b) = Len(a) + Len(b)
  BY <1>2, <1>3, Joined
<1> QED BY <1>1, <1>2, <1>3, <1>4, <1>5

-----------------------------------------------------------------------------
(* The states of the editor's hands, and what it may count on there. *)

State == [text : [File -> Texts],
          wk : [Wksp -> [file : File \cup {NoFile}, open : BOOLEAN]],
          las : Wksp \cup {none}, no : Ln, line : Line,
          f : {NO, YES, TOLD}, x : BOOLEAN, fatal : BOOLEAN]

(* A line is in hand only through an open stream.  It is a line of the file, *)
(* unless it is behind its end, where nothing is typed before the file has *)
(* been made long enough; and if nothing has been typed, it is as in the   *)
(* file.                                                                   *)
Hand(s) ==
  /\ ~ s.fatal
  /\ s.las = none => s.f = NO
  /\ s.las # none => s.wk[s.las].open
  /\ s.las # none /\ s.x => s.f = NO /\ s.no >= Len(s.text[s.wk[s.las].file])
  /\ s.las # none /\ ~ s.x => s.no < Len(s.text[s.wk[s.las].file])
  /\ s.las # none /\ ~ s.x /\ s.f = NO => s.line = s.text[s.wk[s.las].file][s.no + 1]

Good(s) ==
  /\ s \in State
  /\ \A w \in Wksp : s.wk[w].open => s.wk[w].file \in File
  /\ Hand(s)

(* The files as they will be when the line in hand is written back. *)
Seen(s) == IF Pending(s) THEN TextWith(s) ELSE s.text

(* clinelas is 0 when no line is in hand. *)
LEMMA NoneIsNoWksp == none \notin Wksp
  BY DEF none, Wksp, Win

(* The fields of a state. *)
LEMMA Fields ==
  ASSUME NEW s \in State
  PROVE  /\ s.text \in [File -> Texts] /\ s.las \in Wksp \cup {none} /\ s.no \in Ln /\ s.no \in Nat
         /\ s.wk \in [Wksp -> [file : File \cup {NoFile}, open : BOOLEAN]]
         /\ s.line \in Line /\ s.f \in {NO, YES, TOLD} /\ s.x \in BOOLEAN /\ s.fatal \in BOOLEAN
         /\ \A f \in File : s.text[f] \in Seq(Line) /\ Len(s.text[f]) \in Nat /\ Len(s.text[f]) <= MaxLines
<1>1. /\ s.text \in [File -> Texts] /\ s.las \in Wksp \cup {none} /\ s.no \in Ln
      /\ s.wk \in [Wksp -> [file : File \cup {NoFile}, open : BOOLEAN]]
      /\ s.line \in Line /\ s.f \in {NO, YES, TOLD} /\ s.x \in BOOLEAN /\ s.fatal \in BOOLEAN
  BY DEF State
<1>2. \A f \in File : s.text[f] \in Seq(Line) /\ Len(s.text[f]) \in Nat /\ Len(s.text[f]) <= MaxLines
  BY <1>1, LenProperties DEF Texts
<1> QED BY <1>1, <1>2, LineNumbers

(* A line in hand that has been changed replaces a line of its file. *)
LEMMA PendingLine ==
  ASSUME NEW s, Good(s), Pending(s)
  PROVE  /\ s.las \in Wksp /\ s.wk[s.las].file \in File /\ ~ s.x
         /\ s.no < Len(s.text[s.wk[s.las].file])
         /\ TextWith(s) = [s.text EXCEPT ![s.wk[s.las].file] = The!Put(@, s.no, s.line)]
         /\ TextWith(s) \in [File -> Texts]
         /\ \A f \in File : Len(TextWith(s)[f]) = Len(s.text[f])
<1> DEFINE f == s.wk[s.las].file
           t == s.text[f]
<1>1. s.las \in Wksp /\ s.las # none /\ s.f # NO /\ f \in File
  BY Fields DEF Pending, Good
<1>2. ~ s.x /\ s.no < Len(t)
  BY <1>1 DEF Good, Hand
<1>3. At(s) = s.no
  BY <1>2 DEF At
<1>4. s.text \in [File -> Texts] /\ t \in Seq(Line) /\ Len(t) <= MaxLines /\ Len(t) \in Nat
      /\ s.no \in Nat /\ s.line \in Line
  BY <1>1, Fields DEF Good
<1>5. TextWith(s) = [s.text EXCEPT ![f] = The!Put(t, s.no, s.line)]
  BY <1>1, <1>3, <1>4 DEF TextWith
<1>6. The!Put(t, s.no, s.line) \in Texts /\ Len(The!Put(t, s.no, s.line)) = Len(t)
  BY <1>2, <1>4, PutLines DEF Texts
<1> HIDE DEF f, t
<1>7. TextWith(s) \in [File -> Texts] /\ \A g \in File : Len(TextWith(s)[g]) = Len(s.text[g])
  BY <1>1, <1>4, <1>5, <1>6 DEF t
<1> QED BY <1>1, <1>2, <1>5, <1>7 DEF f, t

(* What the user sees are files, as long as the ones there are; and there is *)
(* a difference just when the line in hand has been changed.                *)
LEMMA SeenTexts ==
  ASSUME NEW s, Good(s)
  PROVE  /\ Seen(s) \in [File -> Texts]
         /\ \A f \in File : Len(Seen(s)[f]) = Len(s.text[f])
         /\ Pending(s) <=> s.f # NO
         /\ ~ Pending(s) => Seen(s) = s.text
  BY PendingLine, Fields DEF Seen, Good, Hand, Pending

(* putline writes the file the user sees, and finds no bug. *)
LEMMA PutsSeen ==
  ASSUME NEW s, Good(s)
  PROVE  /\ Good(putline(s)) /\ putline(s).text = Seen(s) /\ Seen(putline(s)) = Seen(s)
         /\ putline(s).wk = s.wk /\ putline(s).f = NO /\ putline(s).x = s.x
         /\ putline(s).las \in {s.las, none}
<1> DEFINE r == putline(s)
<1>1. CASE Pending(s)
  <2> DEFINE T == TextWith(s)
             f == s.wk[s.las].file
             F == Len(T[f]) < s.no
  <2>1. /\ s.las \in Wksp /\ f \in File /\ s.no < Len(s.text[f])
        /\ T \in [File -> Texts] /\ Len(T[f]) = Len(s.text[f])
    BY <1>1, PendingLine
  <2>2. s \in State /\ Len(s.text[f]) \in Nat /\ s.no \in Nat
    BY <2>1, Fields DEF Good
  <2>3. r = [s EXCEPT !.text = T, !.f = NO, !.las = none, !.fatal = F]
    BY <1>1 DEF putline, Written
  <2>4. F = FALSE
    BY <2>1, <2>2
  <2> HIDE DEF T, f, F, r
  <2>5. r \in State /\ r.text = T /\ r.f = NO /\ r.las = none /\ r.fatal = FALSE /\ r.wk = s.wk
        /\ r.x = s.x
    BY <2>1, <2>2, <2>3, <2>4 DEF State
  <2>6. Good(r)
    BY <2>5 DEF Good, Hand
  <2>7. Seen(r) = T /\ Seen(s) = T
    BY <1>1, <2>5 DEF Seen, Pending, T
  <2> QED BY <2>5, <2>6, <2>7 DEF r
<1>2. CASE ~ Pending(s)
  BY <1>2, SeenTexts DEF putline
<1> QED BY <1>1, <1>2

(* When nothing fails, putline comes to one thing. *)
LEMMA OnePut ==
  ASSUME Careful, NEW s
  PROVE  putlines(s) = {putline(s)}
  BY DEF putlines, Careful

(* GetLine (-1) leaves no line in hand, and the file as the user sees it. *)
LEMMA Flushed ==
  ASSUME Careful, NEW s, Good(s), NEW r \in GetFlush(s)
  PROVE  /\ Good(r) /\ r.text = Seen(s) /\ Seen(r) = Seen(s) /\ r.wk = s.wk
         /\ r.las = none /\ r.f = NO
<1> DEFINE p == putline(s)
<1>1. /\ Good(p) /\ p.text = Seen(s) /\ p.wk = s.wk /\ p.f = NO
  BY PutsSeen
<1>2. r = [p EXCEPT !.las = none]
  BY OnePut DEF GetFlush
<1> HIDE DEF p
<1>3. r \in State /\ r.text = p.text /\ r.wk = p.wk /\ r.las = none /\ r.f = p.f /\ r.fatal = p.fatal
  BY <1>1, <1>2 DEF Good, State
<1>4. Good(r)
  BY <1>1, <1>3 DEF Good, Hand
<1>5. Seen(r) = r.text
  BY <1>1, <1>3, <1>4, SeenTexts
<1> QED BY <1>1, <1>3, <1>4, <1>5

(* GetLine brings a line into hand through the stream it is given, or finds *)
(* that it is there; the user sees no difference.                          *)
LEMMA Gets ==
  ASSUME Careful, NEW s, Good(s), NEW w \in Wksp, s.wk[w].open, NEW ln \in Ln, NEW r \in GetLine(s, w, ln)
  PROVE  /\ Good(r) /\ Seen(r) = Seen(s) /\ r.wk = s.wk
         /\ r.las \in Wksp /\ r.las \in {w, s.las} /\ r.no = ln
         /\ r.wk[r.las].file = s.wk[w].file /\ s.wk[w].file \in File
         /\ r.x <=> ln >= Len(s.text[s.wk[w].file])
         /\ \A f \in File : Len(r.text[f]) = Len(s.text[f])
         /\ r.las = w \/ (r = s /\ ln = s.no)
<1> DEFINE f == s.wk[w].file
           p == putline(s)
<1>1. /\ Good(p) /\ p.text = Seen(s) /\ p.wk = s.wk /\ p.f = NO
      /\ f \in File /\ s \in State /\ p \in State
      /\ \A g \in File : Len(p.text[g]) = Len(s.text[g])
  BY PutsSeen, SeenTexts DEF Good
<1>2. Len(s.text[f]) \in Nat /\ ln \in Nat /\ w # none
  BY <1>1, Fields, LineNumbers, NoneIsNoWksp
<1>3. CASE ln >= Len(s.text[f])
  <2>1. r = [p EXCEPT !.las = w, !.no = ln, !.line = blank, !.f = NO, !.x = TRUE]
    BY <1>3, OnePut, ZenonT(45) DEF GetLine
  <2> HIDE DEF p
  <2>2. /\ r \in State /\ r.text = p.text /\ r.wk = p.wk /\ r.las = w /\ r.no = ln /\ r.f = NO
        /\ r.x = TRUE /\ r.fatal = p.fatal
    BY <1>1, <2>1, LineNumbers DEF State
  <2>3. Good(r)
    BY <1>1, <1>2, <1>3, <2>2 DEF Good, Hand
  <2>4. Seen(r) = r.text
    BY <2>2, <2>3, SeenTexts
  <2> QED BY <1>1, <1>2, <1>3, <2>2, <2>3, <2>4, SMTT(45)
<1>4. CASE ~ (ln >= Len(s.text[f])) /\ HaveIt(s, w, ln)
  <2>1. r = s
    BY <1>4 DEF GetLine
  <2>2. s.las # none /\ s.wk[s.las].file = f /\ s.no = ln
    BY <1>4 DEF HaveIt
  <2>3. s.las \in Wksp
    BY <1>1, <2>2, Fields
  <2>4. ~ s.x
    BY <1>2, <1>4, <2>2 DEF Good, Hand
  <2> QED BY <1>1, <1>2, <1>4, <2>1, <2>2, <2>3, <2>4
<1>5. CASE ~ (ln >= Len(s.text[f])) /\ ~ HaveIt(s, w, ln)
  <2>1. r = [p EXCEPT !.las = w, !.no = ln, !.line = p.text[f][ln + 1], !.f = NO, !.x = FALSE]
    <3> DEFINE read(q) == [q EXCEPT !.las = w, !.no = ln, !.line = q.text[f][ln + 1], !.f = NO, !.x = FALSE]
    <3>1. GetLine(s, w, ln) = {read(q) : q \in putlines(s)}
      BY <1>5 DEF GetLine
    <3>2. \A q \in putlines(s) : q = p
      BY OnePut, SMTT(45)
    <3>3. PICK q \in putlines(s) : r = read(q)
      BY <3>1
    <3>4. r = read(p)
      BY <3>2, <3>3
    <3> QED BY <3>4, SMTT(45)
  <2>2. p.text[f][ln + 1] \in Line
    <3>1. p.text[f] \in Seq(Line) /\ ln + 1 \in 1 .. Len(p.text[f])
      BY <1>1, <1>2, <1>5, Fields, SMTT(45)
    <3> QED BY <3>1, ElementOfSeq
  <2> HIDE DEF p
  <2>3. /\ r \in State /\ r.text = p.text /\ r.wk = p.wk /\ r.las = w /\ r.no = ln /\ r.f = NO
        /\ r.x = FALSE /\ r.fatal = p.fatal /\ r.line = p.text[f][ln + 1]
    BY <1>1, <2>1, <2>2 DEF State
  <2>4. Good(r)
    BY <1>1, <1>2, <1>5, <2>3 DEF Good, Hand
  <2>5. Seen(r) = r.text
    BY <2>3, <2>4, SeenTexts
  <2> QED BY <1>1, <1>2, <1>5, <2>3, <2>4, <2>5
<1> QED BY <1>3, <1>4, <1>5

(* Two lines one after the other: unless they are the same, the second one   *)
(* comes through the stream that is given.                                 *)
LEMMA GetsTwo ==
  ASSUME Careful, NEW s, Good(s), NEW w \in Wksp, s.wk[w].open,
         NEW ln1 \in Ln, NEW ln2 \in Ln, NEW r \in GetLines(s, w, ln1, ln2)
  PROVE  /\ Good(r) /\ Seen(r) = Seen(s) /\ r.wk = s.wk
         /\ r.las \in Wksp /\ r.las \in {w, s.las} /\ r.no = ln2
         /\ r.wk[r.las].file = s.wk[w].file /\ s.wk[w].file \in File
         /\ r.x <=> ln2 >= Len(s.text[s.wk[w].file])
         /\ \A f \in File : Len(r.text[f]) = Len(s.text[f])
         /\ ln1 # ln2 => r.las = w
<1>1. PICK q \in GetLine(s, w, ln1) : r \in GetLine(q, w, ln2)
  BY DEF GetLines
<1>2. /\ Good(q) /\ Seen(q) = Seen(s) /\ q.wk = s.wk
      /\ q.las \in Wksp /\ q.las \in {w, s.las} /\ q.no = ln1
      /\ s.wk[w].file \in File
      /\ \A f \in File : Len(q.text[f]) = Len(s.text[f])
  BY <1>1, Gets
<1>3. /\ Good(r) /\ Seen(r) = Seen(q) /\ r.wk = q.wk
      /\ r.las \in Wksp /\ r.las \in {w, q.las} /\ r.no = ln2
      /\ r.wk[r.las].file = q.wk[w].file
      /\ r.x <=> ln2 >= Len(q.text[q.wk[w].file])
      /\ \A f \in File : Len(r.text[f]) = Len(q.text[f])
      /\ r.las = w \/ (r = q /\ ln2 = q.no)
  BY <1>1, <1>2, Gets
<1> QED BY <1>2, <1>3

(* putup takes into hand at least two lines of the window it shows.         *)
LEMMA PutsUp ==
  ASSUME Careful, NEW s, Good(s), NEW w \in Wksp, s.wk[w].open, NEW r \in putup(s, w, Rows)
  PROVE  Good(r) /\ Seen(r) = Seen(s) /\ r.wk = s.wk /\ r.las = w
<1>1. Rows \in Nat /\ Rows >= 2
  BY CLineAssumption DEF Careful
<1>2. PICK t \in 0 .. MaxLn - Rows + 1 : r \in GetLines(s, w, t, t + Rows - 1)
  BY DEF putup, Careful
<1>3. t \in Ln /\ t + Rows - 1 \in Ln /\ t # t + Rows - 1
  BY <1>1, LineNumbers
<1> QED BY <1>2, <1>3, GetsTwo

-----------------------------------------------------------------------------
(* The inductive invariant. *)

(* The line in hand is of a workspace that some window shows. *)
Shown(s) == s.las = none \/ \E i \in Win : s.las = Shows(i)

CInv ==
  /\ Good(st) /\ Shown(st)
  /\ shown \in [Win -> 1 .. 2] /\ win \in Win /\ edits \in 0 .. MaxEdits
  /\ Made(1) /\ Made(win)

(* The user is in an open workspace. *)
LEMMA InFile ==
  ASSUME CInv
  PROVE  /\ Cur \in Wksp /\ Cur # none /\ st.wk[Cur].open /\ curfile \in File
         /\ \A i \in Win : Shows(i) \in Wksp /\ Alt(i) \in Wksp /\ Alt(i) # Shows(i) /\ Shows(i)[1] = i
         /\ Cur = Shows(win)
<1>1. /\ win \in Win /\ \A i \in Win : shown[i] \in {1, 2}
      /\ Win = {1, 2} /\ Wksp = Win \X {1, 2}
  BY DEF CInv, Win, Wksp
<1>2. \A i \in Win : /\ Shows(i) \in Wksp /\ Alt(i) \in Wksp
                     /\ Alt(i) # Shows(i) /\ Shows(i)[1] = i
  <2> SUFFICES ASSUME NEW i \in Win
               PROVE  /\ Shows(i) \in Wksp /\ Alt(i) \in Wksp
                      /\ Alt(i) # Shows(i) /\ Shows(i)[1] = i
    OBVIOUS
  <2>1. CASE shown[i] = 1
    BY <1>1, <2>1 DEF Shows, Alt
  <2>2. CASE shown[i] = 2
    BY <1>1, <2>2 DEF Shows, Alt
  <2> QED BY <1>1, <2>1, <2>2
<1>3. Cur = Shows(win) /\ st.wk[Cur].open
  BY DEF CInv, Cur, Shows, Made
<1>4. Cur \in Wksp
  BY <1>1, <1>2, <1>3
<1>5. Cur # none /\ curfile \in File
  BY <1>3, <1>4, NoneIsNoWksp DEF CInv, Good, curfile
<1> QED BY <1>2, <1>3, <1>4, <1>5

(* Showing rows of the windows of a file changes nothing the user sees. *)
LEMMA Redisplays ==
  ASSUME Careful, CInv, NEW s, Good(s), Shown(s), s.wk = st.wk, NEW f \in File, NEW r \in redisplay(s, f)
  PROVE  Good(r) /\ Shown(r) /\ Seen(r) = Seen(s) /\ r.wk = s.wk
<1>1. CASE r = s
  BY <1>1
<1>2. CASE r # s
  <2>1. PICK w \in ShowsFile(f), ln1 \in Ln, ln2 \in Ln : r \in GetLines(s, w, ln1, ln2)
    BY <1>2 DEF redisplay
  <2>2. w \in Wksp /\ s.wk[w].open /\ \E i \in Win : w = Shows(i)
    BY <2>1, InFile DEF ShowsFile, On
  <2>3. Good(r) /\ Seen(r) = Seen(s) /\ r.wk = s.wk /\ r.las \in {w, s.las}
    BY <2>1, <2>2, GetsTwo
  <2> QED BY <2>2, <2>3 DEF Shown
<1> QED BY <1>1, <1>2

-----------------------------------------------------------------------------
(* What a step may do for the user, and what it must keep. *)

Step == Abstract!Next \/ UNCHANGED << seen, curfile >>

(* An edit leaves the workspaces as they are, and changes one file. *)
LEMMA EditKeeps ==
  ASSUME CInv, Good(st'), st'.las = none \/ (\E i \in Win : st'.las = Shows(i)), st'.wk = st.wk,
         UNCHANGED << shown, win >>, edits' \in 0 .. MaxEdits
  PROVE  CInv' /\ curfile' = curfile
<1>1. Cur' = Cur /\ \A i \in Win : Shows(i)' = Shows(i)
  BY DEF Cur, Shows
<1>2. Good(st)' /\ Shown(st)'
  BY <1>1 DEF Good, Shown, Hand, State
<1>3. Made(1)' /\ Made(win)'
  BY DEF CInv, Made, Shows
<1> QED BY <1>1, <1>2, <1>3 DEF CInv, curfile

(* What the user sees, as a function of the state. *)
LEMMA Sees == seen = Seen(st)
  BY DEF seen, Seen

(* An edit leaves one of its states, in the same windows. *)
LEMMA EditBounds ==
  ASSUME CInv, NEW ss, Edits(ss)
  PROVE  st' \in ss /\ edits' \in 0 .. MaxEdits /\ UNCHANGED << shown, win >>
  BY CLineAssumption DEF Edits, CInv

-----------------------------------------------------------------------------
(* Typing. *)

(* A line put over another leaves no trace of it. *)
LEMMA PutTwice ==
  ASSUME NEW t \in Seq(Line), NEW ln \in Nat, NEW u \in Line, NEW v \in Line
  PROVE  /\ The!Put(The!Extended(t, ln + 1), ln, v) = The!Put(t, ln, v)
         /\ The!Put(The!Put(t, ln, u), ln, v) = The!Put(t, ln, v)
<1> DEFINE a == The!Put(t, ln, v)
           e == The!Extended(t, ln + 1)
           b == The!Put(t, ln, u)
           ea == The!Put(e, ln, v)
           ba == The!Put(b, ln, v)
<1>1. /\ a \in Seq(Line) /\ Len(a) = (IF ln < Len(t) THEN Len(t) ELSE ln + 1) /\ Len(t) \in Nat
      /\ \A i \in 1 .. Len(a) : a[i] = IF i = ln + 1 THEN v ELSE IF i <= Len(t) THEN t[i] ELSE blank
  BY PutLines, LenProperties, ZenonT(45)
<1>2. /\ e \in Seq(Line) /\ Len(e) = Len(a)
      /\ \A i \in 1 .. Len(e) : e[i] = IF i <= Len(t) THEN t[i] ELSE blank
  <2>1. ln + 1 \in Nat
    OBVIOUS
  <2>2. /\ e \in Seq(Line) /\ Len(e) = (IF ln + 1 <= Len(t) THEN Len(t) ELSE ln + 1)
        /\ \A i \in 1 .. Len(e) : e[i] = IF i <= Len(t) THEN t[i] ELSE blank
    BY <2>1, ExtendedLines
  <2> HIDE DEF a, e
  <2> QED BY <1>1, <2>2
<1>3. /\ b \in Seq(Line) /\ Len(b) = Len(a)
      /\ \A i \in 1 .. Len(b) : b[i] = IF i = ln + 1 THEN u ELSE IF i <= Len(t) THEN t[i] ELSE blank
  BY <1>1, PutLines
<1> HIDE DEF a, b, e
<1>4. /\ ea \in Seq(Line) /\ Len(ea) = (IF ln < Len(e) THEN Len(e) ELSE ln + 1)
      /\ \A i \in 1 .. Len(ea) : ea[i] = IF i = ln + 1 THEN v ELSE IF i <= Len(e) THEN e[i] ELSE blank
  BY <1>2, PutLines, ZenonT(45)
<1>5. /\ ba \in Seq(Line) /\ Len(ba) = (IF ln < Len(b) THEN Len(b) ELSE ln + 1)
      /\ \A i \in 1 .. Len(ba) : ba[i] = IF i = ln + 1 THEN v ELSE IF i <= Len(b) THEN b[i] ELSE blank
  BY <1>3, PutLines, ZenonT(45)
<1> HIDE DEF ea, ba
<1>6. ln < Len(a) /\ Len(a) \in Nat
  BY <1>1
<1>7. Len(ea) = Len(a) /\ Len(ba) = Len(a)
  BY <1>2, <1>3, <1>4, <1>5, <1>6
<1>8. ea = a
  <2>1. \A i \in 1 .. Len(ea) : ea[i] = a[i]
    BY <1>1, <1>2, <1>4, <1>6, <1>7
  <2> QED BY <1>1, <1>4, <1>7, <2>1, SeqEqual
<1>9. ba = a
  <2>1. \A i \in 1 .. Len(ba) : ba[i] = a[i]
    BY <1>1, <1>3, <1>5, <1>6, <1>7
  <2> QED BY <1>1, <1>5, <1>7, <2>1, SeqEqual
<1> QED BY <1>8, <1>9 DEF a, b, e, ea, ba

(* The line in hand becomes v, in a file c that is long enough then. *)
TypedIn(q, c, v) ==
  [q EXCEPT !.text = [q.text EXCEPT ![c] = The!Extended(q.text[c], q.no + 1)],
            !.line = v, !.x = FALSE, !.f = YES]

(* The line in hand becomes v, in a file that has been made long enough: the *)
(* user sees v there, and nothing else changes.                            *)
LEMMA Typed ==
  ASSUME NEW q, Good(q), q.las \in Wksp, NEW c \in File, q.wk[q.las].file = c, q.no \in LineNo,
         NEW v \in Line,
         NEW r, r = TypedIn(q, c, v)
  PROVE  /\ Good(r) /\ r.wk = q.wk /\ r.las = q.las /\ r.no = q.no /\ ~ r.x
         /\ r.text[c] = The!Extended(q.text[c], q.no + 1)
         /\ Seen(r) = [Seen(q) EXCEPT ![c] = The!Put(@, q.no, v)]
         /\ The!Put(Seen(q)[c], q.no, v) \in Texts
<1> DEFINE t == q.text[c]
           e == The!Extended(t, q.no + 1)
           ln == q.no
<1>1. /\ q \in State /\ q.text \in [File -> Texts] /\ ln \in Nat /\ ln < MaxLines /\ q.line \in Line
      /\ t \in Seq(Line) /\ Len(t) \in Nat /\ Len(t) <= MaxLines /\ q.las # none
  BY Fields, LineNumbers, NoneIsNoWksp DEF Good
<1>2. /\ e \in Seq(Line) /\ Len(e) = (IF ln + 1 <= Len(t) THEN Len(t) ELSE ln + 1)
      /\ ln + 1 <= Len(t) => e = t
  <2>1. q.no + 1 \in Nat
    BY <1>1
  <2>2. /\ e \in Seq(Line) /\ Len(e) = (IF q.no + 1 <= Len(t) THEN Len(t) ELSE q.no + 1)
        /\ q.no + 1 <= Len(t) => e = t
    BY <1>1, <2>1, ExtendedLines
  <2> QED BY <2>2
<1>3. e \in Texts /\ ln < Len(e)
  BY <1>1, <1>2, LineNumbers DEF Texts
<1> HIDE DEF e
<1>4. [q.text EXCEPT ![c] = e] \in [File -> Texts]
  BY <1>1, <1>3
<1>5. r = [q EXCEPT !.text = [q.text EXCEPT ![c] = e], !.line = v, !.x = FALSE, !.f = YES]
  BY DEF TypedIn, e
<1>6. /\ r \in State /\ r.text = [q.text EXCEPT ![c] = e] /\ r.line = v /\ r.x = FALSE /\ r.f = YES
      /\ r.wk = q.wk /\ r.las = q.las /\ r.no = ln /\ r.fatal = q.fatal
  BY <1>1, <1>4, <1>5 DEF State
<1>7. r.text[c] = e
  BY <1>1, <1>6
<1>8. Good(r)
  BY <1>1, <1>3, <1>6, <1>7 DEF Good, Hand, YES, NO
<1>9. Pending(r)
  BY <1>1, <1>6, <1>8 DEF Pending, Good, Hand, YES, NO
<1>10. Seen(r) = [r.text EXCEPT ![c] = The!Put(e, ln, v)]
  <2>1. TextWith(r) = [r.text EXCEPT ![r.wk[r.las].file] = The!Put(@, r.no, r.line)]
    BY <1>8, <1>9, PendingLine
  <2>2. r.wk[r.las].file = c
    BY <1>6
  <2>3. TextWith(r) = [r.text EXCEPT ![c] = The!Put(r.text[c], ln, v)]
    BY <1>1, <1>6, <2>1, <2>2
  <2> QED BY <1>7, <1>9, <2>3 DEF Seen
<1>11. The!Put(e, ln, v) = The!Put(t, ln, v)
  BY <1>1, PutTwice DEF e
<1>12. Seen(r) = [q.text EXCEPT ![c] = The!Put(t, ln, v)]
  BY <1>1, <1>6, <1>10, <1>11
<1>13. Seen(q) = q.text \/ Seen(q) = [q.text EXCEPT ![c] = The!Put(t, ln, q.line)]
  BY SeenTexts, PendingLine DEF Seen
<1>14. The!Put(Seen(q)[c], ln, v) = The!Put(t, ln, v)
  <2>1. CASE Seen(q) = q.text
    BY <2>1
  <2>2. CASE Seen(q) = [q.text EXCEPT ![c] = The!Put(t, ln, q.line)]
    <3>1. Seen(q)[c] = The!Put(t, ln, q.line)
      BY <1>1, <2>2
    <3> QED BY <1>1, <3>1, PutTwice
  <2> QED BY <1>13, <2>1, <2>2
<1>15. [Seen(q) EXCEPT ![c] = The!Put(t, ln, v)] = [q.text EXCEPT ![c] = The!Put(t, ln, v)]
  BY <1>1, <1>13
<1>16. The!Put(t, ln, v) \in Texts
  <2>1. /\ The!Put(t, ln, v) \in Seq(Line)
        /\ Len(The!Put(t, ln, v)) = IF ln < Len(t) THEN Len(t) ELSE ln + 1
    <3>1. t \in Seq(Line) /\ ln \in Nat
      BY <1>1
    <3> HIDE DEF t, ln
    <3> QED BY <3>1, PutLines
  <2> QED BY <1>1, <2>1, LineNumbers DEF Texts
<1>17. Seen(r) = [Seen(q) EXCEPT ![c] = The!Put(Seen(q)[c], ln, v)]
  BY <1>12, <1>14, <1>15
<1> QED BY <1>6, <1>7, <1>8, <1>14, <1>16, <1>17 DEF e

(* To type in a line the file has is only to change the line in hand. *)
LEMMA TypedOver ==
  ASSUME NEW q, Good(q), q.las \in Wksp, NEW c \in File, q.wk[q.las].file = c, ~ q.x, NEW v \in Line
  PROVE  /\ [q EXCEPT !.line = v, !.f = YES] = TypedIn(q, c, v)
         /\ q.no \in LineNo /\ q.no < Len(q.text[c])
<1>1. /\ q \in State /\ q.text \in [File -> Texts] /\ q.text[c] \in Seq(Line) /\ Len(q.text[c]) \in Nat
      /\ Len(q.text[c]) <= MaxLines /\ q.no \in Nat /\ q.las # none /\ q.x \in BOOLEAN
  BY Fields, NoneIsNoWksp DEF Good
<1>2. q.no < Len(q.text[c])
  BY <1>1 DEF Good, Hand
<1>3. q.no \in LineNo /\ The!Extended(q.text[c], q.no + 1) = q.text[c]
  <2>1. q.no < MaxLines /\ q.no + 1 <= Len(q.text[c])
    BY <1>1, <1>2, LineNumbers
  <2> QED BY <1>1, <2>1, LineNumbers DEF The!Extended
<1>4. [q.text EXCEPT ![c] = The!Extended(q.text[c], q.no + 1)] = q.text /\ q.x = FALSE
  BY <1>1, <1>3
<1>5. TypedIn(q, c, v) = [q EXCEPT !.text = q.text, !.line = v, !.x = FALSE, !.f = YES]
  BY <1>4 DEF TypedIn
<1>6. TypedIn(q, c, v) = [q EXCEPT !.line = v, !.f = YES]
  BY <1>1, <1>4, <1>5 DEF State
<1> QED BY <1>2, <1>3, <1>6

(* ... which is a change of Text. *)
LEMMA Changes ==
  ASSUME CInv, CInv', curfile' = curfile, NEW ln \in LineNo, NEW v \in Line,
         Seen(st') = [Seen(st) EXCEPT ![curfile] = The!Put(@, ln, v)],
         The!Put(Seen(st)[curfile], ln, v) \in Texts
  PROVE  Abstract!Next
<1>1. seen = Seen(st) /\ seen' = Seen(st')
  BY DEF seen, Seen, Pending, TextWith, At
<1>2. curfile \in File /\ seen \in [File -> Texts]
  BY <1>1, InFile, SeenTexts DEF CInv
<1>3. Abstract!Edit(The!Put(seen[curfile], ln, v))
  BY <1>1, <1>2 DEF Abstract!Edit, Texts
<1>4. The!Put(seen[curfile], ln, v) = Abstract!Put(seen[curfile], ln, v)
  BY DEF The!Put, Abstract!Put, The!Extended, Abstract!Extended, The!Blanks, Abstract!Blanks
<1>5. Abstract!Change
  BY <1>3, <1>4 DEF Abstract!Change, Abstract!LineNo, LineNo, The!LineNo, Line, The!Line, Abstract!Line
<1> QED BY <1>5, SMTT(45) DEF Abstract!Next

(* printchar is a change of the line the cursor is in. *)
LEMMA printcharStep ==
  ASSUME Careful, CInv, printchar
  PROVE  CInv' /\ Step
<1> DEFINE type(r, ln, v) ==
      LET t == LongEnough(r.text[curfile], ln)
      IN  IF Fits(t) THEN [WithText(r, t) EXCEPT !.line = v, !.x = FALSE, !.f = YES] ELSE r
<1>1. PICK ln \in LineNo, v \in Line : Edits({type(r, ln, v) : r \in GetLine(st, Cur, ln)})
  BY DEF printchar
<1>2. /\ \E q \in GetLine(st, Cur, ln) : st' = type(q, ln, v)
      /\ edits' \in 0 .. MaxEdits /\ UNCHANGED << shown, win >>
  <2> HIDE DEF type
  <2> QED BY <1>1, EditBounds
<1>3. PICK q \in GetLine(st, Cur, ln) : st' = type(q, ln, v)
  BY <1>2
<1>4. Cur \in Wksp /\ st.wk[Cur].open /\ curfile \in File /\ Good(st) /\ ln \in Ln
      /\ \E i \in Win : Cur = Shows(i)
  BY InFile, LineNumbers DEF CInv
<1>5. /\ Good(q) /\ Seen(q) = Seen(st) /\ q.wk = st.wk /\ q.las \in Wksp
      /\ q.las \in {Cur, st.las} /\ q.no = ln /\ q.wk[q.las].file = curfile
  BY <1>3, <1>4, Gets DEF curfile
<1> DEFINE t == The!Extended(q.text[curfile], q.no + 1)
<1>6. Fits(t) /\ q.text \in [File -> Texts]
  <2>1. /\ q.text[curfile] \in Seq(Line) /\ Len(q.text[curfile]) <= MaxLines
        /\ Len(q.text[curfile]) \in Nat /\ q.text \in [File -> Texts]
    BY <1>4, <1>5, Fields DEF Good
  <2>2. q.no + 1 \in Nat /\ q.no + 1 <= MaxLines /\ q.no \in Nat
    BY <1>5, LineNumbers
  <2>3. Len(t) = IF q.no + 1 <= Len(q.text[curfile]) THEN Len(q.text[curfile]) ELSE q.no + 1
    BY <2>1, <2>2, ExtendedLines
  <2> HIDE DEF t
  <2> QED BY <2>1, <2>2, <2>3 DEF Fits
<1>7. st' = [q EXCEPT !.text = [q.text EXCEPT ![curfile] = t], !.line = v, !.x = FALSE, !.f = YES]
  <2>1. st' = [WithText(q, t) EXCEPT !.line = v, !.x = FALSE, !.f = YES]
    BY <1>3, <1>5, <1>6 DEF LongEnough
  <2>2. q \in State
    BY <1>5 DEF Good
  <2> HIDE DEF t
  <2> QED BY <2>1, <2>2 DEF WithText, State
<1>8. /\ Good(st') /\ st'.wk = st.wk /\ st'.las = q.las
      /\ Seen(st') = [Seen(q) EXCEPT ![curfile] = The!Put(@, ln, v)]
      /\ The!Put(Seen(q)[curfile], ln, v) \in Texts
  <2> HIDE DEF type
  <2>0. st' = TypedIn(q, curfile, v)
    BY <1>7 DEF TypedIn
  <2>1. q.no \in LineNo
    BY <1>5
  <2>2. /\ Good(st') /\ st'.wk = q.wk /\ st'.las = q.las
        /\ Seen(st') = [Seen(q) EXCEPT ![curfile] = The!Put(@, q.no, v)]
        /\ The!Put(Seen(q)[curfile], q.no, v) \in Texts
    BY <1>4, <1>5, <2>0, <2>1, Typed
  <2> HIDE DEF t
  <2> QED BY <1>5, <2>2
<1>9. st'.las = none \/ \E i \in Win : st'.las = Shows(i)
  BY <1>4, <1>5, <1>8 DEF CInv, Shown
<1>10. CInv' /\ curfile' = curfile
  BY <1>2, <1>8, <1>9, EditKeeps
<1>11. Abstract!Next
  BY <1>5, <1>8, <1>10, Changes
<1> QED BY <1>10, <1>11 DEF Step

(* chgcase changes a character of a line the file has. *)
LEMMA chgcaseStep ==
  ASSUME Careful, CInv, chgcase
  PROVE  CInv' /\ Step
<1> DEFINE to(r, v) == [r EXCEPT !.line = IF @ = blank THEN blank ELSE v, !.f = YES]
<1>1. PICK ln \in Ln, v \in Word :
        Edits({to(r, v) : r \in {q \in GetLine(st, Cur, ln) : BehindEnd \/ ~ q.x}})
  BY DEF chgcase
<1>2. /\ \E q \in GetLine(st, Cur, ln) : (BehindEnd \/ ~ q.x) /\ st' = to(q, v)
      /\ edits' \in 0 .. MaxEdits /\ UNCHANGED << shown, win >>
  <2> HIDE DEF to
  <2> QED BY <1>1, EditBounds
<1>3. PICK q \in GetLine(st, Cur, ln) : ~ q.x /\ st' = to(q, v)
  BY <1>2 DEF Careful
<1>4. Cur \in Wksp /\ st.wk[Cur].open /\ curfile \in File /\ Good(st)
      /\ \E i \in Win : Cur = Shows(i)
  BY InFile DEF CInv
<1>5. /\ Good(q) /\ Seen(q) = Seen(st) /\ q.wk = st.wk /\ q.las \in Wksp
      /\ q.las \in {Cur, st.las} /\ q.no = ln /\ q.wk[q.las].file = curfile
  BY <1>3, <1>4, Gets DEF curfile
<1> DEFINE u == IF q.line = blank THEN blank ELSE v
<1>6. u \in Line
  BY DEF Line, The!Line
<1>7. st' = [q EXCEPT !.line = u, !.f = YES]
  BY <1>3
<1> HIDE DEF u
<1>8. st' = TypedIn(q, curfile, u) /\ q.no \in LineNo /\ ln \in LineNo
  <2>1. ~ q.x
    BY <1>3
  <2>2. [q EXCEPT !.line = u, !.f = YES] = TypedIn(q, curfile, u) /\ q.no \in LineNo
    <3>1. Good(q) /\ q.las \in Wksp /\ q.wk[q.las].file = curfile /\ curfile \in File
      BY <1>4, <1>5
    <3> QED BY <1>6, <2>1, <3>1, TypedOver, ZenonT(30)
  <2> QED BY <1>5, <1>7, <2>2
<1>9. /\ Good(st') /\ st'.wk = q.wk /\ st'.las = q.las
      /\ Seen(st') = [Seen(q) EXCEPT ![curfile] = The!Put(@, q.no, u)]
      /\ The!Put(Seen(q)[curfile], q.no, u) \in Texts
  BY <1>4, <1>5, <1>6, <1>8, Typed
<1>10. st'.las = none \/ \E i \in Win : st'.las = Shows(i)
  BY <1>4, <1>5, <1>9 DEF CInv, Shown
<1>11. CInv' /\ curfile' = curfile
  BY <1>2, <1>5, <1>9, <1>10, EditKeeps
<1>12. /\ Seen(st') = [Seen(st) EXCEPT ![curfile] = The!Put(@, ln, u)]
       /\ The!Put(Seen(st)[curfile], ln, u) \in Texts
  BY <1>5, <1>9
<1>13. Abstract!Next
  BY <1>6, <1>8, <1>11, <1>12, Changes
<1> QED BY <1>11, <1>13 DEF Step

-----------------------------------------------------------------------------
(* Edits of the lines of the file. *)

(* The lines of the file the user is in, as he sees them. *)
LEMMA SeenLines ==
  ASSUME Careful, CInv
  PROVE  /\ seen[curfile] \in Texts /\ seen[curfile] \in Seq(Line) /\ Len(seen[curfile]) \in Nat
         /\ seen \in [File -> Texts] /\ curfile \in File
         /\ \A q \in GetFlush(st) : q.text = seen
<1>1. curfile \in File /\ Good(st) /\ seen = Seen(st)
  BY InFile, Sees DEF CInv
<1>2. seen \in [File -> Texts]
  BY <1>1, SeenTexts
<1> QED BY <1>1, <1>2, Flushed, LenProperties DEF Texts

(* When no line is in hand, the file may be changed. *)
LEMMA Replaced ==
  ASSUME NEW q, Good(q), q.las = none, q.f = NO, NEW t \in Texts, curfile \in File
  PROVE  /\ Good(WithText(q, t)) /\ Shown(WithText(q, t))
         /\ WithText(q, t).text = [q.text EXCEPT ![curfile] = t]
         /\ Seen(WithText(q, t)) = [q.text EXCEPT ![curfile] = t]
         /\ WithText(q, t).wk = q.wk /\ WithText(q, t).las = none
<1> DEFINE s == WithText(q, t)
<1>1. q \in State /\ q.text \in [File -> Texts]
  BY Fields DEF Good
<1>2. [q.text EXCEPT ![curfile] = t] \in [File -> Texts]
  BY <1>1
<1>3. s = [q EXCEPT !.text = [q.text EXCEPT ![curfile] = t]]
  BY <1>1 DEF WithText, State
<1> HIDE DEF s
<1>4. /\ s \in State /\ s.text = [q.text EXCEPT ![curfile] = t] /\ s.wk = q.wk /\ s.las = none
      /\ s.f = NO /\ s.fatal = q.fatal
  BY <1>1, <1>2, <1>3 DEF State
<1>5. Good(s) /\ Shown(s) /\ Seen(s) = s.text
  BY <1>4 DEF Good, Hand, Shown, Seen, Pending
<1> QED BY <1>4, <1>5 DEF s

(* What is shown again after an edit is what the edit has made of the file,  *)
(* and that is what Text makes of it.                                      *)
LEMMA ShowsAgain ==
  ASSUME Careful, CInv, NEW s, Good(s), Shown(s), s.wk = st.wk,
         NEW t \in Texts, Seen(s) = [seen EXCEPT ![curfile] = t],
         st' \in redisplay(s, curfile), UNCHANGED << shown, win >>, edits' \in 0 .. MaxEdits
  PROVE  CInv' /\ curfile' = curfile /\ Abstract!Edit(t)
         /\ (t = seen[curfile] => UNCHANGED << seen, curfile >>)
<1>1. seen \in [File -> Texts] /\ curfile \in File
  BY SeenLines
<1>2. Good(st') /\ Shown(st') /\ Seen(st') = Seen(s) /\ st'.wk = st.wk
  BY <1>1, Redisplays
<1>3. CInv' /\ curfile' = curfile
  BY <1>2, EditKeeps DEF Shown
<1>4. seen' = [seen EXCEPT ![curfile] = t]
  BY <1>2 DEF seen, Seen, Pending, TextWith, At
<1> QED BY <1>1, <1>3, <1>4 DEF Abstract!Edit, Texts

(* The line in hand is written back before the lines of the file are         *)
(* changed, and what is shown again is taken from them.                    *)
LEMMA Edlines ==
  ASSUME Careful, CInv, NEW q \in GetFlush(st), NEW t \in Texts,
         st' \in redisplay(WithText(q, t), curfile),
         UNCHANGED << shown, win >>, edits' \in 0 .. MaxEdits
  PROVE  CInv' /\ curfile' = curfile /\ Abstract!Edit(t)
         /\ (t = seen[curfile] => UNCHANGED << seen, curfile >>)
<1>1. curfile \in File /\ Good(st)
  BY InFile DEF CInv
<1>2. Good(q) /\ q.text = seen /\ q.wk = st.wk /\ q.las = none /\ q.f = NO
  BY <1>1, Flushed, SeenLines
<1> DEFINE s == WithText(q, t)
<1>3. /\ Good(s) /\ Shown(s) /\ Seen(s) = [seen EXCEPT ![curfile] = t] /\ s.wk = st.wk
      /\ st' \in redisplay(s, curfile)
  BY <1>1, <1>2, Replaced
<1> HIDE DEF s
<1> QED BY <1>3, ShowsAgain

(* Text has the same operators. *)
LEMMA SameOperators ==
  /\ \A t, n : The!Extended(t, n) = Abstract!Extended(t, n)
  /\ \A t, ln, v : The!Put(t, ln, v) = Abstract!Put(t, ln, v)
  /\ \A t, ln, new : The!Insert(t, ln, new) = Abstract!Insert(t, ln, new)
  /\ \A t, ln, n : The!Delete(t, ln, n) = Abstract!Delete(t, ln, n)
  /\ \A n : The!Blanks(n) = Abstract!Blanks(n)
  /\ LineNo = Abstract!LineNo /\ Line = Abstract!Line
  BY DEF The!Put, Abstract!Put, The!Extended, Abstract!Extended, The!Blanks, Abstract!Blanks,
         The!Insert, Abstract!Insert, The!Delete, Abstract!Delete, Abstract!LineNo, LineNo, The!LineNo,
         Line, The!Line, Abstract!Line

(* ed (OPOPEN) opens a blank line. *)
LEMMA openStep ==
  ASSUME Careful, CInv, open
  PROVE  CInv' /\ Step
<1> DEFINE t(x, ln) == IF ln < Len(x) THEN The!Insert(x, ln, << blank >>) ELSE x
<1>1. PICK ln \in LineNo :
        Edits(UNION { redisplay(WithText(r, t(r.text[curfile], ln)), curfile)
                    : r \in {q \in GetFlush(st) : Fits(t(q.text[curfile], ln))} })
  BY DEF open, ed
<1>2. /\ \E r \in GetFlush(st) :
           /\ Fits(t(r.text[curfile], ln))
           /\ st' \in redisplay(WithText(r, t(r.text[curfile], ln)), curfile)
      /\ edits' \in 0 .. MaxEdits /\ UNCHANGED << shown, win >>
  <2> HIDE DEF t
  <2> QED BY <1>1, EditBounds
<1>3. PICK r \in GetFlush(st) :
           /\ Fits(t(r.text[curfile], ln))
           /\ st' \in redisplay(WithText(r, t(r.text[curfile], ln)), curfile)
  BY <1>2
<1>4. /\ r.text = seen /\ seen[curfile] \in Texts /\ seen[curfile] \in Seq(Line)
      /\ Len(seen[curfile]) \in Nat
  BY SeenLines
<1>5. ln \in Nat /\ << blank >> \in Seq(Line)
  BY LineNumbers
<1> DEFINE u == t(seen[curfile], ln)
<1>6. u \in Texts
  <2>1. CASE ln < Len(seen[curfile])
    <3>1. u = The!Insert(seen[curfile], ln, << blank >>)
      BY <2>1
    <3>2. ln <= Len(seen[curfile])
      BY <1>4, <1>5, <2>1
    <3> HIDE DEF u
    <3>3. u \in Seq(Line)
      BY <1>4, <1>5, <3>1, <3>2, InsertLines
    <3>4. Len(u) <= MaxLines
      BY <1>3, <1>4 DEF Fits, u
    <3> QED BY <3>3, <3>4 DEF Texts
  <2>2. CASE ~ (ln < Len(seen[curfile]))
    BY <1>4, <2>2
  <2> QED BY <2>1, <2>2
<1>7. st' \in redisplay(WithText(r, u), curfile)
  BY <1>3, <1>4
<1> HIDE DEF u
<1>8. CInv' /\ Abstract!Edit(u) /\ (u = seen[curfile] => UNCHANGED << seen, curfile >>)
  BY <1>2, <1>3, <1>6, <1>7, Edlines
<1>9. CASE ln < Len(seen[curfile])
  <2>1. u = The!Insert(seen[curfile], ln, << blank >>)
    BY <1>9 DEF u
  <2>2. The!Extended(seen[curfile], ln) = seen[curfile]
    BY <1>4, <1>5, <1>9 DEF The!Extended
  <2>3. u = Abstract!Insert(Abstract!Extended(seen[curfile], ln), ln, << blank >>)
    BY <2>1, <2>2, SameOperators
  <2>4. Abstract!Open
    BY <1>8, <2>3, LineNumbers, SameOperators DEF Abstract!Open
  <2> QED BY <1>8, <2>4 DEF Step, Abstract!Next
<1>10. CASE ~ (ln < Len(seen[curfile]))
  <2>1. u = seen[curfile]
    BY <1>10 DEF u
  <2> QED BY <1>8, <2>1 DEF Step
<1> QED BY <1>9, <1>10

(* ed (OPCLOSE) closes a line. *)
LEMMA closeStep ==
  ASSUME Careful, CInv, close
  PROVE  CInv' /\ Step
<1> DEFINE t(x, ln) == IF ln < Len(x) THEN The!Delete(x, ln, 1) ELSE x
<1>1. PICK ln \in LineNo :
        Edits(UNION { redisplay(WithText(r, t(r.text[curfile], ln)), curfile)
                    : r \in {q \in GetFlush(st) : Fits(t(q.text[curfile], ln))} })
  BY DEF close, ed
<1>2. /\ \E r \in GetFlush(st) :
           /\ Fits(t(r.text[curfile], ln))
           /\ st' \in redisplay(WithText(r, t(r.text[curfile], ln)), curfile)
      /\ edits' \in 0 .. MaxEdits /\ UNCHANGED << shown, win >>
  <2> HIDE DEF t
  <2> QED BY <1>1, EditBounds
<1>3. PICK r \in GetFlush(st) :
           /\ Fits(t(r.text[curfile], ln))
           /\ st' \in redisplay(WithText(r, t(r.text[curfile], ln)), curfile)
  BY <1>2
<1>4. /\ r.text = seen /\ seen[curfile] \in Texts /\ seen[curfile] \in Seq(Line)
      /\ Len(seen[curfile]) \in Nat
  BY SeenLines
<1>5. ln \in Nat
  BY LineNumbers
<1> DEFINE u == t(seen[curfile], ln)
<1>6. u \in Texts
  <2>1. CASE ln < Len(seen[curfile])
    <3>1. u = The!Delete(seen[curfile], ln, 1)
      BY <2>1
    <3>2. ln + 1 <= Len(seen[curfile])
      BY <1>4, <1>5, <2>1
    <3>3. u \in Seq(Line)
      BY <1>4, <1>5, <3>1, <3>2, DeleteLines
    <3>4. Len(u) <= MaxLines
      BY <1>3, <1>4 DEF Fits
    <3> QED BY <3>3, <3>4 DEF Texts
  <2>2. CASE ~ (ln < Len(seen[curfile]))
    BY <1>4, <2>2
  <2> QED BY <2>1, <2>2
<1>7. st' \in redisplay(WithText(r, u), curfile)
  BY <1>3, <1>4
<1> HIDE DEF u
<1>8. CInv' /\ Abstract!Edit(u) /\ (u = seen[curfile] => UNCHANGED << seen, curfile >>)
  BY <1>2, <1>3, <1>6, <1>7, Edlines
<1>9. CASE ln < Len(seen[curfile])
  <2>1. u = The!Delete(seen[curfile], ln, 1)
    BY <1>9 DEF u
  <2>2. u = Abstract!Delete(seen[curfile], ln, 1)
    BY <2>1, SameOperators
  <2>3. Abstract!Close
    BY <1>8, <1>9, <2>2, SameOperators DEF Abstract!Close
  <2> QED BY <1>8, <2>3 DEF Step, Abstract!Next
<1>10. CASE ~ (ln < Len(seen[curfile]))
  <2>1. u = seen[curfile]
    BY <1>10 DEF u
  <2> QED BY <1>8, <2>1 DEF Step
<1> QED BY <1>9, <1>10

(* ed (OPINSERT) inserts a line, behind the end after blank ones. *)
LEMMA insertStep ==
  ASSUME Careful, CInv, insert
  PROVE  CInv' /\ Step
<1> DEFINE t(x, ln, v) == The!Insert(The!Extended(x, ln), ln, << v >>)
<1>1. PICK ln \in LineNo, v \in Line :
        Edits(UNION { redisplay(WithText(r, t(r.text[curfile], ln, v)), curfile)
                    : r \in {q \in GetFlush(st) : Fits(t(q.text[curfile], ln, v))} })
  BY DEF insert, ed
<1>2. /\ \E r \in GetFlush(st) :
           /\ Fits(t(r.text[curfile], ln, v))
           /\ st' \in redisplay(WithText(r, t(r.text[curfile], ln, v)), curfile)
      /\ edits' \in 0 .. MaxEdits /\ UNCHANGED << shown, win >>
  <2> HIDE DEF t
  <2> QED BY <1>1, EditBounds
<1>3. PICK r \in GetFlush(st) :
           /\ Fits(t(r.text[curfile], ln, v))
           /\ st' \in redisplay(WithText(r, t(r.text[curfile], ln, v)), curfile)
  BY <1>2
<1>4. /\ r.text = seen /\ seen[curfile] \in Texts /\ seen[curfile] \in Seq(Line)
      /\ Len(seen[curfile]) \in Nat
  BY SeenLines
<1>5. ln \in Nat /\ << v >> \in Seq(Line)
  BY LineNumbers
<1> DEFINE e == The!Extended(seen[curfile], ln)
           u == The!Insert(e, ln, << v >>)
<1>6. e \in Seq(Line) /\ ln <= Len(e)
  <2>1. /\ e \in Seq(Line)
        /\ Len(e) = IF ln <= Len(seen[curfile]) THEN Len(seen[curfile]) ELSE ln
    BY <1>4, <1>5, ExtendedLines
  <2> HIDE DEF e
  <2> QED BY <1>4, <1>5, <2>1
<1>7. u \in Texts
  <2>1. u \in Seq(Line)
    <3> HIDE DEF e
    <3> QED BY <1>5, <1>6, InsertLines
  <2>2. Len(u) <= MaxLines
    BY <1>3, <1>4 DEF Fits
  <2> QED BY <2>1, <2>2 DEF Texts
<1>8. st' \in redisplay(WithText(r, u), curfile)
  BY <1>3, <1>4
<1>9. u = Abstract!Insert(Abstract!Extended(seen[curfile], ln), ln, << v >>)
  BY SameOperators
<1> HIDE DEF e, u
<1>10. CInv' /\ Abstract!Edit(u) /\ (u = seen[curfile] => UNCHANGED << seen, curfile >>)
  BY <1>2, <1>3, <1>7, <1>8, Edlines
<1>11. Abstract!Open
  BY <1>9, <1>10, SameOperators DEF Abstract!Open
<1> QED BY <1>10, <1>11 DEF Step, Abstract!Next

(* edrect replaces a line. *)
LEMMA edrectStep ==
  ASSUME Careful, CInv, edrect
  PROVE  CInv' /\ Step
<1> DEFINE t(x, ln, v) == The!Put(x, ln, v)
<1>1. PICK ln \in LineNo, v \in Line :
        Edits(UNION { redisplay(WithText(r, t(r.text[curfile], ln, v)), curfile)
                    : r \in {q \in GetFlush(st) : Fits(t(q.text[curfile], ln, v))} })
  BY DEF edrect, ed
<1>2. /\ \E r \in GetFlush(st) :
           /\ Fits(t(r.text[curfile], ln, v))
           /\ st' \in redisplay(WithText(r, t(r.text[curfile], ln, v)), curfile)
      /\ edits' \in 0 .. MaxEdits /\ UNCHANGED << shown, win >>
  <2> HIDE DEF t
  <2> QED BY <1>1, EditBounds
<1>3. PICK r \in GetFlush(st) :
           /\ Fits(t(r.text[curfile], ln, v))
           /\ st' \in redisplay(WithText(r, t(r.text[curfile], ln, v)), curfile)
  BY <1>2
<1>4. /\ r.text = seen /\ seen[curfile] \in Texts /\ seen[curfile] \in Seq(Line)
      /\ Len(seen[curfile]) \in Nat
  BY SeenLines
<1> DEFINE u == The!Put(seen[curfile], ln, v)
<1>5. u \in Texts
  <2>1. u \in Seq(Line)
    BY <1>4, LineNumbers, PutLines
  <2>2. Len(u) <= MaxLines
    BY <1>3, <1>4 DEF Fits
  <2> QED BY <2>1, <2>2 DEF Texts
<1>6. st' \in redisplay(WithText(r, u), curfile)
  BY <1>3, <1>4
<1>7. u = Abstract!Put(seen[curfile], ln, v)
  BY SameOperators
<1> HIDE DEF u
<1>8. CInv' /\ Abstract!Edit(u) /\ (u = seen[curfile] => UNCHANGED << seen, curfile >>)
  BY <1>2, <1>3, <1>5, <1>6, Edlines
<1>9. Abstract!Change
  BY <1>7, <1>8, SameOperators DEF Abstract!Change
<1> QED BY <1>8, <1>9 DEF Step, Abstract!Next

(* Blank lines made after a line, the first of whose is then put into it and *)
(* the rest into the last of them, are a line split.                       *)
LEMMA SplitLines ==
  ASSUME NEW t \in Seq(Line), NEW ln \in Nat, ln < Len(t), NEW nl \in Nat, nl >= 1,
         NEW head \in Line, NEW tail \in Line
  PROVE  The!Put(The!Put(The!Insert(t, ln + 1, The!Blanks(nl)), ln, head), ln + nl, tail)
           = The!Insert(The!Put(t, ln, head), ln + 1, The!Blanks(nl - 1) \o << tail >>)
<1> DEFINE L == ln + 1
           N == ln + nl
           k == The!Blanks(nl)
           a == The!Insert(t, L, k)
           b == The!Put(a, ln, head)
           c == The!Put(b, N, tail)
           m == The!Blanks(nl - 1) \o << tail >>
           p == The!Put(t, ln, head)
           d == The!Insert(p, L, m)
<1>1. /\ Len(t) \in Nat /\ L \in Nat /\ N \in Nat /\ nl - 1 \in Nat /\ L <= Len(t)
      /\ L = ln + 1 /\ N = ln + nl
  BY LenProperties
<1>2. k \in Seq(Line) /\ Len(k) = nl /\ \A i \in 1 .. nl : k[i] = blank
  BY BlankLines
<1>3. m \in Seq(Line) /\ Len(m) = nl /\ \A i \in 1 .. nl : m[i] = IF i = nl THEN tail ELSE blank
  <2> DEFINE n == The!Blanks(nl - 1)
             o == << tail >>
  <2>1. n \in Seq(Line) /\ Len(n) = nl - 1 /\ \A i \in 1 .. nl - 1 : n[i] = blank
    BY <1>1, BlankLines
  <2>2. o \in Seq(Line) /\ Len(o) = 1 /\ o[1] = tail
    OBVIOUS
  <2> HIDE DEF n, o
  <2>3. n \o o \in Seq(Line) /\ Len(n \o o) = Len(n) + Len(o)
        /\ \A i \in 1 .. Len(n) + Len(o) : (n \o o)[i] = IF i <= Len(n) THEN n[i] ELSE o[i - Len(n)]
    BY <2>1, <2>2, Joined
  <2>4. ASSUME NEW i \in 1 .. nl PROVE (n \o o)[i] = IF i = nl THEN tail ELSE blank
    <3>1. CASE i = nl
      <4>1. i - Len(n) = 1 /\ ~ (i <= Len(n)) /\ i \in 1 .. Len(n) + Len(o)
        BY <1>1, <2>1, <2>2, <3>1
      <4> QED BY <2>2, <2>3, <3>1, <4>1
    <3>2. CASE i # nl
      <4>1. i <= Len(n) /\ i \in 1 .. nl - 1 /\ i \in 1 .. Len(n) + Len(o)
        BY <1>1, <2>1, <2>2, <3>2
      <4> QED BY <2>1, <2>3, <3>2, <4>1
    <3> QED BY <3>1, <3>2
  <2>5. m = n \o o
    BY DEF n, o
  <2> HIDE DEF m
  <2> QED BY <1>1, <2>1, <2>2, <2>3, <2>4, <2>5
<1> HIDE DEF k, m, L, N
<1>4. /\ a \in Seq(Line) /\ Len(a) = Len(t) + nl
      /\ \A i \in 1 .. Len(t) + nl :
           a[i] = IF i <= L THEN t[i] ELSE IF i <= L + nl THEN k[i - L] ELSE t[i - nl]
  <2>1. /\ a \in Seq(Line) /\ Len(a) = Len(t) + Len(k)
        /\ \A i \in 1 .. Len(a) :
             a[i] = IF i <= L THEN t[i] ELSE IF i <= L + Len(k) THEN k[i - L] ELSE t[i - Len(k)]
    BY <1>1, <1>2, InsertLines, SMTT(45)
  <2> HIDE DEF a
  <2> QED BY <1>2, <2>1
<1> HIDE DEF a
<1>5. /\ b \in Seq(Line) /\ Len(b) = Len(t) + nl
      /\ \A i \in 1 .. Len(t) + nl : b[i] = IF i = ln + 1 THEN head ELSE a[i]
  <2>1. /\ b \in Seq(Line) /\ Len(b) = IF ln < Len(a) THEN Len(a) ELSE ln + 1
        /\ \A i \in 1 .. Len(b) : b[i] = IF i = ln + 1 THEN head ELSE IF i <= Len(a) THEN a[i] ELSE blank
    <3>1. a \in Seq(Line)
      BY <1>4
    <3> QED BY <3>1, PutLines
  <2> HIDE DEF b
  <2>2. Len(b) = Len(t) + nl /\ Len(a) = Len(b)
    BY <1>1, <1>4, <2>1
  <2> QED BY <1>1, <2>1, <2>2
<1> HIDE DEF b
<1>6. /\ c \in Seq(Line) /\ Len(c) = Len(t) + nl
      /\ \A i \in 1 .. Len(t) + nl : c[i] = IF i = N + 1 THEN tail ELSE b[i]
  <2>1. /\ c \in Seq(Line) /\ Len(c) = IF N < Len(b) THEN Len(b) ELSE N + 1
        /\ \A i \in 1 .. Len(c) : c[i] = IF i = N + 1 THEN tail ELSE IF i <= Len(b) THEN b[i] ELSE blank
    <3>1. b \in Seq(Line) /\ N \in Nat
      BY <1>1, <1>5
    <3>2. /\ The!Put(b, N, tail) \in Seq(Line)
          /\ Len(The!Put(b, N, tail)) = IF N < Len(b) THEN Len(b) ELSE N + 1
      BY <3>1, PutLines
    <3>3. \A i \in 1 .. Len(The!Put(b, N, tail)) :
            The!Put(b, N, tail)[i] = IF i = N + 1 THEN tail ELSE IF i <= Len(b) THEN b[i] ELSE blank
      BY <3>1, PutLines
    <3> QED BY <3>2, <3>3
  <2> HIDE DEF c
  <2>2. Len(c) = Len(t) + nl /\ Len(b) = Len(c)
    BY <1>1, <1>5, <2>1
  <2> QED BY <1>1, <2>1, <2>2
<1> HIDE DEF c
<1>7. /\ p \in Seq(Line) /\ Len(p) = Len(t)
      /\ \A i \in 1 .. Len(t) : p[i] = IF i = ln + 1 THEN head ELSE t[i]
  <2>1. /\ p \in Seq(Line) /\ Len(p) = IF ln < Len(t) THEN Len(t) ELSE ln + 1
        /\ \A i \in 1 .. Len(p) : p[i] = IF i = ln + 1 THEN head ELSE IF i <= Len(t) THEN t[i] ELSE blank
    BY PutLines
  <2> HIDE DEF p
  <2> QED BY <1>1, <2>1
<1> HIDE DEF p
<1>8. /\ d \in Seq(Line) /\ Len(d) = Len(t) + nl
      /\ \A i \in 1 .. Len(t) + nl :
           d[i] = IF i <= L THEN p[i] ELSE IF i <= L + nl THEN m[i - L] ELSE p[i - nl]
  <2>1. L <= Len(p)
    BY <1>1, <1>7
  <2>2. /\ d \in Seq(Line) /\ Len(d) = Len(p) + Len(m)
        /\ \A i \in 1 .. Len(d) :
             d[i] = IF i <= L THEN p[i] ELSE IF i <= L + Len(m) THEN m[i - L] ELSE p[i - Len(m)]
    BY <1>1, <1>3, <1>7, <2>1, InsertLines, SMTT(45)
  <2> HIDE DEF d
  <2> QED BY <1>3, <1>7, <2>2
<1> HIDE DEF d
<1>9. ASSUME NEW i \in 1 .. Len(t) + nl PROVE c[i] = d[i]
  <2>1. c[i] = IF i = N + 1 THEN tail ELSE IF i = L THEN head ELSE a[i]
    BY <1>1, <1>5, <1>6
  <2>2. CASE i <= L
    <3>1. i # N + 1 /\ i \in 1 .. Len(t)
      BY <1>1, <2>2
    <3> QED BY <1>1, <1>4, <1>7, <1>8, <2>1, <2>2, <3>1
  <2>3. CASE L < i /\ i <= L + nl
    <3>1. i - L \in 1 .. nl /\ ~ (i <= L) /\ i # L
          /\ (i = N + 1 <=> i - L = nl)
      BY <1>1, <2>3
    <3>2. a[i] = k[i - L] /\ k[i - L] = blank
      BY <1>2, <1>4, <2>3, <3>1
    <3>3. d[i] = m[i - L]
          /\ m[i - L] = IF i - L = nl THEN tail ELSE blank
      BY <1>3, <1>8, <2>3, <3>1
    <3> QED BY <2>1, <3>1, <3>2, <3>3
  <2>4. CASE L + nl < i
    <3>1. /\ i - nl \in 1 .. Len(t) /\ i - nl # L /\ ~ (i <= L) /\ ~ (i <= L + nl)
          /\ i # N + 1 /\ i # L
      BY <1>1, <2>4
    <3>2. a[i] = t[i - nl]
      BY <1>4, <3>1
    <3>3. d[i] = p[i - nl]
      BY <1>8, <3>1
    <3>4. p[i - nl] = t[i - nl]
      BY <1>1, <1>7, <3>1, SMTT(45)
    <3> QED BY <2>1, <3>1, <3>2, <3>3, <3>4
  <2>5. i \in Nat /\ L \in Nat /\ L + nl \in Nat
    BY <1>1
  <2> QED BY <2>2, <2>3, <2>4, <2>5
<1>10. c = d
  BY <1>6, <1>8, <1>9, SeqEqual
<1> QED BY <1>10 DEF a, b, c, d, k, m, p, L, N

(* splitlines makes blank lines, puts the first part, and has the rest in    *)
(* hand: for the user that is one line that goes on on another.            *)
LEMMA splitlinesStep ==
  ASSUME Careful, CInv, splitlines
  PROVE  CInv' /\ Step
<1> DEFINE blanked(r, ln, nl) == WithText(r, The!Insert(r.text[curfile], ln + 1, The!Blanks(nl)))
           begun(q, head)     == [q EXCEPT !.line = head, !.f = YES]
           first(r, ln, nl, head) == UNION {putlines(begun(q, head)) : q \in GetLine(blanked(r, ln, nl), Cur, ln)}
           second(r, ln, nl, tail) == [r EXCEPT !.line = tail, !.las = Cur, !.no = ln + nl, !.f = YES]
           flushed(ln)        == UNION {GetFlush(r) : r \in GetLine(st, Cur, ln)}
           made(ln, nl)       == {r \in flushed(ln) : Size(r) + nl <= MaxLines}
<1>1. PICK ln \in LineNo, nl \in 1 .. MaxLines, head \in Line, tail \in Word :
        /\ \A r \in GetLine(st, Cur, ln) : ~ r.x /\ r.line # blank
        /\ Edits((flushed(ln) \ made(ln, nl)) \cup
                 UNION {redisplay(second(r, ln, nl, tail), curfile) :
                          r \in UNION {first(q, ln, nl, head) : q \in made(ln, nl)}})
  BY DEF splitlines
<1>2. /\ st' \in (flushed(ln) \ made(ln, nl)) \cup
                 UNION {redisplay(second(r, ln, nl, tail), curfile) :
                          r \in UNION {first(q, ln, nl, head) : q \in made(ln, nl)}}
      /\ edits' \in 0 .. MaxEdits /\ UNCHANGED << shown, win >>
  <2> HIDE DEF first, second, flushed, made
  <2> QED BY <1>1, EditBounds
<1>3. /\ Cur \in Wksp /\ Cur # none /\ st.wk[Cur].open /\ curfile \in File /\ Good(st) /\ ln \in Ln /\ ln \in Nat
      /\ Cur = Shows(win) /\ win \in Win /\ curfile = st.wk[Cur].file
      /\ nl \in Nat /\ nl >= 1 /\ nl <= MaxLines /\ MaxLines \in Nat /\ tail \in Line
  BY InFile, LineNumbers DEF CInv, curfile, Line, The!Line
<1>4. /\ seen \in [File -> Texts] /\ seen[curfile] \in Seq(Line) /\ Len(seen[curfile]) \in Nat
      /\ seen = Seen(st)
  BY SeenLines, Sees
<1>5. ASSUME NEW q \in flushed(ln)
      PROVE  /\ Good(q) /\ q.text = seen /\ q.wk = st.wk /\ q.las = none /\ q.f = NO
             /\ ln < Len(seen[curfile])
  <2>1. PICK r \in GetLine(st, Cur, ln) : q \in GetFlush(r)
    OBVIOUS
  <2>2. /\ Good(r) /\ Seen(r) = Seen(st) /\ r.wk = st.wk
        /\ r.x <=> ln >= Len(st.text[curfile])
    BY <1>3, <2>1, Gets, SMTT(45) DEF curfile
  <2>3. Good(q) /\ q.text = Seen(r) /\ q.wk = r.wk /\ q.las = none /\ q.f = NO
    BY <2>1, <2>2, Flushed
  <2>4. ln < Len(st.text[curfile])
    <3>1. ~ r.x
      BY <1>1, <2>1
    <3>2. Len(st.text[curfile]) \in Nat
      BY <1>3, Fields DEF Good
    <3> QED BY <1>3, <2>2, <3>1, <3>2
  <2>5. Len(st.text[curfile]) = Len(seen[curfile])
    BY <1>3, <1>4, SeenTexts, SMTT(45)
  <2> HIDE DEF flushed
  <2> QED BY <1>4, <2>2, <2>3, <2>4, <2>5
<1>6. CASE st' \in flushed(ln) \ made(ln, nl)
  <2>1. Good(st') /\ st'.text = seen /\ st'.wk = st.wk /\ st'.las = none /\ st'.f = NO
    BY <1>5, <1>6
  <2>2. CInv' /\ curfile' = curfile
    BY <1>2, <2>1, EditKeeps
  <2>3. seen' = seen
    BY <2>1 DEF seen, Pending
  <2> QED BY <2>2, <2>3 DEF Step
<1>7. CASE st' \in UNION {redisplay(second(r, ln, nl, tail), curfile) :
                            r \in UNION {first(q, ln, nl, head) : q \in made(ln, nl)}}
  <2>1. PICK q \in made(ln, nl) : \E r \in first(q, ln, nl, head) :
               st' \in redisplay(second(r, ln, nl, tail), curfile)
    <3> HIDE DEF first, second, made
    <3> QED BY <1>7
  <2>2. PICK p \in GetLine(blanked(q, ln, nl), Cur, ln) : \E r \in putlines(begun(p, head)) :
               st' \in redisplay(second(r, ln, nl, tail), curfile)
    <3> HIDE DEF second, made, blanked, begun
    <3> QED BY <2>1
  <2>3. /\ Good(q) /\ q.text = seen /\ q.wk = st.wk /\ q.las = none /\ q.f = NO
        /\ ln < Len(seen[curfile]) /\ Len(seen[curfile]) + nl <= MaxLines
    BY <1>5 DEF Size
  <2> HIDE DEF flushed, made
  <2> DEFINE T == seen[curfile]
             B == The!Insert(T, ln + 1, The!Blanks(nl))
             b == blanked(q, ln, nl)
  <2>4. B \in Texts /\ B \in Seq(Line) /\ Len(B) = Len(T) + nl
    <3>1. The!Blanks(nl) \in Seq(Line) /\ Len(The!Blanks(nl)) = nl
      BY <1>3, BlankLines
    <3>2. ln + 1 \in Nat /\ ln + 1 <= Len(T)
      BY <1>3, <1>4, <2>3
    <3>3. B \in Seq(Line) /\ Len(B) = Len(T) + nl
      BY <1>4, <3>1, <3>2, InsertLines
    <3> HIDE DEF B
    <3> QED BY <2>3, <3>3 DEF Texts
  <2>5. b = WithText(q, B)
    BY <2>3
  <2> HIDE DEF b, B
  <2>6. /\ Good(b) /\ Seen(b) = [seen EXCEPT ![curfile] = B] /\ b.text = [seen EXCEPT ![curfile] = B]
        /\ b.wk = st.wk /\ b.las = none
    BY <1>3, <2>3, <2>4, <2>5, Replaced, SMTT(45)
  <2>7. /\ Good(p) /\ Seen(p) = Seen(b) /\ p.wk = b.wk /\ p.las \in Wksp /\ p.las \in {Cur, none}
        /\ p.no = ln /\ (p.x <=> ln >= Len(b.text[curfile]))
    <3>1. p \in GetLine(b, Cur, ln)
      BY <2>2 DEF b
    <3>2. b.wk[Cur].open
      BY <1>3, <2>6
    <3>3. b.wk[Cur].file = curfile
      BY <1>3, <2>6
    <3>4. Good(b) /\ Cur \in Wksp /\ ln \in Ln
      BY <1>3, <2>6
    <3>5. /\ Good(p) /\ Seen(p) = Seen(b) /\ p.wk = b.wk /\ p.las \in Wksp /\ p.las \in {Cur, b.las}
          /\ p.no = ln /\ (p.x <=> ln >= Len(b.text[b.wk[Cur].file]))
      BY <3>1, <3>2, <3>4, Gets
    <3> QED BY <2>6, <3>3, <3>5
  <2>8. p.las = Cur /\ ~ p.x
    <3>1. b.text[curfile] = B
      BY <1>3, <1>4, <2>6
    <3>2. ln < Len(B)
      BY <1>3, <1>4, <2>3, <2>4, SMTT(45)
    <3> QED BY <1>3, <2>4, <2>7, <3>1, <3>2, NoneIsNoWksp, LenProperties
  <2> DEFINE p1 == begun(p, head)
             H  == The!Put(B, ln, head)
  <2>9. p.wk[p.las].file = curfile
    BY <1>3, <2>6, <2>7, <2>8
  <2>10. p1 = TypedIn(p, curfile, head)
    <3>1. Good(p) /\ p.las \in Wksp /\ ~ p.x /\ curfile \in File
      BY <1>3, <2>7, <2>8
    <3>2. [p EXCEPT !.line = head, !.f = YES] = TypedIn(p, curfile, head)
      BY <2>9, <3>1, TypedOver
    <3> QED BY <3>2
  <2> HIDE DEF p1
  <2>11. /\ Good(p1) /\ p1.wk = p.wk /\ ~ p1.x
         /\ Seen(p1) = [Seen(p) EXCEPT ![curfile] = The!Put(@, p.no, head)]
    <3>1. p.no \in LineNo
      BY <2>7
    <3> QED BY <1>3, <2>7, <2>8, <2>9, <2>10, <3>1, Typed
  <2>12. Seen(p1) = [seen EXCEPT ![curfile] = H]
    <3>1. Seen(p) = [seen EXCEPT ![curfile] = B]
      BY <2>6, <2>7
    <3>2. Seen(p)[curfile] = B
      BY <1>3, <1>4, <3>1
    <3>3. Seen(p1) = [[seen EXCEPT ![curfile] = B] EXCEPT ![curfile] = H]
      BY <2>7, <2>11, <3>1, <3>2
    <3> HIDE DEF H
    <3> QED BY <1>4, <3>3
  <2> DEFINE r == putline(p1)
  <2>13. st' \in redisplay(second(r, ln, nl, tail), curfile)
    <3>1. putlines(p1) = {r}
      BY OnePut
    <3> HIDE DEF second, r
    <3> QED BY <2>2, <3>1 DEF p1
  <2>14. /\ Good(r) /\ r.text = [seen EXCEPT ![curfile] = H] /\ r.wk = st.wk /\ r.f = NO /\ ~ r.x
    BY <2>6, <2>7, <2>11, <2>12, PutsSeen
  <2> HIDE DEF r
  <2>15. H \in Seq(Line) /\ Len(H) = Len(T) + nl
    <3>1. /\ H \in Seq(Line) /\ Len(H) = IF ln < Len(B) THEN Len(B) ELSE ln + 1
      BY <1>3, <2>4, PutLines
    <3> HIDE DEF H
    <3> QED BY <1>3, <1>4, <2>3, <2>4, <3>1, SMTT(45)
  <2> HIDE DEF H
  <2> DEFINE g == [r EXCEPT !.las = Cur, !.no = ln + nl, !.line = H[ln + nl + 1]]
  <2>16. ln + nl \in Ln /\ ln + nl \in Nat /\ ln + nl < Len(H) /\ H[ln + nl + 1] \in Line
    <3>1. ln + nl \in Nat /\ ln + nl < Len(H) /\ ln + nl <= MaxLines
      BY <1>3, <1>4, <2>3, <2>15, SMTT(45)
    <3>2. ln + nl + 1 \in 1 .. Len(H)
      BY <2>15, <3>1, LenProperties
    <3>3. H[ln + nl + 1] \in Line
      BY <2>15, <3>2, ElementOfSeq
    <3> QED BY <1>3, <3>1, <3>3, LineNumbers
  <2>17. /\ g \in State /\ g.text = r.text /\ g.wk = r.wk /\ g.las = Cur /\ g.no = ln + nl
         /\ g.line = H[ln + nl + 1] /\ g.f = NO /\ ~ g.x /\ g.fatal = r.fatal
    BY <1>3, <2>14, <2>16 DEF Good, State
  <2>18. second(r, ln, nl, tail) = [g EXCEPT !.line = tail, !.f = YES]
    BY <2>14 DEF Good, State
  <2> HIDE DEF g
  <2>19. r.text[curfile] = H /\ g.wk[g.las].file = curfile /\ g.wk[g.las].open
    BY <1>3, <1>4, <2>14, <2>17
  <2>20. Good(g) /\ Seen(g) = [seen EXCEPT ![curfile] = H]
    BY <1>3, <2>14, <2>16, <2>17, <2>19 DEF Good, Hand, Seen, Pending
  <2> DEFINE s == second(r, ln, nl, tail)
             F == The!Put(H, ln + nl, tail)
  <2>21. s = TypedIn(g, curfile, tail) /\ g.no \in LineNo
    <3>1. Good(g) /\ g.las \in Wksp /\ ~ g.x /\ curfile \in File
      BY <1>3, <2>17, <2>20
    <3>2. [g EXCEPT !.line = tail, !.f = YES] = TypedIn(g, curfile, tail) /\ g.no \in LineNo
      BY <1>3, <2>19, <3>1, TypedOver, ZenonT(45)
    <3> HIDE DEF second
    <3> QED BY <2>18, <3>2
  <2> HIDE DEF s
  <2>22. /\ Good(s) /\ s.wk = g.wk /\ s.las = g.las
         /\ Seen(s) = [Seen(g) EXCEPT ![curfile] = The!Put(@, g.no, tail)]
         /\ The!Put(Seen(g)[curfile], g.no, tail) \in Texts
    <3>1. Good(g) /\ g.las \in Wksp /\ curfile \in File /\ tail \in Line
      BY <1>3, <2>17, <2>20
    <3> QED BY <2>19, <2>21, <3>1, Typed
  <2>23. Seen(s) = [seen EXCEPT ![curfile] = F] /\ F \in Texts
    BY <1>3, <1>4, <2>17, <2>20, <2>22, ZenonT(45)
  <2> HIDE DEF F
  <2>24. Shown(s) /\ s.wk = st.wk
    BY <1>3, <2>14, <2>17, <2>22 DEF Shown
  <2>25. CInv' /\ curfile' = curfile /\ Abstract!Edit(F)
    <3>1. st' \in redisplay(s, curfile)
      BY <2>13 DEF s
    <3> QED BY <1>2, <2>22, <2>23, <2>24, <3>1, ShowsAgain
  <2>26. F = The!Insert(The!Put(seen[curfile], ln, head), ln + 1, The!Blanks(nl - 1) \o << tail >>)
    BY <1>3, <1>4, <2>3, SplitLines, SMTT(45) DEF F, H, B
  <2>27. F = Abstract!Insert(Abstract!Put(seen[curfile], ln, head), ln + 1, Abstract!Blanks(nl - 1) \o << tail >>)
    BY <2>26, SameOperators
  <2>28. Abstract!Split
    BY <1>3, <2>3, <2>25, <2>27, SameOperators DEF Abstract!Split
  <2> QED BY <2>25, <2>28 DEF Step, Abstract!Next
<1> QED BY <1>2, <1>6, <1>7, ZenonT(45)

(* joinlines has the joined line in hand, writes it back, and closes the     *)
(* lines it has taken in: for the user that is one line that takes in      *)
(* another.                                                                *)
LEMMA joinlinesStep ==
  ASSUME Careful, CInv, joinlines
  PROVE  CInv' /\ Step
<1> DEFINE begun(q, v)   == [q EXCEPT !.line = v, !.f = YES]
           joined(ln, nl, v) == {begun(r, v) : r \in UNION {GetLines(q, Cur, ln + nl, ln) : q \in GetFlush(st)}}
           shut(r, ln, nl) == WithText(r, The!Delete(r.text[curfile], ln + 1, nl))
           flushed(ln, nl, v) == UNION {GetFlush(q) : q \in UNION {redisplay(r, curfile) : r \in joined(ln, nl, v)}}
<1>1. PICK ln \in LineNo, nl \in 1 .. MaxLines, v \in Word :
        /\ \A r \in GetFlush(st) :
             /\ ln + nl < Size(r) /\ r.text[curfile][ln + nl + 1] # blank
             /\ \A i \in 1 .. nl - 1 : r.text[curfile][ln + i + 1] = blank
        /\ Edits(UNION {redisplay(shut(r, ln, nl), curfile) : r \in flushed(ln, nl, v)})
  BY DEF joinlines
<1>2. /\ st' \in UNION {redisplay(shut(r, ln, nl), curfile) : r \in flushed(ln, nl, v)}
      /\ edits' \in 0 .. MaxEdits /\ UNCHANGED << shown, win >>
  <2> HIDE DEF shut, flushed
  <2> QED BY <1>1, EditBounds
<1>3. /\ Cur \in Wksp /\ st.wk[Cur].open /\ curfile \in File /\ Good(st) /\ ln \in Ln /\ ln \in Nat
      /\ Cur = Shows(win) /\ win \in Win /\ curfile = st.wk[Cur].file
      /\ nl \in Nat /\ nl >= 1 /\ nl <= MaxLines /\ MaxLines \in Nat /\ v \in Line
  BY InFile, LineNumbers DEF CInv, curfile, Line, The!Line
<1>4. /\ seen \in [File -> Texts] /\ seen[curfile] \in Texts /\ seen[curfile] \in Seq(Line)
      /\ Len(seen[curfile]) \in Nat /\ Len(seen[curfile]) <= MaxLines /\ seen = Seen(st)
  BY SeenLines, Sees DEF Texts
<1>5. PICK d \in UNION {redisplay(j, curfile) : j \in joined(ln, nl, v)} : \E r \in GetFlush(d) :
             st' \in redisplay(shut(r, ln, nl), curfile)
  <2> HIDE DEF shut, joined
  <2> QED BY <1>2
<1>6. PICK r \in GetFlush(d) : st' \in redisplay(shut(r, ln, nl), curfile)
  BY <1>5
<1>7. PICK j \in joined(ln, nl, v) : d \in redisplay(j, curfile)
  <2> HIDE DEF joined
  <2> QED BY <1>5
<1>8. PICK q \in GetFlush(st) : \E g \in GetLines(q, Cur, ln + nl, ln) : j = begun(g, v)
  <2> HIDE DEF begun
  <2> QED BY <1>7
<1>9. PICK g \in GetLines(q, Cur, ln + nl, ln) : j = begun(g, v)
  BY <1>8
<1> HIDE DEF joined, flushed
<1>10. Good(q) /\ q.text = seen /\ Seen(q) = seen /\ q.wk = st.wk /\ q.las = none
  BY <1>3, <1>4, <1>8, Flushed, SeenLines
<1>11. /\ ln + nl < Len(seen[curfile])
       /\ \A i \in 1 .. nl - 1 : seen[curfile][ln + i + 1] = blank
  BY <1>1, <1>8, <1>10 DEF Size
<1>12. ln + nl \in Ln /\ ln + nl # ln /\ ln < Len(seen[curfile]) /\ ln + 1 \in Nat
       /\ ln + 1 + nl <= Len(seen[curfile])
  BY <1>3, <1>4, <1>11, LineNumbers, SMTT(45)
<1>13. /\ Good(g) /\ Seen(g) = seen /\ g.wk = st.wk /\ g.las = Cur /\ g.no = ln /\ ~ g.x
  <2>1. q.wk[Cur].open /\ q.wk[Cur].file = curfile
    BY <1>3, <1>10
  <2>2. /\ Good(g) /\ Seen(g) = Seen(q) /\ g.wk = q.wk /\ g.las \in {Cur, q.las} /\ g.las \in Wksp
        /\ g.no = ln /\ (g.x <=> ln >= Len(q.text[q.wk[Cur].file])) /\ (ln + nl # ln => g.las = Cur)
    BY <1>3, <1>9, <1>10, <1>12, <2>1, GetsTwo, SMTT(45)
  <2> QED BY <1>3, <1>4, <1>10, <1>12, <2>1, <2>2
<1>14. g.las \in Wksp /\ g.wk[g.las].file = curfile
  BY <1>3, <1>13
<1>15. j = TypedIn(g, curfile, v) /\ g.no \in LineNo
  <2>1. Good(g) /\ ~ g.x /\ curfile \in File /\ v \in Line
    BY <1>3, <1>13
  <2>2. [g EXCEPT !.line = v, !.f = YES] = TypedIn(g, curfile, v) /\ g.no \in LineNo
    BY <1>14, <2>1, TypedOver
  <2> QED BY <1>9, <2>2
<1> HIDE DEF begun
<1> DEFINE T == seen[curfile]
           P == The!Put(T, ln, v)
           D == The!Delete(P, ln + 1, nl)
<1>16. /\ Good(j) /\ j.wk = g.wk /\ j.las = g.las
       /\ Seen(j) = [Seen(g) EXCEPT ![curfile] = The!Put(@, g.no, v)]
  BY <1>3, <1>13, <1>14, <1>15, Typed
<1>17. Seen(j) = [seen EXCEPT ![curfile] = P] /\ Shown(j) /\ j.wk = st.wk
  BY <1>3, <1>13, <1>16 DEF Shown
<1>18. P \in Seq(Line) /\ Len(P) = Len(T)
  <2>1. P \in Seq(Line) /\ Len(P) = IF ln < Len(T) THEN Len(T) ELSE ln + 1
    BY <1>3, <1>4, PutLines, ZenonT(45)
  <2> HIDE DEF P
  <2> QED BY <1>12, <2>1
<1> HIDE DEF P
<1>19. D \in Texts
  <2>1. ln + 1 + nl <= Len(P)
    BY <1>12, <1>18
  <2>2. D \in Seq(Line) /\ Len(D) = Len(P) - nl
    BY <1>3, <1>12, <1>18, <2>1, DeleteLines
  <2> HIDE DEF D
  <2> QED BY <1>3, <1>4, <1>18, <2>2 DEF Texts
<1>20. /\ Good(d) /\ Seen(d) = [seen EXCEPT ![curfile] = P] /\ d.wk = st.wk
  BY <1>3, <1>7, <1>16, <1>17, Redisplays
<1>21. /\ Good(r) /\ r.text = [seen EXCEPT ![curfile] = P] /\ r.wk = st.wk /\ r.las = none /\ r.f = NO
  BY <1>6, <1>20, Flushed
<1>22. shut(r, ln, nl) = WithText(r, D)
  BY <1>3, <1>4, <1>21
<1> HIDE DEF shut, D
<1> DEFINE s == WithText(r, D)
<1>23. /\ Good(s) /\ Shown(s) /\ Seen(s) = [r.text EXCEPT ![curfile] = D] /\ s.wk = r.wk
  <2>1. Good(r) /\ r.las = none /\ r.f = NO /\ curfile \in File
    BY <1>3, <1>21
  <2> QED BY <1>19, <2>1, Replaced
<1>24. st' \in redisplay(s, curfile)
  BY <1>6, <1>22
<1> HIDE DEF s
<1>25. Seen(s) = [seen EXCEPT ![curfile] = D] /\ s.wk = st.wk
  BY <1>4, <1>21, <1>23
<1>26. CInv' /\ curfile' = curfile /\ Abstract!Edit(D)
  BY <1>2, <1>19, <1>23, <1>24, <1>25, ShowsAgain
<1>27. D = Abstract!Delete(Abstract!Put(seen[curfile], ln, v), ln + 1, nl)
  BY SameOperators DEF D, P
<1>28. Abstract!Join
  BY <1>3, <1>11, <1>26, <1>27, SameOperators DEF Abstract!Join
<1> QED BY <1>26, <1>28 DEF Step, Abstract!Next

-----------------------------------------------------------------------------
(* Moving about: the user sees the same files. *)

(* A step that changes no file the user sees, and leaves him in one, is a    *)
(* step of Text, or none.                                                  *)
LEMMA Moves ==
  ASSUME CInv', UNCHANGED seen
  PROVE  Step
<1>1. win' \in Win /\ shown'[win'] \in {1, 2} /\ st'.wk[<< win', shown'[win'] >>].open
  BY DEF CInv, Made, Shows, Win
<1>2. << win', shown'[win'] >> \in Wksp
  BY <1>1 DEF Wksp
<1>3. curfile' \in File
  BY <1>1, <1>2 DEF CInv, Good, curfile, Cur
<1> QED BY <1>3 DEF Step, Abstract!Next, Abstract!Go

(* A move leaves one of its states. *)
LEMMA GoBounds ==
  ASSUME CInv, NEW ss, Goes(ss)
  PROVE  st' \in ss /\ edits' \in 0 .. MaxEdits
  BY DEF Goes, CInv

(* A step that leaves the windows and the workspaces. *)
LEMMA MoveKeeps ==
  ASSUME CInv, Good(st'), st'.las = none \/ (\E i \in Win : st'.las = Shows(i)), st'.wk = st.wk,
         Seen(st') = Seen(st), UNCHANGED << shown, win >>, edits' \in 0 .. MaxEdits
  PROVE  CInv' /\ Step
<1>1. CInv'
  BY EditKeeps, SMTT(45)
<1>2. seen' = seen
  BY DEF seen, Seen, Pending, TextWith, At
<1> QED BY <1>1, <1>2, Moves

(* A line of the window is taken into hand. *)
LEMMA lookStep ==
  ASSUME Careful, CInv, look
  PROVE  CInv' /\ Step
<1>1. Goes(UNION {GetLine(st, Cur, ln) : ln \in Ln}) /\ UNCHANGED << shown, win >>
  BY DEF look
<1>2. st' \in UNION {GetLine(st, Cur, ln) : ln \in Ln} /\ edits' \in 0 .. MaxEdits
  BY <1>1, GoBounds
<1>3. PICK ln \in Ln : st' \in GetLine(st, Cur, ln)
  BY <1>2
<1>4. Cur \in Wksp /\ st.wk[Cur].open /\ Good(st) /\ Cur = Shows(win) /\ win \in Win
  BY InFile DEF CInv
<1>5. Good(st') /\ Seen(st') = Seen(st) /\ st'.wk = st.wk /\ st'.las \in {Cur, st.las}
  BY <1>3, <1>4, Gets
<1>6. st'.las = none \/ (\E i \in Win : st'.las = Shows(i))
  BY <1>4, <1>5 DEF CInv, Shown
<1> QED BY <1>1, <1>2, <1>5, <1>6, MoveKeeps

(* The line in hand is written back. *)
LEMMA savefileStep ==
  ASSUME Careful, CInv, savefile
  PROVE  CInv' /\ Step
<1>1. st' \in putlines(st) /\ edits' \in 0 .. MaxEdits /\ UNCHANGED << shown, win >>
  BY GoBounds DEF savefile
<1>2. st' = putline(st) /\ Good(st)
  BY <1>1, OnePut DEF CInv
<1>3. Good(st') /\ Seen(st') = Seen(st) /\ st'.wk = st.wk /\ st'.las \in {st.las, none}
  BY <1>2, PutsSeen
<1>4. st'.las = none \/ (\E i \in Win : st'.las = Shows(i))
  BY <1>3 DEF CInv, Shown
<1> QED BY <1>1, <1>3, <1>4, MoveKeeps

(* The line in hand may be of the window the user leaves. *)
LEMMA chgwindowStep ==
  ASSUME Careful, CInv, chgwindow
  PROVE  CInv' /\ Step
<1>1. PICK i \in Win \ {win} : Made(i) /\ win' = i /\ Goes({st}) /\ UNCHANGED shown
  BY DEF chgwindow
<1>2. st' = st /\ edits' \in 0 .. MaxEdits
  BY <1>1, GoBounds
<1>3. CInv'
  BY <1>1, <1>2 DEF CInv, Good, Hand, State, Shown, Shows, Made
<1>4. seen' = seen
  BY <1>2 DEF seen, Pending, TextWith, At
<1> QED BY <1>3, <1>4, Moves

(* A line is put over itself. *)
LEMMA PutSame ==
  ASSUME NEW t \in Seq(Line), NEW ln \in Nat, ln < Len(t)
  PROVE  The!Put(t, ln, t[ln + 1]) = t
<1> DEFINE v == t[ln + 1]
           p == The!Put(t, ln, v)
<1>1. Len(t) \in Nat /\ ln + 1 \in 1 .. Len(t)
  BY LenProperties
<1>2. v \in Line
  BY <1>1, ElementOfSeq
<1> HIDE DEF v
<1>3. /\ p \in Seq(Line) /\ Len(p) = IF ln < Len(t) THEN Len(t) ELSE ln + 1
      /\ \A i \in 1 .. Len(p) : p[i] = IF i = ln + 1 THEN v ELSE IF i <= Len(t) THEN t[i] ELSE blank
  BY <1>2, PutLines
<1> HIDE DEF p
<1>4. Len(p) = Len(t) /\ \A i \in 1 .. Len(p) : p[i] = t[i]
  BY <1>1, <1>3 DEF v
<1>5. p = t
  BY <1>3, <1>4, SeqEqual
<1> QED BY <1>5 DEF p, v

(* Whether a line in hand is written back once more makes no difference.    *)
LEMMA Told ==
  ASSUME NEW r, Good(r), r.las \in Wksp, ~ r.x,
         NEW s, s = [r EXCEPT !.f = TOLD]
  PROVE  Good(s) /\ Seen(s) = Seen(r) /\ s.wk = r.wk /\ s.las = r.las
<1> DEFINE f == r.wk[r.las].file
<1>1. r \in State /\ r.text \in [File -> Texts] /\ r.las # none /\ r.x \in BOOLEAN /\ r.no \in Nat
  BY Fields, NoneIsNoWksp DEF Good
<1>2. /\ s \in State /\ s.text = r.text /\ s.wk = r.wk /\ s.las = r.las /\ s.no = r.no /\ s.line = r.line
      /\ s.x = r.x /\ s.fatal = r.fatal /\ s.f = TOLD
  BY <1>1 DEF State
<1>3. r.wk[r.las].open /\ f \in File /\ r.no < Len(r.text[f])
  BY <1>1 DEF Good, Hand
<1>4. Good(s) /\ Pending(s)
  BY <1>1, <1>2, <1>3 DEF Good, Hand, Pending, TOLD, NO
<1>5. CASE r.f # NO
  <2>1. Pending(r)
    BY <1>1, <1>3, <1>5 DEF Pending
  <2>2. TextWith(s) = TextWith(r)
    BY <1>2 DEF TextWith, At
  <2> QED BY <1>2, <1>4, <2>1, <2>2 DEF Seen
<1>6. CASE r.f = NO
  <2>1. Seen(r) = r.text /\ r.line = r.text[f][r.no + 1]
    BY <1>1, <1>6 DEF Seen, Pending, Good, Hand
  <2>2. TextWith(s) = [s.text EXCEPT ![s.wk[s.las].file] = The!Put(@, s.no, s.line)]
    BY <1>4, PendingLine
  <2>3. TextWith(s) = [r.text EXCEPT ![f] = The!Put(r.text[f], r.no, r.text[f][r.no + 1])]
    BY <1>1, <1>2, <1>3, <2>1, <2>2
  <2>4. r.text[f] \in Seq(Line)
    BY <1>1, <1>3, Fields
  <2>5. The!Put(r.text[f], r.no, r.text[f][r.no + 1]) = r.text[f]
    BY <1>1, <1>3, <2>4, PutSame
  <2>6. TextWith(s) = r.text
    BY <1>1, <2>3, <2>5
  <2> QED BY <1>2, <1>4, <2>1, <2>6 DEF Seen
<1> QED BY <1>5, <1>6

(* credisplay takes the line of the cursor into hand in another window, and  *)
(* then says that it has been changed, whatever it is: but it is a line of *)
(* the file, and as it is there.                                           *)
LEMMA credisplayStep ==
  ASSUME Careful, CInv, credisplay
  PROVE  CInv' /\ Step
<1> DEFINE told(r) == [r EXCEPT !.f = TOLD]
           got(ln) == {st} \cup UNION {GetLine(st, w, ln) : w \in ShowsFile(curfile) \ {Cur}}
<1>1. PICK ln \in Ln : /\ st.f = YES
                       /\ ln = st.no \/ ln < Size(st) \/ BehindEnd
                       /\ Goes({told(r) : r \in got(ln)})
                       /\ UNCHANGED << shown, win >>
  BY DEF credisplay
<1>2. st' \in {told(r) : r \in got(ln)} /\ edits' \in 0 .. MaxEdits
  <2> HIDE DEF told, got
  <2> QED BY <1>1, GoBounds
<1>3. PICK r \in got(ln) : st' = told(r)
  BY <1>2
<1>4. /\ Good(st) /\ st.las \in Wksp /\ st.wk[st.las].open /\ ~ st.x /\ st.las # none
      /\ st.no < Len(st.text[st.wk[st.las].file])
      /\ Cur \in Wksp /\ curfile \in File /\ Cur = Shows(win) /\ win \in Win
  <2>1. st.f # NO /\ Good(st)
    BY <1>1 DEF CInv, YES, NO
  <2>2. Pending(st)
    BY <2>1, SeenTexts
  <2>3. st.las # none /\ st.wk[st.las].open
    BY <2>2 DEF Pending
  <2>4. /\ st.las \in Wksp /\ ~ st.x /\ st.no < Len(st.text[st.wk[st.las].file])
    BY <2>1, <2>2, PendingLine
  <2>5. Cur \in Wksp /\ curfile \in File /\ Cur = Shows(win) /\ win \in Win
    BY InFile DEF CInv
  <2> QED BY <2>1, <2>3, <2>4, <2>5
<1>5. /\ Good(r) /\ Seen(r) = Seen(st) /\ r.wk = st.wk /\ r.las \in Wksp /\ ~ r.x
      /\ r.las = none \/ (\E i \in Win : r.las = Shows(i))
  <2>1. CASE r = st
    BY <1>4, <2>1 DEF CInv, Shown
  <2>2. CASE r # st
    <3>1. PICK w \in ShowsFile(curfile) \ {Cur} : r \in GetLine(st, w, ln)
      BY <2>2
    <3>2. PICK j \in Win : w = Shows(j) /\ st.wk[w] = On(curfile)
      BY <3>1 DEF ShowsFile
    <3>3. j # win /\ w \in Wksp /\ st.wk[w].open /\ st.wk[w].file = curfile
      BY <1>4, <3>1, <3>2, InFile DEF On
    <3>4. st.wk[st.las].file = curfile
      <4>1. PICK i \in Win : st.las = Shows(i)
        BY <1>4 DEF CInv, Shown
      <4>2. i = win \/ i = j
        BY <1>4, <3>3 DEF Win
      <4> QED BY <1>4, <3>2, <3>3, <4>1, <4>2 DEF curfile
    <3>5. ln < Len(st.text[curfile])
      BY <1>1, <1>4, <3>4 DEF Size, Careful
    <3>6. /\ Good(r) /\ Seen(r) = Seen(st) /\ r.wk = st.wk /\ r.las \in Wksp /\ r.las \in {w, st.las}
          /\ (r.x <=> ln >= Len(st.text[st.wk[w].file]))
      BY <1>4, <3>1, <3>3, Gets
    <3>7. ~ r.x
      BY <1>4, <3>3, <3>5, <3>6, LineNumbers, Fields DEF Good
    <3> QED BY <3>2, <3>6, <3>7 DEF CInv, Shown
  <2> QED BY <2>1, <2>2
<1>6. st' = [r EXCEPT !.f = TOLD]
  BY <1>3
<1> HIDE DEF got, told
<1>7. Good(st') /\ Seen(st') = Seen(r) /\ st'.wk = r.wk /\ st'.las = r.las
  BY <1>5, <1>6, Told
<1>8. st'.las = none \/ (\E i \in Win : st'.las = Shows(i))
  BY <1>5, <1>7
<1> QED BY <1>1, <1>2, <1>5, <1>7, <1>8, MoveKeeps

(* The other workspace of the window is shown from now on. *)
LEMMA ShowsAlt ==
  ASSUME CInv, Good(st'), st'.las = Alt(win), st'.wk[Alt(win)].open,
         \A i \in Win : st'.wk[Shows(i)] = st.wk[Shows(i)], Seen(st') = Seen(st),
         shown' = [shown EXCEPT ![win] = 3 - @], UNCHANGED win, edits' \in 0 .. MaxEdits
  PROVE  CInv' /\ Step
<1>1. win \in Win /\ shown \in [Win -> 1 .. 2] /\ 1 \in Win
  BY DEF CInv, Win
<1>2. /\ shown' \in [Win -> 1 .. 2]
      /\ << win, shown'[win] >> = Alt(win)
      /\ \A i \in Win : i # win => << i, shown'[i] >> = Shows(i)
  BY <1>1 DEF Alt, Shows
<1>3. \A i \in Win : Made(i) => st'.wk[<< i, shown'[i] >>].open
  BY <1>2 DEF Made
<1>4. Made(1)' /\ Made(win)' /\ Shown(st)'
  BY <1>1, <1>2, <1>3 DEF Made, CInv, Shown, Shows
<1>5. CInv'
  BY <1>1, <1>2, <1>4, SMTT(45) DEF CInv, Good, Hand, State
<1>6. seen' = seen
  BY DEF seen, Seen, Pending, TextWith, At
<1> QED BY <1>5, <1>6, Moves

(* The window is put up again, so that the line in hand is of the file that *)
(* is shown now.                                                            *)
LEMMA switchfileStep ==
  ASSUME Careful, CInv, switchfile
  PROVE  CInv' /\ Step
<1>1. st' \in putup(st, Alt(win), Rows) /\ edits' \in 0 .. MaxEdits
  BY GoBounds DEF switchfile
<1>2. Alt(win) \in Wksp /\ st.wk[Alt(win)].open /\ Good(st)
  BY InFile DEF CInv, switchfile
<1>3. Good(st') /\ Seen(st') = Seen(st) /\ st'.wk = st.wk /\ st'.las = Alt(win)
  BY <1>1, <1>2, PutsUp
<1> QED BY <1>1, <1>2, <1>3, ShowsAlt DEF switchfile

(* Workspaces change, but not the one of the line in hand. *)
LEMMA WkspChange ==
  ASSUME NEW s, Good(s), NEW k \in [Wksp -> [file : File \cup {NoFile}, open : BOOLEAN]],
         \A w \in Wksp : k[w].open => k[w].file \in File,
         s.las # none => k[s.las] = s.wk[s.las]
  PROVE  LET r == [s EXCEPT !.wk = k]
         IN  Good(r) /\ Seen(r) = Seen(s) /\ r.wk = k /\ r.las = s.las
<1> DEFINE r == [s EXCEPT !.wk = k]
<1>1. s \in State
  BY DEF Good
<1>2. /\ r \in State /\ r.text = s.text /\ r.wk = k /\ r.las = s.las /\ r.no = s.no /\ r.line = s.line
      /\ r.f = s.f /\ r.x = s.x /\ r.fatal = s.fatal
  BY <1>1 DEF State
<1> HIDE DEF r
<1>3. Good(r)
  BY <1>2 DEF Good, Hand
<1>4. Seen(r) = Seen(s)
  BY <1>2 DEF Seen, Pending, TextWith, At
<1> QED BY <1>2, <1>3, <1>4 DEF r

(* The workspace that is opened again is not the one of the line in hand,   *)
(* and the one that is hidden is so no more when the window has been put up. *)
LEMMA editfileStep ==
  ASSUME Careful, CInv, editfile
  PROVE  CInv' /\ Step
<1> DEFINE s(f) == [st EXCEPT !.wk[Alt(win)] = On(f)]
<1>1. PICK f \in File :
        /\ EditCurrent \/ f # curfile
        /\ Goes(IF f = curfile THEN {s(f)} ELSE putup(s(f), Alt(win), Rows))
        /\ shown' = [shown EXCEPT ![win] = 3 - @] /\ UNCHANGED win
  BY DEF editfile
<1>2. st' \in putup(s(f), Alt(win), Rows) /\ edits' \in 0 .. MaxEdits
  <2> HIDE DEF s
  <2> QED BY <1>1, GoBounds DEF Careful
<1>3. Alt(win) \in Wksp /\ Good(st) /\ win \in Win /\ \A i \in Win : Shows(i) \in Wksp /\ Alt(win) # Shows(i)
  <2>1. Alt(win)[1] = win
    BY DEF Alt
  <2> QED BY <2>1, InFile DEF CInv
<1> DEFINE k == [st.wk EXCEPT ![Alt(win)] = On(f)]
<1>4. st \in State /\ st.wk \in [Wksp -> [file : File \cup {NoFile}, open : BOOLEAN]]
  BY <1>3, Fields DEF Good
<1>5. k \in [Wksp -> [file : File \cup {NoFile}, open : BOOLEAN]]
  BY <1>4 DEF On
<1>6. /\ \A w \in Wksp : k[w].open => k[w].file \in File
      /\ k[Alt(win)].open
      /\ \A i \in Win : k[Shows(i)] = st.wk[Shows(i)]
      /\ st.las # none => k[st.las] = st.wk[st.las]
  BY <1>3, <1>4 DEF On, Good, CInv, Shown
<1>7. s(f) = [st EXCEPT !.wk = k]
  BY <1>4 DEF State
<1> HIDE DEF s, k
<1>8. Good(s(f)) /\ Seen(s(f)) = Seen(st) /\ s(f).wk = k
  BY <1>3, <1>5, <1>6, <1>7, WkspChange
<1>9. Good(st') /\ Seen(st') = Seen(st) /\ st'.wk = k /\ st'.las = Alt(win)
  BY <1>2, <1>3, <1>6, <1>8, PutsUp
<1> QED BY <1>1, <1>2, <1>6, <1>9, ShowsAlt

(* No line is in hand through a window that is not there yet. *)
LEMMA makewindowStep ==
  ASSUME Careful, CInv, makewindow
  PROVE  CInv' /\ Step
<1> DEFINE s(alt, f) == [st EXCEPT !.wk[<< 2, 1 >>] = IF alt = NoFile THEN noFile ELSE On(alt),
                                   !.wk[<< 2, 2 >>] = On(f)]
<1>1. PICK alt \in {st.wk[Alt(1)].file, curfile} :
             \E f \in IF alt = curfile THEN File \ {curfile} ELSE {curfile} :
                /\ ~ Made(2)
                /\ Goes(putup(s(alt, f), << 2, 2 >>, Rows))
                /\ shown' = [shown EXCEPT ![2] = 2] /\ win' = 2
  BY DEF makewindow
<1>2. PICK f \in IF alt = curfile THEN File \ {curfile} ELSE {curfile} :
                /\ ~ Made(2)
                /\ Goes(putup(s(alt, f), << 2, 2 >>, Rows))
                /\ shown' = [shown EXCEPT ![2] = 2] /\ win' = 2
  BY <1>1
<1>3. st' \in putup(s(alt, f), << 2, 2 >>, Rows) /\ edits' \in 0 .. MaxEdits
  <2> HIDE DEF s
  <2> QED BY <1>2, GoBounds
<1>4. /\ Good(st) /\ st \in State /\ curfile \in File
      /\ st.wk \in [Wksp -> [file : File \cup {NoFile}, open : BOOLEAN]]
      /\ << 2, 1 >> \in Wksp /\ << 2, 2 >> \in Wksp /\ Alt(1) \in Wksp /\ 1 \in Win /\ 2 \in Win
      /\ shown \in [Win -> 1 .. 2] /\ Made(1)
  BY InFile, Fields DEF CInv, Good, Wksp, Win
<1>5. alt \in File \cup {NoFile} /\ f \in File
  BY <1>4
<1>6. st.las = none \/ st.las = Shows(1)
  <2>1. st.las # Shows(2)
    BY <1>2, <1>4 DEF Made, Good, Hand, none, Shows
  <2> QED BY <2>1, SMTT(45) DEF CInv, Shown, Win
<1>7. Shows(1) # << 2, 1 >> /\ Shows(1) # << 2, 2 >> /\ Shows(1) \in Wksp
  BY <1>4, InFile
<1> DEFINE a == IF alt = NoFile THEN noFile ELSE On(alt)
           k == [st.wk EXCEPT ![<< 2, 1 >>] = a, ![<< 2, 2 >>] = On(f)]
<1>8. a \in [file : File \cup {NoFile}, open : BOOLEAN] /\ (a.open => a.file \in File)
      /\ On(f) \in [file : File \cup {NoFile}, open : BOOLEAN] /\ On(f).file = f /\ On(f).open
  BY <1>5 DEF On, noFile
<1> HIDE DEF a
<1>9. k \in [Wksp -> [file : File \cup {NoFile}, open : BOOLEAN]]
  BY <1>4, <1>8
<1>10. /\ \A w \in Wksp : k[w] = IF w = << 2, 2 >> THEN On(f) ELSE IF w = << 2, 1 >> THEN a ELSE st.wk[w]
  BY <1>4, <1>8
<1>11. s(alt, f) = [st EXCEPT !.wk = k]
  BY <1>4 DEF State, a
<1> HIDE DEF s, k
<1>12. /\ \A w \in Wksp : k[w].open => k[w].file \in File
       /\ k[<< 2, 2 >>].open /\ k[Shows(1)] = st.wk[Shows(1)]
       /\ st.las # none => k[st.las] = st.wk[st.las]
  BY <1>4, <1>5, <1>6, <1>7, <1>8, <1>10 DEF Good
<1>13. Good(s(alt, f)) /\ Seen(s(alt, f)) = Seen(st) /\ s(alt, f).wk = k
  BY <1>4, <1>9, <1>11, <1>12, WkspChange
<1>14. Good(st') /\ Seen(st') = Seen(st) /\ st'.wk = k /\ st'.las = << 2, 2 >>
  BY <1>3, <1>4, <1>12, <1>13, PutsUp
<1>15. shown' \in [Win -> 1 .. 2] /\ shown'[2] = 2 /\ << 1, shown'[1] >> = Shows(1) /\ win' \in Win
  BY <1>2, <1>4 DEF Shows
<1>16. Made(1)' /\ Made(win)' /\ Shown(st)'
  <2>1. Made(2)'
    BY <1>12, <1>14, <1>15 DEF Made, Shows
  <2>2. Made(1)'
    BY <1>4, <1>12, <1>14, <1>15 DEF Made, Shows
  <2>3. Shown(st)'
    BY <1>4, <1>14, <1>15 DEF Shown, Shows
  <2> QED BY <1>2, <2>1, <2>2, <2>3
<1>17. CInv'
  BY <1>3, <1>14, <1>15, <1>16, SMTT(45) DEF CInv, Good, Hand, State
<1>18. seen' = seen
  BY <1>14 DEF seen, Seen, Pending, TextWith, At
<1> QED BY <1>17, <1>18, Moves

(* The first window is put up before the second one goes, so that no line   *)
(* stays in hand through the second.                                        *)
LEMMA removewindowStep ==
  ASSUME Careful, CInv, removewindow
  PROVE  CInv' /\ Step
<1>1. /\ Made(2) /\ win' = 1 /\ shown' = [shown EXCEPT ![2] = 1] /\ edits' \in 0 .. MaxEdits
      /\ \E r \in putup(st, Shows(1), Rows) : st' = Without2(r)
  <2>1. st' \in {Without2(r) : r \in putup(st, Shows(1), Rows)} /\ edits' \in 0 .. MaxEdits
    BY GoBounds DEF removewindow
  <2> QED BY <2>1 DEF removewindow
<1>2. PICK r \in putup(st, Shows(1), Rows) : st' = Without2(r)
  BY <1>1
<1>3. /\ Good(st) /\ 1 \in Win /\ 2 \in Win /\ Shows(1) \in Wksp /\ Shows(1)[1] = 1 /\ Made(1)
      /\ st.wk[Shows(1)].open /\ shown \in [Win -> 1 .. 2]
  BY InFile DEF CInv, Win, Made
<1>4. Good(r) /\ Seen(r) = Seen(st) /\ r.wk = st.wk /\ r.las = Shows(1)
  BY <1>2, <1>3, PutsUp
<1> DEFINE k == [w \in Wksp |-> IF w[1] = 2 THEN noFile ELSE r.wk[w]]
<1>5. r \in State /\ r.wk \in [Wksp -> [file : File \cup {NoFile}, open : BOOLEAN]]
  BY <1>4, Fields DEF Good
<1>6. k \in [Wksp -> [file : File \cup {NoFile}, open : BOOLEAN]]
  BY <1>5 DEF noFile
<1>7. /\ \A w \in Wksp : k[w].open => k[w].file \in File
      /\ k[Shows(1)] = r.wk[Shows(1)]
  BY <1>3, <1>4 DEF noFile, Good
<1>8. st' = [r EXCEPT !.wk = k]
  BY <1>2, <1>5 DEF Without2, State
<1> HIDE DEF k
<1>9. Good(st') /\ Seen(st') = Seen(r) /\ st'.wk = k /\ st'.las = r.las
  BY <1>4, <1>6, <1>7, <1>8, WkspChange
<1>10. shown' \in [Win -> 1 .. 2] /\ << 1, shown'[1] >> = Shows(1) /\ win' \in Win
  BY <1>1, <1>3 DEF Shows
<1>11. Made(1)' /\ Made(win)' /\ Shown(st)'
  <2>1. Made(1)'
    BY <1>3, <1>4, <1>7, <1>9, <1>10 DEF Made, Shows
  <2>2. Shown(st)'
    BY <1>3, <1>4, <1>9, <1>10 DEF Shown, Shows
  <2> QED BY <1>1, <2>1, <2>2
<1>12. CInv'
  BY <1>1, <1>9, <1>10, <1>11, SMTT(45) DEF CInv, Good, Hand, State
<1>13. seen' = seen
  BY <1>4, <1>9 DEF seen, Seen, Pending, TextWith, At
<1> QED BY <1>12, <1>13, Moves

-----------------------------------------------------------------------------
(* The initial state, and the theorems. *)

(* There is no line in hand, and no difference. *)
LEMMA Starts ==
  ASSUME Init
  PROVE  CInv /\ Abstract!Init
<1> DEFINE k(f) == [w \in Wksp |-> IF w = << 1, 1 >> THEN On(f) ELSE noFile]
<1>1. PICK f \in File :
        st = [text |-> Text0, wk |-> k(f), las |-> none, no |-> 0, line |-> blank,
              f |-> NO, x |-> FALSE, fatal |-> FALSE]
  BY DEF Init
<1>2. shown = [i \in Win |-> 1] /\ win = 1 /\ edits = 0
  BY DEF Init
<1>3. Text0 \in [File -> Texts]
  BY CLineAssumption DEF Texts, Line, The!Line
<1>4. << 1, 1 >> \in Wksp /\ 1 \in Win
  BY DEF Wksp, Win
<1>5. /\ k(f) \in [Wksp -> [file : File \cup {NoFile}, open : BOOLEAN]]
      /\ \A w \in Wksp : k(f)[w].open => k(f)[w].file \in File
      /\ k(f)[<< 1, 1 >>] = On(f)
  BY <1>4 DEF On, noFile
<1> HIDE DEF k
<1>6. /\ st.text = Text0 /\ st.wk = k(f) /\ st.las = none /\ st.f = NO /\ st.fatal = FALSE
  BY <1>1
<1>7. st \in State
  BY <1>1, <1>3, <1>5, LineNumbers DEF State
<1>8. Good(st)
  BY <1>5, <1>6, <1>7 DEF Good, Hand
<1>9. CInv
  BY <1>2, <1>4, <1>5, <1>6, <1>8, CLineAssumption DEF CInv, Shown, Made, Shows, On
<1>10. seen = Text0
  BY <1>6 DEF seen, Pending
<1>11. curfile \in File
  BY <1>9, InFile
<1> QED BY <1>9, <1>10, <1>11 DEF Abstract!Init

(* Every step keeps the invariant, and is a step of Text, or none.          *)
LEMMA Steps ==
  ASSUME Careful, CInv, [Next]_vars
  PROVE  CInv' /\ Step
<1>1. CASE Next
  BY <1>1, printcharStep, chgcaseStep, openStep, closeStep, insertStep, edrectStep, splitlinesStep,
     joinlinesStep, lookStep, savefileStep, credisplayStep, chgwindowStep, switchfileStep,
     editfileStep, makewindowStep, removewindowStep DEF Next
<1>2. CASE UNCHANGED vars
  <2>1. CInv'
    BY <1>2 DEF vars, CInv, Good, Hand, State, Shown, Shows, Made
  <2>2. UNCHANGED << seen, curfile >>
    BY <1>2 DEF vars, seen, Pending, TextWith, At, curfile, Cur
  <2> QED BY <2>1, <2>2 DEF Step
<1> QED BY <1>1, <1>2

(* The invariant of the deferred writing back, for every number of edits.   *)
THEOREM Invariance ==
  ASSUME Careful
  PROVE  Spec => []CInv
<1>1. Init => CInv
  BY Starts
<1>2. CInv /\ [Next]_vars => CInv'
  BY Steps
<1> QED BY <1>1, <1>2, PTL DEF Spec

(* The line in hand has its number, its workspace and its text.             *)
THEOREM TypeCorrect ==
  ASSUME Careful
  PROVE  Spec => []TypeOK
<1>1. CInv => TypeOK
  BY TextsAre DEF CInv, Good, State, TypeOK
<1> QED BY <1>1, Invariance, PTL

(* What GetLine says it has is the line of the file, and what putline will   *)
(* replace is a line of the file still (e.la.c), whatever the user has     *)
(* done in between, in this window or in another.                          *)
THEOREM LineIsCurrent ==
  ASSUME Careful
  PROVE  Spec => []CacheCurrent
<1>1. CInv => CacheCurrent
  BY DEF CInv, Good, Hand, CacheCurrent
<1> QED BY <1>1, Invariance, PTL

(* No window is freed, and no workspace released, whose stream the line in   *)
(* hand is to be written through (e.wi.c, e.u.c).                          *)
THEOREM StreamIsOpen ==
  ASSUME Careful
  PROVE  Spec => []CacheStreamOpen
<1>1. CInv => CacheStreamOpen
  BY DEF CInv, Good, Hand, CacheStreamOpen
<1> QED BY <1>1, Invariance, PTL

(* putline never ends the editor because the file is shorter than the line   *)
(* it has just put.                                                        *)
THEOREM NeverFatal ==
  ASSUME Careful
  PROVE  Spec => []NoFatal
<1>1. CInv => NoFatal
  BY DEF CInv, Good, Hand, NoFatal
<1> QED BY <1>1, Invariance, PTL

(* What the user sees changes as Text says: each edit changes the lines it   *)
(* names, in the file the user is in, and moving about changes nothing, so *)
(* that the line cache loses no line and puts none twice or elsewhere.     *)
THEOREM Implements ==
  ASSUME Careful
  PROVE  Spec => ImplementsText
<1>1. Init => Abstract!Init
  BY Starts
<1>2. CInv /\ [Next]_vars => [Abstract!Next]_<< seen, curfile >>
  BY Steps DEF Step
<1> QED BY <1>1, <1>2, Invariance, PTL DEF Spec, ImplementsText, Abstract!Spec
=============================================================================

----------------------------- MODULE QBufProofs -----------------------------
(* Proofs about QBuf: for any files, texts, counts, programs and number of  *)
(* commands, whatever fails and wherever, every stream of the editor is at *)
(* a line of its file, those by which text goes to #o and #p are at their  *)
(* ends, and a stream is told to stay only while lines are coming to it;   *)
(* a buffer holds what the last command that took for it was asked for;    *)
(* and QBuf implements Buffers.                                            *)
EXTENDS QBuf, SequenceTheorems, TLAPS

(* A stream's file; the states of QBuf.                                    *)
Own(s)  == IF s[1] = "buflas" THEN qtmpfn(s[2]) ELSE s[2]
Las     == [la_file : File, la_lpos : Nat, la_rlines : Nat, la_stay : BOOLEAN]
Texts   == [File -> Seq(Line)]
States  == [text : Texts, las : [Stream -> Las], ncols : [Buf -> {0, 1}]]

(* The streams at which lines are appended to #o and #p.                   *)
AtTail(s) == s[1] = "fnlas" /\ s[2] # UserFile
BufStreams == {buflas(b) : b \in Buf}
(* Every stream is in its file, and those are at its end.                  *)
InFile(x) == \A s \in Stream : /\ x.las[s].la_file = Own(s)
                               /\ x.las[s].la_lpos <= Len(x.text[Own(s)])
                               /\ AtTail(s) => x.las[s].la_lpos = Len(x.text[Own(s)])
(* So they are, and only streams in S, all of them of buffers, have been   *)
(* told to stay.                                                           *)
Fit(x, S) == /\ x \in States /\ InFile(x) /\ S \subseteq BufStreams
             /\ \A s \in Stream : x.las[s].la_stay => s \in S

LEMMA Owned == \A s \in Stream : Own(s) \in File
  BY DEF Own, Stream, File, Buf, fnlas, curlas, buflas, qtmpfn

(* An insertion leaves every stream in its file, and makes the file        *)
(* longer: appended lines push the stream at the end, for it has not been  *)
(* told to stay.                                                           *)
LEMMA InsIs ==
  ASSUME NEW S, NEW x, Fit(x, S), NEW s \in Stream, NEW new \in Seq(Line)
  PROVE  /\ Fit(Ins(x, s, new), S)
         /\ Ins(x, s, new).ncols = x.ncols
         /\ \A f \in File : Lsize(Ins(x, s, new), f) =
              Lsize(x, f) + (IF f = Own(s) THEN Len(new) ELSE 0)
<1> DEFINE f  == Own(s)
           at == x.las[s].la_lpos
           t  == x.text[f]
           u  == SubSeq(t, 1, at) \o new \o SubSeq(t, at + 1, Len(t))
<1>1. /\ f \in File /\ x.las[s].la_file = f /\ at \in Nat /\ at <= Len(t) /\ t \in Seq(Line)
      /\ x \in States /\ x.text \in Texts
  BY Owned DEF Fit, InFile, States, Las, Texts
<1>2. u \in Seq(Line) /\ Len(u) = Len(t) + Len(new)
  <2>1. SubSeq(t, 1, at) \in Seq(Line) /\ Len(SubSeq(t, 1, at)) = at
    BY <1>1, SubSeqProperties, LenProperties
  <2>2. SubSeq(t, at + 1, Len(t)) \in Seq(Line) /\ Len(SubSeq(t, at + 1, Len(t))) = Len(t) - at
    BY <1>1, SubSeqProperties, LenProperties, SMTT(45)
  <2>3. QED BY <2>1, <2>2, <1>1, ConcatProperties, LenProperties, SMTT(45)
<1>3. CASE new = << >>
  <2>1. Ins(x, s, new) = x
    BY <1>1, <1>3 DEF Ins, Done, LF!Ins, States
  <2>2. Len(new) = 0
    BY <1>3
  <2>3. \A g \in File : Lsize(x, g) \in Nat
    BY <1>1, LenProperties DEF Lsize, Texts
  <2>4. QED BY <2>1, <2>2, <2>3
<1>4. CASE new # << >>
  <2> DEFINE y == Ins(x, s, new)
             n == Len(new)
             After(z) == LF!AfterInsert(z, at, n)
  <2>1. /\ y = [x EXCEPT !.text = [x.text EXCEPT ![f] = u],
                         !.las = [q \in Stream |-> IF x.las[q].la_file = f THEN After(x.las[q]) ELSE x.las[q]]]
    BY <1>1, <1>4 DEF Ins, Done, LF!Ins, LF!OnFile
  <2> HIDE DEF u
  <2>2. /\ y.text = [x.text EXCEPT ![f] = u] /\ y.ncols = x.ncols
        /\ y.las = [q \in Stream |-> IF x.las[q].la_file = f THEN After(x.las[q]) ELSE x.las[q]]
    BY <1>1, <2>1 DEF States
  <2>3. n \in Nat
    BY LenProperties
  <2>4. ASSUME NEW z \in Las PROVE
          /\ After(z) \in Las /\ After(z).la_file = z.la_file /\ After(z).la_stay = z.la_stay
          /\ After(z).la_lpos \in {z.la_lpos, z.la_lpos + n}
          /\ z.la_lpos >= at /\ ~ z.la_stay => After(z).la_lpos = z.la_lpos + n
    BY <2>3, <1>1, SMTT(45) DEF LF!AfterInsert, Las
  <2>5. x.las \in [Stream -> Las]
    BY <1>1 DEF States
  <2>6. y.las \in [Stream -> Las] /\ y.text \in Texts
    BY <2>2, <2>4, <2>5, <1>2, <1>1 DEF Texts
  <2>7. y \in States
    BY <2>1, <2>6, <1>1, <2>2 DEF States
  <2>8. \A g \in File : Len(y.text[g]) = Len(x.text[g]) + (IF g = f THEN n ELSE 0) /\ Len(x.text[g]) \in Nat
    <3>1. ASSUME NEW g \in File
          PROVE  Len(y.text[g]) = Len(x.text[g]) + (IF g = f THEN n ELSE 0) /\ Len(x.text[g]) \in Nat
      <4>1. x.text[g] \in Seq(Line) /\ Len(x.text[g]) \in Nat
        BY <1>1, LenProperties DEF Texts
      <4> HIDE DEF y, n
      <4>2. CASE g = f
        BY <4>1, <4>2, <2>2, <1>2, <1>1 DEF Texts, n
      <4>3. CASE g # f
        BY <4>1, <4>3, <2>2, <1>1 DEF Texts
      <4>4. QED BY <4>2, <4>3
    <3>2. QED BY <3>1
  <2>9. ASSUME NEW q \in Stream
        PROVE  y.las[q].la_file = Own(q) /\ y.las[q].la_lpos <= Len(y.text[Own(q)])
               /\ (y.las[q].la_stay => q \in S)
               /\ (AtTail(q) => y.las[q].la_lpos = Len(y.text[Own(q)]))
    <3>1. x.las[q] \in Las /\ x.las[q].la_file = Own(q) /\ x.las[q].la_lpos <= Len(x.text[Own(q)])
          /\ (x.las[q].la_stay => q \in S) /\ Own(q) \in File
          /\ (AtTail(q) => x.las[q].la_lpos = Len(x.text[Own(q)]))
      BY <2>5, Owned DEF Fit, InFile
    <3>0. AtTail(q) => ~ x.las[q].la_stay
      BY <3>1 DEF Fit, BufStreams, buflas, AtTail
    <3>2. CASE Own(q) = f
      <4>1. y.las[q] = After(x.las[q])
        BY <3>1, <3>2, <2>2
      <4> HIDE DEF After, y
      <4>2. x.las[q].la_lpos \in Nat
        BY <3>1 DEF Las
      <4>3. /\ y.las[q].la_file = Own(q) /\ (y.las[q].la_stay => q \in S)
            /\ y.las[q].la_lpos \in {x.las[q].la_lpos, x.las[q].la_lpos + n}
        BY <3>1, <4>1, <2>4
      <4>4. /\ Len(y.text[Own(q)]) = Len(x.text[Own(q)]) + n
            /\ Len(x.text[Own(q)]) \in Nat
        BY <2>8, <3>1, <3>2
      <4>5. AtTail(q) => y.las[q].la_lpos = x.las[q].la_lpos + n
        BY <3>0, <3>1, <3>2, <4>1, <2>4, <1>1
      <4> HIDE DEF n
      <4>6. y.las[q].la_lpos <= Len(y.text[Own(q)])
        <5>1. PICK p, L : p = x.las[q].la_lpos /\ L = Len(x.text[Own(q)]) OBVIOUS
        <5>2. p \in Nat /\ L \in Nat /\ p <= L /\ y.las[q].la_lpos \in {p, p + n}
          BY <5>1, <4>2, <4>3, <4>4, <3>1
        <5>3. Len(y.text[Own(q)]) = L + n
          BY <5>1, <4>4
        <5>4. QED BY <5>2, <5>3, <2>3
      <4>7. AtTail(q) => y.las[q].la_lpos = Len(y.text[Own(q)])
        BY <4>4, <4>5, <3>1
      <4>8. QED BY <4>3, <4>6, <4>7
    <3>3. CASE Own(q) # f
      BY <3>1, <3>3, <2>2, <2>8
    <3>4. QED BY <3>2, <3>3
  <2>10. QED BY <2>2, <2>7, <2>8, <2>9 DEF Fit, InFile, Lsize
<1>5. QED BY <1>3, <1>4

(* The lines a stream is at are lines of its file.                         *)
LEMMA LinesAtIs ==
  ASSUME NEW S, NEW x, Fit(x, S), NEW s \in Stream, NEW n \in Nat
  PROVE  /\ LF!LinesAt(x, s, n) \in Seq(Line)
         /\ Len(LF!LinesAt(x, s, n)) <= n
         /\ x.las[s].la_lpos + Len(LF!LinesAt(x, s, n)) <= Lsize(x, Own(s))
<1> DEFINE f  == Own(s)
           at == x.las[s].la_lpos
           t  == x.text[f]
           e  == IF at + n > Len(t) THEN Len(t) ELSE at + n
<1>1. /\ f \in File /\ x.las[s].la_file = f /\ at \in Nat /\ at <= Len(t) /\ t \in Seq(Line)
      /\ Len(t) \in Nat
  BY Owned, LenProperties DEF Fit, InFile, States, Las, Texts
<1>2. LF!LinesAt(x, s, n) = SubSeq(t, at + 1, e)
  BY <1>1 DEF LF!LinesAt
<1> HIDE DEF t, at
<1>3. e \in Nat /\ at <= e /\ e <= Len(t) /\ e <= at + n
  BY <1>1
<1> HIDE DEF e
<1>4. SubSeq(t, at + 1, e) \in Seq(Line) /\ Len(SubSeq(t, at + 1, e)) = e - at
  BY <1>1, <1>3, SubSeqProperties, LenProperties
<1>5. at + Len(LF!LinesAt(x, s, n)) <= Len(t) /\ Len(LF!LinesAt(x, s, n)) <= n
  BY <1>1, <1>2, <1>3, <1>4
<1>6. LF!LinesAt(x, s, n) \in Seq(Line)
  BY <1>2, <1>4
<1>7. QED BY <1>5, <1>6 DEF Lsize, t, at

(* So does a deletion, of as many lines as there are.                      *)
LEMMA DelIs ==
  ASSUME NEW S, NEW x, Fit(x, S), NEW s \in Stream, NEW n \in Nat
  PROVE  LET k == Len(LF!LinesAt(x, s, n))
             y == Done(x, LF!Del(x, s, n))
         IN  /\ Fit(y, S) /\ y.ncols = x.ncols
             /\ k \in 0 .. n
             /\ \A f \in File : Lsize(y, f) = Lsize(x, f) - (IF f = Own(s) THEN k ELSE 0)
<1> DEFINE f  == Own(s)
           at == x.las[s].la_lpos
           t  == x.text[f]
           k  == Len(LF!LinesAt(x, s, n))
           u  == SubSeq(t, 1, at) \o SubSeq(t, at + k + 1, Len(t))
           y  == Done(x, LF!Del(x, s, n))
<1>1. /\ f \in File /\ x.las[s].la_file = f /\ at \in Nat /\ at <= Len(t) /\ t \in Seq(Line)
      /\ x \in States /\ x.text \in Texts /\ Len(t) \in Nat
  BY Owned, LenProperties DEF Fit, InFile, States, Las, Texts
<1>2. k \in Nat /\ k <= n /\ at + k <= Len(t)
  BY <1>1, LinesAtIs, LenProperties DEF Lsize
<1>3. u \in Seq(Line) /\ Len(u) = Len(t) - k
  <2> HIDE DEF t, at, k
  <2>1. SubSeq(t, 1, at) \in Seq(Line) /\ Len(SubSeq(t, 1, at)) = at
    BY <1>1, SubSeqProperties, LenProperties
  <2>2. /\ SubSeq(t, at + k + 1, Len(t)) \in Seq(Line)
        /\ Len(SubSeq(t, at + k + 1, Len(t))) = Len(t) - at - k
    BY <1>1, <1>2, SubSeqProperties, LenProperties
  <2> DEFINE p == SubSeq(t, 1, at)
             r == SubSeq(t, at + k + 1, Len(t))
  <2> HIDE DEF p, r
  <2>3. p \o r \in Seq(Line) /\ Len(p \o r) = Len(p) + Len(r)
    BY <2>1, <2>2, ConcatProperties DEF p, r
  <2>4. Len(p) = at /\ Len(r) = Len(t) - at - k
    BY <2>1, <2>2 DEF p, r
  <2>5. Len(p \o r) = Len(t) - k
    BY <2>3, <2>4, <1>1, <1>2
  <2>6. QED BY <2>3, <2>5 DEF p, r
<1>4. \A g \in File : x.text[g] \in Seq(Line) /\ Len(x.text[g]) \in Nat
  BY <1>1, LenProperties DEF Texts
<1>5. CASE k = 0
  <2>1. y = x
    BY <1>1, <1>5 DEF Done, LF!Del, States
  <2> HIDE DEF y, k
  <2>2. \A g \in File : Lsize(x, g) - (IF g = f THEN k ELSE 0) = Lsize(x, g)
    BY <1>4, <1>5 DEF Lsize
  <2>3. QED BY <2>1, <2>2, <1>2 DEF y, k
<1>6. CASE k # 0
  <2> DEFINE After(z) == LF!AfterDelete(z, at, k)
  <2>1. y = [x EXCEPT !.text = [x.text EXCEPT ![f] = u],
                      !.las = [q \in Stream |-> IF x.las[q].la_file = f THEN After(x.las[q]) ELSE x.las[q]]]
    BY <1>1, <1>6 DEF Done, LF!Del, LF!OnFile
  <2> HIDE DEF u, k
  <2>2. /\ y.text = [x.text EXCEPT ![f] = u] /\ y.ncols = x.ncols
        /\ y.las = [q \in Stream |-> IF x.las[q].la_file = f THEN After(x.las[q]) ELSE x.las[q]]
    BY <1>1, <2>1 DEF States
  <2>4. ASSUME NEW z \in Las, z.la_lpos <= Len(t) PROVE
          /\ After(z) \in Las /\ After(z).la_file = z.la_file /\ After(z).la_stay = z.la_stay
          /\ After(z).la_lpos <= Len(t) - k
          /\ z.la_lpos = Len(t) => After(z).la_lpos = Len(t) - k
    <3> HIDE DEF t, at
    <3>1. CASE z.la_lpos >= at + k
      BY <1>2, <1>1, <2>4, <3>1 DEF LF!AfterDelete, Las
    <3>2. CASE z.la_lpos < at /\ z.la_lpos + z.la_rlines <= at
      <4>1. After(z) = z
        BY <1>2, <1>1, <3>2 DEF LF!AfterDelete, Las
      <4>2. z.la_lpos <= Len(t) - k /\ z.la_lpos # Len(t)
        BY <1>2, <1>1, <3>2 DEF Las
      <4>3. QED BY <4>1, <4>2
    <3>3. CASE ~ (z.la_lpos >= at + k) /\ ~ (z.la_lpos < at /\ z.la_lpos + z.la_rlines <= at)
      <4>1. After(z) = [z EXCEPT !.la_lpos = IF z.la_lpos > at THEN at ELSE z.la_lpos, !.la_rlines = 0]
        BY <3>3 DEF LF!AfterDelete
      <4> HIDE DEF After
      <4> DEFINE w == [z EXCEPT !.la_lpos = IF z.la_lpos > at THEN at ELSE z.la_lpos, !.la_rlines = 0]
      <4>2. w \in Las /\ w.la_file = z.la_file /\ w.la_stay = z.la_stay
        BY <1>1 DEF Las
      <4>3. w.la_lpos = IF z.la_lpos > at THEN at ELSE z.la_lpos
        BY DEF Las
      <4>4. z.la_lpos \in Nat
        BY DEF Las
      <4>5. z.la_lpos < at + k
        BY <3>3, <4>4, <1>1, <1>2
      <4>6. w.la_lpos <= Len(t) - k
        <5>1. CASE z.la_lpos > at
          BY <5>1, <4>3, <1>1, <1>2
        <5>2. CASE ~ (z.la_lpos > at)
          BY <5>2, <4>3, <4>4, <1>1, <1>2
        <5>3. QED BY <5>1, <5>2
      <4>7. z.la_lpos # Len(t)
        BY <4>5, <1>1, <1>2
      <4>8. QED BY <4>1, <4>2, <4>6, <4>7
    <3>4. QED BY <3>1, <3>2, <3>3
  <2>5. x.las \in [Stream -> Las] /\ \A q \in Stream : x.las[q].la_file = f => x.las[q].la_lpos <= Len(t)
    BY <1>1 DEF States, Fit, InFile
  <2>6. y.las \in [Stream -> Las] /\ y.text \in Texts
    <3>1. y.text \in Texts
      BY <2>2, <1>3, <1>1, SMTT(45) DEF Texts
    <3> HIDE DEF After
    <3>2. QED BY <3>1, <2>2, <2>4, <2>5
  <2>7. y \in States
    BY <2>1, <2>6, <1>1, <2>2 DEF States
  <2>8. ASSUME NEW g \in File PROVE Len(y.text[g]) = Len(x.text[g]) - (IF g = f THEN k ELSE 0)
    <3> HIDE DEF y
    <3>2. CASE g = f
      BY <1>4, <3>2, <2>2, <1>3, <1>1 DEF Texts
    <3>3. CASE g # f
      BY <1>4, <3>3, <2>2, <1>1 DEF Texts
    <3>4. QED BY <3>2, <3>3
  <2>9. ASSUME NEW q \in Stream
        PROVE  y.las[q].la_file = Own(q) /\ y.las[q].la_lpos <= Len(y.text[Own(q)])
               /\ (y.las[q].la_stay => q \in S)
               /\ (AtTail(q) => y.las[q].la_lpos = Len(y.text[Own(q)]))
    <3>1. x.las[q] \in Las /\ x.las[q].la_file = Own(q) /\ x.las[q].la_lpos <= Len(x.text[Own(q)])
          /\ (x.las[q].la_stay => q \in S) /\ Own(q) \in File
          /\ (AtTail(q) => x.las[q].la_lpos = Len(x.text[Own(q)]))
      BY <2>5, Owned DEF Fit, InFile
    <3>0. AtTail(q) => ~ x.las[q].la_stay
      BY <3>1 DEF Fit, BufStreams, buflas, AtTail
    <3>2. CASE Own(q) = f
      <4>1. y.las[q] = After(x.las[q]) /\ Len(y.text[Own(q)]) = Len(t) - k
        BY <3>1, <3>2, <2>2, <2>8
      <4> HIDE DEF After, y, k
      <4>3. QED BY <3>1, <3>2, <4>1, <2>4, <2>8
    <3>3. CASE Own(q) # f
      <4>1. y.las[q] = x.las[q] /\ y.text[Own(q)] = x.text[Own(q)]
        BY <3>1, <3>3, <2>2, <1>1 DEF Texts
      <4>2. QED BY <4>1, <3>1
    <3>4. QED BY <3>2, <3>3
  <2> HIDE DEF y
  <2>10. Fit(y, S) /\ y.ncols = x.ncols /\ k \in 0 .. n
    BY <2>2, <2>7, <2>9, <1>2 DEF Fit, InFile
  <2>11. \A g \in File : Lsize(y, g) = Lsize(x, g) - (IF g = f THEN k ELSE 0)
    BY <2>8 DEF Lsize
  <2>12. QED BY <2>10, <2>11 DEF y, k
<1>7. QED BY <1>5, <1>6

(* No file has become shorter.                                             *)
Kept(x, y) == \A f \in File : Lsize(y, f) >= Lsize(x, f)

LEMMA Sizes ==
  ASSUME NEW S, NEW x, Fit(x, S)
  PROVE  \A f \in File : Lsize(x, f) \in Nat /\ x.text[f] \in Seq(Line)
  BY LenProperties DEF Fit, States, Texts, Lsize

(* Lines that are moved leave one file, and come to another or to none.    *)
LEMMA MoveIs ==
  ASSUME NEW S, NEW x, Fit(x, S), NEW s \in Stream, NEW n \in Nat, NEW d \in Stream \cup {None}
  PROVE  LET y == Move(x, s, n, d)
         IN  /\ Fit(y, S) /\ y.ncols = x.ncols
             /\ \A f \in File : Lsize(y, f) >= Lsize(x, f) - (IF f = Own(s) THEN n ELSE 0)
<1> DEFINE ls == LF!LinesAt(x, s, n)
           k  == Len(ls)
           e  == LF!Del(x, s, n)
           z  == Done(x, e)
           y  == Move(x, s, n, d)
<1>1. /\ Fit(z, S) /\ z.ncols = x.ncols /\ k \in 0 .. n
      /\ \A f \in File : Lsize(z, f) = Lsize(x, f) - (IF f = Own(s) THEN k ELSE 0)
  BY DelIs
<1>2. ls \in Seq(Line)
  BY LinesAtIs
<1>3. \A f \in File : Lsize(x, f) \in Nat /\ Lsize(z, f) \in Nat
  BY <1>1, Sizes
<1>4. \A f \in File : Lsize(z, f) >= Lsize(x, f) - (IF f = Own(s) THEN n ELSE 0)
  <2> HIDE DEF z, k
  <2>1. QED BY <1>1, <1>3
<1>5. CASE d = None
  <2>1. y = z
    BY <1>5 DEF Move, LF!Move
  <2> HIDE DEF y, z
  <2>2. QED BY <2>1, <1>1, <1>4 DEF y
<1>6. CASE d # None
  <2>1. y = Done(x, LF!Ins(e, d, ls))
    BY <1>6 DEF Move, LF!Move
  <2>2. z.text = e.text /\ z.las = e.las /\ x \in States
    BY DEF Fit, Done, States
  <2>3. z = [x EXCEPT !.text = e.text, !.las = e.las]
    BY SMTT(45) DEF Done
  <2> HIDE DEF e, z, ls
  <2>4. LF!Ins(e, d, ls).text = LF!Ins(z, d, ls).text /\ LF!Ins(e, d, ls).las = LF!Ins(z, d, ls).las
    BY <2>2 DEF LF!Ins, LF!OnFile
  <2>5. y = Ins(z, d, ls)
    BY <2>1, <2>2, <2>3, <2>4 DEF Ins, Done, States
  <2>6. /\ Fit(y, S) /\ y.ncols = z.ncols
        /\ \A f \in File : Lsize(y, f) = Lsize(z, f) + (IF f = Own(d) THEN Len(ls) ELSE 0)
    BY <1>1, <1>2, <1>6, <2>5, InsIs
  <2>7. Len(ls) \in Nat
    BY <1>2, LenProperties
  <2> HIDE DEF y
  <2>8. \A f \in File : Lsize(y, f) >= Lsize(z, f)
    BY <2>6, <2>7, <1>3
  <2>9. \A f \in File : Lsize(y, f) >= Lsize(x, f) - (IF f = Own(s) THEN n ELSE 0)
    <3>1. \A f \in File : Lsize(y, f) \in Nat
      BY <2>6, Sizes
    <3>2. QED BY <3>1, <2>8, <1>4, <1>3
  <2>10. QED BY <2>6, <2>9, <1>1 DEF y
<1>7. QED BY <1>5, <1>6

(* One stream is set; the streams of files are not, save by edits.         *)
LEMMA SetIs ==
  ASSUME NEW S, NEW T, NEW x, Fit(x, S), NEW q \in Stream, NEW r \in Las,
         r.la_file = Own(q), r.la_lpos <= Lsize(x, Own(q)), r.la_stay => q \in T,
         q[1] # "fnlas", T \subseteq BufStreams,
         \A s \in Stream \ {q} : s \in S => s \in T
  PROVE  LET y == [x EXCEPT !.las[q] = r]
         IN  Fit(y, T) /\ y.text = x.text /\ y.ncols = x.ncols
<1> DEFINE y == [x EXCEPT !.las[q] = r]
<1>1. x \in States /\ x.las \in [Stream -> Las]
  BY DEF Fit, States
<1>2. y.las = [x.las EXCEPT ![q] = r] /\ y.text = x.text /\ y.ncols = x.ncols /\ y \in States
  BY <1>1 DEF States
<1>3. \A s \in Stream : y.las[s] = IF s = q THEN r ELSE x.las[s]
  BY <1>1, <1>2
<1> HIDE DEF y
<1>4. ASSUME NEW s \in Stream
      PROVE  y.las[s].la_file = Own(s) /\ y.las[s].la_lpos <= Len(y.text[Own(s)])
             /\ (y.las[s].la_stay => s \in T)
             /\ (AtTail(s) => y.las[s].la_lpos = Len(y.text[Own(s)]))
  <2>1. CASE s = q
    BY <1>2, <1>3, <2>1 DEF Lsize, AtTail
  <2>2. CASE s # q
    BY <1>2, <1>3, <2>2 DEF Fit, InFile
  <2>3. QED BY <2>1, <2>2
<1>5. Fit(y, T)
  BY <1>2, <1>4 DEF Fit, InFile
<1>6. QED BY <1>2, <1>5 DEF y

(* What the streams are called, and what is known of each.                 *)
LEMMA StreamNames ==
  /\ \A f \in File : curlas(f)[1] = "curlas" /\ fnlas(f)[1] = "fnlas"
  /\ \A b \in Buf : buflas(b)[1] = "buflas" /\ buflas(b) \in BufStreams
  BY DEF curlas, fnlas, buflas, BufStreams

LEMMA Placed ==
  ASSUME NEW S, NEW x, Fit(x, S), NEW q \in Stream
  PROVE  /\ x \in States /\ x.las \in [Stream -> Las] /\ x.las[q] \in Las
         /\ x.las[q].la_lpos \in Nat /\ x.las[q].la_rlines \in Nat
         /\ x.las[q].la_file = Own(q) /\ x.las[q].la_lpos <= Lsize(x, Own(q))
         /\ (x.las[q].la_stay => q \in S) /\ S \subseteq BufStreams
<1>1. x \in States /\ x.las \in [Stream -> Las] /\ x.las[q] \in Las
  BY DEF Fit, States
<1>2. QED BY <1>1 DEF Fit, InFile, Las, Lsize

(* Seeking, reserving, staying, aligning, and setting a buffer's width: no *)
(* text changes.                                                           *)
LEMMA SeekIs ==
  ASSUME NEW S, NEW x, Fit(x, S), NEW f \in File, NEW at \in Nat, at <= Lsize(x, f)
  PROVE  LET y == Seek(x, f, at)
         IN  /\ Fit(y, S) /\ y.text = x.text /\ y.ncols = x.ncols
<1> DEFINE q == curlas(f)
           r == [x.las[q] EXCEPT !.la_lpos = at]
           y == [x EXCEPT !.las[q] = r]
<1>1. q \in Stream /\ Own(q) = f /\ q[1] # "fnlas"
  BY StreamNames DEF Stream, Own, curlas
<1>2. x.las[q] \in Las /\ x.las[q].la_file = f /\ (x.las[q].la_stay => q \in S) /\ S \subseteq BufStreams
  BY <1>1, Placed
<1>3. r \in Las /\ r.la_file = f /\ r.la_lpos = at /\ r.la_stay = x.las[q].la_stay
  BY <1>2 DEF Las
<1>4. Seek(x, f, at) = y
  BY DEF Seek
<1> HIDE DEF r, q
<1>5. Fit(y, S) /\ y.text = x.text /\ y.ncols = x.ncols
  BY <1>1, <1>2, <1>3, SetIs
<1>6. QED BY <1>4, <1>5 DEF r, q

LEMMA RlinesIs ==
  ASSUME NEW S, NEW x, Fit(x, S), NEW b \in Buf, NEW n \in Nat
  PROVE  LET y == Rlines(x, b, n)
         IN  /\ Fit(y, S) /\ y.text = x.text /\ y.ncols = x.ncols
<1> DEFINE q == buflas(b)
           r == [x.las[q] EXCEPT !.la_rlines = n]
           y == [x EXCEPT !.las[q] = r]
<1>1. q \in Stream /\ q[1] # "fnlas"
  BY StreamNames DEF Stream
<1>2. /\ x.las[q] \in Las /\ x.las[q].la_file = Own(q) /\ x.las[q].la_lpos <= Lsize(x, Own(q))
      /\ (x.las[q].la_stay => q \in S) /\ S \subseteq BufStreams
  BY <1>1, Placed
<1>3. /\ r \in Las /\ r.la_file = Own(q) /\ r.la_lpos = x.las[q].la_lpos
      /\ r.la_stay = x.las[q].la_stay
  BY <1>2 DEF Las
<1>4. Rlines(x, b, n) = y
  BY DEF Rlines
<1> HIDE DEF r, q
<1>5. (r.la_stay => q \in S) /\ r.la_lpos <= Lsize(x, Own(q))
  BY <1>2, <1>3
<1>6. Fit(y, S) /\ y.text = x.text /\ y.ncols = x.ncols
  BY <1>1, <1>2, <1>3, <1>5, SetIs
<1>7. QED BY <1>4, <1>6 DEF r, q

LEMMA StayIs ==
  ASSUME NEW S, NEW x, NEW b \in Buf, NEW on \in BOOLEAN, Fit(x, S \cup {buflas(b)})
  PROVE  LET y == Stay(x, b, on)
         IN  /\ Fit(y, IF on THEN S \cup {buflas(b)} ELSE S)
             /\ y.text = x.text /\ y.ncols = x.ncols
<1> DEFINE q == buflas(b)
           r == [x.las[q] EXCEPT !.la_stay = on]
           T == IF on THEN S \cup {q} ELSE S
           y == [x EXCEPT !.las[q] = r]
<1>1. q \in Stream /\ q[1] # "fnlas"
  BY StreamNames DEF Stream
<1>2. /\ x.las[q] \in Las /\ x.las[q].la_file = Own(q) /\ x.las[q].la_lpos <= Lsize(x, Own(q))
      /\ S \cup {q} \subseteq BufStreams
  BY <1>1, Placed
<1>3. /\ r \in Las /\ r.la_file = Own(q) /\ r.la_lpos = x.las[q].la_lpos
      /\ r.la_stay = on
  BY <1>2 DEF Las
<1>4. Stay(x, b, on) = y
  BY DEF Stay
<1>5. Fit(x, S \cup {q})
  OBVIOUS
<1> HIDE DEF r, q
<1>6. /\ (r.la_stay => q \in T) /\ \A s \in Stream \ {q} : s \in S \cup {q} => s \in T
      /\ T \subseteq BufStreams
  BY <1>2, <1>3
<1> HIDE DEF T
<1>7. Fit(y, T) /\ y.text = x.text /\ y.ncols = x.ncols
  BY <1>1, <1>2, <1>3, <1>5, <1>6, SetIs, SMTT(45)
<1>8. QED BY <1>4, <1>7 DEF r, q, T

LEMMA AlignIs ==
  ASSUME NEW S, NEW x, Fit(x, S), NEW b \in Buf, NEW s \in Stream
  PROVE  LET y == Align(x, s, b)
         IN  /\ Fit(y, S) /\ y.text = x.text /\ y.ncols = x.ncols
<1> DEFINE q == buflas(b)
           r == [x.las[q] EXCEPT !.la_lpos = x.las[s].la_lpos]
           y == [x EXCEPT !.las[q] = r]
<1>1. q \in Stream /\ Own(q) = qtmpfn(b) /\ q[1] # "fnlas"
  BY StreamNames DEF Stream, Own, buflas
<1>2. /\ x.las[q] \in Las /\ x.las[q].la_file = Own(q) /\ (x.las[q].la_stay => q \in S)
      /\ S \subseteq BufStreams
  BY <1>1, Placed
<1>3. x.las[s].la_file = Own(s) /\ x.las[s].la_lpos <= Lsize(x, Own(s)) /\ x.las[s].la_lpos \in Nat
  BY Placed
<1>4. /\ r \in Las /\ r.la_file = Own(q) /\ r.la_lpos = x.las[s].la_lpos
      /\ r.la_stay = x.las[q].la_stay
  BY <1>2, <1>3 DEF Las
<1>5. CASE Own(s) # qtmpfn(b)
  <2>1. Align(x, s, b) = x
    BY <1>3, <1>5 DEF Align
  <2>2. QED BY <2>1, <1>5
<1>6. CASE Own(s) = qtmpfn(b)
  <2>1. Align(x, s, b) = y
    BY <1>3, <1>6 DEF Align
  <2> HIDE DEF r, q
  <2>2. (r.la_stay => q \in S) /\ r.la_lpos <= Lsize(x, Own(q))
    BY <1>1, <1>2, <1>3, <1>4, <1>6
  <2>3. Fit(y, S) /\ y.text = x.text /\ y.ncols = x.ncols
    BY <1>1, <1>2, <1>4, <2>2, SetIs
  <2>4. QED BY <2>1, <2>3 DEF r, q
<1>7. QED BY <1>5, <1>6

LEMMA NcolsIs ==
  ASSUME NEW S, NEW x, Fit(x, S), NEW b \in Buf, NEW v \in {0, 1}
  PROVE  LET y == [x EXCEPT !.ncols[b] = v]
         IN  Fit(y, S) /\ y.text = x.text
<1> DEFINE y == [x EXCEPT !.ncols[b] = v]
<1>1. x \in States
  BY DEF Fit
<1>2. /\ y \in States /\ y.text = x.text /\ y.las = x.las
      /\ y.ncols = [x.ncols EXCEPT ![b] = v] /\ y.ncols[b] = v
  BY <1>1 DEF States
<1> HIDE DEF y
<1>3. Fit(y, S)
  BY <1>2 DEF Fit, InFile
<1>4. QED BY <1>2, <1>3 DEF y

(* More streams may stay.                                                  *)
LEMMA Wider ==
  ASSUME NEW S, NEW x, Fit(x, S), NEW b \in Buf
  PROVE  Fit(x, S \cup {buflas(b)})
  BY StreamNames DEF Fit

LEMMA Streams ==
  /\ \A f \in File : /\ curlas(f) \in Stream /\ Own(curlas(f)) = f
                     /\ fnlas(f) \in Stream /\ Own(fnlas(f)) = f
  /\ \A b \in Buf : /\ buflas(b) \in Stream /\ Own(buflas(b)) = qtmpfn(b)
                    /\ qtmpfn(b) \in File
  /\ OLDLFILE \in File /\ PICKFILE \in File
  BY DEF Stream, Own, curlas, fnlas, buflas, qtmpfn, File

-----------------------------------------------------------------------------
(* Lines of the model's data.                                              *)
LEMMA BlanksAre ==
  ASSUME NEW k \in Nat
  PROVE  The!Blanks(k) \in Seq(Line) /\ Len(The!Blanks(k)) = k
<1>1. The!Blank \in Line
  BY QBufAssumption DEF The!Blank, Line
<1>2. QED BY <1>1 DEF The!Blanks

LEMMA AreaIs ==
  ASSUME NEW S, NEW x, Fit(x, S), NEW f \in File, NEW at \in Nat, NEW n \in Nat
  PROVE  Area(x, f, at, n) \in Seq(Line) /\ Len(Area(x, f, at, n)) = n
<1> DEFINE t == x.text[f]
           u == The!Extended(t, at + n)
<1>1. t \in Seq(Line) /\ Len(t) \in Nat
  BY Sizes, LenProperties
<1> HIDE DEF t
<1>2. u \in Seq(Line) /\ Len(u) \in Nat /\ Len(u) >= at + n
  <2>1. CASE at + n <= Len(t)
    BY <1>1, <2>1 DEF The!Extended
  <2>2. CASE ~ (at + n <= Len(t))
    <3> DEFINE g == at + n - Len(t)
    <3>1. g \in Nat /\ u = t \o The!Blanks(g)
      BY <1>1, <2>2 DEF The!Extended
    <3>2. The!Blanks(g) \in Seq(Line) /\ Len(The!Blanks(g)) = g
      BY <3>1, BlanksAre
    <3>3. u \in Seq(Line) /\ Len(u) = Len(t) + g
      <4> HIDE DEF g, u
      <4>1. QED BY <3>1, <3>2, <1>1, ConcatProperties
    <3> HIDE DEF u
    <3>4. QED BY <3>3, <1>1
  <2>3. QED BY <2>1, <2>2
<1>3. Area(x, f, at, n) = SubSeq(u, at + 1, at + n)
  BY DEF Area, The!Area, t
<1> HIDE DEF u
<1>4. SubSeq(u, at + 1, at + n) \in Seq(Line) /\ Len(SubSeq(u, at + 1, at + n)) = n
  BY <1>2, SubSeqProperties, LenProperties
<1>5. QED BY <1>3, <1>4

LEMMA PiecesAre ==
  ASSUME NEW ls \in Seq(Line)
  PROVE  /\ The!Pieces(ls) \in Seq(Line) /\ Len(The!Pieces(ls)) = Len(ls)
         /\ The!Without(ls) \in Seq(Line) /\ Len(The!Without(ls)) = Len(ls)
<1>1. \A i \in DOMAIN ls : ls[i] \in Line
  BY ElementOfSeq, LenProperties
<1>2. \A l \in Line : The!Piece(l) \in Line /\ The!With(l, empty) \in Line
  BY QBufAssumption DEF Line, The!Piece, The!With
<1>3. DOMAIN ls = 1 .. Len(ls) /\ Len(ls) \in Nat
  BY LenProperties
<1>4. QED BY <1>1, <1>2, <1>3 DEF The!Pieces, The!Without

-----------------------------------------------------------------------------
(* extend makes the file long enough.                                      *)
LEMMA extendIs ==
  ASSUME NEW S, NEW x, Fit(x, S), NEW f \in File, NEW at \in Nat
  PROVE  LET y == extend(x, f, at)
         IN  Fit(y, S) /\ Kept(x, y) /\ Lsize(y, f) >= at
<1> DEFINE n == Lsize(x, f)
<1>1. \A g \in File : Lsize(x, g) \in Nat
  BY Sizes
<1>2. n \in Nat
  BY <1>1
<1>3. CASE at - n <= 0
  <2>1. extend(x, f, at) = x
    BY <1>3 DEF extend
  <2>2. QED BY <2>1, <1>1, <1>2, <1>3 DEF Kept
<1>4. CASE ~ (at - n <= 0)
  <2> DEFINE g == at - n
             z == Seek(x, f, n)
             w == The!Blanks(g)
             y == Ins(z, curlas(f), w)
  <2>1. extend(x, f, at) = y /\ g \in Nat
    BY <1>2, <1>4 DEF extend
  <2>2. w \in Seq(Line) /\ Len(w) = g
    BY <2>1, BlanksAre
  <2>3. Fit(z, S) /\ z.text = x.text
    BY <1>2, SeekIs
  <2> DEFINE q == curlas(f)
  <2>q. q \in Stream /\ Own(q) = f
    BY Streams
  <2> HIDE DEF z, w, q
  <2>p. /\ Fit(Ins(z, q, w), S)
        /\ \A h \in File : Lsize(Ins(z, q, w), h) = Lsize(z, h) + (IF h = f THEN Len(w) ELSE 0)
    BY <2>2, <2>3, <2>q, InsIs
  <2>4. /\ Fit(y, S)
        /\ \A h \in File : Lsize(y, h) = Lsize(z, h) + (IF h = f THEN Len(w) ELSE 0)
    BY <2>p DEF q
  <2>5. \A h \in File : Lsize(z, h) = Lsize(x, h)
    BY <2>3 DEF Lsize
  <2> HIDE DEF y, g
  <2>6. \A h \in File : Lsize(y, h) = Lsize(x, h) + (IF h = f THEN g ELSE 0)
    BY <2>2, <2>4, <2>5
  <2>7. Kept(x, y)
    BY <2>6, <2>1, <1>1 DEF Kept
  <2>8. Lsize(y, f) >= at
    BY <2>6, <1>2 DEF g
  <2>9. QED BY <2>1, <2>4, <2>7, <2>8
<1>5. QED BY <1>3, <1>4

(* Files that are no shorter stay so.                                      *)
LEMMA KeptIs ==
  ASSUME NEW S, NEW x, Fit(x, S)
  PROVE  /\ \A y : y.text = x.text => Kept(x, y)
         /\ \A T, y, z : Fit(y, T) /\ Fit(z, T) /\ Kept(x, y) /\ Kept(y, z) => Kept(x, z)
<1>1. \A g \in File : Lsize(x, g) \in Nat
  BY Sizes
<1>2. ASSUME NEW y, y.text = x.text PROVE Kept(x, y)
  BY <1>1, <1>2 DEF Kept, Lsize
<1>3. ASSUME NEW T, NEW y, NEW z, Fit(y, T), Fit(z, T), Kept(x, y), Kept(y, z) PROVE Kept(x, z)
  <2>1. \A g \in File : Lsize(y, g) \in Nat /\ Lsize(z, g) \in Nat
    BY <1>3, Sizes
  <2>2. QED BY <1>1, <1>3, <2>1 DEF Kept
<1>4. QED BY <1>2, <1>3

LEMMA InsKeeps ==
  ASSUME NEW S, NEW x, Fit(x, S), NEW s \in Stream, NEW new \in Seq(Line)
  PROVE  Fit(Ins(x, s, new), S) /\ Kept(x, Ins(x, s, new))
<1> DEFINE y == Ins(x, s, new)
<1>1. /\ Fit(y, S)
      /\ \A f \in File : Lsize(y, f) = Lsize(x, f) + (IF f = Own(s) THEN Len(new) ELSE 0)
  BY InsIs
<1>2. Len(new) \in Nat /\ \A g \in File : Lsize(x, g) \in Nat
  BY Sizes, LenProperties
<1> HIDE DEF y
<1>3. Kept(x, y)
  BY <1>1, <1>2 DEF Kept
<1>4. QED BY <1>1, <1>3 DEF y

LEMMA CopyKeeps ==
  ASSUME NEW S, NEW x, Fit(x, S), NEW s \in Stream, NEW d \in Stream, NEW n \in Nat
  PROVE  Fit(Copy(x, s, d, n), S) /\ Kept(x, Copy(x, s, d, n))
  BY LinesAtIs, InsKeeps DEF Copy

(* The steps of edlines: a buffer's stream may stay from Begin to End.     *)
LEMMA BeginIs ==
  ASSUME NEW S, NEW x, Fit(x, S), NEW b \in Buf, NEW f \in File,
         NEW at \in Nat, at <= Lsize(x, f)
  PROVE  LET y == Begin(x, b, f, at)
         IN  Fit(y, S \cup {buflas(b)}) /\ y.text = x.text
<1> DEFINE T == S \cup {buflas(b)}
           u == [x EXCEPT !.ncols[b] = 0]
           v == Stay(u, b, TRUE)
           y == Seek(v, f, at)
<1>1. Fit(u, S) /\ u.text = x.text
  BY NcolsIs
<1>2. Fit(u, T)
  BY <1>1, Wider
<1> HIDE DEF u
<1>3. Fit(v, T) /\ v.text = u.text
  BY <1>2, StayIs, ZenonT(45)
<1> HIDE DEF v, T
<1>4. Lsize(v, f) = Lsize(x, f)
  BY <1>1, <1>3 DEF Lsize
<1>5. Fit(y, T) /\ y.text = v.text
  BY <1>3, <1>4, SeekIs
<1>6. QED BY <1>1, <1>3, <1>5 DEF Begin, u, v, T

LEMMA AtEndIs ==
  ASSUME NEW S, NEW x, Fit(x, S), NEW b \in Buf
  PROVE  Fit(AtEnd(x, b), S) /\ AtEnd(x, b).text = x.text
  BY AlignIs, Streams DEF AtEnd

LEMMA StayOff ==
  ASSUME NEW S, NEW b \in Buf, NEW x, Fit(x, S \cup {buflas(b)})
  PROVE  Fit(Stay(x, b, FALSE), S) /\ Stay(x, b, FALSE).text = x.text
  BY StayIs, ZenonT(45)

LEMMA StayOn ==
  ASSUME NEW S, NEW b \in Buf, NEW x, Fit(x, S)
  PROVE  Fit(Stay(x, b, TRUE), S \cup {buflas(b)}) /\ Stay(x, b, TRUE).text = x.text
<1>1. Fit(x, S \cup {buflas(b)})
  BY Wider
<1>2. QED BY <1>1, StayIs, ZenonT(45)

LEMMA EndIs ==
  ASSUME NEW S, NEW b \in Buf, NEW x, Fit(x, S \cup {buflas(b)}), NEW n \in Nat
  PROVE  Fit(End(x, b, n), S) /\ End(x, b, n).text = x.text
<1>1. Fit(Rlines(x, b, n), S \cup {buflas(b)}) /\ Rlines(x, b, n).text = x.text
  BY RlinesIs
<1>2. QED BY <1>1, StayOff, ZenonT(45) DEF End

(* Each of the commands that take lines, done or failed, leaves every      *)
(* stream in its file, and no other stream with the order to stay.         *)
LEMMA CloseUnsavedIs ==
  ASSUME NEW S, NEW x, Fit(x, S), NEW f \in File, NEW at \in Nat, at <= Lsize(x, f), NEW n \in Nat
  PROVE  Fit(CloseUnsaved(x, f, at, n), S)
<1>1. Fit(Seek(x, f, at), S)
  BY SeekIs
<1>2. QED BY <1>1, MoveIs, Streams DEF CloseUnsaved

LEMMA CloseLinesIs ==
  ASSUME NEW S, NEW x, Fit(x, S), NEW b \in Buf, NEW f \in File,
         NEW at \in Nat, at <= Lsize(x, f), NEW n \in Nat
  PROVE  Fit(CloseLines(x, b, f, at, n), S)
<1> DEFINE T == S \cup {buflas(b)}
           y == Begin(x, b, f, at)
<1>1. Fit(y, T) /\ y.text = x.text
  BY BeginIs
<1>2. Lsize(y, f) = Lsize(x, f)
  BY <1>1 DEF Lsize
<1>3. CloseLines(x, b, f, at, n) = IF f = OLDLFILE THEN Stay(CloseUnsaved(y, f, at, n), b, FALSE)
         ELSE End(Move(AtEnd(y, b), curlas(f), n, fnlas(OLDLFILE)), b, n)
  BY DEF CloseLines
<1> HIDE DEF y
<1>4. Fit(CloseUnsaved(y, f, at, n), T)
  BY <1>1, <1>2, CloseUnsavedIs
<1>5. Fit(Move(AtEnd(y, b), curlas(f), n, fnlas(OLDLFILE)), T)
  <2>1. Fit(AtEnd(y, b), T)
    BY <1>1, AtEndIs
  <2>2. QED BY <2>1, MoveIs, Streams
<1>6. QED BY <1>3, <1>4, <1>5, StayOff, EndIs

LEMMA PickLinesIs ==
  ASSUME NEW S, NEW x, Fit(x, S), NEW b \in Buf, NEW f \in File,
         NEW at \in Nat, at <= Lsize(x, f), NEW n \in Nat
  PROVE  Fit(PickLines(x, b, f, at, n), S) /\ Kept(x, PickLines(x, b, f, at, n))
<1> DEFINE T == S \cup {buflas(b)}
           y == Begin(x, b, f, at)
           u == Align(y, curlas(f), b)
           v == AtEnd(y, b)
           w == Copy(v, curlas(f), fnlas(qtmpfn(b)), n)
<1>1. Fit(y, T) /\ y.text = x.text
  BY BeginIs
<1>2. PickLines(x, b, f, at, n) = IF f = PICKFILE THEN End(u, b, n) ELSE End(w, b, n)
  BY DEF PickLines
<1> HIDE DEF y
<1>3. Fit(u, T) /\ u.text = y.text
  BY <1>1, AlignIs, Streams
<1>4. Fit(v, T) /\ v.text = y.text
  BY <1>1, AtEndIs
<1> HIDE DEF v
<1>5. Fit(w, T) /\ Kept(v, w)
  BY <1>4, CopyKeeps, Streams
<1> HIDE DEF u, w
<1>6. Fit(End(u, b, n), S) /\ End(u, b, n).text = x.text
  BY <1>1, <1>3, EndIs
<1>7. Fit(End(w, b, n), S) /\ End(w, b, n).text = w.text
  BY <1>5, EndIs
<1>8. Kept(x, End(w, b, n))
  BY <1>1, <1>4, <1>5, <1>7 DEF Kept, Lsize
<1>9. Kept(x, End(u, b, n))
  BY <1>6, KeptIs
<1>10. QED BY <1>2, <1>6, <1>7, <1>8, <1>9

LEMMA EraseLinesIs ==
  ASSUME NEW S, NEW x, Fit(x, S), NEW b \in Buf, NEW f \in File,
         NEW at \in Nat, at <= Lsize(x, f), NEW n \in Nat
  PROVE  Fit(EraseLines(x, b, f, at, n), S)
<1> DEFINE T == S \cup {buflas(b)}
           y == Begin(x, b, f, at)
           z(v) == Ins(v, curlas(f), The!Blanks(n))
           u == CloseUnsaved(y, f, at, n)
           w == Move(AtEnd(y, b), curlas(f), n, fnlas(OLDLFILE))
<1>1. Fit(y, T) /\ y.text = x.text
  BY BeginIs
<1>2. Lsize(y, f) = Lsize(x, f)
  BY <1>1 DEF Lsize
<1>3. EraseLines(x, b, f, at, n) = IF f = OLDLFILE THEN Stay(z(u), b, FALSE) ELSE End(z(w), b, n)
  BY DEF EraseLines
<1> HIDE DEF y
<1>4. Fit(u, T)
  BY <1>1, <1>2, CloseUnsavedIs
<1>5. Fit(w, T)
  <2>1. Fit(AtEnd(y, b), T)
    BY <1>1, AtEndIs
  <2>2. QED BY <2>1, MoveIs, Streams
<1> HIDE DEF u, w
<1>6. Fit(z(u), T) /\ Fit(z(w), T)
  BY <1>4, <1>5, BlanksAre, InsKeeps, Streams
<1> HIDE DEF z
<1>7. QED BY <1>3, <1>6, StayOff, EndIs

LEMMA PickFailsIs ==
  ASSUME NEW S, NEW x, Fit(x, S), NEW b \in Buf, NEW f \in File,
         NEW at \in Nat, at <= Lsize(x, f)
  PROVE  Fit(PickFails(x, b, f, at), S) /\ Kept(x, PickFails(x, b, f, at))
<1> DEFINE T == S \cup {buflas(b)}
           y == Begin(x, b, f, at)
           v == AtEnd(y, b)
<1>1. Fit(y, T) /\ y.text = x.text
  BY BeginIs
<1>2. PickFails(x, b, f, at) = Stay(v, b, FALSE)
  BY DEF PickFails
<1> HIDE DEF y
<1>3. Fit(v, T) /\ v.text = y.text
  BY <1>1, AtEndIs
<1> HIDE DEF v
<1>4. Fit(Stay(v, b, FALSE), S) /\ Stay(v, b, FALSE).text = x.text
  BY <1>1, <1>3, StayOff
<1>5. QED BY <1>2, <1>4, KeptIs

LEMMA LinesFailIs ==
  ASSUME NEW S, NEW x, Fit(x, S), NEW b \in Buf, NEW f \in File,
         NEW at \in Nat, at <= Lsize(x, f)
  PROVE  Fit(LinesFail(x, b, f, at), S)
<1>1. Fit(Stay(Begin(x, b, f, at), b, FALSE), S)
  BY BeginIs, StayOff
<1>2. QED BY <1>1, PickFailsIs DEF LinesFail

LEMMA BlankFailsIs ==
  ASSUME NEW S, NEW x, Fit(x, S), NEW b \in Buf, NEW f \in File,
         NEW at \in Nat, at <= Lsize(x, f), NEW n \in Nat
  PROVE  Fit(BlankFails(x, b, f, at, n), S)
<1> DEFINE T == S \cup {buflas(b)}
           v == AtEnd(Begin(x, b, f, at), b)
           y == Move(v, curlas(f), n, fnlas(OLDLFILE))
           z == Move(y, fnlas(OLDLFILE), n, curlas(f))
<1>1. Fit(Begin(x, b, f, at), T)
  BY BeginIs
<1>2. Fit(v, T)
  BY <1>1, AtEndIs
<1>3. BlankFails(x, b, f, at, n) = Stay(z, b, FALSE)
  BY DEF BlankFails
<1> HIDE DEF v
<1>4. Fit(y, T)
  BY <1>2, MoveIs, Streams
<1> HIDE DEF y
<1>5. Fit(z, T)
  BY <1>4, MoveIs, Streams
<1>6. QED BY <1>3, <1>5, StayOff

-----------------------------------------------------------------------------
(* Parts of lines.                                                         *)
LEMMA LineParts ==
  ASSUME NEW l \in Line, NEW p \in Word
  PROVE  The!With(l, p) \in Line /\ l[1] \in Word /\ l[2] \in Word /\ The!Piece(l) \in Line
  BY QBufAssumption DEF Line, The!With, The!Piece

(* The same for rectangles.                                                *)
LEMMA WriteOutIs ==
  ASSUME NEW S, NEW x, Fit(x, S), NEW b \in Buf, NEW ls \in Seq(Line)
  PROVE  Fit(WriteOut(x, b, ls), S) /\ Kept(x, WriteOut(x, b, ls))
<1> DEFINE T == S \cup {buflas(b)}
           u == AtEnd(x, b)
           y == Stay(u, b, TRUE)
           v == Ins(y, fnlas(qtmpfn(b)), The!Pieces(ls))
           w == End(v, b, Len(ls))
<1>1. Fit(u, S) /\ u.text = x.text
  BY AtEndIs
<1>2. WriteOut(x, b, ls) = [w EXCEPT !.ncols[b] = 1]
  BY DEF WriteOut
<1> HIDE DEF u
<1>3. Fit(y, T) /\ y.text = u.text
  BY <1>1, StayOn, ZenonT(45)
<1> HIDE DEF y
<1>4. Fit(v, T) /\ Kept(y, v)
  BY <1>3, PiecesAre, InsKeeps, Streams
<1>5. Len(ls) \in Nat
  BY LenProperties
<1> HIDE DEF v
<1>6. Fit(w, S) /\ w.text = v.text
  BY <1>4, <1>5, EndIs
<1> HIDE DEF w
<1>7. Fit([w EXCEPT !.ncols[b] = 1], S) /\ [w EXCEPT !.ncols[b] = 1].text = w.text
  BY <1>6, NcolsIs
<1>8. Kept(x, [w EXCEPT !.ncols[b] = 1])
  BY <1>1, <1>3, <1>4, <1>6, <1>7 DEF Kept, Lsize
<1>9. QED BY <1>2, <1>7, <1>8

LEMMA RewriteIs ==
  ASSUME NEW S, NEW x, Fit(x, S), NEW f \in File, NEW at \in Nat, at <= Lsize(x, f),
         NEW new \in Seq(Line)
  PROVE  Fit(Rewrite(x, f, at, new), S)
<1> DEFINE y == Seek(x, f, at)
           z == Move(y, curlas(f), Len(new), fnlas(OLDLFILE))
<1>1. Fit(y, S)
  BY SeekIs
<1>2. Rewrite(x, f, at, new) = Ins(z, curlas(f), new)
  BY DEF Rewrite
<1>3. Len(new) \in Nat
  BY LenProperties
<1> HIDE DEF y
<1>4. Fit(z, S)
  BY <1>1, <1>3, MoveIs, Streams
<1> HIDE DEF z
<1>5. QED BY <1>2, <1>4, InsKeeps, Streams

LEMMA PickRectIs ==
  ASSUME NEW S, NEW x, Fit(x, S), NEW b \in Buf, NEW f \in File, NEW at \in Nat, NEW n \in Nat
  PROVE  Fit(PickRect(x, b, f, at, n), S) /\ Kept(x, PickRect(x, b, f, at, n))
  BY AreaIs, WriteOutIs DEF PickRect

LEMMA ClearRectIs ==
  ASSUME NEW S, NEW x, Fit(x, S), NEW b \in Buf, NEW f \in File,
         NEW at \in Nat, at <= Lsize(x, f), NEW n \in Nat
  PROVE  Fit(ClearRect(x, b, f, at, n), S)
<1> DEFINE y == PickRect(x, b, f, at, n)
           new == The!Without(Area(y, f, at, n))
<1>1. Fit(y, S) /\ Kept(x, y)
  BY PickRectIs
<1>2. ClearRect(x, b, f, at, n) = Rewrite(y, f, at, new)
  BY DEF ClearRect
<1> HIDE DEF y
<1>3. new \in Seq(Line)
  BY <1>1, AreaIs, PiecesAre
<1>4. at <= Lsize(y, f)
  <2>1. Lsize(x, f) \in Nat /\ Lsize(y, f) \in Nat
    BY <1>1, Sizes
  <2>2. QED BY <1>1, <2>1 DEF Kept
<1> HIDE DEF new
<1>5. QED BY <1>1, <1>2, <1>3, <1>4, RewriteIs

(* err1 of edrect: the stream may stay.                                    *)
LEMMA RectFailsIs ==
  ASSUME NEW S, NEW x, Fit(x, S), NEW b \in Buf
  PROVE  Fit(RectFails(x, b), S \cup {buflas(b)})
  BY AtEndIs, StayOn DEF RectFails

(* What a buffer has reserved, and putting it.                             *)
LEMMA ReservedIs ==
  ASSUME NEW S, NEW x, Fit(x, S), NEW b \in Buf
  PROVE  Reserved(x, b) \in Nat /\ x.las[buflas(b)].la_lpos \in Nat
  BY Streams DEF Fit, States, Las, Reserved

LEMMA PutLinesIs ==
  ASSUME NEW S, NEW x, Fit(x, S), NEW b \in Buf, NEW f \in File, NEW at \in Nat
  PROVE  Fit(PutLines(x, b, f, at), S)
<1> DEFINE y == extend(x, f, at)
           z == Seek(y, f, at)
           n == Reserved(x, b)
<1>1. Fit(y, S) /\ Lsize(y, f) >= at /\ Lsize(y, f) \in Nat
  BY extendIs, Sizes
<1>2. PutLines(x, b, f, at) = Copy(z, buflas(b), curlas(f), n) /\ n \in Nat
  BY ReservedIs DEF PutLines
<1> HIDE DEF y, n
<1>3. Fit(z, S)
  BY <1>1, SeekIs
<1> HIDE DEF z
<1>4. QED BY <1>2, <1>3, CopyKeeps, Streams

LEMMA PutRectIs ==
  ASSUME NEW S, NEW x, Fit(x, S), NEW b \in Buf, NEW f \in File, NEW at \in Nat
  PROVE  Fit(PutRect(x, b, f, at), S)
<1> DEFINE y   == extend(x, f, at)
           n   == Reserved(y, b)
           p   == y.las[buflas(b)].la_lpos
           got == Area(y, qtmpfn(b), p, n)
           was == Area(y, f, at, n)
           new == [i \in 1 .. n |-> The!With(was[i], got[i][1])]
<1>1. Fit(y, S) /\ Lsize(y, f) >= at /\ Lsize(y, f) \in Nat
  BY extendIs, Sizes
<1>2. PutRect(x, b, f, at) = Rewrite(y, f, at, new)
  BY DEF PutRect
<1> HIDE DEF y
<1>3. n \in Nat /\ p \in Nat
  BY <1>1, ReservedIs
<1> HIDE DEF n, p
<1>4. got \in Seq(Line) /\ Len(got) = n /\ was \in Seq(Line) /\ Len(was) = n
  BY <1>1, <1>3, AreaIs, Streams, ZenonT(45)
<1> HIDE DEF got, was
<1>5. \A i \in 1 .. n : got[i] \in Line /\ was[i] \in Line
  BY <1>3, <1>4, ElementOfSeq
<1>6. \A i \in 1 .. n : The!With(was[i], got[i][1]) \in Line
  BY <1>5, LineParts, QBufAssumption
<1>7. new \in Seq(Line)
  BY <1>3, <1>6
<1> HIDE DEF new
<1>8. QED BY <1>1, <1>2, <1>7, RewriteIs

(* putline and dojoin: the file is no shorter before the joined lines go.  *)
LEMMA putlineIs ==
  ASSUME NEW S, NEW x, Fit(x, S), NEW f \in File, NEW at \in Nat, at <= Lsize(x, f), NEW l \in Line
  PROVE  Fit(putline(x, f, at, l), S) /\ Kept(x, putline(x, f, at, l))
<1> DEFINE old == IF at < Lsize(x, f) /\ x.text[f][at + 1] # The!Blank
                    THEN fnlas(OLDLFILE) ELSE None
           q == curlas(f)
           y == Seek(x, f, at)
           z == Ins(y, q, << l >>)
           w == Move(z, q, 1, old)
<1>1. Fit(y, S) /\ y.text = x.text
  BY SeekIs
<1>2. putline(x, f, at, l) = w
  BY DEF putline
<1>3. old \in Stream \cup {None} /\ q \in Stream /\ Own(q) = f
  BY Streams
<1> HIDE DEF old, y, q
<1>4. << l >> \in Seq(Line) /\ Len(<< l >>) = 1
  OBVIOUS
<1>5. Fit(z, S) /\ \A g \in File : Lsize(z, g) = Lsize(y, g) + (IF g = f THEN Len(<< l >>) ELSE 0)
  BY <1>1, <1>3, <1>4, InsIs, ZenonT(45)
<1> HIDE DEF z
<1>6. Fit(w, S) /\ \A g \in File : Lsize(w, g) >= Lsize(z, g) - (IF g = f THEN 1 ELSE 0)
  BY <1>3, <1>5, MoveIs
<1> HIDE DEF w
<1>7. \A g \in File : Lsize(y, g) = Lsize(x, g) /\ Lsize(x, g) \in Nat /\ Lsize(w, g) \in Nat
  BY <1>1, <1>6, Sizes DEF Lsize
<1>8. Kept(x, w)
  BY <1>4, <1>5, <1>6, <1>7 DEF Kept
<1>9. QED BY <1>2, <1>6, <1>8

LEMMA dojoinIs ==
  ASSUME NEW S, NEW x, Fit(x, S), NEW f \in File, NEW at \in Nat, at < Lsize(x, f),
         NEW n \in Nat, NEW l \in Line
  PROVE  Fit(dojoin(x, f, at, n, l), S)
<1> DEFINE y == putline(x, f, at, l)
<1>1. Lsize(x, f) \in Nat
  BY Sizes
<1>2. Fit(y, S) /\ Kept(x, y)
  BY <1>1, putlineIs
<1>3. dojoin(x, f, at, n, l) = CloseUnsaved(y, f, at + 1, n)
  BY DEF dojoin
<1> HIDE DEF y
<1>4. at + 1 \in Nat /\ at + 1 <= Lsize(y, f)
  <2>1. Lsize(y, f) \in Nat
    BY <1>2, Sizes
  <2>2. QED BY <1>1, <1>2, <2>1 DEF Kept
<1>5. QED BY <1>2, <1>3, <1>4, CloseUnsavedIs

LEMMA EndsOfArea ==
  ASSUME NEW S, NEW x, Fit(x, S), NEW f \in File, NEW at \in Nat, NEW n \in Nat
  PROVE  Area(x, f, at, n + 1)[1] \in Line /\ Area(x, f, at, n + 1)[n + 1] \in Line
<1>1. Area(x, f, at, n + 1) \in Seq(Line) /\ Len(Area(x, f, at, n + 1)) = n + 1
  BY AreaIs
<1>2. QED BY <1>1, ElementOfSeq

LEMMA JoinedIs ==
  ASSUME NEW S, NEW x, Fit(x, S), NEW f \in File, NEW at \in Nat, NEW n \in Nat
  PROVE  Joined(x, f, at, n) \in Line
<1>1. Area(x, f, at, n + 1)[1] \in Line /\ Area(x, f, at, n + 1)[n + 1] \in Line
  BY EndsOfArea
<1>2. QED BY <1>1, LineParts, QBufAssumption DEF Joined

LEMMA CutIs ==
  ASSUME NEW S, NEW x, Fit(x, S), NEW f \in File, NEW at \in Nat, NEW n \in Nat,
         at + n < Lsize(x, f)
  PROVE  Fit(Cut(x, f, at, n), S) /\ Kept(x, Cut(x, f, at, n))
<1> DEFINE ls == Area(x, f, at, n + 1)
           k == The!With(ls[n + 1], empty)
           l == The!Piece(ls[1])
           y == putline(x, f, at + n, k)
           z == putline(y, f, at, l)
<1>1. k \in Line /\ l \in Line
  BY EndsOfArea, LineParts, QBufAssumption
<1>2. Cut(x, f, at, n) = z
  BY DEF Cut
<1> HIDE DEF k, l
<1>3. Lsize(x, f) \in Nat
  BY Sizes
<1>4. Fit(y, S) /\ Kept(x, y)
  BY <1>1, <1>3, putlineIs
<1> HIDE DEF y
<1>5. at <= Lsize(y, f)
  <2>1. Lsize(y, f) \in Nat
    BY <1>4, Sizes
  <2>2. QED BY <1>3, <1>4, <2>1 DEF Kept
<1>6. Fit(z, S) /\ Kept(y, z)
  BY <1>1, <1>4, <1>5, putlineIs
<1> HIDE DEF z
<1>7. QED BY <1>2, <1>4, <1>6, KeptIs

(* receive, which replaces what a program was given.                       *)
LEMMA GivenIs ==
  ASSUME NEW S, NEW x, Fit(x, S), NEW b \in Buf, NEW f \in File,
         NEW at \in Nat, at <= Lsize(x, f)
  PROVE  Fit(Given(x, b, f, at), S \cup {buflas(b)})
<1> DEFINE T == S \cup {buflas(b)}
           u == AtEnd(x, b)
           v == Stay(u, b, TRUE)
           w == Seek(v, f, at)
<1>1. Fit(u, S) /\ u.text = x.text
  BY AtEndIs
<1>2. Given(x, b, f, at) = [w EXCEPT !.ncols[b] = 0]
  BY DEF Given
<1> HIDE DEF u
<1>3. Fit(v, T) /\ v.text = u.text
  BY <1>1, StayOn, ZenonT(45)
<1> HIDE DEF v
<1>4. at <= Lsize(v, f)
  BY <1>1, <1>3 DEF Lsize
<1>5. Fit(w, T)
  BY <1>3, <1>4, SeekIs
<1> HIDE DEF w
<1>6. QED BY <1>2, <1>5, NcolsIs, ZenonT(45)

LEMMA receiveIs ==
  ASSUME NEW S, NEW x, Fit(x, S), NEW b \in Buf, NEW f \in File,
         NEW at \in Nat, at <= Lsize(x, f), NEW n \in Nat, NEW new \in Seq(Line)
  PROVE  Fit(receive(x, b, f, at, n, new), S)
<1> DEFINE T == S \cup {buflas(b)}
           u == Given(x, b, f, at)
           v == Move(u, curlas(f), n, fnlas(OLDLFILE))
           w == Ins(v, curlas(f), new)
<1>1. Fit(u, T)
  BY GivenIs
<1>2. receive(x, b, f, at, n, new) = End(w, b, n)
  BY DEF receive
<1> HIDE DEF u
<1>3. Fit(v, T)
  BY <1>1, MoveIs, Streams
<1> HIDE DEF v
<1>4. Fit(w, T)
  BY <1>3, InsKeeps, Streams
<1> HIDE DEF w
<1>5. QED BY <1>2, <1>4, EndIs

-----------------------------------------------------------------------------
(* The streams that failures leave with the order to stay.                 *)
Left == IF HalfFails THEN BufStreams ELSE {}

(* The invariant: it is inductive because every command starts from        *)
(* streams that are where they should be.                                  *)
Inv == /\ Fit(st, Left) /\ edits \in 0 .. MaxEdits
       /\ cmd.buf \in Buf \cup {QNONE} /\ cmd.file \in File

(* It says what TypeOK says; it holds at first; a command whose last state *)
(* is fit keeps it; so each command does.                                  *)
LEMMA InvIsEnough == Inv => TypeOK
<1> SUFFICES ASSUME Inv PROVE TypeOK
  OBVIOUS
<1>1. st.text \in [File -> Seq(Line)] /\ st.ncols \in [Buf -> {0, 1}] /\ st.las \in [Stream -> Las]
  BY DEF Inv, Fit, States, Texts
<1>2. ASSUME NEW s \in Stream
      PROVE  /\ st.las[s] \in Las
             /\ st.las[s].la_lpos <= Lsize(st, st.las[s].la_file)
             /\ ~ st.las[s].la_stay \/ HalfFails
  <2>1. st.las[s] \in Las
    BY <1>1
  <2>2. st.las[s].la_file = Own(s) /\ st.las[s].la_lpos <= Len(st.text[Own(s)])
        /\ (st.las[s].la_stay => s \in Left)
    BY DEF Inv, Fit, InFile
  <2>3. QED BY <2>1, <2>2 DEF Left, Lsize
<1>3. QED BY <1>1, <1>2 DEF TypeOK, Inv, Las

LEMMA InvInit == Init => Inv
<1> SUFFICES ASSUME Init PROVE Inv
  OBVIOUS
<1> DEFINE t0 == [f \in File |-> IF f = UserFile THEN Text0 ELSE << >>]
           l0 == [s \in Stream |-> [la_file |-> Own(s), la_lpos |-> 0, la_rlines |-> 0, la_stay |-> FALSE]]
           n0 == [b \in Buf |-> 0]
<1>1. st = [text |-> t0, las |-> l0, ncols |-> n0]
  BY DEF Init, Own
<1>2. t0 \in Texts
  BY QBufAssumption DEF Texts
<1>3. l0 \in [Stream -> Las]
  BY Owned DEF Las
<1>4. st \in States
  BY <1>1, <1>2, <1>3 DEF States
<1>5. \A f \in File : Len(t0[f]) \in Nat /\ 0 <= Len(t0[f])
  BY <1>2, LenProperties DEF Texts
<1>6. \A s \in Stream : l0[s].la_file = Own(s) /\ l0[s].la_lpos = 0 /\ l0[s].la_stay = FALSE
  OBVIOUS
<1>7. st.text = t0 /\ st.las = l0
  BY <1>1
<1> HIDE DEF t0, l0
<1>8. Fit(st, Left)
  <2>1. \A s \in Stream : AtTail(s) => Len(t0[Own(s)]) = 0
    <3>1. \A s \in Stream : AtTail(s) => Own(s) \in File /\ Own(s) # UserFile
      BY Owned DEF Own, AtTail
    <3>2. \A f \in File : f # UserFile => t0[f] = << >>
      BY DEF t0
    <3>3. QED BY <3>1, <3>2
  <2>2. InFile(st)
    BY <1>5, <1>6, <1>7, <2>1, Owned DEF InFile
  <2>3. QED BY <1>4, <1>6, <1>7, <2>2 DEF Fit, Left
<1>9. edits \in 0 .. MaxEdits /\ cmd.buf = QNONE /\ cmd.file = UserFile
  BY QBufAssumption DEF Init
<1>10. QED BY <1>8, <1>9 DEF Inv, File

LEMMA DoIs ==
  ASSUME Inv, NEW opc, NEW b \in Buf \cup {QNONE}, NEW f \in File, NEW at, NEW n,
         NEW x, Fit(x, Left), Do(opc, b, f, at, n, x)
  PROVE  Inv'
<1> DEFINE l == [s \in Stream |->
              IF s[1] = "curlas" THEN [x.las[s] EXCEPT !.la_lpos = 0] ELSE x.las[s]]
           y == [x EXCEPT !.las = l]
<1>1. st' = y /\ cmd'.buf = b /\ cmd'.file = f /\ edits < MaxEdits /\ edits' = edits + 1
  BY DEF Do
<1>2. x \in States /\ x.las \in [Stream -> Las]
  BY DEF Fit, States
<1>3. ASSUME NEW s \in Stream
      PROVE  l[s] \in Las /\ l[s].la_file = Own(s) /\ l[s].la_lpos <= Len(x.text[Own(s)])
             /\ (l[s].la_stay => s \in Left)
             /\ (AtTail(s) => l[s].la_lpos = Len(x.text[Own(s)]))
  <2>1. x.las[s] \in Las /\ x.las[s].la_file = Own(s) /\ x.las[s].la_lpos <= Len(x.text[Own(s)])
        /\ (x.las[s].la_stay => s \in Left)
        /\ (AtTail(s) => x.las[s].la_lpos = Len(x.text[Own(s)]))
    BY <1>2 DEF Fit, InFile
  <2>2. 0 <= Len(x.text[Own(s)])
    BY Owned, Sizes DEF Lsize
  <2>3. CASE s[1] = "curlas"
    <3>1. l[s] = [x.las[s] EXCEPT !.la_lpos = 0]
      BY <2>3
    <3> HIDE DEF l
    <3>2. l[s] \in Las /\ l[s].la_file = x.las[s].la_file /\ l[s].la_lpos = 0 /\ l[s].la_stay = x.las[s].la_stay
      BY <2>1, <3>1 DEF Las
    <3>3. QED BY <2>1, <2>2, <2>3, <3>2 DEF AtTail
  <2>4. CASE s[1] # "curlas"
    <3>1. l[s] = x.las[s]
      BY <2>4
    <3> HIDE DEF l
    <3>2. QED BY <2>1, <3>1
  <2>5. QED BY <2>3, <2>4
<1>4. l \in [Stream -> Las]
  <2>1. l = [s \in Stream |-> l[s]]
    OBVIOUS
  <2> HIDE DEF l
  <2>2. QED BY <1>3, <2>1
<1> HIDE DEF l
<1>5. y \in States /\ y.las = l /\ y.text = x.text /\ Left \subseteq BufStreams
  BY <1>2, <1>4 DEF States, Left
<1> HIDE DEF y
<1>6. Fit(y, Left)
  BY <1>3, <1>5 DEF Fit, InFile
<1>7. Fit(st, Left)'
  BY <1>1, <1>6 DEF Fit, InFile, Left
<1>8. (edits \in 0 .. MaxEdits)'
  BY <1>1, QBufAssumption DEF Inv
<1>9. QED BY <1>1, <1>7, <1>8 DEF Inv

LEMMA LeftHolds == \A b \in Buf : HalfFails => Left \cup {buflas(b)} = Left
  BY StreamNames DEF Left

LEMMA InvNext == Inv /\ [Next]_<< st, cmd, edits >> => Inv'
<1> SUFFICES ASSUME Inv, [Next]_<< st, cmd, edits >> PROVE Inv'
  OBVIOUS
<1>0. Fit(st, Left) /\ \A f \in File : size(f) \in Nat /\ size(f) = Lsize(st, f)
  BY Sizes DEF Inv, size
<1>b. /\ QADJUST \in Buf /\ QPICK \in Buf /\ QCLOSE \in Buf /\ QERASE \in Buf /\ QRUN \in Buf
      /\ \A b \in Buf : b \in Buf \cup {QNONE}
      /\ QNONE \in Buf \cup {QNONE}
  BY DEF Buf
<1>u. CASE UNCHANGED << st, cmd, edits >>
  BY <1>u DEF Inv, Fit, InFile, Left
<1>n. ASSUME NEW f \in File, NEW at \in 0 .. size(f) + 1, NEW n \in Counts PROVE
        /\ at \in Nat /\ n \in Nat /\ n > 0
        /\ at < size(f) => at < Lsize(st, f) /\ at <= Lsize(st, f) /\ Cap(f, at, n) \in Nat
  BY <1>0, QBufAssumption DEF Cap, The!Min2
<1>1. ASSUME NEW f \in File, NEW at \in 0 .. size(f) + 1, NEW n \in Counts, Pick(f, at, n)
      PROVE  Inv'
  <2>1. at \in Nat /\ n \in Nat /\ at <= Lsize(st, f) /\ Cap(f, at, n) \in Nat
    BY <1>1, <1>n DEF Pick
  <2>2. /\ Fit(PickLines(st, QPICK, f, at, Cap(f, at, n)), Left)
        /\ Fit(PickRect(st, QPICK, f, at, n), Left)
    BY <1>0, <1>b, <2>1, PickLinesIs, PickRectIs
  <2>3. QED BY <1>1, <1>b, <2>2, DoIs DEF Pick
<1>2. ASSUME NEW f \in File, NEW at \in 0 .. size(f) + 1, NEW n \in Counts, Close(f, at, n)
      PROVE  Inv'
  <2>1. at \in Nat /\ n \in Nat /\ at <= Lsize(st, f) /\ Cap(f, at, n) \in Nat
    BY <1>2, <1>n DEF Close
  <2>2. /\ Fit(CloseLines(st, QCLOSE, f, at, Cap(f, at, n)), Left)
        /\ Fit(ClearRect(st, QCLOSE, f, at, n), Left)
    BY <1>0, <1>b, <2>1, CloseLinesIs, ClearRectIs
  <2>3. QED BY <1>2, <1>b, <2>2, DoIs DEF Close
<1>3. ASSUME NEW f \in File, NEW at \in 0 .. size(f) + 1, NEW n \in Counts, Erase(f, at, n)
      PROVE  Inv'
  <2>1. at \in Nat /\ n \in Nat /\ at <= Lsize(st, f) /\ Cap(f, at, n) \in Nat
    BY <1>3, <1>n DEF Erase
  <2>2. /\ Fit(EraseLines(st, QERASE, f, at, Cap(f, at, n)), Left)
        /\ Fit(ClearRect(st, QERASE, f, at, n), Left)
    BY <1>0, <1>b, <2>1, EraseLinesIs, ClearRectIs
  <2>3. QED BY <1>3, <1>b, <2>2, DoIs DEF Erase
<1>4. ASSUME NEW f \in File, NEW at \in 0 .. size(f) + 1, NEW n \in Counts,
             NEW b \in {QPICK, QCLOSE, QERASE}, TakeFails(b, f, at, n)
      PROVE  Inv'
  <2>1. b \in Buf /\ b \in Buf \cup {QNONE}
    BY <1>b
  <2>2. at \in Nat /\ n \in Nat /\ at <= Lsize(st, f) /\ Cap(f, at, n) \in Nat
    BY <1>4, <1>n DEF TakeFails
  <2>3. /\ Fit(LinesFail(st, b, f, at), Left)
        /\ Fit(PickRect(st, b, f, at, n), Left)
        /\ Fit(BlankFails(st, b, f, at, Cap(f, at, n)), Left)
    BY <1>0, <2>1, <2>2, LinesFailIs, PickRectIs, BlankFailsIs
  <2>4. HalfFails => Fit(RectFails(st, b), Left)
    <3>1. Fit(RectFails(st, b), Left \cup {buflas(b)})
      BY <1>0, <2>1, RectFailsIs
    <3>2. QED BY <2>1, <3>1, LeftHolds
  <2>5. QED BY <1>4, <2>1, <2>3, <2>4, DoIs DEF TakeFails
<1>5. ASSUME NEW f \in File, NEW at \in 0 .. size(f) + 1, NEW n \in Counts, Open(f, at, n)
      PROVE  Inv'
  <2>1. at \in Nat /\ n \in Nat /\ at <= Lsize(st, f)
    BY <1>5, <1>n DEF Open
  <2>2. Fit(Seek(st, f, at), Left)
    BY <1>0, <2>1, SeekIs
  <2>3. Fit(Ins(Seek(st, f, at), curlas(f), The!Blanks(n)), Left)
    BY <2>1, <2>2, InsKeeps, BlanksAre, Streams
  <2>4. QED BY <1>5, <1>b, <2>3, DoIs DEF Open
<1>6. ASSUME NEW f \in File, NEW at \in 0 .. size(f) + 1, NEW n \in Counts, Box(f, at, n, empty)
      PROVE  Inv'
  <2> DEFINE y == extend(st, f, at)
             was == Area(y, f, at, n)
             new == [i \in 1 .. n |-> The!With(was[i], empty)]
  <2>1. at \in Nat /\ n \in Nat
    BY <1>n
  <2>2. Fit(y, Left) /\ at <= Lsize(y, f)
    <3>1. Fit(y, Left) /\ Lsize(y, f) >= at
      BY <1>0, <2>1, extendIs
    <3> HIDE DEF y
    <3>2. Lsize(y, f) \in Nat
      BY <3>1, Sizes
    <3>3. QED BY <2>1, <3>1, <3>2
  <2>3. Do("edit", QNONE, f, at, n, Rewrite(y, f, at, new))
    BY <1>6 DEF Box
  <2> HIDE DEF y
  <2>4. was \in Seq(Line) /\ Len(was) = n
    BY <2>1, <2>2, AreaIs
  <2> HIDE DEF was
  <2>5. \A i \in 1 .. n : was[i] \in Line
    BY <2>1, <2>4, ElementOfSeq
  <2>6. \A i \in 1 .. n : The!With(was[i], empty) \in Line
    BY <2>5, LineParts, QBufAssumption
  <2>7. new \in Seq(Line)
    BY <2>1, <2>6
  <2> HIDE DEF new
  <2>8. Fit(Rewrite(y, f, at, new), Left)
    BY <2>1, <2>2, <2>7, RewriteIs
  <2>9. QED BY <1>b, <2>3, <2>8, DoIs
<1>7. ASSUME NEW f \in File, NEW at \in 0 .. size(f) + 1, NEW n \in Counts, Join(f, at, n)
      PROVE  Inv'
  <2>1. at \in Nat /\ n \in Nat /\ at < Lsize(st, f)
    BY <1>7, <1>n, <1>0 DEF Join
  <2>2. Joined(st, f, at, n) \in Line
    BY <1>0, <2>1, JoinedIs
  <2>3. Fit(dojoin(st, f, at, n, Joined(st, f, at, n)), Left)
    BY <1>0, <2>1, <2>2, dojoinIs
  <2>4. QED BY <1>7, <1>b, <2>3, DoIs DEF Join
<1>8. ASSUME NEW f \in File, NEW at \in 0 .. size(f) + 1, NEW n \in Counts, JoinMark(f, at, n)
      PROVE  Inv'
  <2> DEFINE x == Cut(st, f, at, n)
             y == PickLines(x, QCLOSE, f, at, n + 1)
             z == PickFails(x, QCLOSE, f, at)
             l == Joined(st, f, at, n)
  <2>1. at \in Nat /\ n \in Nat /\ at + n < Lsize(st, f) /\ Lsize(st, f) \in Nat
    BY <1>8, <1>n, <1>0 DEF JoinMark
  <2>2. l \in Line
    BY <1>0, <2>1, JoinedIs
  <2>3. \/ Do("join", QCLOSE, f, at, n, dojoin(y, f, at, n, l))
        \/ Do("join", QCLOSE, f, at, n, dojoin(z, f, at, n, l))
    BY <1>8 DEF JoinMark
  <2> HIDE DEF l
  <2>4. Fit(x, Left) /\ Kept(st, x)
    BY <1>0, <2>1, CutIs
  <2> HIDE DEF x
  <2>5. Lsize(x, f) \in Nat /\ at < Lsize(x, f) /\ at <= Lsize(x, f) /\ n + 1 \in Nat
    <3>1. Lsize(x, f) \in Nat
      BY <2>4, Sizes
    <3>2. QED BY <2>1, <2>4, <3>1 DEF Kept
  <2>6. Fit(y, Left) /\ Kept(x, y) /\ Fit(z, Left) /\ Kept(x, z)
    BY <1>b, <2>1, <2>4, <2>5, PickLinesIs, PickFailsIs
  <2> HIDE DEF y, z
  <2>7. at < Lsize(y, f) /\ at < Lsize(z, f)
    <3>1. Lsize(y, f) \in Nat /\ Lsize(z, f) \in Nat
      BY <2>6, Sizes
    <3>2. QED BY <2>1, <2>5, <2>6, <3>1 DEF Kept
  <2>8. Fit(dojoin(y, f, at, n, l), Left) /\ Fit(dojoin(z, f, at, n, l), Left)
    BY <2>1, <2>2, <2>6, <2>7, dojoinIs
  <2>9. QED BY <1>b, <2>3, <2>8, DoIs
<1>9. ASSUME NEW f \in File, NEW at \in 0 .. size(f) + 1, NEW n \in Counts,
             NEW b \in {QADJUST, QRUN},
             RunFails(b, f, at, n) \/ \E new \in Filtered : Run(b, f, at, n, new)
      PROVE  Inv'
  <2>1. b \in Buf /\ b \in Buf \cup {QNONE}
    BY <1>b
  <2>2. at \in Nat /\ n \in Nat /\ at <= Lsize(st, f) /\ Cap(f, at, n) \in Nat
    BY <1>9, <1>n DEF Run, RunFails
  <2>3. CASE RunFails(b, f, at, n)
    <3>1. Fit(Given(st, b, f, at), Left \cup {buflas(b)})
      BY <1>0, <2>1, <2>2, GivenIs
    <3>2. Fit(End(Given(st, b, f, at), b, Cap(f, at, n)), Left)
      BY <2>1, <2>2, <3>1, EndIs
    <3>3. QED BY <2>1, <2>3, <3>2, DoIs DEF RunFails
  <2>4. ASSUME NEW new \in Filtered, Run(b, f, at, n, new) PROVE Inv'
    <3>1. new \in Seq(Line)
      BY QBufAssumption
    <3>2. Fit(receive(st, b, f, at, Cap(f, at, n), new), Left)
      BY <1>0, <2>1, <2>2, <3>1, receiveIs
    <3>3. QED BY <2>1, <2>4, <3>2, DoIs DEF Run
  <2>5. QED BY <1>9, <2>3, <2>4
<1>10. ASSUME NEW f \in File, NEW at \in 0 .. size(f) + 1,
              NEW b \in {QPICK, QCLOSE, QERASE}, TakeNone(b, f, at)
       PROVE  Inv'
  <2>1. b \in Buf /\ b \in Buf \cup {QNONE}
    BY <1>b
  <2>2. Fit(Rlines(st, b, 0), Left)
    BY <1>0, <2>1, RlinesIs
  <2>3. QED BY <1>10, <2>1, <2>2, DoIs DEF TakeNone
<1>11. ASSUME NEW f \in File, NEW at \in 0 .. size(f) + 1, NEW b \in Buf,
              Put(b, f, at) \/ PutFails(b, f, at)
       PROVE  Inv'
  <2>1. at \in Nat /\ b \in Buf \cup {QNONE}
    BY <1>0
  <2>2. /\ Fit(PutLines(st, b, f, at), Left) /\ Fit(PutRect(st, b, f, at), Left)
        /\ Fit(extend(st, f, at), Left)
    BY <1>0, <2>1, PutLinesIs, PutRectIs, extendIs
  <2>3. QED BY <1>11, <2>1, <2>2, DoIs DEF Put, PutFails
<1>12. ASSUME NEW f \in File, NEW at \in 0 .. size(f) + 1, NEW l \in Typed, Type(f, at, l)
       PROVE  Inv'
  <2>1. at \in Nat /\ at <= Lsize(st, f) /\ l \in Line
    BY <1>0, <1>12, QBufAssumption DEF Type
  <2>2. Fit(putline(st, f, at, l), Left)
    BY <1>0, <2>1, putlineIs
  <2>3. QED BY <1>12, <1>b, <2>2, DoIs DEF Type
<1>13. ASSUME NEW f \in File, NEW at \in 0 .. size(f) + 1, NEW new \in Filtered, Feed(f, at, new)
       PROVE  Inv'
  <2> DEFINE y == extend(st, f, at)
             z == Seek(y, f, at)
             w == Ins(z, curlas(f), new)
  <2>1. at \in Nat /\ new \in Seq(Line)
    BY <1>0, QBufAssumption
  <2>2. Fit(y, Left) /\ Lsize(y, f) >= at /\ Lsize(y, f) \in Nat
    BY <1>0, <2>1, extendIs, Sizes
  <2>3. Do("edit", QNONE, f, at, 0, w)
    BY <1>13 DEF Feed
  <2> HIDE DEF y
  <2>4. Fit(z, Left)
    BY <2>1, <2>2, SeekIs
  <2> HIDE DEF z
  <2>5. Fit(w, Left)
    BY <2>1, <2>4, InsKeeps, Streams
  <2> HIDE DEF w
  <2>6. QED BY <1>b, <2>3, <2>5, DoIs
<1>14. CASE Next
  <2>1. PICK f \in File : \E at \in 0 .. size(f) + 1 :
          \/ \E n \in Counts :
               \/ Pick(f, at, n) \/ Close(f, at, n) \/ Erase(f, at, n)
               \/ \E b \in {QPICK, QCLOSE, QERASE} : TakeFails(b, f, at, n)
               \/ Open(f, at, n) \/ Box(f, at, n, empty)
               \/ Join(f, at, n) \/ JoinMark(f, at, n)
               \/ \E b \in {QADJUST, QRUN} :
                    RunFails(b, f, at, n) \/ \E new \in Filtered : Run(b, f, at, n, new)
          \/ \E b \in {QPICK, QCLOSE, QERASE} : TakeNone(b, f, at)
          \/ \E b \in Buf : Put(b, f, at) \/ PutFails(b, f, at)
          \/ \E l \in Typed : Type(f, at, l)
          \/ \E new \in Filtered : Feed(f, at, new)
    BY <1>14 DEF Next
  <2>2. PICK at \in 0 .. size(f) + 1 :
          \/ \E n \in Counts :
               \/ Pick(f, at, n) \/ Close(f, at, n) \/ Erase(f, at, n)
               \/ \E b \in {QPICK, QCLOSE, QERASE} : TakeFails(b, f, at, n)
               \/ Open(f, at, n) \/ Box(f, at, n, empty)
               \/ Join(f, at, n) \/ JoinMark(f, at, n)
               \/ \E b \in {QADJUST, QRUN} :
                    RunFails(b, f, at, n) \/ \E new \in Filtered : Run(b, f, at, n, new)
          \/ \E b \in {QPICK, QCLOSE, QERASE} : TakeNone(b, f, at)
          \/ \E b \in Buf : Put(b, f, at) \/ PutFails(b, f, at)
          \/ \E l \in Typed : Type(f, at, l)
          \/ \E new \in Filtered : Feed(f, at, new)
    BY <2>1
  <2>3. QED BY <2>2, <1>1, <1>2, <1>3, <1>4, <1>5, <1>6, <1>7, <1>8, <1>9, <1>10, <1>11, <1>12, <1>13
<1>15. QED BY <1>u, <1>14

(* Every variable of QBuf always holds a value of its type, every stream   *)
(* is at a line of its file, and none has been left with the order to stay *)
(* unless LA fails where the editor does not undo: la_stayset and          *)
(* la_stayclr (e20/e.e.c), la_link and la_ldelete on the streams of #o and *)
(* #p.                                                                     *)
THEOREM TypeCorrect == Spec => []TypeOK
<1>1. Spec => []Inv
  BY InvInit, InvNext, PTL DEF Spec
<1>2. QED BY <1>1, InvIsEnough, PTL

(***************************************************************************)
(* What the buffers hold.  A command that takes lines readies the stream   *)
(* of its buffer at the end of the buffer's file and tells it to stay; the *)
(* lines come there; and nothing the command still does parts the stream   *)
(* from them, for insertions and deletions leave reserved lines together   *)
(* or unreserve them (InsStill, DelStill).                                 *)
(***************************************************************************)

(* Parts of sequences of lines, element by element.                        *)
LEMMA Parts ==
  ASSUME NEW t \in Seq(Line), NEW j \in Nat, NEW k \in Nat, j <= k, k <= Len(t)
  PROVE  /\ SubSeq(t, j + 1, k) \in Seq(Line) /\ Len(SubSeq(t, j + 1, k)) = k - j
         /\ \A i \in 1 .. k - j : SubSeq(t, j + 1, k)[i] = t[j + i]
<1>1. Len(t) \in Nat /\ \A i \in j + 1 .. k : t[i] \in Line
  BY LenProperties, ElementOfSeq
<1>2. \A i \in 1 .. k - (j + 1) + 1 : SubSeq(t, j + 1, k)[i] = t[j + 1 + i - 1]
  BY <1>1, SubSeqProperties
<1>3. ASSUME NEW i \in 1 .. k - j PROVE SubSeq(t, j + 1, k)[i] = t[j + i]
  <2>1. i \in 1 .. k - (j + 1) + 1 /\ j + 1 + i - 1 = j + i
    OBVIOUS
  <2>2. SubSeq(t, j + 1, k)[i] = t[j + 1 + i - 1]
    BY <1>2, <2>1
  <2>3. QED BY <2>1, <2>2
<1>4. SubSeq(t, j + 1, k) \in Seq(Line) /\ Len(SubSeq(t, j + 1, k)) = k - j
  BY <1>1, SubSeqProperties, LenProperties
<1>5. QED BY <1>3, <1>4

LEMMA TwoParts ==
  ASSUME NEW a \in Seq(Line), NEW b \in Seq(Line)
  PROVE  /\ a \o b \in Seq(Line) /\ Len(a \o b) = Len(a) + Len(b)
         /\ \A i \in 1 .. Len(a) : (a \o b)[i] = a[i]
         /\ \A i \in 1 .. Len(b) : (a \o b)[Len(a) + i] = b[i]
<1>1. Len(a) \in Nat /\ Len(b) \in Nat
  BY LenProperties
<1>2. /\ a \o b \in Seq(Line) /\ Len(a \o b) = Len(a) + Len(b)
      /\ \A i \in 1 .. Len(a) + Len(b) : (a \o b)[i] = IF i <= Len(a) THEN a[i] ELSE b[i - Len(a)]
  BY ConcatProperties
<1> DEFINE c == a \o b
<1>3. \A i \in 1 .. Len(a) + Len(b) : c[i] = IF i <= Len(a) THEN a[i] ELSE b[i - Len(a)]
  BY <1>2
<1> HIDE DEF c
<1>4. ASSUME NEW i \in 1 .. Len(a) PROVE c[i] = a[i]
  <2>1. i \in 1 .. Len(a) + Len(b) /\ i <= Len(a)
    BY <1>1
  <2>2. QED BY <1>3, <2>1
<1>5. ASSUME NEW i \in 1 .. Len(b) PROVE c[Len(a) + i] = b[i]
  <2>1. Len(a) + i \in 1 .. Len(a) + Len(b) /\ ~ (Len(a) + i <= Len(a)) /\ Len(a) + i - Len(a) = i
    BY <1>1
  <2>2. c[Len(a) + i] = b[Len(a) + i - Len(a)]
    BY <1>3, <2>1
  <2>3. QED BY <2>1, <2>2
<1>6. QED BY <1>2, <1>4, <1>5 DEF c

LEMMA Spliced ==
  ASSUME NEW t \in Seq(Line), NEW new \in Seq(Line), NEW at \in Nat, at <= Len(t)
  PROVE  LET u == SubSeq(t, 1, at) \o new \o SubSeq(t, at + 1, Len(t))
         IN  /\ \A i \in 1 .. at : u[i] = t[i]
             /\ \A i \in 1 .. Len(new) : u[at + i] = new[i]
             /\ \A i \in at + 1 .. Len(t) : u[i + Len(new)] = t[i]
<1> DEFINE p == SubSeq(t, 1, at)
           r == SubSeq(t, at + 1, Len(t))
           v == p \o new
           u == v \o r
<1>1. Len(t) \in Nat /\ Len(new) \in Nat
  BY LenProperties
<1>2. p \in Seq(Line) /\ Len(p) = at /\ \A i \in 1 .. at : p[i] = t[i]
  <2>1. /\ SubSeq(t, 0 + 1, at) \in Seq(Line) /\ Len(SubSeq(t, 0 + 1, at)) = at - 0
        /\ \A i \in 1 .. at - 0 : SubSeq(t, 0 + 1, at)[i] = t[0 + i]
    BY <1>1, Parts
  <2>2. 0 + 1 = 1 /\ at - 0 = at /\ \A i \in 1 .. at : 0 + i = i
    OBVIOUS
  <2>3. QED BY <2>1, <2>2
<1>3. /\ r \in Seq(Line) /\ Len(r) = Len(t) - at
      /\ \A i \in 1 .. Len(t) - at : r[i] = t[at + i]
  BY <1>1, Parts
<1> HIDE DEF p, r
<1>4. /\ v \in Seq(Line) /\ Len(v) = at + Len(new)
      /\ \A i \in 1 .. at : v[i] = p[i]
      /\ \A i \in 1 .. Len(new) : v[at + i] = new[i]
  BY <1>2, TwoParts, ZenonT(45)
<1> HIDE DEF v
<1>5. /\ \A i \in 1 .. at + Len(new) : u[i] = v[i]
      /\ \A i \in 1 .. Len(t) - at : u[at + Len(new) + i] = r[i]
  BY <1>3, <1>4, TwoParts, SMTT(45)
<1> HIDE DEF u
<1>6. ASSUME NEW i \in 1 .. at PROVE u[i] = t[i]
  <2>1. i \in 1 .. at + Len(new)
    BY <1>1
  <2>2. QED BY <2>1, <1>5, <1>4, <1>2
<1>7. ASSUME NEW i \in 1 .. Len(new) PROVE u[at + i] = new[i]
  <2>1. at + i \in 1 .. at + Len(new)
    BY <1>1
  <2>2. QED BY <2>1, <1>5, <1>4
<1>8. ASSUME NEW i \in at + 1 .. Len(t) PROVE u[i + Len(new)] = t[i]
  <2>1. i - at \in 1 .. Len(t) - at /\ at + Len(new) + (i - at) = i + Len(new) /\ at + (i - at) = i
    BY <1>1
  <2>2. u[at + Len(new) + (i - at)] = r[i - at] /\ r[i - at] = t[at + (i - at)]
    BY <2>1, <1>5, <1>3
  <2>3. QED BY <2>1, <2>2
<1>9. QED BY <1>6, <1>7, <1>8 DEF u, v, p, r

LEMMA CutOut ==
  ASSUME NEW t \in Seq(Line), NEW at \in Nat, NEW k \in Nat, at + k <= Len(t)
  PROVE  LET u == SubSeq(t, 1, at) \o SubSeq(t, at + k + 1, Len(t))
         IN  /\ \A i \in 1 .. at : u[i] = t[i]
             /\ \A i \in at + k + 1 .. Len(t) : u[i - k] = t[i]
<1> DEFINE p == SubSeq(t, 1, at)
           r == SubSeq(t, at + k + 1, Len(t))
           u == p \o r
<1>1. Len(t) \in Nat /\ at <= Len(t)
  BY LenProperties
<1>2. p \in Seq(Line) /\ Len(p) = at /\ \A i \in 1 .. at : p[i] = t[i]
  <2>1. /\ SubSeq(t, 0 + 1, at) \in Seq(Line) /\ Len(SubSeq(t, 0 + 1, at)) = at - 0
        /\ \A i \in 1 .. at - 0 : SubSeq(t, 0 + 1, at)[i] = t[0 + i]
    BY <1>1, Parts
  <2>2. 0 + 1 = 1 /\ at - 0 = at /\ \A i \in 1 .. at : 0 + i = i
    OBVIOUS
  <2>3. QED BY <2>1, <2>2
<1>3. /\ r \in Seq(Line) /\ Len(r) = Len(t) - (at + k)
      /\ \A i \in 1 .. Len(t) - (at + k) : r[i] = t[at + k + i]
  BY <1>1, Parts
<1> HIDE DEF p, r
<1>4. /\ \A i \in 1 .. at : u[i] = p[i]
      /\ \A i \in 1 .. Len(t) - (at + k) : u[at + i] = r[i]
  BY <1>2, <1>3, TwoParts, SMTT(45)
<1> HIDE DEF u
<1>6. ASSUME NEW i \in 1 .. at PROVE u[i] = t[i]
  BY <1>2, <1>4
<1>7. ASSUME NEW i \in at + k + 1 .. Len(t) PROVE u[i - k] = t[i]
  <2>1. /\ i - k - at \in 1 .. Len(t) - (at + k) /\ at + (i - k - at) = i - k
        /\ at + k + (i - k - at) = i
    BY <1>1
  <2>2. u[at + (i - k - at)] = r[i - k - at] /\ r[i - k - at] = t[at + k + (i - k - at)]
    BY <2>1, <1>3, <1>4
  <2>3. QED BY <2>1, <2>2
<1>8. QED BY <1>6, <1>7 DEF u, p, r

(* What an insertion and a deletion do to every text and every stream.     *)
LEMMA InsSets ==
  ASSUME NEW S, NEW x, Fit(x, S), NEW s \in Stream, NEW new \in Seq(Line),
         NEW f, f = Own(s), NEW at, at = x.las[s].la_lpos,
         NEW y, y = Ins(x, s, new)
  PROVE  /\ \A g \in File : g # f => y.text[g] = x.text[g]
         /\ \A i \in 1 .. at : y.text[f][i] = x.text[f][i]
         /\ \A i \in 1 .. Len(new) : y.text[f][at + i] = new[i]
         /\ \A i \in at + 1 .. Lsize(x, f) : y.text[f][i + Len(new)] = x.text[f][i]
         /\ \A q \in Stream : Own(q) # f => y.las[q] = x.las[q]
         /\ \A q \in Stream : Own(q) = f =>
              y.las[q] = IF Len(new) = 0 THEN x.las[q] ELSE LF!AfterInsert(x.las[q], at, Len(new))
<1> DEFINE t == x.text[f]
           u == SubSeq(t, 1, at) \o new \o SubSeq(t, at + 1, Len(t))
<1>1. /\ f \in File /\ x.las[s].la_file = f /\ at \in Nat /\ at <= Len(t) /\ t \in Seq(Line)
      /\ x \in States /\ x.text \in Texts /\ Len(t) \in Nat /\ Len(new) \in Nat
  BY Owned, LenProperties DEF Fit, InFile, States, Las, Texts
<1>2. \A q \in Stream : x.las[q].la_file = Own(q)
  BY DEF Fit, InFile
<1>3. CASE new = << >>
  <2>1. y = x /\ Len(new) = 0
    BY <1>1, <1>3 DEF Ins, Done, LF!Ins, States
  <2> HIDE DEF t
  <2>2. QED BY <1>1, <2>1 DEF Lsize, t
<1>4. CASE new # << >>
  <2>1. y = [x EXCEPT !.text = [x.text EXCEPT ![f] = u],
                      !.las = [q \in Stream |-> IF x.las[q].la_file = f
                                 THEN LF!AfterInsert(x.las[q], at, Len(new)) ELSE x.las[q]]]
    BY <1>1, <1>4 DEF Ins, Done, LF!Ins, LF!OnFile
  <2>0. /\ \A i \in 1 .. at : u[i] = t[i]
        /\ \A i \in 1 .. Len(new) : u[at + i] = new[i]
        /\ \A i \in at + 1 .. Len(t) : u[i + Len(new)] = t[i]
    <3> HIDE DEF t
    <3>1. QED BY <1>1, Spliced, ZenonT(45)
  <2> HIDE DEF u
  <2>2. /\ y.text = [x.text EXCEPT ![f] = u]
        /\ y.las = [q \in Stream |-> IF x.las[q].la_file = f
                      THEN LF!AfterInsert(x.las[q], at, Len(new)) ELSE x.las[q]]
    BY <1>1, <2>1 DEF States
  <2>3. y.text[f] = u /\ \A g \in File : g # f => y.text[g] = x.text[g]
    BY <1>1, <2>2 DEF Texts
  <2>4. Len(new) # 0
    BY <1>4
  <2>5. \A q \in Stream : y.las[q] = IF Own(q) = f THEN LF!AfterInsert(x.las[q], at, Len(new)) ELSE x.las[q]
    BY <1>2, <2>2
  <2>6. QED BY <2>0, <2>3, <2>4, <2>5 DEF Lsize
<1>5. QED BY <1>3, <1>4

LEMMA DelSets ==
  ASSUME NEW S, NEW x, Fit(x, S), NEW s \in Stream, NEW n \in Nat,
         NEW f, f = Own(s), NEW at, at = x.las[s].la_lpos,
         NEW k, k = Len(LF!LinesAt(x, s, n)),
         NEW y, y = Done(x, LF!Del(x, s, n))
  PROVE  /\ \A g \in File : g # f => y.text[g] = x.text[g]
         /\ \A i \in 1 .. at : y.text[f][i] = x.text[f][i]
         /\ \A i \in at + k + 1 .. Lsize(x, f) : y.text[f][i - k] = x.text[f][i]
         /\ \A q \in Stream : Own(q) # f => y.las[q] = x.las[q]
         /\ \A q \in Stream : Own(q) = f =>
              y.las[q] = IF k = 0 THEN x.las[q] ELSE LF!AfterDelete(x.las[q], at, k)
<1> DEFINE t == x.text[f]
           u == SubSeq(t, 1, at) \o SubSeq(t, at + k + 1, Len(t))
<1>1. /\ f \in File /\ x.las[s].la_file = f /\ at \in Nat /\ at <= Len(t) /\ t \in Seq(Line)
      /\ x \in States /\ x.text \in Texts /\ Len(t) \in Nat
  BY Owned, LenProperties DEF Fit, InFile, States, Las, Texts
<1>2. \A q \in Stream : x.las[q].la_file = Own(q)
  BY DEF Fit, InFile
<1>3. k \in Nat /\ at + k <= Len(t)
  BY <1>1, LinesAtIs, LenProperties DEF Lsize
<1>4. CASE k = 0
  <2>1. y = x
    BY <1>1, <1>4 DEF Done, LF!Del, States
  <2>2. \A i \in at + k + 1 .. Len(t) : i - k = i
    BY <1>4
  <2> HIDE DEF t
  <2>3. QED BY <1>1, <1>4, <2>1, <2>2 DEF Lsize, t
<1>5. CASE k # 0
  <2>1. y = [x EXCEPT !.text = [x.text EXCEPT ![f] = u],
                      !.las = [q \in Stream |-> IF x.las[q].la_file = f
                                 THEN LF!AfterDelete(x.las[q], at, k) ELSE x.las[q]]]
    BY <1>1, <1>5 DEF Done, LF!Del, LF!OnFile
  <2>0. /\ \A i \in 1 .. at : u[i] = t[i]
        /\ \A i \in at + k + 1 .. Len(t) : u[i - k] = t[i]
    <3> HIDE DEF t
    <3>1. QED BY <1>1, <1>3, CutOut, ZenonT(45)
  <2> HIDE DEF u
  <2>2. /\ y.text = [x.text EXCEPT ![f] = u]
        /\ y.las = [q \in Stream |-> IF x.las[q].la_file = f
                      THEN LF!AfterDelete(x.las[q], at, k) ELSE x.las[q]]
    BY <1>1, <2>1 DEF States
  <2>3. y.text[f] = u /\ \A g \in File : g # f => y.text[g] = x.text[g]
    BY <1>1, <2>2 DEF Texts
  <2>5. \A q \in Stream : y.las[q] = IF Own(q) = f THEN LF!AfterDelete(x.las[q], at, k) ELSE x.las[q]
    BY <1>2, <2>2
  <2>6. QED BY <1>5, <2>0, <2>3, <2>5 DEF Lsize
<1>6. QED BY <1>4, <1>5

(* The place and the reservation of another stream of the file: pushed, or *)
(* with the order to stay left where it is (la_link.c); a reservation the  *)
(* lines go into is lost.                                                  *)
LEMMA InsPlaces ==
  ASSUME NEW S, NEW x, Fit(x, S), NEW s \in Stream, NEW new \in Seq(Line),
         NEW q \in Stream, Own(q) = Own(s),
         NEW at, at = x.las[s].la_lpos, NEW y, y = Ins(x, s, new)
  PROVE  /\ y.las[q].la_stay = x.las[q].la_stay
         /\ x.las[q].la_lpos > at \/ (x.las[q].la_lpos = at /\ ~ x.las[q].la_stay) =>
              /\ y.las[q].la_lpos = x.las[q].la_lpos + Len(new)
              /\ y.las[q].la_rlines = x.las[q].la_rlines
         /\ x.las[q].la_lpos < at \/ (x.las[q].la_lpos = at /\ x.las[q].la_stay) =>
              /\ y.las[q].la_lpos = x.las[q].la_lpos
              /\ x.las[q].la_lpos + x.las[q].la_rlines <= at => y.las[q].la_rlines = x.las[q].la_rlines
              /\ x.las[q].la_lpos + x.las[q].la_rlines > at /\ Len(new) # 0 => y.las[q].la_rlines = 0
<1> DEFINE z == x.las[q]
<1>1. z \in Las /\ at \in Nat /\ Len(new) \in Nat
  BY Placed, LenProperties
<1>2. y.las[q] = IF Len(new) = 0 THEN z ELSE LF!AfterInsert(z, at, Len(new))
  BY InsSets
<1> HIDE DEF z
<1>3. z.la_lpos \in Nat /\ z.la_rlines \in Nat /\ z.la_stay \in BOOLEAN
  BY <1>1 DEF Las
<1>4. CASE Len(new) = 0
  BY <1>1, <1>2, <1>3, <1>4 DEF z
<1>5. CASE Len(new) # 0
  <2> DEFINE w == LF!AfterInsert(z, at, Len(new))
  <2>1. y.las[q] = w
    BY <1>2, <1>5
  <2>2. z.la_lpos > at \/ (z.la_lpos = at /\ ~ z.la_stay) =>
          /\ w.la_lpos = z.la_lpos + Len(new) /\ w.la_rlines = z.la_rlines /\ w.la_stay = z.la_stay
    BY <1>1 DEF LF!AfterInsert, Las
  <2>3. ~ (z.la_lpos > at \/ (z.la_lpos = at /\ ~ z.la_stay)) =>
          /\ w.la_lpos = z.la_lpos /\ w.la_stay = z.la_stay
          /\ w.la_rlines = IF z.la_lpos + z.la_rlines > at THEN 0 ELSE z.la_rlines
    BY <1>1 DEF LF!AfterInsert, Las
  <2> HIDE DEF w
  <2>4. w.la_stay = z.la_stay
    BY <2>2, <2>3
  <2>5. z.la_lpos > at \/ (z.la_lpos = at /\ ~ z.la_stay) =>
          w.la_lpos = z.la_lpos + Len(new) /\ w.la_rlines = z.la_rlines
    BY <2>2
  <2>6. z.la_lpos < at \/ (z.la_lpos = at /\ z.la_stay) =>
          /\ w.la_lpos = z.la_lpos
          /\ z.la_lpos + z.la_rlines <= at => w.la_rlines = z.la_rlines
          /\ z.la_lpos + z.la_rlines > at => w.la_rlines = 0
    BY <1>1, <1>3, <2>3, SMTT(45)
  <2>7. QED BY <2>1, <2>4, <2>5, <2>6 DEF z
<1>6. QED BY <1>4, <1>5

(* The same for a deletion (la_ldelete.c).                                 *)
LEMMA DelPlaces ==
  ASSUME NEW S, NEW x, Fit(x, S), NEW s \in Stream, NEW n \in Nat,
         NEW q \in Stream, Own(q) = Own(s),
         NEW at, at = x.las[s].la_lpos, NEW k, k = Len(LF!LinesAt(x, s, n)), k # 0,
         NEW y, y = Done(x, LF!Del(x, s, n))
  PROVE  /\ y.las[q].la_stay = x.las[q].la_stay
         /\ x.las[q].la_lpos >= at + k =>
              /\ y.las[q].la_lpos = x.las[q].la_lpos - k
              /\ y.las[q].la_rlines = x.las[q].la_rlines
         /\ x.las[q].la_lpos < at + k =>
              /\ y.las[q].la_lpos = IF x.las[q].la_lpos > at THEN at ELSE x.las[q].la_lpos
              /\ \/ y.las[q].la_rlines = 0
                 \/ /\ y.las[q].la_rlines = x.las[q].la_rlines
                    /\ x.las[q].la_lpos + x.las[q].la_rlines <= at
<1> DEFINE z == x.las[q]
           w == LF!AfterDelete(z, at, k)
<1>1. z \in Las /\ at \in Nat /\ k \in Nat
  BY Placed, LinesAtIs, LenProperties
<1>2. y.las[q] = w
  BY DelSets
<1> HIDE DEF z
<1>3. z.la_lpos \in Nat /\ z.la_rlines \in Nat /\ z.la_stay \in BOOLEAN
  BY <1>1 DEF Las
<1>4. CASE z.la_lpos >= at + k
  <2>1. w = [z EXCEPT !.la_lpos = z.la_lpos - k]
    <3>1. ~ (z.la_lpos < at /\ z.la_lpos + z.la_rlines <= at)
      BY <1>1, <1>3, <1>4
    <3>2. QED BY <1>4, <3>1 DEF LF!AfterDelete
  <2> HIDE DEF w
  <2>2. w.la_lpos = z.la_lpos - k /\ w.la_rlines = z.la_rlines /\ w.la_stay = z.la_stay
    BY <1>1, <2>1 DEF Las
  <2>3. ~ (z.la_lpos < at + k)
    BY <1>1, <1>3, <1>4
  <2>4. QED BY <1>2, <1>4, <2>2, <2>3 DEF z
<1>5. CASE ~ (z.la_lpos >= at + k) /\ z.la_lpos < at /\ z.la_lpos + z.la_rlines <= at
  <2>1. w = z
    BY <1>5 DEF LF!AfterDelete
  <2> HIDE DEF w
  <2>2. ~ (z.la_lpos > at)
    BY <1>1, <1>3, <1>5
  <2>3. QED BY <1>2, <1>5, <2>1, <2>2 DEF z
<1>6. CASE ~ (z.la_lpos >= at + k) /\ ~ (z.la_lpos < at /\ z.la_lpos + z.la_rlines <= at)
  <2> DEFINE l == IF z.la_lpos > at THEN at ELSE z.la_lpos
  <2>1. w = [z EXCEPT !.la_lpos = l, !.la_rlines = 0]
    BY <1>6 DEF LF!AfterDelete
  <2> HIDE DEF w, l
  <2>2. w.la_lpos = l /\ w.la_rlines = 0 /\ w.la_stay = z.la_stay
    BY <1>1, <2>1 DEF Las
  <2>3. QED BY <1>2, <1>6, <2>2 DEF z, l
<1>7. QED BY <1>4, <1>5, <1>6

(* The lines from a place on. *)
LEMMA LinesText ==
  ASSUME NEW S, NEW x, Fit(x, S), NEW q \in Stream, NEW n \in Nat
  PROVE  \A i \in 1 .. Len(LF!LinesAt(x, q, n)) :
           LF!LinesAt(x, q, n)[i] = x.text[Own(q)][x.las[q].la_lpos + i]
<1> DEFINE ls == LF!LinesAt(x, q, n)
           at == x.las[q].la_lpos
           f  == Own(q)
           t  == x.text[f]
           e  == IF at + n > Len(t) THEN Len(t) ELSE at + n
<1>1. /\ f \in File /\ x.las[q].la_file = f /\ at \in Nat /\ at <= Len(t) /\ t \in Seq(Line)
      /\ Len(t) \in Nat
  BY Owned, LenProperties DEF Fit, InFile, States, Las, Texts
<1>2. ls = SubSeq(t, at + 1, e)
  BY <1>1 DEF LF!LinesAt
<1> HIDE DEF t, ls, at
<1>3. e \in Nat /\ at <= e /\ e <= Len(t) /\ e <= at + n
      /\ e - at = IF at + n > Len(t) THEN Len(t) - at ELSE n
  BY <1>1
<1> HIDE DEF e
<1> DEFINE v == SubSeq(t, at + 1, e)
<1>4. v \in Seq(Line) /\ Len(v) = e - at /\ \A i \in 1 .. e - at : v[i] = t[at + i]
  BY <1>1, <1>3, Parts
<1> HIDE DEF v
<1>5. ls = v
  BY <1>2 DEF v
<1>6. \A i \in 1 .. Len(ls) : ls[i] = t[at + i]
  BY <1>4, <1>5
<1>7. QED BY <1>6 DEF t, ls, at

LEMMA LinesAre ==
  ASSUME NEW S, NEW x, Fit(x, S), NEW q \in Stream, NEW n \in Nat
  PROVE  LET ls == LF!LinesAt(x, q, n)
             at == x.las[q].la_lpos
         IN  /\ ls \in Seq(Line)
             /\ Len(ls) = IF at + n > Lsize(x, Own(q)) THEN Lsize(x, Own(q)) - at ELSE n
             /\ \A i \in 1 .. Len(ls) : ls[i] = x.text[Own(q)][at + i]
             /\ Len(ls) \in Nat /\ at + Len(ls) <= Lsize(x, Own(q)) /\ at \in Nat /\ Len(ls) <= n
<1> DEFINE ls == LF!LinesAt(x, q, n)
           at == x.las[q].la_lpos
           f  == Own(q)
           t  == x.text[f]
           e  == IF at + n > Len(t) THEN Len(t) ELSE at + n
<1>1. /\ f \in File /\ x.las[q].la_file = f /\ at \in Nat /\ at <= Len(t) /\ t \in Seq(Line)
      /\ Len(t) \in Nat
  BY Owned, LenProperties DEF Fit, InFile, States, Las, Texts
<1>2. ls = SubSeq(t, at + 1, e)
  BY <1>1 DEF LF!LinesAt
<1> HIDE DEF t, ls, at
<1>3. e \in Nat /\ at <= e /\ e <= Len(t) /\ e <= at + n
      /\ e - at = IF at + n > Len(t) THEN Len(t) - at ELSE n
  BY <1>1
<1> HIDE DEF e
<1> DEFINE v == SubSeq(t, at + 1, e)
<1>4. v \in Seq(Line) /\ Len(v) = e - at /\ \A i \in 1 .. e - at : v[i] = t[at + i]
  BY <1>1, <1>3, Parts
<1> HIDE DEF v
<1>5. ls = v
  BY <1>2 DEF v
<1>6. Len(ls) = IF at + n > Len(t) THEN Len(t) - at ELSE n
  BY <1>3, <1>4, <1>5
<1>7. Len(ls) \in Nat /\ at + Len(ls) <= Len(t) /\ Len(ls) <= n
  BY <1>1, <1>6
<1>8. ls \in Seq(Line)
  BY <1>4, <1>5
<1>9. \A i \in 1 .. Len(ls) : ls[i] = t[at + i]
  BY LinesText DEF t, ls, at
<1>10. QED BY <1>1, <1>6, <1>7, <1>8, <1>9 DEF Lsize, t, ls, at

(* They are known by their number and by each of them.                     *)
LEMMA SameLines ==
  ASSUME NEW S, NEW x, Fit(x, S), NEW q \in Stream, NEW n \in Nat, NEW at, at = x.las[q].la_lpos,
         NEW ls \in Seq(Line),
         Len(ls) = IF at + n > Lsize(x, Own(q)) THEN Lsize(x, Own(q)) - at ELSE n,
         \A i \in 1 .. Len(ls) : ls[i] = x.text[Own(q)][at + i]
  PROVE  LF!LinesAt(x, q, n) = ls
<1> DEFINE ms == LF!LinesAt(x, q, n)
<1>1. /\ ms \in Seq(Line)
      /\ Len(ms) = IF x.las[q].la_lpos + n > Lsize(x, Own(q))
                     THEN Lsize(x, Own(q)) - x.las[q].la_lpos ELSE n
      /\ \A i \in 1 .. Len(ms) : ms[i] = x.text[Own(q)][x.las[q].la_lpos + i]
  BY LinesAre, SMTT(45)
<1> HIDE DEF ms
<1>2. Len(ms) = Len(ls)
  BY <1>1
<1>3. \A i \in 1 .. Len(ms) : ms[i] = ls[i]
  BY <1>1, <1>2
<1>4. ms = ls
  BY <1>1, <1>2, <1>3, SeqEqual
<1>5. QED BY <1>4 DEF ms

(* Stream q is where it was, in the text it was in. *)
Same(x, y, q) == y.las[q] = x.las[q] /\ y.text[Own(q)] = x.text[Own(q)]

(* The lines a stream has reserved; an edit leaves them alone or takes the reservation. *)
Res(x, q)      == LF!LinesAt(x, q, x.las[q].la_rlines)
Still(x, y, q) == Res(y, q) \in {Res(x, q), << >>}

(* A stream that is where it was has the same lines; edits of one file     *)
(* leave the streams of the others.                                        *)
LEMMA SameIs ==
  ASSUME NEW S, NEW x, Fit(x, S), NEW q \in Stream, NEW y, Same(x, y, q)
  PROVE  /\ \A n : LF!LinesAt(y, q, n) = LF!LinesAt(x, q, n)
         /\ Res(y, q) = Res(x, q) /\ Still(x, y, q)
         /\ Lsize(y, Own(q)) = Lsize(x, Own(q))
<1>1. x.las[q].la_file = Own(q) /\ y.las[q] = x.las[q] /\ y.text[Own(q)] = x.text[Own(q)]
  BY DEF Fit, InFile, Same
<1>2. \A n : LF!LinesAt(y, q, n) = LF!LinesAt(x, q, n)
  BY <1>1 DEF LF!LinesAt
<1>3. QED BY <1>1, <1>2 DEF Res, Still, Lsize

LEMMA InsApart ==
  ASSUME NEW S, NEW x, Fit(x, S), NEW s \in Stream, NEW new \in Seq(Line),
         NEW q \in Stream, Own(q) # Own(s)
  PROVE  Same(x, Ins(x, s, new), q)
<1> DEFINE y == Ins(x, s, new)
<1>1. /\ \A g \in File : g # Own(s) => y.text[g] = x.text[g]
      /\ \A r \in Stream : Own(r) # Own(s) => y.las[r] = x.las[r]
  BY InsSets
<1> HIDE DEF y
<1>2. Same(x, y, q)
  BY <1>1, Owned DEF Same
<1>3. QED BY <1>2 DEF y

LEMMA DelApart ==
  ASSUME NEW S, NEW x, Fit(x, S), NEW s \in Stream, NEW n \in Nat,
         NEW q \in Stream, Own(q) # Own(s)
  PROVE  Same(x, Done(x, LF!Del(x, s, n)), q)
<1> DEFINE y == Done(x, LF!Del(x, s, n))
           k == Len(LF!LinesAt(x, s, n))
<1>0. k = Len(LF!LinesAt(x, s, n)) /\ y = Done(x, LF!Del(x, s, n))
  OBVIOUS
<1> HIDE DEF k, y
<1>1. /\ \A g \in File : g # Own(s) => y.text[g] = x.text[g]
      /\ \A r \in Stream : Own(r) # Own(s) => y.las[r] = x.las[r]
  BY <1>0, DelSets
<1>2. Same(x, y, q)
  BY <1>1, Owned DEF Same
<1>3. QED BY <1>2 DEF y

(* A move is a deletion and an insertion of the same lines.                *)
LEMMA MoveIsTwo ==
  ASSUME NEW S, NEW x, Fit(x, S), NEW s \in Stream, NEW n \in Nat
  PROVE  LET z == Done(x, LF!Del(x, s, n))
         IN  /\ Move(x, s, n, None) = z
             /\ \A d \in Stream : Move(x, s, n, d) = Ins(z, d, LF!LinesAt(x, s, n))
<1> DEFINE ls == LF!LinesAt(x, s, n)
           e  == LF!Del(x, s, n)
           z  == Done(x, e)
<1>1. Move(x, s, n, None) = z
  BY DEF Move, LF!Move
<1>2. ASSUME NEW d \in Stream PROVE Move(x, s, n, d) = Ins(z, d, ls)
  <2>1. Move(x, s, n, d) = Done(x, LF!Ins(e, d, ls))
    BY NameAssumption DEF Move, LF!Move
  <2>2. z.text = e.text /\ z.las = e.las /\ x \in States
    BY DEF Fit, Done, States
  <2>3. z = [x EXCEPT !.text = e.text, !.las = e.las]
    BY DEF Done
  <2> HIDE DEF e, z, ls
  <2>4. LF!Ins(e, d, ls).text = LF!Ins(z, d, ls).text /\ LF!Ins(e, d, ls).las = LF!Ins(z, d, ls).las
    BY <2>2 DEF LF!Ins, LF!OnFile
  <2>5. QED BY <2>1, <2>2, <2>3, <2>4 DEF Ins, Done, States
<1>3. QED BY <1>1, <1>2

(* The n lines a stream is at after an insertion that is not within them, *)
(* nor pushes them away from it.                                          *)
LEMMA InsLines ==
  ASSUME NEW S, NEW x, Fit(x, S), NEW s \in Stream, NEW new \in Seq(Line),
         NEW q \in Stream, NEW n \in Nat, Own(q) = Own(s)
  PROVE  \/ x.las[q].la_lpos > x.las[s].la_lpos
         \/ x.las[q].la_lpos = x.las[s].la_lpos /\ ~ x.las[q].la_stay
         \/ x.las[q].la_lpos + n <= x.las[s].la_lpos
         => LF!LinesAt(Ins(x, s, new), q, n) = LF!LinesAt(x, q, n)
<1> DEFINE y  == Ins(x, s, new)
           f  == Own(s)
           m  == Len(new)
           at == x.las[s].la_lpos
           p  == x.las[q].la_lpos
           ls == LF!LinesAt(x, q, n)
<1>0. p \in Nat /\ at \in Nat /\ m \in Nat /\ at <= Lsize(x, f) /\ Lsize(x, f) \in Nat /\ f \in File
  BY Placed, LenProperties, Sizes, Owned
<1>a. /\ ls \in Seq(Line)
      /\ Len(ls) = IF p + n > Lsize(x, Own(q)) THEN Lsize(x, Own(q)) - p ELSE n
  BY LinesAre
<1>c. \A i \in 1 .. Len(ls) : ls[i] = x.text[Own(q)][p + i]
  <2>1. \A i \in 1 .. Len(LF!LinesAt(x, q, n)) :
          LF!LinesAt(x, q, n)[i] = x.text[Own(q)][x.las[q].la_lpos + i]
    BY LinesText
  <2>2. QED BY <2>1
<1>b. Len(ls) \in Nat /\ p + Len(ls) <= Lsize(x, Own(q))
  BY LinesAre
<1>1. /\ ls \in Seq(Line) /\ Len(ls) = IF p + n > Lsize(x, f) THEN Lsize(x, f) - p ELSE n
      /\ \A i \in 1 .. Len(ls) : ls[i] = x.text[f][p + i]
      /\ Len(ls) \in Nat /\ p + Len(ls) <= Lsize(x, f)
  BY <1>a, <1>b, <1>c
<1>2. /\ \A i \in 1 .. at : y.text[f][i] = x.text[f][i]
      /\ \A i \in at + 1 .. Lsize(x, f) : y.text[f][i + m] = x.text[f][i]
  BY InsSets
<1>3. Fit(y, S) /\ Lsize(y, f) = Lsize(x, f) + m
  BY <1>0, InsIs
<1>4. /\ p > at \/ (p = at /\ ~ x.las[q].la_stay) => y.las[q].la_lpos = p + m
      /\ p < at \/ (p = at /\ x.las[q].la_stay) => y.las[q].la_lpos = p
  BY InsPlaces
<1> HIDE DEF y, f, m, at, p, ls
<1> SUFFICES ASSUME p > at \/ (p = at /\ ~ x.las[q].la_stay) \/ p + n <= at
            PROVE  LF!LinesAt(y, q, n) = ls
  BY DEF p, at, y, ls
<1>h. p > at \/ (p = at /\ ~ x.las[q].la_stay) \/ p + n <= at
  OBVIOUS
<1>5. CASE y.las[q].la_lpos = p + m /\ (p > at \/ p = at)
  <2>1. Len(ls) = IF p + m + n > Lsize(y, f) THEN Lsize(y, f) - (p + m) ELSE n
    BY <1>0, <1>1, <1>3
  <2>2. ASSUME NEW i \in 1 .. Len(ls) PROVE ls[i] = y.text[f][p + m + i]
    <3> DEFINE h == p + i
    <3>0. p >= at
      BY <1>0, <1>5
    <3>1. h \in at + 1 .. Lsize(x, f) /\ h + m = p + m + i
      BY <1>0, <1>1, <3>0
    <3>2. ls[i] = x.text[f][h]
      BY <1>1
    <3> HIDE DEF h
    <3>3. y.text[f][h + m] = x.text[f][h]
      BY <3>1, <1>2
    <3>4. QED BY <3>1, <3>2, <3>3
  <2>3. LF!LinesAt(y, q, n) = ls
    BY <1>1, <1>3, <1>5, <2>1, <2>2, SameLines DEF f
  <2>4. QED BY <2>3
<1>6. CASE y.las[q].la_lpos = p /\ p + n <= at
  <2>1. Len(ls) = n /\ ~ (p + n > Lsize(y, f))
    BY <1>0, <1>1, <1>3, <1>6
  <2>2. ASSUME NEW i \in 1 .. Len(ls) PROVE ls[i] = y.text[f][p + i]
    <3>1. p + i \in 1 .. at
      BY <1>0, <1>1, <1>6, <2>1
    <3>2. QED BY <3>1, <1>1, <1>2
  <2>3. LF!LinesAt(y, q, n) = ls
    BY <1>1, <1>3, <1>6, <2>1, <2>2, SameLines, SMTT(45) DEF f
  <2>4. QED BY <2>3
<1>7. QED
  <2>1. CASE p > at
    BY <2>1, <1>4, <1>5
  <2>2. CASE p < at
    BY <2>2, <1>0, <1>4, <1>6, <1>h
  <2>3. CASE p = at /\ ~ x.las[q].la_stay
    BY <2>3, <1>4, <1>5
  <2>4. CASE p = at /\ x.las[q].la_stay
    BY <2>4, <1>0, <1>4, <1>6, <1>h
  <2>5. QED BY <2>1, <2>2, <2>3, <2>4, <1>0

(* ... and after a deletion that takes none of them. *)
LEMMA DelLines ==
  ASSUME NEW S, NEW x, Fit(x, S), NEW s \in Stream, NEW n \in Nat,
         NEW q \in Stream, Own(q) = Own(s), NEW j \in Nat,
         NEW k, k = Len(LF!LinesAt(x, s, n)), k # 0
  PROVE  x.las[q].la_lpos >= x.las[s].la_lpos + k \/ x.las[q].la_lpos + j <= x.las[s].la_lpos
         => LF!LinesAt(Done(x, LF!Del(x, s, n)), q, j) = LF!LinesAt(x, q, j)
<1> DEFINE y  == Done(x, LF!Del(x, s, n))
           f  == Own(s)
           at == x.las[s].la_lpos
           p  == x.las[q].la_lpos
           ls == LF!LinesAt(x, q, j)
<1>0. /\ p \in Nat /\ at \in Nat /\ k \in Nat /\ Lsize(x, f) \in Nat /\ f \in File
      /\ at + k <= Lsize(x, f)
  BY Placed, LinesAre, Sizes, Owned
<1>a. /\ ls \in Seq(Line)
      /\ Len(ls) = IF p + j > Lsize(x, Own(q)) THEN Lsize(x, Own(q)) - p ELSE j
  BY LinesAre
<1>c. \A i \in 1 .. Len(ls) : ls[i] = x.text[Own(q)][p + i]
  <2>1. \A i \in 1 .. Len(LF!LinesAt(x, q, j)) :
          LF!LinesAt(x, q, j)[i] = x.text[Own(q)][x.las[q].la_lpos + i]
    BY LinesText
  <2>2. QED BY <2>1
<1>b. Len(ls) \in Nat /\ p + Len(ls) <= Lsize(x, Own(q))
  BY LinesAre
<1>1. /\ ls \in Seq(Line) /\ Len(ls) = IF p + j > Lsize(x, f) THEN Lsize(x, f) - p ELSE j
      /\ \A i \in 1 .. Len(ls) : ls[i] = x.text[f][p + i]
      /\ Len(ls) \in Nat /\ p + Len(ls) <= Lsize(x, f)
  BY <1>a, <1>b, <1>c
<1>2. /\ \A i \in 1 .. at : y.text[f][i] = x.text[f][i]
      /\ \A i \in at + k + 1 .. Lsize(x, f) : y.text[f][i - k] = x.text[f][i]
  BY DelSets, Z3T(45)
<1>3. Fit(y, S) /\ Lsize(y, f) = Lsize(x, f) - k
  BY <1>0, DelIs
<1>4. /\ p >= at + k => y.las[q].la_lpos = p - k
      /\ p < at + k => y.las[q].la_lpos = IF p > at THEN at ELSE p
  BY DelPlaces
<1> HIDE DEF y, f, at, p, ls
<1> SUFFICES ASSUME p >= at + k \/ p + j <= at PROVE LF!LinesAt(y, q, j) = ls
  BY DEF p, at, y, ls
<1>h. p >= at + k \/ p + j <= at
  OBVIOUS
<1>q. Fit(y, S) /\ q \in Stream /\ j \in Nat /\ ls \in Seq(Line) /\ f = Own(q)
  BY <1>1, <1>3 DEF f
<1>5. CASE p >= at + k
  <2>0. y.las[q].la_lpos = p - k
    BY <1>4, <1>5
  <2>1. Len(ls) = IF p - k + j > Lsize(y, f) THEN Lsize(y, f) - (p - k) ELSE j
    <3>1. Len(ls) = IF p + j > Lsize(x, f) THEN Lsize(x, f) - p ELSE j
      BY <1>1
    <3>2. Lsize(y, f) = Lsize(x, f) - k
      BY <1>3
    <3>3. /\ p - k + j > Lsize(x, f) - k <=> p + j > Lsize(x, f)
          /\ (Lsize(x, f) - k) - (p - k) = Lsize(x, f) - p
      BY <1>0
    <3>4. QED BY <3>1, <3>2, <3>3
  <2>2. ASSUME NEW i \in 1 .. Len(ls) PROVE ls[i] = y.text[f][p - k + i]
    <3> DEFINE h == p + i
    <3>1. h \in at + k + 1 .. Lsize(x, f) /\ h - k = p - k + i
      BY <1>0, <1>1, <1>5
    <3>2. ls[i] = x.text[f][h]
      BY <1>1
    <3> HIDE DEF h
    <3>3. y.text[f][h - k] = x.text[f][h]
      BY <3>1, <1>2
    <3>4. QED BY <3>1, <3>2, <3>3
  <2>h. PICK h : h = p - k OBVIOUS
  <2>a. /\ h = y.las[q].la_lpos
        /\ Len(ls) = IF h + j > Lsize(y, Own(q)) THEN Lsize(y, Own(q)) - h ELSE j
        /\ \A i \in 1 .. Len(ls) : ls[i] = y.text[Own(q)][h + i]
    BY <1>q, <2>0, <2>1, <2>2, <2>h
  <2>3. LF!LinesAt(y, q, j) = ls
    BY <1>q, <2>a, SameLines, Z3T(45)
  <2>4. QED BY <2>3
<1>6. CASE ~ (p >= at + k)
  <2>0. p + j <= at /\ y.las[q].la_lpos = p
    BY <1>0, <1>4, <1>6, <1>h
  <2>1. /\ Len(ls) = IF p + j > Lsize(y, f) THEN Lsize(y, f) - p ELSE j
        /\ Len(ls) = j
    BY <1>0, <1>1, <1>3, <2>0
  <2>2. ASSUME NEW i \in 1 .. Len(ls) PROVE ls[i] = y.text[f][p + i]
    <3>1. p + i \in 1 .. at
      BY <1>0, <1>1, <2>0, <2>1
    <3>2. QED BY <3>1, <1>1, <1>2
  <2>a. /\ p = y.las[q].la_lpos
        /\ Len(ls) = IF p + j > Lsize(y, Own(q)) THEN Lsize(y, Own(q)) - p ELSE j
        /\ \A i \in 1 .. Len(ls) : ls[i] = y.text[Own(q)][p + i]
    BY <1>q, <2>0, <2>1, <2>2
  <2>3. LF!LinesAt(y, q, j) = ls
    BY <1>q, <2>a, SameLines, Z3T(45)
  <2>4. QED BY <2>3
<1>7. QED BY <1>5, <1>6

LEMMA NoneAt ==
  ASSUME NEW S, NEW x, Fit(x, S), NEW q \in Stream
  PROVE  LF!LinesAt(x, q, 0) = << >>
<1> DEFINE ls == LF!LinesAt(x, q, 0)
<1>1. ls \in Seq(Line) /\ Len(ls) \in Nat /\ Len(ls) <= 0
  BY LinesAre
<1> HIDE DEF ls
<1>2. ls = << >>
  BY <1>1
<1>3. QED BY <1>2 DEF ls

(* Whatever is inserted, reserved lines stay, all together, or are no longer reserved. *)
LEMMA InsStill ==
  ASSUME NEW S, NEW x, Fit(x, S), NEW s \in Stream, NEW new \in Seq(Line), NEW q \in Stream
  PROVE  Still(x, Ins(x, s, new), q)
<1> DEFINE y  == Ins(x, s, new)
           at == x.las[s].la_lpos
           p  == x.las[q].la_lpos
           n  == x.las[q].la_rlines
<1>0. p \in Nat /\ n \in Nat /\ at \in Nat
  BY Placed
<1>1. Fit(y, S)
  BY InsIs
<1>2. CASE Own(q) # Own(s)
  BY <1>2, InsApart, SameIs
<1>3. CASE new = << >>
  <2>1. y = x
    BY <1>3 DEF Ins, Done, LF!Ins, Fit, States
  <2>2. QED BY <2>1 DEF Still
<1>4. CASE Own(q) = Own(s) /\ new # << >>
  <2>1. /\ p > at \/ (p = at /\ ~ x.las[q].la_stay) => y.las[q].la_rlines = n
        /\ p < at \/ (p = at /\ x.las[q].la_stay) =>
             /\ p + n <= at => y.las[q].la_rlines = n
             /\ p + n > at /\ Len(new) # 0 => y.las[q].la_rlines = 0
    BY <1>4, InsPlaces
  <2>2. p > at \/ (p = at /\ ~ x.las[q].la_stay) \/ p + n <= at =>
          LF!LinesAt(y, q, n) = LF!LinesAt(x, q, n)
    BY <1>0, <1>4, InsLines
  <2>3. Len(new) # 0
    BY <1>4
  <2>4. LF!LinesAt(y, q, 0) = << >>
    BY <1>1, NoneAt
  <2>5. Res(x, q) = LF!LinesAt(x, q, n) /\ Res(y, q) = LF!LinesAt(y, q, y.las[q].la_rlines)
    BY DEF Res
  <2> HIDE DEF y, at, p, n
  <2>6. \/ y.las[q].la_rlines = n /\ (p > at \/ (p = at /\ ~ x.las[q].la_stay) \/ p + n <= at)
        \/ y.las[q].la_rlines = 0
    BY <1>0, <2>1, <2>3
  <2>7. Res(y, q) \in {Res(x, q), << >>}
    BY <2>2, <2>4, <2>5, <2>6
  <2>8. QED BY <2>7 DEF Still, y
<1>5. QED BY <1>2, <1>3, <1>4

(* So it is when lines are deleted that are none of them; and step after   *)
(* step.                                                                   *)
LEMMA DelStill ==
  ASSUME NEW S, NEW x, Fit(x, S), NEW s \in Stream, NEW j \in Nat, NEW q \in Stream
  PROVE  Still(x, Done(x, LF!Del(x, s, j)), q)
<1> DEFINE y  == Done(x, LF!Del(x, s, j))
           k  == Len(LF!LinesAt(x, s, j))
           at == x.las[s].la_lpos
           p  == x.las[q].la_lpos
           n  == x.las[q].la_rlines
<1>0. p \in Nat /\ n \in Nat /\ at \in Nat /\ k \in Nat
  BY Placed, LinesAre
<1>1. Fit(y, S)
  BY DelIs
<1>2. CASE Own(q) # Own(s)
  BY <1>2, DelApart, SameIs
<1>3. CASE k = 0
  <2>1. y = x
    BY <1>3 DEF Done, LF!Del, Fit, States
  <2>2. QED BY <2>1 DEF Still
<1>4. CASE Own(q) = Own(s) /\ k # 0
  <2>k. k = Len(LF!LinesAt(x, s, j)) /\ y = Done(x, LF!Del(x, s, j)) /\ at = x.las[s].la_lpos
    OBVIOUS
  <2> HIDE DEF k, y, at
  <2>1. /\ p >= at + k => y.las[q].la_rlines = n
        /\ p < at + k => \/ y.las[q].la_rlines = 0
                         \/ y.las[q].la_rlines = n /\ p + n <= at
    BY <1>4, <2>k, DelPlaces
  <2>a. p >= x.las[s].la_lpos + k \/ p + n <= x.las[s].la_lpos =>
          LF!LinesAt(Done(x, LF!Del(x, s, j)), q, n) = LF!LinesAt(x, q, n)
    BY <1>0, <1>4, <2>k, DelLines
  <2>2. p >= at + k \/ p + n <= at => LF!LinesAt(y, q, n) = LF!LinesAt(x, q, n)
    BY <2>a, <2>k
  <2>4. LF!LinesAt(y, q, 0) = << >>
    BY <1>1, NoneAt
  <2>5. Res(x, q) = LF!LinesAt(x, q, n) /\ Res(y, q) = LF!LinesAt(y, q, y.las[q].la_rlines)
    BY DEF Res
  <2> HIDE DEF p, n
  <2>6. \/ y.las[q].la_rlines = n /\ (p >= at + k \/ p + n <= at)
        \/ y.las[q].la_rlines = 0
    BY <1>0, <2>1
  <2>7. Res(y, q) \in {Res(x, q), << >>}
    BY <2>2, <2>4, <2>5, <2>6
  <2>8. QED BY <2>7 DEF Still, y
<1>5. QED BY <1>2, <1>3, <1>4

LEMMA StillThen ==
  ASSUME NEW x, NEW y, NEW z, NEW q, Still(x, y, q), Still(y, z, q)
  PROVE  Still(x, z, q)
  BY DEF Still

LEMMA MoveStill ==
  ASSUME NEW S, NEW x, Fit(x, S), NEW s \in Stream, NEW n \in Nat,
         NEW d \in Stream \cup {None}, NEW q \in Stream
  PROVE  Still(x, Move(x, s, n, d), q)
<1> DEFINE z  == Done(x, LF!Del(x, s, n))
           ls == LF!LinesAt(x, s, n)
<1>1. Fit(z, S) /\ Still(x, z, q)
  BY DelIs, DelStill
<1>2. ls \in Seq(Line)
  BY LinesAre
<1>3. Move(x, s, n, None) = z /\ \A e \in Stream : Move(x, s, n, e) = Ins(z, e, ls)
  BY MoveIsTwo
<1> HIDE DEF z, ls
<1>4. CASE d = None
  BY <1>1, <1>3, <1>4
<1>5. CASE d \in Stream
  <2>1. Still(z, Ins(z, d, ls), q)
    BY <1>1, <1>2, <1>5, InsStill
  <2>2. QED BY <1>1, <1>3, <1>5, <2>1, StillThen
<1>6. QED BY <1>4, <1>5

-----------------------------------------------------------------------------
(* A buffer's stream is where lines will come, and will stay there; it holds what came. *)
Ready(x, b)    == /\ x.las[buflas(b)].la_lpos = Lsize(x, qtmpfn(b))
                  /\ x.las[buflas(b)].la_stay
Took(x, b, ls) == /\ LF!LinesAt(x, buflas(b), Len(ls)) = ls
                  /\ x.las[buflas(b)].la_lpos + Len(ls) = Lsize(x, qtmpfn(b))

(* Lines that come where the stream has been told to stay are what it is   *)
(* then at.                                                                *)
LEMMA InsTakes ==
  ASSUME NEW S, NEW x, Fit(x, S), NEW b \in Buf, Ready(x, b), NEW new \in Seq(Line)
  PROVE  Took(Ins(x, fnlas(qtmpfn(b)), new), b, new)
<1> DEFINE s == fnlas(qtmpfn(b))
           q == buflas(b)
           f == qtmpfn(b)
           y == Ins(x, s, new)
           p == x.las[q].la_lpos
<1>1. s \in Stream /\ q \in Stream /\ f \in File /\ Own(s) = f /\ Own(q) = f /\ AtTail(s)
  BY Streams, NameAssumption DEF AtTail, fnlas, qtmpfn
<1>2. /\ p \in Nat /\ Len(new) \in Nat /\ p = Lsize(x, f) /\ x.las[q].la_stay
      /\ x.las[s].la_lpos = Lsize(x, f)
  BY <1>1, Placed, LenProperties DEF Ready, Fit, InFile, Lsize
<1> HIDE DEF s, q, f
<1>3. Fit(y, S) /\ Lsize(y, f) = Lsize(x, f) + Len(new)
  BY <1>1, InsIs
<1>4. y.las[q].la_lpos = p
  BY <1>1, <1>2, InsPlaces
<1>5. \A i \in 1 .. Len(new) : y.text[f][x.las[s].la_lpos + i] = new[i]
  BY <1>1, InsSets
<1>6. \A i \in 1 .. Len(new) : new[i] = y.text[f][p + i]
  BY <1>2, <1>5
<1> HIDE DEF y, p
<1>7. Len(new) = IF p + Len(new) > Lsize(y, Own(q)) THEN Lsize(y, Own(q)) - p ELSE Len(new)
  BY <1>1, <1>2, <1>3
<1>a. \A i \in 1 .. Len(new) : new[i] = y.text[Own(q)][p + i]
  BY <1>1, <1>6
<1>8. LF!LinesAt(y, q, Len(new)) = new
  <2>1. Fit(y, S) /\ q \in Stream /\ Len(new) \in Nat /\ p = y.las[q].la_lpos
    BY <1>1, <1>2, <1>3, <1>4
  <2>2. QED BY <2>1, <1>7, <1>a, SameLines
<1>9. y.las[q].la_lpos + Len(new) = Lsize(y, f)
  BY <1>2, <1>3, <1>4
<1>10. QED BY <1>8, <1>9 DEF Took, y, s, q, f

(* The stream is still ready when lines of the file have been taken out    *)
(* elsewhere.                                                              *)
LEMMA DelReady ==
  ASSUME NEW S, NEW x, Fit(x, S), NEW b \in Buf, Ready(x, b), NEW s \in Stream, NEW n \in Nat
  PROVE  Ready(Done(x, LF!Del(x, s, n)), b)
<1> DEFINE q == buflas(b)
           f == qtmpfn(b)
           y == Done(x, LF!Del(x, s, n))
           k == Len(LF!LinesAt(x, s, n))
           at == x.las[s].la_lpos
<1>1. q \in Stream /\ f \in File /\ Own(q) = f
  BY Streams
<1>2. x.las[q].la_lpos = Lsize(x, f) /\ x.las[q].la_stay
  BY DEF Ready
<1> HIDE DEF q, f
<1>3. CASE Own(s) # f
  <2>1. Same(x, y, q)
    BY <1>1, <1>3, DelApart
  <2>2. y.las[q].la_lpos = Lsize(y, f) /\ y.las[q].la_stay
    BY <1>1, <1>2, <2>1 DEF Same, Lsize
  <2>3. QED BY <2>2 DEF Ready, q, f
<1>4. CASE k = 0
  <2>1. y = x
    BY <1>4 DEF Done, LF!Del, Fit, States
  <2>2. QED BY <2>1
<1>5. CASE Own(s) = f /\ k # 0
  <2>k. k = Len(LF!LinesAt(x, s, n)) /\ y = Done(x, LF!Del(x, s, n)) /\ at = x.las[s].la_lpos
    OBVIOUS
  <2>0. at \in Nat /\ k \in Nat /\ at + k <= Lsize(x, f)
    BY <1>1, <1>5, LinesAre
  <2>1. Lsize(y, f) = Lsize(x, f) - k
    BY <1>1, <1>5, DelIs
  <2> HIDE DEF k, y, at
  <2>2. x.las[q].la_lpos >= at + k
    BY <1>2, <2>0
  <2>3. y.las[q].la_lpos = x.las[q].la_lpos - k /\ y.las[q].la_stay = x.las[q].la_stay
    BY <1>1, <1>5, <2>k, <2>2, DelPlaces
  <2>4. y.las[q].la_lpos = Lsize(y, f) /\ y.las[q].la_stay
    BY <1>2, <2>1, <2>3
  <2>5. QED BY <2>4 DEF Ready, q, f, y
<1>6. QED BY <1>3, <1>4, <1>5

(* Lines moved to the end of the buffer's file are what it holds. *)
LEMMA MoveTakes ==
  ASSUME NEW S, NEW x, Fit(x, S), NEW b \in Buf, Ready(x, b), NEW s \in Stream, NEW n \in Nat
  PROVE  Took(Move(x, s, n, fnlas(qtmpfn(b))), b, LF!LinesAt(x, s, n))
<1> DEFINE z  == Done(x, LF!Del(x, s, n))
           ls == LF!LinesAt(x, s, n)
           d  == fnlas(qtmpfn(b))
<1>1. Fit(z, S) /\ Ready(z, b)
  BY DelIs, DelReady
<1>2. ls \in Seq(Line) /\ d \in Stream
  BY LinesAre, Streams
<1>3. \A e \in Stream : Move(x, s, n, e) = Ins(z, e, ls)
  BY MoveIsTwo
<1> HIDE DEF z, ls
<1>4. Took(Ins(z, fnlas(qtmpfn(b)), ls), b, ls)
  BY <1>1, <1>2, InsTakes
<1>5. QED BY <1>2, <1>3, <1>4 DEF ls

(* Setting one stream, or the width of a buffer, leaves the texts and the  *)
(* others.                                                                 *)
LEMMA SetOne ==
  ASSUME NEW S, NEW x, Fit(x, S), NEW q \in Stream, NEW r \in Las
  PROVE  LET y == [x EXCEPT !.las[q] = r]
         IN  /\ y.text = x.text /\ y.ncols = x.ncols /\ y.las[q] = r
             /\ \A s \in Stream \ {q} : y.las[s] = x.las[s]
  BY DEF Fit, States

LEMMA SeekSets ==
  ASSUME NEW S, NEW x, Fit(x, S), NEW f \in File, NEW at \in Nat
  PROVE  LET y == Seek(x, f, at)
         IN  /\ y.text = x.text /\ y.ncols = x.ncols /\ y.las[curlas(f)].la_lpos = at
             /\ \A s \in Stream \ {curlas(f)} : y.las[s] = x.las[s]
<1> DEFINE q == curlas(f)
           r == [x.las[q] EXCEPT !.la_lpos = at]
           y == [x EXCEPT !.las[q] = r]
<1>1. q \in Stream /\ x.las[q] \in Las
  BY Streams, Placed
<1>2. r \in Las /\ r.la_lpos = at
  BY <1>1 DEF Las
<1>3. Seek(x, f, at) = y
  BY DEF Seek
<1> HIDE DEF r, q
<1>4. /\ y.text = x.text /\ y.ncols = x.ncols /\ y.las[q] = r
      /\ \A s \in Stream \ {q} : y.las[s] = x.las[s]
  BY <1>1, <1>2, SetOne
<1> HIDE DEF y
<1>5. QED BY <1>2, <1>3, <1>4 DEF q

LEMMA RlinesSets ==
  ASSUME NEW S, NEW x, Fit(x, S), NEW b \in Buf, NEW n \in Nat
  PROVE  LET y == Rlines(x, b, n)
             q == buflas(b)
         IN  /\ y.text = x.text /\ y.ncols = x.ncols
             /\ y.las[q].la_rlines = n /\ y.las[q].la_lpos = x.las[q].la_lpos
             /\ y.las[q].la_file = x.las[q].la_file
             /\ \A s \in Stream \ {q} : y.las[s] = x.las[s]
<1> DEFINE q == buflas(b)
           r == [x.las[q] EXCEPT !.la_rlines = n]
           y == [x EXCEPT !.las[q] = r]
<1>1. q \in Stream /\ x.las[q] \in Las
  BY Streams, Placed
<1>2. r \in Las /\ r.la_rlines = n /\ r.la_lpos = x.las[q].la_lpos /\ r.la_file = x.las[q].la_file
  BY <1>1 DEF Las
<1>3. Rlines(x, b, n) = y
  BY DEF Rlines
<1> HIDE DEF r, q
<1>4. /\ y.text = x.text /\ y.ncols = x.ncols /\ y.las[q] = r
      /\ \A s \in Stream \ {q} : y.las[s] = x.las[s]
  BY <1>1, <1>2, SetOne
<1> HIDE DEF y
<1>5. QED BY <1>2, <1>3, <1>4 DEF q

LEMMA StaySets ==
  ASSUME NEW S, NEW x, Fit(x, S), NEW b \in Buf, NEW on \in BOOLEAN
  PROVE  LET y == Stay(x, b, on)
             q == buflas(b)
         IN  /\ y.text = x.text /\ y.ncols = x.ncols
             /\ y.las[q].la_stay = on /\ y.las[q].la_lpos = x.las[q].la_lpos
             /\ y.las[q].la_file = x.las[q].la_file /\ y.las[q].la_rlines = x.las[q].la_rlines
             /\ \A s \in Stream \ {q} : y.las[s] = x.las[s]
<1> DEFINE q == buflas(b)
           r == [x.las[q] EXCEPT !.la_stay = on]
           y == [x EXCEPT !.las[q] = r]
<1>1. q \in Stream /\ x.las[q] \in Las
  BY Streams, Placed
<1>2. /\ r \in Las /\ r.la_stay = on /\ r.la_lpos = x.las[q].la_lpos
      /\ r.la_file = x.las[q].la_file /\ r.la_rlines = x.las[q].la_rlines
  BY <1>1 DEF Las
<1>3. Stay(x, b, on) = y
  BY DEF Stay
<1> HIDE DEF r, q
<1>4. /\ y.text = x.text /\ y.ncols = x.ncols /\ y.las[q] = r
      /\ \A s \in Stream \ {q} : y.las[s] = x.las[s]
  BY <1>1, <1>2, SetOne
<1> HIDE DEF y
<1>5. QED BY <1>2, <1>3, <1>4 DEF q

LEMMA StayOnSets ==
  ASSUME NEW S, NEW x, Fit(x, S), NEW b \in Buf
  PROVE  LET y == Stay(x, b, TRUE)
             q == buflas(b)
         IN  /\ y.text = x.text /\ y.ncols = x.ncols
             /\ y.las[q].la_stay /\ y.las[q].la_lpos = x.las[q].la_lpos
             /\ y.las[q].la_file = x.las[q].la_file /\ y.las[q].la_rlines = x.las[q].la_rlines
             /\ \A s \in Stream \ {q} : y.las[s] = x.las[s]
<1> DEFINE q == buflas(b)
           r == [x.las[q] EXCEPT !.la_stay = TRUE]
           y == [x EXCEPT !.las[q] = r]
<1>1. q \in Stream /\ x.las[q] \in Las
  BY Streams, Placed
<1>2. /\ r \in Las /\ r.la_stay /\ r.la_lpos = x.las[q].la_lpos
      /\ r.la_file = x.las[q].la_file /\ r.la_rlines = x.las[q].la_rlines
  BY <1>1 DEF Las
<1>3. Stay(x, b, TRUE) = y
  BY DEF Stay
<1> HIDE DEF r, q
<1>4. /\ y.text = x.text /\ y.ncols = x.ncols /\ y.las[q] = r
      /\ \A s \in Stream \ {q} : y.las[s] = x.las[s]
  BY <1>1, <1>2, SetOne
<1> HIDE DEF y
<1>5. QED BY <1>2, <1>3, <1>4 DEF q

LEMMA AlignSets ==
  ASSUME NEW S, NEW x, Fit(x, S), NEW b \in Buf, NEW s \in Stream, Own(s) = qtmpfn(b)
  PROVE  LET y == Align(x, s, b)
             q == buflas(b)
         IN  /\ y.text = x.text /\ y.ncols = x.ncols
             /\ y.las[q].la_lpos = x.las[s].la_lpos /\ y.las[q].la_stay = x.las[q].la_stay
             /\ y.las[q].la_file = x.las[q].la_file
             /\ \A t \in Stream \ {q} : y.las[t] = x.las[t]
<1> DEFINE q == buflas(b)
           r == [x.las[q] EXCEPT !.la_lpos = x.las[s].la_lpos]
           y == [x EXCEPT !.las[q] = r]
<1>1. q \in Stream /\ x.las[q] \in Las /\ x.las[s].la_lpos \in Nat /\ x.las[s].la_file = qtmpfn(b)
  BY Streams, Placed
<1>2. /\ r \in Las /\ r.la_lpos = x.las[s].la_lpos /\ r.la_stay = x.las[q].la_stay
      /\ r.la_file = x.las[q].la_file
  BY <1>1 DEF Las
<1>3. Align(x, s, b) = y
  BY <1>1 DEF Align
<1> HIDE DEF r, q
<1>4. /\ y.text = x.text /\ y.ncols = x.ncols /\ y.las[q] = r
      /\ \A t \in Stream \ {q} : y.las[t] = x.las[t]
  BY <1>1, <1>2, SetOne
<1> HIDE DEF y
<1>5. QED BY <1>2, <1>3, <1>4 DEF q

LEMMA NcolsSets ==
  ASSUME NEW S, NEW x, Fit(x, S), NEW b \in Buf, NEW v
  PROVE  LET y == [x EXCEPT !.ncols[b] = v]
         IN  y.text = x.text /\ y.las = x.las /\ y.ncols[b] = v
  BY DEF Fit, States

(* Lines at a place depend on the place and the text only. *)
LEMMA LinesOf ==
  ASSUME NEW x, NEW y, NEW q, NEW n, y.text = x.text,
         y.las[q].la_file = x.las[q].la_file, y.las[q].la_lpos = x.las[q].la_lpos
  PROVE  LF!LinesAt(y, q, n) = LF!LinesAt(x, q, n)
  BY DEF LF!LinesAt

LEMMA StayRes ==
  ASSUME NEW S, NEW x, Fit(x, S), NEW b \in Buf, NEW on \in BOOLEAN
  PROVE  Res(Stay(x, b, on), buflas(b)) = Res(x, buflas(b)) /\ Stay(x, b, on).ncols = x.ncols
<1> DEFINE y == Stay(x, b, on)
           q == buflas(b)
<1>1. /\ y.text = x.text /\ y.ncols = x.ncols /\ y.las[q].la_lpos = x.las[q].la_lpos
      /\ y.las[q].la_file = x.las[q].la_file /\ y.las[q].la_rlines = x.las[q].la_rlines
  BY StaySets
<1> HIDE DEF y, q
<1>2. Res(y, q) = Res(x, q)
  BY <1>1, LinesOf DEF Res
<1>3. QED BY <1>1, <1>2 DEF y, q

LEMMA EndRes ==
  ASSUME NEW S, NEW x, Fit(x, S), NEW b \in Buf, NEW n \in Nat
  PROVE  Res(End(x, b, n), buflas(b)) = LF!LinesAt(x, buflas(b), n) /\ End(x, b, n).ncols = x.ncols
<1> DEFINE y == Rlines(x, b, n)
           q == buflas(b)
<1>1. /\ y.text = x.text /\ y.ncols = x.ncols /\ y.las[q].la_lpos = x.las[q].la_lpos
      /\ y.las[q].la_file = x.las[q].la_file /\ y.las[q].la_rlines = n
  BY RlinesSets
<1>2. Fit(y, S)
  BY RlinesIs
<1>3. End(x, b, n) = Stay(y, b, FALSE)
  BY DEF End
<1> HIDE DEF y
<1>4. Res(Stay(y, b, FALSE), q) = Res(y, q) /\ Stay(y, b, FALSE).ncols = y.ncols
  BY <1>2, StayRes
<1> HIDE DEF q
<1>5. Res(y, q) = LF!LinesAt(x, q, n)
  BY <1>1, LinesOf DEF Res
<1>6. QED BY <1>1, <1>3, <1>4, <1>5 DEF q

-----------------------------------------------------------------------------

LEMMA NotCur ==
  /\ \A b \in Buf, f \in File : buflas(b) # curlas(f) /\ buflas(b) # fnlas(f) /\ curlas(f) # fnlas(f)
  /\ \A b \in Buf, f \in File : curlas(f) \in Stream \ {buflas(b)} /\ fnlas(f) \in Stream \ {buflas(b)}
  /\ \A b \in Buf, f \in File : buflas(b) \in Stream \ {curlas(f)} /\ fnlas(f) \in Stream \ {curlas(f)}
  BY Streams, StreamNames

(* edlines and receive are ready before lines come. *)
LEMMA AtEndSets ==
  ASSUME NEW S, NEW x, Fit(x, S), NEW b \in Buf
  PROVE  LET y == AtEnd(x, b)
             q == buflas(b)
         IN  /\ y.text = x.text /\ y.ncols = x.ncols
             /\ y.las[q].la_lpos = Lsize(x, qtmpfn(b)) /\ y.las[q].la_stay = x.las[q].la_stay
             /\ \A t \in Stream \ {q} : y.las[t] = x.las[t]
<1> DEFINE s == fnlas(qtmpfn(b))
<1>1. s \in Stream /\ Own(s) = qtmpfn(b) /\ AtTail(s)
  BY Streams, NameAssumption DEF AtTail, fnlas, qtmpfn
<1>2. x.las[s].la_lpos = Lsize(x, qtmpfn(b))
  BY <1>1 DEF Fit, InFile, Lsize
<1> HIDE DEF s
<1>3. LET y == Align(x, s, b)
          q == buflas(b)
      IN  /\ y.text = x.text /\ y.ncols = x.ncols
          /\ y.las[q].la_lpos = x.las[s].la_lpos /\ y.las[q].la_stay = x.las[q].la_stay
          /\ \A t \in Stream \ {q} : y.las[t] = x.las[t]
  BY <1>1, AlignSets
<1>4. AtEnd(x, b) = Align(x, s, b)
  BY DEF AtEnd, s
<1>5. QED BY <1>2, <1>3, <1>4

LEMMA BeginSets ==
  ASSUME NEW S, NEW x, Fit(x, S), NEW b \in Buf, NEW f \in File,
         NEW at \in Nat, at <= Lsize(x, f)
  PROVE  LET y == Begin(x, b, f, at)
             q == buflas(b)
         IN  /\ y.text = x.text /\ y.ncols[b] = 0 /\ y.las[curlas(f)].la_lpos = at
             /\ y.las[q].la_stay /\ y.las[q].la_lpos = x.las[q].la_lpos
             /\ y.las[q].la_file = x.las[q].la_file /\ y.las[q].la_rlines = x.las[q].la_rlines
<1> DEFINE T == S \cup {buflas(b)}
           q == buflas(b)
           u == [x EXCEPT !.ncols[b] = 0]
           v == Stay(u, b, TRUE)
           y == Seek(v, f, at)
<1>0. Fit(u, S)
  BY NcolsIs
<1>1. u.text = x.text /\ u.las = x.las /\ u.ncols[b] = 0
  BY NcolsSets
<1>2. Begin(x, b, f, at) = y
  BY DEF Begin
<1> HIDE DEF u
<1>3. Fit(v, T)
  BY <1>0, StayOn
<1>4. /\ v.text = u.text /\ v.ncols = u.ncols
      /\ v.las[q].la_stay /\ v.las[q].la_lpos = u.las[q].la_lpos
      /\ v.las[q].la_file = u.las[q].la_file /\ v.las[q].la_rlines = u.las[q].la_rlines
  BY <1>0, StayOnSets, ZenonT(45)
<1> HIDE DEF v
<1>5. /\ y.text = v.text /\ y.ncols = v.ncols /\ y.las[curlas(f)].la_lpos = at
      /\ \A s \in Stream \ {curlas(f)} : y.las[s] = v.las[s]
  BY <1>3, SeekSets
<1> HIDE DEF y
<1>6. y.las[q] = v.las[q]
  BY <1>5, NotCur
<1>7. QED BY <1>1, <1>2, <1>4, <1>5, <1>6 DEF q

LEMMA GetReady ==
  ASSUME NEW S, NEW x, Fit(x, S), NEW b \in Buf, NEW f \in File,
         NEW at \in Nat, at <= Lsize(x, f)
  PROVE  LET y == AtEnd(Begin(x, b, f, at), b)
         IN  /\ Fit(y, S \cup {buflas(b)}) /\ Ready(y, b) /\ y.text = x.text /\ y.ncols[b] = 0
             /\ y.las[curlas(f)].la_lpos = at
<1> DEFINE T == S \cup {buflas(b)}
           q == buflas(b)
           u == Begin(x, b, f, at)
           y == AtEnd(u, b)
<1>1. Fit(u, T)
  BY BeginIs
<1>2. u.text = x.text /\ u.ncols[b] = 0 /\ u.las[curlas(f)].la_lpos = at /\ u.las[q].la_stay
  BY BeginSets
<1> HIDE DEF u
<1>3. /\ Fit(y, T) /\ y.text = u.text /\ y.ncols = u.ncols
      /\ y.las[q].la_lpos = Lsize(u, qtmpfn(b)) /\ y.las[q].la_stay = u.las[q].la_stay
      /\ \A t \in Stream \ {q} : y.las[t] = u.las[t]
  BY <1>1, AtEndIs, AtEndSets
<1> HIDE DEF y
<1>4. y.las[curlas(f)] = u.las[curlas(f)]
  BY <1>3, NotCur
<1>5. Ready(y, b)
  BY <1>2, <1>3 DEF Ready, Lsize
<1>6. QED BY <1>2, <1>3, <1>4, <1>5 DEF u, y

LEMMA GivenReady ==
  ASSUME NEW S, NEW x, Fit(x, S), NEW b \in Buf, NEW f \in File,
         NEW at \in Nat, at <= Lsize(x, f)
  PROVE  LET y == Given(x, b, f, at)
         IN  /\ Ready(y, b) /\ y.text = x.text /\ y.ncols[b] = 0
             /\ y.las[curlas(f)].la_lpos = at
<1> DEFINE T == S \cup {buflas(b)}
           q == buflas(b)
           u == AtEnd(x, b)
           v == Stay(u, b, TRUE)
           w == Seek(v, f, at)
           y == [w EXCEPT !.ncols[b] = 0]
<1>1. Fit(u, S) /\ u.text = x.text /\ u.las[q].la_lpos = Lsize(x, qtmpfn(b))
  BY AtEndIs, AtEndSets
<1>2. Given(x, b, f, at) = y
  BY DEF Given
<1> HIDE DEF u
<1>3. Fit(v, T)
  BY <1>1, StayOn
<1>4. /\ v.text = u.text
      /\ v.las[q].la_stay /\ v.las[q].la_lpos = u.las[q].la_lpos
  BY <1>1, StayOnSets, ZenonT(45)
<1> HIDE DEF v
<1>5. /\ w.text = v.text /\ w.las[curlas(f)].la_lpos = at
      /\ \A s \in Stream \ {curlas(f)} : w.las[s] = v.las[s]
  BY <1>3, SeekSets
<1>6. Fit(w, T)
  BY <1>1, <1>3, <1>4, SeekIs DEF Lsize
<1> HIDE DEF w
<1>7. w.las[q] = v.las[q]
  BY <1>5, NotCur
<1>8. y.text = w.text /\ y.las = w.las /\ y.ncols[b] = 0
  BY <1>6, NcolsSets
<1> HIDE DEF y
<1>9. Ready(y, b)
  BY <1>1, <1>4, <1>5, <1>7, <1>8 DEF Ready, Lsize
<1>10. QED BY <1>1, <1>2, <1>4, <1>5, <1>8, <1>9

(* A stream at the lines that are asked for has them all, when there are   *)
(* so many.                                                                *)
LEMMA AtLines ==
  ASSUME NEW S, NEW x, Fit(x, S), NEW s \in Stream, NEW n \in Nat
  PROVE  LF!LinesAt(x, s, n) = The!Lines(x.text[Own(s)], x.las[s].la_lpos, n)
<1> DEFINE t  == x.text[Own(s)]
           at == x.las[s].la_lpos
<1>1. x.las[s].la_file = Own(s) /\ at \in Nat /\ Len(t) \in Nat
  BY Placed, Sizes, Owned DEF Lsize
<1>2. LF!LinesAt(x, s, n) = SubSeq(t, at + 1, IF at + n > Len(t) THEN Len(t) ELSE at + n)
  BY <1>1 DEF LF!LinesAt
<1> HIDE DEF t, at
<1>3. (IF at + n > Len(t) THEN Len(t) ELSE at + n) = The!Min2(at + n, Len(t))
  BY <1>1 DEF The!Min2
<1>4. LF!LinesAt(x, s, n) = The!Lines(t, at, n)
  BY <1>2, <1>3 DEF The!Lines
<1>5. QED BY <1>4 DEF t, at

LEMMA AllThere ==
  ASSUME NEW t \in Seq(Line), NEW at \in Nat, NEW n \in Nat, at <= Len(t)
  PROVE  LET c == The!Min2(n, Len(t) - at)
         IN  /\ c \in Nat /\ at + c <= Len(t) /\ The!Lines(t, at, c) = The!Lines(t, at, n)
<1>1. Len(t) \in Nat
  BY LenProperties
<1> DEFINE c == The!Min2(n, Len(t) - at)
<1>2. c \in Nat /\ at + c <= Len(t) /\ The!Min2(at + c, Len(t)) = The!Min2(at + n, Len(t))
  BY <1>1 DEF The!Min2
<1> HIDE DEF c
<1>3. The!Lines(t, at, c) = The!Lines(t, at, n)
  BY <1>2 DEF The!Lines
<1>4. QED BY <1>2, <1>3 DEF c

(* closelines and eraselines: the lines leave the file for the buffer,     *)
(* which holds them.                                                       *)
LEMMA CloseTakes ==
  ASSUME NEW S, NEW x, Fit(x, S), NEW b \in Buf, qtmpfn(b) = OLDLFILE,
         NEW f \in File, f # OLDLFILE, NEW at \in Nat, NEW n \in Nat, at + n <= Lsize(x, f)
  PROVE  LET y == CloseLines(x, b, f, at, n)
         IN  Res(y, buflas(b)) = The!Lines(x.text[f], at, n) /\ y.ncols[b] = 0
<1> DEFINE T  == S \cup {buflas(b)}
           v  == AtEnd(Begin(x, b, f, at), b)
           s  == curlas(f)
           q  == buflas(b)
           ls == LF!LinesAt(v, s, n)
           w  == Move(v, s, n, fnlas(OLDLFILE))
<1>0. at <= Lsize(x, f) /\ Lsize(x, f) \in Nat
  BY Sizes
<1>1. Fit(v, T) /\ Ready(v, b) /\ v.text = x.text /\ v.ncols[b] = 0 /\ v.las[s].la_lpos = at
  BY <1>0, GetReady
<1>2. CloseLines(x, b, f, at, n) = End(w, b, n)
  BY DEF CloseLines
<1> HIDE DEF v
<1>3. s \in Stream /\ Own(s) = f /\ fnlas(OLDLFILE) \in Stream \cup {None}
  BY Streams
<1> HIDE DEF s
<1>4. ls = The!Lines(x.text[f], at, n)
  BY <1>1, <1>3, AtLines
<1>5. Len(ls) = n
  <2>1. Len(ls) = IF v.las[s].la_lpos + n > Lsize(v, Own(s)) THEN Lsize(v, Own(s)) - v.las[s].la_lpos ELSE n
    BY <1>1, <1>3, LinesAre
  <2>2. Lsize(v, Own(s)) = Lsize(x, f)
    BY <1>1, <1>3 DEF Lsize
  <2> HIDE DEF ls
  <2>3. QED BY <1>0, <1>1, <2>1, <2>2
<1>6. Took(Move(v, s, n, fnlas(qtmpfn(b))), b, LF!LinesAt(v, s, n))
  BY <1>1, <1>3, MoveTakes
<1>7. LF!LinesAt(w, q, n) = ls
  <2>1. Took(w, b, ls)
    BY <1>6
  <2> HIDE DEF w, ls
  <2>2. QED BY <2>1, <1>5 DEF Took
<1>8. Fit(w, T) /\ w.ncols = v.ncols
  BY <1>1, <1>3, MoveIs
<1> HIDE DEF w, ls
<1>9. Res(End(w, b, n), q) = LF!LinesAt(w, q, n) /\ End(w, b, n).ncols = w.ncols
  BY <1>8, EndRes
<1>10. QED BY <1>1, <1>2, <1>4, <1>7, <1>8, <1>9

LEMMA EraseTakes ==
  ASSUME NEW S, NEW x, Fit(x, S), NEW b \in Buf, qtmpfn(b) = OLDLFILE,
         NEW f \in File, f # OLDLFILE, NEW at \in Nat, NEW n \in Nat, at + n <= Lsize(x, f)
  PROVE  LET y == EraseLines(x, b, f, at, n)
         IN  Res(y, buflas(b)) = The!Lines(x.text[f], at, n) /\ y.ncols[b] = 0
<1> DEFINE T  == S \cup {buflas(b)}
           v  == AtEnd(Begin(x, b, f, at), b)
           s  == curlas(f)
           q  == buflas(b)
           ls == LF!LinesAt(v, s, n)
           w  == Move(v, s, n, fnlas(OLDLFILE))
           bl == The!Blanks(n)
           z  == Ins(w, s, bl)
<1>0. at <= Lsize(x, f) /\ Lsize(x, f) \in Nat
  BY Sizes
<1>1. Fit(v, T) /\ Ready(v, b) /\ v.text = x.text /\ v.ncols[b] = 0 /\ v.las[s].la_lpos = at
  BY <1>0, GetReady
<1>2. EraseLines(x, b, f, at, n) = End(z, b, n)
  BY DEF EraseLines
<1> HIDE DEF v
<1>3. s \in Stream /\ Own(s) = f /\ q \in Stream /\ Own(q) # Own(s)
  BY Streams
<1>e. fnlas(OLDLFILE) \in Stream \cup {None}
  BY Streams
<1>b. bl \in Seq(Line)
  BY BlanksAre
<1> HIDE DEF s, bl
<1>4. ls = The!Lines(x.text[f], at, n)
  BY <1>1, <1>3, AtLines
<1>5. Len(ls) = n
  <2>1. Len(ls) = IF v.las[s].la_lpos + n > Lsize(v, Own(s)) THEN Lsize(v, Own(s)) - v.las[s].la_lpos ELSE n
    BY <1>1, <1>3, LinesAre
  <2>2. Lsize(v, Own(s)) = Lsize(x, f)
    BY <1>1, <1>3 DEF Lsize
  <2> HIDE DEF ls
  <2>3. QED BY <1>0, <1>1, <2>1, <2>2
<1>6. Took(Move(v, s, n, fnlas(qtmpfn(b))), b, LF!LinesAt(v, s, n))
  BY <1>1, <1>3, MoveTakes
<1>7. LF!LinesAt(w, q, n) = ls
  <2>1. Took(w, b, ls)
    BY <1>6
  <2> HIDE DEF w, ls
  <2>2. QED BY <2>1, <1>5 DEF Took
<1>8. Fit(w, T) /\ w.ncols = v.ncols
  <2>1. Fit(v, T) /\ s \in Stream
    BY <1>1, <1>3
  <2>2. QED BY <2>1, <1>e, MoveIs
<1> HIDE DEF w, ls, q
<1>a. Fit(z, T) /\ z.ncols = w.ncols
  BY <1>3, <1>8, <1>b, InsIs
<1>c. Same(w, z, q)
  BY <1>3, <1>8, <1>b, InsApart
<1> HIDE DEF z
<1>d. LF!LinesAt(z, q, n) = LF!LinesAt(w, q, n)
  BY <1>3, <1>8, <1>c, SameIs
<1>9. Res(End(z, b, n), buflas(b)) = LF!LinesAt(z, buflas(b), n) /\ End(z, b, n).ncols = z.ncols
  BY <1>a, EndRes
<1>10. QED BY <1>1, <1>2, <1>4, <1>7, <1>8, <1>9, <1>a, <1>d DEF q

(* What the buffer has reserved is there. *)
Whole(x, b) == x.las[buflas(b)].la_lpos + x.las[buflas(b)].la_rlines <= Lsize(x, qtmpfn(b))

(* The order to stay is taken back: the buffer still holds what came.      *)
LEMMA StayOffSets ==
  ASSUME NEW S, NEW x, Fit(x, S), NEW b \in Buf
  PROVE  LET y == Stay(x, b, FALSE)
             q == buflas(b)
         IN  /\ y.text = x.text
             /\ y.las[q].la_lpos = x.las[q].la_lpos /\ y.las[q].la_rlines = x.las[q].la_rlines
<1> DEFINE q == buflas(b)
           r == [x.las[q] EXCEPT !.la_stay = FALSE]
           y == [x EXCEPT !.las[q] = r]
<1>1. q \in Stream /\ x.las[q] \in Las
  BY Streams, Placed
<1>2. r \in Las /\ r.la_lpos = x.las[q].la_lpos /\ r.la_rlines = x.las[q].la_rlines
  BY <1>1 DEF Las
<1>3. Stay(x, b, FALSE) = y
  BY DEF Stay
<1> HIDE DEF r, q
<1>4. y.text = x.text /\ y.las[q] = r
  BY <1>1, <1>2, SetOne
<1> HIDE DEF y
<1>5. QED BY <1>2, <1>3, <1>4 DEF q

LEMMA EndSets ==
  ASSUME NEW S, NEW x, Fit(x, S), NEW b \in Buf, NEW n \in Nat
  PROVE  LET y == End(x, b, n)
             q == buflas(b)
         IN  /\ y.text = x.text
             /\ y.las[q].la_rlines = n /\ y.las[q].la_lpos = x.las[q].la_lpos
<1> DEFINE y == Rlines(x, b, n)
           z == Stay(y, b, FALSE)
           q == buflas(b)
<1>1. y.text = x.text /\ y.las[q].la_rlines = n /\ y.las[q].la_lpos = x.las[q].la_lpos
  BY RlinesSets
<1>2. Fit(y, S)
  BY RlinesIs
<1>3. End(x, b, n) = z
  BY DEF End
<1> HIDE DEF y
<1>5. z.text = y.text /\ z.las[q].la_lpos = y.las[q].la_lpos /\ z.las[q].la_rlines = y.las[q].la_rlines
  BY <1>2, StayOffSets
<1>6. QED BY <1>1, <1>3, <1>5

(* picklines: the copies are what the buffer holds.                        *)
LEMMA PickTakes ==
  ASSUME NEW S, NEW x, Fit(x, S), NEW b \in Buf, 
         NEW f \in File, f = PICKFILE => qtmpfn(b) = PICKFILE,
         NEW at \in Nat, NEW n \in Nat, at + n <= Lsize(x, f)
  PROVE  LET y == PickLines(x, b, f, at, n)
         IN  /\ Res(y, buflas(b)) = The!Lines(x.text[f], at, n) /\ y.ncols[b] = 0
             /\ f # PICKFILE => Whole(y, b)
<1> DEFINE T  == S \cup {buflas(b)}
           u  == Begin(x, b, f, at)
           s  == curlas(f)
           q  == buflas(b)
<1>0. at <= Lsize(x, f) /\ Lsize(x, f) \in Nat
  BY Sizes
<1>3. /\ s \in Stream /\ Own(s) = f /\ fnlas(qtmpfn(b)) \in Stream
      /\ q \in Stream /\ Own(q) = qtmpfn(b)
  BY Streams
<1>4. CASE f = PICKFILE
  <2> DEFINE v == Align(u, s, b)
  <2>1. PickLines(x, b, f, at, n) = End(v, b, n)
    BY <1>4 DEF PickLines
  <2>2. Fit(u, T)
    BY <1>0, BeginIs
  <2>3. u.text = x.text /\ u.ncols[b] = 0 /\ u.las[s].la_lpos = at
    BY <1>0, BeginSets
  <2> HIDE DEF u, s, q
  <2>4. Fit(v, T)
    BY <1>3, <2>2, AlignIs
  <2>5. v.text = u.text /\ v.ncols = u.ncols /\ v.las[buflas(b)].la_lpos = u.las[s].la_lpos
    BY <1>3, <1>4, <2>2, AlignSets
  <2> HIDE DEF v
  <2>6. LF!LinesAt(v, q, n) = The!Lines(v.text[Own(q)], v.las[q].la_lpos, n)
    BY <1>3, <2>4, AtLines
  <2>7. Res(End(v, b, n), buflas(b)) = LF!LinesAt(v, buflas(b), n) /\ End(v, b, n).ncols = v.ncols
    BY <2>4, EndRes
  <2>8. QED BY <1>3, <1>4, <2>1, <2>3, <2>5, <2>6, <2>7 DEF q
<1>5. CASE f # PICKFILE
  <2> DEFINE v  == AtEnd(u, b)
             ls == LF!LinesAt(v, s, n)
             w  == Ins(v, fnlas(qtmpfn(b)), ls)
  <2>1. PickLines(x, b, f, at, n) = End(w, b, n)
    BY <1>5 DEF PickLines, Copy
  <2>2. Fit(v, T) /\ Ready(v, b) /\ v.text = x.text /\ v.ncols[b] = 0 /\ v.las[s].la_lpos = at
    BY <1>0, GetReady
  <2> HIDE DEF v, s
  <2>3. ls = The!Lines(x.text[f], at, n)
    BY <1>3, <2>2, AtLines
  <2>4. Len(ls) = n /\ ls \in Seq(Line)
    <3>1. /\ Len(ls) = IF v.las[s].la_lpos + n > Lsize(v, Own(s)) THEN Lsize(v, Own(s)) - v.las[s].la_lpos ELSE n
          /\ ls \in Seq(Line)
      BY <1>3, <2>2, LinesAre
    <3>2. Lsize(v, Own(s)) = Lsize(x, f)
      BY <1>3, <2>2 DEF Lsize
    <3> HIDE DEF ls
    <3>3. QED BY <1>0, <2>2, <3>1, <3>2
  <2> HIDE DEF ls
  <2>5. Fit(w, T) /\ w.ncols = v.ncols
    BY <1>3, <2>2, <2>4, InsIs
  <2>6. Took(w, b, ls)
    BY <2>2, <2>4, InsTakes
  <2> HIDE DEF w
  <2>7. Res(End(w, b, n), buflas(b)) = LF!LinesAt(w, buflas(b), n) /\ End(w, b, n).ncols = w.ncols
    BY <2>5, EndRes
  <2>8. /\ End(w, b, n).text = w.text
        /\ End(w, b, n).las[buflas(b)].la_rlines = n
        /\ End(w, b, n).las[buflas(b)].la_lpos = w.las[buflas(b)].la_lpos
    BY <2>5, EndSets
  <2>9. w.las[buflas(b)].la_lpos + n = Lsize(w, qtmpfn(b)) /\ Lsize(w, qtmpfn(b)) \in Nat
    BY <2>4, <2>5, <2>6, Sizes, Streams DEF Took
  <2>10. Whole(End(w, b, n), b)
    BY <2>8, <2>9 DEF Whole, Lsize
  <2>11. Res(End(w, b, n), buflas(b)) = ls /\ End(w, b, n).ncols[b] = 0
    BY <2>2, <2>4, <2>5, <2>6, <2>7 DEF Took
  <2>12. QED BY <2>1, <2>3, <2>10, <2>11
<1>6. QED BY <1>4, <1>5

(* What is closed or erased in #o. *)
LEMMA OldStill ==
  ASSUME NEW S, NEW x, Fit(x, S), NEW b \in Buf, NEW at \in Nat, NEW n \in Nat,
         at <= Lsize(x, OLDLFILE)
  PROVE  /\ LET y == CloseLines(x, b, OLDLFILE, at, n)
            IN  Still(x, y, buflas(b)) /\ y.ncols[b] = 0
         /\ LET y == EraseLines(x, b, OLDLFILE, at, n)
            IN  Still(x, y, buflas(b)) /\ y.ncols[b] = 0
<1> DEFINE T == S \cup {buflas(b)}
           f == OLDLFILE
           q == buflas(b)
           s == curlas(f)
           u == Begin(x, b, f, at)
           v == Seek(u, f, at)
           w == Move(v, s, n, None)
           bl == The!Blanks(n)
           z == Ins(w, s, bl)
<1>0. f \in File /\ s \in Stream /\ q \in Stream /\ bl \in Seq(Line) /\ None \in Stream \cup {None}
  BY Streams, BlanksAre
<1>1. /\ CloseLines(x, b, f, at, n) = Stay(w, b, FALSE)
      /\ EraseLines(x, b, f, at, n) = Stay(z, b, FALSE)
  BY DEF CloseLines, EraseLines, CloseUnsaved
<1> HIDE DEF f
<1>2. at <= Lsize(x, f)
  BY DEF f
<1>3. Fit(u, T)
  BY <1>0, <1>2, BeginIs
<1>4. /\ u.text = x.text /\ u.ncols[b] = 0
      /\ u.las[q].la_lpos = x.las[q].la_lpos
      /\ u.las[q].la_file = x.las[q].la_file /\ u.las[q].la_rlines = x.las[q].la_rlines
  BY <1>0, <1>2, BeginSets
<1>5. Res(u, q) = Res(x, q)
  <2> HIDE DEF u, q
  <2>1. QED BY <1>4, LinesOf DEF Res
<1>6. at <= Lsize(u, f)
  BY <1>2, <1>4 DEF Lsize
<1> HIDE DEF u
<1>7. Fit(v, T)
  BY <1>0, <1>3, <1>6, SeekIs
<1>8. v.text = u.text /\ v.ncols = u.ncols /\ \A r \in Stream \ {curlas(f)} : v.las[r] = u.las[r]
  BY <1>0, <1>3, SeekSets
<1> HIDE DEF v
<1>9. Res(v, q) = Res(u, q)
  <2>1. q \in Stream \ {curlas(f)}
    BY <1>0, NotCur
  <2>2. v.las[q] = u.las[q]
    BY <1>8, <2>1
  <2> HIDE DEF q
  <2>3. QED BY <1>8, <2>2, LinesOf DEF Res
<1> HIDE DEF s, bl, q
<1>10. Fit(w, T) /\ w.ncols = v.ncols
  BY <1>0, <1>7, MoveIs, SMTT(45)
<1>11. Still(v, w, q)
  BY <1>0, <1>7, MoveStill
<1> HIDE DEF w
<1>12. Fit(z, T) /\ z.ncols = w.ncols
  BY <1>0, <1>10, InsIs
<1>13. Still(w, z, q)
  BY <1>0, <1>10, InsStill
<1> HIDE DEF z
<1>14. Still(v, z, q)
  BY <1>11, <1>13, StillThen
<1>15. FALSE \in BOOLEAN
  OBVIOUS
<1>16. /\ Res(Stay(w, b, FALSE), buflas(b)) = Res(w, buflas(b)) /\ Stay(w, b, FALSE).ncols = w.ncols
       /\ Res(Stay(z, b, FALSE), buflas(b)) = Res(z, buflas(b)) /\ Stay(z, b, FALSE).ncols = z.ncols
  BY <1>10, <1>12, <1>15, StayRes
<1>17. Still(x, Stay(w, b, FALSE), buflas(b)) /\ Still(x, Stay(z, b, FALSE), buflas(b))
  BY <1>5, <1>9, <1>11, <1>14, <1>16 DEF Still, q
<1>18. Stay(w, b, FALSE).ncols[b] = 0 /\ Stay(z, b, FALSE).ncols[b] = 0
  BY <1>4, <1>8, <1>10, <1>12, <1>16
<1>19. QED BY <1>1, <1>17, <1>18 DEF f

(* The pieces of a rectangle, each written at the end of the buffer's      *)
(* file, are what it holds (e.ru.c).                                       *)
LEMMA WriteOutTakes ==
  ASSUME NEW S, NEW x, Fit(x, S), NEW b \in Buf, NEW ls \in Seq(Line)
  PROVE  LET y == WriteOut(x, b, ls)
         IN  Res(y, buflas(b)) = The!Pieces(ls) /\ y.ncols[b] = 1 /\ Whole(y, b)
<1> DEFINE T == S \cup {buflas(b)}
           q == buflas(b)
           ps == The!Pieces(ls)
           n == Len(ls)
           u == AtEnd(x, b)
           y == Stay(u, b, TRUE)
           v == Ins(y, fnlas(qtmpfn(b)), ps)
           w == End(v, b, n)
           z == [w EXCEPT !.ncols[b] = 1]
<1>1. Fit(u, S) /\ u.text = x.text /\ u.las[q].la_lpos = Lsize(x, qtmpfn(b))
  BY AtEndIs, AtEndSets
<1>2. WriteOut(x, b, ls) = z
  BY DEF WriteOut
<1>3. n \in Nat /\ ps \in Seq(Line) /\ Len(ps) = n
  BY LenProperties, PiecesAre
<1> HIDE DEF u, n, ps
<1>4. Fit(y, T)
  BY <1>1, StayOn
<1>5. y.text = u.text /\ y.las[q].la_stay /\ y.las[q].la_lpos = u.las[q].la_lpos
  BY <1>1, StayOnSets, ZenonT(45)
<1> HIDE DEF y
<1>6. Ready(y, b)
  BY <1>1, <1>5 DEF Ready, Lsize
<1>7. fnlas(qtmpfn(b)) \in Stream
  BY Streams
<1>8. Fit(v, T)
  BY <1>3, <1>4, <1>7, InsIs
<1>9. Took(v, b, ps)
  BY <1>3, <1>4, <1>6, InsTakes
<1> HIDE DEF v
<1>10. Fit(w, S)
  BY <1>3, <1>8, EndIs
<1>11. Res(w, buflas(b)) = LF!LinesAt(v, buflas(b), n)
  BY <1>3, <1>8, EndRes
<1>12. w.text = v.text /\ w.las[buflas(b)].la_rlines = n /\ w.las[buflas(b)].la_lpos = v.las[buflas(b)].la_lpos
  BY <1>3, <1>8, EndSets
<1> HIDE DEF w
<1>13. z.text = w.text /\ z.las = w.las /\ z.ncols[b] = 1
  BY <1>10 DEF Fit, States
<1> HIDE DEF z
<1>14. Res(z, q) = Res(w, q)
  BY <1>13 DEF Res, LF!LinesAt
<1>15. v.las[q].la_lpos + n = Lsize(v, qtmpfn(b)) /\ LF!LinesAt(v, q, n) = ps
  BY <1>3, <1>9 DEF Took
<1>16. v.las[q].la_lpos \in Nat /\ Lsize(v, qtmpfn(b)) \in Nat
  BY <1>8, Streams, Placed, Sizes
<1>17. Whole(z, b)
  <2>1. z.las[q].la_lpos + z.las[q].la_rlines = Lsize(z, qtmpfn(b)) /\ Lsize(z, qtmpfn(b)) \in Nat
    BY <1>12, <1>13, <1>15, <1>16 DEF Lsize
  <2>2. QED BY <2>1 DEF Whole
<1>18. QED BY <1>2, <1>11, <1>13, <1>14, <1>15, <1>17 DEF ps

(* Lines that are appended to the buffer's file leave what it holds alone. *)
LEMMA AppendRes ==
  ASSUME NEW S, NEW x, Fit(x, S), NEW b \in Buf, Whole(x, b), NEW new \in Seq(Line)
  PROVE  Res(Ins(x, fnlas(qtmpfn(b)), new), buflas(b)) = Res(x, buflas(b))
<1> DEFINE s == fnlas(qtmpfn(b))
           q == buflas(b)
           y == Ins(x, s, new)
           p == x.las[q].la_lpos
           n == x.las[q].la_rlines
<1>1. s \in Stream /\ q \in Stream /\ Own(s) = Own(q) /\ AtTail(s) /\ Own(s) = qtmpfn(b)
  BY Streams, NameAssumption DEF AtTail, fnlas, qtmpfn
<1>2. p \in Nat /\ n \in Nat /\ x.las[s].la_lpos \in Nat /\ p + n <= x.las[s].la_lpos
  BY <1>1, Placed DEF Whole, Fit, InFile, Lsize
<1> HIDE DEF s, q
<1> DEFINE at == x.las[s].la_lpos
<1>3. /\ x.las[q].la_lpos > at \/ (x.las[q].la_lpos = at /\ ~ x.las[q].la_stay) =>
           /\ y.las[q].la_lpos = x.las[q].la_lpos + Len(new)
           /\ y.las[q].la_rlines = x.las[q].la_rlines
      /\ x.las[q].la_lpos < at \/ (x.las[q].la_lpos = at /\ x.las[q].la_stay) =>
           /\ y.las[q].la_lpos = x.las[q].la_lpos
           /\ x.las[q].la_lpos + x.las[q].la_rlines <= at => y.las[q].la_rlines = x.las[q].la_rlines
           /\ x.las[q].la_lpos + x.las[q].la_rlines > at /\ Len(new) # 0 => y.las[q].la_rlines = 0
  <2>1. s \in Stream /\ q \in Stream /\ Own(q) = Own(s)
    BY <1>1
  <2>2. at = x.las[s].la_lpos /\ y = Ins(x, s, new)
    OBVIOUS
  <2> HIDE DEF at, y
  <2>3. QED BY <2>1, <2>2, InsPlaces
<1>4. x.las[q].la_lpos + n <= x.las[s].la_lpos =>
        LF!LinesAt(Ins(x, s, new), q, n) = LF!LinesAt(x, q, n)
  BY <1>1, <1>2, InsLines, ZenonT(45)
<1>5. y.las[q].la_rlines = n
  <2> HIDE DEF y
  <2>1. QED BY <1>2, <1>3
<1>6. QED BY <1>2, <1>4, <1>5 DEF Res, s, q

LEMMA SameWhole ==
  ASSUME NEW S, NEW x, Fit(x, S), NEW b \in Buf, Whole(x, b), NEW y, Same(x, y, buflas(b))
  PROVE  Whole(y, b)
  BY Streams DEF Whole, Same, Lsize

LEMMA SeekRes ==
  ASSUME NEW S, NEW x, Fit(x, S), NEW f \in File, NEW at \in Nat, NEW b \in Buf
  PROVE  Same(x, Seek(x, f, at), buflas(b)) /\ Seek(x, f, at).ncols = x.ncols
<1> DEFINE y == Seek(x, f, at)
<1>1. y.text = x.text /\ y.ncols = x.ncols /\ \A s \in Stream \ {curlas(f)} : y.las[s] = x.las[s]
  BY SeekSets
<1> HIDE DEF y
<1>2. buflas(b) \in Stream \ {curlas(f)}
  BY NotCur
<1>3. y.las[buflas(b)] = x.las[buflas(b)]
  BY <1>1, <1>2
<1>4. Same(x, y, buflas(b)) /\ y.ncols = x.ncols
  BY <1>1, <1>3 DEF Same
<1>5. QED BY <1>4 DEF y

(* Lines of another file that go to the end of #o. *)
LEMMA MoveRes ==
  ASSUME NEW S, NEW x, Fit(x, S), NEW b \in Buf, qtmpfn(b) = OLDLFILE, Whole(x, b),
         NEW f \in File, f # OLDLFILE, NEW n \in Nat
  PROVE  /\ Res(Move(x, curlas(f), n, fnlas(OLDLFILE)), buflas(b)) = Res(x, buflas(b))
         /\ Res(Move(x, curlas(f), n, None), buflas(b)) = Res(x, buflas(b))
<1> DEFINE s  == curlas(f)
           q  == buflas(b)
           d  == fnlas(qtmpfn(b))
           z  == Done(x, LF!Del(x, s, n))
           ls == LF!LinesAt(x, s, n)
<1>1. s \in Stream /\ Own(s) = f /\ q \in Stream /\ Own(q) # Own(s) /\ d \in Stream
  BY Streams
<1> HIDE DEF s
<1>2. Fit(z, S)
  BY <1>1, DelIs
<1>3. Same(x, z, q)
  BY <1>1, DelApart
<1>4. ls \in Seq(Line)
  BY <1>1, LinesAre
<1>5. Move(x, s, n, None) = z /\ \A e \in Stream : Move(x, s, n, e) = Ins(z, e, ls)
  BY <1>1, MoveIsTwo
<1> HIDE DEF z, ls
<1>6. Res(z, q) = Res(x, q)
  <2> HIDE DEF q
  <2>1. QED BY <1>1, <1>3, SameIs
<1>7. Whole(z, b)
  BY <1>3, SameWhole
<1>8. Res(Ins(z, fnlas(qtmpfn(b)), ls), buflas(b)) = Res(z, buflas(b))
  BY <1>2, <1>4, <1>7, AppendRes
<1>9. QED BY <1>1, <1>5, <1>6, <1>8 DEF s

(* Lines of a file written anew, blanked or cut, through moves to #o: what *)
(* a buffer holds stays.                                                   *)
LEMMA RewriteRes ==
  ASSUME NEW S, NEW x, Fit(x, S), NEW b \in Buf, qtmpfn(b) = OLDLFILE, Whole(x, b),
         NEW f \in File, NEW at \in Nat, at <= Lsize(x, f), NEW new \in Seq(Line)
  PROVE  LET y == Rewrite(x, f, at, new)
         IN  /\ y.ncols = x.ncols
             /\ Still(x, y, buflas(b))
             /\ f # OLDLFILE => Res(y, buflas(b)) = Res(x, buflas(b))
<1> DEFINE s == curlas(f)
           q == buflas(b)
           d == fnlas(OLDLFILE)
           n == Len(new)
           u == Seek(x, f, at)
           v == Move(u, s, n, d)
           y == Ins(v, s, new)
<1>1. s \in Stream /\ Own(s) = f /\ q \in Stream /\ Own(q) = OLDLFILE /\ d \in Stream \cup {None}
  BY Streams
<1>2. Rewrite(x, f, at, new) = y
  BY DEF Rewrite
<1>3. n \in Nat
  BY LenProperties
<1>4. Fit(u, S)
  BY SeekIs
<1>5. Same(x, u, q) /\ u.ncols = x.ncols
  BY SeekRes
<1> HIDE DEF u, n
<1>6. Fit(v, S) /\ v.ncols = u.ncols
  BY <1>1, <1>3, <1>4, MoveIs, ZenonT(45)
<1>7. Still(u, v, q)
  <2> HIDE DEF s, d, q
  <2>1. QED BY <1>1, <1>3, <1>4, MoveStill
<1>8. Whole(u, b)
  BY <1>5, SameWhole
<1>9. f # OLDLFILE => Res(v, q) = Res(u, q)
  <2>1. SUFFICES ASSUME f # OLDLFILE PROVE Res(v, q) = Res(u, q)
    OBVIOUS
  <2>2. QED BY <1>3, <1>4, <1>8, <2>1, MoveRes
<1> HIDE DEF v, s, q
<1>10. y.ncols = v.ncols
  BY <1>1, <1>6, InsIs
<1>11. Still(v, y, q)
  BY <1>1, <1>6, InsStill
<1>12. f # OLDLFILE => Res(y, q) = Res(v, q)
  <2>1. SUFFICES ASSUME f # OLDLFILE PROVE Res(y, q) = Res(v, q)
    OBVIOUS
  <2>2. Same(v, y, q)
    BY <1>1, <1>6, <2>1, InsApart
  <2> HIDE DEF y
  <2>3. QED BY <1>1, <1>6, <2>2, SameIs
<1>13. Res(u, q) = Res(x, q)
  BY <1>1, <1>5, SameIs
<1> HIDE DEF y
<1>14. Still(x, y, q)
  BY <1>7, <1>11, <1>13, StillThen DEF Still
<1>15. QED BY <1>2, <1>5, <1>6, <1>9, <1>10, <1>12, <1>13, <1>14 DEF q

(* pickrect; and clearing a rectangle, which also writes its lines anew.   *)
LEMMA PickRectTakes ==
  ASSUME NEW S, NEW x, Fit(x, S), NEW b \in Buf, NEW f \in File, NEW at \in Nat, NEW n \in Nat
  PROVE  LET y == PickRect(x, b, f, at, n)
         IN  /\ Res(y, buflas(b)) = The!Pieces(The!Area(x.text[f], at, n))
             /\ y.ncols[b] = 1 /\ Whole(y, b)
<1> DEFINE ls == Area(x, f, at, n)
<1>1. ls \in Seq(Line)
  BY AreaIs
<1>2. PickRect(x, b, f, at, n) = WriteOut(x, b, ls) /\ ls = The!Area(x.text[f], at, n)
  BY DEF PickRect, Area
<1> HIDE DEF ls
<1>3. QED BY <1>1, <1>2, WriteOutTakes

LEMMA ClearRectTakes ==
  ASSUME NEW S, NEW x, Fit(x, S), NEW b \in Buf, qtmpfn(b) = OLDLFILE,
         NEW f \in File, NEW at \in Nat, at <= Lsize(x, f), NEW n \in Nat
  PROVE  LET y  == ClearRect(x, b, f, at, n)
             ps == The!Pieces(The!Area(x.text[f], at, n))
         IN  /\ Res(y, buflas(b)) \in {ps, << >>} /\ y.ncols[b] = 1
             /\ f # OLDLFILE => Res(y, buflas(b)) = ps
<1> DEFINE y   == PickRect(x, b, f, at, n)
           new == The!Without(Area(y, f, at, n))
           z   == Rewrite(y, f, at, new)
           ps  == The!Pieces(The!Area(x.text[f], at, n))
<1>1. Fit(y, S) /\ Kept(x, y)
  BY PickRectIs
<1>2. ClearRect(x, b, f, at, n) = z
  BY DEF ClearRect
<1>a. Res(y, buflas(b)) = ps /\ y.ncols[b] = 1 /\ Whole(y, b)
  BY PickRectTakes
<1> HIDE DEF y, ps
<1>3. new \in Seq(Line)
  BY <1>1, AreaIs, PiecesAre
<1>4. at <= Lsize(y, f)
  <2>1. Lsize(x, f) \in Nat /\ Lsize(y, f) \in Nat
    BY <1>1, Sizes
  <2>2. QED BY <1>1, <2>1 DEF Kept
<1> HIDE DEF new
<1>5. /\ z.ncols = y.ncols
      /\ Still(y, z, buflas(b))
      /\ f # OLDLFILE => Res(z, buflas(b)) = Res(y, buflas(b))
  BY <1>1, <1>3, <1>4, <1>a, RewriteRes
<1> HIDE DEF z
<1>6. QED BY <1>2, <1>5, <1>a DEF Still, ps

(* Where the streams are when lines of #o have been moved to its end. *)
LEMMA MovePlace ==
  ASSUME NEW S, NEW x, Fit(x, S), NEW b \in Buf, qtmpfn(b) = OLDLFILE, Ready(x, b),
         NEW n \in Nat, NEW at \in Nat, x.las[curlas(OLDLFILE)].la_lpos = at, at + n <= Lsize(x, OLDLFILE)
  PROVE  LET v == Move(x, curlas(OLDLFILE), n, fnlas(OLDLFILE))
             p == v.las[buflas(b)].la_lpos
             o == v.las[curlas(OLDLFILE)].la_lpos
         IN  p > o \/ p + n <= o
<1> DEFINE s  == curlas(OLDLFILE)
           q  == buflas(b)
           d  == fnlas(OLDLFILE)
           ls == LF!LinesAt(x, s, n)
           z  == Done(x, LF!Del(x, s, n))
           v  == Move(x, s, n, d)
           k  == Len(ls)
           L  == Lsize(x, OLDLFILE)
<1>1. /\ s \in Stream /\ Own(s) = OLDLFILE /\ q \in Stream /\ Own(q) = OLDLFILE
      /\ d \in Stream /\ Own(d) = OLDLFILE /\ OLDLFILE \in File
  BY Streams
<1>a. AtTail(d) /\ s \notin BufStreams
  BY NameAssumption, StreamNames DEF AtTail, fnlas, BufStreams, curlas, buflas
<1>k. k = Len(LF!LinesAt(x, s, n)) /\ z = Done(x, LF!Del(x, s, n)) /\ x.las[s].la_lpos = at
  OBVIOUS
<1>2. v = Ins(z, d, ls)
  <2>1. \A e \in Stream : Move(x, s, n, e) = Ins(z, e, ls)
    BY <1>1, MoveIsTwo
  <2>2. QED BY <1>1, <2>1
<1> HIDE DEF s, q, d
<1>3. k = n /\ ls \in Seq(Line) /\ L \in Nat
  <2>1. /\ k = IF x.las[s].la_lpos + n > Lsize(x, Own(s)) THEN Lsize(x, Own(s)) - x.las[s].la_lpos ELSE n
        /\ ls \in Seq(Line)
    BY <1>1, LinesAre
  <2>2. L \in Nat
    BY <1>1, Sizes
  <2> HIDE DEF k, ls
  <2>3. QED BY <1>1, <1>k, <2>1, <2>2 DEF L
<1>4. Fit(z, S) /\ Lsize(z, OLDLFILE) = L - n
  <2>1. Fit(z, S) /\ Lsize(z, OLDLFILE) = L - k
    BY <1>1, DelIs
  <2> HIDE DEF z, k, L
  <2>2. QED BY <2>1, <1>3
<1>5. Ready(z, b)
  BY <1>1, DelReady
<1> HIDE DEF ls, v
<1>6. z.las[s].la_lpos = at
  <2>1. CASE k = 0
    <3>1. z = x
      BY <2>1 DEF Done, LF!Del, Fit, States, ls
    <3> HIDE DEF z
    <3>2. QED BY <1>k, <3>1
  <2>2. CASE k # 0
    <3>1. k = Len(LF!LinesAt(x, s, n)) /\ s \in Stream /\ Own(s) = Own(s)
      BY <1>1, <1>k
    <3> HIDE DEF z, k, L
    <3>2. x.las[s].la_lpos < at + k =>
            z.las[s].la_lpos = IF x.las[s].la_lpos > at THEN at ELSE x.las[s].la_lpos
      BY <1>k, <2>2, <3>1, DelPlaces, SMTT(45)
    <3>3. QED BY <1>k, <1>3, <2>2, <3>2
  <2>3. QED BY <2>1, <2>2
<1> HIDE DEF z, L, k
<1>7. z.las[d].la_lpos = L - n /\ z.las[q].la_lpos = L - n /\ z.las[q].la_stay
  BY <1>1, <1>4, <1>5, <1>a DEF Ready, Fit, InFile, Lsize, q
<1>8. ~ z.las[s].la_stay
  BY <1>1, <1>4, <1>a DEF Fit
<1>9. Len(ls) = n
  BY <1>3 DEF k
<1> DEFINE e == L - n
<1>10. e = z.las[d].la_lpos /\ v = Ins(z, d, ls)
  BY <1>2, <1>7
<1> HIDE DEF e
<1>11. v.las[q].la_lpos = z.las[q].la_lpos
  <2>1. z.las[q].la_lpos < e \/ (z.las[q].la_lpos = e /\ z.las[q].la_stay) =>
          v.las[q].la_lpos = z.las[q].la_lpos
    BY <1>1, <1>3, <1>4, <1>10, InsPlaces
  <2>2. QED BY <2>1, <1>7, <1>10
<1>12. /\ z.las[s].la_lpos > e \/ (z.las[s].la_lpos = e /\ ~ z.las[s].la_stay) =>
            v.las[s].la_lpos = z.las[s].la_lpos + Len(ls)
       /\ z.las[s].la_lpos < e \/ (z.las[s].la_lpos = e /\ z.las[s].la_stay) =>
            v.las[s].la_lpos = z.las[s].la_lpos
  BY <1>1, <1>3, <1>4, <1>10, InsPlaces
<1>13. e \in Nat /\ at <= e
  BY <1>3 DEF e, L
<1>14. v.las[q].la_lpos = e
  BY <1>7, <1>10, <1>11
<1>15. CASE at < e
  <2>1. v.las[s].la_lpos = at
    BY <1>6, <1>12, <1>15
  <2>2. v.las[q].la_lpos > v.las[s].la_lpos
    BY <1>13, <1>14, <1>15, <2>1
  <2>3. QED BY <2>2 DEF v, s, q, d
<1>16. CASE at = e
  <2>1. v.las[s].la_lpos = e + n
    BY <1>6, <1>8, <1>9, <1>12, <1>16
  <2>2. v.las[q].la_lpos + n <= v.las[s].la_lpos
    BY <1>13, <1>14, <2>1
  <2>3. QED BY <2>2 DEF v, s, q, d
<1>17. QED BY <1>13, <1>15, <1>16

(* receive: what a program was given is replaced, and is what its buffer   *)
(* holds.                                                                  *)
LEMMA ReceiveTakes ==
  ASSUME NEW S, NEW x, Fit(x, S), NEW b \in Buf, qtmpfn(b) = OLDLFILE,
         NEW f \in File, NEW at \in Nat, NEW n \in Nat, at + n <= Lsize(x, f), NEW new \in Seq(Line)
  PROVE  LET y == receive(x, b, f, at, n, new)
         IN  Res(y, buflas(b)) = The!Lines(x.text[f], at, n) /\ y.ncols[b] = 0
<1> DEFINE T  == S \cup {buflas(b)}
           v  == Given(x, b, f, at)
           s  == curlas(f)
           q  == buflas(b)
           ls == LF!LinesAt(v, s, n)
           w  == Move(v, s, n, fnlas(OLDLFILE))
           z  == Ins(w, s, new)
<1>0. at <= Lsize(x, f) /\ Lsize(x, f) \in Nat
  BY Sizes
<1>1. Ready(v, b) /\ v.text = x.text /\ v.ncols[b] = 0 /\ v.las[s].la_lpos = at
  BY <1>0, GivenReady
<1>f. Fit(v, T)
  BY <1>0, GivenIs
<1>2. receive(x, b, f, at, n, new) = End(z, b, n)
  BY DEF receive
<1> HIDE DEF v
<1>3. s \in Stream /\ Own(s) = f /\ q \in Stream /\ Own(q) = OLDLFILE
  BY Streams
<1>e. fnlas(OLDLFILE) \in Stream \cup {None}
  BY Streams
<1>p. f = OLDLFILE => w.las[q].la_lpos > w.las[s].la_lpos \/ w.las[q].la_lpos + n <= w.las[s].la_lpos
  <2>1. SUFFICES ASSUME f = OLDLFILE
                 PROVE  w.las[q].la_lpos > w.las[s].la_lpos \/ w.las[q].la_lpos + n <= w.las[s].la_lpos
    OBVIOUS
  <2>2. v.las[curlas(OLDLFILE)].la_lpos = at /\ at + n <= Lsize(v, OLDLFILE)
    BY <1>1, <2>1 DEF Lsize
  <2>3. LET y == Move(v, curlas(OLDLFILE), n, fnlas(OLDLFILE))
            p == y.las[buflas(b)].la_lpos
            o == y.las[curlas(OLDLFILE)].la_lpos
        IN  p > o \/ p + n <= o
    BY <1>1, <1>f, <2>2, MovePlace
  <2>4. QED BY <2>1, <2>3
<1> HIDE DEF s
<1>4. ls = The!Lines(x.text[f], at, n)
  BY <1>1, <1>f, <1>3, AtLines
<1>5. Len(ls) = n
  <2>1. Len(ls) = IF v.las[s].la_lpos + n > Lsize(v, Own(s)) THEN Lsize(v, Own(s)) - v.las[s].la_lpos ELSE n
    BY <1>f, <1>3, LinesAre
  <2>2. Lsize(v, Own(s)) = Lsize(x, f)
    BY <1>1, <1>3 DEF Lsize
  <2> HIDE DEF ls
  <2>3. QED BY <1>0, <1>1, <2>1, <2>2
<1>6. Took(Move(v, s, n, fnlas(qtmpfn(b))), b, LF!LinesAt(v, s, n))
  BY <1>1, <1>f, <1>3, MoveTakes
<1>7. LF!LinesAt(w, q, n) = ls
  <2>1. Took(w, b, ls)
    BY <1>6
  <2> HIDE DEF w, ls
  <2>2. QED BY <2>1, <1>5 DEF Took
<1>8. Fit(w, T) /\ w.ncols = v.ncols
  <2>1. Fit(v, T) /\ s \in Stream
    BY <1>f, <1>3
  <2>2. QED BY <2>1, <1>e, MoveIs
<1> HIDE DEF w, ls, q
<1>a. Fit(z, T) /\ z.ncols = w.ncols
  BY <1>3, <1>8, InsIs
<1>d. LF!LinesAt(z, q, n) = LF!LinesAt(w, q, n)
  <2>1. CASE f = OLDLFILE
    <3>1. \/ w.las[q].la_lpos > w.las[s].la_lpos
          \/ w.las[q].la_lpos = w.las[s].la_lpos /\ ~ w.las[q].la_stay
          \/ w.las[q].la_lpos + n <= w.las[s].la_lpos
          => LF!LinesAt(Ins(w, s, new), q, n) = LF!LinesAt(w, q, n)
      BY <1>3, <1>8, <2>1, InsLines
    <3>2. QED BY <1>p, <2>1, <3>1
  <2>2. CASE f # OLDLFILE
    <3>1. Same(w, z, q)
      BY <1>3, <1>8, <2>2, InsApart
    <3> HIDE DEF z
    <3>2. QED BY <1>3, <1>8, <3>1, SameIs
  <2>3. QED BY <2>1, <2>2
<1> HIDE DEF z
<1>9. Res(End(z, b, n), buflas(b)) = LF!LinesAt(z, buflas(b), n) /\ End(z, b, n).ncols = z.ncols
  BY <1>a, EndRes
<1>10. QED BY <1>1, <1>2, <1>4, <1>7, <1>8, <1>9, <1>a, <1>d DEF q

(* What an insertion does to the lines of its file.                        *)
LEMMA InsTexts ==
  ASSUME NEW S, NEW x, Fit(x, S), NEW s \in Stream, NEW new \in Seq(Line),
         NEW f, f = Own(s), NEW at, at = x.las[s].la_lpos,
         NEW y, y = Ins(x, s, new)
  PROVE  /\ \A i \in 1 .. at : y.text[f][i] = x.text[f][i]
         /\ \A i \in 1 .. Len(new) : y.text[f][at + i] = new[i]
         /\ \A i \in at + 1 .. Lsize(x, f) : y.text[f][i + Len(new)] = x.text[f][i]
  BY InsSets

(* putline replaces one line of the file, and no other. *)
LEMMA putlineSets ==
  ASSUME NEW S, NEW x, Fit(x, S), NEW f \in File, NEW at \in Nat, at < Lsize(x, f), NEW l \in Line
  PROVE  LET y == putline(x, f, at, l)
         IN  /\ y.text[f][at + 1] = l
             /\ \A i \in 1 .. Lsize(x, f) : i # at + 1 => y.text[f][i] = x.text[f][i]
<1> DEFINE old == IF at < Lsize(x, f) /\ x.text[f][at + 1] # The!Blank
                    THEN fnlas(OLDLFILE) ELSE None
           s  == curlas(f)
           new == << l >>
           u  == Seek(x, f, at)
           v  == Ins(u, s, new)
           one == 1
           w  == Done(v, LF!Del(v, s, one))
           ls == LF!LinesAt(v, s, one)
           y  == Move(v, s, one, old)
           L  == Lsize(x, f)
<1>0. L \in Nat
  BY Sizes
<1>1. Fit(u, S) /\ u.text = x.text
  <2>1. at <= Lsize(x, f)
    BY <1>0
  <2>2. QED BY <2>1, SeekIs
<1>p. u.las[s].la_lpos = at
  BY SeekSets
<1>2. putline(x, f, at, l) = y
  BY DEF putline
<1>3. old \in Stream \cup {None} /\ s \in Stream /\ Own(s) = f /\ s \notin BufStreams
  BY Streams DEF BufStreams, curlas, buflas
<1>o. one \in Nat /\ one = 1
  OBVIOUS
<1> HIDE DEF old, u, s, one
<1>4. new \in Seq(Line) /\ Len(new) = 1 /\ new[1] = l
  OBVIOUS
<1>m. new \in Seq(Line)
  BY <1>4
<1> HIDE DEF new
<1>v. at = u.las[s].la_lpos /\ v = Ins(u, s, new)
  BY <1>p
<1> HIDE DEF v
<1>5. /\ \A i \in 1 .. at : v.text[f][i] = u.text[f][i]
      /\ \A i \in 1 .. Len(new) : v.text[f][at + i] = new[i]
      /\ \A i \in at + 1 .. Lsize(u, f) : v.text[f][i + Len(new)] = u.text[f][i]
  <2>1. s \in Stream /\ f = Own(s) /\ Fit(u, S)
    BY <1>1, <1>3
  <2>2. QED BY <2>1, <1>m, <1>v, InsTexts, SMTT(45)
<1>6. Fit(v, S) /\ Lsize(v, f) = Lsize(u, f) + Len(new)
  <2>1. s \in Stream /\ f = Own(s) /\ Fit(u, S)
    BY <1>1, <1>3
  <2>2. Fit(Ins(u, s, new), S) /\ \A g \in File : Lsize(Ins(u, s, new), g) =
           Lsize(u, g) + (IF g = Own(s) THEN Len(new) ELSE 0)
    BY <2>1, <1>m, InsIs
  <2>3. Lsize(Ins(u, s, new), f) = Lsize(u, f) + Len(new)
    BY <2>1, <2>2
  <2>4. QED BY <2>2, <2>3, <1>v
<1>7. v.las[s].la_lpos = at + 1
  <2>1. u.las[s].la_lpos > at \/ (u.las[s].la_lpos = at /\ ~ u.las[s].la_stay) =>
          v.las[s].la_lpos = u.las[s].la_lpos + Len(new)
    BY <1>1, <1>3, <1>m, <1>v, InsPlaces
  <2>2. ~ u.las[s].la_stay
    BY <1>1, <1>3 DEF Fit
  <2>3. QED BY <1>4, <1>p, <2>1, <2>2
<1>8. Lsize(u, f) = L /\ Lsize(v, f) = L + 1
  BY <1>1, <1>4, <1>6 DEF Lsize
<1>9. ls \in Seq(Line) /\ Len(ls) = 1
  <2>1. /\ Len(ls) = IF v.las[s].la_lpos + one > Lsize(v, Own(s)) THEN Lsize(v, Own(s)) - v.las[s].la_lpos ELSE one
        /\ ls \in Seq(Line)
    BY <1>3, <1>6, <1>o, LinesAre, ZenonT(45)
  <2> HIDE DEF ls
  <2>2. QED BY <1>0, <1>3, <1>7, <1>8, <1>o, <2>1 DEF L
<1>10. y \in {w, Ins(w, fnlas(OLDLFILE), ls)}
  <2>1. Move(v, s, one, None) = w /\ \A e \in Stream : Move(v, s, one, e) = Ins(w, e, ls)
    BY <1>3, <1>6, <1>o, MoveIsTwo
  <2>2. fnlas(OLDLFILE) \in Stream
    BY Streams
  <2> HIDE DEF w, ls
  <2>3. old \in {None, fnlas(OLDLFILE)}
    BY DEF old
  <2>4. QED BY <2>1, <2>2, <2>3
<1> DEFINE k == Len(ls)
           pos == at + 1
<1>w. pos = v.las[s].la_lpos /\ k = Len(LF!LinesAt(v, s, one)) /\ w = Done(v, LF!Del(v, s, one))
  BY <1>7
<1>a. k = 1
  BY <1>9
<1> HIDE DEF w, ls, k, pos
<1>11. /\ \A i \in 1 .. pos : w.text[f][i] = v.text[f][i]
       /\ \A i \in pos + k + 1 .. Lsize(v, f) : w.text[f][i - k] = v.text[f][i]
  BY <1>3, <1>6, <1>o, <1>w, DelSets, SMTT(45)
<1>12. Fit(w, S) /\ Lsize(w, f) = Lsize(v, f) - k
  BY <1>3, <1>6, <1>o, <1>w, DelIs
<1>13. Lsize(w, f) = L
  BY <1>0, <1>8, <1>12, <1>a
<1>14. ASSUME NEW i \in 1 .. L, i # at + 1 PROVE w.text[f][i] = x.text[f][i]
  <2>1. CASE i <= at
    <3>1. i \in 1 .. pos /\ i \in 1 .. at
      BY <2>1 DEF pos
    <3>2. QED BY <3>1, <1>11, <1>5, <1>1
  <2>2. CASE ~ (i <= at)
    <3> DEFINE h == i + 1
    <3>1. h \in pos + k + 1 .. Lsize(v, f) /\ h - k = i
      BY <1>0, <1>8, <1>14, <1>a, <2>2 DEF pos
    <3> HIDE DEF h
    <3>2. w.text[f][h - k] = v.text[f][h]
      BY <3>1, <1>11
    <3>3. i \in at + 1 .. Lsize(u, f)
      BY <1>0, <1>8, <2>2
    <3>4. v.text[f][i + Len(new)] = u.text[f][i]
      BY <3>3, <1>5
    <3>5. i + Len(new) = h
      BY <1>4 DEF h
    <3>6. QED BY <3>1, <3>2, <3>4, <3>5, <1>1
  <2>3. QED BY <2>1, <2>2
<1>15. w.text[f][at + 1] = l
  <2>1. at + 1 \in 1 .. pos /\ 1 \in 1 .. Len(new)
    BY <1>4 DEF pos
  <2>2. QED BY <2>1, <1>4, <1>5, <1>11
<1>16. CASE y = w
  <2> HIDE DEF y
  <2>1. QED BY <1>2, <1>14, <1>15, <1>16 DEF L
<1>17. CASE y = Ins(w, fnlas(OLDLFILE), ls)
  <2> DEFINE d == fnlas(OLDLFILE)
             p == w.las[d].la_lpos
  <2>1. d \in Stream /\ Own(d) = OLDLFILE /\ AtTail(d)
    BY Streams, NameAssumption DEF AtTail, fnlas
  <2>2. p = w.las[d].la_lpos /\ y = Ins(w, d, ls)
    BY <1>17
  <2> HIDE DEF d, p, y
  <2>3. /\ \A g \in File : g # OLDLFILE => y.text[g] = w.text[g]
        /\ \A i \in 1 .. p : y.text[OLDLFILE][i] = w.text[OLDLFILE][i]
    BY <1>9, <1>12, <2>1, <2>2, InsSets
  <2>4. f = OLDLFILE => p = L
    BY <1>12, <1>13, <2>1, <2>2 DEF Fit, InFile, Lsize
  <2>5. ASSUME NEW i \in 1 .. L PROVE y.text[f][i] = w.text[f][i]
    BY <2>3, <2>4
  <2>6. at + 1 \in 1 .. L
    BY <1>0 DEF L
  <2>7. QED BY <1>2, <1>14, <1>15, <2>5, <2>6 DEF L
<1>18. QED BY <1>10, <1>16, <1>17

(* What is between the two places that are joined. *)
Between(t, at, n) ==
  LET ls == The!Area(t, at, n + 1)
  IN  << The!Piece(ls[1]) >> \o SubSeq(ls, 2, n) \o << The!With(ls[n + 1], empty) >>

(* It is lines, and as many.                                               *)
LEMMA BetweenIs ==
  ASSUME NEW S, NEW x, Fit(x, S), NEW f \in File, NEW at \in Nat, NEW n \in Nat, n > 0,
         at + n < Lsize(x, f)
  PROVE  LET t  == x.text[f]
             ls == Area(x, f, at, n + 1)
             bs == Between(t, at, n)
         IN  /\ bs \in Seq(Line) /\ Len(bs) = n + 1
             /\ bs[1] = The!Piece(ls[1]) /\ bs[n + 1] = The!With(ls[n + 1], empty)
             /\ \A i \in 2 .. n : bs[i] = t[at + i]
<1> DEFINE t  == x.text[f]
           ls == Area(x, f, at, n + 1)
           p  == The!Piece(ls[1])
           w  == The!With(ls[n + 1], empty)
           m  == SubSeq(ls, 2, n)
           a  == << p >>
           c  == << w >>
           am == a \o m
           bs == am \o c
<1>0. t \in Seq(Line) /\ Len(t) \in Nat /\ Lsize(x, f) = Len(t)
  BY Sizes, LenProperties DEF Lsize
<1>1. ls \in Seq(Line) /\ Len(ls) = n + 1
  BY AreaIs
<1>2. Between(t, at, n) = bs
  BY DEF Between, Area
<1>3. ls = SubSeq(t, at + 1, at + n + 1)
  <2>0. at + (n + 1) <= Len(t)
    BY <1>0
  <2>1. The!Extended(t, at + (n + 1)) = t
    BY <2>0 DEF The!Extended
  <2>2. QED BY <2>1 DEF Area, The!Area
<1>4. p \in Line /\ w \in Line
  BY EndsOfArea, LineParts, QBufAssumption
<1> HIDE DEF t
<1>5. \A i \in 1 .. n + 1 : ls[i] = t[at + i]
  <2> DEFINE e == at + n + 1
             v == SubSeq(t, at + 1, e)
  <2>1. e \in Nat /\ at <= e /\ e <= Len(t) /\ e - at = n + 1
    BY <1>0
  <2> HIDE DEF e
  <2>2. \A i \in 1 .. e - at : SubSeq(t, at + 1, e)[i] = t[at + i]
    BY <1>0, <2>1, Parts
  <2>3. ls = SubSeq(t, at + 1, e)
    BY <1>3 DEF e
  <2> HIDE DEF ls
  <2>4. QED BY <2>1, <2>2, <2>3
<1> HIDE DEF ls, p, w
<1>6. m \in Seq(Line) /\ Len(m) = n - 1 /\ \A i \in 1 .. n - 1 : m[i] = ls[1 + i]
  <2>1. 1 \in Nat /\ 1 <= n /\ n <= Len(ls) /\ 1 + 1 = 2
    BY <1>1
  <2>2. /\ SubSeq(ls, 1 + 1, n) \in Seq(Line) /\ Len(SubSeq(ls, 1 + 1, n)) = n - 1
        /\ \A i \in 1 .. n - 1 : SubSeq(ls, 1 + 1, n)[i] = ls[1 + i]
    BY <1>1, <2>1, Parts
  <2>3. QED BY <2>1, <2>2
<1> HIDE DEF m
<1>7. /\ a \in Seq(Line) /\ Len(a) = 1 /\ a[1] = p
      /\ c \in Seq(Line) /\ Len(c) = 1 /\ c[1] = w
  BY <1>4
<1> HIDE DEF a, c
<1>8. /\ am \in Seq(Line) /\ Len(am) = Len(a) + Len(m)
      /\ \A i \in 1 .. Len(a) : am[i] = a[i]
      /\ \A i \in 1 .. Len(m) : am[Len(a) + i] = m[i]
  BY <1>6, <1>7, TwoParts
<1> HIDE DEF am
<1>9. Len(am) = n
  BY <1>6, <1>7, <1>8
<1>10. /\ bs \in Seq(Line) /\ Len(bs) = Len(am) + Len(c)
       /\ \A i \in 1 .. Len(am) : bs[i] = am[i]
       /\ \A i \in 1 .. Len(c) : bs[Len(am) + i] = c[i]
  BY <1>7, <1>8, TwoParts
<1> HIDE DEF bs
<1>11. bs \in Seq(Line) /\ Len(bs) = n + 1 /\ bs[n + 1] = w
  <2>1. 1 \in 1 .. Len(c)
    BY <1>7
  <2>2. bs[Len(am) + 1] = c[1]
    BY <2>1, <1>10
  <2>3. QED BY <1>7, <1>9, <1>10, <2>2
<1>12. bs[1] = p
  <2>1. 1 \in 1 .. Len(am) /\ 1 \in 1 .. Len(a)
    BY <1>7, <1>9
  <2>2. QED BY <2>1, <1>7, <1>8, <1>10
<1>13. ASSUME NEW i \in 2 .. n PROVE bs[i] = t[at + i]
  <2> DEFINE j == i - 1
  <2>1. j \in 1 .. n - 1 /\ 1 + j = i /\ i \in 1 .. Len(am) /\ i \in 1 .. n + 1
    BY <1>9
  <2> HIDE DEF j
  <2>2. am[1 + j] = m[j]
    BY <2>1, <1>6, <1>7, <1>8
  <2>3. m[j] = ls[1 + j]
    BY <2>1, <1>6
  <2>4. bs[i] = am[i] /\ ls[i] = t[at + i]
    BY <2>1, <1>5, <1>10
  <2>5. QED BY <2>1, <2>2, <2>3, <2>4
<1>14. QED BY <1>2, <1>11, <1>12, <1>13 DEF p, w, t, ls

(* When the last line has been cut, these are the lines at the first       *)
(* place.                                                                  *)
LEMMA CutLines ==
  ASSUME NEW S, NEW x, Fit(x, S), NEW f \in File, NEW at \in Nat, NEW n \in Nat, n > 0,
         at + n < Lsize(x, f)
  PROVE  The!Lines(Cut(x, f, at, n).text[f], at, n + 1) = Between(x.text[f], at, n)
<1> DEFINE t  == x.text[f]
           ls == Area(x, f, at, n + 1)
           k  == The!With(ls[n + 1], empty)
           l  == The!Piece(ls[1])
           y  == putline(x, f, at + n, k)
           z  == putline(y, f, at, l)
           bs == Between(t, at, n)
           L  == Lsize(x, f)
<1>0. L \in Nat /\ t \in Seq(Line) /\ Len(t) = L
  BY Sizes DEF Lsize
<1>1. k \in Line /\ l \in Line
  BY EndsOfArea, LineParts, QBufAssumption
<1>2. Cut(x, f, at, n) = z
  BY DEF Cut
<1>b. /\ bs \in Seq(Line) /\ Len(bs) = n + 1 /\ bs[1] = l /\ bs[n + 1] = k
      /\ \A i \in 2 .. n : bs[i] = t[at + i]
  BY BetweenIs
<1> HIDE DEF k, l, bs, ls
<1> DEFINE h == at + n
<1>h. h \in Nat /\ h < Lsize(x, f) /\ h <= Lsize(x, f) /\ y = putline(x, f, h, k)
  BY <1>0
<1> HIDE DEF h, y
<1>3. Fit(y, S) /\ Kept(x, y)
  BY <1>1, <1>h, putlineIs
<1>4. /\ y.text[f][h + 1] = k
      /\ \A i \in 1 .. Lsize(x, f) : i # h + 1 => y.text[f][i] = x.text[f][i]
  BY <1>1, <1>h, putlineSets
<1>5. Lsize(y, f) \in Nat /\ L <= Lsize(y, f)
  BY <1>3, Sizes DEF Kept
<1>6. at < Lsize(y, f) /\ at <= Lsize(y, f)
  BY <1>0, <1>5, <1>h DEF h
<1>7. Fit(z, S) /\ Kept(y, z)
  BY <1>1, <1>3, <1>6, putlineIs
<1>8. /\ z.text[f][at + 1] = l
      /\ \A i \in 1 .. Lsize(y, f) : i # at + 1 => z.text[f][i] = y.text[f][i]
  BY <1>1, <1>3, <1>6, putlineSets
<1> HIDE DEF z
<1> DEFINE e == at + n + 1
           u == z.text[f]
           v == SubSeq(u, at + 1, e)
<1>9. u \in Seq(Line) /\ Len(u) \in Nat /\ L <= Len(u)
  <2>1. u \in Seq(Line) /\ Lsize(z, f) \in Nat
    BY <1>7, Sizes
  <2>2. Lsize(y, f) <= Lsize(z, f)
    BY <1>7 DEF Kept
  <2>3. Lsize(z, f) = Len(u)
    BY DEF Lsize
  <2>4. L \in Nat
    BY <1>0
  <2> HIDE DEF u
  <2>5. QED BY <1>5, <2>1, <2>2, <2>3, <2>4
<1>10. e \in Nat /\ at <= e /\ e <= Len(u) /\ e - at = n + 1
  BY <1>0, <1>9, <1>h DEF h
<1>11. The!Lines(u, at, n + 1) = v
  <2>1. The!Min2(at + (n + 1), Len(u)) = e
    BY <1>9, <1>10 DEF The!Min2
  <2> HIDE DEF e, u
  <2>2. QED BY <2>1 DEF The!Lines
<1>12. ASSUME NEW i \in 1 .. n + 1 PROVE bs[i] = u[at + i]
  <2>1. CASE i = 1
    BY <1>8, <1>b, <2>1
  <2>2. CASE i = n + 1
    <3>1. h + 1 = at + i /\ h + 1 \in 1 .. Lsize(y, f) /\ h + 1 # at + 1
      BY <1>0, <1>5, <1>h, <2>2 DEF h
    <3>2. QED BY <1>4, <1>8, <1>b, <2>2, <3>1
  <2>3. CASE i \in 2 .. n
    <3> DEFINE j == at + i
    <3>1. j \in 1 .. L /\ j \in 1 .. Lsize(y, f) /\ j # h + 1 /\ j # at + 1
      BY <1>0, <1>5, <1>h, <2>3 DEF h
    <3> HIDE DEF j
    <3>2. u[j] = y.text[f][j] /\ y.text[f][j] = t[j]
      BY <3>1, <1>4, <1>8
    <3>3. bs[i] = t[at + i]
      BY <1>b, <2>3
    <3>4. QED BY <3>2, <3>3 DEF j
  <2>4. QED BY <2>1, <2>2, <2>3
<1> HIDE DEF u, e, L, t
<1>13. v \in Seq(Line) /\ Len(v) = e - at /\ \A i \in 1 .. e - at : v[i] = u[at + i]
  BY <1>9, <1>10, Parts
<1> HIDE DEF v
<1>14. v = bs
  <2>1. Len(v) = Len(bs)
    BY <1>10, <1>13, <1>b
  <2>2. \A i \in 1 .. Len(v) : v[i] = bs[i]
    BY <1>10, <1>12, <1>13
  <2>3. QED BY <1>13, <1>b, <2>1, <2>2, SeqEqual
<1>15. QED BY <1>2, <1>11, <1>14 DEF u, bs, t

(* putline, and dojoin after the lines were picked, leave what the buffer  *)
(* holds.                                                                  *)
LEMMA putlineRes ==
  ASSUME NEW S, NEW x, Fit(x, S), NEW b \in Buf, qtmpfn(b) = OLDLFILE, Whole(x, b),
         NEW f \in File, NEW at \in Nat, at <= Lsize(x, f), NEW l \in Line
  PROVE  LET y == putline(x, f, at, l)
         IN  /\ y.ncols = x.ncols
             /\ Still(x, y, buflas(b))
             /\ f # OLDLFILE => Res(y, buflas(b)) = Res(x, buflas(b))
<1> DEFINE old == IF at < Lsize(x, f) /\ x.text[f][at + 1] # The!Blank
                    THEN fnlas(OLDLFILE) ELSE None
           s  == curlas(f)
           q  == buflas(b)
           new == << l >>
           one == 1
           u  == Seek(x, f, at)
           v  == Ins(u, s, new)
           y  == Move(v, s, one, old)
<1>1. s \in Stream /\ Own(s) = f /\ q \in Stream /\ Own(q) = OLDLFILE
  BY Streams
<1>2. putline(x, f, at, l) = y
  BY DEF putline
<1>3. old \in {None, fnlas(OLDLFILE)} /\ old \in Stream \cup {None}
  BY Streams
<1>4. new \in Seq(Line) /\ one \in Nat
  OBVIOUS
<1> HIDE DEF old, new, one
<1>5. Fit(u, S)
  BY SeekIs
<1>6. Same(x, u, q) /\ u.ncols = x.ncols
  BY SeekRes
<1> HIDE DEF u, s, q
<1>7. Fit(v, S) /\ v.ncols = u.ncols
  BY <1>1, <1>4, <1>5, InsIs
<1>8. Still(u, v, q)
  BY <1>1, <1>4, <1>5, InsStill
<1>9. f # OLDLFILE => Same(u, v, q)
  <2>1. SUFFICES ASSUME f # OLDLFILE PROVE Same(u, v, q)
    OBVIOUS
  <2>2. QED BY <1>1, <1>4, <1>5, <2>1, InsApart
<1> HIDE DEF v
<1>10. y.ncols = v.ncols
  BY <1>1, <1>3, <1>4, <1>7, MoveIs
<1>11. Still(v, y, q)
  BY <1>1, <1>3, <1>4, <1>7, MoveStill
<1>12. Res(u, q) = Res(x, q)
  BY <1>1, <1>6, SameIs
<1>13. f # OLDLFILE => Res(y, q) = Res(v, q) /\ Res(v, q) = Res(u, q)
  <2>1. SUFFICES ASSUME f # OLDLFILE PROVE Res(y, q) = Res(v, q) /\ Res(v, q) = Res(u, q)
    OBVIOUS
  <2>2. Same(u, v, q)
    BY <1>9, <2>1
  <2>3. Res(v, q) = Res(u, q)
    BY <1>1, <1>5, <2>2, SameIs
  <2>4. Whole(u, b)
    BY <1>6, SameWhole DEF q
  <2>5. Whole(v, b)
    BY <1>5, <2>2, <2>4, SameWhole DEF q
  <2>6. /\ Res(Move(v, curlas(f), one, fnlas(OLDLFILE)), buflas(b)) = Res(v, buflas(b))
        /\ Res(Move(v, curlas(f), one, None), buflas(b)) = Res(v, buflas(b))
    BY <1>4, <1>7, <2>1, <2>5, MoveRes
  <2>7. QED BY <1>3, <2>3, <2>6 DEF q, s
<1> HIDE DEF y
<1>14. Still(x, y, q)
  BY <1>8, <1>11, <1>12, StillThen DEF Still
<1>15. QED BY <1>2, <1>6, <1>7, <1>10, <1>12, <1>13, <1>14 DEF q

LEMMA dojoinRes ==
  ASSUME NEW S, NEW x, Fit(x, S), NEW b \in Buf, qtmpfn(b) = OLDLFILE, Whole(x, b),
         NEW f \in File, NEW at \in Nat, at < Lsize(x, f), NEW n \in Nat, NEW l \in Line
  PROVE  LET y == dojoin(x, f, at, n, l)
         IN  /\ y.ncols = x.ncols
             /\ Still(x, y, buflas(b))
             /\ f # OLDLFILE => Res(y, buflas(b)) = Res(x, buflas(b))
<1> DEFINE q == buflas(b)
           s == curlas(f)
           k == at + 1
           u == putline(x, f, at, l)
           v == Seek(u, f, k)
           y == Move(v, s, n, None)
<1>0. Lsize(x, f) \in Nat /\ at <= Lsize(x, f) /\ k \in Nat
  BY Sizes
<1>1. Fit(u, S) /\ Kept(x, u)
  BY <1>0, putlineIs
<1>2. u.ncols = x.ncols /\ Still(x, u, q) /\ (f # OLDLFILE => Res(u, q) = Res(x, q))
  BY <1>0, putlineRes
<1>3. dojoin(x, f, at, n, l) = y
  BY DEF dojoin, CloseUnsaved
<1> HIDE DEF u
<1>4. k <= Lsize(u, f)
  <2>1. Lsize(u, f) \in Nat
    BY <1>1, Sizes
  <2>2. QED BY <1>0, <1>1, <2>1 DEF Kept
<1> HIDE DEF k
<1>5. Fit(v, S)
  BY <1>0, <1>1, <1>4, SeekIs
<1>6. Same(u, v, q) /\ v.ncols = u.ncols
  BY <1>0, <1>1, SeekRes
<1>7. s \in Stream /\ Own(s) = f /\ q \in Stream /\ Own(q) = OLDLFILE /\ None \in Stream \cup {None}
  BY Streams
<1> HIDE DEF v, s, q
<1>8. y.ncols = v.ncols
  BY <1>5, <1>7, MoveIs
<1>9. Still(v, y, q)
  BY <1>5, <1>7, MoveStill
<1>10. Res(v, q) = Res(u, q)
  BY <1>1, <1>6, <1>7, SameIs
<1>11. f # OLDLFILE => Res(y, q) = Res(v, q)
  <2>1. SUFFICES ASSUME f # OLDLFILE PROVE Res(y, q) = Res(v, q)
    OBVIOUS
  <2> DEFINE w == Done(v, LF!Del(v, s, n))
  <2>2. y = w
    BY <1>5, <1>7, MoveIsTwo
  <2>3. Same(v, w, q)
    BY <1>5, <1>7, <2>1, DelApart
  <2> HIDE DEF w, y
  <2>4. Res(w, q) = Res(v, q)
    BY <1>5, <1>7, <2>3, SameIs
  <2>5. QED BY <2>2, <2>4
<1> HIDE DEF y
<1>12. Still(x, y, q)
  BY <1>2, <1>9, <1>10, StillThen DEF Still
<1>13. QED BY <1>2, <1>3, <1>6, <1>8, <1>10, <1>11, <1>12 DEF q

(* Joining leaves what is between the two places. *)
LEMMA JoinTakes ==
  ASSUME NEW S, NEW x, Fit(x, S), NEW b \in Buf, qtmpfn(b) = OLDLFILE,
         NEW f \in File, f # PICKFILE, NEW at \in Nat, NEW n \in Nat, n > 0, at + n < Lsize(x, f),
         NEW l \in Line
  PROVE  LET y  == dojoin(PickLines(Cut(x, f, at, n), b, f, at, n + 1), f, at, n, l)
             bs == Between(x.text[f], at, n)
         IN  /\ y.ncols[b] = 0 /\ Res(y, buflas(b)) \in {bs, << >>}
             /\ f # OLDLFILE => Res(y, buflas(b)) = bs
<1> DEFINE u  == Cut(x, f, at, n)
           k  == n + 1
           v  == PickLines(u, b, f, at, k)
           y  == dojoin(v, f, at, n, l)
           bs == Between(x.text[f], at, n)
<1>0. Lsize(x, f) \in Nat /\ k \in Nat
  BY Sizes
<1>1. Fit(u, S) /\ Kept(x, u)
  BY CutIs
<1>2. The!Lines(u.text[f], at, k) = bs
  BY CutLines
<1> HIDE DEF u, bs
<1>3. at + k <= Lsize(u, f) /\ at <= Lsize(u, f) /\ at < Lsize(u, f)
  <2>1. Lsize(u, f) \in Nat
    BY <1>1, Sizes
  <2>2. QED BY <1>0, <1>1, <2>1 DEF Kept
<1> HIDE DEF k
<1>4. Fit(v, S) /\ Kept(u, v)
  BY <1>0, <1>1, <1>3, PickLinesIs
<1>5. Res(v, buflas(b)) = The!Lines(u.text[f], at, k) /\ v.ncols[b] = 0 /\ Whole(v, b)
  <2>1. f = PICKFILE => qtmpfn(b) = PICKFILE
    OBVIOUS
  <2>2. QED BY <1>0, <1>1, <1>3, <2>1, PickTakes
<1> HIDE DEF v
<1>6. at < Lsize(v, f)
  <2>1. Lsize(u, f) \in Nat /\ Lsize(v, f) \in Nat
    BY <1>1, <1>4, Sizes
  <2>2. QED BY <1>3, <1>4, <2>1 DEF Kept
<1>7. /\ y.ncols = v.ncols
      /\ Still(v, y, buflas(b))
      /\ f # OLDLFILE => Res(y, buflas(b)) = Res(v, buflas(b))
  BY <1>4, <1>5, <1>6, dojoinRes
<1> HIDE DEF y
<1>8. y.ncols[b] = 0 /\ Res(y, buflas(b)) \in {bs, << >>} /\ (f # OLDLFILE => Res(y, buflas(b)) = bs)
  BY <1>2, <1>5, <1>7 DEF Still
<1>9. QED BY <1>8 DEF y, v, u, k, bs

(* What a buffer holds in a state.                                         *)
HeldIn(x, b) == The!Holds(Res(x, buflas(b)), Res(x, buflas(b)) # << >> /\ x.ncols[b] > 0)

(* What a step must leave in the buffer it was about. *)
Takes(b) ==
  cmd'.buf = b /\ cmd'.opc \in {"pick", "close", "erase", "join", "run"} =>
    \/ Held(b)' \in Asked(st.text[cmd'.file], cmd')
    \/ cmd'.file = OLDLFILE /\ Held(b)' \in {Held(b), The!Nothing}
Right == \A b \in Buf : Takes(b)

(* After a command: what it held in the last of the command's states.      *)
LEMMA HeldNow == \A b \in Buf : Held(b) = HeldIn(st, b)
  BY DEF Held, HeldIn, Res, Reserved

LEMMA DoHeld ==
  ASSUME NEW opc, NEW c, NEW f, NEW at, NEW n,
         NEW S, NEW x, Fit(x, S), Do(opc, c, f, at, n, x), NEW b \in Buf
  PROVE  Held(b)' = HeldIn(x, b)
<1> DEFINE l == [s \in Stream |->
              IF s[1] = "curlas" THEN [x.las[s] EXCEPT !.la_lpos = 0] ELSE x.las[s]]
           y == [x EXCEPT !.las = l]
           q == buflas(b)
<1>1. st' = y
  BY DEF Do
<1>2. q \in Stream /\ q[1] # "curlas"
  BY Streams, StreamNames
<1>3. l[q] = x.las[q]
  BY <1>2
<1> HIDE DEF l
<1>4. y.text = x.text /\ y.las[q] = x.las[q] /\ y.ncols = x.ncols
  BY <1>3 DEF Fit, States
<1> HIDE DEF y
<1>5. st'.text = x.text /\ st'.las[q] = x.las[q] /\ st'.ncols = x.ncols
  BY <1>1, <1>4
<1>6. Held(b)' = The!Holds(LF!LinesAt(st', q, st'.las[q].la_rlines),
                    LF!LinesAt(st', q, st'.las[q].la_rlines) # << >> /\ st'.ncols[b] > 0)
  BY DEF Held, Reserved, The!Holds, LF!LinesAt, The!Nothing
<1>7. LF!LinesAt(st', q, st'.las[q].la_rlines) = Res(x, q)
  BY <1>5 DEF Res, LF!LinesAt
<1>8. QED BY <1>5, <1>6, <1>7 DEF HeldIn

(* A command of another kind promises nothing; what one that takes must    *)
(* leave.                                                                  *)
LEMMA DoOther ==
  ASSUME NEW opc, opc \in {"none", "edit", "put", "fail"}, NEW c, NEW f, NEW at, NEW n, NEW x,
         Do(opc, c, f, at, n, x)
  PROVE  Right
<1>1. cmd'.opc = opc
  BY DEF Do
<1>2. QED BY <1>1 DEF Right, Takes

LEMMA DoTakes ==
  ASSUME NEW opc, opc # "join", NEW b \in Buf, NEW f, NEW at, NEW n,
         NEW S, NEW x, Fit(x, S), Do(opc, b, f, at, n, x)
  PROVE  /\ HeldIn(x, b) \in {The!LinesAsked(st.text[f], at, n), The!RectAsked(st.text[f], at, n)} => Right
         /\ f = OLDLFILE /\ HeldIn(x, b) \in {Held(b), The!Nothing} => Right
<1>1. /\ cmd'.opc = opc /\ cmd'.buf = b /\ cmd'.file = f /\ cmd'.at = at /\ cmd'.n = n
      /\ cmd' = [opc |-> opc, buf |-> b, file |-> f, at |-> at, n |-> n]
  BY DEF Do
<1>2. Held(b)' = HeldIn(x, b)
  BY DoHeld
<1>3. Asked(st.text[cmd'.file], cmd') = {The!LinesAsked(st.text[f], at, n), The!RectAsked(st.text[f], at, n)}
  BY <1>1 DEF Asked
<1>4. QED BY <1>1, <1>2, <1>3 DEF Right, Takes

LEMMA DoJoins ==
  ASSUME NEW b \in Buf, NEW f, NEW at, NEW n,
         NEW S, NEW x, Fit(x, S), Do("join", b, f, at, n, x)
  PROVE  /\ HeldIn(x, b) = The!JoinAsked(st.text[f], at, n) => Right
         /\ f = OLDLFILE /\ HeldIn(x, b) \in {Held(b), The!Nothing} => Right
<1>1. /\ cmd'.opc = "join" /\ cmd'.buf = b /\ cmd'.file = f /\ cmd'.at = at /\ cmd'.n = n
  BY DEF Do
<1>2. Held(b)' = HeldIn(x, b)
  BY DoHeld
<1>3. Asked(st.text[cmd'.file], cmd') = {The!JoinAsked(st.text[f], at, n)}
  BY <1>1 DEF Asked
<1>4. QED BY <1>1, <1>2, <1>3 DEF Right, Takes

LEMMA HoldsLines ==
  ASSUME NEW x, NEW b, x.ncols[b] = 0
  PROVE  HeldIn(x, b) = The!Holds(Res(x, buflas(b)), FALSE)
<1> DEFINE p == Res(x, buflas(b)) # << >> /\ x.ncols[b] > 0
<1>1. ~ p
  BY SMT
<1>2. p \in BOOLEAN /\ HeldIn(x, b) = The!Holds(Res(x, buflas(b)), p)
  BY Zenon DEF HeldIn
<1> HIDE DEF p
<1>3. p = FALSE
  BY <1>1, <1>2
<1>4. QED BY <1>2, <1>3

LEMMA HoldsRect ==
  ASSUME NEW x, NEW b, x.ncols[b] = 1
  PROVE  /\ \A ps : Res(x, buflas(b)) = ps => HeldIn(x, b) = The!Holds(ps, TRUE)
         /\ Res(x, buflas(b)) = << >> => HeldIn(x, b) = The!Nothing
<1> DEFINE ls == Res(x, buflas(b))
           p  == ls # << >> /\ x.ncols[b] > 0
<1>1. ls # << >> => p
  BY SMT
<1>2. p \in BOOLEAN /\ HeldIn(x, b) = The!Holds(ls, p)
  BY Zenon DEF HeldIn
<1> HIDE DEF p, ls
<1>3. ls = << >> => HeldIn(x, b) = The!Nothing
  BY <1>2 DEF The!Holds
<1>4. ls # << >> => p = TRUE
  BY <1>1, <1>2
<1>5. HeldIn(x, b) = The!Holds(ls, TRUE)
  <2>1. CASE ls = << >>
    BY <1>3, <2>1 DEF The!Holds
  <2>2. CASE ls # << >>
    BY <1>2, <1>4, <2>2
  <2>3. QED BY <2>1, <2>2
<1>6. QED BY <1>3, <1>5 DEF ls

(* The assumptions: LA fails only where the editor undoes, and nothing is *)
(* joined in #p nor closed as lines in #o over a rectangle.               *)
Careful == ~ HalfFails /\ ~ JoinInPick /\ ~ CloseInOld

(* What is known of the buffers.                                           *)
LEMMA Names ==
  /\ QADJUST \in Buf /\ QPICK \in Buf /\ QCLOSE \in Buf /\ QERASE \in Buf /\ QRUN \in Buf
  /\ qtmpfn(QPICK) = PICKFILE
  /\ \A b \in {QADJUST, QCLOSE, QERASE, QRUN} : qtmpfn(b) = OLDLFILE
  BY NameAssumption DEF Buf, qtmpfn

(* The lines there are. *)
LEMMA CapIs ==
  ASSUME NEW S, Fit(st, S), NEW f \in File, NEW at \in Nat, NEW n \in Nat, at < size(f)
  PROVE  /\ at <= Lsize(st, f) /\ Cap(f, at, n) \in Nat /\ at + Cap(f, at, n) <= Lsize(st, f)
         /\ The!Lines(st.text[f], at, Cap(f, at, n)) = The!Lines(st.text[f], at, n)
<1> DEFINE t == st.text[f]
<1>1. t \in Seq(Line) /\ Len(t) \in Nat /\ Len(t) = size(f) /\ Lsize(st, f) = Len(t)
  BY Sizes DEF size, Lsize
<1> HIDE DEF t
<1>2. at <= Len(t)
  BY <1>1
<1> DEFINE c == The!Min2(n, Len(t) - at)
<1>3. c \in Nat /\ at + c <= Len(t) /\ The!Lines(t, at, c) = The!Lines(t, at, n)
  BY <1>1, <1>2, AllThere
<1>4. Cap(f, at, n) = c
  BY <1>1 DEF Cap
<1> HIDE DEF c
<1>5. QED BY <1>1, <1>2, <1>3, <1>4 DEF t

(* A buffer that holds the lines, or the rectangle, or in #o less than it held. *)
LEMMA LinesTaken ==
  ASSUME NEW opc, opc # "join", NEW b \in Buf, NEW f, NEW at, NEW n,
         NEW S, NEW x, Fit(x, S), Do(opc, b, f, at, n, x),
         Res(x, buflas(b)) = The!Lines(st.text[f], at, n), x.ncols[b] = 0
  PROVE  Right
<1>1. HeldIn(x, b) = The!LinesAsked(st.text[f], at, n)
  BY HoldsLines DEF The!LinesAsked
<1>2. QED BY <1>1, DoTakes

LEMMA RectTaken ==
  ASSUME NEW opc, opc # "join", NEW b \in Buf, NEW f, NEW at, NEW n,
         NEW S, NEW x, Fit(x, S), Do(opc, b, f, at, n, x), x.ncols[b] = 1,
         \/ Res(x, buflas(b)) = The!Pieces(The!Area(st.text[f], at, n))
         \/ f = OLDLFILE /\ Res(x, buflas(b)) = << >>
  PROVE  Right
<1>1. CASE Res(x, buflas(b)) = The!Pieces(The!Area(st.text[f], at, n))
  <2>1. HeldIn(x, b) = The!RectAsked(st.text[f], at, n)
    BY <1>1, HoldsRect DEF The!RectAsked
  <2>2. QED BY <2>1, DoTakes
<1>2. CASE f = OLDLFILE /\ Res(x, buflas(b)) = << >>
  <2>1. HeldIn(x, b) = The!Nothing
    BY <1>2, HoldsRect
  <2>2. QED BY <1>2, <2>1, DoTakes
<1>3. QED BY <1>1, <1>2

LEMMA OldTaken ==
  ASSUME NEW opc, opc # "join", NEW b \in Buf, NEW at, NEW n,
         NEW S, NEW x, Fit(x, S), Do(opc, b, OLDLFILE, at, n, x),
         x.ncols[b] = 0, st.ncols[b] = 0, Still(st, x, buflas(b))
  PROVE  Right
<1>1. HeldIn(x, b) = The!Holds(Res(x, buflas(b)), FALSE) /\ Held(b) = The!Holds(Res(st, buflas(b)), FALSE)
  BY HoldsLines, HeldNow
<1>2. HeldIn(x, b) \in {Held(b), The!Nothing}
  BY <1>1 DEF Still, The!Holds
<1>3. QED BY <1>2, DoTakes

(* Each command gives its buffer what it was asked for.                    *)
LEMMA TakeStep == Careful /\ Inv /\ [Next]_<< st, cmd, edits >> => [Right]_edits
<1> SUFFICES ASSUME Careful, Inv, Next PROVE Right
  <2>1. UNCHANGED << st, cmd, edits >> => UNCHANGED edits
    OBVIOUS
  <2>2. QED BY <2>1
<1>0. Fit(st, Left) /\ \A f \in File : size(f) \in Nat /\ size(f) = Lsize(st, f)
  BY Sizes DEF Inv, size
<1>n. ASSUME NEW f \in File, NEW at \in 0 .. size(f) + 1, NEW n \in Counts PROVE
        at \in Nat /\ n \in Nat /\ n > 0
  BY <1>0, QBufAssumption
<1>c. ASSUME NEW f \in File, NEW at \in Nat, NEW n \in Nat, at < size(f)
      PROVE  LET c == Cap(f, at, n)
             IN  /\ at <= Lsize(st, f) /\ c \in Nat /\ at + c <= Lsize(st, f)
                 /\ The!Lines(st.text[f], at, c) = The!Lines(st.text[f], at, n)
  BY <1>0, <1>c, CapIs
<1>1. ASSUME NEW f \in File, NEW at \in 0 .. size(f) + 1, NEW n \in Counts, Pick(f, at, n)
      PROVE  Right
  <2> DEFINE c == Cap(f, at, n)
             x == PickLines(st, QPICK, f, at, c)
             y == PickRect(st, QPICK, f, at, n)
             o == "pick"
  <2>1. at \in Nat /\ n \in Nat /\ at < size(f) /\ o # "join"
    BY <1>1, <1>n DEF Pick
  <2>2. /\ at <= Lsize(st, f) /\ c \in Nat /\ at + c <= Lsize(st, f)
        /\ The!Lines(st.text[f], at, c) = The!Lines(st.text[f], at, n)
    BY <1>c, <2>1
  <2>3. Do(o, QPICK, f, at, n, x) \/ Do(o, QPICK, f, at, n, y)
    BY <1>1 DEF Pick
  <2> HIDE DEF c, o
  <2>4. Fit(x, Left) /\ Fit(y, Left)
    BY <1>0, <2>1, <2>2, Names, PickLinesIs, PickRectIs
  <2>5. Res(x, buflas(QPICK)) = The!Lines(st.text[f], at, c) /\ x.ncols[QPICK] = 0
    BY <1>0, <2>1, <2>2, Names, PickTakes
  <2>6. /\ Res(y, buflas(QPICK)) = The!Pieces(The!Area(st.text[f], at, n))
        /\ y.ncols[QPICK] = 1
    BY <1>0, <2>1, Names, PickRectTakes
  <2> HIDE DEF x, y
  <2>7. CASE Do(o, QPICK, f, at, n, x)
    BY <2>1, <2>2, <2>4, <2>5, <2>7, Names, LinesTaken
  <2>8. CASE Do(o, QPICK, f, at, n, y)
    BY <2>1, <2>4, <2>6, <2>8, Names, RectTaken
  <2>9. QED BY <2>3, <2>7, <2>8
<1>2. ASSUME NEW f \in File, NEW at \in 0 .. size(f) + 1, NEW n \in Counts, Close(f, at, n)
      PROVE  Right
  <2> DEFINE b == QCLOSE
             c == Cap(f, at, n)
             x == CloseLines(st, b, f, at, c)
             y == ClearRect(st, b, f, at, n)
             ps == The!Pieces(The!Area(st.text[f], at, n))
             o == "close"
  <2>1. at \in Nat /\ n \in Nat /\ at < size(f) /\ o # "join"
    BY <1>2, <1>n DEF Close
  <2>2. /\ at <= Lsize(st, f) /\ c \in Nat /\ at + c <= Lsize(st, f)
        /\ The!Lines(st.text[f], at, c) = The!Lines(st.text[f], at, n)
    BY <1>c, <2>1
  <2>3. (MayTake(b, f) /\ Do(o, b, f, at, n, x)) \/ Do(o, b, f, at, n, y)
    BY <1>2 DEF Close
  <2>b. b \in Buf /\ qtmpfn(b) = OLDLFILE
    BY Names
  <2> HIDE DEF c, o, b
  <2>4. Fit(x, Left) /\ Fit(y, Left)
    BY <1>0, <2>1, <2>2, <2>b, CloseLinesIs, ClearRectIs
  <2>5. f # OLDLFILE => Res(x, buflas(b)) = The!Lines(st.text[f], at, c) /\ x.ncols[b] = 0
    <3>1. SUFFICES ASSUME f # OLDLFILE
                   PROVE  Res(x, buflas(b)) = The!Lines(st.text[f], at, c) /\ x.ncols[b] = 0
      OBVIOUS
    <3>2. QED BY <1>0, <2>1, <2>2, <2>b, <3>1, CloseTakes
  <2>o. f = OLDLFILE => Still(st, x, buflas(b)) /\ x.ncols[b] = 0
    <3>1. SUFFICES ASSUME f = OLDLFILE PROVE Still(st, x, buflas(b)) /\ x.ncols[b] = 0
      OBVIOUS
    <3>2. Still(st, CloseLines(st, b, OLDLFILE, at, c), buflas(b))
          /\ CloseLines(st, b, OLDLFILE, at, c).ncols[b] = 0
      BY <1>0, <2>1, <2>2, <2>b, <3>1, OldStill
    <3>3. QED BY <3>1, <3>2
  <2>6. /\ Res(y, buflas(b)) \in {ps, << >>} /\ y.ncols[b] = 1
        /\ f # OLDLFILE => Res(y, buflas(b)) = ps
    BY <1>0, <2>1, <2>2, <2>b, ClearRectTakes
  <2> HIDE DEF x, y
  <2>7. CASE MayTake(b, f) /\ Do(o, b, f, at, n, x)
    <3>1. CASE f # OLDLFILE
      BY <2>1, <2>2, <2>4, <2>5, <2>7, <2>b, <3>1, LinesTaken
    <3>2. CASE f = OLDLFILE
      <4>1. st.ncols[b] = 0 /\ Do(o, b, OLDLFILE, at, n, x)
        BY <2>7, <3>2 DEF MayTake, Careful
      <4>2. QED BY <2>1, <2>4, <2>o, <2>b, <3>2, <4>1, OldTaken
    <3>3. QED BY <3>1, <3>2
  <2>8. CASE Do(o, b, f, at, n, y)
    <3>1. \/ Res(y, buflas(b)) = The!Pieces(The!Area(st.text[f], at, n))
          \/ f = OLDLFILE /\ Res(y, buflas(b)) = << >>
      BY <2>6
    <3>2. QED BY <2>1, <2>4, <2>6, <2>8, <2>b, <3>1, RectTaken
  <2>9. QED BY <2>3, <2>7, <2>8
<1>3. ASSUME NEW f \in File, NEW at \in 0 .. size(f) + 1, NEW n \in Counts, Erase(f, at, n)
      PROVE  Right
  <2> DEFINE b == QERASE
             c == Cap(f, at, n)
             x == EraseLines(st, b, f, at, c)
             y == ClearRect(st, b, f, at, n)
             ps == The!Pieces(The!Area(st.text[f], at, n))
             o == "erase"
  <2>1. at \in Nat /\ n \in Nat /\ at < size(f) /\ o # "join"
    BY <1>3, <1>n DEF Erase
  <2>2. /\ at <= Lsize(st, f) /\ c \in Nat /\ at + c <= Lsize(st, f)
        /\ The!Lines(st.text[f], at, c) = The!Lines(st.text[f], at, n)
    BY <1>c, <2>1
  <2>3. (MayTake(b, f) /\ Do(o, b, f, at, n, x)) \/ Do(o, b, f, at, n, y)
    BY <1>3 DEF Erase
  <2>b. b \in Buf /\ qtmpfn(b) = OLDLFILE
    BY Names
  <2> HIDE DEF c, o, b
  <2>4. Fit(x, Left) /\ Fit(y, Left)
    BY <1>0, <2>1, <2>2, <2>b, EraseLinesIs, ClearRectIs
  <2>5. f # OLDLFILE => Res(x, buflas(b)) = The!Lines(st.text[f], at, c) /\ x.ncols[b] = 0
    <3>1. SUFFICES ASSUME f # OLDLFILE
                   PROVE  Res(x, buflas(b)) = The!Lines(st.text[f], at, c) /\ x.ncols[b] = 0
      OBVIOUS
    <3>2. QED BY <1>0, <2>1, <2>2, <2>b, <3>1, EraseTakes
  <2>o. f = OLDLFILE => Still(st, x, buflas(b)) /\ x.ncols[b] = 0
    <3>1. SUFFICES ASSUME f = OLDLFILE PROVE Still(st, x, buflas(b)) /\ x.ncols[b] = 0
      OBVIOUS
    <3>2. Still(st, EraseLines(st, b, OLDLFILE, at, c), buflas(b))
          /\ EraseLines(st, b, OLDLFILE, at, c).ncols[b] = 0
      BY <1>0, <2>1, <2>2, <2>b, <3>1, OldStill
    <3>3. QED BY <3>1, <3>2
  <2>6. /\ Res(y, buflas(b)) \in {ps, << >>} /\ y.ncols[b] = 1
        /\ f # OLDLFILE => Res(y, buflas(b)) = ps
    BY <1>0, <2>1, <2>2, <2>b, ClearRectTakes
  <2> HIDE DEF x, y
  <2>7. CASE MayTake(b, f) /\ Do(o, b, f, at, n, x)
    <3>1. CASE f # OLDLFILE
      BY <2>1, <2>2, <2>4, <2>5, <2>7, <2>b, <3>1, LinesTaken
    <3>2. CASE f = OLDLFILE
      <4>1. st.ncols[b] = 0 /\ Do(o, b, OLDLFILE, at, n, x)
        BY <2>7, <3>2 DEF MayTake, Careful
      <4>2. QED BY <2>1, <2>4, <2>o, <2>b, <3>2, <4>1, OldTaken
    <3>3. QED BY <3>1, <3>2
  <2>8. CASE Do(o, b, f, at, n, y)
    <3>1. \/ Res(y, buflas(b)) = The!Pieces(The!Area(st.text[f], at, n))
          \/ f = OLDLFILE /\ Res(y, buflas(b)) = << >>
      BY <2>6
    <3>2. QED BY <2>1, <2>4, <2>6, <2>8, <2>b, <3>1, RectTaken
  <2>9. QED BY <2>3, <2>7, <2>8
<1>4. ASSUME NEW f \in File, NEW at \in 0 .. size(f) + 1, NEW n \in Counts, JoinMark(f, at, n)
      PROVE  Right
  <2> DEFINE b == QCLOSE
             l == Joined(st, f, at, n)
             u == Cut(st, f, at, n)
             v == PickLines(u, b, f, at, n + 1)
             x == dojoin(v, f, at, n, l)
             bs == Between(st.text[f], at, n)
  <2>1. at \in Nat /\ n \in Nat /\ n > 0 /\ at + n < Lsize(st, f) /\ Lsize(st, f) \in Nat
    BY <1>4, <1>n, <1>0 DEF JoinMark
  <2>2. f # PICKFILE /\ Do("join", b, f, at, n, x)
    BY <1>4 DEF JoinMark, Careful
  <2>b. b \in Buf /\ qtmpfn(b) = OLDLFILE
    BY Names
  <2> HIDE DEF b
  <2>3. l \in Line
    BY <1>0, <2>1, JoinedIs
  <2> HIDE DEF l
  <2>4. /\ x.ncols[b] = 0 /\ Res(x, buflas(b)) \in {bs, << >>}
        /\ f # OLDLFILE => Res(x, buflas(b)) = bs
    BY <1>0, <2>1, <2>2, <2>3, <2>b, JoinTakes
  <2>5. Fit(x, Left)
    <3>1. Fit(u, Left) /\ Kept(st, u)
      BY <1>0, <2>1, CutIs
    <3> HIDE DEF u
    <3>2. Lsize(u, f) \in Nat /\ at < Lsize(u, f) /\ at <= Lsize(u, f) /\ n + 1 \in Nat
      <4>1. Lsize(u, f) \in Nat
        BY <3>1, Sizes
      <4>2. QED BY <2>1, <3>1, <4>1 DEF Kept
    <3>3. Fit(v, Left) /\ Kept(u, v)
      BY <2>1, <2>b, <3>1, <3>2, PickLinesIs
    <3> HIDE DEF v
    <3>4. at < Lsize(v, f)
      <4>1. Lsize(v, f) \in Nat
        BY <3>3, Sizes
      <4>2. QED BY <2>1, <3>2, <3>3, <4>1 DEF Kept
    <3>5. QED BY <2>1, <2>3, <3>3, <3>4, dojoinIs
  <2> HIDE DEF x
  <2>6. HeldIn(x, b) = The!Holds(Res(x, buflas(b)), FALSE)
    BY <2>4, HoldsLines
  <2>7. The!JoinAsked(st.text[f], at, n) = The!Holds(bs, FALSE)
    BY DEF The!JoinAsked, Between
  <2> HIDE DEF bs
  <2>8. \/ HeldIn(x, b) = The!JoinAsked(st.text[f], at, n)
        \/ f = OLDLFILE /\ HeldIn(x, b) = The!Nothing
    <3>1. The!Holds(<< >>, FALSE) = The!Nothing
      BY DEF The!Holds
    <3>2. CASE Res(x, buflas(b)) = bs
      BY <2>6, <2>7, <3>2
    <3>3. CASE f = OLDLFILE /\ Res(x, buflas(b)) = << >>
      BY <2>6, <3>1, <3>3
    <3>4. QED BY <2>4, <3>2, <3>3
  <2>9. QED BY <2>2, <2>5, <2>8, <2>b, DoJoins
<1>5. ASSUME NEW f \in File, NEW at \in 0 .. size(f) + 1, NEW n \in Counts,
             NEW b \in {QADJUST, QRUN}, NEW new \in Filtered, Run(b, f, at, n, new)
      PROVE  Right
  <2> DEFINE c == Cap(f, at, n)
             x == receive(st, b, f, at, c, new)
             o == "run"
  <2>1. at \in Nat /\ n \in Nat /\ at < size(f) /\ o # "join" /\ new \in Seq(Line)
    BY <1>5, <1>n, QBufAssumption DEF Run
  <2>2. /\ at <= Lsize(st, f) /\ c \in Nat /\ at + c <= Lsize(st, f)
        /\ The!Lines(st.text[f], at, c) = The!Lines(st.text[f], at, n)
    BY <1>c, <2>1
  <2>3. Do(o, b, f, at, n, x)
    BY <1>5 DEF Run
  <2>b. b \in Buf /\ qtmpfn(b) = OLDLFILE
    BY Names
  <2> HIDE DEF c, o
  <2>4. Fit(x, Left)
    BY <1>0, <2>1, <2>2, <2>b, receiveIs
  <2>5. Res(x, buflas(b)) = The!Lines(st.text[f], at, c) /\ x.ncols[b] = 0
    BY <1>0, <2>1, <2>2, <2>b, ReceiveTakes
  <2> HIDE DEF x
  <2>6. QED BY <2>1, <2>2, <2>3, <2>4, <2>5, <2>b, LinesTaken
<1>6. ASSUME NEW f \in File, NEW at \in 0 .. size(f) + 1,
             NEW b \in {QPICK, QCLOSE, QERASE}, at >= size(f), TakeNone(b, f, at)
      PROVE  Right
  <2> DEFINE x == Rlines(st, b, 0)
             q == buflas(b)
             o == Opc(b)
             t == st.text[f]
  <2>1. b \in Buf /\ Do(o, b, f, at, 0, x) /\ at \in Nat /\ o # "join"
    BY <1>0, <1>6, Names DEF TakeNone, Opc
  <2>2. Fit(x, Left)
    BY <1>0, <2>1, RlinesIs
  <2>3. x.las[q].la_rlines = 0
    BY <1>0, <2>1, RlinesSets
  <2> HIDE DEF o, x
  <2>4. Res(x, q) = << >>
    <3>1. q \in Stream
      BY <2>1, Streams
    <3> HIDE DEF q
    <3>2. LF!LinesAt(x, q, 0) = << >>
      BY <2>2, <3>1, NoneAt
    <3>3. QED BY <2>3, <3>2 DEF Res
  <2>5. HeldIn(x, b) = The!Nothing
    BY <2>4 DEF HeldIn, The!Holds, q
  <2>6. The!Lines(t, at, 0) = << >>
    <3>1. t \in Seq(Line) /\ Len(t) \in Nat /\ Len(t) = size(f)
      BY <1>0, Sizes DEF Lsize
    <3> HIDE DEF t
    <3>2. The!Min2(at + 0, Len(t)) = Len(t) /\ at + 1 > Len(t)
      BY <1>0, <1>6, <2>1, <3>1 DEF The!Min2
    <3> DEFINE i == at + 1
               j == Len(t)
               v == SubSeq(t, i, j)
    <3>3. i \in Nat /\ j \in Nat /\ i > j
      BY <2>1, <3>1, <3>2
    <3> HIDE DEF i, j
    <3>4. v = << >>
      BY <3>1, <3>3
    <3>5. QED BY <3>2, <3>4 DEF The!Lines, i, j
  <2>7. The!LinesAsked(t, at, 0) = The!Nothing
    BY <2>6 DEF The!LinesAsked, The!Holds
  <2>8. HeldIn(x, b) = The!LinesAsked(st.text[f], at, 0)
    BY <2>5, <2>7
  <2>9. QED BY <2>1, <2>2, <2>8, DoTakes
<1>7. ASSUME NEW f \in File, NEW at \in 0 .. size(f) + 1,
             \/ \E n \in Counts :
                  \/ \E b \in {QPICK, QCLOSE, QERASE} : TakeFails(b, f, at, n)
                  \/ Open(f, at, n) \/ Box(f, at, n, empty) \/ Join(f, at, n)
                  \/ \E b \in {QADJUST, QRUN} : RunFails(b, f, at, n)
             \/ \E b \in Buf : Put(b, f, at) \/ PutFails(b, f, at)
             \/ \E l \in Typed : Type(f, at, l)
             \/ \E new \in Filtered : Feed(f, at, new)
      PROVE  Right
  <2>1. \E opc, c, m, x : Do(opc, c, f, at, m, x) /\ opc \in {"none", "edit", "put", "fail"}
    <3>1. ASSUME NEW n \in Counts, NEW b, TakeFails(b, f, at, n)
          PROVE  \E opc, c, m, x : Do(opc, c, f, at, m, x) /\ opc \in {"none", "edit", "put", "fail"}
      BY <3>1, Zenon DEF TakeFails
    <3>2. ASSUME NEW n \in Counts, Open(f, at, n) \/ Box(f, at, n, empty) \/ Join(f, at, n)
          PROVE  \E opc, c, m, x : Do(opc, c, f, at, m, x) /\ opc \in {"none", "edit", "put", "fail"}
      BY <3>2, Zenon DEF Open, Box, Join
    <3>3. ASSUME NEW n \in Counts, NEW b, RunFails(b, f, at, n)
          PROVE  \E opc, c, m, x : Do(opc, c, f, at, m, x) /\ opc \in {"none", "edit", "put", "fail"}
      BY <3>3, Zenon DEF RunFails
    <3>4. ASSUME NEW b \in Buf, Put(b, f, at) \/ PutFails(b, f, at)
          PROVE  \E opc, c, m, x : Do(opc, c, f, at, m, x) /\ opc \in {"none", "edit", "put", "fail"}
      <4>1. (IF Copied(b) THEN "put" ELSE "fail") \in {"none", "edit", "put", "fail"}
        OBVIOUS
      <4>2. QED BY <3>4, <4>1, Zenon DEF Put, PutFails
    <3>5. ASSUME NEW l \in Typed, Type(f, at, l)
          PROVE  \E opc, c, m, x : Do(opc, c, f, at, m, x) /\ opc \in {"none", "edit", "put", "fail"}
      BY <3>5, Zenon DEF Type
    <3>6. ASSUME NEW new \in Filtered, Feed(f, at, new)
          PROVE  \E opc, c, m, x : Do(opc, c, f, at, m, x) /\ opc \in {"none", "edit", "put", "fail"}
      BY <3>6, Zenon DEF Feed
    <3>7. QED BY <1>7, <3>1, <3>2, <3>3, <3>4, <3>5, <3>6
  <2>2. QED BY <2>1, DoOther
<1>8. PICK f \in File : \E at \in 0 .. size(f) + 1 :
        \/ \E n \in Counts :
             \/ Pick(f, at, n) \/ Close(f, at, n) \/ Erase(f, at, n)
             \/ \E b \in {QPICK, QCLOSE, QERASE} : TakeFails(b, f, at, n)
             \/ Open(f, at, n) \/ Box(f, at, n, empty)
             \/ Join(f, at, n) \/ JoinMark(f, at, n)
             \/ \E b \in {QADJUST, QRUN} :
                  RunFails(b, f, at, n) \/ \E new \in Filtered : Run(b, f, at, n, new)
        \/ \E b \in {QPICK, QCLOSE, QERASE} : at >= size(f) /\ TakeNone(b, f, at)
        \/ \E b \in Buf : Put(b, f, at) \/ PutFails(b, f, at)
        \/ \E l \in Typed : Type(f, at, l)
        \/ \E new \in Filtered : Feed(f, at, new)
  BY DEF Next
<1>9. PICK at \in 0 .. size(f) + 1 :
        \/ \E n \in Counts :
             \/ Pick(f, at, n) \/ Close(f, at, n) \/ Erase(f, at, n)
             \/ \E b \in {QPICK, QCLOSE, QERASE} : TakeFails(b, f, at, n)
             \/ Open(f, at, n) \/ Box(f, at, n, empty)
             \/ Join(f, at, n) \/ JoinMark(f, at, n)
             \/ \E b \in {QADJUST, QRUN} :
                  RunFails(b, f, at, n) \/ \E new \in Filtered : Run(b, f, at, n, new)
        \/ \E b \in {QPICK, QCLOSE, QERASE} : at >= size(f) /\ TakeNone(b, f, at)
        \/ \E b \in Buf : Put(b, f, at) \/ PutFails(b, f, at)
        \/ \E l \in Typed : Type(f, at, l)
        \/ \E new \in Filtered : Feed(f, at, new)
  BY <1>8
<1>10. QED BY <1>9, <1>1, <1>2, <1>3, <1>4, <1>5, <1>6, <1>7

(* After a pick, a close, an erase, a join or a program's run, the buffer  *)
(* of that command holds what was asked of the file as it was, lines as    *)
(* lines and a rectangle as its pieces, and nothing else; only a command   *)
(* on #o itself may leave what the buffer held, or nothing: edlines,       *)
(* edrect and dojoin (e20/e.e.c), receive (e20/e.ru.c). Assumed: LA fails  *)
(* only where the editor undoes what it did, nothing is joined in #p, no   *)
(* lines of #o are closed while #o's buffer holds a rectangle.             *)
THEOREM TakenRight ==
  ASSUME Careful
  PROVE  Spec => TakesWhatIsAsked
<1>1. Spec => []Inv
  BY InvInit, InvNext, PTL DEF Spec
<1>2. Inv /\ [Next]_<< st, cmd, edits >> => [Right]_edits
  BY TakeStep
<1>3. Spec => [][Right]_edits
  BY <1>1, <1>2, PTL DEF Spec
<1>4. QED BY <1>3 DEF TakesWhatIsAsked, Right, Takes

-----------------------------------------------------------------------------
(* QBuf implements Buffers: first, what commands leave of the buffers that *)
(* they are not about.                                                     *)

(* Buffer c is sure of its lines: what it has reserved is in its file, or  *)
(* its stream is at the end, where it holds nothing; and it is calm when   *)
(* it need not stay.                                                       *)
Sure(x, c) == \/ Whole(x, c)
              \/ x.las[buflas(c)].la_lpos = Lsize(x, qtmpfn(c)) /\ x.ncols[c] = 0
Calm(x, c) == Sure(x, c) /\ ~ x.las[buflas(c)].la_stay

(* Between x and y, what buffer c has reserved is spared: no line of it    *)
(* changes or goes away while the user's file (u) is edited; when #o or #p *)
(* is, it may lose lines but not get others. A command about buffer b      *)
(* leaves all the other buffers alone if it spares them.                   *)
Spares(u, x, y, c) ==
  Calm(x, c) =>
    /\ Calm(y, c) /\ y.ncols[c] = x.ncols[c] /\ Still(x, y, buflas(c))
    /\ u => Res(y, buflas(c)) = Res(x, buflas(c))
Leaves(u, b, x, y) == /\ \A c \in Buf \ {b} : Spares(u, x, y, c)
                      /\ u \/ y.text[UserFile] = x.text[UserFile]

(* Two steps that leave the buffers alone leave them alone.                *)
LEMMA LeavesThen ==
  ASSUME NEW u, NEW b, NEW x, NEW y, NEW z, Leaves(u, b, x, y), Leaves(u, b, y, z)
  PROVE  Leaves(u, b, x, z)
<1>1. ASSUME NEW c \in Buf \ {b} PROVE Spares(u, x, z, c)
  <2>1. Spares(u, x, y, c) /\ Spares(u, y, z, c)
    BY DEF Leaves
  <2>2. SUFFICES ASSUME Calm(x, c)
                 PROVE  /\ Calm(z, c) /\ z.ncols[c] = x.ncols[c] /\ Still(x, z, buflas(c))
                        /\ u => Res(z, buflas(c)) = Res(x, buflas(c))
    BY DEF Spares
  <2>3. /\ Calm(y, c) /\ y.ncols[c] = x.ncols[c] /\ Still(x, y, buflas(c))
        /\ u => Res(y, buflas(c)) = Res(x, buflas(c))
    BY <2>1, <2>2 DEF Spares
  <2>4. /\ Calm(z, c) /\ z.ncols[c] = y.ncols[c] /\ Still(y, z, buflas(c))
        /\ u => Res(z, buflas(c)) = Res(y, buflas(c))
    BY <2>1, <2>3 DEF Spares
  <2>5. Still(x, z, buflas(c))
    BY <2>3, <2>4, StillThen
  <2>6. QED BY <2>3, <2>4, <2>5
<1>2. u \/ z.text[UserFile] = x.text[UserFile]
  BY DEF Leaves
<1>3. QED BY <1>1, <1>2 DEF Leaves

(* What moves no buffer's stream and changes no text leaves the buffers.   *)
LEMMA SetLeaves ==
  ASSUME NEW S, NEW x, Fit(x, S), NEW u, NEW b, NEW y, y.text = x.text,
         \A c \in Buf \ {b} : y.las[buflas(c)] = x.las[buflas(c)] /\ y.ncols[c] = x.ncols[c]
  PROVE  Leaves(u, b, x, y)
<1>1. ASSUME NEW c \in Buf \ {b} PROVE Spares(u, x, y, c)
  <2>1. buflas(c) \in Stream /\ Same(x, y, buflas(c))
    BY Streams DEF Same
  <2>2. Res(y, buflas(c)) = Res(x, buflas(c)) /\ Still(x, y, buflas(c))
    BY <2>1, SameIs
  <2>3. y.las[buflas(c)] = x.las[buflas(c)] /\ y.ncols[c] = x.ncols[c] /\ y.text = x.text
    OBVIOUS
  <2>4. Calm(x, c) => Calm(y, c)
    BY <2>3 DEF Calm, Sure, Whole, Lsize
  <2>5. QED BY <2>2, <2>3, <2>4 DEF Spares
<1>2. QED BY <1>1 DEF Leaves

(* Edits of LA leave what is reserved there, or take the reservation. *)
LEMMA InsSure ==
  ASSUME NEW S, NEW x, Fit(x, S), NEW s \in Stream, NEW new \in Seq(Line), NEW c \in Buf, Sure(x, c)
  PROVE  Sure(Ins(x, s, new), c)
<1>1. PICK q : q = buflas(c) OBVIOUS
<1>2. PICK y : y = Ins(x, s, new) OBVIOUS
<1>3. PICK at : at = x.las[s].la_lpos OBVIOUS
<1>4. q \in Stream /\ Own(q) = qtmpfn(c) /\ Own(q) \in File
  BY <1>1, Streams
<1>5. /\ y.ncols = x.ncols
      /\ Lsize(y, Own(q)) = Lsize(x, Own(q)) + (IF Own(q) = Own(s) THEN Len(new) ELSE 0)
  BY <1>2, <1>4, InsIs
<1>6. CASE Own(q) # Own(s)
  <2>1. Same(x, y, q)
    BY <1>2, <1>4, <1>6, InsApart
  <2>2. QED BY <1>1, <1>2, <1>4, <1>5, <2>1 DEF Same, Sure, Whole, Lsize
<1>7. CASE Own(q) = Own(s)
  <2>1. /\ y.las[q].la_stay = x.las[q].la_stay
        /\ x.las[q].la_lpos > at \/ (x.las[q].la_lpos = at /\ ~ x.las[q].la_stay) =>
             /\ y.las[q].la_lpos = x.las[q].la_lpos + Len(new)
             /\ y.las[q].la_rlines = x.las[q].la_rlines
        /\ x.las[q].la_lpos < at \/ (x.las[q].la_lpos = at /\ x.las[q].la_stay) =>
             /\ y.las[q].la_lpos = x.las[q].la_lpos
             /\ x.las[q].la_lpos + x.las[q].la_rlines <= at => y.las[q].la_rlines = x.las[q].la_rlines
             /\ x.las[q].la_lpos + x.las[q].la_rlines > at /\ Len(new) # 0 => y.las[q].la_rlines = 0
    BY <1>2, <1>3, <1>4, <1>7, InsPlaces
  <2>2. /\ x.las[q].la_lpos \in Nat /\ x.las[q].la_rlines \in Nat /\ x.las[q].la_lpos <= Lsize(x, Own(q))
        /\ at \in Nat /\ at <= Lsize(x, Own(q)) /\ Len(new) \in Nat /\ Lsize(x, Own(q)) \in Nat
    BY <1>3, <1>4, <1>7, Placed, Sizes, LenProperties
  <2>3. PICK p, n, k, L : p = x.las[q].la_lpos /\ n = x.las[q].la_rlines /\ k = Len(new) /\ L = Lsize(x, Own(q))
    OBVIOUS
  <2>4. PICK p2, n2, L2 : p2 = y.las[q].la_lpos /\ n2 = y.las[q].la_rlines /\ L2 = Lsize(y, Own(q))
    OBVIOUS
  <2>5. (p + n <= L \/ (p = L /\ x.ncols[c] = 0))
    BY <1>1, <1>4, <2>3 DEF Sure, Whole
  <2>6. L2 = L + k /\ p \in Nat /\ n \in Nat /\ k \in Nat /\ L \in Nat /\ at <= L /\ p <= L
    BY <1>5, <1>7, <2>2, <2>3, <2>4
  <2>n. y.ncols[c] = x.ncols[c]
    BY <1>5
  <2>7. p2 + n2 <= L2 \/ (p2 = L2 /\ y.ncols[c] = 0)
    <3>1. CASE k = 0
      <4>f. PICK f : f = Own(s) OBVIOUS
      <4>0. \A r \in Stream : Own(r) = f =>
               y.las[r] = IF Len(new) = 0 THEN x.las[r] ELSE LF!AfterInsert(x.las[r], at, Len(new))
        BY <1>2, <1>3, <4>f, InsSets
      <4>1. y.las[q] = x.las[q]
        BY <1>4, <1>7, <2>3, <3>1, <4>f, <4>0
      <4>2. QED BY <2>3, <2>4, <2>5, <2>6, <2>n, <3>1, <4>1
    <3>2. CASE k # 0 /\ (p > at \/ (p = at /\ ~ x.las[q].la_stay))
      <4>1. p2 = p + k /\ n2 = n
        BY <2>1, <2>3, <2>4, <3>2
      <4>2. QED BY <4>1, <2>5, <2>6, <2>n
    <3>3. CASE k # 0 /\ (p < at \/ (p = at /\ x.las[q].la_stay))
      <4>1. p2 = p /\ (p + n <= at => n2 = n) /\ (p + n > at => n2 = 0)
        BY <2>1, <2>3, <2>4, <3>3
      <4>2. QED BY <4>1, <2>6, <2>2
    <3>4. QED BY <3>1, <3>2, <3>3, <2>6, <2>2
  <2>8. QED BY <1>1, <1>2, <1>4, <2>4, <2>7 DEF Sure, Whole
<1>8. QED BY <1>6, <1>7

(* A buffer is sure when lines are deleted anywhere.                       *)
LEMMA DelSure ==
  ASSUME NEW S, NEW x, Fit(x, S), NEW s \in Stream, NEW j \in Nat, NEW c \in Buf, Sure(x, c)
  PROVE  Sure(Done(x, LF!Del(x, s, j)), c)
<1>1. PICK q : q = buflas(c) OBVIOUS
<1>2. PICK y : y = Done(x, LF!Del(x, s, j)) OBVIOUS
<1>3. PICK at : at = x.las[s].la_lpos OBVIOUS
<1>k. PICK k : k = Len(LF!LinesAt(x, s, j)) OBVIOUS
<1>4. q \in Stream /\ Own(q) = qtmpfn(c) /\ Own(q) \in File
  BY <1>1, Streams
<1>5. /\ y.ncols = x.ncols /\ k \in 0 .. j
      /\ Lsize(y, Own(q)) = Lsize(x, Own(q)) - (IF Own(q) = Own(s) THEN k ELSE 0)
  BY <1>2, <1>k, <1>4, DelIs
<1>6. CASE Own(q) # Own(s)
  <2>1. Same(x, y, q)
    BY <1>2, <1>4, <1>6, DelApart
  <2>2. QED BY <1>1, <1>2, <1>4, <1>5, <2>1 DEF Same, Sure, Whole, Lsize
<1>7. CASE Own(q) = Own(s)
  <2>2. /\ x.las[q].la_lpos \in Nat /\ x.las[q].la_rlines \in Nat /\ x.las[q].la_lpos <= Lsize(x, Own(q))
        /\ at \in Nat /\ at + k <= Lsize(x, Own(q)) /\ Lsize(x, Own(q)) \in Nat
    BY <1>3, <1>4, <1>7, <1>k, Placed, Sizes, LinesAre
  <2>3. PICK p, n, L : p = x.las[q].la_lpos /\ n = x.las[q].la_rlines /\ L = Lsize(x, Own(q))
    OBVIOUS
  <2>4. PICK p2, n2, L2 : p2 = y.las[q].la_lpos /\ n2 = y.las[q].la_rlines /\ L2 = Lsize(y, Own(q))
    OBVIOUS
  <2>5. (p + n <= L \/ (p = L /\ x.ncols[c] = 0))
    BY <1>1, <1>4, <2>3 DEF Sure, Whole
  <2>6. L2 = L - k /\ p \in Nat /\ n \in Nat /\ k \in Nat /\ L \in Nat /\ at + k <= L /\ p <= L /\ at \in Nat
    BY <1>5, <1>7, <2>2, <2>3, <2>4
  <2>n. y.ncols[c] = x.ncols[c]
    BY <1>5
  <2>7. p2 + n2 <= L2 \/ (p2 = L2 /\ y.ncols[c] = 0)
    <3>1. CASE k = 0
      <4>f. PICK f : f = Own(s) OBVIOUS
      <4>0. \A r \in Stream : Own(r) = f =>
               y.las[r] = IF k = 0 THEN x.las[r] ELSE LF!AfterDelete(x.las[r], at, k)
        BY <1>2, <1>3, <1>k, <4>f, DelSets
      <4>1. y.las[q] = x.las[q]
        BY <1>4, <1>7, <3>1, <4>f, <4>0
      <4>2. QED BY <2>3, <2>4, <2>5, <2>6, <2>n, <3>1, <4>1
    <3>2. CASE k # 0
      <4>1. /\ x.las[q].la_lpos >= at + k =>
                 /\ y.las[q].la_lpos = x.las[q].la_lpos - k
                 /\ y.las[q].la_rlines = x.las[q].la_rlines
            /\ x.las[q].la_lpos < at + k =>
                 /\ y.las[q].la_lpos = IF x.las[q].la_lpos > at THEN at ELSE x.las[q].la_lpos
                 /\ \/ y.las[q].la_rlines = 0
                    \/ /\ y.las[q].la_rlines = x.las[q].la_rlines
                       /\ x.las[q].la_lpos + x.las[q].la_rlines <= at
        BY <1>2, <1>3, <1>4, <1>7, <1>k, <3>2, DelPlaces
      <4>2. CASE p >= at + k
        <5>1. p2 = p - k /\ n2 = n
          BY <2>3, <2>4, <4>1, <4>2
        <5>2. QED BY <5>1, <2>5, <2>6, <2>n
      <4>3. CASE p < at + k
        <5>1. p2 <= at /\ p2 \in Nat /\ (n2 = 0 \/ (n2 = n /\ p2 = p /\ p + n <= at))
          <6>1. p2 = IF p > at THEN at ELSE p
            BY <2>3, <2>4, <4>1, <4>3
          <6>2. n2 = 0 \/ (n2 = n /\ p + n <= at)
            BY <2>3, <2>4, <4>1, <4>3
          <6>3. QED BY <6>1, <6>2, <2>6
        <5>2. QED BY <5>1, <2>6
      <4>4. QED BY <4>2, <4>3, <2>6
    <3>3. QED BY <3>1, <3>2
  <2>8. QED BY <1>1, <1>2, <1>4, <2>4, <2>7 DEF Sure, Whole
<1>8. QED BY <1>6, <1>7

(* And when they are moved, or cut.                                        *)
LEMMA MoveSure ==
  ASSUME NEW S, NEW x, Fit(x, S), NEW s \in Stream, NEW n \in Nat, NEW d \in Stream \cup {None},
         NEW c \in Buf, Sure(x, c)
  PROVE  Sure(Move(x, s, n, d), c)
<1>1. PICK z : z = Done(x, LF!Del(x, s, n)) OBVIOUS
<1>2. PICK ls : ls = LF!LinesAt(x, s, n) OBVIOUS
<1>3. Fit(z, S) /\ ls \in Seq(Line)
  BY <1>1, <1>2, DelIs, LinesAre
<1>4. Move(x, s, n, None) = z /\ \A e \in Stream : Move(x, s, n, e) = Ins(z, e, ls)
  BY <1>1, <1>2, MoveIsTwo
<1>5. Sure(z, c)
  BY <1>1, DelSure
<1>6. \A e \in Stream : Sure(Ins(z, e, ls), c)
  BY <1>3, <1>5, InsSure
<1>7. QED BY <1>4, <1>5, <1>6

(* Lines are appended to #o and #p only.                                   *)
LEMMA TailOwn == \A s \in Stream : AtTail(s) => Own(s) # UserFile
<1>1. SUFFICES ASSUME NEW s \in Stream, AtTail(s) PROVE Own(s) # UserFile
  OBVIOUS
<1>2. s[1] = "fnlas" /\ s[2] # UserFile
  BY <1>1 DEF AtTail
<1>3. QED BY <1>2 DEF Own

(* An insertion in the user's file, or at the end of #o or #p, leaves the  *)
(* buffers.                                                                *)
LEMMA InsLeaves ==
  ASSUME NEW S, NEW x, Fit(x, S), NEW s \in Stream, NEW new \in Seq(Line), NEW b,
         NEW u \in BOOLEAN, u => Own(s) = UserFile \/ AtTail(s), ~ u => Own(s) # UserFile
  PROVE  Leaves(u, b, x, Ins(x, s, new))
<1>2. PICK y : y = Ins(x, s, new) OBVIOUS
<1>3. Fit(y, S) /\ y.ncols = x.ncols
  BY <1>2, InsIs
<1>4. ASSUME NEW c \in Buf \ {b}, Calm(x, c)
      PROVE  /\ Calm(y, c) /\ y.ncols[c] = x.ncols[c] /\ Still(x, y, buflas(c))
             /\ u => Res(y, buflas(c)) = Res(x, buflas(c))
  <2>1. PICK q : q = buflas(c) OBVIOUS
  <2>2. q \in Stream /\ Own(q) = qtmpfn(c) /\ c \in Buf /\ q[1] = "buflas"
    BY <2>1, Streams, StreamNames
  <2>3. Sure(x, c) /\ ~ x.las[q].la_stay
    BY <1>4, <2>1 DEF Calm
  <2>4. Sure(y, c)
    BY <1>2, <2>2, <2>3, InsSure
  <2>5. Still(x, y, q)
    BY <1>2, <2>2, InsStill
  <2>6. CASE Own(q) # Own(s)
    <3>1. Same(x, y, q)
      BY <1>2, <2>2, <2>6, InsApart
    <3>2. Res(y, q) = Res(x, q)
      BY <2>2, <3>1, SameIs
    <3>3. y.las[q] = x.las[q]
      BY <3>1 DEF Same
    <3>4. QED BY <1>3, <2>1, <2>3, <2>4, <2>5, <3>2, <3>3 DEF Calm
  <2>7. CASE Own(q) = Own(s)
    <3>1. PICK at : at = x.las[s].la_lpos OBVIOUS
    <3>2. /\ y.las[q].la_stay = x.las[q].la_stay
          /\ x.las[q].la_lpos > at \/ (x.las[q].la_lpos = at /\ ~ x.las[q].la_stay) =>
               /\ y.las[q].la_lpos = x.las[q].la_lpos + Len(new)
               /\ y.las[q].la_rlines = x.las[q].la_rlines
          /\ x.las[q].la_lpos < at \/ (x.las[q].la_lpos = at /\ x.las[q].la_stay) =>
               /\ y.las[q].la_lpos = x.las[q].la_lpos
               /\ x.las[q].la_lpos + x.las[q].la_rlines <= at => y.las[q].la_rlines = x.las[q].la_rlines
               /\ x.las[q].la_lpos + x.las[q].la_rlines > at /\ Len(new) # 0 => y.las[q].la_rlines = 0
      BY <1>2, <2>2, <2>7, <3>1, InsPlaces
    <3>3. u => Res(y, q) = Res(x, q)
      <4>1. SUFFICES ASSUME u PROVE Res(y, q) = Res(x, q)
        OBVIOUS
      <4>2. Own(q) # UserFile
        BY <2>2, NameAssumption DEF qtmpfn
      <4>3. AtTail(s)
        BY <2>7, <4>1, <4>2
      <4>4. at = Lsize(x, Own(q))
        BY <2>7, <3>1, <4>3 DEF Fit, InFile, Lsize
      <4>5. PICK p, n : p = x.las[q].la_lpos /\ n = x.las[q].la_rlines
        OBVIOUS
      <4>6. p \in Nat /\ n \in Nat /\ p <= at /\ at \in Nat
        <5>1. p \in Nat /\ n \in Nat /\ p <= Lsize(x, Own(q))
          BY <2>2, <4>5, Placed
        <5>2. at \in Nat
          BY <3>1, Placed
        <5>3. QED BY <4>4, <5>1, <5>2
      <4>7. p = at \/ p + n <= at
        BY <2>1, <2>2, <2>3, <4>4, <4>5 DEF Sure, Whole
      <4>8. y.las[q].la_rlines = n
        BY <2>3, <3>2, <4>5, <4>6, <4>7
      <4>9. LF!LinesAt(y, q, n) = LF!LinesAt(x, q, n)
        <5>1. \/ x.las[q].la_lpos > x.las[s].la_lpos
              \/ x.las[q].la_lpos = x.las[s].la_lpos /\ ~ x.las[q].la_stay
              \/ x.las[q].la_lpos + n <= x.las[s].la_lpos
              => LF!LinesAt(Ins(x, s, new), q, n) = LF!LinesAt(x, q, n)
          BY <2>2, <2>7, <4>6, InsLines
        <5>2. QED BY <1>2, <2>3, <3>1, <4>5, <4>7, <5>1
      <4>10. QED BY <4>5, <4>8, <4>9 DEF Res
    <3>4. QED BY <1>3, <2>1, <2>3, <2>4, <2>5, <3>2, <3>3 DEF Calm
  <2>8. QED BY <2>6, <2>7
<1>5. u \/ y.text[UserFile] = x.text[UserFile]
  <2>1. SUFFICES ASSUME ~ u PROVE y.text[UserFile] = x.text[UserFile]
    OBVIOUS
  <2>2. PICK f, at : f = Own(s) /\ at = x.las[s].la_lpos
    OBVIOUS
  <2>3. \A g \in File : g # f => y.text[g] = x.text[g]
    BY <1>2, <2>2, InsSets
  <2>4. UserFile \in File /\ UserFile # f
    BY <2>1, <2>2 DEF File
  <2>5. QED BY <2>3, <2>4
<1>6. QED BY <1>2, <1>4, <1>5 DEF Leaves, Spares

(* So does a deletion: in #o or #p a buffer may lose lines of it.          *)
LEMMA DelLeaves ==
  ASSUME NEW S, NEW x, Fit(x, S), NEW s \in Stream, NEW n \in Nat, NEW b,
         NEW u \in BOOLEAN, u <=> Own(s) = UserFile
  PROVE  Leaves(u, b, x, Done(x, LF!Del(x, s, n)))
<1>2. PICK y : y = Done(x, LF!Del(x, s, n)) OBVIOUS
<1>3. Fit(y, S) /\ y.ncols = x.ncols
  BY <1>2, DelIs
<1>4. ASSUME NEW c \in Buf \ {b}, Calm(x, c)
      PROVE  /\ Calm(y, c) /\ y.ncols[c] = x.ncols[c] /\ Still(x, y, buflas(c))
             /\ u => Res(y, buflas(c)) = Res(x, buflas(c))
  <2>1. PICK q : q = buflas(c) OBVIOUS
  <2>2. q \in Stream /\ Own(q) = qtmpfn(c) /\ c \in Buf
    BY <2>1, Streams
  <2>3. Sure(x, c) /\ ~ x.las[q].la_stay
    BY <1>4, <2>1 DEF Calm
  <2>4. Sure(y, c)
    BY <1>2, <2>2, <2>3, DelSure
  <2>5. Still(x, y, q)
    BY <1>2, <2>2, DelStill
  <2>6. CASE Own(q) # Own(s)
    <3>1. Same(x, y, q)
      BY <1>2, <2>2, <2>6, DelApart
    <3>2. Res(y, q) = Res(x, q)
      BY <2>2, <3>1, SameIs
    <3>3. y.las[q] = x.las[q]
      BY <3>1 DEF Same
    <3>4. QED BY <1>3, <2>1, <2>3, <2>4, <2>5, <3>2, <3>3 DEF Calm
  <2>7. CASE Own(q) = Own(s)
    <3>0. ~ u
      BY <2>2, <2>7, NameAssumption DEF qtmpfn
    <3>1. PICK at, k : at = x.las[s].la_lpos /\ k = Len(LF!LinesAt(x, s, n))
      OBVIOUS
    <3>2. y.las[q].la_stay = x.las[q].la_stay
      <4>1. CASE k = 0
        <5>1. PICK f : f = Own(s) OBVIOUS
        <5>2. \A r \in Stream : Own(r) = f =>
                 y.las[r] = IF k = 0 THEN x.las[r] ELSE LF!AfterDelete(x.las[r], at, k)
          BY <1>2, <3>1, <5>1, DelSets
        <5>3. QED BY <2>2, <2>7, <4>1, <5>1, <5>2
      <4>2. CASE k # 0
        BY <1>2, <2>2, <2>7, <3>1, <4>2, DelPlaces
      <4>3. QED BY <4>1, <4>2
    <3>3. QED BY <1>3, <2>1, <2>3, <2>4, <2>5, <3>0, <3>2 DEF Calm
  <2>8. QED BY <2>6, <2>7
<1>5. u \/ y.text[UserFile] = x.text[UserFile]
  <2>1. SUFFICES ASSUME ~ u PROVE y.text[UserFile] = x.text[UserFile]
    OBVIOUS
  <2>2. PICK f, at, k : f = Own(s) /\ at = x.las[s].la_lpos /\ k = Len(LF!LinesAt(x, s, n))
    OBVIOUS
  <2>3. \A g \in File : g # f => y.text[g] = x.text[g]
    BY <1>2, <2>2, DelSets
  <2>4. UserFile \in File /\ UserFile # f
    BY <2>1, <2>2 DEF File
  <2>5. QED BY <2>3, <2>4
<1>6. QED BY <1>2, <1>4, <1>5 DEF Leaves, Spares

(* So do lines moved to the end of #o or #p.                               *)
LEMMA MoveLeaves ==
  ASSUME NEW S, NEW x, Fit(x, S), NEW s \in Stream, NEW n \in Nat, NEW b,
         NEW u \in BOOLEAN, u <=> Own(s) = UserFile,
         NEW d \in Stream \cup {None}, d # None => AtTail(d)
  PROVE  Leaves(u, b, x, Move(x, s, n, d))
<1>1. PICK z : z = Done(x, LF!Del(x, s, n)) OBVIOUS
<1>2. PICK ls : ls = LF!LinesAt(x, s, n) OBVIOUS
<1>3. Fit(z, S) /\ ls \in Seq(Line)
  BY <1>1, <1>2, DelIs, LinesAre
<1>4. Move(x, s, n, None) = z /\ \A e \in Stream : Move(x, s, n, e) = Ins(z, e, ls)
  BY <1>1, <1>2, MoveIsTwo
<1>5. Leaves(u, b, x, z)
  BY <1>1, DelLeaves
<1>6. \A e \in Stream : AtTail(e) => Leaves(u, b, z, Ins(z, e, ls))
  BY <1>3, TailOwn, InsLeaves
<1>7. CASE d = None
  BY <1>4, <1>5, <1>7
<1>8. CASE d # None
  <2>1. d \in Stream /\ AtTail(d)
    BY <1>8
  <2>2. Leaves(u, b, z, Ins(z, d, ls)) /\ Move(x, s, n, d) = Ins(z, d, ls)
    BY <1>4, <1>6, <2>1
  <2>3. QED BY <1>5, <2>2, LeavesThen
<1>9. QED BY <1>7, <1>8

-----------------------------------------------------------------------------
(* From x to y, no buffer becomes unsure.                                  *)
Firm(x, y) == \A c \in Buf : Sure(x, c) => Sure(y, c)

(* Two firm steps are one.                                                 *)
LEMMA FirmThen ==
  ASSUME NEW x, NEW y, NEW z, Firm(x, y), Firm(y, z)
  PROVE  Firm(x, z)
  BY DEF Firm

(* Only the places and the reservations matter. *)
LEMMA FirmSame ==
  ASSUME NEW x, NEW y, y.text = x.text,
         \A c \in Buf : /\ y.las[buflas(c)].la_lpos = x.las[buflas(c)].la_lpos
                        /\ y.las[buflas(c)].la_rlines = x.las[buflas(c)].la_rlines
                        /\ y.ncols[c] \in {x.ncols[c], 0}
  PROVE  Firm(x, y)
  BY DEF Firm, Sure, Whole, Lsize

(* Two buffers have two streams.                                           *)
LEMMA OtherBuf == \A b, c \in Buf : b # c => buflas(c) \in Stream \ {buflas(b)}
<1>1. SUFFICES ASSUME NEW b \in Buf, NEW c \in Buf, b # c PROVE buflas(c) \in Stream \ {buflas(b)}
  OBVIOUS
<1>2. buflas(c) \in Stream
  BY Streams
<1>3. buflas(c) # buflas(b)
  BY <1>1 DEF buflas
<1>4. QED BY <1>2, <1>3

(* Moving the editor's stream leaves all buffers.                          *)
LEMMA SeekLeaves ==
  ASSUME NEW S, NEW x, Fit(x, S), NEW f \in File, NEW at \in Nat, NEW u, NEW b
  PROVE  Leaves(u, b, x, Seek(x, f, at)) /\ Firm(x, Seek(x, f, at))
<1>1. PICK y : y = Seek(x, f, at) OBVIOUS
<1>2. y.text = x.text /\ y.ncols = x.ncols /\ \A s \in Stream \ {curlas(f)} : y.las[s] = x.las[s]
  BY <1>1, SeekSets
<1>3. \A c \in Buf : buflas(c) \in Stream \ {curlas(f)}
  BY NotCur
<1>4. \A c \in Buf : y.las[buflas(c)] = x.las[buflas(c)]
  BY <1>2, <1>3
<1>5. Leaves(u, b, x, y)
  BY <1>2, <1>4, SetLeaves
<1>6. Firm(x, y)
  BY <1>2, <1>4, FirmSame
<1>7. QED BY <1>1, <1>5, <1>6

(* What a command does to its own buffer's stream, and to the buffer's     *)
(* width, leaves the others alone.                                         *)
LEMMA OwnLeaves ==
  ASSUME NEW S, NEW x, Fit(x, S), NEW b \in Buf, NEW u, NEW y, y.text = x.text, y.ncols = x.ncols,
         \A s \in Stream \ {buflas(b)} : y.las[s] = x.las[s]
  PROVE  Leaves(u, b, x, y)
<1>1. \A c \in Buf \ {b} : y.las[buflas(c)] = x.las[buflas(c)] /\ y.ncols[c] = x.ncols[c]
  BY OtherBuf
<1>2. QED BY <1>1, SetLeaves

(* Telling b's stream to stay, or not, leaves the others, and is firm.     *)
LEMMA StayLeaves ==
  ASSUME NEW S, NEW x, Fit(x, S), NEW b \in Buf, NEW on \in BOOLEAN, NEW u
  PROVE  Leaves(u, b, x, Stay(x, b, on)) /\ Firm(x, Stay(x, b, on))
<1>1. PICK y : y = Stay(x, b, on) OBVIOUS
<1>2. /\ y.text = x.text /\ y.ncols = x.ncols
      /\ y.las[buflas(b)].la_stay = on /\ y.las[buflas(b)].la_lpos = x.las[buflas(b)].la_lpos
      /\ y.las[buflas(b)].la_file = x.las[buflas(b)].la_file
      /\ y.las[buflas(b)].la_rlines = x.las[buflas(b)].la_rlines
      /\ \A s \in Stream \ {buflas(b)} : y.las[s] = x.las[s]
  BY <1>1, StaySets
<1>3. \A c \in Buf : /\ y.las[buflas(c)].la_lpos = x.las[buflas(c)].la_lpos
                     /\ y.las[buflas(c)].la_rlines = x.las[buflas(c)].la_rlines
  BY <1>2, OtherBuf
<1>4. Firm(x, y)
  BY <1>2, <1>3, FirmSame
<1>5. Leaves(u, b, x, y)
  BY <1>2, OwnLeaves
<1>6. QED BY <1>1, <1>4, <1>5

(* So does putting b's stream at the end of its file.                      *)
LEMMA AtEndLeaves ==
  ASSUME NEW S, NEW x, Fit(x, S), NEW b \in Buf, NEW u
  PROVE  Leaves(u, b, x, AtEnd(x, b))
<1>1. PICK y : y = AtEnd(x, b) OBVIOUS
<1>2. /\ y.text = x.text /\ y.ncols = x.ncols
      /\ \A s \in Stream \ {buflas(b)} : y.las[s] = x.las[s]
  BY <1>1, AtEndSets
<1>3. QED BY <1>1, <1>2, OwnLeaves

(* So does reserving lines for b.                                          *)
LEMMA RlinesLeaves ==
  ASSUME NEW S, NEW x, Fit(x, S), NEW b \in Buf, NEW n \in Nat, NEW u
  PROVE  Leaves(u, b, x, Rlines(x, b, n))
<1>1. PICK y : y = Rlines(x, b, n) OBVIOUS
<1>2. /\ y.text = x.text /\ y.ncols = x.ncols
      /\ \A s \in Stream \ {buflas(b)} : y.las[s] = x.las[s]
  BY <1>1, RlinesSets
<1>3. QED BY <1>1, <1>2, OwnLeaves

(* So does putting b's stream where another one is.                        *)
LEMMA AlignLeaves ==
  ASSUME NEW S, NEW x, Fit(x, S), NEW b \in Buf, NEW s \in Stream, Own(s) = qtmpfn(b), NEW u
  PROVE  Leaves(u, b, x, Align(x, s, b))
<1>1. PICK y : y = Align(x, s, b) OBVIOUS
<1>2. /\ y.text = x.text /\ y.ncols = x.ncols
      /\ \A t \in Stream \ {buflas(b)} : y.las[t] = x.las[t]
  BY <1>1, AlignSets
<1>3. QED BY <1>1, <1>2, OwnLeaves

(* So does saying that b holds a rectangle, or none.                       *)
LEMMA NcolsLeaves ==
  ASSUME NEW S, NEW x, Fit(x, S), NEW b \in Buf, NEW v \in {0, 1}, NEW u
  PROVE  LET y == [x EXCEPT !.ncols[b] = v]
         IN  Leaves(u, b, x, y) /\ (v = 0 => Firm(x, y))
<1>1. PICK y : y = [x EXCEPT !.ncols[b] = v] OBVIOUS
<1>2. x \in States /\ x.ncols \in [Buf -> {0, 1}]
  BY DEF Fit, States
<1>3. y.text = x.text /\ y.las = x.las /\ y.ncols = [x.ncols EXCEPT ![b] = v]
  BY <1>1, <1>2 DEF States
<1>4. Leaves(u, b, x, y)
  <2>1. \A c \in Buf \ {b} : y.las[buflas(c)] = x.las[buflas(c)] /\ y.ncols[c] = x.ncols[c]
    BY <1>2, <1>3
  <2>2. QED BY <1>3, <2>1, SetLeaves
<1>5. v = 0 => Firm(x, y)
  <2>1. SUFFICES ASSUME v = 0 PROVE Firm(x, y)
    OBVIOUS
  <2>2. \A c \in Buf : y.ncols[c] \in {x.ncols[c], 0}
    BY <1>2, <1>3, <2>1
  <2>3. QED BY <1>3, <2>2, FirmSame
<1>6. QED BY <1>1, <1>4, <1>5

(* The end of edlines leaves the buffers but b.                            *)
LEMMA EndLeaves ==
  ASSUME NEW S, NEW b \in Buf, NEW x, Fit(x, S \cup {buflas(b)}), NEW n \in Nat, NEW u
  PROVE  Leaves(u, b, x, End(x, b, n))
<1>1. PICK y : y = Rlines(x, b, n) OBVIOUS
<1>2. Fit(y, S \cup {buflas(b)}) /\ Leaves(u, b, x, y)
  BY <1>1, RlinesIs, RlinesLeaves
<1>3. Leaves(u, b, y, Stay(y, b, FALSE)) /\ End(x, b, n) = Stay(y, b, FALSE)
  BY <1>1, <1>2, StayLeaves DEF End
<1>4. QED BY <1>2, <1>3, LeavesThen

(* So does its beginning.                                                  *)
LEMMA BeginLeaves ==
  ASSUME NEW S, NEW x, Fit(x, S), NEW b \in Buf, NEW f \in File,
         NEW at \in Nat, at <= Lsize(x, f), NEW u
  PROVE  Leaves(u, b, x, Begin(x, b, f, at)) /\ Firm(x, Begin(x, b, f, at))
<1>1. PICK v : v = [x EXCEPT !.ncols[b] = 0] OBVIOUS
<1>2. PICK w : w = Stay(v, b, TRUE) OBVIOUS
<1>3. PICK y : y = Seek(w, f, at) OBVIOUS
<1>4. Fit(v, S) /\ Leaves(u, b, x, v) /\ Firm(x, v)
  <2>1. Leaves(u, b, x, v) /\ Firm(x, v)
    BY <1>1, NcolsLeaves
  <2>2. QED BY <1>1, <2>1, NcolsIs
<1>5. Fit(w, S \cup {buflas(b)}) /\ Leaves(u, b, v, w) /\ Firm(v, w)
  BY <1>2, <1>4, StayOn, StayLeaves
<1>6. Leaves(u, b, w, y) /\ Firm(w, y)
  BY <1>3, <1>5, SeekLeaves
<1>7. Begin(x, b, f, at) = y
  BY <1>1, <1>2, <1>3 DEF Begin
<1>8. Leaves(u, b, x, w) /\ Firm(x, w)
  BY <1>4, <1>5, LeavesThen, FirmThen
<1>9. QED BY <1>6, <1>7, <1>8, LeavesThen, FirmThen

(* So does the beginning of receive.                                       *)
LEMMA GivenLeaves ==
  ASSUME NEW S, NEW x, Fit(x, S), NEW b \in Buf, NEW f \in File,
         NEW at \in Nat, at <= Lsize(x, f), NEW u
  PROVE  Leaves(u, b, x, Given(x, b, f, at))
<1>1. PICK v : v = AtEnd(x, b) OBVIOUS
<1>2. PICK w : w = Stay(v, b, TRUE) OBVIOUS
<1>3. PICK y : y = Seek(w, f, at) OBVIOUS
<1>4. Fit(v, S) /\ v.text = x.text /\ Leaves(u, b, x, v)
  BY <1>1, AtEndIs, AtEndLeaves
<1>5. Fit(w, S \cup {buflas(b)}) /\ w.text = v.text /\ Leaves(u, b, v, w)
  BY <1>2, <1>4, StayOn, StayLeaves
<1>6. Fit(y, S \cup {buflas(b)}) /\ Leaves(u, b, w, y)
  <2>1. at <= Lsize(w, f)
    BY <1>4, <1>5 DEF Lsize
  <2>2. QED BY <1>3, <1>5, <2>1, SeekIs, SeekLeaves
<1>7. Given(x, b, f, at) = [y EXCEPT !.ncols[b] = 0]
  BY <1>1, <1>2, <1>3 DEF Given
<1>8. Leaves(u, b, y, [y EXCEPT !.ncols[b] = 0])
  BY <1>6, NcolsLeaves
<1>9. Leaves(u, b, x, y)
  BY <1>4, <1>5, <1>6, LeavesThen
<1>10. QED BY <1>7, <1>8, <1>9, LeavesThen

(* The streams at which lines are appended are such streams.               *)
LEMMA Tails ==
  /\ fnlas(OLDLFILE) \in Stream /\ AtTail(fnlas(OLDLFILE))
  /\ \A b \in Buf : fnlas(qtmpfn(b)) \in Stream /\ AtTail(fnlas(qtmpfn(b)))
  BY Streams, NameAssumption DEF AtTail, fnlas, qtmpfn

(* Lines closed without being kept leave the buffers (or cost them lines,  *)
(* when they were theirs).                                                 *)
LEMMA CloseUnsavedLeaves ==
  ASSUME NEW S, NEW x, Fit(x, S), NEW f \in File, NEW at \in Nat, at <= Lsize(x, f), NEW n \in Nat,
         NEW b, NEW u \in BOOLEAN, u <=> f = UserFile
  PROVE  Leaves(u, b, x, CloseUnsaved(x, f, at, n)) /\ Firm(x, CloseUnsaved(x, f, at, n))
<1>1. PICK y : y = Seek(x, f, at) OBVIOUS
<1>2. Fit(y, S) /\ Leaves(u, b, x, y) /\ Firm(x, y)
  BY <1>1, SeekIs, SeekLeaves
<1>3. PICK z : z = Move(y, curlas(f), n, None) OBVIOUS
<1>4. Leaves(u, b, y, z)
  BY <1>2, <1>3, MoveLeaves, Streams
<1>5. Firm(y, z)
  BY <1>2, <1>3, MoveSure, Streams DEF Firm
<1>6. CloseUnsaved(x, f, at, n) = z
  BY <1>1, <1>3 DEF CloseUnsaved
<1>7. QED BY <1>2, <1>4, <1>5, <1>6, LeavesThen, FirmThen

(* Closing lines into b leaves all other buffers; in #o it leaves b sure.  *)
LEMMA CloseLinesLeaves ==
  ASSUME NEW S, NEW x, Fit(x, S), NEW b \in Buf, NEW f \in File, NEW at \in Nat, at <= Lsize(x, f),
         NEW n \in Nat, NEW u \in BOOLEAN, u <=> f = UserFile
  PROVE  /\ Leaves(u, b, x, CloseLines(x, b, f, at, n))
         /\ f = OLDLFILE => Firm(x, CloseLines(x, b, f, at, n))
<1>1. PICK y, T : y = Begin(x, b, f, at) /\ T = S \cup {buflas(b)} OBVIOUS
<1>2. Fit(y, T) /\ Leaves(u, b, x, y) /\ Firm(x, y) /\ Lsize(y, f) = Lsize(x, f)
  BY <1>1, BeginIs, BeginLeaves DEF Lsize
<1>3. CASE f = OLDLFILE
  <2>1. PICK z : z = CloseUnsaved(y, f, at, n) OBVIOUS
  <2>2. Fit(z, T) /\ Leaves(u, b, y, z) /\ Firm(y, z)
    BY <1>2, <2>1, CloseUnsavedIs, CloseUnsavedLeaves
  <2>3. Leaves(u, b, z, Stay(z, b, FALSE)) /\ Firm(z, Stay(z, b, FALSE))
    BY <2>2, StayLeaves
  <2>4. CloseLines(x, b, f, at, n) = Stay(z, b, FALSE)
    BY <1>1, <1>3, <2>1 DEF CloseLines
  <2>5. Leaves(u, b, x, z) /\ Firm(x, z)
    BY <1>2, <2>2, LeavesThen, FirmThen
  <2>6. PICK r : r = Stay(z, b, FALSE) OBVIOUS
  <2>7. Leaves(u, b, z, r) /\ Firm(z, r)
    BY <2>3, <2>6
  <2>8. Leaves(u, b, x, r)
    BY <2>5, <2>7, LeavesThen
  <2>9. Firm(x, r)
    BY <2>5, <2>7, FirmThen
  <2>10. QED BY <2>4, <2>6, <2>8, <2>9
<1>4. CASE f # OLDLFILE
  <2>1. PICK z : z = AtEnd(y, b) OBVIOUS
  <2>2. Fit(z, T) /\ Leaves(u, b, y, z)
    BY <1>2, <2>1, AtEndIs, AtEndLeaves
  <2>3. PICK w : w = Move(z, curlas(f), n, fnlas(OLDLFILE)) OBVIOUS
  <2>4. Fit(w, T)
    BY <2>2, <2>3, MoveIs, Streams
  <2>5. Leaves(u, b, z, w)
    BY <2>2, <2>3, MoveLeaves, Streams, Tails
  <2>6. Leaves(u, b, w, End(w, b, n))
    BY <1>1, <2>4, EndLeaves
  <2>7. CloseLines(x, b, f, at, n) = End(w, b, n)
    BY <1>1, <1>4, <2>1, <2>3 DEF CloseLines
  <2>8. Leaves(u, b, x, z)
    BY <1>2, <2>2, LeavesThen
  <2>9. Leaves(u, b, x, w)
    BY <2>5, <2>8, LeavesThen
  <2>10. QED BY <1>4, <2>6, <2>7, <2>9, LeavesThen
<1>5. QED BY <1>3, <1>4

(* Erasing lines into b does.                                              *)
LEMMA EraseLinesLeaves ==
  ASSUME NEW S, NEW x, Fit(x, S), NEW b \in Buf, NEW f \in File, NEW at \in Nat, at <= Lsize(x, f),
         NEW n \in Nat, NEW u \in BOOLEAN, u <=> f = UserFile
  PROVE  /\ Leaves(u, b, x, EraseLines(x, b, f, at, n))
         /\ f = OLDLFILE => Firm(x, EraseLines(x, b, f, at, n))
<1>1. PICK y, T : y = Begin(x, b, f, at) /\ T = S \cup {buflas(b)} OBVIOUS
<1>2. Fit(y, T) /\ Leaves(u, b, x, y) /\ Firm(x, y) /\ Lsize(y, f) = Lsize(x, f)
  BY <1>1, BeginIs, BeginLeaves DEF Lsize
<1>b. PICK ls : ls = The!Blanks(n) OBVIOUS
<1>l. ls \in Seq(Line)
  BY <1>b, BlanksAre
<1>3. CASE f = OLDLFILE
  <2>1. PICK z : z = CloseUnsaved(y, f, at, n) OBVIOUS
  <2>2. Fit(z, T) /\ Leaves(u, b, y, z) /\ Firm(y, z)
    BY <1>2, <2>1, CloseUnsavedIs, CloseUnsavedLeaves
  <2>3. PICK w : w = Ins(z, curlas(f), ls) OBVIOUS
  <2>4. Fit(w, T) /\ Leaves(u, b, z, w)
    BY <1>l, <2>2, <2>3, InsIs, InsLeaves, Streams
  <2>5. Firm(z, w)
    BY <1>l, <2>2, <2>3, InsSure, Streams DEF Firm
  <2>6. Leaves(u, b, w, Stay(w, b, FALSE)) /\ Firm(w, Stay(w, b, FALSE))
    BY <2>4, StayLeaves
  <2>7. EraseLines(x, b, f, at, n) = Stay(w, b, FALSE)
    BY <1>1, <1>3, <1>b, <2>1, <2>3 DEF EraseLines
  <2>8. Leaves(u, b, x, z) /\ Firm(x, z)
    BY <1>2, <2>2, LeavesThen, FirmThen
  <2>9. Leaves(u, b, x, w) /\ Firm(x, w)
    BY <2>4, <2>5, <2>8, LeavesThen, FirmThen
  <2>10. PICK r : r = Stay(w, b, FALSE) OBVIOUS
  <2>11. Leaves(u, b, w, r) /\ Firm(w, r)
    BY <2>6, <2>10
  <2>12. Leaves(u, b, x, r)
    BY <2>9, <2>11, LeavesThen
  <2>13. Firm(x, r)
    BY <2>9, <2>11, FirmThen
  <2>14. QED BY <2>7, <2>10, <2>12, <2>13
<1>4. CASE f # OLDLFILE
  <2>1. PICK z : z = AtEnd(y, b) OBVIOUS
  <2>2. Fit(z, T) /\ Leaves(u, b, y, z)
    BY <1>2, <2>1, AtEndIs, AtEndLeaves
  <2>3. PICK w : w = Move(z, curlas(f), n, fnlas(OLDLFILE)) OBVIOUS
  <2>4. Fit(w, T)
    BY <2>2, <2>3, MoveIs, Streams
  <2>5. Leaves(u, b, z, w)
    BY <2>2, <2>3, MoveLeaves, Streams, Tails
  <2>i. PICK v : v = Ins(w, curlas(f), ls) OBVIOUS
  <2>6. Fit(v, T) /\ Leaves(u, b, w, v)
    BY <1>l, <2>4, <2>i, InsIs, InsLeaves, Streams
  <2>7. Leaves(u, b, v, End(v, b, n))
    BY <1>1, <2>6, EndLeaves
  <2>8. EraseLines(x, b, f, at, n) = End(v, b, n)
    BY <1>1, <1>4, <1>b, <2>1, <2>3, <2>i DEF EraseLines
  <2>9. Leaves(u, b, x, z)
    BY <1>2, <2>2, LeavesThen
  <2>10. Leaves(u, b, x, w)
    BY <2>5, <2>9, LeavesThen
  <2>11. Leaves(u, b, x, v)
    BY <2>6, <2>10, LeavesThen
  <2>12. QED BY <1>4, <2>7, <2>8, <2>11, LeavesThen
<1>5. QED BY <1>3, <1>4

(* Picking lines into b does.                                              *)
LEMMA PickLinesLeaves ==
  ASSUME NEW S, NEW x, Fit(x, S), NEW b \in Buf, NEW f \in File, NEW at \in Nat, at <= Lsize(x, f),
         f = PICKFILE => b = QPICK, NEW n \in Nat, NEW u \in BOOLEAN, u <=> f = UserFile
  PROVE  Leaves(u, b, x, PickLines(x, b, f, at, n))
<1>1. PICK y, T : y = Begin(x, b, f, at) /\ T = S \cup {buflas(b)} OBVIOUS
<1>2. Fit(y, T) /\ Leaves(u, b, x, y)
  BY <1>1, BeginIs, BeginLeaves
<1>3. CASE f = PICKFILE
  <2>1. PICK z : z = Align(y, curlas(f), b) OBVIOUS
  <2>2. curlas(f) \in Stream /\ Own(curlas(f)) = qtmpfn(b)
    BY <1>3, Streams, Names
  <2>3. Fit(z, T) /\ Leaves(u, b, y, z)
    BY <1>2, <2>1, <2>2, AlignIs, AlignLeaves
  <2>4. Leaves(u, b, z, End(z, b, n))
    BY <1>1, <2>3, EndLeaves
  <2>5. PickLines(x, b, f, at, n) = End(z, b, n)
    BY <1>1, <1>3, <2>1 DEF PickLines
  <2>6. Leaves(u, b, x, z)
    BY <1>2, <2>3, LeavesThen
  <2>7. QED BY <2>4, <2>5, <2>6, LeavesThen
<1>4. CASE f # PICKFILE
  <2>1. PICK z : z = AtEnd(y, b) OBVIOUS
  <2>2. Fit(z, T) /\ Leaves(u, b, y, z)
    BY <1>2, <2>1, AtEndIs, AtEndLeaves
  <2>3. PICK ls : ls = LF!LinesAt(z, curlas(f), n) OBVIOUS
  <2>4. ls \in Seq(Line)
    BY <2>2, <2>3, LinesAtIs, Streams
  <2>5. PICK w, s : s = fnlas(qtmpfn(b)) /\ w = Ins(z, s, ls) OBVIOUS
  <2>6. s \in Stream /\ AtTail(s) /\ Own(s) # UserFile
    BY <2>5, Tails, TailOwn
  <2>7. Fit(w, T) /\ Leaves(u, b, z, w)
    BY <2>2, <2>4, <2>5, <2>6, InsIs, InsLeaves
  <2>8. Leaves(u, b, w, End(w, b, n))
    BY <1>1, <2>7, EndLeaves
  <2>9. PickLines(x, b, f, at, n) = End(w, b, n)
    BY <1>1, <1>4, <2>1, <2>3, <2>5 DEF PickLines, Copy
  <2>10. Leaves(u, b, x, z)
    BY <1>2, <2>2, LeavesThen
  <2>11. Leaves(u, b, x, w)
    BY <2>7, <2>10, LeavesThen
  <2>12. QED BY <2>8, <2>9, <2>11, LeavesThen
<1>5. QED BY <1>3, <1>4

(* A pick that fails leaves the others, and b holds nothing.               *)
LEMMA PickFailsLeaves ==
  ASSUME NEW S, NEW x, Fit(x, S), NEW b \in Buf, NEW f \in File, NEW at \in Nat, at <= Lsize(x, f), NEW u
  PROVE  LET y == PickFails(x, b, f, at)
         IN  /\ Leaves(u, b, x, y) /\ y.text = x.text
             /\ Sure(y, b) /\ Res(y, buflas(b)) = << >>
<1>1. PICK y, T : y = Begin(x, b, f, at) /\ T = S \cup {buflas(b)} OBVIOUS
<1>2. Fit(y, T) /\ Leaves(u, b, x, y) /\ y.text = x.text
  BY <1>1, BeginIs, BeginLeaves
<1>3. PICK z, w : z = AtEnd(y, b) /\ w = Stay(z, b, FALSE) OBVIOUS
<1>4. Fit(z, T) /\ Leaves(u, b, y, z) /\ z.text = y.text
  BY <1>2, <1>3, AtEndIs, AtEndLeaves
<1>5. Fit(w, S) /\ Leaves(u, b, z, w) /\ w.text = z.text
  BY <1>1, <1>3, <1>4, StayOff, StayLeaves, ZenonT(45)
<1>6. PickFails(x, b, f, at) = w
  BY <1>1, <1>3 DEF PickFails
<1>7. Leaves(u, b, x, w)
  <2>1. Leaves(u, b, x, z)
    BY <1>2, <1>4, LeavesThen
  <2>2. QED BY <1>5, <2>1, LeavesThen
<1>8. PICK q : q = buflas(b) OBVIOUS
<1>9. Ready(z, b) /\ z.ncols[b] = 0
  BY <1>1, <1>3, GetReady
<1>10. w.las[q].la_lpos = Lsize(w, qtmpfn(b)) /\ w.ncols[b] = 0
  <2>1. w.las[q].la_lpos = z.las[q].la_lpos
    BY <1>3, <1>4, <1>8, StayOffSets, ZenonT(45)
  <2>2. w.ncols = z.ncols
    BY <1>3, <1>4, StayRes
  <2>3. QED BY <1>5, <1>8, <1>9, <2>1, <2>2 DEF Ready, Lsize
<1>11. Sure(w, b)
  BY <1>8, <1>10 DEF Sure
<1>12. Res(w, q) = << >>
  <2>1. q \in Stream /\ Own(q) = qtmpfn(b)
    BY <1>8, Streams
  <2>2. PICK n : n = w.las[q].la_rlines OBVIOUS
  <2>3. n \in Nat
    BY <1>5, <2>1, <2>2, Placed
  <2>4. PICK ls, at2 : ls = LF!LinesAt(w, q, n) /\ at2 = w.las[q].la_lpos OBVIOUS
  <2>5. ls \in Seq(Line) /\ Len(ls) \in Nat /\ at2 + Len(ls) <= Lsize(w, Own(q)) /\ at2 \in Nat
    BY <1>5, <2>1, <2>3, <2>4, LinesAre
  <2>6. Len(ls) = 0
    BY <1>10, <2>1, <2>4, <2>5
  <2>7. ls = << >>
    BY <2>5, <2>6, EmptySeq
  <2>8. QED BY <2>2, <2>4, <2>7 DEF Res
<1>13. QED BY <1>2, <1>4, <1>5, <1>6, <1>7, <1>8, <1>11, <1>12

(* So does a close or an erase that fails; in #o, b keeps what it held.    *)
LEMMA LinesFailLeaves ==
  ASSUME NEW S, NEW x, Fit(x, S), NEW b \in Buf, NEW f \in File, NEW at \in Nat, at <= Lsize(x, f), NEW u
  PROVE  LET y == LinesFail(x, b, f, at)
         IN  /\ Leaves(u, b, x, y) /\ y.text = x.text
             /\ Sure(x, b) => Sure(y, b)
             /\ f = UserFile => Res(y, buflas(b)) = << >>
<1>1. CASE f = OLDLFILE /\ b # QPICK
  <2>1. PICK y, z : y = Begin(x, b, f, at) /\ z = Stay(y, b, FALSE) OBVIOUS
  <2>2. Fit(y, S \cup {buflas(b)}) /\ Leaves(u, b, x, y) /\ y.text = x.text /\ Firm(x, y)
    BY <2>1, BeginIs, BeginLeaves
  <2>3. Fit(z, S) /\ Leaves(u, b, y, z) /\ z.text = y.text /\ Firm(y, z)
    BY <2>1, <2>2, StayOff, StayLeaves
  <2>4. LinesFail(x, b, f, at) = z
    BY <1>1, <2>1 DEF LinesFail
  <2>5. Leaves(u, b, x, z) /\ Firm(x, z)
    BY <2>2, <2>3, LeavesThen, FirmThen
  <2>6. f # UserFile
    BY <1>1, NameAssumption
  <2>7. QED BY <2>2, <2>3, <2>4, <2>5, <2>6 DEF Firm
<1>2. CASE ~ (f = OLDLFILE /\ b # QPICK)
  <2>1. LinesFail(x, b, f, at) = PickFails(x, b, f, at)
    BY <1>2 DEF LinesFail
  <2>2. QED BY <2>1, PickFailsLeaves
<1>3. QED BY <1>1, <1>2

(* A rectangle that is written out for b leaves the others, and b has it   *)
(* all.                                                                    *)
LEMMA WriteOutLeaves ==
  ASSUME NEW S, NEW x, Fit(x, S), NEW b \in Buf, NEW ls \in Seq(Line), NEW u \in BOOLEAN
  PROVE  LET y == WriteOut(x, b, ls)
         IN  Leaves(u, b, x, y) /\ Sure(y, b) /\ y.text[UserFile] = x.text[UserFile]
<1>1. PICK v, w, T : v = AtEnd(x, b) /\ w = Stay(v, b, TRUE) /\ T = S \cup {buflas(b)} OBVIOUS
<1>2. Fit(v, S) /\ Leaves(u, b, x, v) /\ v.text = x.text
  BY <1>1, AtEndIs, AtEndLeaves
<1>3. Fit(w, T) /\ Leaves(u, b, v, w) /\ w.text = v.text
  BY <1>1, <1>2, StayOn, StayLeaves
<1>4. PICK s, ps : s = fnlas(qtmpfn(b)) /\ ps = The!Pieces(ls) OBVIOUS
<1>5. s \in Stream /\ AtTail(s) /\ Own(s) # UserFile /\ ps \in Seq(Line)
  BY <1>4, Tails, TailOwn, PiecesAre
<1>6. PICK y : y = Ins(w, s, ps) OBVIOUS
<1>7. Fit(y, T) /\ Leaves(u, b, w, y) /\ Leaves(FALSE, b, w, y)
  <2>1. Fit(y, T) /\ Leaves(u, b, w, y)
    BY <1>3, <1>5, <1>6, InsIs, InsLeaves
  <2>2. Leaves(FALSE, b, w, y)
    BY <1>3, <1>5, <1>6, InsLeaves
  <2>3. QED BY <2>1, <2>2
<1>8. PICK z, n : n = Len(ls) /\ z = End(y, b, n) OBVIOUS
<1>9. n \in Nat
  BY <1>8, LenProperties
<1>10. Fit(z, S) /\ Leaves(u, b, y, z) /\ z.text = y.text
  <2>1. Fit(y, S \cup {buflas(b)})
    BY <1>1, <1>7
  <2>2. Fit(z, S) /\ z.text = y.text
    BY <1>8, <1>9, <2>1, EndIs
  <2>3. Leaves(u, b, y, z)
    BY <1>8, <1>9, <2>1, EndLeaves
  <2>4. QED BY <2>2, <2>3
<1>11. WriteOut(x, b, ls) = [z EXCEPT !.ncols[b] = 1]
  BY <1>1, <1>4, <1>6, <1>8 DEF WriteOut
<1>12. PICK r : r = [z EXCEPT !.ncols[b] = 1] OBVIOUS
<1>13. Leaves(u, b, z, r) /\ r.text = z.text
  BY <1>10, <1>12, NcolsLeaves, NcolsIs
<1>14. Leaves(u, b, x, r)
  <2>1. Leaves(u, b, x, w)
    BY <1>2, <1>3, LeavesThen
  <2>2. Leaves(u, b, x, y)
    BY <1>7, <2>1, LeavesThen
  <2>3. Leaves(u, b, x, z)
    BY <1>10, <2>2, LeavesThen
  <2>4. QED BY <1>13, <2>3, LeavesThen
<1>15. Whole(r, b)
  BY <1>11, <1>12, WriteOutTakes
<1>16. y.text[UserFile] = w.text[UserFile]
  BY <1>7 DEF Leaves
<1>17. QED BY <1>2, <1>3, <1>10, <1>11, <1>12, <1>13, <1>14, <1>15, <1>16 DEF Sure

(* Lines of a file that are replaced leave the buffers, and it is firm.    *)
LEMMA RewriteLeaves ==
  ASSUME NEW S, NEW x, Fit(x, S), NEW f \in File, NEW at \in Nat, at <= Lsize(x, f), NEW new \in Seq(Line),
         NEW b, NEW u \in BOOLEAN, u <=> f = UserFile
  PROVE  Leaves(u, b, x, Rewrite(x, f, at, new)) /\ Firm(x, Rewrite(x, f, at, new))
<1>1. PICK y, s, n : y = Seek(x, f, at) /\ s = curlas(f) /\ n = Len(new) OBVIOUS
<1>2. Fit(y, S) /\ Leaves(u, b, x, y) /\ Firm(x, y)
  BY <1>1, SeekIs, SeekLeaves
<1>3. s \in Stream /\ Own(s) = f /\ n \in Nat
  BY <1>1, Streams, LenProperties
<1>4. PICK z : z = Move(y, s, n, fnlas(OLDLFILE)) OBVIOUS
<1>5. Fit(z, S)
  BY <1>2, <1>3, <1>4, MoveIs, Tails
<1>6. Leaves(u, b, y, z)
  BY <1>2, <1>3, <1>4, MoveLeaves, Tails
<1>7. Firm(y, z)
  BY <1>2, <1>3, <1>4, MoveSure, Tails DEF Firm
<1>8. PICK w : w = Ins(z, s, new) OBVIOUS
<1>9. Leaves(u, b, z, w)
  BY <1>3, <1>5, <1>8, InsLeaves
<1>10. Firm(z, w)
  BY <1>3, <1>5, <1>8, InsSure DEF Firm
<1>11. Rewrite(x, f, at, new) = w
  BY <1>1, <1>4, <1>8 DEF Rewrite
<1>12. Leaves(u, b, x, z) /\ Firm(x, z)
  BY <1>2, <1>6, <1>7, LeavesThen, FirmThen
<1>13. QED BY <1>9, <1>10, <1>11, <1>12, LeavesThen, FirmThen

(* A rectangle closed or erased into b leaves the others.                  *)
LEMMA ClearRectLeaves ==
  ASSUME NEW S, NEW x, Fit(x, S), NEW b \in Buf, NEW f \in File, NEW at \in Nat, at <= Lsize(x, f),
         NEW n \in Nat, NEW u \in BOOLEAN, u <=> f = UserFile
  PROVE  LET y == ClearRect(x, b, f, at, n)
         IN  Leaves(u, b, x, y) /\ Sure(y, b)
<1>1. PICK y, ls : y = PickRect(x, b, f, at, n) /\ ls = Area(x, f, at, n) OBVIOUS
<1>2. ls \in Seq(Line) /\ y = WriteOut(x, b, ls)
  BY <1>1, AreaIs DEF PickRect
<1>3. Fit(y, S) /\ Kept(x, y)
  BY <1>1, PickRectIs
<1>4. Leaves(u, b, x, y) /\ Sure(y, b)
  BY <1>2, WriteOutLeaves
<1>5. PICK new : new = The!Without(Area(y, f, at, n)) OBVIOUS
<1>6. new \in Seq(Line)
  BY <1>3, <1>5, AreaIs, PiecesAre
<1>7. at <= Lsize(y, f)
  <2>1. Lsize(x, f) \in Nat /\ Lsize(y, f) \in Nat
    BY <1>3, Sizes
  <2>2. QED BY <1>3, <2>1 DEF Kept
<1>8. Leaves(u, b, y, Rewrite(y, f, at, new)) /\ Firm(y, Rewrite(y, f, at, new))
  BY <1>3, <1>6, <1>7, RewriteLeaves
<1>9. ClearRect(x, b, f, at, n) = Rewrite(y, f, at, new)
  BY <1>1, <1>5 DEF ClearRect
<1>10. QED BY <1>4, <1>8, <1>9, LeavesThen DEF Firm

(* A file that is made longer leaves the buffers.                          *)
LEMMA extendLeaves ==
  ASSUME NEW S, NEW x, Fit(x, S), NEW f \in File, NEW at \in Nat, NEW b,
         NEW u \in BOOLEAN, u <=> f = UserFile
  PROVE  Leaves(u, b, x, extend(x, f, at)) /\ Firm(x, extend(x, f, at))
<1>1. PICK n, gap : n = Lsize(x, f) /\ gap = at - n OBVIOUS
<1>2. n \in Nat
  BY <1>1, Sizes
<1>3. CASE gap <= 0
  <2>1. extend(x, f, at) = x
    BY <1>1, <1>3 DEF extend
  <2>2. Leaves(u, b, x, x)
    BY SetLeaves
  <2>3. QED BY <2>1, <2>2 DEF Firm
<1>4. CASE ~ (gap <= 0)
  <2>1. gap \in Nat
    BY <1>1, <1>2, <1>4
  <2>2. PICK y, s, ls : y = Seek(x, f, n) /\ s = curlas(f) /\ ls = The!Blanks(gap) OBVIOUS
  <2>3. Fit(y, S) /\ Leaves(u, b, x, y) /\ Firm(x, y)
    <3>1. n <= Lsize(x, f)
      BY <1>1, <1>2
    <3>2. QED BY <1>2, <2>2, <3>1, SeekIs, SeekLeaves
  <2>4. ls \in Seq(Line) /\ s \in Stream /\ Own(s) = f
    BY <2>1, <2>2, BlanksAre, Streams
  <2>5. PICK z : z = Ins(y, s, ls) OBVIOUS
  <2>6. Leaves(u, b, y, z)
    BY <2>3, <2>4, <2>5, InsLeaves
  <2>7. Firm(y, z)
    BY <2>3, <2>4, <2>5, InsSure DEF Firm
  <2>8. extend(x, f, at) = z
    BY <1>1, <1>4, <2>2, <2>5 DEF extend
  <2>9. QED BY <2>3, <2>6, <2>7, <2>8, LeavesThen, FirmThen
<1>5. QED BY <1>3, <1>4

(* Putting a buffer's lines leaves all buffers, that one too.              *)
LEMMA PutLinesLeaves ==
  ASSUME NEW S, NEW x, Fit(x, S), NEW c \in Buf, NEW f \in File, NEW at \in Nat, NEW b,
         NEW u \in BOOLEAN, u <=> f = UserFile
  PROVE  Leaves(u, b, x, PutLines(x, c, f, at)) /\ Firm(x, PutLines(x, c, f, at))
<1>1. PICK y, n : y = extend(x, f, at) /\ n = Reserved(x, c) OBVIOUS
<1>2. Fit(y, S) /\ Lsize(y, f) >= at
  BY <1>1, extendIs
<1>3. Leaves(u, b, x, y) /\ Firm(x, y) /\ n \in Nat /\ Lsize(y, f) \in Nat
  BY <1>1, <1>2, extendLeaves, ReservedIs, Sizes
<1>4. PICK z : z = Seek(y, f, at) OBVIOUS
<1>5. Fit(z, S) /\ Leaves(u, b, y, z) /\ Firm(y, z)
  <2>1. at <= Lsize(y, f)
    BY <1>2, <1>3
  <2>2. QED BY <1>2, <1>4, <2>1, SeekIs, SeekLeaves
<1>6. PICK ls, s : ls = LF!LinesAt(z, buflas(c), n) /\ s = curlas(f) OBVIOUS
<1>7. ls \in Seq(Line) /\ s \in Stream /\ Own(s) = f
  BY <1>3, <1>5, <1>6, LinesAtIs, Streams
<1>8. PICK w : w = Ins(z, s, ls) OBVIOUS
<1>9. Leaves(u, b, z, w)
  BY <1>5, <1>7, <1>8, InsLeaves
<1>10. Firm(z, w)
  BY <1>5, <1>7, <1>8, InsSure DEF Firm
<1>11. PutLines(x, c, f, at) = w
  BY <1>1, <1>4, <1>6, <1>8 DEF PutLines, Copy
<1>12. Leaves(u, b, x, z) /\ Firm(x, z)
  BY <1>3, <1>5, LeavesThen, FirmThen
<1>13. QED BY <1>9, <1>10, <1>11, <1>12, LeavesThen, FirmThen

(* Putting a rectangle does.                                               *)
LEMMA PutRectLeaves ==
  ASSUME NEW S, NEW x, Fit(x, S), NEW c \in Buf, NEW f \in File, NEW at \in Nat, NEW b,
         NEW u \in BOOLEAN, u <=> f = UserFile
  PROVE  Leaves(u, b, x, PutRect(x, c, f, at)) /\ Firm(x, PutRect(x, c, f, at))
<1> DEFINE y   == extend(x, f, at)
           n   == Reserved(y, c)
           p   == y.las[buflas(c)].la_lpos
           got == Area(y, qtmpfn(c), p, n)
           was == Area(y, f, at, n)
           new == [i \in 1 .. n |-> The!With(was[i], got[i][1])]
<1>1. Fit(y, S) /\ Lsize(y, f) >= at /\ Lsize(y, f) \in Nat
  BY extendIs, Sizes
<1>2. PutRect(x, c, f, at) = Rewrite(y, f, at, new)
  BY DEF PutRect
<1>a. Leaves(u, b, x, y) /\ Firm(x, y)
  BY extendLeaves
<1> HIDE DEF y
<1>3. n \in Nat /\ p \in Nat
  BY <1>1, ReservedIs
<1> HIDE DEF n, p
<1>4. got \in Seq(Line) /\ Len(got) = n
  <2>1. qtmpfn(c) \in File
    BY Streams
  <2>2. QED BY <1>1, <1>3, <2>1, AreaIs, ZenonT(45)
<1>w. was \in Seq(Line) /\ Len(was) = n
  BY <1>1, <1>3, AreaIs, SMTT(45)
<1> HIDE DEF got, was
<1>5. \A i \in 1 .. n : got[i] \in Line /\ was[i] \in Line
  BY <1>3, <1>4, <1>w, ElementOfSeq
<1>6. \A i \in 1 .. n : The!With(was[i], got[i][1]) \in Line
  BY <1>5, LineParts, QBufAssumption
<1>7. new \in Seq(Line)
  BY <1>3, <1>6
<1> HIDE DEF new
<1>8. Leaves(u, b, y, Rewrite(y, f, at, new)) /\ Firm(y, Rewrite(y, f, at, new))
  <2>1. at <= Lsize(y, f)
    BY <1>1
  <2>2. QED BY <1>1, <1>7, <2>1, RewriteLeaves
<1>9. QED BY <1>2, <1>8, <1>a, LeavesThen, FirmThen

(* A line that is put back does.                                           *)
LEMMA putlineLeaves ==
  ASSUME NEW S, NEW x, Fit(x, S), NEW f \in File, NEW at \in Nat, at <= Lsize(x, f), NEW l \in Line,
         NEW b, NEW u \in BOOLEAN, u <=> f = UserFile
  PROVE  Leaves(u, b, x, putline(x, f, at, l)) /\ Firm(x, putline(x, f, at, l))
<1>1. PICK old : old = IF at < Lsize(x, f) /\ x.text[f][at + 1] # The!Blank
                    THEN fnlas(OLDLFILE) ELSE None
  OBVIOUS
<1>2. old \in Stream \cup {None} /\ (old # None => AtTail(old))
  BY <1>1, Tails
<1>3. PICK y, s, new : y = Seek(x, f, at) /\ s = curlas(f) /\ new = << l >> OBVIOUS
<1>4. Fit(y, S) /\ Leaves(u, b, x, y) /\ Firm(x, y) /\ s \in Stream /\ Own(s) = f
  BY <1>3, SeekIs, SeekLeaves, Streams
<1>5. new \in Seq(Line)
  BY <1>3
<1>6. PICK z : z = Ins(y, s, new) OBVIOUS
<1>7. Fit(z, S) /\ Leaves(u, b, y, z)
  BY <1>4, <1>5, <1>6, InsIs, InsLeaves
<1>8. Firm(y, z)
  BY <1>4, <1>5, <1>6, InsSure DEF Firm
<1>9. PICK one : one = 1 OBVIOUS
<1>10. PICK w : w = Move(z, s, one, old) OBVIOUS
<1>11. one \in Nat
  BY <1>9
<1>12. Leaves(u, b, z, w)
  BY <1>2, <1>4, <1>7, <1>10, <1>11, MoveLeaves
<1>13. Firm(z, w)
  BY <1>2, <1>4, <1>7, <1>10, <1>11, MoveSure DEF Firm
<1>14. putline(x, f, at, l) = w
  BY <1>1, <1>3, <1>6, <1>9, <1>10 DEF putline
<1>15. Leaves(u, b, x, z) /\ Firm(x, z)
  BY <1>4, <1>7, <1>8, LeavesThen, FirmThen
<1>16. QED BY <1>12, <1>13, <1>14, <1>15, LeavesThen, FirmThen

(* Two lines that are joined do.                                           *)
LEMMA dojoinLeaves ==
  ASSUME NEW S, NEW x, Fit(x, S), NEW f \in File, NEW at \in Nat, at < Lsize(x, f),
         NEW n \in Nat, NEW l \in Line, NEW b, NEW u \in BOOLEAN, u <=> f = UserFile
  PROVE  Leaves(u, b, x, dojoin(x, f, at, n, l)) /\ Firm(x, dojoin(x, f, at, n, l))
<1>1. PICK y : y = putline(x, f, at, l) OBVIOUS
<1>2. Lsize(x, f) \in Nat /\ at <= Lsize(x, f)
  BY Sizes
<1>3. Fit(y, S) /\ Kept(x, y) /\ Leaves(u, b, x, y) /\ Firm(x, y)
  BY <1>1, <1>2, putlineIs, putlineLeaves
<1>4. at + 1 \in Nat /\ at + 1 <= Lsize(y, f)
  <2>1. Lsize(y, f) \in Nat
    BY <1>3, Sizes
  <2>2. QED BY <1>2, <1>3, <2>1 DEF Kept
<1>5. PICK z, j : j = at + 1 /\ z = CloseUnsaved(y, f, j, n) OBVIOUS
<1>6. Leaves(u, b, y, z) /\ Firm(y, z)
  BY <1>3, <1>4, <1>5, CloseUnsavedLeaves
<1>7. dojoin(x, f, at, n, l) = z
  BY <1>1, <1>5 DEF dojoin
<1>8. QED BY <1>3, <1>6, <1>7, LeavesThen, FirmThen

(* Two lines that are cut for it do.                                       *)
LEMMA CutLeaves ==
  ASSUME NEW S, NEW x, Fit(x, S), NEW f \in File, NEW at \in Nat, NEW n \in Nat,
         at + n < Lsize(x, f), NEW b, NEW u \in BOOLEAN, u <=> f = UserFile
  PROVE  Leaves(u, b, x, Cut(x, f, at, n))
<1> DEFINE ls == Area(x, f, at, n + 1)
           k == The!With(ls[n + 1], empty)
           l == The!Piece(ls[1])
           y == putline(x, f, at + n, k)
           z == putline(y, f, at, l)
<1>1. k \in Line /\ l \in Line
  BY EndsOfArea, LineParts, QBufAssumption
<1>2. Cut(x, f, at, n) = z
  BY DEF Cut
<1> HIDE DEF k, l
<1>3. Lsize(x, f) \in Nat /\ at + n \in Nat /\ at + n <= Lsize(x, f)
  BY Sizes
<1>4. Fit(y, S) /\ Kept(x, y) /\ Leaves(u, b, x, y)
  BY <1>1, <1>3, putlineIs, putlineLeaves
<1> HIDE DEF y
<1>5. at <= Lsize(y, f)
  <2>1. Lsize(y, f) \in Nat
    BY <1>4, Sizes
  <2>2. QED BY <1>3, <1>4, <2>1 DEF Kept
<1>6. Leaves(u, b, y, z)
  BY <1>1, <1>4, <1>5, putlineLeaves
<1> HIDE DEF z
<1>7. QED BY <1>2, <1>4, <1>6, LeavesThen

(* What a program wrote leaves all buffers but b, which takes what it      *)
(* replaces.                                                               *)
LEMMA receiveLeaves ==
  ASSUME NEW S, NEW x, Fit(x, S), NEW b \in Buf, NEW f \in File,
         NEW at \in Nat, at <= Lsize(x, f), NEW n \in Nat, NEW new \in Seq(Line),
         NEW u \in BOOLEAN, u <=> f = UserFile
  PROVE  Leaves(u, b, x, receive(x, b, f, at, n, new))
<1>1. PICK y, T : y = Given(x, b, f, at) /\ T = S \cup {buflas(b)} OBVIOUS
<1>2. Fit(y, T) /\ Leaves(u, b, x, y)
  BY <1>1, GivenIs, GivenLeaves
<1>3. PICK z : z = Move(y, curlas(f), n, fnlas(OLDLFILE)) OBVIOUS
<1>4. Fit(z, T)
  BY <1>2, <1>3, MoveIs, Streams
<1>5. Leaves(u, b, y, z)
  BY <1>2, <1>3, MoveLeaves, Streams, Tails
<1>6. PICK w : w = Ins(z, curlas(f), new) OBVIOUS
<1>7. Fit(w, T) /\ Leaves(u, b, z, w)
  BY <1>4, <1>6, InsIs, InsLeaves, Streams
<1>8. Leaves(u, b, w, End(w, b, n))
  BY <1>1, <1>7, EndLeaves
<1>9. receive(x, b, f, at, n, new) = End(w, b, n)
  BY <1>1, <1>3, <1>6 DEF receive
<1>10. Leaves(u, b, x, z)
  BY <1>2, <1>5, LeavesThen
<1>11. Leaves(u, b, x, w)
  BY <1>7, <1>10, LeavesThen
<1>12. QED BY <1>8, <1>9, <1>11, LeavesThen

(* The module Buffers, of this module's buffers, says the same of lines.   *)
LEMMA SameWords ==
  /\ \A t, j, k : B!LinesAsked(t, j, k) = The!LinesAsked(t, j, k)
  /\ \A t, j, k : B!RectAsked(t, j, k) = The!RectAsked(t, j, k)
  /\ \A t, j, k : B!JoinAsked(t, j, k) = The!JoinAsked(t, j, k)
  /\ \A t, j, k : B!Area(t, j, k) = The!Area(t, j, k)
  /\ \A t, j, k : B!Lines(t, j, k) = The!Lines(t, j, k)
  /\ \A t, j, k : B!Delete(t, j, k) = The!Delete(t, j, k)
  /\ \A t, j, ls : B!Insert(t, j, ls) = The!Insert(t, j, ls)
  /\ \A t, j, ls : B!Replaced(t, j, ls) = The!Replaced(t, j, ls)
  /\ \A t, k : B!Extended(t, k) = The!Extended(t, k)
  /\ \A k : B!Blanks(k) = The!Blanks(k)
  /\ \A ls : B!Without(ls) = The!Without(ls)
  /\ \A l, p : B!With(l, p) = The!With(l, p)
  /\ B!Nothing = The!Nothing /\ B!Line = Line
  BY DEF B!LinesAsked, The!LinesAsked, B!RectAsked, The!RectAsked, B!JoinAsked, The!JoinAsked,
         B!Area, The!Area, B!Lines, The!Lines, B!Delete, The!Delete, B!Insert, The!Insert,
         B!Replaced, The!Replaced, B!Extended, The!Extended, B!Blanks, The!Blanks,
         B!Without, The!Without, B!With, The!With, B!Nothing, The!Nothing, B!Line, Line,
         B!Pieces, The!Pieces, B!Piece, The!Piece, B!Holds, The!Holds, B!Min2, The!Min2,
         B!Blank, The!Blank

(* What a step tells: the command, its lines, the file and the buffers.    *)
Told(opc, b, at, n) ==
  cmd' = [opc |-> opc, buf |-> b, file |-> UserFile, at |-> at, n |-> n]
(* In this step no other buffer than b holds something else.               *)
Others(b) == \A c \in Buf \ {b} : Held(c)' = Held(c)

(* A step in which b alone changes is b taking something, in Buffers'      *)
(* words.                                                                  *)
LEMMA TakesHeld ==
  ASSUME NEW b \in Buf, Others(b)
  PROVE  B!Take(b, Held(b)')
<1>1. [c \in Buf |-> Held(c)'] = [[c \in Buf |-> Held(c)] EXCEPT ![b] = Held(b)']
  BY DEF Others
<1>2. QED BY <1>1 DEF B!Take

(* A step in which no buffer changes.                                      *)
LEMMA KeepsHeld ==
  ASSUME \A c \in Buf : Held(c)' = Held(c)
  PROVE  [c \in Buf |-> Held(c)]' = [c \in Buf |-> Held(c)]
  OBVIOUS

(* A step that takes the lines, or the rectangle, is Buffers' Pick.        *)
LEMMA StepPick ==
  ASSUME NEW b \in Buf, NEW at, NEW n, Told("pick", b, at, n), Others(b),
         st'.text[UserFile] = st.text[UserFile],
         \/ Held(b)' = The!LinesAsked(st.text[UserFile], at, n)
         \/ at < Len(st.text[UserFile]) /\ Held(b)' = The!RectAsked(st.text[UserFile], at, n)
  PROVE  B!Next
<1>1. B!Cmd("pick", b) /\ B!at = at /\ B!n = n
  BY DEF Told, B!Cmd, B!at, B!n
<1>2. B!Take(b, Held(b)')
  BY TakesHeld
<1>3. B!Pick(b)
  <2>1. \/ Held(b)' = B!LinesAsked(st.text[UserFile], at, n)
        \/ at < Len(st.text[UserFile]) /\ Held(b)' = B!RectAsked(st.text[UserFile], at, n)
    BY SameWords
  <2>2. \/ B!Take(b, B!LinesAsked(st.text[UserFile], B!at, B!n))
        \/ B!at < Len(st.text[UserFile]) /\ B!Take(b, B!RectAsked(st.text[UserFile], B!at, B!n))
    BY <1>1, <1>2, <2>1 DEF B!Take
  <2>3. QED BY <1>1, <2>2 DEF B!Pick
<1>4. QED BY <1>3 DEF B!Next

(* One that takes lines and deletes them is its Close.                     *)
LEMMA StepClose ==
  ASSUME NEW b \in Buf, NEW at \in Nat, NEW n, Told("close", b, at, n), Others(b),
         Held(b)' = The!LinesAsked(st.text[UserFile], at, n),
         at < Len(st.text[UserFile]), Len(st.text[UserFile]) \in Nat,
         st'.text[UserFile] = The!Insert(The!Delete(st.text[UserFile], at, n), at, << >>)
  PROVE  B!Next
<1>1. B!Cmd("close", b) /\ B!at = at /\ B!n = n
  BY DEF Told, B!Cmd, B!at, B!n
<1>2. B!Take(b, B!LinesAsked(st.text[UserFile], B!at, B!n))
  BY <1>1, TakesHeld, SameWords DEF B!Take
<1>3. st'.text[UserFile] = B!Insert(B!Delete(st.text[UserFile], at, n), at, << >>)
  BY SameWords
<1>4. ~ (at >= Len(st.text[UserFile]))
  OBVIOUS
<1>5. st'.text[UserFile] = IF B!at >= Len(st.text[UserFile]) THEN st.text[UserFile]
         ELSE B!Insert(B!Delete(st.text[UserFile], B!at, B!n), B!at,
                       B!NoLines(Len(B!Lines(st.text[UserFile], B!at, B!n))))
  BY <1>1, <1>3, <1>4 DEF B!NoLines
<1>6. B!Close(b)
  BY <1>1, <1>2, <1>5 DEF B!Close, B!TakeLines
<1>7. QED BY <1>6 DEF B!Next

(* One that leaves blank lines for them is its Erase.                      *)
LEMMA StepErase ==
  ASSUME NEW b \in Buf, NEW at \in Nat, NEW n, Told("erase", b, at, n), Others(b),
         Held(b)' = The!LinesAsked(st.text[UserFile], at, n),
         at < Len(st.text[UserFile]), Len(st.text[UserFile]) \in Nat,
         st'.text[UserFile] = The!Insert(The!Delete(st.text[UserFile], at, n), at,
                                         The!Blanks(Len(The!Lines(st.text[UserFile], at, n))))
  PROVE  B!Next
<1>1. B!Cmd("erase", b) /\ B!at = at /\ B!n = n
  BY DEF Told, B!Cmd, B!at, B!n
<1>2. B!Take(b, B!LinesAsked(st.text[UserFile], B!at, B!n))
  BY <1>1, TakesHeld, SameWords DEF B!Take
<1>3. st'.text[UserFile] = B!Insert(B!Delete(st.text[UserFile], at, n), at,
                                    B!Blanks(Len(B!Lines(st.text[UserFile], at, n))))
  BY SameWords
<1>4. ~ (at >= Len(st.text[UserFile]))
  OBVIOUS
<1>5. st'.text[UserFile] = IF B!at >= Len(st.text[UserFile]) THEN st.text[UserFile]
         ELSE B!Insert(B!Delete(st.text[UserFile], B!at, B!n), B!at,
                       B!Blanks(Len(B!Lines(st.text[UserFile], B!at, B!n))))
  BY <1>1, <1>3, <1>4
<1>6. B!Erase(b)
  BY <1>1, <1>2, <1>5 DEF B!Erase, B!TakeLines
<1>7. QED BY <1>6 DEF B!Next

(* Behind the end of the file, both take nothing.                          *)
LEMMA StepNothing ==
  ASSUME NEW b \in Buf, NEW at \in Nat, NEW n, NEW opc \in {"close", "erase"},
         Told(opc, b, at, n), Others(b),
         Held(b)' = The!LinesAsked(st.text[UserFile], at, n),
         at >= Len(st.text[UserFile]), st'.text[UserFile] = st.text[UserFile]
  PROVE  B!Next
<1>1. B!Cmd(opc, b) /\ B!at = at /\ B!n = n
  BY DEF Told, B!Cmd, B!at, B!n
<1>2. B!Take(b, B!LinesAsked(st.text[UserFile], B!at, B!n))
  BY <1>1, TakesHeld, SameWords DEF B!Take
<1>3. B!at >= Len(st.text[UserFile])
  BY <1>1
<1>4. CASE opc = "close"
  <2>1. B!Close(b)
    BY <1>1, <1>2, <1>3, <1>4 DEF B!Close, B!TakeLines
  <2>2. QED BY <2>1 DEF B!Next
<1>5. CASE opc = "erase"
  <2>1. B!Erase(b)
    BY <1>1, <1>2, <1>3, <1>5 DEF B!Erase, B!TakeLines
  <2>2. QED BY <2>1 DEF B!Next
<1>6. QED BY <1>4, <1>5

(* One that takes a rectangle and leaves the lines without it is its       *)
(* Close, or Erase.                                                        *)
LEMMA StepRect ==
  ASSUME NEW b \in Buf, NEW at \in Nat, NEW n, NEW opc \in {"close", "erase"},
         Told(opc, b, at, n), Others(b),
         Held(b)' = The!RectAsked(st.text[UserFile], at, n),
         at < Len(st.text[UserFile]),
         st'.text[UserFile] = The!Replaced(st.text[UserFile], at,
                                The!Without(The!Area(st.text[UserFile], at, n)))
  PROVE  B!Next
<1>1. B!Cmd(opc, b) /\ B!at = at /\ B!n = n
  BY DEF Told, B!Cmd, B!at, B!n
<1>2. B!Take(b, B!RectAsked(st.text[UserFile], B!at, B!n))
  BY <1>1, TakesHeld, SameWords DEF B!Take
<1>3. st'.text[UserFile] = B!Replaced(st.text[UserFile], B!at,
                                B!Without(B!Area(st.text[UserFile], B!at, B!n)))
  BY <1>1, SameWords
<1>4. B!at < Len(st.text[UserFile])
  BY <1>1
<1>5. B!TakeRect(opc, b)
  BY <1>1, <1>2, <1>3, <1>4 DEF B!TakeRect
<1>6. CASE opc = "close"
  <2>1. B!Close(b)
    BY <1>5, <1>6 DEF B!Close
  <2>2. QED BY <2>1 DEF B!Next
<1>7. CASE opc = "erase"
  <2>1. B!Erase(b)
    BY <1>5, <1>7 DEF B!Erase
  <2>2. QED BY <2>1 DEF B!Next
<1>8. QED BY <1>6, <1>7

(* One that takes lines and has others in their place is its Run.          *)
LEMMA StepRun ==
  ASSUME NEW b \in Buf, NEW at \in Nat, NEW n, Told("run", b, at, n), Others(b),
         Held(b)' = The!LinesAsked(st.text[UserFile], at, n),
         at < Len(st.text[UserFile]),
         NEW k \in 0 .. Len(st'.text[UserFile]),
         The!Delete(st'.text[UserFile], at, k) = The!Delete(st.text[UserFile], at, n)
  PROVE  B!Next
<1>1. B!Cmd("run", b) /\ B!at = at /\ B!n = n
  BY DEF Told, B!Cmd, B!at, B!n
<1>2. B!Take(b, B!LinesAsked(st.text[UserFile], B!at, B!n))
  BY <1>1, TakesHeld, SameWords DEF B!Take
<1>3. B!Delete(st'.text[UserFile], B!at, k) = B!Delete(st.text[UserFile], B!at, B!n)
  BY <1>1, SameWords
<1>4. B!at < Len(st.text[UserFile])
  BY <1>1
<1>5. B!Run(b)
  BY <1>1, <1>2, <1>3, <1>4 DEF B!Run
<1>6. QED BY <1>5 DEF B!Next

(* One that makes lines one and takes what was between is its JoinMark.    *)
LEMMA StepJoin ==
  ASSUME NEW at \in Nat, NEW n, Told("join", QCLOSE, at, n), Others(QCLOSE),
         Held(QCLOSE)' = The!JoinAsked(st.text[UserFile], at, n),
         at + n < Len(st.text[UserFile]),
         NEW ls, ls = The!Area(st.text[UserFile], at, n + 1),
         st'.text[UserFile] = The!Insert(The!Delete(st.text[UserFile], at, n + 1), at,
                                         << The!With(ls[1], ls[n + 1][2]) >>)
  PROVE  B!Next
<1>1. B!Cmd("join", QCLOSE) /\ B!at = at /\ B!n = n /\ QCLOSE \in Buf
  BY DEF Told, B!Cmd, B!at, B!n, Buf
<1>2. B!Take(QCLOSE, B!JoinAsked(st.text[UserFile], B!at, B!n))
  BY <1>1, TakesHeld, SameWords DEF B!Take
<1>3. ls = B!Area(st.text[UserFile], B!at, B!n + 1)
  BY <1>1, SameWords
<1>4. st'.text[UserFile] = B!Insert(B!Delete(st.text[UserFile], B!at, B!n + 1), B!at,
                                    << B!With(ls[1], ls[B!n + 1][2]) >>)
  BY <1>1, SameWords
<1>5. B!at + B!n < Len(st.text[UserFile])
  BY <1>1
<1>6. B!JoinMark
  BY <1>1, <1>2, <1>3, <1>4, <1>5 DEF B!JoinMark
<1>7. QED BY <1>6 DEF B!Next

(* One that inserts what a buffer holds, or puts the rectangle, is its     *)
(* Put.                                                                    *)
LEMMA StepPut ==
  ASSUME NEW b \in Buf, NEW at \in Nat, NEW n, Told("put", b, at, n),
         \A c \in Buf : Held(c)' = Held(c), Held(b) # The!Nothing,
         NEW ls, ls = Held(b).lines, NEW t, t = st.text[UserFile],
         st'.text[UserFile] =
           IF ~ Held(b).rect THEN The!Insert(The!Extended(t, at), at, ls)
           ELSE The!Replaced(The!Extended(t, at + Len(ls)), at,
                  [i \in DOMAIN ls |-> The!With(The!Extended(t, at + Len(ls))[at + i], ls[i][1])])
  PROVE  B!Next
<1>1. B!Cmd("put", b) /\ B!at = at
  BY DEF Told, B!Cmd, B!at
<1>2. [c \in Buf |-> Held(c)]' = [c \in Buf |-> Held(c)] /\ [c \in Buf |-> Held(c)][b] = Held(b)
  BY KeepsHeld
<1>3. Held(b) # B!Nothing
  BY SameWords
<1>4. PICK t2 : t2 = B!Extended(t, at + Len(ls)) OBVIOUS
<1>5. st'.text[UserFile] =
           IF ~ Held(b).rect THEN B!Insert(B!Extended(t, at), at, ls)
           ELSE B!Replaced(t2, at, [i \in DOMAIN ls |-> B!With(t2[at + i], ls[i][1])])
  BY <1>4, SameWords
<1>6. B!Put(b)
  BY <1>1, <1>2, <1>3, <1>4, <1>5 DEF B!Put
<1>7. QED BY <1>6 DEF B!Next

(* One that leaves the file alone, or longer, is its Fail.                 *)
LEMMA StepFail ==
  ASSUME NEW b \in Buf, NEW at \in Nat, NEW n, Told("fail", b, at, n), Others(b),
         Held(b)' \in {Held(b), The!Nothing, The!RectAsked(st.text[UserFile], at, n)},
         st'.text[UserFile] = The!Extended(st.text[UserFile], Len(st'.text[UserFile]))
  PROVE  B!Next
<1>1. B!Cmd("fail", b) /\ B!at = at /\ B!n = n
  BY DEF Told, B!Cmd, B!at, B!n
<1>2. B!Take(b, Held(b)')
  BY TakesHeld
<1>3. Held(b)' \in {[c \in Buf |-> Held(c)][b], B!Nothing, B!RectAsked(st.text[UserFile], B!at, B!n)}
  BY <1>1, SameWords
<1>4. st'.text[UserFile] = B!Extended(st.text[UserFile], Len(st'.text[UserFile]))
  BY SameWords
<1>5. B!Fail(b)
  BY <1>1, <1>2, <1>3, <1>4 DEF B!Fail
<1>6. QED BY <1>5 DEF B!Next

(* One that leaves all buffers alone is its Edit.                          *)
LEMMA StepEdit ==
  ASSUME NEW b, NEW at, NEW n, Told("edit", b, at, n),
         \A c \in Buf : Held(c)' = Held(c), st'.text[UserFile] \in Seq(Line)
  PROVE  B!Next
<1>1. cmd'.opc = "edit" /\ cmd'.file = UserFile
  BY DEF Told
<1>2. [c \in Buf |-> Held(c)]' = [c \in Buf |-> Held(c)]
  BY KeepsHeld
<1>3. st'.text[UserFile] \in Seq(B!Line)
  BY SameWords
<1>4. B!Edit
  BY <1>1, <1>2, <1>3 DEF B!Edit
<1>5. QED BY <1>4 DEF B!Next

(* One that edits #o or #p is its EditOwn.                                 *)
LEMMA StepOwn ==
  ASSUME NEW b, cmd'.file # UserFile, cmd'.buf = b, st'.text[UserFile] = st.text[UserFile],
         \A c \in Buf \ {b} : Held(c)' \in {Held(c), The!Nothing}
  PROVE  B!Next
<1>1. \A c \in Buf \ {b} : [d \in Buf |-> Held(d)]'[c] \in {[d \in Buf |-> Held(d)][c], B!Nothing}
  BY SameWords
<1>2. B!EditOwn
  BY <1>1 DEF B!EditOwn
<1>3. QED BY <1>2 DEF B!Next

(* Lines put into a text, and taken out of it, element by element.         *)
LEMMA InsertIs ==
  ASSUME NEW t \in Seq(Line), NEW new \in Seq(Line), NEW at \in Nat, at <= Len(t)
  PROVE  LET u == The!Insert(t, at, new)
         IN  /\ u \in Seq(Line) /\ Len(u) = Len(t) + Len(new)
             /\ \A i \in 1 .. at : u[i] = t[i]
             /\ \A i \in 1 .. Len(new) : u[at + i] = new[i]
             /\ \A i \in at + 1 .. Len(t) : u[i + Len(new)] = t[i]
<1> DEFINE u == The!Insert(t, at, new)
           p == SubSeq(t, 1, at)
           r == SubSeq(t, at + 1, Len(t))
<1>1. u = p \o new \o r
  BY DEF The!Insert
<1>2. Len(t) \in Nat /\ Len(new) \in Nat
  BY LenProperties
<1>3. p \in Seq(Line) /\ Len(p) = at
  <2>1. SubSeq(t, 0 + 1, at) \in Seq(Line) /\ Len(SubSeq(t, 0 + 1, at)) = at - 0
    BY <1>2, Parts
  <2>2. 0 + 1 = 1 /\ at - 0 = at
    OBVIOUS
  <2>3. QED BY <2>1, <2>2
<1>4. r \in Seq(Line) /\ Len(r) = Len(t) - at
  BY <1>2, Parts
<1>s. /\ \A i \in 1 .. at : (p \o new \o r)[i] = t[i]
      /\ \A i \in 1 .. Len(new) : (p \o new \o r)[at + i] = new[i]
      /\ \A i \in at + 1 .. Len(t) : (p \o new \o r)[i + Len(new)] = t[i]
  BY Spliced
<1> HIDE DEF p, r, u
<1>5. /\ \A i \in 1 .. at : u[i] = t[i]
      /\ \A i \in 1 .. Len(new) : u[at + i] = new[i]
      /\ \A i \in at + 1 .. Len(t) : u[i + Len(new)] = t[i]
  BY <1>1, <1>s
<1>6. (p \o new) \in Seq(Line) /\ Len(p \o new) = at + Len(new)
  BY <1>3, TwoParts
<1>7. u \in Seq(Line) /\ Len(u) = at + Len(new) + (Len(t) - at)
  BY <1>1, <1>4, <1>6, TwoParts, ZenonT(45)
<1>8. Len(u) = Len(t) + Len(new)
  BY <1>2, <1>7
<1>9. QED BY <1>5, <1>7, <1>8 DEF u

(* And nothing else is the text with the lines put in.                     *)
LEMMA InsertOnly ==
  ASSUME NEW t \in Seq(Line), NEW new \in Seq(Line), NEW at \in Nat, at <= Len(t),
         NEW v \in Seq(Line), Len(v) = Len(t) + Len(new),
         \A i \in 1 .. at : v[i] = t[i],
         \A i \in 1 .. Len(new) : v[at + i] = new[i],
         \A i \in at + 1 .. Len(t) : v[i + Len(new)] = t[i]
  PROVE  v = The!Insert(t, at, new)
<1>1. PICK u : u = The!Insert(t, at, new) OBVIOUS
<1>2. /\ u \in Seq(Line) /\ Len(u) = Len(t) + Len(new)
      /\ \A i \in 1 .. at : u[i] = t[i]
      /\ \A i \in 1 .. Len(new) : u[at + i] = new[i]
      /\ \A i \in at + 1 .. Len(t) : u[i + Len(new)] = t[i]
  BY <1>1, InsertIs, ZenonT(45)
<1>3. Len(t) \in Nat /\ Len(new) \in Nat
  BY LenProperties
<1>4. ASSUME NEW i \in 1 .. Len(v) PROVE v[i] = u[i]
  <2>1. CASE i <= at
    <3>1. i \in 1 .. at
      BY <1>3, <2>1
    <3>2. QED BY <1>2, <3>1
  <2>2. CASE i > at /\ i <= at + Len(new)
    <3>1. PICK j \in 1 .. Len(new) : i = at + j
      <4>1. i - at \in 1 .. Len(new) /\ i = at + (i - at)
        BY <1>3, <2>2
      <4>2. QED BY <4>1
    <3>2. QED BY <1>2, <3>1
  <2>3. CASE i > at + Len(new)
    <3>1. PICK j \in at + 1 .. Len(t) : i = j + Len(new)
      <4>1. i - Len(new) \in at + 1 .. Len(t) /\ i = (i - Len(new)) + Len(new)
        BY <1>3, <2>3
      <4>2. QED BY <4>1
    <3>2. QED BY <1>2, <3>1
  <2>4. QED BY <1>3, <2>1, <2>2, <2>3
<1>5. v = u
  BY <1>2, <1>4, SeqEqual
<1>6. QED BY <1>1, <1>5

(* A text without k lines, element by element.                             *)
LEMMA DeleteIs ==
  ASSUME NEW t \in Seq(Line), NEW at \in Nat, NEW k \in Nat, at + k <= Len(t)
  PROVE  LET u == The!Delete(t, at, k)
         IN  /\ u \in Seq(Line) /\ Len(u) = Len(t) - k
             /\ \A i \in 1 .. at : u[i] = t[i]
             /\ \A i \in at + k + 1 .. Len(t) : u[i - k] = t[i]
<1> DEFINE u == The!Delete(t, at, k)
           p == SubSeq(t, 1, at)
           r == SubSeq(t, at + k + 1, Len(t))
<1>1. u = p \o r
  BY DEF The!Delete
<1>2. Len(t) \in Nat /\ at <= Len(t) /\ at + k \in Nat
  BY LenProperties
<1>3. p \in Seq(Line) /\ Len(p) = at
  <2>1. SubSeq(t, 0 + 1, at) \in Seq(Line) /\ Len(SubSeq(t, 0 + 1, at)) = at - 0
    BY <1>2, Parts
  <2>2. 0 + 1 = 1 /\ at - 0 = at
    OBVIOUS
  <2>3. QED BY <2>1, <2>2
<1>4. r \in Seq(Line) /\ Len(r) = Len(t) - (at + k)
  BY <1>2, Parts
<1>s. /\ \A i \in 1 .. at : (p \o r)[i] = t[i]
      /\ \A i \in at + k + 1 .. Len(t) : (p \o r)[i - k] = t[i]
  BY CutOut
<1> HIDE DEF p, r, u
<1>5. /\ \A i \in 1 .. at : u[i] = t[i]
      /\ \A i \in at + k + 1 .. Len(t) : u[i - k] = t[i]
  BY <1>1, <1>s
<1>7. u \in Seq(Line) /\ Len(u) = at + (Len(t) - (at + k))
  BY <1>1, <1>3, <1>4, TwoParts
<1>8. Len(u) = Len(t) - k
  BY <1>2, <1>7
<1>9. QED BY <1>5, <1>7, <1>8 DEF u

(* And nothing else is the text without them.                              *)
LEMMA DeleteOnly ==
  ASSUME NEW t \in Seq(Line), NEW at \in Nat, NEW k \in Nat, at + k <= Len(t),
         NEW v \in Seq(Line), Len(v) = Len(t) - k,
         \A i \in 1 .. at : v[i] = t[i],
         \A i \in at + k + 1 .. Len(t) : v[i - k] = t[i]
  PROVE  v = The!Delete(t, at, k)
<1>1. PICK u : u = The!Delete(t, at, k) OBVIOUS
<1>2. /\ u \in Seq(Line) /\ Len(u) = Len(t) - k
      /\ \A i \in 1 .. at : u[i] = t[i]
      /\ \A i \in at + k + 1 .. Len(t) : u[i - k] = t[i]
  BY <1>1, DeleteIs
<1>3. Len(t) \in Nat
  BY LenProperties
<1>4. ASSUME NEW i \in 1 .. Len(v) PROVE v[i] = u[i]
  <2>1. CASE i <= at
    <3>1. i \in 1 .. at
      BY <1>3, <2>1
    <3>2. QED BY <1>2, <3>1
  <2>3. CASE i > at
    <3>1. PICK j \in at + k + 1 .. Len(t) : i = j - k
      <4>1. i + k \in at + k + 1 .. Len(t) /\ i = (i + k) - k
        BY <1>3, <2>3
      <4>2. QED BY <4>1
    <3>2. QED BY <1>2, <3>1
  <2>4. QED BY <1>3, <2>1, <2>3
<1>5. v = u
  BY <1>2, <1>4, SeqEqual
<1>6. QED BY <1>1, <1>5

(* Taking out more than there is. *)
LEMMA DeletePast ==
  ASSUME NEW t \in Seq(Line), NEW at \in Nat, at <= Len(t), NEW n \in Nat,
         NEW k, k = IF at + n > Len(t) THEN Len(t) - at ELSE n
  PROVE  k \in Nat /\ at + k <= Len(t) /\ The!Delete(t, at, n) = The!Delete(t, at, k)
<1>1. Len(t) \in Nat
  BY LenProperties
<1>2. CASE at + n > Len(t)
  <2>1. k \in Nat /\ at + k = Len(t)
    BY <1>1, <1>2
  <2>2. SubSeq(t, at + n + 1, Len(t)) = << >>
    <3>1. at + n + 1 \in Int /\ Len(t) \in Int /\ Len(t) < at + n + 1
      BY <1>1, <1>2
    <3>2. QED BY <3>1, SubSeqEmpty
  <2>3. SubSeq(t, at + k + 1, Len(t)) = << >>
    <3>1. at + k + 1 \in Int /\ Len(t) \in Int /\ Len(t) < at + k + 1
      BY <1>1, <2>1
    <3>2. QED BY <3>1, SubSeqEmpty
  <2>4. /\ The!Delete(t, at, n) = SubSeq(t, 1, at) \o SubSeq(t, at + n + 1, Len(t))
        /\ The!Delete(t, at, k) = SubSeq(t, 1, at) \o SubSeq(t, at + k + 1, Len(t))
    BY DEF The!Delete
  <2>5. The!Delete(t, at, n) = The!Delete(t, at, k)
    BY <2>2, <2>3, <2>4
  <2>6. at + k <= Len(t)
    BY <1>1, <2>1
  <2>7. QED BY <2>1, <2>5, <2>6
<1>3. CASE ~ (at + n > Len(t))
  BY <1>1, <1>3
<1>4. QED BY <1>2, <1>3

(* What an insertion and a deletion make of a text is what they should.    *)
LEMMA InsText ==
  ASSUME NEW S, NEW x, Fit(x, S), NEW s \in Stream, NEW new \in Seq(Line),
         NEW f, f = Own(s)
  PROVE  /\ Ins(x, s, new).text[f] = The!Insert(x.text[f], x.las[s].la_lpos, new)
         /\ \A g \in File : g # f => Ins(x, s, new).text[g] = x.text[g]
<1>1. PICK y, at : y = Ins(x, s, new) /\ at = x.las[s].la_lpos OBVIOUS
<1>2. f \in File /\ at \in Nat /\ at <= Lsize(x, f) /\ x.text[f] \in Seq(Line)
  BY <1>1, Placed, Owned, Sizes
<1>3. y.text[f] \in Seq(Line) /\ Lsize(y, f) = Lsize(x, f) + Len(new)
  <2>1. Fit(y, S) /\ Lsize(y, f) = Lsize(x, f) + Len(new)
    BY <1>1, <1>2, InsIs
  <2>2. QED BY <1>2, <2>1, Sizes
<1>4. /\ \A g \in File : g # f => y.text[g] = x.text[g]
      /\ \A i \in 1 .. at : y.text[f][i] = x.text[f][i]
      /\ \A i \in 1 .. Len(new) : y.text[f][at + i] = new[i]
      /\ \A i \in at + 1 .. Lsize(x, f) : y.text[f][i + Len(new)] = x.text[f][i]
  BY <1>1, InsSets
<1>5. PICK t, v : t = x.text[f] /\ v = y.text[f] OBVIOUS
<1>6. /\ t \in Seq(Line) /\ v \in Seq(Line) /\ at <= Len(t) /\ Len(v) = Len(t) + Len(new)
      /\ \A i \in 1 .. at : v[i] = t[i]
      /\ \A i \in 1 .. Len(new) : v[at + i] = new[i]
      /\ \A i \in at + 1 .. Len(t) : v[i + Len(new)] = t[i]
  BY <1>2, <1>3, <1>4, <1>5 DEF Lsize
<1>7. v = The!Insert(t, at, new)
  <2>1. t \in Seq(Line) /\ at \in Nat /\ at <= Len(t)
    BY <1>2, <1>6
  <2>2. /\ v \in Seq(Line) /\ Len(v) = Len(t) + Len(new)
        /\ \A i \in 1 .. at : v[i] = t[i]
        /\ \A i \in 1 .. Len(new) : v[at + i] = new[i]
        /\ \A i \in at + 1 .. Len(t) : v[i + Len(new)] = t[i]
    BY <1>6
  <2>3. QED BY <2>1, <2>2, InsertOnly
<1>8. QED BY <1>1, <1>4, <1>5, <1>7

(* LA's deletion is that of Buffers.                                       *)
LEMMA DelText ==
  ASSUME NEW S, NEW x, Fit(x, S), NEW s \in Stream, NEW n \in Nat, NEW f, f = Own(s)
  PROVE  LET y == Done(x, LF!Del(x, s, n))
         IN  /\ y.text[f] = The!Delete(x.text[f], x.las[s].la_lpos, n)
             /\ \A g \in File : g # f => y.text[g] = x.text[g]
<1>1. PICK y, at, k : y = Done(x, LF!Del(x, s, n)) /\ at = x.las[s].la_lpos /\ k = Len(LF!LinesAt(x, s, n))
  OBVIOUS
<1>2. f \in File /\ at \in Nat /\ at <= Lsize(x, f) /\ x.text[f] \in Seq(Line)
  BY <1>1, Placed, Owned, Sizes
<1>3. y.text[f] \in Seq(Line) /\ Lsize(y, f) = Lsize(x, f) - k
  <2>1. Fit(y, S) /\ Lsize(y, f) = Lsize(x, f) - k
    BY <1>1, <1>2, DelIs
  <2>2. QED BY <1>2, <2>1, Sizes
<1>4. /\ \A g \in File : g # f => y.text[g] = x.text[g]
      /\ \A i \in 1 .. at : y.text[f][i] = x.text[f][i]
      /\ \A i \in at + k + 1 .. Lsize(x, f) : y.text[f][i - k] = x.text[f][i]
  BY <1>1, DelSets, SMTT(45)
<1>l. k = IF at + n > Lsize(x, f) THEN Lsize(x, f) - at ELSE n
  BY <1>1, LinesAre
<1>5. PICK t, v : t = x.text[f] /\ v = y.text[f] OBVIOUS
<1>6. /\ t \in Seq(Line) /\ v \in Seq(Line) /\ at <= Len(t) /\ Len(v) = Len(t) - k
      /\ \A i \in 1 .. at : v[i] = t[i]
      /\ \A i \in at + k + 1 .. Len(t) : v[i - k] = t[i]
      /\ k = IF at + n > Len(t) THEN Len(t) - at ELSE n
  BY <1>2, <1>3, <1>4, <1>5, <1>l DEF Lsize
<1>7. k \in Nat /\ at + k <= Len(t) /\ The!Delete(t, at, n) = The!Delete(t, at, k)
  BY <1>2, <1>6, DeletePast
<1>8. v = The!Delete(t, at, k)
  <2>1. t \in Seq(Line) /\ at \in Nat /\ k \in Nat /\ at + k <= Len(t)
    BY <1>2, <1>6, <1>7
  <2>2. /\ v \in Seq(Line) /\ Len(v) = Len(t) - k
        /\ \A i \in 1 .. at : v[i] = t[i]
        /\ \A i \in at + k + 1 .. Len(t) : v[i - k] = t[i]
    BY <1>6
  <2>3. QED BY <2>1, <2>2, DeleteOnly
<1>9. QED BY <1>1, <1>4, <1>5, <1>7, <1>8

(* The lines of the user's file, and where its curlas is. *)
Mine(x) == x.text[UserFile]
(* Where its curlas is.                                                    *)
Here(x) == x.las[curlas(UserFile)].la_lpos

(* What is known of the two in a state.                                    *)
LEMMA MineIs ==
  ASSUME NEW S, NEW x, Fit(x, S)
  PROVE  /\ Mine(x) \in Seq(Line) /\ Len(Mine(x)) = Lsize(x, UserFile) /\ Lsize(x, UserFile) \in Nat
         /\ Here(x) \in Nat /\ Here(x) <= Lsize(x, UserFile)
         /\ UserFile \in File /\ curlas(UserFile) \in Stream /\ Own(curlas(UserFile)) = UserFile
         /\ ~ x.las[curlas(UserFile)].la_stay
<1>1. UserFile \in File
  BY DEF File
<1>2. PICK s : s = curlas(UserFile) OBVIOUS
<1>3. s \in Stream /\ Own(s) = UserFile /\ s \notin BufStreams
  BY <1>1, <1>2, Streams DEF BufStreams, curlas, buflas
<1>4. ~ x.las[s].la_stay
  BY <1>3 DEF Fit
<1>5. x.las[s].la_lpos \in Nat /\ x.las[s].la_lpos <= Lsize(x, UserFile)
  BY <1>3, Placed
<1>6. x.text[UserFile] \in Seq(Line) /\ Lsize(x, UserFile) \in Nat
  BY <1>1, Sizes
<1>7. QED BY <1>1, <1>2, <1>3, <1>4, <1>5, <1>6 DEF Mine, Here, Lsize

(* What inserting at the editor's stream does to the user's file.          *)
LEMMA MineIns ==
  ASSUME NEW S, NEW x, Fit(x, S), NEW new \in Seq(Line)
  PROVE  LET y == Ins(x, curlas(UserFile), new)
         IN  Mine(y) = The!Insert(Mine(x), Here(x), new) /\ Here(y) = Here(x) + Len(new)
<1>1. PICK s, at, y : s = curlas(UserFile) /\ at = Here(x) /\ y = Ins(x, s, new) OBVIOUS
<1>2. s \in Stream /\ Own(s) = UserFile /\ ~ x.las[s].la_stay /\ at = x.las[s].la_lpos
  BY <1>1, MineIs DEF Here
<1>3. y.text[UserFile] = The!Insert(x.text[UserFile], at, new)
  BY <1>1, <1>2, InsText
<1>4. y.las[s].la_lpos = at + Len(new)
  BY <1>1, <1>2, InsPlaces
<1>5. QED BY <1>1, <1>3, <1>4 DEF Mine, Here

(* What deleting there does.                                               *)
LEMMA MineDel ==
  ASSUME NEW S, NEW x, Fit(x, S), NEW n \in Nat
  PROVE  LET y == Done(x, LF!Del(x, curlas(UserFile), n))
         IN  Mine(y) = The!Delete(Mine(x), Here(x), n) /\ Here(y) = Here(x)
<1>1. PICK s, at, k, y : /\ s = curlas(UserFile) /\ at = Here(x) /\ y = Done(x, LF!Del(x, s, n))
                         /\ k = Len(LF!LinesAt(x, s, n))
  OBVIOUS
<1>2. s \in Stream /\ Own(s) = UserFile /\ at = x.las[s].la_lpos /\ at \in Nat
  BY <1>1, MineIs DEF Here
<1>3. y.text[UserFile] = The!Delete(x.text[UserFile], at, n)
  BY <1>1, <1>2, DelText
<1>4. y.las[s].la_lpos = at
  <2>0. k \in Nat
    BY <1>1, <1>2, LinesAre
  <2>1. CASE k = 0
    <3>1. \A q \in Stream : Own(q) = UserFile =>
             y.las[q] = IF k = 0 THEN x.las[q] ELSE LF!AfterDelete(x.las[q], at, k)
      BY <1>1, <1>2, DelSets
    <3>2. QED BY <1>2, <2>1, <3>1
  <2>2. CASE k # 0
    <3>1. x.las[s].la_lpos < at + k =>
            y.las[s].la_lpos = IF x.las[s].la_lpos > at THEN at ELSE x.las[s].la_lpos
      BY <1>1, <1>2, <2>2, DelPlaces
    <3>2. QED BY <1>2, <2>0, <2>2, <3>1
  <2>3. QED BY <2>1, <2>2
<1>5. QED BY <1>1, <1>3, <1>4 DEF Mine, Here

(* What happens to the other files. *)
LEMMA MineApart ==
  ASSUME NEW S, NEW x, Fit(x, S), NEW s \in Stream, Own(s) # UserFile, NEW new \in Seq(Line)
  PROVE  Mine(Ins(x, s, new)) = Mine(x) /\ Here(Ins(x, s, new)) = Here(x)
<1>1. PICK y, q : y = Ins(x, s, new) /\ q = curlas(UserFile) OBVIOUS
<1>2. q \in Stream /\ Own(q) = UserFile
  BY <1>1, MineIs
<1>3. Same(x, y, q)
  BY <1>1, <1>2, InsApart
<1>4. QED BY <1>1, <1>2, <1>3 DEF Same, Mine, Here

(* What moving lines away from there does.                                 *)
LEMMA MineMove ==
  ASSUME NEW S, NEW x, Fit(x, S), NEW n \in Nat, NEW d \in Stream \cup {None},
         d # None => Own(d) # UserFile
  PROVE  LET y == Move(x, curlas(UserFile), n, d)
         IN  Mine(y) = The!Delete(Mine(x), Here(x), n) /\ Here(y) = Here(x)
<1>1. PICK s, z, ls : /\ s = curlas(UserFile) /\ z = Done(x, LF!Del(x, s, n))
                      /\ ls = LF!LinesAt(x, s, n)
  OBVIOUS
<1>2. s \in Stream
  BY <1>1, MineIs
<1>3. Fit(z, S) /\ ls \in Seq(Line)
  BY <1>1, <1>2, DelIs, LinesAre
<1>4. Move(x, s, n, None) = z /\ \A e \in Stream : Move(x, s, n, e) = Ins(z, e, ls)
  BY <1>1, <1>2, MoveIsTwo
<1>5. Mine(z) = The!Delete(Mine(x), Here(x), n) /\ Here(z) = Here(x)
  BY <1>1, MineDel
<1>6. \A e \in Stream : Own(e) # UserFile => Mine(Ins(z, e, ls)) = Mine(z) /\ Here(Ins(z, e, ls)) = Here(z)
  BY <1>3, MineApart
<1>7. CASE d = None
  BY <1>1, <1>4, <1>5, <1>7
<1>8. CASE d # None
  <2>1. d \in Stream /\ Own(d) # UserFile
    BY <1>8
  <2>2. QED BY <1>1, <1>4, <1>5, <1>6, <2>1
<1>9. QED BY <1>7, <1>8

(* Moving the editor's stream changes no text.                             *)
LEMMA MineSeek ==
  ASSUME NEW S, NEW x, Fit(x, S), NEW at \in Nat
  PROVE  Mine(Seek(x, UserFile, at)) = Mine(x) /\ Here(Seek(x, UserFile, at)) = at
<1>1. UserFile \in File
  BY MineIs
<1>2. QED BY <1>1, SeekSets DEF Mine, Here

(* The stream at which lines are appended to #o.                           *)
LEMMA OldTail == /\ fnlas(OLDLFILE) \in Stream /\ Own(fnlas(OLDLFILE)) # UserFile
                 /\ AtTail(fnlas(OLDLFILE))
  BY Tails, TailOwn

(* Lines put in that are none. *)
LEMMA InsertNone ==
  ASSUME NEW t \in Seq(Line), NEW at \in Nat, at <= Len(t)
  PROVE  The!Insert(t, at, << >>) = t
<1>1. PICK no : no = << >> OBVIOUS
<1>2. no \in Seq(Line) /\ Len(no) = 0 /\ Len(t) \in Nat
  BY <1>1, LenProperties
<1>3. Len(t) = Len(t) + Len(no) /\ \A i \in 1 .. Len(no) : FALSE
  BY <1>2
<1>4. \A i \in at + 1 .. Len(t) : t[i + Len(no)] = t[i]
  BY <1>2
<1>5. t = The!Insert(t, at, no)
  BY <1>2, <1>3, <1>4, InsertOnly
<1>6. QED BY <1>1, <1>5

-----------------------------------------------------------------------------
(* What the commands make of the user's file. *)
LEMMA CloseText ==
  ASSUME NEW S, NEW x, Fit(x, S), NEW b \in Buf, NEW at \in Nat, NEW n \in Nat,
         at <= Lsize(x, UserFile)
  PROVE  LET y == CloseLines(x, b, UserFile, at, n)
         IN  Mine(y) = The!Delete(Mine(x), at, n)
<1>0. UserFile \in File /\ UserFile # OLDLFILE
  BY MineIs, NameAssumption
<1>1. PICK y, z, T : y = Begin(x, b, UserFile, at) /\ z = AtEnd(y, b) /\ T = S \cup {buflas(b)} OBVIOUS
<1>2. Fit(z, T) /\ z.text = x.text /\ z.las[curlas(UserFile)].la_lpos = at
  BY <1>0, <1>1, GetReady
<1>3. PICK w : w = Move(z, curlas(UserFile), n, fnlas(OLDLFILE)) OBVIOUS
<1>4. Fit(w, T)
  BY <1>0, <1>2, <1>3, MoveIs, Streams, OldTail
<1>5. Mine(w) = The!Delete(Mine(z), Here(z), n)
  BY <1>2, <1>3, MineMove, OldTail
<1>6. CloseLines(x, b, UserFile, at, n) = End(w, b, n)
  BY <1>0, <1>1, <1>3 DEF CloseLines
<1>7. End(w, b, n).text = w.text
  BY <1>4, EndSets
<1>8. QED BY <1>2, <1>5, <1>6, <1>7 DEF Mine, Here

(* Erasing lines leaves blank ones for them.                               *)
LEMMA EraseText ==
  ASSUME NEW S, NEW x, Fit(x, S), NEW b \in Buf, NEW at \in Nat, NEW n \in Nat,
         at <= Lsize(x, UserFile)
  PROVE  LET y == EraseLines(x, b, UserFile, at, n)
         IN  Mine(y) = The!Insert(The!Delete(Mine(x), at, n), at, The!Blanks(n))
<1>0. UserFile \in File /\ UserFile # OLDLFILE
  BY MineIs, NameAssumption
<1>1. PICK y, z, T : y = Begin(x, b, UserFile, at) /\ z = AtEnd(y, b) /\ T = S \cup {buflas(b)} OBVIOUS
<1>2. Fit(z, T) /\ z.text = x.text /\ z.las[curlas(UserFile)].la_lpos = at
  BY <1>0, <1>1, GetReady
<1>3. PICK w : w = Move(z, curlas(UserFile), n, fnlas(OLDLFILE)) OBVIOUS
<1>4. Fit(w, T)
  BY <1>0, <1>2, <1>3, MoveIs, Streams, OldTail
<1>5. Mine(w) = The!Delete(Mine(z), Here(z), n) /\ Here(w) = Here(z)
  BY <1>2, <1>3, MineMove, OldTail
<1>6. PICK v, ls : ls = The!Blanks(n) /\ v = Ins(w, curlas(UserFile), ls) OBVIOUS
<1>7. ls \in Seq(Line)
  BY <1>6, BlanksAre
<1>8. Fit(v, T)
  BY <1>0, <1>4, <1>6, <1>7, InsIs, Streams
<1>9. Mine(v) = The!Insert(Mine(w), Here(w), ls)
  BY <1>4, <1>6, <1>7, MineIns
<1>10. EraseLines(x, b, UserFile, at, n) = End(v, b, n)
  BY <1>0, <1>1, <1>3, <1>6 DEF EraseLines
<1>11. End(v, b, n).text = v.text
  BY <1>8, EndSets
<1>12. Mine(z) = Mine(x) /\ Here(z) = at /\ Mine(End(v, b, n)) = Mine(v)
  BY <1>2, <1>11 DEF Mine, Here
<1>13. QED BY <1>5, <1>6, <1>9, <1>10, <1>12

(* Picking lines leaves the file alone.                                    *)
LEMMA PickText ==
  ASSUME NEW S, NEW x, Fit(x, S), NEW b \in Buf, NEW at \in Nat, NEW n \in Nat,
         at <= Lsize(x, UserFile)
  PROVE  Mine(PickLines(x, b, UserFile, at, n)) = Mine(x)
<1>0. UserFile \in File /\ UserFile # PICKFILE
  BY MineIs, NameAssumption
<1>1. PICK y, z, T : y = Begin(x, b, UserFile, at) /\ z = AtEnd(y, b) /\ T = S \cup {buflas(b)} OBVIOUS
<1>2. Fit(z, T) /\ z.text = x.text
  BY <1>0, <1>1, GetReady
<1>3. PICK ls, s : ls = LF!LinesAt(z, curlas(UserFile), n) /\ s = fnlas(qtmpfn(b)) OBVIOUS
<1>4. ls \in Seq(Line) /\ s \in Stream /\ Own(s) # UserFile
  BY <1>0, <1>2, <1>3, LinesAtIs, Streams, Tails, TailOwn
<1>5. PICK w : w = Ins(z, s, ls) OBVIOUS
<1>6. Fit(w, T) /\ Mine(w) = Mine(z)
  BY <1>2, <1>4, <1>5, InsIs, MineApart
<1>7. PickLines(x, b, UserFile, at, n) = End(w, b, n)
  BY <1>0, <1>1, <1>3, <1>5 DEF PickLines, Copy
<1>8. End(w, b, n).text = w.text
  BY <1>6, EndSets
<1>9. QED BY <1>2, <1>6, <1>7, <1>8 DEF Mine

(* Replacing lines is what Buffers calls so.                               *)
LEMMA RewriteText ==
  ASSUME NEW S, NEW x, Fit(x, S), NEW at \in Nat, at <= Lsize(x, UserFile), NEW new \in Seq(Line)
  PROVE  Mine(Rewrite(x, UserFile, at, new)) = The!Replaced(Mine(x), at, new)
<1>1. PICK y, s, n : y = Seek(x, UserFile, at) /\ s = curlas(UserFile) /\ n = Len(new) OBVIOUS
<1>2. UserFile \in File /\ n \in Nat
  BY <1>1, MineIs, LenProperties
<1>3. Fit(y, S) /\ Mine(y) = Mine(x) /\ Here(y) = at
  BY <1>1, <1>2, SeekIs, MineSeek
<1>4. PICK z : z = Move(y, s, n, fnlas(OLDLFILE)) OBVIOUS
<1>5. Fit(z, S)
  BY <1>1, <1>2, <1>3, <1>4, MoveIs, Streams, OldTail
<1>6. Mine(z) = The!Delete(Mine(y), Here(y), n) /\ Here(z) = Here(y)
  BY <1>1, <1>2, <1>3, <1>4, MineMove, OldTail
<1>7. PICK w : w = Ins(z, s, new) OBVIOUS
<1>8. Mine(w) = The!Insert(Mine(z), Here(z), new)
  BY <1>1, <1>5, <1>7, MineIns
<1>9. Rewrite(x, UserFile, at, new) = w
  BY <1>1, <1>4, <1>7 DEF Rewrite
<1>10. QED BY <1>1, <1>3, <1>6, <1>8, <1>9 DEF The!Replaced

(* A rectangle that is closed or erased leaves the lines without it.       *)
LEMMA ClearRectText ==
  ASSUME NEW S, NEW x, Fit(x, S), NEW b \in Buf, NEW at \in Nat, at <= Lsize(x, UserFile), NEW n \in Nat
  PROVE  Mine(ClearRect(x, b, UserFile, at, n)) =
           The!Replaced(Mine(x), at, The!Without(The!Area(Mine(x), at, n)))
<1>0. UserFile \in File
  BY MineIs
<1>1. PICK y, ls : y = PickRect(x, b, UserFile, at, n) /\ ls = Area(x, UserFile, at, n) OBVIOUS
<1>2. ls \in Seq(Line) /\ y = WriteOut(x, b, ls)
  BY <1>0, <1>1, AreaIs DEF PickRect
<1>3. Fit(y, S)
  BY <1>0, <1>1, PickRectIs
<1>4. y.text[UserFile] = x.text[UserFile]
  BY <1>2, WriteOutLeaves
<1>5. PICK new : new = The!Without(Area(y, UserFile, at, n)) OBVIOUS
<1>6. new \in Seq(Line)
  BY <1>0, <1>3, <1>5, AreaIs, PiecesAre
<1>7. at <= Lsize(y, UserFile)
  BY <1>4 DEF Lsize
<1>8. Mine(Rewrite(y, UserFile, at, new)) = The!Replaced(Mine(y), at, new)
  BY <1>3, <1>6, <1>7, RewriteText
<1>9. ClearRect(x, b, UserFile, at, n) = Rewrite(y, UserFile, at, new)
  BY <1>1, <1>5 DEF ClearRect
<1>10. new = The!Without(The!Area(Mine(x), at, n)) /\ Mine(y) = Mine(x)
  BY <1>4, <1>5 DEF Area, Mine
<1>11. QED BY <1>8, <1>9, <1>10

(* What a program wrote stands for what it was given.                      *)
LEMMA receiveText ==
  ASSUME NEW S, NEW x, Fit(x, S), NEW b \in Buf, NEW at \in Nat, at <= Lsize(x, UserFile),
         NEW n \in Nat, NEW new \in Seq(Line)
  PROVE  Mine(receive(x, b, UserFile, at, n, new)) = The!Insert(The!Delete(Mine(x), at, n), at, new)
<1>0. UserFile \in File
  BY MineIs
<1>1. PICK y, T : y = Given(x, b, UserFile, at) /\ T = S \cup {buflas(b)} OBVIOUS
<1>2. Fit(y, T)
  BY <1>0, <1>1, GivenIs
<1>g. y.text = x.text /\ y.las[curlas(UserFile)].la_lpos = at
  BY <1>0, <1>1, GivenReady
<1>3. PICK z : z = Move(y, curlas(UserFile), n, fnlas(OLDLFILE)) OBVIOUS
<1>4. Fit(z, T)
  BY <1>0, <1>2, <1>3, MoveIs, Streams, OldTail
<1>5. Mine(z) = The!Delete(Mine(y), Here(y), n) /\ Here(z) = Here(y)
  BY <1>2, <1>3, MineMove, OldTail
<1>6. PICK w : w = Ins(z, curlas(UserFile), new) OBVIOUS
<1>7. Fit(w, T)
  BY <1>0, <1>4, <1>6, InsIs, Streams
<1>8. Mine(w) = The!Insert(Mine(z), Here(z), new)
  BY <1>4, <1>6, MineIns
<1>9. receive(x, b, UserFile, at, n, new) = End(w, b, n)
  BY <1>1, <1>3, <1>6 DEF receive
<1>10. End(w, b, n).text = w.text
  BY <1>7, EndSets
<1>11. Mine(y) = Mine(x) /\ Here(y) = at /\ Mine(End(w, b, n)) = Mine(w)
  BY <1>10, <1>g DEF Mine, Here
<1>12. QED BY <1>5, <1>8, <1>9, <1>11

(* extend. *)
LEMMA ExtendedIs ==
  ASSUME NEW t \in Seq(Line), NEW at \in Nat
  PROVE  /\ The!Extended(t, at) \in Seq(Line)
         /\ Len(The!Extended(t, at)) = IF at <= Len(t) THEN Len(t) ELSE at
         /\ \A i \in 1 .. Len(t) : The!Extended(t, at)[i] = t[i]
         /\ \A i \in Len(t) + 1 .. at : The!Extended(t, at)[i] = The!Blank
<1>1. Len(t) \in Nat
  BY LenProperties
<1>2. CASE at <= Len(t)
  <2>1. The!Extended(t, at) = t
    BY <1>2 DEF The!Extended
  <2>2. Len(t) + 1 .. at = {}
    BY <1>1, <1>2
  <2>3. QED BY <1>2, <2>1, <2>2
<1>3. CASE ~ (at <= Len(t))
  <2>1. PICK k, bs : k = at - Len(t) /\ bs = The!Blanks(k) OBVIOUS
  <2>2. k \in Nat /\ Len(t) + k = at
    BY <1>1, <1>3, <2>1
  <2>3. bs \in Seq(Line) /\ Len(bs) = k /\ \A i \in 1 .. k : bs[i] = The!Blank
    BY <2>1, <2>2, BlanksAre DEF The!Blanks
  <2>4. The!Extended(t, at) = t \o bs
    BY <1>3, <2>1 DEF The!Extended
  <2>5. PICK u : u = t \o bs OBVIOUS
  <2>6. /\ u \in Seq(Line) /\ Len(u) = Len(t) + Len(bs)
        /\ \A i \in 1 .. Len(t) : u[i] = t[i]
        /\ \A i \in 1 .. Len(bs) : u[Len(t) + i] = bs[i]
    BY <2>3, <2>5, TwoParts
  <2>7. ASSUME NEW i \in Len(t) + 1 .. at PROVE u[i] = The!Blank
    <3>1. i - Len(t) \in 1 .. Len(bs) /\ Len(t) + (i - Len(t)) = i
      BY <1>1, <2>2, <2>3
    <3>2. u[Len(t) + (i - Len(t))] = bs[i - Len(t)]
      BY <2>6, <3>1
    <3>3. bs[i - Len(t)] = The!Blank
      BY <2>3, <3>1
    <3>4. QED BY <3>1, <3>2, <3>3
  <2>8. QED BY <1>3, <2>2, <2>3, <2>4, <2>5, <2>6, <2>7
<1>4. QED BY <1>2, <1>3

(* extend appends blank lines, and no buffer changes.                      *)
LEMMA extendText ==
  ASSUME NEW S, NEW x, Fit(x, S), NEW at \in Nat
  PROVE  /\ Mine(extend(x, UserFile, at)) = The!Extended(Mine(x), at)
         /\ \A c \in Buf : Same(x, extend(x, UserFile, at), buflas(c))
<1>0. /\ UserFile \in File /\ Mine(x) \in Seq(Line) /\ Len(Mine(x)) = Lsize(x, UserFile)
      /\ Lsize(x, UserFile) \in Nat
  BY MineIs
<1>1. PICK n, gap, t : n = Lsize(x, UserFile) /\ gap = at - n /\ t = Mine(x) OBVIOUS
<1>2. CASE gap <= 0
  <2>1. extend(x, UserFile, at) = x
    BY <1>1, <1>2 DEF extend
  <2>2. The!Extended(t, at) = t
    BY <1>0, <1>1, <1>2 DEF The!Extended
  <2>3. QED BY <1>1, <2>1, <2>2 DEF Same
<1>3. CASE ~ (gap <= 0)
  <2>1. gap \in Nat /\ n \in Nat
    BY <1>0, <1>1, <1>3
  <2>2. PICK y, s, ls : y = Seek(x, UserFile, n) /\ s = curlas(UserFile) /\ ls = The!Blanks(gap) OBVIOUS
  <2>3. Fit(y, S) /\ Mine(y) = Mine(x) /\ Here(y) = n
    <3>1. n <= Lsize(x, UserFile)
      BY <1>0, <1>1
    <3>2. Fit(y, S)
      BY <1>0, <2>1, <2>2, <3>1, SeekIs
    <3>3. QED BY <2>1, <2>2, <3>2, MineSeek
  <2>4. ls \in Seq(Line) /\ s \in Stream /\ Own(s) = UserFile
    BY <1>0, <2>1, <2>2, BlanksAre, Streams
  <2>5. PICK z : z = Ins(y, s, ls) OBVIOUS
  <2>6. Mine(z) = The!Insert(t, n, ls)
    BY <1>1, <2>2, <2>3, <2>4, <2>5, MineIns
  <2>7. The!Insert(t, n, ls) = The!Extended(t, at)
    <3>1. PICK v : v = t \o ls OBVIOUS
    <3>2. n = Len(t) /\ t \in Seq(Line)
      BY <1>0, <1>1
    <3>3. /\ v \in Seq(Line) /\ Len(v) = Len(t) + Len(ls)
          /\ \A i \in 1 .. Len(t) : v[i] = t[i]
          /\ \A i \in 1 .. Len(ls) : v[Len(t) + i] = ls[i]
      BY <2>4, <3>1, <3>2, TwoParts
    <3>4. n + 1 .. Len(t) = {}
      BY <2>1, <3>2
    <3>5. v = The!Insert(t, n, ls)
      <4>1. \A i \in n + 1 .. Len(t) : v[i + Len(ls)] = t[i]
        BY <3>4
      <4>2. n <= Len(t)
        BY <2>1, <3>2
      <4>3. (\A i \in 1 .. n : v[i] = t[i]) /\ \A i \in 1 .. Len(ls) : v[n + i] = ls[i]
        BY <3>2, <3>3
      <4>4. QED BY <2>1, <2>4, <3>2, <3>3, <4>1, <4>2, <4>3, InsertOnly
    <3>6. The!Extended(t, at) = t \o ls
      <4>1. ~ (at <= Len(t)) /\ gap = at - Len(t)
        BY <1>1, <1>3, <2>1, <3>2
      <4>2. QED BY <2>2, <4>1 DEF The!Extended
    <3>7. QED BY <3>1, <3>5, <3>6
  <2>8. extend(x, UserFile, at) = z
    BY <1>1, <1>3, <2>2, <2>5 DEF extend
  <2>9. ASSUME NEW c \in Buf PROVE Same(x, z, buflas(c))
    <3>1. PICK q : q = buflas(c) OBVIOUS
    <3>2. q \in Stream /\ Own(q) = qtmpfn(c) /\ Own(q) # Own(s)
      BY <2>4, <3>1, Streams, NameAssumption DEF qtmpfn
    <3>3. Same(y, z, q)
      BY <2>3, <2>4, <2>5, <3>2, InsApart
    <3>4. Same(x, y, q)
      BY <1>0, <2>1, <2>2, <3>1, SeekRes
    <3>5. QED BY <3>1, <3>3, <3>4 DEF Same
  <2>10. QED BY <1>1, <2>6, <2>7, <2>8, <2>9
<1>4. QED BY <1>2, <1>3

(* Putting lines. *)
LEMMA PutLinesText ==
  ASSUME NEW S, NEW x, Fit(x, S), NEW c \in Buf, NEW at \in Nat
  PROVE  Mine(PutLines(x, c, UserFile, at)) =
           The!Insert(The!Extended(Mine(x), at), at, Res(x, buflas(c)))
<1>0. UserFile \in File
  BY MineIs
<1>1. PICK y, n, q : y = extend(x, UserFile, at) /\ n = Reserved(x, c) /\ q = buflas(c) OBVIOUS
<1>2. Fit(y, S) /\ Lsize(y, UserFile) >= at
  BY <1>0, <1>1, extendIs
<1>3. Mine(y) = The!Extended(Mine(x), at) /\ Same(x, y, q) /\ n \in Nat
  BY <1>1, extendText, ReservedIs
<1>4. PICK z : z = Seek(y, UserFile, at) OBVIOUS
<1>5. Fit(z, S) /\ Mine(z) = Mine(y) /\ Here(z) = at /\ Same(y, z, q)
  <2>1. at <= Lsize(y, UserFile)
    BY <1>2, MineIs
  <2>2. Fit(z, S)
    BY <1>0, <1>2, <1>4, <2>1, SeekIs
  <2>3. Mine(z) = Mine(y) /\ Here(z) = at
    BY <1>2, <1>4, MineSeek
  <2>4. Same(y, z, q)
    BY <1>0, <1>1, <1>2, <1>4, SeekRes
  <2>5. QED BY <2>2, <2>3, <2>4
<1>6. Same(x, z, q)
  BY <1>3, <1>5 DEF Same
<1>7. PICK ls : ls = LF!LinesAt(z, q, n) OBVIOUS
<1>8. ls = Res(x, q)
  <2>1. q \in Stream
    BY <1>1, Streams
  <2>2. LF!LinesAt(z, q, n) = LF!LinesAt(x, q, n)
    BY <1>6, <2>1, SameIs
  <2>3. QED BY <1>1, <1>7, <2>2 DEF Res, Reserved
<1>9. ls \in Seq(Line)
  BY <1>1, <1>3, <1>5, <1>7, LinesAtIs, Streams
<1>10. PICK w : w = Ins(z, curlas(UserFile), ls) OBVIOUS
<1>11. Mine(w) = The!Insert(Mine(z), Here(z), ls)
  BY <1>5, <1>9, <1>10, MineIns
<1>12. PutLines(x, c, UserFile, at) = w
  BY <1>1, <1>4, <1>7, <1>10 DEF PutLines, Copy
<1>13. QED BY <1>1, <1>3, <1>5, <1>8, <1>11, <1>12

(* Making a text longer twice is making it longer once.                    *)
LEMMA ExtendedTwice ==
  ASSUME NEW t \in Seq(Line), NEW at \in Nat, NEW m \in Nat, at <= m
  PROVE  The!Extended(The!Extended(t, at), m) = The!Extended(t, m)
<1>1. PICK u, v, w : u = The!Extended(t, at) /\ v = The!Extended(u, m) /\ w = The!Extended(t, m) OBVIOUS
<1>2. Len(t) \in Nat
  BY LenProperties
<1>3. /\ u \in Seq(Line) /\ Len(u) = IF at <= Len(t) THEN Len(t) ELSE at
      /\ \A i \in 1 .. Len(t) : u[i] = t[i]
      /\ \A i \in Len(t) + 1 .. at : u[i] = The!Blank
  BY <1>1, ExtendedIs
<1>4. /\ v \in Seq(Line) /\ Len(v) = IF m <= Len(u) THEN Len(u) ELSE m
      /\ \A i \in 1 .. Len(u) : v[i] = u[i]
      /\ \A i \in Len(u) + 1 .. m : v[i] = The!Blank
  BY <1>1, <1>3, ExtendedIs, ZenonT(45)
<1>5. /\ w \in Seq(Line) /\ Len(w) = IF m <= Len(t) THEN Len(t) ELSE m
      /\ \A i \in 1 .. Len(t) : w[i] = t[i]
      /\ \A i \in Len(t) + 1 .. m : w[i] = The!Blank
  BY <1>1, ExtendedIs
<1>6. Len(v) = Len(w) /\ Len(u) \in Nat /\ Len(v) \in Nat
  BY <1>2, <1>3, <1>4, <1>5
<1>7. ASSUME NEW i \in 1 .. Len(v) PROVE v[i] = w[i]
  <2>1. CASE i <= Len(t)
    <3>1. i \in 1 .. Len(t) /\ i \in 1 .. Len(u)
      BY <1>2, <1>3, <2>1
    <3>2. QED BY <1>3, <1>4, <1>5, <3>1
  <2>2. CASE i > Len(t) /\ i <= at
    <3>1. i \in Len(t) + 1 .. at /\ i \in 1 .. Len(u) /\ i \in Len(t) + 1 .. m
      BY <1>2, <1>3, <2>2
    <3>2. QED BY <1>3, <1>4, <1>5, <3>1, SMTT(45)
  <2>3. CASE i > Len(t) /\ i > at
    <3>1. i \in Len(u) + 1 .. m /\ i \in Len(t) + 1 .. m
      BY <1>2, <1>3, <1>4, <2>3
    <3>2. QED BY <1>4, <1>5, <3>1
  <2>4. QED BY <1>2, <2>1, <2>2, <2>3
<1>8. v = w
  BY <1>4, <1>5, <1>6, <1>7, SeqEqual
<1>9. QED BY <1>1, <1>8

(* A rectangle's lines, element by element.                                *)
LEMMA AreaOf ==
  ASSUME NEW t \in Seq(Line), NEW at \in Nat, NEW n \in Nat
  PROVE  /\ The!Area(t, at, n) \in Seq(Line) /\ Len(The!Area(t, at, n)) = n
         /\ \A i \in 1 .. n : The!Area(t, at, n)[i] = The!Extended(t, at + n)[at + i]
<1>1. PICK u, e : u = The!Extended(t, at + n) /\ e = at + n OBVIOUS
<1>2. u \in Seq(Line) /\ e \in Nat /\ at <= e /\ e <= Len(u)
  <2>1. e \in Nat /\ at <= e /\ Len(t) \in Nat
    BY <1>1, LenProperties
  <2>2. u \in Seq(Line) /\ Len(u) = IF e <= Len(t) THEN Len(t) ELSE e
    BY <1>1, <2>1, ExtendedIs
  <2>3. QED BY <2>1, <2>2
<1>3. /\ SubSeq(u, at + 1, e) \in Seq(Line) /\ Len(SubSeq(u, at + 1, e)) = e - at
      /\ \A i \in 1 .. e - at : SubSeq(u, at + 1, e)[i] = u[at + i]
  BY <1>2, Parts
<1>4. The!Area(t, at, n) = SubSeq(u, at + 1, e)
  BY <1>1 DEF The!Area
<1>5. e - at = n
  BY <1>1
<1>6. QED BY <1>1, <1>3, <1>4, <1>5

(* Deleting from a text that is too short, or was made long enough. *)
LEMMA DeleteExtended ==
  ASSUME NEW v \in Seq(Line), NEW at \in Nat, at <= Len(v), NEW n \in Nat
  PROVE  The!Delete(v, at, n) = The!Delete(The!Extended(v, at + n), at, n)
<1>1. PICK u, e : u = The!Extended(v, at + n) /\ e = at + n OBVIOUS
<1>2. Len(v) \in Nat /\ e \in Nat
  BY <1>1, LenProperties
<1>3. CASE e <= Len(v)
  BY <1>1, <1>3 DEF The!Extended
<1>4. CASE ~ (e <= Len(v))
  <2>1. PICK k : k = Len(v) - at OBVIOUS
  <2>2. k \in Nat /\ at + k = Len(v)
    BY <1>2, <2>1
  <2>3. The!Delete(v, at, n) = The!Delete(v, at, k)
    <3>1. k = IF at + n > Len(v) THEN Len(v) - at ELSE n
      BY <1>1, <1>2, <1>4, <2>1
    <3>2. QED BY <3>1, DeletePast
  <2>4. /\ u \in Seq(Line) /\ Len(u) = e
        /\ \A i \in 1 .. Len(v) : u[i] = v[i]
    BY <1>1, <1>2, <1>4, ExtendedIs
  <2>5. PICK a, b : a = The!Delete(v, at, k) /\ b = The!Delete(u, at, n) OBVIOUS
  <2>6. a \in Seq(Line) /\ Len(a) = Len(v) - k /\ \A i \in 1 .. at : a[i] = v[i]
    <3>1. at + k <= Len(v)
      BY <1>2, <2>2
    <3>2. QED BY <2>2, <2>5, <3>1, DeleteIs, ZenonT(45)
  <2>7. b \in Seq(Line) /\ Len(b) = Len(u) - n /\ \A i \in 1 .. at : b[i] = u[i]
    <3>1. at + n <= Len(u)
      BY <1>1, <1>2, <2>4
    <3>2. QED BY <2>4, <2>5, <3>1, DeleteIs
  <2>8. Len(a) = at /\ Len(b) = at
    BY <1>1, <1>2, <2>1, <2>4, <2>6, <2>7
  <2>9. ASSUME NEW i \in 1 .. Len(a) PROVE a[i] = b[i]
    <3>1. i \in 1 .. at /\ i \in 1 .. Len(v)
      BY <1>2, <2>8
    <3>2. QED BY <2>4, <2>6, <2>7, <3>1
  <2>10. a = b
    BY <2>6, <2>7, <2>8, <2>9, SeqEqual
  <2>11. QED BY <1>1, <2>3, <2>5, <2>10
<1>5. QED BY <1>3, <1>4

(* What a buffer holds, when it is all there. *)
LEMMA ResIs ==
  ASSUME NEW S, NEW x, Fit(x, S), NEW c \in Buf, Whole(x, c)
  PROVE  LET ls == Res(x, buflas(c))
         IN  /\ ls \in Seq(Line) /\ Len(ls) = Reserved(x, c) /\ Reserved(x, c) \in Nat
             /\ \A i \in 1 .. Len(ls) : ls[i] = x.text[qtmpfn(c)][x.las[buflas(c)].la_lpos + i]
<1>1. PICK q, n, p, ls, L : /\ q = buflas(c) /\ n = Reserved(x, c) /\ p = x.las[q].la_lpos
                            /\ ls = Res(x, q) /\ L = Lsize(x, qtmpfn(c))
  OBVIOUS
<1>2. q \in Stream /\ Own(q) = qtmpfn(c) /\ n \in Nat /\ n = x.las[q].la_rlines
  BY <1>1, Streams, ReservedIs DEF Reserved
<1>3. p + n <= L
  BY <1>1, <1>2 DEF Whole
<1>4. ls = LF!LinesAt(x, q, n)
  BY <1>1, <1>2 DEF Res
<1>5. /\ ls \in Seq(Line) /\ Len(ls) = IF p + n > L THEN L - p ELSE n
      /\ \A i \in 1 .. Len(ls) : ls[i] = x.text[Own(q)][p + i]
      /\ p \in Nat
  <2>1. q \in Stream /\ n \in Nat
    BY <1>2
  <2>2. p = x.las[q].la_lpos /\ ls = LF!LinesAt(x, q, n)
    BY <1>1, <1>4
  <2>3. Len(ls) = IF p + n > Lsize(x, Own(q)) THEN Lsize(x, Own(q)) - p ELSE n
    BY <2>1, <2>2, LinesAre
  <2>4. ls \in Seq(Line) /\ p \in Nat
    BY <2>1, <2>2, LinesAre
  <2>5. \A i \in 1 .. Len(ls) : ls[i] = x.text[Own(q)][p + i]
    BY <2>1, <2>2, LinesText
  <2>6. QED BY <1>1, <1>2, <2>3, <2>4, <2>5
<1>l. L \in Nat
  BY <1>1, <1>2, Sizes, Streams
<1>6. Len(ls) = n
  BY <1>2, <1>3, <1>5, <1>l
<1>7. QED BY <1>1, <1>2, <1>5, <1>6

(* Putting a rectangle. *)
LEMMA PutRectText ==
  ASSUME NEW S, NEW x, Fit(x, S), NEW c \in Buf, NEW at \in Nat, Whole(x, c),
         NEW ls, ls = Res(x, buflas(c)), NEW t2, t2 = The!Extended(Mine(x), at + Len(ls))
  PROVE  Mine(PutRect(x, c, UserFile, at)) =
           The!Replaced(t2, at, [i \in DOMAIN ls |-> The!With(t2[at + i], ls[i][1])])
<1> DEFINE y   == extend(x, UserFile, at)
           q   == buflas(c)
           n   == Reserved(y, c)
           p   == y.las[q].la_lpos
           got == Area(y, qtmpfn(c), p, n)
           was == Area(y, UserFile, at, n)
           new == [i \in 1 .. n |-> The!With(was[i], got[i][1])]
           res == [i \in DOMAIN ls |-> The!With(t2[at + i], ls[i][1])]
           v   == Mine(y)
<1>0. UserFile \in File /\ Mine(x) \in Seq(Line) /\ Len(Mine(x)) \in Nat
  BY MineIs, LenProperties
<1>1. Fit(y, S) /\ Lsize(y, UserFile) >= at
  BY <1>0, extendIs
<1>2. PutRect(x, c, UserFile, at) = Rewrite(y, UserFile, at, new)
  BY DEF PutRect
<1>3. v = The!Extended(Mine(x), at) /\ Same(x, y, q)
  BY extendText
<1> HIDE DEF y
<1>4. v \in Seq(Line) /\ Len(v) \in Nat /\ at <= Len(v) /\ Len(v) = Lsize(y, UserFile)
  BY <1>1, MineIs
<1>5. /\ q \in Stream /\ Own(q) = qtmpfn(c) /\ qtmpfn(c) \in File
      /\ y.las[q] = x.las[q] /\ y.text[qtmpfn(c)] = x.text[qtmpfn(c)]
  BY <1>3, Streams DEF Same
<1>6. n = Reserved(x, c) /\ p = x.las[q].la_lpos
  BY <1>5 DEF Reserved
<1>7. /\ ls \in Seq(Line) /\ Len(ls) = Reserved(x, c) /\ Reserved(x, c) \in Nat
      /\ \A i \in 1 .. Len(ls) : ls[i] = x.text[qtmpfn(c)][x.las[q].la_lpos + i]
  BY ResIs
<1>8. n \in Nat /\ p \in Nat /\ Len(ls) = n
  BY <1>1, <1>6, <1>7, ReservedIs
<1>9. p + n <= Len(x.text[qtmpfn(c)])
  <2>1. x.las[q].la_lpos + x.las[q].la_rlines <= Len(x.text[qtmpfn(c)])
    BY DEF Whole, Lsize
  <2>2. n = x.las[q].la_rlines
    BY <1>6 DEF Reserved
  <2>3. QED BY <1>6, <2>1, <2>2
<1> HIDE DEF n, p
<1>10. PICK tc : tc = x.text[qtmpfn(c)] OBVIOUS
<1>11. tc \in Seq(Line)
  BY <1>5, <1>10, Sizes
<1>12. got = The!Area(tc, p, n) /\ was = The!Area(v, at, n)
  BY <1>5, <1>10 DEF Area, Mine
<1> HIDE DEF got, was, v, q
<1>13. got \in Seq(Line) /\ Len(got) = n /\ \A i \in 1 .. n : got[i] = ls[i]
  <2>1. /\ got \in Seq(Line) /\ Len(got) = n
        /\ \A i \in 1 .. n : got[i] = The!Extended(tc, p + n)[p + i]
    <3>1. p \in Nat /\ n \in Nat
      BY <1>8
    <3>2. /\ The!Area(tc, p, n) \in Seq(Line) /\ Len(The!Area(tc, p, n)) = n
          /\ \A i \in 1 .. n : The!Area(tc, p, n)[i] = The!Extended(tc, p + n)[p + i]
      BY <1>11, <3>1, AreaOf
    <3>3. QED BY <1>12, <3>2
  <2>2. The!Extended(tc, p + n) = tc
    BY <1>9, <1>10 DEF The!Extended
  <2>3. \A i \in 1 .. n : ls[i] = tc[p + i]
    BY <1>6, <1>7, <1>8, <1>10
  <2>4. QED BY <2>1, <2>2, <2>3
<1>14. /\ was \in Seq(Line) /\ Len(was) = n
       /\ \A i \in 1 .. n : was[i] = t2[at + i]
  <2>0. /\ The!Area(v, at, n) \in Seq(Line) /\ Len(The!Area(v, at, n)) = n
        /\ \A i \in 1 .. n : The!Area(v, at, n)[i] = The!Extended(v, at + n)[at + i]
    BY <1>4, <1>8, AreaOf
  <2>1. /\ was \in Seq(Line) /\ Len(was) = n
        /\ \A i \in 1 .. n : was[i] = The!Extended(v, at + n)[at + i]
    BY <1>12, <2>0
  <2>2. The!Extended(v, at + n) = t2
    <3>1. PICK m : m = at + n OBVIOUS
    <3>2. m \in Nat /\ at <= m
      BY <1>8, <3>1
    <3>3. The!Extended(The!Extended(Mine(x), at), m) = The!Extended(Mine(x), m)
      BY <1>0, <3>2, ExtendedTwice
    <3>4. QED BY <1>3, <1>8, <3>1, <3>3
  <2>3. QED BY <2>1, <2>2
<1>15. DOMAIN ls = 1 .. n
  BY <1>7, <1>8, LenProperties
<1>16. new = res
  BY <1>13, <1>14, <1>15
<1>17. new \in Seq(Line) /\ Len(new) = n
  <2>1. \A i \in 1 .. n : got[i] \in Line /\ was[i] \in Line
    BY <1>8, <1>13, <1>14, ElementOfSeq
  <2>2. \A i \in 1 .. n : The!With(was[i], got[i][1]) \in Line
    BY <2>1, LineParts, QBufAssumption
  <2>3. QED BY <1>8, <2>2
<1>r. PICK r : r = new OBVIOUS
<1>18. Mine(Rewrite(y, UserFile, at, r)) = The!Replaced(v, at, r)
  <2>1. r \in Seq(Line) /\ at <= Lsize(y, UserFile)
    BY <1>4, <1>17, <1>r
  <2>2. QED BY <1>1, <2>1, RewriteText DEF v
<1> HIDE DEF new, res
<1>19. The!Delete(v, at, n) = The!Delete(t2, at, n)
  <2>1. The!Delete(v, at, n) = The!Delete(The!Extended(v, at + n), at, n)
    BY <1>4, <1>8, DeleteExtended
  <2>2. PICK m : m = at + n OBVIOUS
  <2>3. m \in Nat /\ at <= m
    BY <1>8, <2>2
  <2>4. The!Extended(The!Extended(Mine(x), at), m) = The!Extended(Mine(x), m)
    BY <1>0, <2>3, ExtendedTwice
  <2>5. QED BY <1>3, <1>8, <2>1, <2>2, <2>4
<1>20. The!Replaced(v, at, r) = The!Replaced(t2, at, r)
  BY <1>17, <1>19, <1>r DEF The!Replaced
<1>21. QED BY <1>2, <1>16, <1>18, <1>20, <1>r DEF res

(* putline puts the line there and takes the old one out. *)
LEMMA putlineText ==
  ASSUME NEW S, NEW x, Fit(x, S), NEW at \in Nat, at < Lsize(x, UserFile), NEW l \in Line
  PROVE  LET y == putline(x, UserFile, at, l)
         IN  /\ Fit(y, S) /\ Len(Mine(y)) = Len(Mine(x)) /\ Mine(y)[at + 1] = l
             /\ \A i \in 1 .. Len(Mine(x)) : i # at + 1 => Mine(y)[i] = Mine(x)[i]
<1>0. /\ UserFile \in File /\ Mine(x) \in Seq(Line) /\ Len(Mine(x)) = Lsize(x, UserFile)
      /\ Lsize(x, UserFile) \in Nat /\ at <= Lsize(x, UserFile)
  BY MineIs
<1>1. PICK old : old = IF at < Lsize(x, UserFile) /\ x.text[UserFile][at + 1] # The!Blank
                    THEN fnlas(OLDLFILE) ELSE None
  OBVIOUS
<1>2. old \in Stream \cup {None} /\ (old # None => Own(old) # UserFile)
  BY <1>1, OldTail
<1>3. PICK y, s, new, one : y = Seek(x, UserFile, at) /\ s = curlas(UserFile) /\ new = << l >> /\ one = 1
  OBVIOUS
<1>4. Fit(y, S) /\ Mine(y) = Mine(x) /\ Here(y) = at
  BY <1>0, <1>3, SeekIs, MineSeek
<1>5. new \in Seq(Line) /\ Len(new) = 1 /\ one \in Nat /\ one = 1
  BY <1>3
<1>6. PICK z : z = Ins(y, s, new) OBVIOUS
<1>7. Fit(z, S) /\ Mine(z) = The!Insert(Mine(x), at, new) /\ Here(z) = at + 1
  <2>1. s \in Stream
    BY <1>0, <1>3, Streams
  <2>2. Fit(z, S)
    BY <1>4, <1>5, <1>6, <2>1, InsIs
  <2>3. Mine(z) = The!Insert(Mine(y), Here(y), new) /\ Here(z) = Here(y) + Len(new)
    BY <1>3, <1>4, <1>5, <1>6, MineIns
  <2>4. QED BY <1>4, <1>5, <2>2, <2>3
<1>8. PICK w : w = Move(z, s, one, old) OBVIOUS
<1>9. Mine(w) = The!Delete(Mine(z), Here(z), one)
  BY <1>2, <1>3, <1>5, <1>7, <1>8, MineMove
<1>10. putline(x, UserFile, at, l) = w
  BY <1>1, <1>3, <1>6, <1>8 DEF putline
<1>11. Fit(w, S)
  <2>1. Fit(putline(x, UserFile, at, l), S)
    BY <1>0, putlineIs
  <2>2. QED BY <1>10, <2>1
<1>12. Len(Mine(w)) = Len(Mine(x))
  <2>1. Len(Mine(z)) = Len(Mine(x)) + 1
    <3>1. Len(The!Insert(Mine(x), at, new)) = Len(Mine(x)) + Len(new)
      <4>1. at <= Len(Mine(x)) /\ Mine(x) \in Seq(Line) /\ new \in Seq(Line)
        BY <1>0, <1>5
      <4>2. QED BY <4>1, InsertIs
    <3>2. QED BY <1>5, <1>7, <3>1
  <2>2. Mine(z) \in Seq(Line)
    BY <1>7, MineIs
  <2>3. at + 1 \in Nat /\ at + 1 + one <= Len(Mine(z))
    BY <1>0, <1>5, <2>1
  <2>4. Len(The!Delete(Mine(z), at + 1, one)) = Len(Mine(z)) - one
    BY <1>5, <2>2, <2>3, DeleteIs, ZenonT(45)
  <2>5. QED BY <1>0, <1>5, <1>7, <1>9, <2>1, <2>4
<1>13. /\ Mine(w)[at + 1] = l
       /\ \A i \in 1 .. Len(Mine(x)) : i # at + 1 => Mine(w)[i] = Mine(x)[i]
  <2>1. /\ putline(x, UserFile, at, l).text[UserFile][at + 1] = l
        /\ \A i \in 1 .. Lsize(x, UserFile) :
             i # at + 1 => putline(x, UserFile, at, l).text[UserFile][i] = x.text[UserFile][i]
    BY <1>0, putlineSets
  <2>2. QED BY <1>0, <1>10, <2>1 DEF Mine
<1>14. QED BY <1>10, <1>11, <1>12, <1>13

(* Joining: the lines from the first to the last become one. *)
LEMMA JoinText ==
  ASSUME NEW S, NEW x, Fit(x, S), NEW at \in Nat, NEW n \in Nat, n > 0, at + n < Lsize(x, UserFile),
         NEW l \in Line, NEW w, Fit(w, S), Mine(w) = Mine(Cut(x, UserFile, at, n))
  PROVE  Mine(dojoin(w, UserFile, at, n, l)) =
           The!Insert(The!Delete(Mine(x), at, n + 1), at, << l >>)
<1> DEFINE ls == Area(x, UserFile, at, n + 1)
           k == The!With(ls[n + 1], empty)
           h == The!Piece(ls[1])
           y == putline(x, UserFile, at + n, k)
           z == putline(y, UserFile, at, h)
           v == putline(w, UserFile, at, l)
           u == Seek(v, UserFile, at + 1)
           r == Move(u, curlas(UserFile), n, None)
<1>0. /\ UserFile \in File /\ Mine(x) \in Seq(Line) /\ Len(Mine(x)) = Lsize(x, UserFile)
      /\ Lsize(x, UserFile) \in Nat /\ at + n \in Nat
  BY MineIs
<1>1. k \in Line /\ h \in Line
  BY <1>0, EndsOfArea, LineParts, QBufAssumption
<1>2. Cut(x, UserFile, at, n) = z
  BY DEF Cut
<1>d. dojoin(w, UserFile, at, n, l) = r
  BY DEF dojoin, CloseUnsaved
<1> HIDE DEF k, h
<1>3. /\ Fit(y, S) /\ Len(Mine(y)) = Len(Mine(x))
      /\ \A i \in 1 .. Len(Mine(x)) : i # at + n + 1 => Mine(y)[i] = Mine(x)[i]
  BY <1>0, <1>1, putlineText
<1> HIDE DEF y
<1>4. /\ Fit(z, S) /\ Len(Mine(z)) = Len(Mine(y))
      /\ \A i \in 1 .. Len(Mine(y)) : i # at + 1 => Mine(z)[i] = Mine(y)[i]
  <2>1. at < Lsize(y, UserFile)
    BY <1>0, <1>3, MineIs
  <2>2. QED BY <1>1, <1>3, <2>1, putlineText
<1> HIDE DEF z
<1>5. Mine(w) = Mine(z)
  BY <1>2
<1>6. /\ Fit(v, S) /\ Len(Mine(v)) = Len(Mine(w)) /\ Mine(v)[at + 1] = l
      /\ \A i \in 1 .. Len(Mine(w)) : i # at + 1 => Mine(v)[i] = Mine(w)[i]
  <2>1. at < Lsize(w, UserFile)
    <3>1. Len(Mine(w)) = Lsize(w, UserFile)
      BY MineIs
    <3>2. QED BY <1>0, <1>3, <1>4, <1>5, <3>1
  <2>2. QED BY <2>1, putlineText
<1> HIDE DEF v
<1>7. /\ Mine(v) \in Seq(Line) /\ Len(Mine(v)) = Len(Mine(x)) /\ Mine(v)[at + 1] = l
      /\ \A i \in 1 .. Len(Mine(x)) : i # at + 1 /\ i # at + n + 1 => Mine(v)[i] = Mine(x)[i]
  <2>1. Mine(v) \in Seq(Line)
    BY <1>6, MineIs
  <2>2. QED BY <1>3, <1>4, <1>5, <1>6, <2>1
<1>8. Fit(u, S) /\ Mine(u) = Mine(v) /\ Here(u) = at + 1
  <2>1. PICK j : j = at + 1 OBVIOUS
  <2>2. j \in Nat /\ j <= Lsize(v, UserFile)
    <3>1. Len(Mine(v)) = Lsize(v, UserFile)
      BY <1>6, MineIs
    <3>2. QED BY <1>0, <1>7, <2>1, <3>1
  <2>3. Fit(Seek(v, UserFile, j), S)
    BY <1>0, <1>6, <2>2, SeekIs
  <2>4. Mine(Seek(v, UserFile, j)) = Mine(v) /\ Here(Seek(v, UserFile, j)) = j
    BY <1>6, <2>2, MineSeek
  <2>5. QED BY <2>1, <2>3, <2>4
<1> HIDE DEF u
<1>9. Mine(r) = The!Delete(Mine(v), at + 1, n)
  <2>1. Mine(r) = The!Delete(Mine(u), Here(u), n)
    BY <1>8, MineMove
  <2>2. QED BY <1>8, <2>1
<1> HIDE DEF r
<1>10. PICK t, d, e, m, new : /\ t = Mine(x) /\ d = Mine(v) /\ e = Mine(r) /\ m = The!Delete(t, at, n + 1)
                              /\ new = << l >>
  OBVIOUS
<1>11. /\ t \in Seq(Line) /\ Len(t) \in Nat /\ at + n < Len(t)
       /\ d \in Seq(Line) /\ Len(d) = Len(t) /\ d[at + 1] = l
       /\ \A i \in 1 .. Len(t) : i # at + 1 /\ i # at + n + 1 => d[i] = t[i]
       /\ e = The!Delete(d, at + 1, n)
  BY <1>0, <1>7, <1>9, <1>10
<1>12. /\ e \in Seq(Line) /\ Len(e) = Len(d) - n
       /\ \A i \in 1 .. at + 1 : e[i] = d[i]
       /\ \A i \in at + 1 + n + 1 .. Len(d) : e[i - n] = d[i]
  <2>1. at + 1 \in Nat /\ at + 1 + n <= Len(d)
    BY <1>11
  <2>2. QED BY <1>11, <2>1, DeleteIs, ZenonT(45)
<1>13. /\ m \in Seq(Line) /\ Len(m) = Len(t) - (n + 1)
       /\ \A i \in 1 .. at : m[i] = t[i]
       /\ \A i \in at + (n + 1) + 1 .. Len(t) : m[i - (n + 1)] = t[i]
  <2>1. PICK n1 : n1 = n + 1 OBVIOUS
  <2>2. n1 \in Nat /\ at + n1 <= Len(t) /\ t \in Seq(Line)
    BY <1>11, <2>1
  <2>3. m = The!Delete(t, at, n1)
    BY <1>10, <2>1
  <2>4. /\ m \in Seq(Line) /\ Len(m) = Len(t) - n1
        /\ \A i \in 1 .. at : m[i] = t[i]
        /\ \A i \in at + n1 + 1 .. Len(t) : m[i - n1] = t[i]
    BY <2>2, <2>3, DeleteIs, ZenonT(45)
  <2>5. QED BY <2>1, <2>4
<1>14. new \in Seq(Line) /\ Len(new) = 1 /\ new[1] = l
  BY <1>10
<1>15. e = The!Insert(m, at, new)
  <2>1. at <= Len(m) /\ Len(e) = Len(m) + Len(new)
    BY <1>11, <1>12, <1>13, <1>14
  <2>2. ASSUME NEW i \in 1 .. at PROVE e[i] = m[i]
    <3>1. i \in 1 .. at + 1 /\ i \in 1 .. Len(t) /\ i # at + 1 /\ i # at + n + 1
      BY <1>11
    <3>2. QED BY <1>11, <1>12, <1>13, <3>1
  <2>3. ASSUME NEW i \in 1 .. Len(new) PROVE e[at + i] = new[i]
    <3>1. i = 1 /\ at + 1 \in 1 .. at + 1
      BY <1>14
    <3>2. QED BY <1>11, <1>12, <1>14, <3>1
  <2>4. ASSUME NEW i \in at + 1 .. Len(m) PROVE e[i + Len(new)] = m[i]
    <3>1. PICK j : j = i + (n + 1) OBVIOUS
    <3>2. /\ j \in at + (n + 1) + 1 .. Len(t) /\ j - (n + 1) = i
          /\ j \in at + 1 + n + 1 .. Len(d) /\ j - n = i + 1
          /\ j \in 1 .. Len(t) /\ j # at + 1 /\ j # at + n + 1
      BY <1>11, <1>13, <3>1
    <3>3. m[j - (n + 1)] = t[j] /\ e[j - n] = d[j] /\ d[j] = t[j]
      BY <1>11, <1>12, <1>13, <3>2
    <3>4. QED BY <1>14, <3>2, <3>3
  <2>5. QED BY <1>12, <1>13, <1>14, <2>1, <2>2, <2>3, <2>4, InsertOnly, ZenonT(45)
<1>16. QED BY <1>10, <1>15, <1>d

(* A buffer that holds as many lines as it has reserved has them all. *)
LEMMA TookSure ==
  ASSUME NEW S, NEW x, Fit(x, S), NEW c \in Buf, NEW n \in Nat, x.las[buflas(c)].la_rlines = n,
         NEW ls, Res(x, buflas(c)) = ls, Len(ls) = n
  PROVE  Whole(x, c)
<1>1. PICK q : q = buflas(c) OBVIOUS
<1>2. q \in Stream /\ Own(q) = qtmpfn(c) /\ Own(q) \in File
  BY <1>1, Streams
<1>3. PICK p, L : p = x.las[q].la_lpos /\ L = Lsize(x, Own(q)) OBVIOUS
<1>4. p \in Nat /\ L \in Nat /\ p <= L
  BY <1>2, <1>3, Placed, Sizes
<1>5. Len(LF!LinesAt(x, q, n)) = IF p + n > L THEN L - p ELSE n
  <2>1. Len(LF!LinesAt(x, q, n)) =
          IF x.las[q].la_lpos + n > Lsize(x, Own(q)) THEN Lsize(x, Own(q)) - x.las[q].la_lpos ELSE n
    BY <1>2, LinesAre
  <2>2. QED BY <1>3, <2>1
<1>6. LF!LinesAt(x, q, n) = ls
  BY <1>1 DEF Res
<1>7. p + n <= L
  BY <1>4, <1>5, <1>6
<1>8. QED BY <1>1, <1>2, <1>3, <1>7 DEF Whole

(* As many lines as there are.                                             *)
LEMMA LinesLen ==
  ASSUME NEW t \in Seq(Line), NEW at \in Nat, NEW n \in Nat, at + n <= Len(t)
  PROVE  Len(The!Lines(t, at, n)) = n
<1>1. The!Min2(at + n, Len(t)) = at + n
  BY DEF The!Min2
<1>2. PICK i, j : i = at + 1 /\ j = at + n OBVIOUS
<1>3. i \in Nat /\ j \in Nat /\ i >= 1 /\ j <= Len(t) /\ j - i + 1 = n /\ Len(t) \in Nat
  BY <1>2
<1>4. Len(SubSeq(t, i, j)) = IF i <= j THEN j - i + 1 ELSE 0
  BY <1>3
<1>5. Len(SubSeq(t, i, j)) = n
  BY <1>2, <1>3, <1>4
<1>6. QED BY <1>1, <1>2, <1>5 DEF The!Lines

(* So it is with lines that have been closed, erased, picked or given.     *)
LEMMA CloseSure ==
  ASSUME NEW S, NEW x, Fit(x, S), NEW b \in Buf, qtmpfn(b) = OLDLFILE,
         NEW f \in File, f # OLDLFILE, NEW at \in Nat, NEW n \in Nat, at + n <= Lsize(x, f)
  PROVE  Whole(CloseLines(x, b, f, at, n), b)
<1> DEFINE y == AtEnd(Begin(x, b, f, at), b)
           v == Move(y, curlas(f), n, fnlas(OLDLFILE))
           r == CloseLines(x, b, f, at, n)
           T == S \cup {buflas(b)}
<1>0. x.text[f] \in Seq(Line) /\ Len(x.text[f]) = Lsize(x, f) /\ Lsize(x, f) \in Nat /\ at <= Lsize(x, f)
  BY Sizes DEF Lsize
<1>1. r = End(v, b, n)
  BY DEF CloseLines
<1>2. Fit(y, T)
  <2>1. PICK u : u = Begin(x, b, f, at) OBVIOUS
  <2>2. Fit(u, T)
    BY <1>0, <2>1, BeginIs
  <2>3. Fit(AtEnd(u, b), T)
    BY <2>2, AtEndIs
  <2>4. QED BY <2>1, <2>3
<1> HIDE DEF y
<1>3. Fit(v, T)
  BY <1>2, Streams, MoveIs
<1> HIDE DEF v
<1>4. End(v, b, n).las[buflas(b)].la_rlines = n
  BY <1>3, EndSets
<1>5. Res(r, buflas(b)) = The!Lines(x.text[f], at, n)
  BY CloseTakes
<1>6. Fit(r, S)
  BY <1>0, CloseLinesIs
<1> HIDE DEF r
<1>7. Len(The!Lines(x.text[f], at, n)) = n
  BY <1>0, LinesLen
<1>8. Whole(r, b)
  BY <1>1, <1>4, <1>5, <1>6, <1>7, TookSure
<1>9. QED BY <1>8 DEF r

(* A buffer that erased lines went to has them all.                        *)
LEMMA EraseSure ==
  ASSUME NEW S, NEW x, Fit(x, S), NEW b \in Buf, qtmpfn(b) = OLDLFILE,
         NEW f \in File, f # OLDLFILE, NEW at \in Nat, NEW n \in Nat, at + n <= Lsize(x, f)
  PROVE  Whole(EraseLines(x, b, f, at, n), b)
<1> DEFINE y == AtEnd(Begin(x, b, f, at), b)
           v == Move(y, curlas(f), n, fnlas(OLDLFILE))
           w == Ins(v, curlas(f), The!Blanks(n))
           r == EraseLines(x, b, f, at, n)
           T == S \cup {buflas(b)}
<1>0. x.text[f] \in Seq(Line) /\ Len(x.text[f]) = Lsize(x, f) /\ Lsize(x, f) \in Nat /\ at <= Lsize(x, f)
  BY Sizes DEF Lsize
<1>1. r = End(w, b, n)
  BY DEF EraseLines
<1>2. Fit(y, T)
  <2>1. PICK u : u = Begin(x, b, f, at) OBVIOUS
  <2>2. Fit(u, T)
    BY <1>0, <2>1, BeginIs
  <2>3. Fit(AtEnd(u, b), T)
    BY <2>2, AtEndIs
  <2>4. QED BY <2>1, <2>3
<1> HIDE DEF y
<1>3. Fit(v, T)
  BY <1>2, Streams, MoveIs
<1> HIDE DEF v
<1>w. Fit(w, T)
  BY <1>3, Streams, BlanksAre, InsIs
<1> HIDE DEF w
<1>4. End(w, b, n).las[buflas(b)].la_rlines = n
  BY <1>w, EndSets
<1>5. Res(r, buflas(b)) = The!Lines(x.text[f], at, n)
  BY EraseTakes
<1>6. Fit(r, S)
  BY <1>0, EraseLinesIs
<1> HIDE DEF r
<1>7. Len(The!Lines(x.text[f], at, n)) = n
  BY <1>0, LinesLen
<1>8. Whole(r, b)
  BY <1>1, <1>4, <1>5, <1>6, <1>7, TookSure
<1>9. QED BY <1>8 DEF r

(* One that lines were picked into has.                                    *)
LEMMA PickSure ==
  ASSUME NEW S, NEW x, Fit(x, S), NEW b \in Buf,
         NEW f \in File, f = PICKFILE => qtmpfn(b) = PICKFILE,
         NEW at \in Nat, NEW n \in Nat, at + n <= Lsize(x, f)
  PROVE  Whole(PickLines(x, b, f, at, n), b)
<1> DEFINE y == Begin(x, b, f, at)
           v == Align(y, curlas(f), b)
           w == Copy(AtEnd(y, b), curlas(f), fnlas(qtmpfn(b)), n)
           r == PickLines(x, b, f, at, n)
           T == S \cup {buflas(b)}
<1>0. x.text[f] \in Seq(Line) /\ Len(x.text[f]) = Lsize(x, f) /\ Lsize(x, f) \in Nat /\ at <= Lsize(x, f)
  BY Sizes DEF Lsize
<1>1. r = IF f = PICKFILE THEN End(v, b, n) ELSE End(w, b, n)
  BY DEF PickLines
<1>2. Fit(y, T)
  BY <1>0, BeginIs
<1> HIDE DEF y
<1>3. Fit(v, T)
  BY <1>2, Streams, AlignIs
<1> HIDE DEF v
<1>w. Fit(w, T)
  <2>1. Fit(AtEnd(y, b), T)
    BY <1>2, AtEndIs
  <2>2. curlas(f) \in Stream /\ fnlas(qtmpfn(b)) \in Stream
    BY Streams
  <2>3. QED BY <2>1, <2>2, CopyKeeps
<1> HIDE DEF w
<1>4. End(w, b, n).las[buflas(b)].la_rlines = n /\ End(v, b, n).las[buflas(b)].la_rlines = n
  BY <1>3, <1>w, EndSets
<1>5. Res(r, buflas(b)) = The!Lines(x.text[f], at, n)
  BY PickTakes
<1>6. Fit(r, S)
  BY <1>0, PickLinesIs
<1> HIDE DEF r
<1>7. Len(The!Lines(x.text[f], at, n)) = n
  BY <1>0, LinesLen
<1>r. r.las[buflas(b)].la_rlines = n
  BY <1>1, <1>4
<1>8. Whole(r, b)
  BY <1>r, <1>5, <1>6, <1>7, TookSure
<1>9. QED BY <1>8 DEF r

(* One that took what a program was given has.                             *)
LEMMA ReceiveSure ==
  ASSUME NEW S, NEW x, Fit(x, S), NEW b \in Buf, qtmpfn(b) = OLDLFILE,
         NEW f \in File, NEW at \in Nat, NEW n \in Nat, at + n <= Lsize(x, f), NEW new \in Seq(Line)
  PROVE  Whole(receive(x, b, f, at, n, new), b)
<1> DEFINE y == Given(x, b, f, at)
           v == Move(y, curlas(f), n, fnlas(OLDLFILE))
           w == Ins(v, curlas(f), new)
           r == receive(x, b, f, at, n, new)
           T == S \cup {buflas(b)}
<1>0. x.text[f] \in Seq(Line) /\ Len(x.text[f]) = Lsize(x, f) /\ Lsize(x, f) \in Nat /\ at <= Lsize(x, f)
  BY Sizes DEF Lsize
<1>1. r = End(w, b, n)
  BY DEF receive
<1>2. Fit(y, T)
  BY <1>0, GivenIs
<1> HIDE DEF y
<1>3. Fit(v, T)
  BY <1>2, Streams, MoveIs
<1> HIDE DEF v
<1>w. Fit(w, T)
  BY <1>3, Streams, InsIs
<1> HIDE DEF w
<1>4. End(w, b, n).las[buflas(b)].la_rlines = n
  BY <1>w, EndSets
<1>5. Res(r, buflas(b)) = The!Lines(x.text[f], at, n)
  BY ReceiveTakes
<1>6. Fit(r, S)
  BY <1>0, receiveIs
<1> HIDE DEF r
<1>7. Len(The!Lines(x.text[f], at, n)) = n
  BY <1>0, LinesLen
<1>8. Whole(r, b)
  BY <1>1, <1>4, <1>5, <1>6, <1>7, TookSure
<1>9. QED BY <1>8 DEF r

(* One that has reserved nothing has.                                      *)
LEMMA NoneSure ==
  ASSUME NEW S, NEW x, Fit(x, S), NEW b \in Buf
  PROVE  LET y == Rlines(x, b, 0) IN Whole(y, b) /\ y.text = x.text /\ Res(y, buflas(b)) = << >>
<1>1. PICK y : y = Rlines(x, b, 0) OBVIOUS
<1>2. PICK q : q = buflas(b) OBVIOUS
<1>3. Fit(y, S)
  BY <1>1, RlinesIs
<1>4. /\ y.text = x.text /\ y.las[q].la_rlines = 0
  BY <1>1, <1>2, RlinesSets
<1>5. q \in Stream /\ Own(q) = qtmpfn(b) /\ Own(q) \in File
  BY <1>2, Streams
<1>6. y.las[q].la_lpos \in Nat /\ y.las[q].la_lpos <= Lsize(y, Own(q))
  BY <1>3, <1>5, Placed
<1>7. Whole(y, b)
  BY <1>2, <1>4, <1>5, <1>6 DEF Whole
<1>8. LF!LinesAt(y, q, 0) = << >>
  BY <1>3, <1>5, NoneAt
<1>9. Res(y, q) = << >>
  BY <1>4, <1>8 DEF Res
<1>10. QED BY <1>1, <1>2, <1>4, <1>7, <1>9

(* A program that fails: the buffer is left at the end of #o. *)
LEMMA GivenFails ==
  ASSUME NEW S, NEW x, Fit(x, S), NEW b \in Buf, NEW f \in File,
         NEW at \in Nat, at <= Lsize(x, f), NEW n \in Nat
  PROVE  LET y == End(Given(x, b, f, at), b, n)
         IN  Fit(y, S) /\ Sure(y, b) /\ y.text = x.text /\ Res(y, buflas(b)) = << >>
<1> DEFINE w == Given(x, b, f, at)
           v == Rlines(w, b, n)
           y == End(w, b, n)
           T == S \cup {buflas(b)}
<1>q. PICK q : q = buflas(b) OBVIOUS
<1>0. q \in Stream /\ Own(q) = qtmpfn(b) /\ Own(q) \in File
  BY <1>q, Streams
<1>1. Fit(w, S \cup {buflas(b)})
  BY GivenIs
<1>2. /\ w.text = x.text /\ w.ncols[b] = 0
      /\ w.las[q].la_lpos = Lsize(w, qtmpfn(b)) /\ w.las[q].la_file = qtmpfn(b)
  <2>1. Ready(w, b) /\ w.text = x.text /\ w.ncols[b] = 0
    BY GivenReady
  <2>2. w.las[q].la_file = Own(q)
    BY <1>1, <1>0, Placed
  <2>3. QED BY <1>q, <1>0, <2>1, <2>2 DEF Ready
<1> HIDE DEF w
<1>3. y = Stay(v, b, FALSE)
  BY DEF End
<1>4. /\ Fit(v, S \cup {buflas(b)}) /\ v.text = w.text /\ v.ncols = w.ncols
      /\ v.las[q].la_rlines = n /\ v.las[q].la_lpos = w.las[q].la_lpos
  BY <1>1, <1>q, RlinesIs, RlinesSets
<1> HIDE DEF v
<1>5. y.text = v.text /\ y.ncols = v.ncols /\ Fit(y, S)
  <2>1. Fit(v, S \cup {buflas(b)})
    BY <1>4
  <2>2. Fit(Stay(v, b, FALSE), S) /\ Stay(v, b, FALSE).text = v.text
    BY <2>1, StayOff
  <2>3. Stay(v, b, FALSE).ncols = v.ncols
    BY <2>1 DEF Stay, Fit, States
  <2>4. QED BY <1>3, <2>2, <2>3
<1>6. y.las[q].la_lpos = v.las[q].la_lpos /\ y.las[q].la_rlines = v.las[q].la_rlines
  <2>1. Fit(v, S \cup {buflas(b)})
    BY <1>4
  <2>2. LET z == Stay(v, b, FALSE)
            r == buflas(b)
        IN  /\ z.text = v.text
            /\ z.las[r].la_lpos = v.las[r].la_lpos /\ z.las[r].la_rlines = v.las[r].la_rlines
    BY <2>1, StayOffSets, ZenonT(45)
  <2>3. QED BY <1>3, <1>q, <2>2
<1> HIDE DEF y
<1>7. Sure(y, b)
  BY <1>q, <1>2, <1>4, <1>5, <1>6 DEF Sure, Lsize
<1>8. Res(y, q) = << >>
  <2>1. PICK ls : ls = LF!LinesAt(y, q, n) OBVIOUS
  <2>2. Len(LF!LinesAt(y, q, n)) =
          IF y.las[q].la_lpos + n > Lsize(y, Own(q)) THEN Lsize(y, Own(q)) - y.las[q].la_lpos ELSE n
    BY <1>0, <1>5, LinesAre
  <2>3. ls \in Seq(Line)
    <3>1. LF!LinesAt(y, q, n) \in Seq(Line)
      BY <1>0, <1>5, LinesAre
    <3>2. QED BY <2>1, <3>1
  <2>4. y.las[q].la_lpos = Lsize(y, Own(q)) /\ Lsize(y, Own(q)) \in Nat
    <3>1. Lsize(y, Own(q)) \in Nat
      BY <1>0, <1>5, Sizes
    <3>2. QED BY <1>0, <1>2, <1>4, <1>5, <1>6, <3>1 DEF Lsize
  <2>5. Len(ls) = 0
    BY <2>1, <2>2, <2>4
  <2>6. ls = << >>
    BY <2>3, <2>5
  <2>7. QED BY <1>4, <1>6, <2>1, <2>6 DEF Res
<1>9. Fit(y, S) /\ Sure(y, b) /\ y.text = x.text /\ Res(y, buflas(b)) = << >>
  BY <1>q, <1>2, <1>4, <1>5, <1>7, <1>8
<1>10. QED BY <1>9 DEF y, w

(* Every buffer has what it has reserved, or is empty at the end. *)
Secure(x) == \A c \in Buf : Sure(x, c)

(* The end of a command changes no text, and no buffer.                    *)
LEMMA DoSets ==
  ASSUME NEW opc, NEW b, NEW f, NEW at, NEW n,
         NEW S, NEW x, Fit(x, S), Do(opc, b, f, at, n, x)
  PROVE  /\ st'.text = x.text /\ st'.ncols = x.ncols
         /\ \A c \in Buf : st'.las[buflas(c)] = x.las[buflas(c)]
         /\ cmd' = [opc |-> opc, buf |-> b, file |-> f, at |-> at, n |-> n]
<1> DEFINE l == [s \in Stream |->
              IF s[1] = "curlas" THEN [x.las[s] EXCEPT !.la_lpos = 0] ELSE x.las[s]]
           y == [x EXCEPT !.las = l]
<1>1. st' = y /\ cmd' = [opc |-> opc, buf |-> b, file |-> f, at |-> at, n |-> n]
  BY DEF Do
<1>2. \A c \in Buf : l[buflas(c)] = x.las[buflas(c)]
  BY Streams, StreamNames
<1> HIDE DEF l
<1>3. y.text = x.text /\ y.las = l /\ y.ncols = x.ncols
  BY DEF Fit, States
<1> HIDE DEF y
<1>4. QED BY <1>1, <1>2, <1>3

(* What is secure before the end of a command is so after it.              *)
LEMMA DoSecure ==
  ASSUME NEW opc, NEW b, NEW f, NEW at, NEW n,
         NEW S, NEW x, Fit(x, S), Do(opc, b, f, at, n, x), Secure(x)
  PROVE  Secure(st')
<1>1. /\ st'.text = x.text /\ st'.ncols = x.ncols
      /\ \A c \in Buf : st'.las[buflas(c)] = x.las[buflas(c)]
  BY DoSets
<1>2. ASSUME NEW c \in Buf PROVE Sure(st', c)
  <2>1. Sure(x, c)
    BY DEF Secure
  <2>2. QED BY <1>1, <2>1 DEF Sure, Whole, Lsize
<1>3. QED BY <1>2 DEF Secure

(* When no failure leaves a stream with the order to stay, what leaves the *)
(* buffers alone leaves them sure, and what they hold.                     *)
LEMMA LeavesHeld ==
  ASSUME ~ HalfFails, NEW x, Fit(x, Left), NEW y, NEW u, NEW e, Leaves(u, e, x, y), Secure(x)
  PROVE  \A c \in Buf \ {e} :
           /\ Sure(y, c) /\ HeldIn(y, c) \in {HeldIn(x, c), The!Nothing}
           /\ u => HeldIn(y, c) = HeldIn(x, c)
<1> SUFFICES ASSUME NEW c \in Buf \ {e}
             PROVE  /\ Sure(y, c) /\ HeldIn(y, c) \in {HeldIn(x, c), The!Nothing}
                    /\ u => HeldIn(y, c) = HeldIn(x, c)
  OBVIOUS
<1>1. PICK q : q = buflas(c) OBVIOUS
<1>2. q \in Stream
  BY <1>1, Streams
<1>3. ~ x.las[q].la_stay
  BY <1>2 DEF Fit, Left
<1>4. Calm(x, c)
  BY <1>1, <1>3 DEF Secure, Calm
<1>5. /\ Calm(y, c) /\ y.ncols[c] = x.ncols[c] /\ Still(x, y, q)
      /\ u => Res(y, q) = Res(x, q)
  BY <1>1, <1>4 DEF Leaves, Spares
<1>6. Sure(y, c)
  BY <1>5 DEF Calm
<1>7. Res(y, q) = Res(x, q) => HeldIn(y, c) = HeldIn(x, c)
  BY <1>1, <1>5 DEF HeldIn
<1>8. Res(y, q) = << >> => HeldIn(y, c) = The!Nothing
  BY <1>1 DEF HeldIn, The!Holds
<1>9. QED BY <1>5, <1>6, <1>7, <1>8 DEF Still

(* A command that leaves all buffers but e alone: of the user's file, the  *)
(* others hold what they held; of another file, it is a step of EditOwn.   *)
LEMMA DoLeaves ==
  ASSUME Careful, Inv, Secure(st), NEW f \in File, NEW u \in BOOLEAN, u <=> f = UserFile,
         NEW x, Fit(x, Left), NEW e, e \notin Buf \/ Sure(x, e), Leaves(u, e, st, x),
         NEW opc, NEW b, b = e \/ e \notin Buf, NEW at, NEW n, Do(opc, b, f, at, n, x)
  PROVE  /\ Secure(st') /\ st'.text = x.text
         /\ \A c \in Buf : Held(c)' = HeldIn(x, c)
         /\ f = UserFile => (\A c \in Buf \ {e} : Held(c)' = Held(c)) /\ Told(opc, b, at, n)
         /\ f # UserFile => B!Next
<1>1. \A c \in Buf \ {e} :
           /\ Sure(x, c) /\ HeldIn(x, c) \in {HeldIn(st, c), The!Nothing}
           /\ u => HeldIn(x, c) = HeldIn(st, c)
  BY LeavesHeld DEF Inv, Careful
<1>2. Secure(x)
  BY <1>1 DEF Secure
<1>3. Secure(st')
  BY <1>2, DoSecure
<1>4. st'.text = x.text /\ cmd' = [opc |-> opc, buf |-> b, file |-> f, at |-> at, n |-> n]
  BY DoSets
<1>5. \A c \in Buf : Held(c)' = HeldIn(x, c)
  BY DoHeld
<1>6. \A c \in Buf : Held(c) = HeldIn(st, c)
  BY HeldNow
<1>7. f = UserFile => (\A c \in Buf \ {e} : Held(c)' = Held(c)) /\ Told(opc, b, at, n)
  BY <1>1, <1>4, <1>5, <1>6 DEF Told
<1>8. ASSUME f # UserFile PROVE B!Next
  <2>1. cmd'.file # UserFile /\ cmd'.buf = b
    BY <1>4, <1>8
  <2>2. st'.text[UserFile] = st.text[UserFile]
    BY <1>4, <1>8 DEF Leaves
  <2>3. \A c \in Buf \ {b} : Held(c)' \in {Held(c), The!Nothing}
    <3>1. ASSUME NEW c \in Buf \ {b} PROVE Held(c)' \in {Held(c), The!Nothing}
      <4>1. c \in Buf \ {e}
        OBVIOUS
      <4>2. QED BY <1>1, <1>5, <1>6, <4>1
    <3>2. QED BY <3>1
  <2>4. QED BY <2>1, <2>2, <2>3, StepOwn
<1>9. QED BY <1>3, <1>4, <1>5, <1>7, <1>8

(* Where a command starts: every stream in its file, every buffer sure. *)
AtStart == Careful /\ Inv /\ Secure(st)

(* What is known at the start of a command.                                *)
LEMMA StartIs ==
  ASSUME AtStart
  PROVE  /\ Careful /\ Inv /\ Secure(st) /\ Fit(st, Left)
         /\ \A f \in File : size(f) \in Nat /\ size(f) = Lsize(st, f)
         /\ Mine(st) \in Seq(Line) /\ Len(Mine(st)) = size(UserFile)
         /\ QNONE \notin Buf /\ UserFile \in File
<1>1. Fit(st, Left)
  BY DEF AtStart, Inv
<1>2. \A f \in File : size(f) \in Nat /\ size(f) = Lsize(st, f)
  BY <1>1, Sizes DEF size
<1>3. Mine(st) \in Seq(Line) /\ Len(Mine(st)) = Lsize(st, UserFile) /\ UserFile \in File
  BY <1>1, MineIs
<1>4. QED BY <1>1, <1>2, <1>3, QBufAssumption DEF AtStart

(* A command that leaves all buffers alone is a step of Edit, or EditOwn. *)
LEMMA EditStep ==
  ASSUME AtStart, NEW f \in File, NEW at, NEW n, NEW x, Fit(x, Left), Leaves(f = UserFile, QNONE, st, x),
         Do("edit", QNONE, f, at, n, x)
  PROVE  Secure(st') /\ B!Next
<1>0. Careful /\ Inv /\ Secure(st) /\ QNONE \notin Buf
  BY StartIs
<1>1. PICK u : u = (f = UserFile) OBVIOUS
<1>e. PICK e : e = QNONE OBVIOUS
<1>2. /\ u \in BOOLEAN /\ (u <=> f = UserFile) /\ Leaves(u, e, st, x) /\ e \notin Buf
  BY <1>0, <1>1, <1>e
<1>3. /\ Secure(st') /\ st'.text = x.text
      /\ f = UserFile => (\A c \in Buf \ {e} : Held(c)' = Held(c)) /\ Told("edit", QNONE, at, n)
      /\ f # UserFile => B!Next
  <2>1. e \notin Buf \/ Sure(x, e)
    BY <1>2
  <2>2. QNONE = e \/ e \notin Buf
    BY <1>2
  <2>3. Careful /\ Inv /\ Secure(st) /\ u \in BOOLEAN /\ (u <=> f = UserFile) /\ Leaves(u, e, st, x)
    BY <1>0, <1>2
  <2>4. QED BY <2>1, <2>2, <2>3, DoLeaves, ZenonT(30)
<1>4. ASSUME f = UserFile PROVE B!Next
  <2>1. (\A c \in Buf : Held(c)' = Held(c)) /\ Told("edit", QNONE, at, n)
    BY <1>0, <1>e, <1>3, <1>4
  <2>2. st'.text[UserFile] \in Seq(Line)
    <3>1. Mine(x) \in Seq(Line)
      BY MineIs
    <3>2. QED BY <1>3, <3>1 DEF Mine
  <2>3. QED BY <2>1, <2>2, StepEdit
<1>5. QED BY <1>3, <1>4

(* Typing a line is a step of Buffers (for the user's file, Edit; for #o   *)
(* and #p, here and below, EditOwn).                                       *)
LEMMA TypeStep ==
  ASSUME AtStart, NEW f \in File, NEW at \in Nat, NEW l \in Line, Type(f, at, l)
  PROVE  Secure(st') /\ B!Next
<1>1. PICK x : x = putline(st, f, at, l) OBVIOUS
<1>2. PICK u : u = (f = UserFile) OBVIOUS
<1>3. u \in BOOLEAN /\ (u <=> f = UserFile)
  BY <1>2
<1>4. at <= Lsize(st, f) /\ Do("edit", QNONE, f, at, 0, x) /\ Fit(st, Left)
  BY <1>1, StartIs DEF Type
<1>5. Fit(x, Left) /\ Leaves(u, QNONE, st, x)
  BY <1>1, <1>3, <1>4, putlineIs, putlineLeaves
<1>6. QED BY <1>2, <1>4, <1>5, EditStep

(* Opening lines is one, Edit.                                             *)
LEMMA OpenStep ==
  ASSUME AtStart, NEW f \in File, NEW at \in Nat, NEW n \in Nat, Open(f, at, n)
  PROVE  Secure(st') /\ B!Next
<1>1. PICK y, x : y = Seek(st, f, at) /\ x = Ins(y, curlas(f), The!Blanks(n)) OBVIOUS
<1>2. PICK u : u = (f = UserFile) OBVIOUS
<1>3. u \in BOOLEAN /\ (u <=> f = UserFile)
  BY <1>2
<1>4. at <= Lsize(st, f) /\ Do("edit", QNONE, f, at, n, x) /\ Fit(st, Left)
  BY <1>1, StartIs DEF Open
<1>5. Fit(y, Left) /\ Leaves(u, QNONE, st, y)
  BY <1>1, <1>4, SeekIs, SeekLeaves
<1>6. Fit(x, Left) /\ Leaves(u, QNONE, y, x)
  <2>1. curlas(f) \in Stream /\ Own(curlas(f)) = f /\ The!Blanks(n) \in Seq(Line)
    BY Streams, BlanksAre
  <2>2. QED BY <1>1, <1>3, <1>5, <2>1, InsIs, InsLeaves
<1>7. Leaves(u, QNONE, st, x)
  BY <1>5, <1>6, LeavesThen
<1>8. QED BY <1>2, <1>4, <1>6, <1>7, EditStep

(* So is drawing a box, or blanks.                                         *)
LEMMA BoxStep ==
  ASSUME AtStart, NEW f \in File, NEW at \in Nat, NEW n \in Nat, Box(f, at, n, empty)
  PROVE  Secure(st') /\ B!Next
<1> DEFINE y == extend(st, f, at)
           was == Area(y, f, at, n)
           new == [i \in 1 .. n |-> The!With(was[i], empty)]
           x == Rewrite(y, f, at, new)
<1>2. PICK u : u = (f = UserFile) OBVIOUS
<1>3. u \in BOOLEAN /\ (u <=> f = UserFile)
  BY <1>2
<1>4. Do("edit", QNONE, f, at, n, x) /\ Fit(st, Left)
  BY StartIs DEF Box
<1>5. Fit(y, Left) /\ Lsize(y, f) >= at /\ Leaves(u, QNONE, st, y)
  BY <1>3, <1>4, extendIs, extendLeaves
<1> HIDE DEF y
<1>6. at <= Lsize(y, f)
  BY <1>5, Sizes
<1>7. was \in Seq(Line) /\ Len(was) = n
  BY <1>5, AreaIs
<1> HIDE DEF was
<1>8. \A i \in 1 .. n : The!With(was[i], empty) \in Line
  <2>1. \A i \in 1 .. n : was[i] \in Line
    BY <1>7, ElementOfSeq
  <2>2. QED BY <2>1, LineParts, QBufAssumption
<1>9. new \in Seq(Line)
  BY <1>8
<1> HIDE DEF new
<1>10. Fit(x, Left) /\ Leaves(u, QNONE, y, x)
  BY <1>3, <1>5, <1>6, <1>9, RewriteIs, RewriteLeaves
<1>11. Leaves(u, QNONE, st, x)
  BY <1>5, <1>10, LeavesThen
<1> HIDE DEF x
<1>12. QED BY <1>2, <1>4, <1>10, <1>11, EditStep

(* So is joining lines when nothing is kept.                               *)
LEMMA JoinStep ==
  ASSUME AtStart, NEW f \in File, NEW at \in Nat, NEW n \in Nat, Join(f, at, n)
  PROVE  Secure(st') /\ B!Next
<1>1. PICK l : l = Joined(st, f, at, n) OBVIOUS
<1>x. PICK x : x = dojoin(st, f, at, n, l) OBVIOUS
<1>2. PICK u : u = (f = UserFile) OBVIOUS
<1>3. u \in BOOLEAN /\ (u <=> f = UserFile)
  BY <1>2
<1>4. at + n < size(f) /\ Do("edit", QNONE, f, at, n, x) /\ Fit(st, Left)
  BY <1>1, <1>x, StartIs DEF Join
<1>5. at < Lsize(st, f) /\ l \in Line
  BY <1>1, <1>4, StartIs, JoinedIs
<1>6. Fit(x, Left) /\ Leaves(u, QNONE, st, x)
  BY <1>x, <1>3, <1>4, <1>5, dojoinIs, dojoinLeaves
<1>7. QED BY <1>2, <1>4, <1>6, EditStep

(* So is inserting what a program wrote.                                   *)
LEMMA FeedStep ==
  ASSUME AtStart, NEW f \in File, NEW at \in Nat, NEW new \in Seq(Line), Feed(f, at, new)
  PROVE  Secure(st') /\ B!Next
<1>1. PICK v : v = extend(st, f, at) OBVIOUS
<1>y. PICK y, x : y = Seek(v, f, at) /\ x = Ins(y, curlas(f), new) OBVIOUS
<1>2. PICK u : u = (f = UserFile) OBVIOUS
<1>3. u \in BOOLEAN /\ (u <=> f = UserFile)
  BY <1>2
<1>4. Do("edit", QNONE, f, at, 0, x) /\ Fit(st, Left)
  BY <1>1, <1>y, StartIs DEF Feed
<1>v. Fit(v, Left) /\ Lsize(v, f) >= at /\ Leaves(u, QNONE, st, v)
  BY <1>1, <1>3, <1>4, extendIs, extendLeaves
<1>w. at <= Lsize(v, f)
  BY <1>v, Sizes
<1>5. Fit(y, Left) /\ Leaves(u, QNONE, v, y)
  BY <1>y, <1>v, <1>w, SeekIs, SeekLeaves
<1>6. Fit(x, Left) /\ Leaves(u, QNONE, y, x)
  <2>1. curlas(f) \in Stream /\ Own(curlas(f)) = f
    BY Streams
  <2>2. QED BY <1>y, <1>3, <1>5, <2>1, InsIs, InsLeaves
<1>7. Leaves(u, QNONE, st, x)
  BY <1>v, <1>5, <1>6, LeavesThen
<1>8. QED BY <1>2, <1>4, <1>6, <1>7, EditStep

(* A command about a buffer b: it alone may hold something else then. *)
LEMMA OwnStep ==
  ASSUME AtStart, NEW f \in File, NEW at, NEW n, NEW b \in Buf, NEW x, Fit(x, Left),
         Leaves(f = UserFile, b, st, x), Sure(x, b), NEW opc, Do(opc, b, f, at, n, x)
  PROVE  /\ Secure(st') /\ st'.text = x.text /\ Held(b)' = HeldIn(x, b)
         /\ f = UserFile => Others(b) /\ Told(opc, b, at, n)
         /\ f # UserFile => B!Next
<1>0. Careful /\ Inv /\ Secure(st)
  BY StartIs
<1>1. PICK u : u = (f = UserFile) OBVIOUS
<1>2. u \in BOOLEAN /\ (u <=> f = UserFile) /\ Leaves(u, b, st, x)
  BY <1>1
<1>3. /\ Secure(st') /\ st'.text = x.text
      /\ \A c \in Buf : Held(c)' = HeldIn(x, c)
      /\ f = UserFile => (\A c \in Buf \ {b} : Held(c)' = Held(c)) /\ Told(opc, b, at, n)
      /\ f # UserFile => B!Next
  BY <1>0, <1>2, DoLeaves
<1>4. QED BY <1>3 DEF Others

(* A command that changes no buffer, and is told of one. *)
LEMMA QuietStep ==
  ASSUME AtStart, NEW f \in File, NEW at, NEW n, NEW b \in Buf, NEW x, Fit(x, Left),
         Leaves(f = UserFile, QNONE, st, x), NEW opc, Do(opc, b, f, at, n, x)
  PROVE  /\ Secure(st') /\ st'.text = x.text
         /\ f = UserFile => (\A c \in Buf : Held(c)' = Held(c)) /\ Told(opc, b, at, n)
         /\ f # UserFile => B!Next
<1>0. Careful /\ Inv /\ Secure(st) /\ QNONE \notin Buf
  BY StartIs
<1>1. PICK u : u = (f = UserFile) OBVIOUS
<1>e. PICK e : e = QNONE OBVIOUS
<1>2. /\ u \in BOOLEAN /\ (u <=> f = UserFile) /\ Leaves(u, e, st, x) /\ e \notin Buf
  BY <1>0, <1>1, <1>e
<1>3. /\ Secure(st') /\ st'.text = x.text
      /\ \A c \in Buf : Held(c)' = HeldIn(x, c)
      /\ f = UserFile => (\A c \in Buf \ {e} : Held(c)' = Held(c)) /\ Told(opc, b, at, n)
      /\ f # UserFile => B!Next
  <2>1. e \notin Buf \/ Sure(x, e)
    BY <1>2
  <2>2. b = e \/ e \notin Buf
    BY <1>2
  <2>3. Careful /\ Inv /\ Secure(st) /\ u \in BOOLEAN /\ (u <=> f = UserFile) /\ Leaves(u, e, st, x)
    BY <1>0, <1>2
  <2>4. QED BY <2>1, <2>2, <2>3, DoLeaves, ZenonT(30)
<1>4. QED BY <1>0, <1>e, <1>3

(* The lines there are of those a command is about.                        *)
LEMMA CapMine ==
  ASSUME AtStart, NEW at \in Nat, NEW n \in Nat, at < size(UserFile),
         NEW c, c = Cap(UserFile, at, n), NEW t, t = Mine(st)
  PROVE  /\ c \in Nat /\ at + c <= Len(t) /\ Len(t) \in Nat /\ at < Len(t) /\ t \in Seq(Line)
         /\ The!Lines(t, at, c) = The!Lines(t, at, n)
         /\ Len(The!Lines(t, at, n)) = c
         /\ The!Delete(t, at, c) = The!Delete(t, at, n)
         /\ The!Delete(t, at, n) \in Seq(Line) /\ Len(The!Delete(t, at, n)) = Len(t) - c
<1>1. /\ Fit(st, Left) /\ size(UserFile) \in Nat /\ size(UserFile) = Lsize(st, UserFile)
      /\ t \in Seq(Line) /\ Len(t) = size(UserFile) /\ UserFile \in File
  BY StartIs
<1>2. /\ c \in Nat /\ at + c <= Len(t) /\ The!Lines(t, at, c) = The!Lines(t, at, n)
  BY <1>1, CapIs DEF Mine
<1>3. Len(The!Lines(t, at, c)) = c
  BY <1>1, <1>2, LinesLen
<1>4. The!Delete(t, at, c) = The!Delete(t, at, n)
  <2>1. PICK k : k = IF at + n > Len(t) THEN Len(t) - at ELSE n OBVIOUS
  <2>2. c = IF n < Len(t) - at THEN n ELSE Len(t) - at
    BY <1>1 DEF Cap, The!Min2
  <2>3. c = k
    BY <1>1, <2>1, <2>2
  <2>4. at <= Len(t)
    BY <1>1
  <2>5. The!Delete(t, at, n) = The!Delete(t, at, k)
    <3>1. t \in Seq(Line) /\ at <= Len(t) /\ k = (IF at + n > Len(t) THEN Len(t) - at ELSE n)
      BY <1>1, <2>1, <2>4
    <3>2. k \in Nat /\ at + k <= Len(t) /\ The!Delete(t, at, n) = The!Delete(t, at, k)
      BY <3>1, DeletePast
    <3>3. QED BY <3>2
  <2>6. QED BY <2>3, <2>5
<1>5. The!Delete(t, at, c) \in Seq(Line) /\ Len(The!Delete(t, at, c)) = Len(t) - c
  BY <1>1, <1>2, DeleteIs
<1>6. QED BY <1>1, <1>2, <1>3, <1>4, <1>5

(* What a buffer holds that has these lines, or this rectangle. *)
LEMMA HoldsAsked ==
  ASSUME NEW x, NEW b, NEW t, NEW at, NEW n
  PROVE  /\ Res(x, buflas(b)) = The!Lines(t, at, n) /\ x.ncols[b] = 0 =>
              HeldIn(x, b) = The!LinesAsked(t, at, n)
         /\ Res(x, buflas(b)) = The!Pieces(The!Area(t, at, n)) /\ x.ncols[b] = 1 =>
              HeldIn(x, b) = The!RectAsked(t, at, n)
  BY HoldsLines, HoldsRect, ZenonT(45) DEF The!LinesAsked, The!RectAsked

(* A pick, of lines or of a rectangle, is Buffers' Pick.                   *)
LEMMA PickStep ==
  ASSUME AtStart, NEW f \in File, NEW at \in Nat, NEW n \in Nat, Pick(f, at, n)
  PROVE  Secure(st') /\ B!Next
<1>1. PICK c : c = Cap(f, at, n) OBVIOUS
<1>x. PICK x, y : x = PickLines(st, QPICK, f, at, c) /\ y = PickRect(st, QPICK, f, at, n) OBVIOUS
<1>2. PICK u : u = (f = UserFile) OBVIOUS
<1>3. u \in BOOLEAN /\ (u <=> f = UserFile)
  BY <1>2
<1>4. /\ at < size(f) /\ Fit(st, Left) /\ QPICK \in Buf
      /\ Do("pick", QPICK, f, at, n, x) \/ Do("pick", QPICK, f, at, n, y)
  BY <1>1, <1>x, StartIs, Names DEF Pick
<1>5. at <= Lsize(st, f) /\ c \in Nat /\ at + c <= Lsize(st, f)
  BY <1>1, <1>4, CapIs
<1>p. f = PICKFILE => qtmpfn(QPICK) = PICKFILE
  BY Names
<1>t. PICK t : t = st.text[f] OBVIOUS
<1>6. CASE Do("pick", QPICK, f, at, n, x)
  <2>1. Fit(x, Left) /\ Leaves(u, QPICK, st, x)
    BY <1>x, <1>3, <1>4, <1>5, PickLinesIs, PickLinesLeaves
  <2>2. Whole(x, QPICK)
    BY <1>x, <1>4, <1>5, <1>p, PickSure
  <2>3. Res(x, buflas(QPICK)) = The!Lines(t, at, c) /\ x.ncols[QPICK] = 0
    BY <1>x, <1>t, <1>4, <1>5, <1>p, PickTakes
  <2>4. /\ Secure(st') /\ st'.text = x.text /\ Held(QPICK)' = HeldIn(x, QPICK)
        /\ f = UserFile => Others(QPICK) /\ Told("pick", QPICK, at, n)
        /\ f # UserFile => B!Next
    BY <1>2, <1>4, <1>6, <2>1, <2>2, OwnStep DEF Sure
  <2>5. ASSUME f = UserFile PROVE B!Next
    <3>1. The!Lines(t, at, c) = The!Lines(t, at, n)
      BY <1>1, <1>4, <1>t, <2>5, CapMine DEF Mine
    <3>2. HeldIn(x, QPICK) = The!LinesAsked(t, at, n)
      BY <2>3, <3>1, HoldsAsked
    <3>3. Mine(PickLines(st, QPICK, UserFile, at, c)) = Mine(st)
      BY <1>4, <1>5, <2>5, PickText
    <3>4. st'.text[UserFile] = st.text[UserFile]
      BY <1>x, <2>4, <2>5, <3>3 DEF Mine
    <3>5. QED BY <1>4, <1>t, <2>4, <2>5, <3>2, <3>4, StepPick
  <2>6. QED BY <2>4, <2>5
<1>7. CASE Do("pick", QPICK, f, at, n, y)
  <2>1. Fit(y, Left) /\ Leaves(u, QPICK, st, y) /\ Sure(y, QPICK) /\ y.text[UserFile] = st.text[UserFile]
    <3>1. PICK ls : ls = Area(st, f, at, n) OBVIOUS
    <3>2. ls \in Seq(Line)
      BY <1>4, <3>1, AreaIs
    <3>3. y = WriteOut(st, QPICK, ls)
      BY <1>x, <3>1 DEF PickRect
    <3>4. QED BY <1>3, <1>4, <3>2, <3>3, WriteOutIs, WriteOutLeaves
  <2>3. Res(y, buflas(QPICK)) = The!Pieces(The!Area(t, at, n)) /\ y.ncols[QPICK] = 1
    BY <1>x, <1>t, <1>4, PickRectTakes
  <2>4. /\ Secure(st') /\ st'.text = y.text /\ Held(QPICK)' = HeldIn(y, QPICK)
        /\ f = UserFile => Others(QPICK) /\ Told("pick", QPICK, at, n)
        /\ f # UserFile => B!Next
    BY <1>2, <1>4, <1>7, <2>1, OwnStep
  <2>5. ASSUME f = UserFile PROVE B!Next
    <3>2. HeldIn(y, QPICK) = The!RectAsked(t, at, n)
      BY <2>3, HoldsAsked
    <3>4. st'.text[UserFile] = st.text[UserFile] /\ at < Len(st.text[UserFile])
      BY <1>4, <2>1, <2>4, <2>5 DEF size, Lsize
    <3>5. QED BY <1>4, <1>t, <2>4, <2>5, <3>2, <3>4, StepPick
  <2>6. QED BY <2>4, <2>5
<1>8. QED BY <1>4, <1>6, <1>7

(* A close is its Close.                                                   *)
LEMMA CloseStep ==
  ASSUME AtStart, NEW f \in File, NEW at \in Nat, NEW n \in Nat, Close(f, at, n)
  PROVE  Secure(st') /\ B!Next
<1>b. PICK b : b = QCLOSE OBVIOUS
<1>1. PICK c : c = Cap(f, at, n) OBVIOUS
<1>x. PICK x, y : x = CloseLines(st, b, f, at, c) /\ y = ClearRect(st, b, f, at, n) OBVIOUS
<1>2. PICK u : u = (f = UserFile) OBVIOUS
<1>3. u \in BOOLEAN /\ (u <=> f = UserFile)
  BY <1>2
<1>4. /\ at < size(f) /\ Fit(st, Left) /\ b \in Buf /\ qtmpfn(b) = OLDLFILE /\ Secure(st)
      /\ Do("close", b, f, at, n, x) \/ Do("close", b, f, at, n, y)
  BY <1>b, <1>1, <1>x, StartIs, Names DEF Close
<1>5. at <= Lsize(st, f) /\ c \in Nat /\ at + c <= Lsize(st, f)
  BY <1>1, <1>4, CapIs
<1>t. PICK t : t = st.text[f] OBVIOUS
<1>6. CASE Do("close", b, f, at, n, x)
  <2>1. Fit(x, Left) /\ Leaves(u, b, st, x) /\ (f = OLDLFILE => Firm(st, x))
    BY <1>x, <1>3, <1>4, <1>5, CloseLinesIs, CloseLinesLeaves
  <2>2. Sure(x, b)
    <3>1. CASE f = OLDLFILE
      BY <1>4, <2>1, <3>1 DEF Firm, Secure
    <3>2. CASE f # OLDLFILE
      <4>1. Whole(x, b)
        BY <1>x, <1>4, <1>5, <3>2, CloseSure
      <4>2. QED BY <4>1 DEF Sure
    <3>3. QED BY <3>1, <3>2
  <2>4. /\ Secure(st') /\ st'.text = x.text /\ Held(b)' = HeldIn(x, b)
        /\ f = UserFile => Others(b) /\ Told("close", b, at, n)
        /\ f # UserFile => B!Next
    BY <1>2, <1>4, <1>6, <2>1, <2>2, OwnStep
  <2>5. ASSUME f = UserFile PROVE B!Next
    <3>0. f # OLDLFILE /\ t = Mine(st)
      BY <1>t, <2>5, NameAssumption DEF Mine
    <3>1. /\ c \in Nat /\ at + c <= Len(t) /\ Len(t) \in Nat /\ at < Len(t) /\ t \in Seq(Line)
          /\ The!Lines(t, at, c) = The!Lines(t, at, n)
          /\ The!Delete(t, at, c) = The!Delete(t, at, n)
          /\ The!Delete(t, at, n) \in Seq(Line) /\ Len(The!Delete(t, at, n)) = Len(t) - c
      BY <1>1, <1>4, <2>5, <3>0, CapMine
    <3>2. Res(x, buflas(b)) = The!Lines(t, at, c) /\ x.ncols[b] = 0
      <4>1. LET r == CloseLines(st, b, f, at, c)
            IN  Res(r, buflas(b)) = The!Lines(st.text[f], at, c) /\ r.ncols[b] = 0
        BY <1>4, <1>5, <3>0, CloseTakes
      <4>2. QED BY <1>x, <1>t, <4>1
    <3>3. HeldIn(x, b) = The!LinesAsked(t, at, n)
      BY <3>1, <3>2, HoldsAsked
    <3>4. st'.text[UserFile] = The!Delete(t, at, n)
      <4>1. Mine(CloseLines(st, b, UserFile, at, c)) = The!Delete(Mine(st), at, c)
        BY <1>4, <1>5, <2>5, CloseText
      <4>2. QED BY <1>x, <2>4, <2>5, <3>0, <3>1, <4>1 DEF Mine
    <3>5. The!Insert(The!Delete(t, at, n), at, << >>) = The!Delete(t, at, n)
      <4>1. PICK d : d = The!Delete(t, at, n) OBVIOUS
      <4>2. d \in Seq(Line) /\ at <= Len(d)
        BY <3>1, <4>1
      <4>3. The!Insert(d, at, << >>) = d
        BY <4>2, InsertNone
      <4>4. QED BY <4>1, <4>3
    <3>6. QED BY <1>4, <1>t, <2>4, <2>5, <3>1, <3>3, <3>4, <3>5, StepClose
  <2>6. QED BY <2>4, <2>5
<1>7. CASE Do("close", b, f, at, n, y)
  <2>1. Fit(y, Left) /\ Leaves(u, b, st, y) /\ Sure(y, b)
    BY <1>x, <1>3, <1>4, <1>5, ClearRectIs, ClearRectLeaves
  <2>4. /\ Secure(st') /\ st'.text = y.text /\ Held(b)' = HeldIn(y, b)
        /\ f = UserFile => Others(b) /\ Told("close", b, at, n)
        /\ f # UserFile => B!Next
    BY <1>2, <1>4, <1>7, <2>1, OwnStep
  <2>5. ASSUME f = UserFile PROVE B!Next
    <3>0. f # OLDLFILE /\ t = Mine(st) /\ at < Len(t)
      BY <1>4, <1>t, <2>5, NameAssumption DEF Mine, size, Lsize
    <3>1. Res(y, buflas(b)) = The!Pieces(The!Area(t, at, n)) /\ y.ncols[b] = 1
      <4>1. LET r  == ClearRect(st, b, f, at, n)
                ps == The!Pieces(The!Area(st.text[f], at, n))
            IN  /\ Res(r, buflas(b)) \in {ps, << >>} /\ r.ncols[b] = 1
                /\ f # OLDLFILE => Res(r, buflas(b)) = ps
        BY <1>4, <1>5, ClearRectTakes
      <4>2. QED BY <1>x, <1>t, <3>0, <4>1
    <3>2. HeldIn(y, b) = The!RectAsked(t, at, n)
      BY <3>1, HoldsAsked
    <3>3. st'.text[UserFile] = The!Replaced(t, at, The!Without(The!Area(t, at, n)))
      <4>1. Mine(ClearRect(st, b, UserFile, at, n)) =
              The!Replaced(Mine(st), at, The!Without(The!Area(Mine(st), at, n)))
        BY <1>4, <1>5, <2>5, ClearRectText
      <4>2. QED BY <1>x, <2>4, <2>5, <3>0, <4>1 DEF Mine
    <3>4. PICK o : o = "close" OBVIOUS
    <3>5. o \in {"close", "erase"} /\ Told(o, b, at, n)
      BY <2>4, <2>5, <3>4
    <3>6. QED BY <1>4, <1>t, <2>4, <2>5, <3>0, <3>2, <3>3, <3>5, StepRect
  <2>6. QED BY <2>4, <2>5
<1>8. QED BY <1>4, <1>6, <1>7

(* An erase is its Erase.                                                  *)
LEMMA EraseStep ==
  ASSUME AtStart, NEW f \in File, NEW at \in Nat, NEW n \in Nat, Erase(f, at, n)
  PROVE  Secure(st') /\ B!Next
<1>b. PICK b : b = QERASE OBVIOUS
<1>1. PICK c : c = Cap(f, at, n) OBVIOUS
<1>x. PICK x, y : x = EraseLines(st, b, f, at, c) /\ y = ClearRect(st, b, f, at, n) OBVIOUS
<1>2. PICK u : u = (f = UserFile) OBVIOUS
<1>3. u \in BOOLEAN /\ (u <=> f = UserFile)
  BY <1>2
<1>4. /\ at < size(f) /\ Fit(st, Left) /\ b \in Buf /\ qtmpfn(b) = OLDLFILE /\ Secure(st)
      /\ Do("erase", b, f, at, n, x) \/ Do("erase", b, f, at, n, y)
  BY <1>b, <1>1, <1>x, StartIs, Names DEF Erase
<1>5. at <= Lsize(st, f) /\ c \in Nat /\ at + c <= Lsize(st, f)
  BY <1>1, <1>4, CapIs
<1>t. PICK t : t = st.text[f] OBVIOUS
<1>6. CASE Do("erase", b, f, at, n, x)
  <2>1. Fit(x, Left) /\ Leaves(u, b, st, x) /\ (f = OLDLFILE => Firm(st, x))
    BY <1>x, <1>3, <1>4, <1>5, EraseLinesIs, EraseLinesLeaves
  <2>2. Sure(x, b)
    <3>1. CASE f = OLDLFILE
      BY <1>4, <2>1, <3>1 DEF Firm, Secure
    <3>2. CASE f # OLDLFILE
      <4>1. Whole(x, b)
        BY <1>x, <1>4, <1>5, <3>2, EraseSure
      <4>2. QED BY <4>1 DEF Sure
    <3>3. QED BY <3>1, <3>2
  <2>4. /\ Secure(st') /\ st'.text = x.text /\ Held(b)' = HeldIn(x, b)
        /\ f = UserFile => Others(b) /\ Told("erase", b, at, n)
        /\ f # UserFile => B!Next
    BY <1>2, <1>4, <1>6, <2>1, <2>2, OwnStep
  <2>5. ASSUME f = UserFile PROVE B!Next
    <3>0. f # OLDLFILE /\ t = Mine(st)
      BY <1>t, <2>5, NameAssumption DEF Mine
    <3>1. /\ c \in Nat /\ at + c <= Len(t) /\ Len(t) \in Nat /\ at < Len(t) /\ t \in Seq(Line)
          /\ The!Lines(t, at, c) = The!Lines(t, at, n)
          /\ Len(The!Lines(t, at, n)) = c
          /\ The!Delete(t, at, c) = The!Delete(t, at, n)
      BY <1>1, <1>4, <2>5, <3>0, CapMine
    <3>2. Res(x, buflas(b)) = The!Lines(t, at, c) /\ x.ncols[b] = 0
      <4>1. LET r == EraseLines(st, b, f, at, c)
            IN  Res(r, buflas(b)) = The!Lines(st.text[f], at, c) /\ r.ncols[b] = 0
        BY <1>4, <1>5, <3>0, EraseTakes
      <4>2. QED BY <1>x, <1>t, <4>1
    <3>3. HeldIn(x, b) = The!LinesAsked(t, at, n)
      BY <3>1, <3>2, HoldsAsked
    <3>4. st'.text[UserFile] = The!Insert(The!Delete(t, at, n), at, The!Blanks(Len(The!Lines(t, at, n))))
      <4>1. Mine(EraseLines(st, b, UserFile, at, c)) =
              The!Insert(The!Delete(Mine(st), at, c), at, The!Blanks(c))
        BY <1>4, <1>5, <2>5, EraseText
      <4>2. QED BY <1>x, <2>4, <2>5, <3>0, <3>1, <4>1 DEF Mine
    <3>6. QED BY <1>4, <1>t, <2>4, <2>5, <3>1, <3>3, <3>4, StepErase
  <2>6. QED BY <2>4, <2>5
<1>7. CASE Do("erase", b, f, at, n, y)
  <2>1. Fit(y, Left) /\ Leaves(u, b, st, y) /\ Sure(y, b)
    BY <1>x, <1>3, <1>4, <1>5, ClearRectIs, ClearRectLeaves
  <2>4. /\ Secure(st') /\ st'.text = y.text /\ Held(b)' = HeldIn(y, b)
        /\ f = UserFile => Others(b) /\ Told("erase", b, at, n)
        /\ f # UserFile => B!Next
    BY <1>2, <1>4, <1>7, <2>1, OwnStep
  <2>5. ASSUME f = UserFile PROVE B!Next
    <3>0. f # OLDLFILE /\ t = Mine(st) /\ at < Len(t)
      BY <1>4, <1>t, <2>5, NameAssumption DEF Mine, size, Lsize
    <3>1. Res(y, buflas(b)) = The!Pieces(The!Area(t, at, n)) /\ y.ncols[b] = 1
      <4>1. LET r  == ClearRect(st, b, f, at, n)
                ps == The!Pieces(The!Area(st.text[f], at, n))
            IN  /\ Res(r, buflas(b)) \in {ps, << >>} /\ r.ncols[b] = 1
                /\ f # OLDLFILE => Res(r, buflas(b)) = ps
        BY <1>4, <1>5, ClearRectTakes
      <4>2. QED BY <1>x, <1>t, <3>0, <4>1
    <3>2. HeldIn(y, b) = The!RectAsked(t, at, n)
      BY <3>1, HoldsAsked
    <3>3. st'.text[UserFile] = The!Replaced(t, at, The!Without(The!Area(t, at, n)))
      <4>1. Mine(ClearRect(st, b, UserFile, at, n)) =
              The!Replaced(Mine(st), at, The!Without(The!Area(Mine(st), at, n)))
        BY <1>4, <1>5, <2>5, ClearRectText
      <4>2. QED BY <1>x, <2>4, <2>5, <3>0, <4>1 DEF Mine
    <3>4. PICK o : o = "erase" OBVIOUS
    <3>5. o \in {"close", "erase"} /\ Told(o, b, at, n)
      BY <2>4, <2>5, <3>4
    <3>6. QED BY <1>4, <1>t, <2>4, <2>5, <3>0, <3>2, <3>3, <3>5, StepRect
  <2>6. QED BY <2>4, <2>5
<1>8. QED BY <1>4, <1>6, <1>7

(* Behind the end of the file they are, too.                               *)
LEMMA NoneStep ==
  ASSUME AtStart, NEW f \in File, NEW at \in Nat, NEW b \in {QPICK, QCLOSE, QERASE},
         at >= size(f), TakeNone(b, f, at)
  PROVE  Secure(st') /\ B!Next
<1>1. PICK x, o : x = Rlines(st, b, 0) /\ o = Opc(b) OBVIOUS
<1>2. PICK u : u = (f = UserFile) OBVIOUS
<1>3. PICK z : z = 0 OBVIOUS
<1>4. /\ Fit(st, Left) /\ b \in Buf /\ Do(o, b, f, at, z, x) /\ z \in Nat
      /\ (b = QPICK /\ o = "pick") \/ o \in {"close", "erase"}
  BY <1>1, <1>3, StartIs, Names DEF TakeNone, Opc
<1>5. Fit(x, Left) /\ Leaves(u, b, st, x)
  <2>1. Fit(Rlines(st, b, z), Left) /\ Leaves(u, b, st, Rlines(st, b, z))
    BY <1>4, RlinesIs, RlinesLeaves
  <2>2. QED BY <1>1, <1>3, <2>1
<1>6. Whole(x, b) /\ x.text = st.text /\ Res(x, buflas(b)) = << >>
  BY <1>1, <1>4, NoneSure
<1>7. /\ Secure(st') /\ st'.text = x.text /\ Held(b)' = HeldIn(x, b)
      /\ f = UserFile => Others(b) /\ Told(o, b, at, z)
      /\ f # UserFile => B!Next
  BY <1>2, <1>4, <1>5, <1>6, OwnStep DEF Sure
<1>8. ASSUME f = UserFile PROVE B!Next
  <2>1. PICK t : t = Mine(st) OBVIOUS
  <2>2. t \in Seq(Line) /\ Len(t) \in Nat /\ at >= Len(t) /\ t = st.text[UserFile]
    BY <1>8, <2>1, StartIs DEF Mine
  <2>3. The!Lines(t, at, z) = << >>
    <3>1. The!Min2(at + z, Len(t)) = Len(t)
      BY <1>3, <1>4, <2>2 DEF The!Min2
    <3>2. PICK i, j : i = at + 1 /\ j = Len(t) OBVIOUS
    <3>3. i \in Nat /\ j \in Nat /\ i > j
      BY <2>2, <3>2
    <3>4. SubSeq(t, i, j) = << >>
      BY <2>2, <3>3
    <3>5. QED BY <3>1, <3>2, <3>4 DEF The!Lines
  <2>4. Held(b)' = The!LinesAsked(t, at, z)
    BY <1>6, <1>7, <2>3 DEF HeldIn, The!Holds, The!LinesAsked
  <2>5. st'.text[UserFile] = st.text[UserFile] /\ Others(b) /\ Told(o, b, at, z)
    BY <1>6, <1>7, <1>8
  <2>6. CASE b = QPICK /\ o = "pick"
    BY <1>4, <2>2, <2>4, <2>5, <2>6, StepPick
  <2>7. CASE o \in {"close", "erase"}
    BY <1>4, <2>2, <2>4, <2>5, <2>7, StepNothing
  <2>8. QED BY <1>4, <2>6, <2>7
<1>9. QED BY <1>7, <1>8

(* A text that is long enough is made no longer.                           *)
LEMMA ExtendedNone ==
  ASSUME NEW t \in Seq(Line)
  PROVE  The!Extended(t, Len(t)) = t
<1>1. Len(t) <= Len(t)
  BY LenProperties
<1>2. QED BY <1>1 DEF The!Extended

(* A pick, close or erase that fails is its Fail.                          *)
LEMMA TakeFailStep ==
  ASSUME AtStart, NEW f \in File, NEW at \in Nat, NEW n \in Nat, NEW b \in {QPICK, QCLOSE, QERASE},
         TakeFails(b, f, at, n)
  PROVE  Secure(st') /\ B!Next
<1>x. PICK x, y : x = LinesFail(st, b, f, at) /\ y = PickRect(st, b, f, at, n) OBVIOUS
<1>2. PICK u : u = (f = UserFile) OBVIOUS
<1>3. u \in BOOLEAN /\ (u <=> f = UserFile)
  BY <1>2
<1>4. /\ at < size(f) /\ Fit(st, Left) /\ b \in Buf /\ Sure(st, b)
      /\ Do("fail", b, f, at, n, x) \/ Do("fail", b, f, at, n, y)
  BY <1>x, StartIs, Names DEF TakeFails, AtStart, Careful, Secure
<1>5. at <= Lsize(st, f)
  BY <1>4, StartIs
<1>6. CASE Do("fail", b, f, at, n, x)
  <2>1. Fit(x, Left)
    BY <1>x, <1>4, <1>5, LinesFailIs
  <2>2. /\ Leaves(u, b, st, x) /\ x.text = st.text /\ Sure(x, b)
        /\ f = UserFile => Res(x, buflas(b)) = << >>
    BY <1>x, <1>4, <1>5, LinesFailLeaves
  <2>3. /\ Secure(st') /\ st'.text = x.text /\ Held(b)' = HeldIn(x, b)
        /\ f = UserFile => Others(b) /\ Told("fail", b, at, n)
        /\ f # UserFile => B!Next
    BY <1>2, <1>4, <1>6, <2>1, <2>2, OwnStep
  <2>4. ASSUME f = UserFile PROVE B!Next
    <3>1. Held(b)' = The!Nothing
      BY <2>2, <2>3, <2>4 DEF HeldIn, The!Holds
    <3>2. st'.text[UserFile] = st.text[UserFile] /\ st.text[UserFile] \in Seq(Line)
      BY <2>2, <2>3, StartIs DEF Mine
    <3>3. st'.text[UserFile] = The!Extended(st.text[UserFile], Len(st'.text[UserFile]))
      BY <3>2, ExtendedNone
    <3>4. QED BY <1>4, <2>3, <2>4, <3>1, <3>3, StepFail
  <2>5. QED BY <2>3, <2>4
<1>7. CASE Do("fail", b, f, at, n, y)
  <2>1. Fit(y, Left) /\ Leaves(u, b, st, y) /\ Sure(y, b) /\ y.text[UserFile] = st.text[UserFile]
    <3>1. PICK ls : ls = Area(st, f, at, n) OBVIOUS
    <3>2. ls \in Seq(Line)
      BY <1>4, <3>1, AreaIs
    <3>3. y = WriteOut(st, b, ls)
      BY <1>x, <3>1 DEF PickRect
    <3>4. QED BY <1>3, <1>4, <3>2, <3>3, WriteOutIs, WriteOutLeaves
  <2>2. Res(y, buflas(b)) = The!Pieces(The!Area(st.text[f], at, n)) /\ y.ncols[b] = 1
    BY <1>x, <1>4, PickRectTakes
  <2>3. /\ Secure(st') /\ st'.text = y.text /\ Held(b)' = HeldIn(y, b)
        /\ f = UserFile => Others(b) /\ Told("fail", b, at, n)
        /\ f # UserFile => B!Next
    BY <1>2, <1>4, <1>7, <2>1, OwnStep
  <2>4. ASSUME f = UserFile PROVE B!Next
    <3>1. Held(b)' = The!RectAsked(st.text[UserFile], at, n)
      BY <2>2, <2>3, <2>4, HoldsAsked
    <3>2. st'.text[UserFile] = st.text[UserFile] /\ st.text[UserFile] \in Seq(Line)
      BY <2>1, <2>3, StartIs DEF Mine
    <3>3. st'.text[UserFile] = The!Extended(st.text[UserFile], Len(st'.text[UserFile]))
      BY <3>2, ExtendedNone
    <3>4. QED BY <1>4, <2>3, <2>4, <3>1, <3>3, StepFail
  <2>5. QED BY <2>3, <2>4
<1>8. QED BY <1>4, <1>6, <1>7

(* Replacing what a program was given is its Run.                          *)
LEMMA RunStep ==
  ASSUME AtStart, NEW f \in File, NEW at \in Nat, NEW n \in Nat, NEW b \in {QADJUST, QRUN},
         NEW new \in Seq(Line), Run(b, f, at, n, new)
  PROVE  Secure(st') /\ B!Next
<1>1. PICK c : c = Cap(f, at, n) OBVIOUS
<1>x. PICK x : x = receive(st, b, f, at, c, new) OBVIOUS
<1>2. PICK u : u = (f = UserFile) OBVIOUS
<1>3. u \in BOOLEAN /\ (u <=> f = UserFile)
  BY <1>2
<1>4. /\ at < size(f) /\ Fit(st, Left) /\ b \in Buf /\ qtmpfn(b) = OLDLFILE
      /\ Do("run", b, f, at, n, x)
  BY <1>1, <1>x, StartIs, Names DEF Run
<1>5. at <= Lsize(st, f) /\ c \in Nat /\ at + c <= Lsize(st, f)
  BY <1>1, <1>4, CapIs
<1>6. Fit(x, Left) /\ Leaves(u, b, st, x)
  BY <1>x, <1>3, <1>4, <1>5, receiveIs, receiveLeaves
<1>7. Whole(x, b)
  BY <1>x, <1>4, <1>5, ReceiveSure
<1>8. /\ Secure(st') /\ st'.text = x.text /\ Held(b)' = HeldIn(x, b)
      /\ f = UserFile => Others(b) /\ Told("run", b, at, n)
      /\ f # UserFile => B!Next
  BY <1>2, <1>4, <1>6, <1>7, OwnStep DEF Sure
<1>9. ASSUME f = UserFile PROVE B!Next
  <2>t. PICK t : t = Mine(st) OBVIOUS
  <2>0. t = st.text[f] /\ t = st.text[UserFile]
    BY <1>9, <2>t DEF Mine
  <2>1. /\ c \in Nat /\ at + c <= Len(t) /\ Len(t) \in Nat /\ at < Len(t) /\ t \in Seq(Line)
        /\ The!Lines(t, at, c) = The!Lines(t, at, n)
        /\ The!Delete(t, at, c) = The!Delete(t, at, n)
        /\ The!Delete(t, at, n) \in Seq(Line) /\ Len(The!Delete(t, at, n)) = Len(t) - c
    BY <1>1, <1>4, <1>9, <2>t, CapMine
  <2>2. Res(x, buflas(b)) = The!Lines(t, at, c) /\ x.ncols[b] = 0
    <3>1. LET r == receive(st, b, f, at, c, new)
          IN  Res(r, buflas(b)) = The!Lines(st.text[f], at, c) /\ r.ncols[b] = 0
      BY <1>4, <1>5, ReceiveTakes
    <3>2. QED BY <1>x, <2>0, <3>1
  <2>3. HeldIn(x, b) = The!LinesAsked(t, at, n)
    BY <2>1, <2>2, HoldsAsked
  <2>4. PICK d, k, v : d = The!Delete(t, at, n) /\ k = Len(new) /\ v = st'.text[UserFile] OBVIOUS
  <2>5. v = The!Insert(d, at, new)
    <3>1. Mine(receive(st, b, UserFile, at, c, new)) = The!Insert(The!Delete(Mine(st), at, c), at, new)
      BY <1>4, <1>5, <1>9, receiveText
    <3>2. QED BY <1>x, <1>8, <1>9, <2>t, <2>1, <2>4, <3>1 DEF Mine
  <2>6. d \in Seq(Line) /\ at <= Len(d) /\ k \in Nat /\ Len(d) \in Nat
    BY <2>1, <2>4, LenProperties
  <2>7. /\ v \in Seq(Line) /\ Len(v) = Len(d) + k
        /\ \A i \in 1 .. at : v[i] = d[i]
        /\ \A i \in at + 1 .. Len(d) : v[i + k] = d[i]
    <3>1. LET w == The!Insert(d, at, new)
          IN  /\ w \in Seq(Line) /\ Len(w) = Len(d) + Len(new)
              /\ \A i \in 1 .. at : w[i] = d[i]
              /\ \A i \in 1 .. Len(new) : w[at + i] = new[i]
              /\ \A i \in at + 1 .. Len(d) : w[i + Len(new)] = d[i]
      BY <2>6, InsertIs
    <3>2. QED BY <2>4, <2>5, <3>1
  <2>8. d = The!Delete(v, at, k)
    <3>1. at + k <= Len(v) /\ Len(d) = Len(v) - k
      BY <2>6, <2>7
    <3>2. \A i \in 1 .. at : d[i] = v[i]
      BY <2>7
    <3>3. ASSUME NEW i \in at + k + 1 .. Len(v) PROVE d[i - k] = v[i]
      <4>1. i - k \in at + 1 .. Len(d) /\ (i - k) + k = i
        BY <2>6, <2>7
      <4>2. QED BY <2>7, <4>1
    <3>4. QED BY <2>6, <2>7, <3>1, <3>2, <3>3, DeleteOnly, ZenonT(45)
  <2>9. k \in 0 .. Len(st'.text[UserFile]) /\ The!Delete(st'.text[UserFile], at, k) = The!Delete(st.text[UserFile], at, n)
    BY <2>0, <2>4, <2>6, <2>7, <2>8
  <2>10. QED BY <1>4, <1>8, <1>9, <2>0, <2>1, <2>3, <2>9, StepRun
<1>10. QED BY <1>8, <1>9

(* When that fails, it is its Fail.                                        *)
LEMMA RunFailStep ==
  ASSUME AtStart, NEW f \in File, NEW at \in Nat, NEW n \in Nat, NEW b \in {QADJUST, QRUN},
         RunFails(b, f, at, n)
  PROVE  Secure(st') /\ B!Next
<1>1. PICK c : c = Cap(f, at, n) OBVIOUS
<1>x. PICK w, x : w = Given(st, b, f, at) /\ x = End(w, b, c) OBVIOUS
<1>2. PICK u : u = (f = UserFile) OBVIOUS
<1>4. /\ at < size(f) /\ Fit(st, Left) /\ b \in Buf
      /\ Do("fail", b, f, at, n, x)
  BY <1>1, <1>x, StartIs, Names DEF RunFails
<1>5. at <= Lsize(st, f) /\ c \in Nat
  BY <1>1, <1>4, CapIs
<1>6. Fit(x, Left) /\ Sure(x, b) /\ x.text = st.text /\ Res(x, buflas(b)) = << >>
  BY <1>x, <1>4, <1>5, GivenFails
<1>7. Leaves(u, b, st, x)
  <2>1. Leaves(u, b, st, w) /\ Fit(w, Left \cup {buflas(b)})
    BY <1>x, <1>4, <1>5, GivenIs, GivenLeaves
  <2>2. Leaves(u, b, w, End(w, b, c))
    BY <1>4, <1>5, <2>1, EndLeaves
  <2>3. QED BY <1>x, <2>1, <2>2, LeavesThen
<1>8. /\ Secure(st') /\ st'.text = x.text /\ Held(b)' = HeldIn(x, b)
      /\ f = UserFile => Others(b) /\ Told("fail", b, at, n)
      /\ f # UserFile => B!Next
  BY <1>2, <1>4, <1>6, <1>7, OwnStep
<1>9. ASSUME f = UserFile PROVE B!Next
  <2>1. Held(b)' = The!Nothing
    BY <1>6, <1>8 DEF HeldIn, The!Holds
  <2>2. st'.text[UserFile] = st.text[UserFile] /\ st.text[UserFile] \in Seq(Line)
    BY <1>6, <1>8, StartIs DEF Mine
  <2>3. st'.text[UserFile] = The!Extended(st.text[UserFile], Len(st'.text[UserFile]))
    BY <2>2, ExtendedNone
  <2>4. QED BY <1>4, <1>8, <1>9, <2>1, <2>3, StepFail
<1>10. QED BY <1>8, <1>9

(* Joining marked lines, and keeping what was between, is its JoinMark.    *)
LEMMA MarkStep ==
  ASSUME AtStart, NEW f \in File, NEW at \in Nat, NEW n \in Nat, n > 0, JoinMark(f, at, n)
  PROVE  Secure(st') /\ B!Next
<1>b. PICK b : b = QCLOSE OBVIOUS
<1>1. PICK w, n1 : w = Cut(st, f, at, n) /\ n1 = n + 1 OBVIOUS
<1>l. PICK l, y : l = Joined(st, f, at, n) /\ y = PickLines(w, b, f, at, n1) OBVIOUS
<1>x. PICK x : x = dojoin(y, f, at, n, l) OBVIOUS
<1>2. PICK u : u = (f = UserFile) OBVIOUS
<1>3. u \in BOOLEAN /\ (u <=> f = UserFile) /\ n1 \in Nat
  <2>1. n1 \in Nat
    BY <1>1
  <2>2. u \in BOOLEAN /\ (u <=> f = UserFile)
    BY <1>2
  <2>3. QED BY <2>1, <2>2
<1>4. /\ at + n < Lsize(st, f) /\ Lsize(st, f) \in Nat /\ Fit(st, Left)
      /\ b \in Buf /\ qtmpfn(b) = OLDLFILE
      /\ f # PICKFILE /\ Do("join", b, f, at, n, x)
  <2>1. Do("join", QCLOSE, f, at, n, dojoin(PickLines(Cut(st, f, at, n), QCLOSE, f, at, n + 1), f, at, n, Joined(st, f, at, n)))
        /\ at + n < size(f) /\ f # PICKFILE
    BY DEF JoinMark, AtStart, Careful
  <2>2. Do("join", b, f, at, n, x)
    BY <1>b, <1>1, <1>l, <1>x, <2>1
  <2>3. QED BY <1>b, <2>1, <2>2, StartIs, Names
<1>5. l \in Line
  BY <1>l, <1>4, JoinedIs
<1>6. Fit(w, Left) /\ Kept(st, w) /\ Leaves(u, b, st, w)
  BY <1>1, <1>3, <1>4, CutIs, CutLeaves
<1>7. Lsize(w, f) \in Nat /\ at + n1 <= Lsize(w, f) /\ at <= Lsize(w, f)
  <2>1. Lsize(w, f) \in Nat /\ Lsize(w, f) >= Lsize(st, f)
    BY <1>6, Sizes DEF Kept
  <2>2. QED BY <1>1, <1>4, <2>1
<1>8. Fit(y, Left) /\ Kept(w, y) /\ Leaves(u, b, w, y)
  BY <1>l, <1>3, <1>4, <1>6, <1>7, PickLinesIs, PickLinesLeaves
<1>9. Whole(y, b)
  BY <1>l, <1>3, <1>4, <1>6, <1>7, PickSure
<1>10. at < Lsize(y, f)
  <2>1. Lsize(y, f) \in Nat /\ Lsize(y, f) >= Lsize(w, f)
    BY <1>8, Sizes DEF Kept
  <2>2. QED BY <1>1, <1>7, <2>1
<1>11. Fit(x, Left) /\ Leaves(u, b, y, x) /\ Firm(y, x)
  BY <1>x, <1>3, <1>5, <1>8, <1>10, dojoinIs, dojoinLeaves
<1>12. Sure(x, b)
  BY <1>4, <1>9, <1>11 DEF Firm, Sure
<1>13. Leaves(u, b, st, x)
  <2>1. Leaves(u, b, st, y)
    BY <1>6, <1>8, LeavesThen
  <2>2. QED BY <1>11, <2>1, LeavesThen
<1>14. /\ Secure(st') /\ st'.text = x.text /\ Held(b)' = HeldIn(x, b)
       /\ f = UserFile => Others(b) /\ Told("join", b, at, n)
       /\ f # UserFile => B!Next
  BY <1>2, <1>4, <1>11, <1>12, <1>13, OwnStep
<1>15. ASSUME f = UserFile PROVE B!Next
  <2>t. PICK t : t = Mine(st) OBVIOUS
  <2>0. t = st.text[f] /\ t = st.text[UserFile] /\ f # OLDLFILE
    BY <1>15, <2>t, NameAssumption DEF Mine
  <2>1. x.ncols[b] = 0 /\ Res(x, buflas(b)) = Between(t, at, n)
    <3>1. LET r  == dojoin(PickLines(Cut(st, f, at, n), b, f, at, n + 1), f, at, n, l)
              bs == Between(st.text[f], at, n)
          IN  /\ r.ncols[b] = 0 /\ Res(r, buflas(b)) \in {bs, << >>}
              /\ f # OLDLFILE => Res(r, buflas(b)) = bs
      BY <1>4, <1>5, JoinTakes
    <3>2. QED BY <1>1, <1>l, <1>x, <2>0, <3>1
  <2>2. HeldIn(x, b) = The!JoinAsked(t, at, n)
    <3>1. HeldIn(x, b) = The!Holds(Res(x, buflas(b)), FALSE)
      BY <2>1, HoldsLines
    <3>2. The!JoinAsked(t, at, n) = The!Holds(Between(t, at, n), FALSE)
      BY DEF The!JoinAsked, Between
    <3>3. QED BY <2>1, <3>1, <3>2
  <2>3. Mine(x) = The!Insert(The!Delete(t, at, n + 1), at, << l >>)
    <3>1. Mine(PickLines(w, b, UserFile, at, n1)) = Mine(w)
      BY <1>3, <1>4, <1>6, <1>7, <1>15, PickText
    <3>2. Mine(y) = Mine(Cut(st, UserFile, at, n))
      BY <1>1, <1>l, <1>15, <3>1
    <3>3. Mine(dojoin(y, UserFile, at, n, l)) = The!Insert(The!Delete(Mine(st), at, n + 1), at, << l >>)
      BY <1>4, <1>5, <1>8, <1>15, <3>2, JoinText
    <3>4. QED BY <1>x, <1>15, <2>t, <3>3
  <2>4. PICK ls : ls = The!Area(t, at, n + 1) OBVIOUS
  <2>5. l = The!With(ls[1], ls[n + 1][2])
    BY <1>l, <2>0, <2>4 DEF Joined, Area
  <2>6. st'.text[UserFile] = The!Insert(The!Delete(t, at, n + 1), at, << The!With(ls[1], ls[n + 1][2]) >>)
    BY <1>14, <2>3, <2>5 DEF Mine
  <2>7. /\ at + n < Len(st.text[UserFile]) /\ Told("join", QCLOSE, at, n) /\ Others(QCLOSE)
        /\ Held(QCLOSE)' = The!JoinAsked(st.text[UserFile], at, n)
    BY <1>b, <1>4, <1>14, <1>15, <2>0, <2>2 DEF Lsize
  <2>8. QED BY <2>0, <2>4, <2>6, <2>7, StepJoin
<1>16. QED BY <1>14, <1>15

(* Putting what a buffer holds. *)
LEMMA PutFailStep ==
  ASSUME AtStart, NEW f \in File, NEW at \in Nat, NEW b \in Buf, NEW x, f = UserFile => Mine(x) = Mine(extend(st, f, at)),
         Fit(x, Left), Leaves(f = UserFile, QNONE, st, x), Do("fail", b, f, at, 0, x)
  PROVE  Secure(st') /\ B!Next
<1>1. PICK z : z = 0 OBVIOUS
<1>2. /\ Secure(st') /\ st'.text = x.text
      /\ f = UserFile => (\A c \in Buf : Held(c)' = Held(c)) /\ Told("fail", b, at, z)
      /\ f # UserFile => B!Next
  BY <1>1, QuietStep
<1>3. ASSUME f = UserFile PROVE B!Next
  <2>1. PICK t, v : t = Mine(st) /\ v = The!Extended(t, at) OBVIOUS
  <2>2. t \in Seq(Line) /\ Len(t) \in Nat /\ Fit(st, Left) /\ t = st.text[UserFile]
    BY <2>1, StartIs DEF Mine
  <2>3. st'.text[UserFile] = v
    <3>1. Mine(extend(st, UserFile, at)) = The!Extended(Mine(st), at)
      BY <2>2, extendText
    <3>2. QED BY <1>2, <1>3, <2>1, <3>1 DEF Mine
  <2>4. v = The!Extended(t, Len(v))
    <3>1. Len(v) = IF at <= Len(t) THEN Len(t) ELSE at
      BY <2>1, <2>2, ExtendedIs
    <3>2. CASE at <= Len(t)
      BY <2>1, <2>2, <3>1, <3>2 DEF The!Extended
    <3>3. CASE ~ (at <= Len(t))
      BY <2>1, <3>1, <3>3
    <3>4. QED BY <3>2, <3>3
  <2>5. Held(b)' = Held(b) /\ Others(b) /\ Told("fail", b, at, z)
    BY <1>2, <1>3 DEF Others
  <2>6. st'.text[UserFile] = The!Extended(st.text[UserFile], Len(st'.text[UserFile]))
    BY <2>2, <2>3, <2>4
  <2>7. QED BY <2>5, <2>6, StepFail
<1>4. QED BY <1>2, <1>3

(* A put that fails is its Fail.                                           *)
LEMMA PutFailsStep ==
  ASSUME AtStart, NEW f \in File, NEW at \in Nat, NEW b \in Buf, PutFails(b, f, at)
  PROVE  Secure(st') /\ B!Next
<1>1. PICK x : x = extend(st, f, at) OBVIOUS
<1>2. PICK u : u = (f = UserFile) OBVIOUS
<1>3. u \in BOOLEAN /\ (u <=> f = UserFile)
  BY <1>2
<1>4. Fit(st, Left) /\ Do("fail", b, f, at, 0, x)
  BY <1>1, StartIs DEF PutFails
<1>5. Fit(x, Left) /\ Leaves(u, QNONE, st, x)
  BY <1>1, <1>3, <1>4, extendIs, extendLeaves
<1>6. QED BY <1>1, <1>2, <1>4, <1>5, PutFailStep

(* Putting lines is its Put: the stream has all it has reserved, so that   *)
(* what is copied is what the buffer holds.                                *)
LEMMA PutLinesStep ==
  ASSUME AtStart, NEW f \in File, NEW at \in Nat, NEW b \in Buf, st.ncols[b] = 0,
         Do(IF Copied(b) THEN "put" ELSE "fail", b, f, at, 0, PutLines(st, b, f, at))
  PROVE  Secure(st') /\ B!Next
<1>1. PICK x, z : x = PutLines(st, b, f, at) /\ z = 0 OBVIOUS
<1>o. PICK o : o = IF Copied(b) THEN "put" ELSE "fail" OBVIOUS
<1>2. PICK u : u = (f = UserFile) OBVIOUS
<1>3. u \in BOOLEAN /\ (u <=> f = UserFile)
  BY <1>2
<1>4. Fit(st, Left) /\ Do(o, b, f, at, z, x)
  BY <1>1, <1>o, StartIs
<1>5. Fit(x, Left) /\ Leaves(u, QNONE, st, x)
  BY <1>1, <1>3, <1>4, PutLinesIs, PutLinesLeaves
<1>6. /\ Secure(st') /\ st'.text = x.text
      /\ f = UserFile => (\A c \in Buf : Held(c)' = Held(c)) /\ Told(o, b, at, z)
      /\ f # UserFile => B!Next
  BY <1>2, <1>4, <1>5, QuietStep
<1>7. ASSUME f = UserFile PROVE B!Next
  <2>1. PICK t, ls, v : t = Mine(st) /\ ls = Res(st, buflas(b)) /\ v = The!Extended(t, at) OBVIOUS
  <2>2. t \in Seq(Line) /\ Len(t) \in Nat /\ t = st.text[UserFile]
    BY <2>1, StartIs DEF Mine
  <2>3. st'.text[UserFile] = The!Insert(v, at, ls)
    <3>1. Mine(PutLines(st, b, UserFile, at)) = The!Insert(The!Extended(Mine(st), at), at, Res(st, buflas(b)))
      BY <1>4, PutLinesText
    <3>2. QED BY <1>1, <1>6, <1>7, <2>1, <3>1 DEF Mine
  <2>4. Copied(b) <=> ls # << >>
    BY <2>1 DEF Copied, Res, Reserved
  <2>5. Held(b) = The!Holds(ls, FALSE)
    BY <2>1, HeldNow, HoldsLines
  <2>6. CASE ls # << >>
    <3>1. Held(b) = [lines |-> ls, rect |-> FALSE]
      BY <2>5, <2>6 DEF The!Holds
    <3>2. Held(b) # The!Nothing /\ ls = Held(b).lines /\ ~ Held(b).rect
      BY <2>6, <3>1 DEF The!Nothing
    <3>3. Told("put", b, at, z) /\ \A c \in Buf : Held(c)' = Held(c)
      BY <1>o, <1>6, <1>7, <2>4, <2>6
    <3>4. st'.text[UserFile] =
           IF ~ Held(b).rect THEN The!Insert(The!Extended(t, at), at, ls)
           ELSE The!Replaced(The!Extended(t, at + Len(ls)), at,
                  [i \in DOMAIN ls |-> The!With(The!Extended(t, at + Len(ls))[at + i], ls[i][1])])
      BY <2>1, <2>3, <3>2
    <3>5. QED BY <2>2, <3>2, <3>3, <3>4, StepPut
  <2>7. CASE ls = << >>
    <3>1. v \in Seq(Line) /\ at <= Len(v)
      <4>1. v \in Seq(Line) /\ Len(v) = IF at <= Len(t) THEN Len(t) ELSE at
        BY <2>1, <2>2, ExtendedIs
      <4>2. QED BY <2>2, <4>1
    <3>2. The!Insert(v, at, << >>) = v
      BY <3>1, InsertNone
    <3>3. Mine(x) = Mine(extend(st, f, at))
      <4>1. Mine(extend(st, UserFile, at)) = The!Extended(Mine(st), at)
        BY <1>4, extendText
      <4>2. QED BY <1>6, <1>7, <2>1, <2>3, <2>7, <3>2, <4>1 DEF Mine
    <3>4. Do("fail", b, f, at, 0, x)
      BY <1>1, <1>o, <1>4, <2>4, <2>7
    <3>5. QED BY <1>2, <1>5, <3>3, <3>4, PutFailStep
  <2>8. QED BY <2>6, <2>7
<1>8. QED BY <1>6, <1>7

(* Putting a rectangle is: the blank lines that are read behind a file's   *)
(* end do not occur.                                                       *)
LEMMA PutRectStep ==
  ASSUME AtStart, NEW f \in File, NEW at \in Nat, NEW b \in Buf, st.ncols[b] > 0, Reserved(st, b) > 0,
         Do("put", b, f, at, 0, PutRect(st, b, f, at))
  PROVE  Secure(st') /\ B!Next
<1>1. PICK x, z : x = PutRect(st, b, f, at) /\ z = 0 OBVIOUS
<1>2. PICK u : u = (f = UserFile) OBVIOUS
<1>3. u \in BOOLEAN /\ (u <=> f = UserFile)
  BY <1>2
<1>4. Fit(st, Left) /\ Do("put", b, f, at, z, x) /\ Sure(st, b)
  BY <1>1, StartIs DEF Secure
<1>5. Fit(x, Left) /\ Leaves(u, QNONE, st, x)
  BY <1>1, <1>3, <1>4, PutRectIs, PutRectLeaves
<1>6. /\ Secure(st') /\ st'.text = x.text
      /\ f = UserFile => (\A c \in Buf : Held(c)' = Held(c)) /\ Told("put", b, at, z)
      /\ f # UserFile => B!Next
  BY <1>2, <1>4, <1>5, QuietStep
<1>7. ASSUME f = UserFile PROVE B!Next
  <2>1. PICK t, ls : t = Mine(st) /\ ls = Res(st, buflas(b)) OBVIOUS
  <2>2. t \in Seq(Line) /\ Len(t) \in Nat /\ t = st.text[UserFile]
    BY <2>1, StartIs DEF Mine
  <2>3. st.ncols[b] = 1
    <3>1. st.ncols[b] \in {0, 1}
      BY <1>4 DEF Fit, States
    <3>2. QED BY <3>1
  <2>4. Whole(st, b)
    BY <1>4, <2>3 DEF Sure
  <2>5. ls \in Seq(Line) /\ Len(ls) = Reserved(st, b)
    BY <1>4, <2>1, <2>4, ResIs
  <2>6. ls # << >>
    BY <2>5
  <2>7. Held(b) = [lines |-> ls, rect |-> TRUE]
    <3>1. Held(b) = The!Holds(ls, TRUE)
      BY <2>1, <2>3, HeldNow, HoldsRect
    <3>2. QED BY <2>6, <3>1 DEF The!Holds
  <2>8. PICK t2 : t2 = The!Extended(t, at + Len(ls)) OBVIOUS
  <2>9. st'.text[UserFile] = The!Replaced(t2, at, [i \in DOMAIN ls |-> The!With(t2[at + i], ls[i][1])])
    <3>1. t2 = The!Extended(Mine(st), at + Len(ls))
      BY <2>1, <2>8
    <3>2. Mine(PutRect(st, b, UserFile, at)) =
            The!Replaced(t2, at, [i \in DOMAIN ls |-> The!With(t2[at + i], ls[i][1])])
      BY <1>4, <2>1, <2>4, <3>1, PutRectText
    <3>3. QED BY <1>1, <1>6, <1>7, <3>2 DEF Mine
  <2>10. Held(b) # The!Nothing /\ ls = Held(b).lines /\ Held(b).rect = TRUE
    BY <2>6, <2>7 DEF The!Nothing
  <2>11. st'.text[UserFile] =
           IF ~ Held(b).rect THEN The!Insert(The!Extended(t, at), at, ls)
           ELSE The!Replaced(The!Extended(t, at + Len(ls)), at,
                  [i \in DOMAIN ls |-> The!With(The!Extended(t, at + Len(ls))[at + i], ls[i][1])])
    BY <2>8, <2>9, <2>10
  <2>12. Told("put", b, at, z) /\ \A c \in Buf : Held(c)' = Held(c)
    BY <1>6, <1>7
  <2>13. QED BY <2>2, <2>10, <2>11, <2>12, StepPut, ZenonT(45)
<1>8. QED BY <1>6, <1>7

(* So every put is.                                                        *)
LEMMA PutStep ==
  ASSUME AtStart, NEW f \in File, NEW at \in Nat, NEW b \in Buf, Put(b, f, at)
  PROVE  Secure(st') /\ B!Next
<1>1. Reserved(st, b) > 0
  BY DEF Put
<1>2. CASE st.ncols[b] = 0 /\ Do(IF Copied(b) THEN "put" ELSE "fail", b, f, at, 0, PutLines(st, b, f, at))
  BY <1>2, PutLinesStep
<1>3. CASE st.ncols[b] > 0 /\ Do("put", b, f, at, 0, PutRect(st, b, f, at))
  BY <1>1, <1>3, PutRectStep
<1>4. QED BY <1>2, <1>3 DEF Put

(* The next state's buffers.                                               *)
LEMMA SecurePrime == Secure(st') => Secure(st)'
  BY DEF Secure, Sure, Whole, Lsize

(* At the start every buffer has reserved nothing, and Buffers is at its   *)
(* start.                                                                  *)
LEMMA BuffersInit == Init => Secure(st) /\ B!Init
<1> SUFFICES ASSUME Init PROVE Secure(st) /\ B!Init
  OBVIOUS
<1>1. Fit(st, Left)
  BY InvInit DEF Inv
<1>2. ASSUME NEW c \in Buf PROVE Sure(st, c) /\ Held(c) = The!Nothing
  <2>1. PICK q : q = buflas(c) OBVIOUS
  <2>2. q \in Stream /\ Own(q) = qtmpfn(c)
    BY <2>1, Streams
  <2>3. st.las[q].la_rlines = 0 /\ st.las[q].la_lpos = 0
    BY <2>2 DEF Init
  <2>4. Lsize(st, Own(q)) \in Nat
    BY <1>1, <2>2, Streams, Sizes
  <2>5. Whole(st, c)
    BY <2>1, <2>2, <2>3, <2>4 DEF Whole
  <2>6. LF!LinesAt(st, q, 0) = << >>
    BY <1>1, <2>2, NoneAt
  <2>7. Res(st, q) = << >>
    BY <2>3, <2>6 DEF Res
  <2>8. HeldIn(st, c) = The!Nothing
    BY <2>1, <2>7 DEF HeldIn, The!Holds
  <2>9. QED BY <2>5, <2>8, HeldNow DEF Sure
<1>3. Secure(st)
  BY <1>2 DEF Secure
<1>4. st.text[UserFile] \in Seq(B!Line)
  BY <1>1, MineIs, SameWords DEF Mine
<1>5. [b \in Buf |-> Held(b)] = [b \in Buf |-> B!Nothing]
  BY <1>2, SameWords
<1>6. cmd.opc = "none"
  BY DEF Init
<1>7. QED BY <1>3, <1>4, <1>5, <1>6 DEF B!Init

(* Every step leaves every buffer secure, and is one of Buffers.           *)
LEMMA BuffersStep ==
  ASSUME AtStart, Next
  PROVE  Secure(st') /\ B!Next
<1>0. \A f \in File : size(f) \in Nat
  BY StartIs
<1>1. PICK f \in File : \E at \in 0 .. size(f) + 1 :
        \/ \E n \in Counts :
             \/ Pick(f, at, n) \/ Close(f, at, n) \/ Erase(f, at, n)
             \/ \E b \in {QPICK, QCLOSE, QERASE} : TakeFails(b, f, at, n)
             \/ Open(f, at, n) \/ Box(f, at, n, empty)
             \/ Join(f, at, n) \/ JoinMark(f, at, n)
             \/ \E b \in {QADJUST, QRUN} :
                  RunFails(b, f, at, n) \/ \E new \in Filtered : Run(b, f, at, n, new)
        \/ \E b \in {QPICK, QCLOSE, QERASE} : at >= size(f) /\ TakeNone(b, f, at)
        \/ \E b \in Buf : Put(b, f, at) \/ PutFails(b, f, at)
        \/ \E l \in Typed : Type(f, at, l)
        \/ \E new \in Filtered : Feed(f, at, new)
  BY DEF Next
<1>2. PICK at \in 0 .. size(f) + 1 :
        \/ \E n \in Counts :
             \/ Pick(f, at, n) \/ Close(f, at, n) \/ Erase(f, at, n)
             \/ \E b \in {QPICK, QCLOSE, QERASE} : TakeFails(b, f, at, n)
             \/ Open(f, at, n) \/ Box(f, at, n, empty)
             \/ Join(f, at, n) \/ JoinMark(f, at, n)
             \/ \E b \in {QADJUST, QRUN} :
                  RunFails(b, f, at, n) \/ \E new \in Filtered : Run(b, f, at, n, new)
        \/ \E b \in {QPICK, QCLOSE, QERASE} : at >= size(f) /\ TakeNone(b, f, at)
        \/ \E b \in Buf : Put(b, f, at) \/ PutFails(b, f, at)
        \/ \E l \in Typed : Type(f, at, l)
        \/ \E new \in Filtered : Feed(f, at, new)
  BY <1>1
<1>3. at \in Nat
  BY <1>0
<1>4. ASSUME NEW n \in Counts,
             \/ Pick(f, at, n) \/ Close(f, at, n) \/ Erase(f, at, n)
             \/ \E b \in {QPICK, QCLOSE, QERASE} : TakeFails(b, f, at, n)
             \/ Open(f, at, n) \/ Box(f, at, n, empty)
             \/ Join(f, at, n) \/ JoinMark(f, at, n)
             \/ \E b \in {QADJUST, QRUN} :
                  RunFails(b, f, at, n) \/ \E new \in Filtered : Run(b, f, at, n, new)
      PROVE  Secure(st') /\ B!Next
  <2>1. n \in Nat /\ n > 0 /\ Filtered \subseteq Seq(Line)
    BY QBufAssumption
  <2>2. CASE Pick(f, at, n) \/ Close(f, at, n) \/ Erase(f, at, n)
    BY <1>3, <2>1, <2>2, PickStep, CloseStep, EraseStep
  <2>3. ASSUME NEW b \in {QPICK, QCLOSE, QERASE}, TakeFails(b, f, at, n) PROVE Secure(st') /\ B!Next
    BY <1>3, <2>1, <2>3, TakeFailStep
  <2>4. CASE Open(f, at, n) \/ Box(f, at, n, empty) \/ Join(f, at, n)
    BY <1>3, <2>1, <2>4, OpenStep, BoxStep, JoinStep
  <2>5. CASE JoinMark(f, at, n)
    BY <1>3, <2>1, <2>5, MarkStep
  <2>6. ASSUME NEW b \in {QADJUST, QRUN}, RunFails(b, f, at, n) PROVE Secure(st') /\ B!Next
    BY <1>3, <2>1, <2>6, RunFailStep
  <2>7. ASSUME NEW b \in {QADJUST, QRUN}, NEW new \in Filtered, Run(b, f, at, n, new)
        PROVE  Secure(st') /\ B!Next
    BY <1>3, <2>1, <2>7, RunStep
  <2>8. QED BY <1>4, <2>2, <2>3, <2>4, <2>5, <2>6, <2>7
<1>5. ASSUME NEW b \in {QPICK, QCLOSE, QERASE}, at >= size(f), TakeNone(b, f, at)
      PROVE  Secure(st') /\ B!Next
  BY <1>3, <1>5, NoneStep
<1>6. ASSUME NEW b \in Buf, Put(b, f, at) \/ PutFails(b, f, at) PROVE Secure(st') /\ B!Next
  BY <1>3, <1>6, PutStep, PutFailsStep
<1>7. ASSUME NEW l \in Typed, Type(f, at, l) PROVE Secure(st') /\ B!Next
  <2>1. l \in Line
    BY QBufAssumption
  <2>2. QED BY <1>3, <1>7, <2>1, TypeStep
<1>8. ASSUME NEW new \in Filtered, Feed(f, at, new) PROVE Secure(st') /\ B!Next
  <2>1. new \in Seq(Line)
    BY QBufAssumption
  <2>2. QED BY <1>3, <1>8, <2>1, FeedStep
<1>9. QED BY <1>2, <1>4, <1>5, <1>6, <1>7, <1>8

(* Each step of the buffers is a step of Buffers, or changes nothing that it is about. *)
LEMMA BuffersNext ==
  AtStart /\ [Next]_<< st, cmd, edits >> =>
    AtStart' /\ [B!Next]_<< st.text[UserFile], [b \in Buf |-> Held(b)], cmd >>
<1> SUFFICES ASSUME AtStart, [Next]_<< st, cmd, edits >>
             PROVE  AtStart' /\ [B!Next]_<< st.text[UserFile], [b \in Buf |-> Held(b)], cmd >>
  OBVIOUS
<1>1. Inv' /\ Careful'
  BY InvNext DEF AtStart, Careful
<1>2. CASE Next
  <2>1. Secure(st') /\ B!Next
    BY <1>2, BuffersStep
  <2>2. QED BY <1>1, <2>1, SecurePrime DEF AtStart
<1>3. CASE UNCHANGED << st, cmd, edits >>
  <2>1. Secure(st)'
    BY <1>3 DEF AtStart, Secure, Sure, Whole, Lsize
  <2>2. \A b \in Buf : Held(b)' = Held(b)
    BY <1>3 DEF Held, Reserved, LF!LinesAt, The!Holds, The!Nothing
  <2>3. UNCHANGED << st.text[UserFile], [b \in Buf |-> Held(b)], cmd >>
    BY <1>3, <2>2
  <2>4. QED BY <1>1, <2>1, <2>3 DEF AtStart
<1>4. QED BY <1>2, <1>3

(* Every buffer holds what was last taken into it, in whatever file the    *)
(* text was, until something else is taken, and putting it inserts just    *)
(* that; no command about one buffer, nor one that edits the user's file,  *)
(* changes what another holds, though all but one of them and every old    *)
(* line share #o: edlines, edrect, ed, dojoin (e20/e.e.c) and receive      *)
(* (e20/e.ru.c) implement the module Buffers. Assumed: LA fails only where *)
(* the editor undoes what it did, nothing is joined in #p, no lines of #o  *)
(* are closed while #o's buffer holds a rectangle.                         *)
THEOREM BuffersImplemented ==
  ASSUME Careful
  PROVE  Spec => ImplementsBuffers
<1>1. Init => AtStart /\ B!Init
  BY InvInit, BuffersInit DEF AtStart
<1>2. AtStart /\ [Next]_<< st, cmd, edits >> =>
        AtStart' /\ [B!Next]_<< st.text[UserFile], [b \in Buf |-> Held(b)], cmd >>
  BY BuffersNext
<1> QED BY <1>1, <1>2, PTL DEF Spec, ImplementsBuffers, B!Spec
=============================================================================

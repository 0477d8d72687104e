--------------------------- MODULE LAChainProofs ---------------------------
(* What breaking, linking and unlinking do to a chain of fsds and to the   *)
(* streams in it, for chains of any length; that every operation of LA     *)
(* on chains, streams and fsds keeps the books (Books of LAInvariant); and *)
(* that breaking, cutting out and failing keep the whole of IInv.          *)
EXTENDS LAInvariant, SequenceTheorems, WellFoundedInduction, FiniteSetTheorems, TLAPS

-----------------------------------------------------------------------------
(* Sums along a chain.                                                     *)

(* Every set of naturals that is not empty has a least member. Induction   *)
(* over places in a chain rests on this.                                   *)
LEMMA Least == \A S \in SUBSET Nat : S # {} => \E x \in S : \A y \in S : x <= y
<1> SUFFICES ASSUME NEW S \in SUBSET Nat, S # {} PROVE \E x \in S : \A y \in S : x <= y
  OBVIOUS
<1>1. PICK x \in S : \A y \in S : ~ (<< y, x >> \in OpToRel(<, Nat))
  BY WFMin, NatLessThanWellFounded
<1>2. ASSUME NEW y \in S, y < x PROVE FALSE
  <2>1. << y, x >> \in OpToRel(<, Nat)
    BY <1>2 DEF OpToRel
  <2>2. QED BY <1>1, <2>1
<1>3. QED BY <1>2

(* A set of numbers that has 0, and with each number the next. *)
LEMMA Induct == \A S \in SUBSET Nat : 0 \in S /\ (\A i \in S : i + 1 \in S) => S = Nat
<1> SUFFICES ASSUME NEW S \in SUBSET Nat, 0 \in S, \A i \in S : i + 1 \in S, Nat \ S # {} PROVE FALSE
  OBVIOUS
<1>1. PICK x \in Nat \ S : \A y \in Nat \ S : x <= y
  BY Least
<1>2. x - 1 \in S
  BY <1>1
<1>3. QED BY <1>1, <1>2

(* The recursive function of the sums along a chain satisfies its          *)
(* equation.                                                               *)
LEMMA SumsDef ==
  ASSUME NEW m, NEW ds, Len(ds) \in Nat
  PROVE  Sums(m, ds) = [i \in 0 .. Len(ds) |-> IF i = 0 THEN 0 ELSE Sums(m, ds)[i - 1] + m[ds[i]].fsdnlines]
<1> DEFINE Is(f, n) == f = [i \in 0 .. n |-> IF i = 0 THEN 0 ELSE f[i - 1] + m[ds[i]].fsdnlines]
           S == {n \in Nat : \E f : Is(f, n)}
<1>1. 0 \in S
  <2>1. Is([i \in 0 .. 0 |-> 0], 0)
    OBVIOUS
  <2>2. QED BY <2>1
<1>2. ASSUME NEW n \in S PROVE n + 1 \in S
  <2>1. PICK f : Is(f, n)
    BY <1>2
  <2> DEFINE g == [i \in 0 .. n + 1 |-> IF i = n + 1 THEN f[n] + m[ds[n + 1]].fsdnlines ELSE f[i]]
  <2> DEFINE h == [i \in 0 .. n + 1 |-> IF i = 0 THEN 0 ELSE g[i - 1] + m[ds[i]].fsdnlines]
  <2>2. ASSUME NEW i \in 0 .. n + 1 PROVE g[i] = h[i]
    <3>1. CASE i = n + 1
      BY <3>1
    <3>2. CASE i \in 0 .. n
      <4>1. f[i] = IF i = 0 THEN 0 ELSE f[i - 1] + m[ds[i]].fsdnlines
        BY <2>1, <3>2
      <4>2. i # 0 => i - 1 \in 0 .. n
        BY <3>2
      <4>3. QED BY <4>1, <4>2, <3>2
    <3>3. QED BY <3>1, <3>2
  <2>4. g = h
    BY <2>2
  <2>5. Is(g, n + 1)
    BY <2>4
  <2>6. n + 1 \in Nat
    BY <1>2
  <2> HIDE DEF g
  <2>3. QED BY <2>5, <2>6
<1>3. S = Nat
  BY <1>1, <1>2, Induct
<1>4. \E f : Is(f, Len(ds))
  BY <1>3
<1>5. QED BY <1>4 DEF Sums

(* Sums along a chain begin at 0, grow by the lines of each fsd and are    *)
(* natural numbers.                                                        *)
LEMMA SumsIs ==
  ASSUME NEW m \in [Fsd -> Fsds], NEW ds \in Seq(Fsd)
  PROVE  /\ Sums(m, ds)[0] = 0
         /\ \A i \in 1 .. Len(ds) : Sums(m, ds)[i] = Sums(m, ds)[i - 1] + m[ds[i]].fsdnlines
         /\ \A i \in 0 .. Len(ds) : Sums(m, ds)[i] \in Nat
<1>1. Len(ds) \in Nat
  OBVIOUS
<1>2. Sums(m, ds) = [i \in 0 .. Len(ds) |-> IF i = 0 THEN 0 ELSE Sums(m, ds)[i - 1] + m[ds[i]].fsdnlines]
  BY <1>1, SumsDef
<1> DEFINE c == Sums(m, ds)
<1>3. c = [i \in 0 .. Len(ds) |-> IF i = 0 THEN 0 ELSE c[i - 1] + m[ds[i]].fsdnlines]
  BY <1>2
<1> HIDE DEF c
<1>4. c[0] = 0
  BY <1>1, <1>3
<1>5. \A i \in 1 .. Len(ds) : c[i] = c[i - 1] + m[ds[i]].fsdnlines
  BY <1>1, <1>3
<1>6. \A i \in 1 .. Len(ds) : m[ds[i]].fsdnlines \in Nat
  BY DEF Fsds
<1> DEFINE S == {n \in Nat : n <= Len(ds) => c[n] \in Nat}
<1>7. 0 \in S
  BY <1>4
<1>8. ASSUME NEW n \in S PROVE n + 1 \in S
  <2>1. n + 1 \in Nat
    OBVIOUS
  <2>2. ASSUME n + 1 <= Len(ds) PROVE c[n + 1] \in Nat
    <3>1. n + 1 \in 1 .. Len(ds) /\ n <= Len(ds)
      BY <2>2, <1>1
    <3>2. c[n + 1] = c[n + 1 - 1] + m[ds[n + 1]].fsdnlines
      BY <3>1, <1>5
    <3>3. n + 1 - 1 = n
      OBVIOUS
    <3>4. c[n + 1] = c[n] + m[ds[n + 1]].fsdnlines
      BY <3>2, <3>3
    <3>5. m[ds[n + 1]].fsdnlines \in Nat
      BY <3>1, <1>6
    <3>6. c[n] \in Nat
      BY <3>1
    <3>7. QED BY <3>4, <3>5, <3>6
  <2>3. QED BY <2>1, <2>2
<1>9. S = Nat
  BY <1>7, <1>8, Induct
<1>10. \A i \in 0 .. Len(ds) : c[i] \in Nat
  BY <1>9, <1>1
<1>11. QED BY <1>4, <1>5, <1>10 DEF c

(* Stretches of two chains whose fsds have as many lines as each other. *)
Alike(m, ds, p, m2, es, q, k) ==
  /\ p + k <= Len(ds) /\ q + k <= Len(es)
  /\ \A i \in 1 .. k : m2[es[q + i]].fsdnlines = m[ds[p + i]].fsdnlines

Moved(m, ds, p, m2, es, q, k) ==
  \A i \in 0 .. k : Sums(m2, es)[q + i] = Sums(m2, es)[q] + Sums(m, ds)[p + i] - Sums(m, ds)[p]

(* Two chains that are alike from some place on have sums that differ by a *)
(* constant from there.                                                    *)
LEMMA Shift ==
  ASSUME NEW m \in [Fsd -> Fsds], NEW ds \in Seq(Fsd), NEW m2 \in [Fsd -> Fsds], NEW es \in Seq(Fsd),
         NEW p \in Nat, NEW q \in Nat, NEW k \in Nat, Alike(m, ds, p, m2, es, q, k)
  PROVE  Moved(m, ds, p, m2, es, q, k)
<1>0. /\ p + k <= Len(ds) /\ q + k <= Len(es)
      /\ \A i \in 1 .. k : m2[es[q + i]].fsdnlines = m[ds[p + i]].fsdnlines
  BY DEF Alike
<1> DEFINE c == Sums(m, ds)
           e == Sums(m2, es)
<1>1. /\ \A i \in 1 .. Len(ds) : c[i] = c[i - 1] + m[ds[i]].fsdnlines
      /\ \A i \in 0 .. Len(ds) : c[i] \in Nat
  BY SumsIs
<1>2. /\ \A i \in 1 .. Len(es) : e[i] = e[i - 1] + m2[es[i]].fsdnlines
      /\ \A i \in 0 .. Len(es) : e[i] \in Nat
  BY SumsIs
<1> HIDE DEF c, e
<1> DEFINE S == {n \in Nat : n <= k => e[q + n] = e[q] + c[p + n] - c[p]}
<1>3. Len(ds) \in Nat /\ Len(es) \in Nat
  OBVIOUS
<1>4. 0 \in S
  <2>1. p \in 0 .. Len(ds) /\ q \in 0 .. Len(es)
    BY <1>3, <1>0
  <2>2. c[p] \in Nat /\ e[q] \in Nat
    BY <2>1, <1>1, <1>2
  <2>3. p + 0 = p /\ q + 0 = q
    OBVIOUS
  <2>4. e[q] = e[q] + c[p] - c[p]
    BY <2>2
  <2>5. QED BY <2>3, <2>4
<1>5. ASSUME NEW n \in S PROVE n + 1 \in S
  <2>1. ASSUME n + 1 <= k PROVE e[q + (n + 1)] = e[q] + c[p + (n + 1)] - c[p]
    <3>1. /\ n \in Nat /\ n + 1 \in 1 .. k /\ n <= k
          /\ p + n + 1 \in 1 .. Len(ds) /\ q + n + 1 \in 1 .. Len(es)
          /\ p + n \in 0 .. Len(ds) /\ q + n \in 0 .. Len(es)
          /\ p \in 0 .. Len(ds) /\ q \in 0 .. Len(es)
          /\ p + n + 1 - 1 = p + n /\ q + n + 1 - 1 = q + n
          /\ p + (n + 1) = p + n + 1 /\ q + (n + 1) = q + n + 1
      BY <2>1, <1>3, <1>0, SMTT(45)
    <3>2. c[p + n + 1] = c[p + n] + m[ds[p + n + 1]].fsdnlines
      BY <3>1, <1>1
    <3>3. e[q + n + 1] = e[q + n] + m2[es[q + n + 1]].fsdnlines
      BY <3>1, <1>2
    <3>4. m2[es[q + (n + 1)]].fsdnlines = m[ds[p + (n + 1)]].fsdnlines
      BY <3>1, <1>0
    <3>5. e[q + n] = e[q] + c[p + n] - c[p]
      BY <3>1
    <3>6. ds[p + n + 1] \in Fsd
      BY <3>1
    <3>7. m[ds[p + n + 1]].fsdnlines \in Nat
      BY <3>6 DEF Fsds
    <3>8. c[p] \in Nat /\ c[p + n] \in Nat /\ e[q] \in Nat
      BY <3>1, <1>1, <1>2
    <3> DEFINE w == m[ds[p + n + 1]].fsdnlines
    <3>9. m2[es[q + n + 1]].fsdnlines = w
      BY <3>4, <3>1
    <3>10. c[p + n + 1] = c[p + n] + w /\ e[q + n + 1] = e[q + n] + w /\ w \in Nat
      BY <3>2, <3>3, <3>9, <3>7
    <3> HIDE DEF w
    <3> DEFINE w1 == c[p]
               w2 == c[p + n]
               w3 == e[q]
    <3>13. w1 \in Nat /\ w2 \in Nat /\ w3 \in Nat /\ e[q + n] = w3 + w2 - w1
      BY <3>8, <3>5
    <3>14. c[p + n + 1] = w2 + w /\ e[q + n + 1] = (w3 + w2 - w1) + w
      BY <3>10, <3>13
    <3> HIDE DEF w1, w2, w3
    <3>15. e[q + n + 1] = w3 + c[p + n + 1] - w1
      BY <3>13, <3>14, <3>10
    <3>11. e[q + n + 1] = e[q] + c[p + n + 1] - c[p]
      BY <3>15 DEF w1, w3
    <3>12. QED BY <3>11, <3>1
  <2>2. QED BY <2>1
<1>6. S = Nat
  BY <1>4, <1>5, Induct
<1>7. \A i \in 0 .. k : e[q + i] = e[q] + c[p + i] - c[p]
  <2>1. SUFFICES ASSUME NEW i \in 0 .. k PROVE e[q + i] = e[q] + c[p + i] - c[p]
    OBVIOUS
  <2>5. i \in Nat
    OBVIOUS
  <2>2. i \in S
    BY <1>6, <2>5
  <2>3. i <= k
    OBVIOUS
  <2>4. QED BY <2>2, <2>3
<1>8. QED BY <1>7 DEF c, e, Moved

(* Count(ds) of LA is the size of the chain in the memory as it is.        *)
LEMMA CountIs == \A ds : Count(ds) = Size(fsd, ds)
  BY DEF Count, Sums, Size

(* The elements of two sequences, one after the other. *)
LEMMA ConcatIs ==
  ASSUME NEW S, NEW a \in Seq(S), NEW b \in Seq(S)
  PROVE  /\ a \o b \in Seq(S) /\ Len(a \o b) = Len(a) + Len(b)
         /\ \A q \in 1 .. Len(a) : (a \o b)[q] = a[q]
         /\ \A q \in 1 .. Len(b) : (a \o b)[Len(a) + q] = b[q]
<1>1. /\ a \o b \in Seq(S) /\ Len(a \o b) = Len(a) + Len(b)
      /\ \A i \in 1 .. Len(a) + Len(b) : (a \o b)[i] = IF i <= Len(a) THEN a[i] ELSE b[i - Len(a)]
  BY ConcatProperties
<1>2. Len(a) \in Nat /\ Len(b) \in Nat
  OBVIOUS
<1> DEFINE c == a \o b
<1>3. \A i \in 1 .. Len(a) + Len(b) : c[i] = IF i <= Len(a) THEN a[i] ELSE b[i - Len(a)]
  BY <1>1
<1> HIDE DEF c
<1>4. ASSUME NEW q \in 1 .. Len(a) PROVE c[q] = a[q]
  BY <1>2, <1>3
<1>5. ASSUME NEW q \in 1 .. Len(b) PROVE c[Len(a) + q] = b[q]
  <2>1. Len(a) + q \in 1 .. Len(a) + Len(b) /\ ~ (Len(a) + q <= Len(a)) /\ Len(a) + q - Len(a) = q
    BY <1>2
  <2>2. QED BY <2>1, <1>3
<1>6. QED BY <1>1, <1>4, <1>5 DEF c

Splice(ds, i, new, j) == SubSeq(ds, 1, i - 1) \o new \o SubSeq(ds, j, Len(ds))

CutAt(ds, i, new, j) ==
  ds \in Seq(Fsd) /\ new \in Seq(Fsd) /\ i \in 1 .. Len(ds) + 1 /\ j \in i .. Len(ds) + 1

Spliced(ds, i, new, j, es) ==
  /\ es \in Seq(Fsd)
  /\ Len(es) = (i - 1) + Len(new) + (Len(ds) - (j - 1))
  /\ \A q \in 1 .. i - 1 : es[q] = ds[q]
  /\ \A q \in 1 .. Len(new) : es[(i - 1) + q] = new[q]
  /\ \A q \in 1 .. Len(ds) - (j - 1) : es[((i - 1) + Len(new)) + q] = ds[(j - 1) + q]

(* What Splice puts where: the part before, the new part and the part      *)
(* behind.                                                                 *)
LEMMA SpliceIs ==
  ASSUME NEW ds, NEW i, NEW new, NEW j, CutAt(ds, i, new, j)
  PROVE  Spliced(ds, i, new, j, Splice(ds, i, new, j))
<1>11. ds \in Seq(Fsd) /\ new \in Seq(Fsd) /\ i \in 1 .. Len(ds) + 1 /\ j \in i .. Len(ds) + 1
  BY DEF CutAt
<1> DEFINE a == SubSeq(ds, 1, i - 1)
           c == SubSeq(ds, j, Len(ds))
           n == Len(ds)
<1>0. n \in Nat /\ i \in Nat /\ j \in Nat /\ i >= 1 /\ i <= j /\ j <= n + 1
      /\ ds \in Seq(Fsd) /\ new \in Seq(Fsd)
  BY <1>11
<1>1. a \in Seq(Fsd) /\ Len(a) = i - 1 /\ \A q \in 1 .. i - 1 : a[q] = ds[q]
  BY <1>0
<1>2. c \in Seq(Fsd) /\ Len(c) = n - (j - 1) /\ \A q \in 1 .. n - (j - 1) : c[q] = ds[(j - 1) + q]
  <2>1. c \in Seq(Fsd) /\ Len(c) = n - (j - 1)
    BY <1>0
  <2>2. ASSUME NEW q \in 1 .. n - (j - 1) PROVE c[q] = ds[(j - 1) + q]
    <3>1. c[q] = ds[j + q - 1]
      BY <1>0
    <3>2. j + q - 1 = (j - 1) + q
      BY <1>0
    <3>3. QED BY <3>1, <3>2
  <2>3. QED BY <2>1, <2>2
<1> HIDE DEF a, c
<1> DEFINE b == a \o new
<1>3. /\ b \in Seq(Fsd) /\ Len(b) = (i - 1) + Len(new)
      /\ \A q \in 1 .. i - 1 : b[q] = ds[q]
      /\ \A q \in 1 .. Len(new) : b[(i - 1) + q] = new[q]
  <2>1. /\ b \in Seq(Fsd) /\ Len(b) = Len(a) + Len(new)
        /\ \A q \in 1 .. Len(a) : b[q] = a[q]
        /\ \A q \in 1 .. Len(new) : b[Len(a) + q] = new[q]
    <3>1. a \in Seq(Fsd) /\ new \in Seq(Fsd)
      BY <1>0, <1>1
    <3>2. QED BY <3>1, ConcatIs
  <2> HIDE DEF b
  <2>2. QED BY <2>1, <1>1
<1> HIDE DEF b
<1> DEFINE es == b \o c
<1>4. /\ es \in Seq(Fsd) /\ Len(es) = Len(b) + Len(c)
      /\ \A q \in 1 .. Len(b) : es[q] = b[q]
      /\ \A q \in 1 .. Len(c) : es[Len(b) + q] = c[q]
  <2>1. b \in Seq(Fsd) /\ c \in Seq(Fsd)
    BY <1>2, <1>3
  <2>2. QED BY <2>1, ConcatIs
<1>5. es = Splice(ds, i, new, j)
  BY DEF es, b, a, c, Splice
<1> HIDE DEF es
<1>6. Len(es) = (i - 1) + Len(new) + (n - (j - 1))
  BY <1>4, <1>3, <1>2
<1>7. ASSUME NEW q \in 1 .. i - 1 PROVE es[q] = ds[q]
  <2>1. q \in 1 .. Len(b)
    BY <1>3, <1>0
  <2>2. QED BY <2>1, <1>4, <1>3
<1>8. ASSUME NEW q \in 1 .. Len(new) PROVE es[(i - 1) + q] = new[q]
  <2>1. (i - 1) + q \in 1 .. Len(b)
    BY <1>3, <1>0
  <2>2. QED BY <2>1, <1>4, <1>3
<1>9. ASSUME NEW q \in 1 .. n - (j - 1) PROVE es[((i - 1) + Len(new)) + q] = ds[(j - 1) + q]
  <2>1. q \in 1 .. Len(c)
    BY <1>2
  <2>2. es[Len(b) + q] = c[q]
    BY <2>1, <1>4
  <2>3. QED BY <2>2, <1>2, <1>3
<1>10. Spliced(ds, i, new, j, es)
  BY <1>4, <1>6, <1>7, <1>8, <1>9 DEF Spliced
<1>12. QED BY <1>10, <1>5

(* Lines of a chain before each fsd, when a stretch of it is replaced and  *)
(* the fsds that stay keep their lengths.                                  *)
SameOutside(m, m2, ds, i, j) ==
  \A q \in 1 .. Len(ds) : (q < i \/ q >= j) => m2[ds[q]].fsdnlines = m[ds[q]].fsdnlines

SumsSpliced(m, m2, ds, i, new, j, es) ==
  /\ \A q \in 0 .. i - 1 : Sums(m2, es)[q] = Sums(m, ds)[q]
  /\ \A q \in 0 .. Len(new) : Sums(m2, es)[(i - 1) + q] = Sums(m, ds)[i - 1] + Sums(m2, new)[q]
  /\ \A q \in 0 .. Len(ds) - (j - 1) :
       Sums(m2, es)[((i - 1) + Len(new)) + q]
         = (Sums(m, ds)[i - 1] + Size(m2, new)) + Sums(m, ds)[(j - 1) + q] - Sums(m, ds)[j - 1]

(* The sums along a spliced chain: as before in front, by the new part     *)
(* within it, and moved behind it.                                         *)
LEMMA SumsSplice ==
  ASSUME NEW m \in [Fsd -> Fsds], NEW m2 \in [Fsd -> Fsds],
         NEW ds, NEW i, NEW new, NEW j, CutAt(ds, i, new, j), SameOutside(m, m2, ds, i, j)
  PROVE  SumsSpliced(m, m2, ds, i, new, j, Splice(ds, i, new, j))
<1>16. ds \in Seq(Fsd) /\ new \in Seq(Fsd) /\ i \in 1 .. Len(ds) + 1 /\ j \in i .. Len(ds) + 1
  BY DEF CutAt
<1> DEFINE es == Splice(ds, i, new, j)
           n == Len(ds)
           w == Len(new)
           c == Sums(m, ds)
           e == Sums(m2, es)
           v == Sums(m2, new)
<1>0. n \in Nat /\ i \in Nat /\ j \in Nat /\ i >= 1 /\ i <= j /\ j <= n + 1 /\ w \in Nat
      /\ ds \in Seq(Fsd) /\ new \in Seq(Fsd)
  BY <1>16
<1>1. /\ es \in Seq(Fsd)
      /\ Len(es) = (i - 1) + w + (n - (j - 1))
      /\ \A q \in 1 .. i - 1 : es[q] = ds[q]
      /\ \A q \in 1 .. w : es[(i - 1) + q] = new[q]
      /\ \A q \in 1 .. n - (j - 1) : es[((i - 1) + w) + q] = ds[(j - 1) + q]
  <2>1. Spliced(ds, i, new, j, es)
    BY SpliceIs
  <2> HIDE DEF es
  <2>2. QED BY <2>1 DEF Spliced
<1>2. c[0] = 0 /\ e[0] = 0 /\ v[0] = 0
  BY <1>0, <1>1, SumsIs
<1> HIDE DEF es
<1>3. es \in Seq(Fsd)
  BY <1>1
<1>15. \A q \in 1 .. Len(ds) : (q < i \/ q >= j) => m2[ds[q]].fsdnlines = m[ds[q]].fsdnlines
  BY DEF SameOutside
<1>4. \A q \in 0 .. i - 1 : e[0 + q] = e[0] + c[0 + q] - c[0]
  <2>1. /\ (0) \in Nat /\ (0) \in Nat /\ (i - 1) \in Nat
        /\ (0) + (i - 1) <= Len(ds) /\ (0) + (i - 1) <= Len(es)
    BY <1>0, <1>1
  <2>2. \A q \in 1 .. i - 1 : m2[es[0 + q]].fsdnlines = m[ds[0 + q]].fsdnlines
    <3>1. SUFFICES ASSUME NEW q \in 1 .. i - 1 PROVE m2[es[0 + q]].fsdnlines = m[ds[0 + q]].fsdnlines
      OBVIOUS
    <3>2. q \in 1 .. n /\ q < i /\ 0 + q = q
      BY <1>0
    <3>3. m2[ds[q]].fsdnlines = m[ds[q]].fsdnlines
      BY <3>2, <1>15
    <3>4. es[q] = ds[q]
      BY <1>1
    <3>5. QED BY <3>2, <3>3, <3>4
  <2>4. \A q \in 1 .. (i - 1) : m2[es[(0) + q]].fsdnlines = m[ds[(0) + q]].fsdnlines
    BY <2>2
  <2>5. \A p0, q0, k0 \in Nat : p0 = 0 /\ q0 = 0 /\ k0 = i - 1 =>
          \A x \in 0 .. k0 : e[q0 + x] = e[q0] + c[p0 + x] - c[p0]
    <3>1. SUFFICES ASSUME NEW p0 \in Nat, NEW q0 \in Nat, NEW k0 \in Nat, p0 = 0, q0 = 0, k0 = i - 1
                   PROVE  \A x \in 0 .. k0 : e[q0 + x] = e[q0] + c[p0 + x] - c[p0]
      OBVIOUS
    <3>2. Alike(m, ds, p0, m2, es, q0, k0)
      BY <2>1, <2>4, <3>1 DEF Alike
    <3>3. Moved(m, ds, p0, m2, es, q0, k0)
      BY <3>2, <1>3, <1>0, Shift
    <3>4. QED BY <3>3 DEF Moved
  <2>6. QED BY <2>5, <2>1
<1>5. \A q \in 0 .. w : e[(i - 1) + q] = e[i - 1] + v[0 + q] - v[0]
  <2>1. /\ (0) \in Nat /\ (i - 1) \in Nat /\ (w) \in Nat
        /\ (0) + (w) <= Len(new) /\ (i - 1) + (w) <= Len(es)
    BY <1>0, <1>1
  <2>2. \A q \in 1 .. w : m2[es[(i - 1) + q]].fsdnlines = m2[new[0 + q]].fsdnlines
    <3>1. SUFFICES ASSUME NEW q \in 1 .. w PROVE m2[es[(i - 1) + q]].fsdnlines = m2[new[0 + q]].fsdnlines
      OBVIOUS
    <3>2. 0 + q = q
      OBVIOUS
    <3>4. es[(i - 1) + q] = new[q]
      BY <1>1
    <3>5. QED BY <3>2, <3>4
  <2>4. \A q \in 1 .. (w) : m2[es[(i - 1) + q]].fsdnlines = m2[new[(0) + q]].fsdnlines
    BY <2>2
  <2>5. \A p0, q0, k0 \in Nat : p0 = 0 /\ q0 = i - 1 /\ k0 = w =>
          \A x \in 0 .. k0 : e[q0 + x] = e[q0] + v[p0 + x] - v[p0]
    <3>1. SUFFICES ASSUME NEW p0 \in Nat, NEW q0 \in Nat, NEW k0 \in Nat, p0 = 0, q0 = i - 1, k0 = w
                   PROVE  \A x \in 0 .. k0 : e[q0 + x] = e[q0] + v[p0 + x] - v[p0]
      BY SMTT(45)
    <3>2. Alike(m2, new, p0, m2, es, q0, k0)
      BY <2>1, <2>4, <3>1 DEF Alike
    <3>3. Moved(m2, new, p0, m2, es, q0, k0)
      BY <3>2, <1>3, <1>0, Shift
    <3>4. QED BY <3>3 DEF Moved
  <2>6. QED BY <2>5, <2>1
<1>6. \A q \in 0 .. n - (j - 1) : e[((i - 1) + w) + q] = e[(i - 1) + w] + c[(j - 1) + q] - c[j - 1]
  <2>8. Len(es) = (i - 1) + w + (n - (j - 1))
    BY <1>1
  <2>1. /\ j - 1 \in Nat /\ (i - 1) + w \in Nat /\ n - (j - 1) \in Nat
        /\ (j - 1) + (n - (j - 1)) <= n /\ ((i - 1) + w) + (n - (j - 1)) <= Len(es)
    BY <1>0, <2>8
  <2>2. \A q \in 1 .. n - (j - 1) : m2[es[((i - 1) + w) + q]].fsdnlines = m[ds[(j - 1) + q]].fsdnlines
    <3>1. SUFFICES ASSUME NEW q \in 1 .. n - (j - 1)
                   PROVE  m2[es[((i - 1) + w) + q]].fsdnlines = m[ds[(j - 1) + q]].fsdnlines
      OBVIOUS
    <3>2. (j - 1) + q \in 1 .. n /\ (j - 1) + q >= j
      BY <1>0
    <3>3. m2[ds[(j - 1) + q]].fsdnlines = m[ds[(j - 1) + q]].fsdnlines
      BY <3>2, <1>15
    <3>4. es[((i - 1) + w) + q] = ds[(j - 1) + q]
      BY <1>1
    <3>5. QED BY <3>3, <3>4
  <2>4. \A q \in 1 .. (n - (j - 1)) : m2[es[((i - 1) + w) + q]].fsdnlines = m[ds[(j - 1) + q]].fsdnlines
    BY <2>2
  <2>5. \A p0, q0, k0 \in Nat : p0 = j - 1 /\ q0 = (i - 1) + w /\ k0 = n - (j - 1) =>
          \A x \in 0 .. k0 : e[q0 + x] = e[q0] + c[p0 + x] - c[p0]
    <3>1. SUFFICES ASSUME NEW p0 \in Nat, NEW q0 \in Nat, NEW k0 \in Nat, p0 = j - 1, q0 = (i - 1) + w, k0 = n - (j - 1)
                   PROVE  \A x \in 0 .. k0 : e[q0 + x] = e[q0] + c[p0 + x] - c[p0]
      OBVIOUS
    <3>2. Alike(m, ds, p0, m2, es, q0, k0)
      BY <2>1, <2>4, <3>1 DEF Alike
    <3>3. Moved(m, ds, p0, m2, es, q0, k0)
      BY <3>2, <1>3, <1>0, Shift
    <3>4. QED BY <3>3 DEF Moved
  <2>6. QED BY <2>5, <2>1
<1>7. /\ \A q \in 0 .. n : c[q] \in Nat
      /\ \A q \in 0 .. w : v[q] \in Nat
  BY <1>0, SumsIs
<1> HIDE DEF c, e, v
<1>8. \A q \in 0 .. i - 1 : e[q] = c[q]
  <2>1. SUFFICES ASSUME NEW q \in 0 .. i - 1 PROVE e[q] = c[q]
    OBVIOUS
  <2>2. e[0 + q] = e[0] + c[0 + q] - c[0] /\ 0 + q = q
    BY <1>4
  <2>3. q \in 0 .. n
    BY <1>0
  <2>4. c[q] \in Nat
    BY <2>3, <1>7
  <2>5. e[q] = 0 + c[q] - 0
    BY <2>2, <1>2
  <2>6. QED BY <2>4, <2>5
<1>9. e[i - 1] = c[i - 1] /\ c[i - 1] \in Nat
  BY <1>8, <1>7, <1>0
<1>10. \A q \in 0 .. w : e[(i - 1) + q] = c[i - 1] + v[q]
  <2>1. SUFFICES ASSUME NEW q \in 0 .. w PROVE e[(i - 1) + q] = c[i - 1] + v[q]
    OBVIOUS
  <2>2. e[(i - 1) + q] = e[i - 1] + v[0 + q] - v[0] /\ 0 + q = q
    BY <1>5
  <2>4. v[q] \in Nat
    BY <1>7
  <2>5. e[(i - 1) + q] = c[i - 1] + v[q] - 0
    BY <2>2, <1>2, <1>9
  <2>6. QED BY <2>4, <2>5, <1>9
<1>11. e[(i - 1) + w] = c[i - 1] + v[w]
  BY <1>10, <1>0
<1>12. \A q \in 0 .. n - (j - 1) : e[((i - 1) + w) + q] = (c[i - 1] + v[w]) + c[(j - 1) + q] - c[j - 1]
  BY <1>11, <1>6
<1>13. Size(m2, new) = v[w]
  BY DEF Size, v
<1>14. SumsSpliced(m, m2, ds, i, new, j, es)
  BY <1>8, <1>10, <1>12, <1>13 DEF SumsSpliced, c, e, v
<1>17. QED BY <1>14 DEF es

-----------------------------------------------------------------------------
(* Places in a chain.                                                      *)

LinedOn(m, ds) == \A i \in 1 .. Len(ds) : m[ds[i]].fsdnlines >= 1

(* SumsIs for one chain, to be cited as a whole. *)
Summed(m, ds) ==
  /\ Sums(m, ds)[0] = 0
  /\ \A i \in 1 .. Len(ds) : Sums(m, ds)[i] = Sums(m, ds)[i - 1] + m[ds[i]].fsdnlines
  /\ \A i \in 0 .. Len(ds) : Sums(m, ds)[i] \in Nat

Rising(m, ds) ==
  \A i, j \in 0 .. Len(ds) : /\ i < j => Sums(m, ds)[i] < Sums(m, ds)[j]
                             /\ i <= j => Sums(m, ds)[i] <= Sums(m, ds)[j]

(* In a chain whose fsds all have lines, the sums rise.                    *)
LEMMA RisingIs ==
  ASSUME NEW m \in [Fsd -> Fsds], NEW ds \in Seq(Fsd), LinedOn(m, ds)
  PROVE  Rising(m, ds)
<1> DEFINE c == Sums(m, ds)
           n == Len(ds)
<1>1. /\ \A i \in 1 .. n : c[i] = c[i - 1] + m[ds[i]].fsdnlines
      /\ \A i \in 0 .. n : c[i] \in Nat
  BY SumsIs
<1>2. \A i \in 1 .. n : m[ds[i]].fsdnlines >= 1
  BY DEF LinedOn
<1>3. n \in Nat
  OBVIOUS
<1>4. \A i \in 1 .. n : m[ds[i]].fsdnlines \in Nat
  BY DEF Fsds
<1> HIDE DEF c, n
<1>5. ASSUME NEW i \in 0 .. n PROVE \A j \in 0 .. n : i < j => c[i] < c[j]
  <2> DEFINE S == {k \in Nat : (i < k /\ k <= n) => c[i] < c[k]}
  <2>1. 0 \in S
    OBVIOUS
  <2>2. ASSUME NEW k \in S PROVE k + 1 \in S
    <3>1. ASSUME i < k + 1, k + 1 <= n PROVE c[i] < c[k + 1]
      <4>1. k \in Nat /\ k + 1 \in 1 .. n /\ k \in 0 .. n /\ k + 1 - 1 = k /\ k <= n
        BY <3>1, <1>3
      <4>2. c[k + 1] = c[k] + m[ds[k + 1]].fsdnlines
        BY <4>1, <1>1
      <4>3. m[ds[k + 1]].fsdnlines >= 1 /\ m[ds[k + 1]].fsdnlines \in Nat
        BY <4>1, <1>2, <1>4
      <4>4. c[k] \in Nat /\ c[i] \in Nat
        BY <4>1, <1>1
      <4>5. c[k] < c[k + 1]
        BY <4>2, <4>3, <4>4
      <4>6. CASE i = k
        BY <4>5, <4>6
      <4>7. CASE i < k
        <5>1. c[i] < c[k]
          BY <4>1, <4>7
        <5>2. c[k + 1] \in Nat
          BY <4>2, <4>3, <4>4
        <5>3. QED BY <5>1, <5>2, <4>5, <4>4
      <4>8. QED BY <4>6, <4>7, <4>1, <3>1
    <3>2. k + 1 \in Nat
      OBVIOUS
    <3>3. QED BY <3>1, <3>2
  <2>3. S = Nat
    BY <2>1, <2>2, Induct
  <2>4. SUFFICES ASSUME NEW j \in 0 .. n, i < j PROVE c[i] < c[j]
    OBVIOUS
  <2>5. j \in Nat /\ j <= n
    BY <1>3
  <2>6. j \in S
    BY <2>5, <2>3
  <2>7. QED BY <2>4, <2>5, <2>6
<1>6. ASSUME NEW i \in 0 .. n, NEW j \in 0 .. n PROVE i <= j => c[i] <= c[j]
  <2>1. c[i] \in Nat /\ c[j] \in Nat
    BY <1>1
  <2>2. CASE i = j
    BY <2>1, <2>2
  <2>3. CASE i < j
    <3>1. c[i] < c[j]
      BY <1>5, <2>3
    <3>2. QED BY <3>1, <2>1
  <2>4. QED BY <2>2, <2>3, <1>3
<1>7. QED BY <1>5, <1>6 DEF Rising, c, n

(* The fsd that holds line t of a chain. *)
LEMMA Locate ==
  ASSUME NEW m \in [Fsd -> Fsds], NEW ds \in Seq(Fsd), NEW t \in Nat, t < Size(m, ds)
  PROVE  \E i \in 1 .. Len(ds) : Sums(m, ds)[i - 1] <= t /\ t < Sums(m, ds)[i]
<1> DEFINE c == Sums(m, ds)
           n == Len(ds)
<1>1. c[0] = 0 /\ \A i \in 0 .. n : c[i] \in Nat
  BY SumsIs
<1>2. n \in Nat
  OBVIOUS
<1>3. t < c[n]
  BY DEF Size
<1> HIDE DEF c, n
<1> DEFINE S == {i \in Nat : i <= n /\ t < c[i]}
<1>4. n \in S
  BY <1>2, <1>3
<1>5. S \in SUBSET Nat /\ S # {}
  BY <1>4
<1>6. PICK i \in S : \A j \in S : i <= j
  BY <1>5, Least
<1>7. i # 0
  BY <1>1
<1>8. i \in 1 .. n /\ i - 1 \in 0 .. n /\ i - 1 \in Nat
  BY <1>7, <1>2
<1>9. i - 1 \notin S
  BY <1>6, <1>8
<1>10. ~ (t < c[i - 1])
  BY <1>9, <1>8
<1>11. c[i - 1] \in Nat
  BY <1>1, <1>8
<1>12. c[i - 1] <= t /\ t < c[i]
  BY <1>10, <1>11
<1>13. QED BY <1>12, <1>8 DEF c, n

(* The empty fsd at the end of every chain (la_lfsd) is none of the fsds   *)
(* in memory.                                                              *)
LEMMA EofIs == Eof \notin Fsd /\ \A d \in Fsd : d # Eof
BY DEF Eof, Fsd

(* The place of an fsd in a chain that has it once. *)
LEMMA AtIs ==
  ASSUME NEW ds \in Seq(Fsd), Inj(ds), NEW i \in 1 .. Len(ds) + 1
  PROVE  At(ds, Nth(ds, i)) = i
<1>1. Len(ds) \in Nat /\ DOMAIN ds = 1 .. Len(ds)
  OBVIOUS
<1>2. CASE i = Len(ds) + 1
  <2>1. Nth(ds, i) = Eof
    BY <1>1, <1>2 DEF Nth
  <2>2. QED BY <2>1, <1>2 DEF At
<1>3. CASE i \in 1 .. Len(ds)
  <2>1. Nth(ds, i) = ds[i] /\ ds[i] \in Fsd
    BY <1>3 DEF Nth
  <2>2. ds[i] # Eof
    BY <2>1, EofIs
  <2>3. \A j \in 1 .. Len(ds) : ds[j] = ds[i] => j = i
    BY <1>3 DEF Inj
  <2>4. (CHOOSE j \in DOMAIN ds : ds[j] = ds[i]) = i
    BY <1>3, <1>1, <2>3
  <2>5. QED BY <2>1, <2>2, <2>4 DEF At
<1>4. QED BY <1>1, <1>2, <1>3

(* The lines before an fsd of a chain. *)
LEMMA BeforeIs ==
  ASSUME fsd \in [Fsd -> Fsds], NEW ds \in Seq(Fsd), Inj(ds), NEW i \in 1 .. Len(ds) + 1
  PROVE  Before(ds, Nth(ds, i)) = Sums(fsd, ds)[i - 1]
<1> DEFINE d == Nth(ds, i)
           es == SubSeq(ds, 1, i - 1)
           k == i - 1
<1>1. At(ds, d) = i
  BY AtIs
<1>2. k \in Nat /\ k <= Len(ds) /\ i - 1 = k
  OBVIOUS
<1>3. es \in Seq(Fsd) /\ Len(es) = k /\ \A q \in 1 .. k : es[q] = ds[q]
  BY <1>2
<1>4. Before(ds, d) = Count(es)
  BY <1>1 DEF Before
<1>5. Count(es) = Sums(fsd, es)[k]
  <2>1. Count(es) = Size(fsd, es)
    BY CountIs
  <2>2. QED BY <2>1, <1>3 DEF Size
<1>6. Sums(fsd, es)[k] = Sums(fsd, ds)[k]
  <2> HIDE DEF es
  <2>1. Sums(fsd, es)[0] = 0 /\ Sums(fsd, ds)[0] = 0
    BY <1>3, SumsIs
  <2>2. \A z \in Nat : z = 0 => Moved(fsd, ds, z, fsd, es, z, k)
    <3>1. SUFFICES ASSUME NEW z \in Nat, z = 0 PROVE Moved(fsd, ds, z, fsd, es, z, k)
      OBVIOUS
    <3>2. Alike(fsd, ds, z, fsd, es, z, k)
      BY <1>2, <1>3, <3>1 DEF Alike
    <3>3. es \in Seq(Fsd) /\ k \in Nat
      BY <1>2, <1>3
    <3> HIDE DEF k
    <3>4. QED BY <3>2, <3>3, Shift
  <2>3. Moved(fsd, ds, 0, fsd, es, 0, k)
    BY <2>2
  <2>4. \A q \in 0 .. k : Sums(fsd, es)[0 + q] = Sums(fsd, es)[0] + Sums(fsd, ds)[0 + q] - Sums(fsd, ds)[0]
    BY <2>3 DEF Moved
  <2>5. k \in 0 .. k /\ 0 + k = k
    BY <1>2
  <2>6. Sums(fsd, es)[k] = 0 + Sums(fsd, ds)[k] - 0
    BY <2>4, <2>5, <2>1
  <2>7. Sums(fsd, ds)[k] \in Nat
    <3>1. k \in 0 .. Len(ds)
      BY <1>2
    <3>2. QED BY <3>1, SumsIs
  <2>8. QED BY <2>6, <2>7
<1>7. QED BY <1>2, <1>4, <1>5, <1>6

-----------------------------------------------------------------------------
(* Breaking a chain: an fsd becomes two.                                   *)

(* An fsd becomes two. *)
BreakOf(m, ds, i, k, e, m2, es) ==
  /\ k \in Nat /\ 0 < k /\ k < m[ds[i]].fsdnlines
  /\ e \in Fsd /\ e \notin Elems(ds)
  /\ m2[ds[i]].fsdnlines = k /\ m2[e].fsdnlines = m[ds[i]].fsdnlines - k
  /\ \A d \in Fsd : d # ds[i] /\ d # e => m2[d].fsdnlines = m[d].fsdnlines
  /\ es = InsertAt(ds, i + 1, e)

InTwo(m, ds, i, k, e, m2, es) ==
  /\ es \in Seq(Fsd) /\ Len(es) = Len(ds) + 1
  /\ \A q \in 1 .. i : es[q] = ds[q]
  /\ es[i + 1] = e
  /\ \A q \in i + 1 .. Len(ds) : es[q + 1] = ds[q]
  /\ \A q \in 0 .. i - 1 : Sums(m2, es)[q] = Sums(m, ds)[q]
  /\ Sums(m2, es)[i] = Sums(m, ds)[i - 1] + k
  /\ \A q \in i .. Len(ds) : Sums(m2, es)[q + 1] = Sums(m, ds)[q]

(* What la_break makes of a chain: one fsd has become two, no line of it   *)
(* has moved, and the chain is as long in lines as before.                 *)
LEMMA InTwoIs ==
  ASSUME NEW m \in [Fsd -> Fsds], NEW ds \in Seq(Fsd), Inj(ds), NEW m2 \in [Fsd -> Fsds],
         NEW i \in 1 .. Len(ds), NEW k, NEW e, NEW es, BreakOf(m, ds, i, k, e, m2, es)
  PROVE  InTwo(m, ds, i, k, e, m2, es)
<1> DEFINE n == Len(ds)
           d == ds[i]
           w == m[d].fsdnlines
           c == Sums(m, ds)
           s == Sums(m2, es)
           pr == << d, e >>
           v == Sums(m2, pr)
<1>1. /\ k \in Nat /\ 0 < k /\ k < w
      /\ e \in Fsd /\ e \notin Elems(ds)
      /\ m2[d].fsdnlines = k /\ m2[e].fsdnlines = w - k
      /\ \A f \in Fsd : f # d /\ f # e => m2[f].fsdnlines = m[f].fsdnlines
      /\ es = InsertAt(ds, i + 1, e)
  BY DEF BreakOf
<1>2. n \in Nat /\ i \in Nat /\ i >= 1 /\ i <= n /\ d \in Fsd /\ w \in Nat
  BY SMTT(45) DEF Fsds
<1>3. es = Splice(ds, i + 1, << e >>, i + 1)
  BY <1>1 DEF InsertAt, Splice
<1>4. /\ es \in Seq(Fsd)
      /\ Len(es) = n + 1
      /\ \A q \in 1 .. i : es[q] = ds[q]
      /\ es[i + 1] = e
      /\ \A q \in 1 .. n - i : es[i + 1 + q] = ds[i + q]
  <2> DEFINE one == << e >>
             j == i + 1
  <2>2. one \in Seq(Fsd) /\ Len(one) = 1 /\ one[1] = e
    BY <1>1
  <2>3. es = Splice(ds, j, one, j)
    BY <1>3
  <2>6. j - 1 = i /\ j = i + 1
    BY <1>2
  <2>1. CutAt(ds, j, one, j)
    BY <1>2, <2>2 DEF CutAt
  <2> HIDE DEF one, j
  <2>4. Spliced(ds, j, one, j, es)
    BY <2>1, <2>3, SpliceIs
  <2>5. /\ es \in Seq(Fsd)
        /\ Len(es) = i + 1 + (n - i)
        /\ \A q \in 1 .. i : es[q] = ds[q]
        /\ \A q \in 1 .. 1 : es[i + q] = one[q]
        /\ \A q \in 1 .. n - i : es[i + 1 + q] = ds[i + q]
    BY <2>4, <2>6, <2>2 DEF Spliced
  <2>7. Len(es) = n + 1
    BY <2>5, <1>2
  <2>8. es[i + 1] = one[1]
    BY <2>5
  <2>9. QED BY <2>5, <2>7, <2>8, <2>2
<1>5. pr \in Seq(Fsd) /\ Len(pr) = 2 /\ pr[1] = d /\ pr[2] = e
  BY <1>1, <1>2
<1> DEFINE es2 == Splice(ds, i, pr, i + 1)
<1>15. /\ i \in 1 .. Len(ds) + 1 /\ i + 1 \in i .. Len(ds) + 1
  BY <1>2
<1>6. /\ es2 \in Seq(Fsd)
      /\ Len(es2) = n + 1
      /\ \A q \in 1 .. i - 1 : es2[q] = ds[q]
      /\ \A q \in 1 .. 2 : es2[(i - 1) + q] = pr[q]
      /\ \A q \in 1 .. n - i : es2[i + 1 + q] = ds[i + q]
  <2>1. CutAt(ds, i, pr, i + 1)
    BY <1>15, <1>5 DEF CutAt
  <2> HIDE DEF pr
  <2>2. Spliced(ds, i, pr, i + 1, es2)
    BY <2>1, SpliceIs
  <2> HIDE DEF es2
  <2>3. (i - 1) + 2 = i + 1 /\ (i - 1) + 2 + (n - i) = n + 1
    BY <1>2
  <2>4. i + 1 - 1 = i
    BY <1>2
  <2>5. QED BY <2>2, <2>3, <2>4, <1>5 DEF Spliced
<1>7. es = es2
  <2> HIDE DEF es2, pr
  <2>1. ASSUME NEW q \in 1 .. n + 1 PROVE es[q] = es2[q]
    <3>1. CASE q \in 1 .. i - 1
      BY <3>1, <1>4, <1>6, <1>2
    <3>2. CASE q = i
      <4>1. es2[(i - 1) + 1] = d /\ (i - 1) + 1 = i
        BY <1>6, <1>5, <1>2
      <4>2. es[i] = ds[i]
        BY <1>4, <1>2
      <4>3. QED BY <4>1, <4>2, <3>2
    <3>3. CASE q = i + 1
      <4>1. es2[(i - 1) + 2] = e /\ (i - 1) + 2 = i + 1
        BY <1>6, <1>5, <1>2
      <4>2. QED BY <4>1, <3>3, <1>4
    <3>4. CASE q > i + 1
      <4>1. PICK j : j = q - (i + 1)
        OBVIOUS
      <4>2. j \in 1 .. n - i /\ i + 1 + j = q
        BY <3>4, <4>1, <1>2
      <4>3. es[i + 1 + j] = ds[i + j]
        BY <4>2, <1>4
      <4>4. es2[i + 1 + j] = ds[i + j]
        BY <4>2, <1>6
      <4>5. QED BY <4>2, <4>3, <4>4
    <3>5. QED BY <3>1, <3>2, <3>3, <3>4, <1>2
  <2>2. QED BY <2>1, <1>4, <1>6
<1>8. SameOutside(m, m2, ds, i, i + 1)
  <2>1. ASSUME NEW q \in 1 .. Len(ds), q < i \/ q >= i + 1 PROVE m2[ds[q]].fsdnlines = m[ds[q]].fsdnlines
    <3>1. ds[q] # d
      BY <2>1, <1>2 DEF Inj
    <3>2. ds[q] # e
      BY <1>1 DEF Elems
    <3>3. ds[q] \in Fsd
      OBVIOUS
    <3>4. QED BY <3>1, <3>2, <3>3, <1>1
  <2>2. QED BY <2>1 DEF SameOutside
<1>9. /\ \A q \in 0 .. i - 1 : s[q] = c[q]
      /\ \A q \in 0 .. 2 : s[(i - 1) + q] = c[i - 1] + v[q]
      /\ \A q \in 0 .. n - i : s[i + 1 + q] = (c[i - 1] + v[2]) + c[i + q] - c[i]
  <2>1. CutAt(ds, i, pr, i + 1)
    BY <1>15, <1>5 DEF CutAt
  <2> HIDE DEF pr
  <2>2. SumsSpliced(m, m2, ds, i, pr, i + 1, es2)
    BY <2>1, <1>8, SumsSplice
  <2> HIDE DEF es2
  <2>3. SumsSpliced(m, m2, ds, i, pr, i + 1, es)
    BY <2>2, <1>7
  <2>7. i + 1 - 1 = i
    BY <1>2
  <2>4. (i - 1) + 2 = i + 1
    BY <1>2
  <2>5. Size(m2, pr) = v[2]
    BY <1>5 DEF Size
  <2>6. QED BY <2>3, <2>4, <2>5, <2>7, <1>5 DEF SumsSpliced
<1>10. v[1] = k /\ v[2] = w
  <2>0. Summed(m2, pr)
    <3>1. pr \in Seq(Fsd)
      BY <1>5
    <3> HIDE DEF pr
    <3>2. QED BY <3>1, SumsIs DEF Summed
  <2>1. /\ v[0] = 0
        /\ \A q \in 1 .. 2 : v[q] = v[q - 1] + m2[pr[q]].fsdnlines
    BY <2>0, <1>5 DEF Summed
  <2> HIDE DEF v, pr
  <2>2. v[1] = v[1 - 1] + m2[pr[1]].fsdnlines /\ 1 - 1 = 0
    BY <2>1
  <2>3. v[2] = v[2 - 1] + m2[pr[2]].fsdnlines /\ 2 - 1 = 1
    BY <2>1
  <2>4. v[1] = 0 + k
    BY <2>1, <2>2, <1>5, <1>1
  <2>5. v[1] = k
    BY <2>4, <1>1
  <2>6. v[2] = k + (w - k)
    BY <2>3, <2>5, <1>5, <1>1
  <2>7. QED BY <2>5, <2>6, <1>1, <1>2
<1>11. c[i] = c[i - 1] + w /\ c[i - 1] \in Nat /\ c[i] \in Nat
  <2>1. Summed(m, ds)
    BY SumsIs DEF Summed
  <2>2. i - 1 \in 0 .. Len(ds) /\ i \in 0 .. Len(ds) /\ i \in 1 .. Len(ds)
    BY <1>2
  <2>3. QED BY <2>1, <2>2 DEF Summed
<1> HIDE DEF c, s, v
<1>12. s[i] = c[i - 1] + k
  <2>1. s[(i - 1) + 1] = c[i - 1] + v[1] /\ (i - 1) + 1 = i
    BY <1>9, <1>2
  <2>2. QED BY <2>1, <1>10
<1>13. ASSUME NEW q \in i .. n PROVE s[q + 1] = c[q]
  <2>1. q - i \in 0 .. n - i /\ i + 1 + (q - i) = q + 1 /\ i + (q - i) = q
    BY <1>2
  <2>2. s[q + 1] = (c[i - 1] + v[2]) + c[q] - c[i]
    BY <2>1, <1>9
  <2>3. Summed(m, ds)
    BY SumsIs DEF Summed
  <2>4. q \in 0 .. Len(ds)
    BY <1>2
  <2>5. c[q] \in Nat
    BY <2>3, <2>4 DEF Summed, c
  <2>6. QED BY <2>2, <2>5, <1>10, <1>11, <1>2
<1>14. ASSUME NEW q \in i + 1 .. n PROVE es[q + 1] = ds[q]
  <2>1. q - i \in 1 .. n - i /\ i + 1 + (q - i) = q + 1 /\ i + (q - i) = q
    BY <1>2
  <2>2. QED BY <2>1, <1>4
<1>16. QED BY <1>4, <1>9, <1>12, <1>13, <1>14 DEF InTwo, c, s

AfterB(x, d, k, e) ==
  IF x.la_cfsd = d /\ x.la_fsline >= k THEN [x EXCEPT !.la_cfsd = e, !.la_fsline = @ - k] ELSE x

(* A stream that is in a chain, and is moved as la_break moves it, is in   *)
(* the broken chain at the same line.                                      *)
LEMMA BreakStays ==
  ASSUME NEW m \in [Fsd -> Fsds], NEW ds \in Seq(Fsd), Inj(ds), NEW m2 \in [Fsd -> Fsds],
         NEW i \in 1 .. Len(ds), NEW k, NEW e, NEW es, BreakOf(m, ds, i, k, e, m2, es),
         NEW x \in LaStreams, InChain(m, ds, x)
  PROVE  InChain(m2, es, AfterB(x, ds[i], k, e))
<1> DEFINE n == Len(ds)
           d == ds[i]
           w == m[d].fsdnlines
           c == Sums(m, ds)
           s == Sums(m2, es)
           y == AfterB(x, d, k, e)
<1>1. /\ k \in Nat /\ 0 < k /\ k < w
      /\ e \in Fsd /\ e \notin Elems(ds)
      /\ m2[d].fsdnlines = k /\ m2[e].fsdnlines = w - k
      /\ \A f \in Fsd : f # d /\ f # e => m2[f].fsdnlines = m[f].fsdnlines
  BY DEF BreakOf
<1>2. n \in Nat /\ i \in Nat /\ i >= 1 /\ i <= n /\ d \in Fsd /\ w \in Nat /\ d # Eof /\ e # Eof
  <2>1. n \in Nat /\ i \in Nat /\ i >= 1 /\ i <= n /\ d \in Fsd
    OBVIOUS
  <2>2. w \in Nat
    BY <2>1 DEF Fsds
  <2>3. QED BY <1>1, <2>1, <2>2, EofIs
<1>3. InTwo(m, ds, i, k, e, m2, es)
  BY InTwoIs
<1>4. /\ es \in Seq(Fsd) /\ Len(es) = n + 1
      /\ \A q \in 1 .. i : es[q] = ds[q]
      /\ es[i + 1] = e
      /\ \A q \in i + 1 .. n : es[q + 1] = ds[q]
      /\ \A q \in 0 .. i - 1 : s[q] = c[q]
      /\ s[i] = c[i - 1] + k
      /\ \A q \in i .. n : s[q + 1] = c[q]
  BY <1>3 DEF InTwo
<1>5. PICK j \in 1 .. n + 1 : IsAt(m, ds, x, j)
  BY DEF InChain
<1>6. x.la_fsline \in Nat /\ x.la_lpos \in Nat
  BY DEF LaStreams
<1>7. \A q \in 1 .. n : q # i => ds[q] # d
  BY <1>2 DEF Inj
<1>8. \A q \in 1 .. n : ds[q] # e /\ ds[q] \in Fsd
  BY <1>1 DEF Elems
<1>9. c[i - 1] \in Nat
  BY <1>2, SumsIs
<1>10. /\ x.la_cfsd = Nth(ds, j) /\ x.la_fsline < Width(m, Nth(ds, j)) /\ x.la_lpos = c[j - 1] + x.la_fsline
  BY <1>5 DEF IsAt
<1> HIDE DEF c, s
<1>11. CASE j < i
  <2>1. j \in 1 .. n /\ j \in 1 .. i /\ j - 1 \in 0 .. i - 1 /\ j <= n /\ j <= n + 1 /\ j \in 1 .. Len(es) + 1
    BY <1>11, <1>2, <1>4
  <2>2. Nth(ds, j) = ds[j] /\ Nth(es, j) = ds[j]
    BY <2>1, <1>4 DEF Nth
  <2>3. ds[j] # d /\ ds[j] # e /\ ds[j] \in Fsd
    BY <2>1, <1>11, <1>7, <1>8, <1>2
  <2>4. ds[j] # Eof
    BY <2>3, EofIs
  <2>5. Width(m2, ds[j]) = Width(m, ds[j])
    BY <2>3, <2>4, <1>1 DEF Width
  <2>6. y = x
    BY <2>2, <2>3, <1>10 DEF AfterB
  <2>7. s[j - 1] = c[j - 1]
    BY <2>1, <1>4
  <2>8. IsAt(m2, es, x, j)
    BY <1>10, <2>2, <2>5, <2>7 DEF IsAt, s
  <2>9. QED BY <2>8, <2>6, <2>1 DEF InChain
<1>12. CASE j = i /\ x.la_fsline < k
  <2>1. j \in 1 .. n /\ j \in 1 .. i /\ i - 1 \in 0 .. i - 1 /\ j <= n /\ j <= n + 1 /\ j \in 1 .. Len(es) + 1
    BY <1>12, <1>2, <1>4
  <2>2. Nth(ds, j) = d /\ Nth(es, j) = d
    BY <2>1, <1>4, <1>12 DEF Nth
  <2>5. Width(m2, d) = k
    BY <1>1, <1>2 DEF Width
  <2>6. y = x
    BY <1>12, <1>6, <1>1 DEF AfterB
  <2>7. s[j - 1] = c[j - 1]
    BY <2>1, <1>4, <1>12
  <2>8. IsAt(m2, es, x, j)
    BY <1>10, <2>2, <2>5, <2>7, <1>12 DEF IsAt, s
  <2>9. QED BY <2>8, <2>6, <2>1 DEF InChain
<1>13. CASE j = i /\ x.la_fsline >= k
  <2>1. i + 1 \in 1 .. Len(es) + 1 /\ i + 1 <= n + 1 /\ j <= n /\ i + 1 - 1 = i
    BY <1>13, <1>2, <1>4
  <2>2. Nth(ds, j) = d
    BY <2>1, <1>13 DEF Nth
  <2>3. Nth(es, i + 1) = e
    BY <2>1, <1>4 DEF Nth
  <2>4. Width(m2, e) = w - k
    BY <1>1, <1>2 DEF Width
  <2>5. Width(m, d) = w
    BY <1>2 DEF Width
  <2>6. y = [x EXCEPT !.la_cfsd = e, !.la_fsline = @ - k]
    BY <1>13, <1>10, <2>2 DEF AfterB
  <2>7. y.la_cfsd = e /\ y.la_fsline = x.la_fsline - k /\ y.la_lpos = x.la_lpos
    BY <2>6 DEF LaStreams
  <2>8. x.la_fsline < w /\ x.la_lpos = c[i - 1] + x.la_fsline
    BY <1>10, <2>2, <2>5, <1>13
  <2>9. y.la_fsline < w - k
    BY <2>7, <2>8, <1>6, <1>1, <1>2, SMTT(45)
  <2>10. y.la_lpos = s[i] + y.la_fsline
    BY <2>7, <2>8, <1>4, <1>9, <1>6, <1>1, SMTT(45)
  <2>11. IsAt(m2, es, y, i + 1)
    BY <2>1, <2>3, <2>4, <2>7, <2>9, <2>10 DEF IsAt, s
  <2>12. QED BY <2>11, <2>1 DEF InChain
<1>14. CASE j > i /\ j <= n
  <2>1. j \in 1 .. n /\ j \in i + 1 .. n /\ j - 1 \in i .. n /\ j + 1 <= n + 1 /\ j + 1 \in 1 .. Len(es) + 1
        /\ j + 1 - 1 = j /\ (j - 1) + 1 = j
    BY <1>14, <1>2, <1>4
  <2>2. Nth(ds, j) = ds[j] /\ Nth(es, j + 1) = ds[j]
    BY <2>1, <1>4, <1>14 DEF Nth
  <2>3. ds[j] # d /\ ds[j] # e /\ ds[j] \in Fsd
    BY <2>1, <1>14, <1>7, <1>8, <1>2
  <2>4. ds[j] # Eof
    BY <2>3, EofIs
  <2>5. Width(m2, ds[j]) = Width(m, ds[j])
    BY <2>3, <2>4, <1>1 DEF Width
  <2>6. y = x
    BY <2>2, <2>3, <1>10 DEF AfterB
  <2>7. s[j] = c[j - 1]
    BY <2>1, <1>4
  <2>8. IsAt(m2, es, x, j + 1)
    BY <1>10, <2>1, <2>2, <2>5, <2>7 DEF IsAt, s
  <2>9. QED BY <2>8, <2>6, <2>1 DEF InChain
<1>15. CASE j = n + 1
  <2>1. j + 1 \in 1 .. Len(es) + 1 /\ ~ (j <= n) /\ ~ (j + 1 <= n + 1) /\ j + 1 - 1 = j /\ n \in i .. n /\ j - 1 = n
    BY <1>15, <1>2, <1>4
  <2>2. Nth(ds, j) = Eof /\ Nth(es, j + 1) = Eof
    BY <2>1, <1>4 DEF Nth
  <2>5. Width(m2, Eof) = 1 /\ Width(m, Eof) = 1
    BY DEF Width
  <2>6. y = x
    BY <2>2, <1>2, <1>10 DEF AfterB
  <2>7. s[j] = c[j - 1]
    BY <2>1, <1>4, <1>15
  <2>8. IsAt(m2, es, x, j + 1)
    BY <1>10, <2>1, <2>2, <2>5, <2>7 DEF IsAt, s
  <2>9. QED BY <2>8, <2>6, <2>1 DEF InChain
<1>16. QED
  <2>1. j < i \/ (j = i /\ x.la_fsline < k) \/ (j = i /\ x.la_fsline >= k) \/ (j > i /\ j <= n) \/ j = n + 1
    BY <1>2, <1>6, <1>1
  <2>2. QED BY <2>1, <1>11, <1>12, <1>13, <1>14, <1>15

BreakKeeps(m, ds, i, k, e, m2, es) ==
  /\ es \in Seq(Fsd) /\ Inj(es) /\ Elems(es) = Elems(ds) \cup {e}
  /\ Size(m2, es) = Size(m, ds)
  /\ \A n \in Nat : Bound(m, ds, n) => Bound(m2, es, n)
  /\ Bound(m2, es, Sums(m, ds)[i - 1] + k)

(* Breaking keeps a chain free of repetitions, all its ends of fsds, and   *)
(* every stream in it.                                                     *)
LEMMA BreakChain ==
  ASSUME NEW m \in [Fsd -> Fsds], NEW ds \in Seq(Fsd), Inj(ds), NEW m2 \in [Fsd -> Fsds],
         NEW i \in 1 .. Len(ds), NEW k, NEW e, NEW es, BreakOf(m, ds, i, k, e, m2, es)
  PROVE  BreakKeeps(m, ds, i, k, e, m2, es)
<1> DEFINE n == Len(ds)
           c == Sums(m, ds)
           s == Sums(m2, es)
<1>1. e \in Fsd /\ e \notin Elems(ds)
  BY DEF BreakOf
<1>2. n \in Nat /\ i \in Nat /\ i >= 1 /\ i <= n
  OBVIOUS
<1>3. InTwo(m, ds, i, k, e, m2, es)
  BY InTwoIs
<1>4. /\ es \in Seq(Fsd) /\ Len(es) = n + 1
      /\ \A q \in 1 .. i : es[q] = ds[q]
      /\ es[i + 1] = e
      /\ \A q \in i + 1 .. n : es[q + 1] = ds[q]
      /\ \A q \in 0 .. i - 1 : s[q] = c[q]
      /\ s[i] = c[i - 1] + k
      /\ \A q \in i .. n : s[q + 1] = c[q]
  BY <1>3 DEF InTwo
<1>5. \A q \in 1 .. n : ds[q] # e
  BY <1>1 DEF Elems
<1>6. \A p, q \in 1 .. n : ds[p] = ds[q] => p = q
  BY DEF Inj
<1> HIDE DEF c, s
<1> DEFINE g(q) == IF q <= i THEN q ELSE q - 1
<1>7. ASSUME NEW q \in 1 .. n + 1, q # i + 1 PROVE g(q) \in 1 .. n /\ es[q] = ds[g(q)]
  <2>1. CASE q <= i
    <3>1. q \in 1 .. i /\ g(q) = q
      BY <2>1, <1>2
    <3>2. QED BY <3>1, <1>4, <1>2
  <2>2. CASE q > i + 1
    <3>1. q - 1 \in i + 1 .. n /\ g(q) = q - 1 /\ q - 1 + 1 = q
      BY <2>2, <1>2
    <3>2. QED BY <3>1, <1>4, <1>2
  <2>3. QED BY <2>1, <2>2, <1>7, <1>2
<1>8. Inj(es)
  <2>1. SUFFICES ASSUME NEW p \in 1 .. n + 1, NEW q \in 1 .. n + 1, es[p] = es[q] PROVE p = q
    BY <1>4 DEF Inj
  <2>2. CASE p # i + 1 /\ q # i + 1
    <3>1. g(p) \in 1 .. n /\ g(q) \in 1 .. n /\ ds[g(p)] = ds[g(q)]
      BY <2>1, <2>2, <1>7
    <3> HIDE DEF g
    <3>2. g(p) = g(q)
      BY <3>1, <1>6
    <3> USE DEF g
    <3>3. QED BY <3>2, <2>2, <1>2
  <2>3. CASE p = i + 1 /\ q # i + 1
    BY <2>1, <2>3, <1>7, <1>4, <1>5
  <2>4. CASE p # i + 1 /\ q = i + 1
    BY <2>1, <2>4, <1>7, <1>4, <1>5, SMTT(45)
  <2>5. QED BY <2>2, <2>3, <2>4
<1>9. Elems(es) = Elems(ds) \cup {e}
  <2>1. ASSUME NEW q \in 1 .. n + 1 PROVE es[q] \in Elems(ds) \cup {e}
    <3>1. CASE q = i + 1
      BY <3>1, <1>4
    <3>2. CASE q # i + 1
      BY <3>2, <1>7 DEF Elems
    <3>3. QED BY <3>1, <3>2
  <2>2. ASSUME NEW q \in 1 .. n PROVE ds[q] \in Elems(es)
    <3>1. CASE q <= i
      <4>1. q \in 1 .. i /\ q \in 1 .. Len(es)
        BY <3>1, <1>4, <1>2
      <4>2. QED BY <4>1, <1>4 DEF Elems
    <3>2. CASE q > i
      <4>1. q \in i + 1 .. n /\ q + 1 \in 1 .. Len(es)
        BY <3>2, <1>4, <1>2
      <4>2. QED BY <4>1, <1>4 DEF Elems
    <3>3. QED BY <3>1, <3>2, <1>2
  <2>3. e \in Elems(es)
    <3>1. i + 1 \in 1 .. Len(es)
      BY <1>2, <1>4
    <3>2. QED BY <3>1, <1>4 DEF Elems
  <2>4. ASSUME NEW f \in Elems(es) PROVE f \in Elems(ds) \cup {e}
    <3>1. PICK q \in 1 .. n + 1 : f = es[q]
      BY <2>4, <1>4 DEF Elems
    <3>2. QED BY <3>1, <2>1
  <2>5. ASSUME NEW f \in Elems(ds) PROVE f \in Elems(es)
    <3>1. PICK q \in 1 .. n : f = ds[q]
      BY <2>5 DEF Elems
    <3>2. QED BY <3>1, <2>2
  <2>6. QED BY <2>3, <2>4, <2>5
<1>10. Size(m2, es) = Size(m, ds)
  <2>1. s[n + 1] = c[n]
    BY <1>4, <1>2
  <2>2. QED BY <2>1, <1>4 DEF Size, s, c
<1>11. ASSUME NEW t \in Nat, Bound(m, ds, t) PROVE Bound(m2, es, t)
  <2>1. PICK q \in 0 .. n : c[q] = t
    BY <1>11 DEF Bound, c
  <2>2. CASE q <= i - 1
    <3>1. q \in 0 .. i - 1 /\ q \in 0 .. Len(es)
      BY <2>2, <1>2, <1>4
    <3>2. s[q] = t
      BY <3>1, <2>1, <1>4
    <3>3. QED BY <3>1, <3>2 DEF Bound, s
  <2>3. CASE q >= i
    <3>1. q \in i .. n /\ q + 1 \in 0 .. Len(es)
      BY <2>3, <1>2, <1>4
    <3>2. s[q + 1] = t
      BY <3>1, <2>1, <1>4
    <3>3. QED BY <3>1, <3>2 DEF Bound, s
  <2>4. QED BY <2>2, <2>3, <1>2
<1>12. Bound(m2, es, c[i - 1] + k)
  <2>1. i \in 0 .. Len(es)
    BY <1>2, <1>4
  <2>2. QED BY <2>1, <1>4 DEF Bound, s
<1>13. QED BY <1>4, <1>8, <1>9, <1>10, <1>11, <1>12 DEF BreakKeeps, c

-----------------------------------------------------------------------------
(* Changing a chain: some fsds go, others come.                            *)

(* A stretch of a chain, from the i-th fsd to before the j-th, is replaced. *)
Changed(m, ds, i, new, j, es) ==
  CutAt(ds, i, new, j) /\ Spliced(ds, i, new, j, es) /\ SumsSpliced(m, m, ds, i, new, j, es)

(* Splicing satisfies what Changed says of the chain before and after.     *)
LEMMA ChangedIs ==
  ASSUME NEW m \in [Fsd -> Fsds], NEW ds, NEW i, NEW new, NEW j, CutAt(ds, i, new, j)
  PROVE  Changed(m, ds, i, new, j, Splice(ds, i, new, j))
<1>1. SameOutside(m, m, ds, i, j)
  BY DEF SameOutside
<1>2. QED BY <1>1, SpliceIs, SumsSplice DEF Changed

ChangedFacts(m, ds, i, new, j, es) ==
  /\ ds \in Seq(Fsd) /\ new \in Seq(Fsd) /\ es \in Seq(Fsd)
  /\ i \in 1 .. Len(ds) + 1 /\ j \in 1 .. Len(ds) + 1 /\ i <= j /\ Len(new) \in Nat /\ Len(ds) \in Nat
  /\ Len(es) = (i - 1) + Len(new) + (Len(ds) - (j - 1))
  /\ \A q \in 1 .. i - 1 : es[q] = ds[q]
  /\ \A q \in 1 .. Len(new) : es[(i - 1) + q] = new[q]
  /\ \A q \in j .. Len(ds) : es[((i - 1) + Len(new)) + (q - (j - 1))] = ds[q]
  /\ \A q \in 0 .. i - 1 : Sums(m, es)[q] = Sums(m, ds)[q]
  /\ \A q \in 0 .. Len(new) : Sums(m, es)[(i - 1) + q] = Sums(m, ds)[i - 1] + Sums(m, new)[q]
  /\ \A q \in j - 1 .. Len(ds) :
       Sums(m, es)[((i - 1) + Len(new)) + (q - (j - 1))]
         = (Sums(m, ds)[i - 1] + Size(m, new)) + Sums(m, ds)[q] - Sums(m, ds)[j - 1]
  /\ \A q \in 0 .. Len(ds) : Sums(m, ds)[q] \in Nat
  /\ Size(m, new) \in Nat

(* What is needed of Changed, as one fact to cite.                         *)
LEMMA ChangedHas ==
  ASSUME NEW m \in [Fsd -> Fsds], NEW ds, NEW i, NEW new, NEW j, NEW es, Changed(m, ds, i, new, j, es)
  PROVE  ChangedFacts(m, ds, i, new, j, es)
<1>1. ds \in Seq(Fsd) /\ new \in Seq(Fsd) /\ i \in 1 .. Len(ds) + 1 /\ j \in i .. Len(ds) + 1
  BY DEF Changed, CutAt
<1>2. /\ es \in Seq(Fsd)
      /\ Len(es) = (i - 1) + Len(new) + (Len(ds) - (j - 1))
      /\ \A q \in 1 .. i - 1 : es[q] = ds[q]
      /\ \A q \in 1 .. Len(new) : es[(i - 1) + q] = new[q]
      /\ \A q \in 1 .. Len(ds) - (j - 1) : es[((i - 1) + Len(new)) + q] = ds[(j - 1) + q]
  BY DEF Changed, Spliced
<1>3. /\ \A q \in 0 .. i - 1 : Sums(m, es)[q] = Sums(m, ds)[q]
      /\ \A q \in 0 .. Len(new) : Sums(m, es)[(i - 1) + q] = Sums(m, ds)[i - 1] + Sums(m, new)[q]
      /\ \A q \in 0 .. Len(ds) - (j - 1) :
           Sums(m, es)[((i - 1) + Len(new)) + q]
             = (Sums(m, ds)[i - 1] + Size(m, new)) + Sums(m, ds)[(j - 1) + q] - Sums(m, ds)[j - 1]
  BY DEF Changed, SumsSpliced
<1>4. Len(ds) \in Nat /\ Len(new) \in Nat /\ j \in 1 .. Len(ds) + 1 /\ i <= j
  BY <1>1
<1>5. ASSUME NEW q \in j .. Len(ds) PROVE es[((i - 1) + Len(new)) + (q - (j - 1))] = ds[q]
  <2>1. q - (j - 1) \in 1 .. Len(ds) - (j - 1) /\ (j - 1) + (q - (j - 1)) = q
    BY <1>4
  <2>2. QED BY <2>1, <1>2
<1>6. ASSUME NEW q \in j - 1 .. Len(ds)
      PROVE  Sums(m, es)[((i - 1) + Len(new)) + (q - (j - 1))]
               = (Sums(m, ds)[i - 1] + Size(m, new)) + Sums(m, ds)[q] - Sums(m, ds)[j - 1]
  <2>1. q - (j - 1) \in 0 .. Len(ds) - (j - 1) /\ (j - 1) + (q - (j - 1)) = q
    BY <1>4
  <2>2. QED BY <2>1, <1>3
<1>7. Summed(m, ds) /\ Summed(m, new)
  BY <1>1, SumsIs DEF Summed
<1>8. Size(m, new) \in Nat
  <2>1. Len(new) \in 0 .. Len(new)
    BY <1>4
  <2>2. QED BY <2>1, <1>7 DEF Summed, Size
<1>9. QED BY <1>1, <1>2, <1>3, <1>4, <1>5, <1>6, <1>7, <1>8 DEF ChangedFacts, Summed

(* A stream before the stretch is where it was. *)
LEMMA Ahead ==
  ASSUME NEW m \in [Fsd -> Fsds], NEW ds, NEW i, NEW new, NEW j, NEW es, Changed(m, ds, i, new, j, es),
         NEW x, NEW l \in 1 .. Len(ds) + 1, l < i, IsAt(m, ds, x, l)
  PROVE  InChain(m, es, x)
<1>1. ChangedFacts(m, ds, i, new, j, es)
  BY ChangedHas
<1>2. /\ i \in 1 .. Len(ds) + 1 /\ j \in 1 .. Len(ds) + 1 /\ i <= j /\ Len(new) \in Nat /\ Len(ds) \in Nat
      /\ Len(es) = (i - 1) + Len(new) + (Len(ds) - (j - 1))
      /\ \A q \in 1 .. i - 1 : es[q] = ds[q]
      /\ \A q \in 0 .. i - 1 : Sums(m, es)[q] = Sums(m, ds)[q]
  BY <1>1 DEF ChangedFacts
<1>3. l \in 1 .. i - 1 /\ l - 1 \in 0 .. i - 1 /\ l <= Len(ds) /\ l <= Len(es) /\ l \in 1 .. Len(es) + 1
  BY <1>2
<1>4. Nth(es, l) = Nth(ds, l)
  BY <1>2, <1>3 DEF Nth
<1>5. Sums(m, es)[l - 1] = Sums(m, ds)[l - 1]
  BY <1>2, <1>3
<1>6. IsAt(m, es, x, l)
  BY <1>4, <1>5 DEF IsAt
<1>7. QED BY <1>3, <1>6 DEF InChain

Along(m, ds, i, new, j, x, y) ==
  /\ y.la_cfsd = x.la_cfsd /\ y.la_fsline = x.la_fsline
  /\ y.la_lpos = x.la_lpos + Size(m, new) - (Sums(m, ds)[j - 1] - Sums(m, ds)[i - 1])

NotBefore(m, ds, j, x, l) == l \in 1 .. Len(ds) + 1 /\ l >= j /\ IsAt(m, ds, x, l)

(* One behind it moves with the lines. *)
LEMMA Behind ==
  ASSUME NEW m \in [Fsd -> Fsds], NEW ds, NEW i, NEW new, NEW j, NEW es, Changed(m, ds, i, new, j, es),
         NEW x \in LaStreams, NEW l, NotBefore(m, ds, j, x, l), NEW y, Along(m, ds, i, new, j, x, y)
  PROVE  InChain(m, es, y)
<1>15. l \in 1 .. Len(ds) + 1 /\ l >= j /\ IsAt(m, ds, x, l)
  BY DEF NotBefore
<1>14. /\ y.la_cfsd = x.la_cfsd /\ y.la_fsline = x.la_fsline
       /\ y.la_lpos = x.la_lpos + Size(m, new) - (Sums(m, ds)[j - 1] - Sums(m, ds)[i - 1])
  BY DEF Along
<1>1. ChangedFacts(m, ds, i, new, j, es)
  BY ChangedHas
<1>2. /\ i \in 1 .. Len(ds) + 1 /\ j \in 1 .. Len(ds) + 1 /\ i <= j /\ Len(new) \in Nat /\ Len(ds) \in Nat
      /\ Len(es) = (i - 1) + Len(new) + (Len(ds) - (j - 1))
      /\ \A q \in j .. Len(ds) : es[((i - 1) + Len(new)) + (q - (j - 1))] = ds[q]
      /\ \A q \in j - 1 .. Len(ds) :
           Sums(m, es)[((i - 1) + Len(new)) + (q - (j - 1))]
             = (Sums(m, ds)[i - 1] + Size(m, new)) + Sums(m, ds)[q] - Sums(m, ds)[j - 1]
      /\ \A q \in 0 .. Len(ds) : Sums(m, ds)[q] \in Nat
      /\ Size(m, new) \in Nat
  BY <1>1 DEF ChangedFacts
<1> DEFINE w == Len(new)
           h == ((i - 1) + w) + (l - (j - 1))
           c == Sums(m, ds)
<1>3. /\ l - 1 \in j - 1 .. Len(ds) /\ h \in 1 .. Len(es) + 1
      /\ ((i - 1) + w) + ((l - 1) - (j - 1)) = h - 1
      /\ (l <= Len(ds) <=> h <= Len(es))
  <2> DEFINE n == Len(ds)
             e == Len(es)
  <2>1. /\ i \in 1 .. n + 1 /\ j \in 1 .. n + 1 /\ i <= j /\ w \in Nat /\ n \in Nat
        /\ e = (i - 1) + w + (n - (j - 1))
    BY <1>2
  <2>2. l \in 1 .. n + 1 /\ l >= j
    BY <1>15
  <2> HIDE DEF n, e, w
  <2>5. l \in Int /\ i \in Int /\ j \in Int /\ w \in Int /\ n \in Int /\ l <= n + 1 /\ 1 <= i /\ w >= 0
    BY <2>1, <2>2
  <2>6. h = i + w + l - j /\ e = i + w + n - j
    BY <2>1, <2>5
  <2>7. e - h = n - l /\ h \in Int /\ e \in Int /\ h >= 1
    BY <2>2, <2>5, <2>6
  <2>8. l - 1 \in j - 1 .. n
    BY <2>5, <2>2
  <2>9. ((i - 1) + w) + ((l - 1) - (j - 1)) = h - 1
    BY <2>5, <2>6
  <2> HIDE DEF h
  <2>10. h \in 1 .. e + 1 /\ (l <= n <=> h <= e)
    BY <2>5, <2>7
  <2>3. /\ l - 1 \in j - 1 .. n /\ h \in 1 .. e + 1
        /\ ((i - 1) + w) + ((l - 1) - (j - 1)) = h - 1
        /\ (l <= n <=> h <= e)
    BY <2>8, <2>9, <2>10
  <2>4. QED BY <2>3 DEF n, e
<1>4. Nth(es, h) = Nth(ds, l)
  <2>1. CASE l <= Len(ds)
    <3>1. l \in j .. Len(ds) /\ h <= Len(es)
      BY <2>1, <1>2, <1>3, <1>15
    <3>2. es[h] = ds[l]
      BY <3>1, <1>2
    <3> HIDE DEF h
    <3>3. QED BY <3>1, <3>2, <2>1 DEF Nth
  <2>2. CASE ~ (l <= Len(ds))
    BY <2>2, <1>3 DEF Nth
  <2>3. QED BY <2>1, <2>2
<1>5. Sums(m, es)[h - 1] = (c[i - 1] + Size(m, new)) + c[l - 1] - c[j - 1]
  <2>1. Sums(m, es)[((i - 1) + w) + ((l - 1) - (j - 1))] = (c[i - 1] + Size(m, new)) + c[l - 1] - c[j - 1]
    BY <1>2, <1>3
  <2>2. QED BY <2>1, <1>3
<1>6. c[i - 1] \in Nat /\ c[l - 1] \in Nat /\ c[j - 1] \in Nat
  <2>1. i - 1 \in 0 .. Len(ds) /\ l - 1 \in 0 .. Len(ds) /\ j - 1 \in 0 .. Len(ds)
    BY <1>2, <1>15
  <2>2. QED BY <2>1, <1>2
<1>7. x.la_cfsd = Nth(ds, l) /\ x.la_fsline < Width(m, Nth(ds, l)) /\ x.la_lpos = c[l - 1] + x.la_fsline
  BY <1>15 DEF IsAt
<1>8. x.la_fsline \in Nat /\ x.la_lpos \in Nat
  BY DEF LaStreams
<1> DEFINE z == Size(m, new)
           s == Sums(m, es)
<1>9. y.la_lpos = x.la_lpos + z - (c[j - 1] - c[i - 1]) /\ z \in Nat
  BY <1>2, <1>14
<1> HIDE DEF h, c, z, s
<1>10. s[h - 1] = (c[i - 1] + z) + c[l - 1] - c[j - 1]
  BY <1>5 DEF z, s
<1>11. y.la_lpos = s[h - 1] + y.la_fsline
  BY <1>14, <1>6, <1>7, <1>8, <1>9, <1>10
<1>12. IsAt(m, es, y, h)
  BY <1>4, <1>7, <1>11, <1>14 DEF IsAt, s
<1>13. QED BY <1>3, <1>12 DEF InChain

(* Where a line number is in a chain. *)
LEMMA Sides ==
  ASSUME NEW m \in [Fsd -> Fsds], NEW ds \in Seq(Fsd), LinedOn(m, ds), NEW x \in LaStreams,
         NEW l \in 1 .. Len(ds) + 1, IsAt(m, ds, x, l), NEW i \in 1 .. Len(ds) + 1
  PROVE  /\ x.la_lpos < Sums(m, ds)[i - 1] <=> l < i
         /\ x.la_lpos = Sums(m, ds)[i - 1] => l = i /\ x.la_fsline = 0
<1> DEFINE c == Sums(m, ds)
           n == Len(ds)
<1>1. /\ \A q \in 1 .. n : c[q] = c[q - 1] + m[ds[q]].fsdnlines
      /\ \A q \in 0 .. n : c[q] \in Nat
  BY SumsIs
<1>2. \A p, q \in 0 .. n : /\ p < q => c[p] < c[q]
                           /\ p <= q => c[p] <= c[q]
  BY RisingIs DEF Rising
<1>3. n \in Nat /\ x.la_fsline \in Nat /\ x.la_lpos \in Nat
  BY DEF LaStreams
<1>4. x.la_cfsd = Nth(ds, l) /\ x.la_fsline < Width(m, Nth(ds, l)) /\ x.la_lpos = c[l - 1] + x.la_fsline
  BY DEF IsAt
<1>5. l <= n => x.la_lpos < c[l]
  <2>1. SUFFICES ASSUME l <= n PROVE x.la_lpos < c[l]
    OBVIOUS
  <2>2. l \in 1 .. n /\ l - 1 \in 0 .. n
    BY <2>1, <1>3
  <2>3. Nth(ds, l) = ds[l] /\ ds[l] # Eof
    BY <2>2, <2>1, EofIs DEF Nth
  <2>4. Width(m, Nth(ds, l)) = m[ds[l]].fsdnlines /\ m[ds[l]].fsdnlines \in Nat
    BY <2>2, <2>3 DEF Width, Fsds
  <2>5. c[l] = c[l - 1] + m[ds[l]].fsdnlines /\ c[l - 1] \in Nat
    BY <2>2, <1>1
  <2> DEFINE w == m[ds[l]].fsdnlines
             a == c[l - 1]
             b == c[l]
  <2>6. x.la_fsline < w /\ w \in Nat /\ b = a + w /\ a \in Nat /\ x.la_lpos = a + x.la_fsline
    BY <1>4, <2>4, <2>5
  <2> HIDE DEF w, a, b
  <2>7. x.la_lpos < b
    BY <2>6, <1>3
  <2>8. QED BY <2>7 DEF b
<1>6. l - 1 \in 0 .. n /\ i - 1 \in 0 .. n
  BY <1>3
<1>7. c[l - 1] <= x.la_lpos /\ c[l - 1] \in Nat /\ c[i - 1] \in Nat
  BY <1>1, <1>3, <1>4, <1>6
<1> HIDE DEF c, n
<1>8. ASSUME l < i PROVE x.la_lpos < c[i - 1]
  <2>1. l \in 0 .. n /\ l <= i - 1 /\ l <= n
    BY <1>8, <1>3, <1>6
  <2>2. c[l] <= c[i - 1] /\ c[l] \in Nat
    BY <2>1, <1>6, <1>2, <1>1
  <2>3. x.la_lpos < c[l]
    BY <2>1, <1>5
  <2>4. QED BY <2>2, <2>3, <1>3, <1>7
<1>9. ASSUME ~ (l < i) PROVE ~ (x.la_lpos < c[i - 1])
  <2>1. i - 1 <= l - 1
    BY <1>9, <1>3
  <2>2. c[i - 1] <= c[l - 1]
    BY <2>1, <1>6, <1>2
  <2>3. QED BY <2>2, <1>7, <1>3
<1>10. ASSUME x.la_lpos = c[i - 1] PROVE l = i /\ x.la_fsline = 0
  <2>1. ~ (l < i)
    BY <1>8, <1>10, <1>7
  <2>2. ~ (i < l)
    <3>1. SUFFICES ASSUME i < l PROVE FALSE
      OBVIOUS
    <3>2. i - 1 < l - 1
      BY <3>1, <1>3
    <3>3. c[i - 1] < c[l - 1]
      BY <3>2, <1>6, <1>2
    <3>4. QED BY <3>3, <1>7, <1>10
  <2>3. l = i
    BY <2>1, <2>2
  <2>4. x.la_lpos = c[l - 1] + x.la_fsline
    BY <1>4 DEF c
  <2>5. x.la_fsline = 0
    BY <2>3, <2>4, <1>10, <1>7, <1>3
  <2>6. QED BY <2>3, <2>5
<1>11. QED BY <1>8, <1>9, <1>10 DEF c

(* A stream is between two fsds exactly if its line is at a boundary. *)
LEMMA BrokenIs ==
  ASSUME NEW m \in [Fsd -> Fsds], NEW ds \in Seq(Fsd), LinedOn(m, ds), NEW x \in LaStreams, InChain(m, ds, x)
  PROVE  Broken(x) <=> Bound(m, ds, x.la_lpos)
<1> DEFINE n == Len(ds)
<1>0. n \in Nat
  OBVIOUS
<1>1. PICK l \in 1 .. n + 1 : IsAt(m, ds, x, l)
  BY DEF InChain
<1>2. x.la_cfsd = Nth(ds, l) /\ x.la_fsline < Width(m, Nth(ds, l)) /\ x.la_lpos = Sums(m, ds)[l - 1] + x.la_fsline
  BY <1>1 DEF IsAt
<1>3. x.la_fsline \in Nat
  BY DEF LaStreams
<1>4. ASSUME Broken(x) PROVE x.la_fsline = 0
  <2>1. CASE x.la_cfsd = Eof
    BY <2>1, <1>2, <1>3 DEF Width
  <2>2. QED BY <2>1, <1>4 DEF Broken
<1>5. ASSUME x.la_fsline = 0 PROVE Bound(m, ds, x.la_lpos)
  <2>1. l - 1 \in 0 .. n
    BY <1>0
  <2>2. Sums(m, ds)[l - 1] \in Nat
    BY <2>1, SumsIs
  <2>3. Sums(m, ds)[l - 1] = x.la_lpos
    BY <2>2, <1>2, <1>5
  <2>4. QED BY <2>1, <2>3 DEF Bound
<1>6. ASSUME Bound(m, ds, x.la_lpos) PROVE Broken(x)
  <2>1. PICK q \in 0 .. n : Sums(m, ds)[q] = x.la_lpos
    BY <1>6 DEF Bound
  <2>2. \E i \in 1 .. Len(ds) + 1 : i - 1 = q
    <3>1. q + 1 \in 1 .. Len(ds) + 1 /\ q + 1 - 1 = q
      BY <1>0
    <3>2. QED BY <3>1
  <2>3. PICK i \in 1 .. Len(ds) + 1 : i - 1 = q
    BY <2>2
  <2>5. x.la_lpos = Sums(m, ds)[i - 1] => x.la_fsline = 0
    BY <1>1, Sides
  <2>4. QED BY <2>1, <2>3, <2>5 DEF Broken
<1>7. QED BY <1>4, <1>5, <1>6

(* A stream that is in a chain, and is moved as la_link moves it, is in    *)
(* the chain with the new fsds at its line.                                *)
LEMMA LinkStays ==
  ASSUME NEW m \in [Fsd -> Fsds], NEW ds, NEW i, NEW new, NEW es, Changed(m, ds, i, new, i, es),
         LinedOn(m, ds), LinedOn(m, new), new # << >>, NEW x \in LaStreams, InChain(m, ds, x),
         NEW at, at = Sums(m, ds)[i - 1], NEW n, n = Size(m, new)
  PROVE  InChain(m, es, AfterLink(x, at, new, n))
<1> DEFINE y == AfterLink(x, at, new, n)
           w == Len(new)
<1>1. ChangedFacts(m, ds, i, new, i, es)
  BY ChangedHas
<1>2. /\ ds \in Seq(Fsd) /\ new \in Seq(Fsd) /\ es \in Seq(Fsd)
      /\ i \in 1 .. Len(ds) + 1 /\ w \in Nat /\ Len(ds) \in Nat
      /\ Len(es) = (i - 1) + w + (Len(ds) - (i - 1))
      /\ Size(m, new) \in Nat
  BY <1>1 DEF ChangedFacts
<1>3. PICK l \in 1 .. Len(ds) + 1 : IsAt(m, ds, x, l)
  BY DEF InChain
<1>4. /\ x.la_lpos < at <=> l < i
      /\ x.la_lpos = at => l = i /\ x.la_fsline = 0
  BY <1>2, <1>3, Sides, SMTT(45)
<1>5. x.la_fsline \in Nat /\ x.la_lpos \in Nat
  BY DEF LaStreams
<1>6. at \in Nat
  <2>1. i - 1 \in 0 .. Len(ds)
    BY <1>2
  <2>2. QED BY <2>1, <1>2, SumsIs
<1>7. CASE x.la_lpos = at /\ x.la_stay
  <2>1. l = i /\ x.la_fsline = 0
    BY <1>4, <1>7
  <2>2. y = [x EXCEPT !.la_cfsd = Head(new), !.la_rlines = 0]
    BY <1>7, <1>5, <1>6 DEF AfterLink
  <2>3. y.la_cfsd = Head(new) /\ y.la_fsline = 0 /\ y.la_lpos = at
    BY <2>1, <2>2, <1>7 DEF LaStreams
  <2>4. w >= 1 /\ 1 \in 1 .. w
    BY <1>2
  <2>5. es[(i - 1) + 1] = new[1] /\ Sums(m, es)[i - 1] = Sums(m, ds)[i - 1]
    <3>1. 1 \in 1 .. Len(new) /\ i - 1 \in 0 .. i - 1
      BY <2>4, <1>2
    <3>2. /\ \A q \in 1 .. Len(new) : es[(i - 1) + q] = new[q]
          /\ \A q \in 0 .. i - 1 : Sums(m, es)[q] = Sums(m, ds)[q]
      BY <1>1 DEF ChangedFacts
    <3>3. QED BY <3>1, <3>2
  <2>6. i <= Len(es) /\ i \in 1 .. Len(es) + 1 /\ (i - 1) + 1 = i
    BY <2>4, <1>2
  <2>7. Nth(es, i) = Head(new) /\ Head(new) = new[1] /\ new[1] \in Fsd
    BY <2>4, <2>5, <2>6, <1>2 DEF Nth
  <2>8. Width(m, Head(new)) >= 1
    <3>1. new[1] # Eof
      BY <2>7, EofIs
    <3>2. m[new[1]].fsdnlines >= 1
      BY <2>4 DEF LinedOn
    <3>3. QED BY <2>7, <3>1, <3>2 DEF Width
  <2>13. Width(m, Head(new)) \in Nat
    <3>1. new[1] # Eof /\ m[new[1]].fsdnlines \in Nat
      BY <2>7, EofIs DEF Fsds
    <3>2. QED BY <3>1, <2>7 DEF Width
  <2>9. 0 < Width(m, Head(new))
    BY <2>8, <2>13
  <2>10. at = Sums(m, es)[i - 1] + 0
    BY <2>5, <1>6
  <2>11. IsAt(m, es, y, i)
    BY <2>3, <2>7, <2>9, <2>10 DEF IsAt
  <2>12. QED BY <2>6, <2>11 DEF InChain
<1>8. CASE x.la_lpos < at
  <2>1. l < i
    BY <1>4, <1>8
  <2>2. y = [x EXCEPT !.la_rlines = IF x.la_lpos + @ > at THEN 0 ELSE @]
    BY <1>8, <1>5, <1>6 DEF AfterLink
  <2>3. y.la_cfsd = x.la_cfsd /\ y.la_fsline = x.la_fsline /\ y.la_lpos = x.la_lpos
    BY <2>2 DEF LaStreams
  <2>4. IsAt(m, ds, y, l)
    BY <1>3, <2>3 DEF IsAt
  <2>5. QED BY <2>1, <2>4, Ahead
<1>9. CASE ~ (x.la_lpos < at) /\ ~ (x.la_lpos = at /\ x.la_stay)
  <2>1. l >= i
    BY <1>4, <1>9, <1>2
  <2>2. y = [x EXCEPT !.la_lpos = @ + n]
    BY <1>9 DEF AfterLink
  <2>3. y.la_cfsd = x.la_cfsd /\ y.la_fsline = x.la_fsline /\ y.la_lpos = x.la_lpos + n
    BY <2>2 DEF LaStreams
  <2>4. y.la_lpos = x.la_lpos + Size(m, new) - (Sums(m, ds)[i - 1] - Sums(m, ds)[i - 1])
    BY <2>3, <1>6, <1>5, <1>2, SMTT(45)
  <2>7. NotBefore(m, ds, i, x, l)
    BY <2>1, <1>3 DEF NotBefore
  <2>6. Along(m, ds, i, new, i, x, y)
    BY <2>3, <2>4 DEF Along
  <2> HIDE DEF y
  <2>5. InChain(m, es, y)
    BY <2>6, <2>7, Behind
  <2>8. QED BY <2>5 DEF y
<1>10. QED BY <1>7, <1>8, <1>9

AfterU(x, at, n, d) ==
  CASE x.la_lpos >= at + n -> [x EXCEPT !.la_lpos = @ - n]
    [] x.la_lpos < at -> [x EXCEPT !.la_rlines = IF x.la_lpos + @ > at THEN 0 ELSE @]
    [] OTHER -> [x EXCEPT !.la_cfsd = d, !.la_fsline = 0, !.la_lpos = at, !.la_rlines = 0]

(* A stream that is in a chain, and is moved as la_unlink moves it, is in  *)
(* the chain that is left.                                                 *)
LEMMA UnlinkStays ==
  ASSUME NEW m \in [Fsd -> Fsds], NEW ds, NEW i, NEW j, NEW es, Changed(m, ds, i, << >>, j, es),
         LinedOn(m, ds), NEW x \in LaStreams, InChain(m, ds, x),
         NEW at, at = Sums(m, ds)[i - 1], NEW n \in Nat, at + n = Sums(m, ds)[j - 1]
  PROVE  InChain(m, es, AfterU(x, at, n, Nth(ds, j)))
<1> DEFINE d == Nth(ds, j)
           y == AfterU(x, at, n, d)
           z == Size(m, << >>)
<1>1. ChangedFacts(m, ds, i, << >>, j, es)
  BY ChangedHas
<1>2. /\ ds \in Seq(Fsd) /\ es \in Seq(Fsd)
      /\ i \in 1 .. Len(ds) + 1 /\ j \in 1 .. Len(ds) + 1 /\ i <= j /\ Len(ds) \in Nat
      /\ Len(es) = (i - 1) + (Len(ds) - (j - 1))
  BY <1>1 DEF ChangedFacts
<1>12. z = 0
  <2> DEFINE em == << >>
  <2>1. em \in Seq(Fsd) /\ Len(em) = 0
    OBVIOUS
  <2> HIDE DEF em
  <2>2. Sums(m, em)[0] = 0
    BY <2>1, SumsIs
  <2>3. QED BY <2>1, <2>2 DEF Size, em
<1> HIDE DEF z
<1>3. PICK l \in 1 .. Len(ds) + 1 : IsAt(m, ds, x, l)
  BY DEF InChain
<1>4. x.la_lpos < at <=> l < i
  BY <1>2, <1>3, Sides
<1>11. x.la_lpos < at + n <=> l < j
  BY <1>2, <1>3, Sides
<1>5. x.la_fsline \in Nat /\ x.la_lpos \in Nat
  BY DEF LaStreams
<1>6. at \in Nat
  <2>1. i - 1 \in 0 .. Len(ds)
    BY <1>2
  <2>2. QED BY <2>1, <1>2, SumsIs
<1>7. CASE ~ (x.la_lpos >= at + n) /\ ~ (x.la_lpos < at)
  <2>2. y = [x EXCEPT !.la_cfsd = d, !.la_fsline = 0, !.la_lpos = at, !.la_rlines = 0]
    BY <1>7 DEF AfterU
  <2>3. y.la_cfsd = d /\ y.la_fsline = 0 /\ y.la_lpos = at
    BY <2>2 DEF LaStreams
  <2>5. Sums(m, es)[i - 1] = Sums(m, ds)[i - 1]
    <3>1. i - 1 \in 0 .. i - 1
      BY <1>2
    <3>2. \A q \in 0 .. i - 1 : Sums(m, es)[q] = Sums(m, ds)[q]
      BY <1>1 DEF ChangedFacts
    <3>3. QED BY <3>1, <3>2
  <2>6. i \in 1 .. Len(es) + 1 /\ (i <= Len(es) <=> j <= Len(ds))
    BY <1>2
  <2>7. Nth(es, i) = d
    <3>1. CASE j <= Len(ds)
      <4>1. j \in j .. Len(ds) /\ i <= Len(es) /\ ((i - 1) + 0) + (j - (j - 1)) = i
        BY <3>1, <1>2, <2>6
      <4>2. \A q \in j .. Len(ds) : es[((i - 1) + Len(<< >>)) + (q - (j - 1))] = ds[q]
        BY <1>1 DEF ChangedFacts
      <4>3. es[i] = ds[j]
        BY <4>1, <4>2
      <4>4. QED BY <4>1, <4>3, <3>1 DEF Nth
    <3>2. CASE ~ (j <= Len(ds))
      BY <3>2, <2>6 DEF Nth
    <3>3. QED BY <3>1, <3>2
  <2>8. 0 < Width(m, d)
    <3>1. CASE d = Eof
      BY <3>1 DEF Width
    <3>2. CASE d # Eof
      <4>1. j \in 1 .. Len(ds) /\ d = ds[j]
        BY <3>2, <1>2 DEF Nth
      <4>4. ds[j] \in Fsd
        BY <4>1, <1>2
      <4>5. m[ds[j]] \in Fsds
        BY <4>4
      <4>2. m[ds[j]].fsdnlines >= 1 /\ m[ds[j]].fsdnlines \in Nat
        BY <4>1, <4>5, <1>2 DEF LinedOn, Fsds
      <4> HIDE DEF d
      <4>3. Width(m, d) = m[ds[j]].fsdnlines
        BY <4>1, <3>2 DEF Width
      <4>6. QED BY <4>2, <4>3
    <3>3. QED BY <3>1, <3>2
  <2>10. at = Sums(m, es)[i - 1] + 0
    BY <2>5, <1>6
  <2>11. IsAt(m, es, y, i)
    BY <2>3, <2>7, <2>8, <2>10 DEF IsAt
  <2>12. QED BY <2>6, <2>11 DEF InChain
<1>8. CASE x.la_lpos < at
  <2>1. l < i
    BY <1>4, <1>8
  <2>2. y = [x EXCEPT !.la_rlines = IF x.la_lpos + @ > at THEN 0 ELSE @]
    BY <1>8, <1>5, <1>6 DEF AfterU
  <2>3. y.la_cfsd = x.la_cfsd /\ y.la_fsline = x.la_fsline /\ y.la_lpos = x.la_lpos
    BY <2>2 DEF LaStreams
  <2>4. IsAt(m, ds, y, l)
    BY <1>3, <2>3 DEF IsAt
  <2>5. QED BY <2>1, <2>4, Ahead
<1>9. CASE x.la_lpos >= at + n
  <2>1. l >= j
    BY <1>11, <1>9, <1>5, <1>6, <1>2, SMTT(45)
  <2>2. y = [x EXCEPT !.la_lpos = @ - n]
    BY <1>9, <1>5, <1>6 DEF AfterU
  <2>3. y.la_cfsd = x.la_cfsd /\ y.la_fsline = x.la_fsline /\ y.la_lpos = x.la_lpos - n
    BY <2>2 DEF LaStreams
  <2>4. y.la_lpos = x.la_lpos + Size(m, << >>) - (Sums(m, ds)[j - 1] - Sums(m, ds)[i - 1])
    BY <2>3, <1>6, <1>5, <1>12 DEF z
  <2>7. NotBefore(m, ds, j, x, l)
    BY <2>1, <1>3 DEF NotBefore
  <2>6. Along(m, ds, i, << >>, j, x, y)
    BY <2>3, <2>4 DEF Along
  <2> HIDE DEF y
  <2>5. InChain(m, es, y)
    BY <2>6, <2>7, Behind
  <2>8. QED BY <2>5 DEF y
<1>10. QED BY <1>7, <1>8, <1>9

-----------------------------------------------------------------------------
(* What ends of fsds and which fsds a changed chain has.                   *)

ChangeKeeps(m, ds, i, new, j, es) ==
  /\ Size(m, es) = Size(m, ds) + Size(m, new) - (Sums(m, ds)[j - 1] - Sums(m, ds)[i - 1])
  /\ \A t \in Nat : Bound(m, ds, t) /\ t <= Sums(m, ds)[i - 1] => Bound(m, es, t)
  /\ \A t \in Nat : Bound(m, ds, t) /\ t >= Sums(m, ds)[j - 1]
                      => Bound(m, es, t + Size(m, new) - (Sums(m, ds)[j - 1] - Sums(m, ds)[i - 1]))
  /\ Bound(m, es, Sums(m, ds)[i - 1])
  /\ Bound(m, es, Sums(m, ds)[i - 1] + Size(m, new))

(* Where fsds end in a chain that is changed at ends of fsds: before the   *)
(* change as before, and behind it as before but for the lines that came   *)
(* or went.                                                                *)
LEMMA ChangeBounds ==
  ASSUME NEW m \in [Fsd -> Fsds], NEW ds, NEW i, NEW new, NEW j, NEW es, Changed(m, ds, i, new, j, es),
         LinedOn(m, ds)
  PROVE  ChangeKeeps(m, ds, i, new, j, es)
<1> DEFINE n == Len(ds)
           w == Len(new)
           z == Size(m, new)
           c == Sums(m, ds)
           s == Sums(m, es)
           e == Len(es)
<1>1. ChangedFacts(m, ds, i, new, j, es)
  BY ChangedHas
<1>2. /\ i \in 1 .. n + 1 /\ j \in 1 .. n + 1 /\ i <= j /\ w \in Nat /\ n \in Nat /\ z \in Nat
      /\ e = (i - 1) + w + (n - (j - 1))
  BY <1>1 DEF ChangedFacts
<1>3. /\ \A q \in 0 .. i - 1 : s[q] = c[q]
      /\ \A q \in 0 .. w : s[(i - 1) + q] = c[i - 1] + Sums(m, new)[q]
      /\ \A q \in j - 1 .. n : s[((i - 1) + w) + (q - (j - 1))] = (c[i - 1] + z) + c[q] - c[j - 1]
      /\ \A q \in 0 .. n : c[q] \in Nat
  BY <1>1 DEF ChangedFacts
<1>4. \A p, q \in 0 .. n : p < q => c[p] < c[q]
  <2>1. Rising(m, ds)
    BY <1>1, RisingIs DEF ChangedFacts
  <2>2. QED BY <2>1 DEF Rising
<1>5. s[(i - 1) + w] = c[i - 1] + z
  <2>1. w \in 0 .. w /\ z = Sums(m, new)[w]
    BY <1>2 DEF Size
  <2> HIDE DEF z, s, c, w
  <2>2. QED BY <2>1, <1>3
<1>6. i - 1 \in 0 .. n /\ j - 1 \in 0 .. n /\ c[i - 1] \in Nat /\ c[j - 1] \in Nat /\ n \in 0 .. n /\ n \in j - 1 .. n
  <2>1. i - 1 \in 0 .. n /\ j - 1 \in 0 .. n /\ n \in 0 .. n /\ n \in j - 1 .. n
    BY <1>2
  <2>2. QED BY <2>1, <1>3
<1>7. Size(m, es) = Size(m, ds) + z - (c[j - 1] - c[i - 1])
  <2>1. s[((i - 1) + w) + (n - (j - 1))] = (c[i - 1] + z) + c[n] - c[j - 1]
    BY <1>3, <1>6
  <2>2. s[e] = (c[i - 1] + z) + c[n] - c[j - 1] /\ c[n] \in Nat
    BY <2>1, <1>2, <1>3, <1>6
  <2>3. Size(m, es) = s[e] /\ Size(m, ds) = c[n]
    BY DEF Size
  <2> HIDE DEF z, s, c, w, n, e
  <2>4. QED BY <2>2, <2>3, <1>2, <1>6
<1> HIDE DEF n, w, z, c, s, e
<1>8. ASSUME NEW t \in Nat, Bound(m, ds, t), t <= c[i - 1] PROVE Bound(m, es, t)
  <2>1. PICK q \in 0 .. n : c[q] = t
    BY <1>8 DEF Bound, n, c
  <2>2. ~ (i - 1 < q)
    <3>1. i - 1 < q => c[i - 1] < c[q]
      BY <1>4, <1>6
    <3>2. QED BY <3>1, <2>1, <1>8, <1>6
  <2>3. q \in 0 .. i - 1 /\ q \in 0 .. e
    BY <2>2, <1>2
  <2>4. s[q] = t
    BY <2>1, <2>3, <1>3
  <2>5. QED BY <2>3, <2>4 DEF Bound, s, e
<1>9. ASSUME NEW t \in Nat, Bound(m, ds, t), t >= c[j - 1]
      PROVE  Bound(m, es, t + z - (c[j - 1] - c[i - 1]))
  <2>1. PICK q \in 0 .. n : c[q] = t
    BY <1>9 DEF Bound, n, c
  <2>2. ~ (q < j - 1)
    <3>1. q < j - 1 => c[q] < c[j - 1]
      BY <1>4, <1>6
    <3>2. QED BY <3>1, <2>1, <1>9, <1>6
  <2>3. q \in j - 1 .. n
    BY <2>2, <1>2
  <2> DEFINE h == ((i - 1) + w) + (q - (j - 1))
  <2>4. h \in 0 .. e
    <3>1. q \in Int /\ i \in Int /\ j \in Int /\ w \in Int /\ n \in Int /\ q <= n /\ 1 <= i /\ w >= 0 /\ q >= j - 1
      BY <1>2, <2>3
    <3>2. h = i + w + q - j /\ e = i + w + n - j
      BY <1>2, <3>1
    <3>3. e - h = n - q /\ h \in Int /\ e \in Int /\ h >= 0
      BY <3>1, <3>2
    <3> HIDE DEF h
    <3>4. QED BY <3>1, <3>3
  <2>5. s[h] = (c[i - 1] + z) + c[q] - c[j - 1]
    BY <2>3, <1>3
  <2>6. s[h] = t + z - (c[j - 1] - c[i - 1])
    <3> HIDE DEF h
    <3>1. QED BY <2>5, <2>1, <1>6, <1>2
  <2> HIDE DEF h
  <2>7. QED BY <2>4, <2>6 DEF Bound, s, e
<1>10. Bound(m, es, c[i - 1])
  <2>1. i - 1 \in 0 .. i - 1 /\ i - 1 \in 0 .. e
    BY <1>2
  <2>2. QED BY <2>1, <1>3 DEF Bound, s, e
<1>11. Bound(m, es, c[i - 1] + z)
  <2>1. (i - 1) + w \in 0 .. e
    BY <1>2
  <2>2. QED BY <2>1, <1>5 DEF Bound, s, e
<1>12. QED BY <1>7, <1>8, <1>9, <1>10, <1>11 DEF ChangeKeeps, c, z

(* The fsds of a stretch of a chain. *)
PartIs(m, ds, i, j, cut) ==
  /\ cut \in Seq(Fsd) /\ Len(cut) = j - i
  /\ \A q \in 1 .. j - i : cut[q] = ds[(i - 1) + q]
  /\ Size(m, cut) = Sums(m, ds)[j - 1] - Sums(m, ds)[i - 1]

(* A part of a chain, from one end of an fsd to another, has as many lines *)
(* as the sums at its ends say.                                            *)
LEMMA PartHas ==
  ASSUME NEW m \in [Fsd -> Fsds], NEW ds \in Seq(Fsd), NEW i \in 1 .. Len(ds) + 1, NEW j \in i .. Len(ds) + 1
  PROVE  PartIs(m, ds, i, j, SubSeq(ds, i, j - 1))
<1> DEFINE cut == SubSeq(ds, i, j - 1)
           n == Len(ds)
<1>1. n \in Nat /\ i \in 1 .. n + 1 /\ j \in 1 .. n + 1 /\ i <= j /\ j - i \in Nat
  OBVIOUS
<1>2. cut \in Seq(Fsd) /\ Len(cut) = j - i
  BY <1>1
<1>3. ASSUME NEW q \in 1 .. j - i PROVE cut[q] = ds[(i - 1) + q]
  <2>1. cut[q] = ds[i + q - 1]
    BY <1>1
  <2>2. i + q - 1 = (i - 1) + q
    BY <1>1
  <2>3. QED BY <2>1, <2>2
<1> HIDE DEF cut
<1>4. \A p, z \in Nat : p = i - 1 /\ z = 0 => Moved(m, ds, p, m, cut, z, j - i)
  <2>1. SUFFICES ASSUME NEW p \in Nat, NEW z \in Nat, p = i - 1, z = 0 PROVE Moved(m, ds, p, m, cut, z, j - i)
    OBVIOUS
  <2> DEFINE k == j - i
  <2>2. Alike(m, ds, p, m, cut, z, k)
    BY <1>1, <1>2, <1>3, <2>1 DEF Alike
  <2>3. cut \in Seq(Fsd) /\ k \in Nat
    BY <1>1, <1>2
  <2> HIDE DEF k
  <2>4. Moved(m, ds, p, m, cut, z, k)
    BY <2>2, <2>3, Shift
  <2>5. QED BY <2>4 DEF k
<1>5. Moved(m, ds, i - 1, m, cut, 0, j - i)
  BY <1>1, <1>4
<1>6. Sums(m, cut)[0 + (j - i)] = Sums(m, cut)[0] + Sums(m, ds)[(i - 1) + (j - i)] - Sums(m, ds)[i - 1]
  <2>1. j - i \in 0 .. j - i
    BY <1>1
  <2>2. QED BY <1>5, <2>1 DEF Moved
<1>7. Sums(m, cut)[0] = 0
  BY <1>2, SumsIs
<1>8. 0 + (j - i) = j - i /\ (i - 1) + (j - i) = j - 1
  BY <1>1
<1>9. Sums(m, ds)[j - 1] \in Nat /\ Sums(m, ds)[i - 1] \in Nat
  <2>1. j - 1 \in 0 .. n /\ i - 1 \in 0 .. n
    BY <1>1
  <2>2. QED BY <2>1, SumsIs
<1> DEFINE a == Sums(m, ds)[j - 1]
           b == Sums(m, ds)[i - 1]
<1>10. Size(m, cut) = 0 + a - b
  BY <1>2, <1>6, <1>7, <1>8 DEF Size
<1>11. a \in Nat /\ b \in Nat
  BY <1>9
<1> HIDE DEF a, b
<1>12. Size(m, cut) = a - b
  BY <1>10, <1>11
<1>13. QED BY <1>2, <1>3, <1>12 DEF PartIs, cut, a, b

(* What is in a chain after a change, each fsd once. *)
ElemsAre(ds, i, new, j, es) ==
  /\ Inj(es) /\ Inj(SubSeq(ds, i, j - 1))
  /\ Elems(es) = (Elems(ds) \ Elems(SubSeq(ds, i, j - 1))) \cup Elems(new)
  /\ Elems(SubSeq(ds, i, j - 1)) \subseteq Elems(ds)

(* Which fsds a changed chain has, and that none is in it twice.           *)
LEMMA ChangeElems ==
  ASSUME NEW ds, NEW i, NEW new, NEW j, NEW es, CutAt(ds, i, new, j), Spliced(ds, i, new, j, es),
         Inj(ds), Inj(new), Elems(ds) \cap Elems(new) = {}
  PROVE  ElemsAre(ds, i, new, j, es)
<1> DEFINE n == Len(ds)
           w == Len(new)
           cut == SubSeq(ds, i, j - 1)
<1>1. /\ ds \in Seq(Fsd) /\ new \in Seq(Fsd)
      /\ n \in Nat /\ w \in Nat /\ i \in 1 .. n + 1 /\ j \in 1 .. n + 1 /\ i <= j /\ j \in i .. n + 1
  BY DEF CutAt
<1>2. /\ es \in Seq(Fsd)
      /\ Len(es) = (i - 1) + w + (n - (j - 1))
      /\ \A q \in 1 .. i - 1 : es[q] = ds[q]
      /\ \A q \in 1 .. w : es[(i - 1) + q] = new[q]
      /\ \A q \in 1 .. n - (j - 1) : es[((i - 1) + w) + q] = ds[(j - 1) + q]
  BY DEF Spliced
<1>3. /\ cut \in Seq(Fsd) /\ Len(cut) = j - i
      /\ \A q \in 1 .. j - i : cut[q] = ds[(i - 1) + q]
  <2>1. cut \in Seq(Fsd) /\ Len(cut) = j - i
    BY <1>1
  <2>2. ASSUME NEW q \in 1 .. j - i PROVE cut[q] = ds[(i - 1) + q]
    <3>1. cut[q] = ds[i + q - 1]
      BY <1>1
    <3>2. i + q - 1 = (i - 1) + q
      BY <1>1
    <3>3. QED BY <3>1, <3>2
  <2>3. QED BY <2>1, <2>2
<1>4. /\ \A p, q \in 1 .. n : ds[p] = ds[q] => p = q
      /\ \A p, q \in 1 .. w : new[p] = new[q] => p = q
      /\ \A p \in 1 .. n, q \in 1 .. w : ds[p] # new[q]
  BY SMTT(45) DEF Inj, Elems
<1> HIDE DEF n, w, cut
<1>5. ASSUME NEW p \in 1 .. Len(es)
      PROVE  \/ \E q \in 1 .. n : (q < i \/ q >= j) /\ es[p] = ds[q] /\ p = (IF q < i THEN q ELSE (i - 1) + w + (q - (j - 1)))
             \/ \E q \in 1 .. w : es[p] = new[q] /\ p = (i - 1) + q
  <2>1. CASE p <= i - 1
    <3>1. p \in 1 .. i - 1 /\ p \in 1 .. n /\ p < i
      BY <2>1, <1>1
    <3>2. QED BY <3>1, <1>2
  <2>2. CASE i <= p /\ p <= (i - 1) + w
    <3>1. p - (i - 1) \in 1 .. w /\ (i - 1) + (p - (i - 1)) = p
      BY <2>2, <1>1
    <3>2. es[p] = new[p - (i - 1)]
      BY <3>1, <1>2
    <3>3. QED BY <3>1, <3>2
  <2>3. CASE p > (i - 1) + w
    <3> DEFINE q == p - ((i - 1) + w)
    <3>1. q \in 1 .. n - (j - 1) /\ ((i - 1) + w) + q = p
      <4>1. Len(es) = (i - 1) + w + (n - (j - 1)) /\ i \in Nat /\ j \in Nat
        BY <1>2, <1>1
      <4>2. QED BY <4>1, <2>3, <1>1
    <3>2. es[p] = ds[(j - 1) + q]
      BY <3>1, <1>2
    <3> HIDE DEF q
    <3>3. \E u \in 1 .. n : u = (j - 1) + q /\ u >= j /\ ~ (u < i)
      <4>1. q \in Int /\ 1 <= q /\ q <= n - (j - 1) /\ i \in Int /\ j \in Int /\ n \in Int /\ i <= j /\ 1 <= i
        BY <3>1, <1>1
      <4>2. (j - 1) + q \in 1 .. n /\ (j - 1) + q >= j
        BY <4>1
      <4>3. ~ ((j - 1) + q < i)
        BY <4>1
      <4>4. QED BY <4>2, <4>3
    <3>4. PICK u \in 1 .. n : u = (j - 1) + q /\ u >= j /\ ~ (u < i)
      BY <3>3
    <3>5. es[p] = ds[u]
      BY <3>2, <3>4
    <3>6. u \in Int /\ q \in Int /\ i \in Int /\ j \in Int /\ w \in Int /\ p = ((i - 1) + w) + q
      BY <3>1, <3>4, <1>1
    <3>7. p = (i - 1) + w + (u - (j - 1))
      BY <3>4, <3>6
    <3>8. QED BY <3>4, <3>5, <3>7
  <2>4. QED BY <2>1, <2>2, <2>3, <1>1
<1>6. Inj(es)
  <2>1. SUFFICES ASSUME NEW p \in 1 .. Len(es), NEW r \in 1 .. Len(es), es[p] = es[r] PROVE p = r
    BY DEF Inj
  <2>2. CASE \E q \in 1 .. w : es[p] = new[q] /\ p = (i - 1) + q
    <3>1. PICK q \in 1 .. w : es[p] = new[q] /\ p = (i - 1) + q
      BY <2>2
    <3>2. CASE \E u \in 1 .. w : es[r] = new[u] /\ r = (i - 1) + u
      <4>1. PICK u \in 1 .. w : es[r] = new[u] /\ r = (i - 1) + u
        BY <3>2
      <4>2. u = q
        BY <4>1, <3>1, <2>1, <1>4
      <4>3. QED BY <4>1, <3>1, <4>2
    <3>3. CASE \E u \in 1 .. n : es[r] = ds[u]
      BY <3>1, <3>3, <2>1, <1>4
    <3>4. QED BY <3>2, <3>3, <1>5
  <2>3. CASE \E q \in 1 .. n : (q < i \/ q >= j) /\ es[p] = ds[q] /\ p = (IF q < i THEN q ELSE (i - 1) + w + (q - (j - 1)))
    <3>1. PICK q \in 1 .. n : es[p] = ds[q] /\ p = (IF q < i THEN q ELSE (i - 1) + w + (q - (j - 1)))
      BY <2>3
    <3>2. CASE \E u \in 1 .. w : es[r] = new[u]
      BY <3>1, <3>2, <2>1, <1>4
    <3>3. CASE \E u \in 1 .. n : es[r] = ds[u] /\ r = (IF u < i THEN u ELSE (i - 1) + w + (u - (j - 1)))
      <4>1. PICK u \in 1 .. n : es[r] = ds[u] /\ r = (IF u < i THEN u ELSE (i - 1) + w + (u - (j - 1)))
        BY <3>3
      <4>2. u = q
        BY <4>1, <3>1, <2>1, <1>4
      <4>3. QED BY <4>1, <3>1, <4>2
    <3>4. QED BY <3>2, <3>3, <1>5
  <2>4. QED BY <2>2, <2>3, <1>5
<1>7. Inj(cut)
  <2>1. SUFFICES ASSUME NEW p \in 1 .. j - i, NEW r \in 1 .. j - i, cut[p] = cut[r] PROVE p = r
    BY <1>3 DEF Inj
  <2>2. (i - 1) + p \in 1 .. n /\ (i - 1) + r \in 1 .. n
    BY <1>1
  <2>3. ds[(i - 1) + p] = ds[(i - 1) + r]
    BY <2>1, <1>3
  <2>4. (i - 1) + p = (i - 1) + r
    BY <2>2, <2>3, <1>4
  <2>5. QED BY <2>4, <1>1
<1>8. \A d : d \in Elems(cut) <=> \E q \in 1 .. n : i <= q /\ q < j /\ d = ds[q]
  <2>1. SUFFICES ASSUME NEW d PROVE d \in Elems(cut) <=> \E q \in 1 .. n : i <= q /\ q < j /\ d = ds[q]
    OBVIOUS
  <2>2. ASSUME d \in Elems(cut) PROVE \E q \in 1 .. n : i <= q /\ q < j /\ d = ds[q]
    <3>1. PICK p \in 1 .. j - i : d = cut[p]
      BY <2>2, <1>3 DEF Elems
    <3>2. (i - 1) + p \in 1 .. n /\ i <= (i - 1) + p /\ (i - 1) + p < j
      BY <1>1
    <3>3. d = ds[(i - 1) + p]
      BY <3>1, <1>3
    <3>4. QED BY <3>2, <3>3
  <2>3. ASSUME NEW q \in 1 .. n, i <= q, q < j, d = ds[q] PROVE d \in Elems(cut)
    <3>1. q - (i - 1) \in 1 .. j - i /\ (i - 1) + (q - (i - 1)) = q
      BY <1>1, <2>3
    <3>2. cut[q - (i - 1)] = ds[q]
      BY <3>1, <1>3
    <3>3. QED BY <3>1, <3>2, <2>3, <1>3 DEF Elems
  <2>4. QED BY <2>2, <2>3
<1>9. Elems(cut) \subseteq Elems(ds)
  BY <1>8 DEF Elems, n
<1>10. ASSUME NEW d \in Elems(es) PROVE d \in (Elems(ds) \ Elems(cut)) \cup Elems(new)
  <2>1. PICK p \in 1 .. Len(es) : d = es[p]
    BY <1>10 DEF Elems
  <2>2. CASE \E q \in 1 .. w : es[p] = new[q]
    BY <2>1, <2>2 DEF Elems, w
  <2>3. CASE \E q \in 1 .. n : (q < i \/ q >= j) /\ es[p] = ds[q]
    <3>1. PICK q \in 1 .. n : (q < i \/ q >= j) /\ es[p] = ds[q]
      BY <2>3
    <3>2. d \notin Elems(cut)
      <4>1. SUFFICES ASSUME NEW u \in 1 .. n, i <= u, u < j, d = ds[u] PROVE FALSE
        BY <1>8
      <4>2. u = q
        BY <4>1, <3>1, <2>1, <1>4
      <4>3. QED BY <4>1, <4>2, <3>1, <1>1
    <3>3. d \in Elems(ds)
      BY <3>1, <2>1 DEF Elems, n
    <3>4. QED BY <3>2, <3>3
  <2>4. QED BY <2>2, <2>3, <1>5
<1>11. ASSUME NEW d \in Elems(new) PROVE d \in Elems(es)
  <2>1. PICK q \in 1 .. w : d = new[q]
    BY <1>11 DEF Elems, w
  <2>2. (i - 1) + q \in 1 .. Len(es)
    BY <1>2, <1>1
  <2>3. es[(i - 1) + q] = d
    BY <2>1, <1>2
  <2>4. QED BY <2>2, <2>3 DEF Elems
<1>12. ASSUME NEW d \in Elems(ds), d \notin Elems(cut) PROVE d \in Elems(es)
  <2>1. PICK q \in 1 .. n : d = ds[q]
    BY <1>12 DEF Elems, n
  <2>2. q < i \/ q >= j
    BY <2>1, <1>8, <1>12, <1>1
  <2>3. CASE q < i
    <3>1. q \in 1 .. i - 1 /\ q \in 1 .. Len(es)
      BY <2>3, <1>1, <1>2, SMTT(45)
    <3>2. QED BY <3>1, <2>1, <1>2 DEF Elems
  <2>4. CASE q >= j
    <3>1. q - (j - 1) \in 1 .. n - (j - 1) /\ (j - 1) + (q - (j - 1)) = q /\ ((i - 1) + w) + (q - (j - 1)) \in 1 .. Len(es)
      BY <2>4, <1>1, <1>2
    <3>2. es[((i - 1) + w) + (q - (j - 1))] = d
      BY <3>1, <2>1, <1>2
    <3>3. QED BY <3>1, <3>2 DEF Elems
  <2>5. QED BY <2>2, <2>3, <2>4
<1>13. Elems(es) = (Elems(ds) \ Elems(cut)) \cup Elems(new)
  BY <1>10, <1>11, <1>12
<1>14. QED BY <1>6, <1>7, <1>9, <1>13 DEF ElemsAre, cut

-----------------------------------------------------------------------------
(* Seeking.                                                                *)

(* Another memory, in which the fsds of a chain have as many lines as before. *)
Alias(m, m2, ds) ==
  /\ Sums(m2, ds) = Sums(m, ds) /\ Size(m2, ds) = Size(m, ds)
  /\ \A x : InChain(m2, ds, x) <=> InChain(m, ds, x)
  /\ \A n : Bound(m2, ds, n) <=> Bound(m, ds, n)

SameLines(m, m2, ds) == \A q \in 1 .. Len(ds) : m2[ds[q]].fsdnlines = m[ds[q]].fsdnlines

(* Sums along a chain depend on nothing but how many lines its fsds have.  *)
LEMMA SameChain ==
  ASSUME NEW m \in [Fsd -> Fsds], NEW m2 \in [Fsd -> Fsds], NEW ds \in Seq(Fsd), SameLines(m, m2, ds)
  PROVE  Alias(m, m2, ds)
<1> DEFINE n == Len(ds)
           c == Sums(m, ds)
           e == Sums(m2, ds)
<1>1. n \in Nat
  OBVIOUS
<1>2. c[0] = 0 /\ e[0] = 0
  BY SumsIs
<1>3. \A z \in Nat : z = 0 => Moved(m, ds, z, m2, ds, z, n)
  <2>1. SUFFICES ASSUME NEW z \in Nat, z = 0 PROVE Moved(m, ds, z, m2, ds, z, n)
    OBVIOUS
  <2>2. Alike(m, ds, z, m2, ds, z, n)
    BY <2>1, <1>1 DEF Alike, SameLines
  <2> HIDE DEF n
  <2>3. QED BY <2>2, <1>1, Shift
<1>4. \A i \in 0 .. n : e[0 + i] = e[0] + c[0 + i] - c[0]
  BY <1>3 DEF Moved
<1>5. \A i \in 0 .. n : c[i] \in Nat
  BY SumsIs
<1>6. c = [i \in 0 .. n |-> IF i = 0 THEN 0 ELSE c[i - 1] + m[ds[i]].fsdnlines]
  BY <1>1, SumsDef
<1>7. e = [i \in 0 .. n |-> IF i = 0 THEN 0 ELSE e[i - 1] + m2[ds[i]].fsdnlines]
  BY <1>1, SumsDef
<1> HIDE DEF n, c, e
<1>8. \A i \in 0 .. n : e[i] = c[i]
  <2>1. SUFFICES ASSUME NEW i \in 0 .. n PROVE e[i] = c[i]
    OBVIOUS
  <2>2. 0 + i = i
    BY <1>1
  <2>3. e[i] = 0 + c[i] - 0
    BY <1>4, <1>2, <2>2
  <2>4. QED BY <2>3, <1>5
<1>9. e = c
  <2>1. DOMAIN e = 0 .. n /\ DOMAIN c = 0 .. n
    BY <1>6, <1>7
  <2>2. e = [i \in 0 .. n |-> e[i]] /\ c = [i \in 0 .. n |-> c[i]]
    BY <1>6, <1>7
  <2>3. QED BY <2>2, <1>8
<1>10. Sums(m2, ds) = Sums(m, ds)
  BY <1>9 DEF e, c
<1>11. Size(m2, ds) = Size(m, ds)
  BY <1>10 DEF Size
<1>12. \A i \in 1 .. Len(ds) + 1 : Width(m2, Nth(ds, i)) = Width(m, Nth(ds, i))
  <2>1. SUFFICES ASSUME NEW i \in 1 .. Len(ds) + 1 PROVE Width(m2, Nth(ds, i)) = Width(m, Nth(ds, i))
    OBVIOUS
  <2>2. CASE i <= Len(ds)
    <3>1. i \in 1 .. Len(ds) /\ Nth(ds, i) = ds[i]
      BY <2>2 DEF Nth
    <3>2. m2[ds[i]].fsdnlines = m[ds[i]].fsdnlines
      BY <3>1 DEF SameLines
    <3>3. QED BY <3>1, <3>2 DEF Width
  <2>3. CASE ~ (i <= Len(ds))
    BY <2>3 DEF Nth, Width
  <2>4. QED BY <2>2, <2>3
<1>13. ASSUME NEW x PROVE InChain(m2, ds, x) <=> InChain(m, ds, x)
  <2>1. \A i \in 1 .. Len(ds) + 1 : IsAt(m2, ds, x, i) <=> IsAt(m, ds, x, i)
    BY <1>10, <1>12 DEF IsAt
  <2>2. QED BY <2>1 DEF InChain
<1>14. \A q : Bound(m2, ds, q) <=> Bound(m, ds, q)
  BY <1>10 DEF Bound
<1>15. QED BY <1>10, <1>11, <1>13, <1>14 DEF Alias

(* A place in a chain is in the file: la_cfsd is an fsd of it or the end. *)
LEMMA HereIs ==
  ASSUME fsd \in [Fsd -> Fsds], NEW ds \in Seq(Fsd), Inj(ds), NEW x \in LaStreams,
         InChain(fsd, ds, x)
  PROVE  Before(ds, x.la_cfsd) + x.la_fsline = x.la_lpos
<1>1. PICK i \in 1 .. Len(ds) + 1 : IsAt(fsd, ds, x, i)
  BY DEF InChain
<1>2. Before(ds, Nth(ds, i)) = Sums(fsd, ds)[i - 1]
  BY BeforeIs
<1>3. QED BY <1>1, <1>2 DEF IsAt

SeekTo(x, n) == IF n <= 0 THEN 0 ELSE IF n >= laf[x.la_file].la_nlines THEN laf[x.la_file].la_nlines ELSE n

Sought(x, y, n) ==
  /\ y \in LaStreams /\ InChain(fsd, chain[x.la_file], y)
  /\ y.la_file = x.la_file /\ y.la_rlines = x.la_rlines /\ y.la_stay = x.la_stay
  /\ y.la_lpos = SeekTo(x, n)

PlaceArgs(x, d, k, n) == x \in LaStreams /\ d \in Fsd \cup {Eof} /\ k \in Nat /\ n \in Nat
PlacedAt(x, d, k, n, y) ==
  /\ y \in LaStreams
  /\ y.la_file = x.la_file /\ y.la_rlines = x.la_rlines
  /\ y.la_stay = x.la_stay /\ y.la_lpos = n
  /\ y.la_cfsd = d /\ y.la_fsline = k

(* What Place does to a stream.                                            *)
LEMMA PlaceIs ==
  ASSUME NEW x, NEW d, NEW k, NEW n, PlaceArgs(x, d, k, n)
  PROVE  PlacedAt(x, d, k, n, Place(x, d, k, n))
BY DEF PlaceArgs, PlacedAt, Place, LaStreams

(* A place in a chain is an fsd or the empty one at its end.               *)
LEMMA NthIn ==
  ASSUME NEW ds \in Seq(Fsd), NEW i \in 1 .. Len(ds) + 1
  PROVE  Nth(ds, i) \in Fsd \cup {Eof}
BY DEF Nth

(* la_lseek, from whichever end or from where it is, reaches the line that *)
(* was asked for, or the end of the file.                                  *)
LEMMA SeekIs ==
  ASSUME fsd \in [Fsd -> Fsds], NEW x \in LaStreams, chain[x.la_file] \in Seq(Fsd), Inj(chain[x.la_file]),
         LinedOn(fsd, chain[x.la_file]), InChain(fsd, chain[x.la_file], x),
         laf[x.la_file].la_nlines = Size(fsd, chain[x.la_file]), NEW n \in Int
  PROVE  Sought(x, Seek(x, n), n)
<1> DEFINE ds == chain[x.la_file]
           w  == laf[x.la_file].la_nlines
           l  == Len(ds)
           c  == Sums(fsd, ds)
<1>1. c[0] = 0 /\ (\A i \in 1 .. l : c[i] = c[i - 1] + fsd[ds[i]].fsdnlines) /\ \A i \in 0 .. l : c[i] \in Nat
  BY SumsIs
<1>2. l \in Nat /\ l + 1 \in 1 .. l + 1 /\ l + 1 - 1 = l
  OBVIOUS
<1>3. w = c[l]
  BY DEF Size
<1>4. w \in Nat
  BY <1>1, <1>2, <1>3
<1>5. \A i \in 1 .. l : fsd[ds[i]].fsdnlines >= 1 /\ fsd[ds[i]].fsdnlines \in Nat
  BY DEF LinedOn, Fsds
<1>6. x.la_lpos \in Nat /\ x.la_fsline \in Nat
  BY DEF LaStreams
<1>7. Here(x) = x.la_lpos
  BY HereIs DEF Here
<1>8. Count(ds) = w
  BY <1>3, CountIs DEF Size
<1>9. Counted(x, n) = n
  <2>1. n = w - (w - n) /\ n = x.la_lpos + n - x.la_lpos
    <3> HIDE DEF w
    <3>1. QED BY <1>4, <1>6
  <2>3. CASE FromBegin(x, n)
    <3>1. ~ FromEnd(x, n)
      BY <2>3, <1>6 DEF FromBegin, FromEnd
    <3>2. QED BY <2>3, <3>1 DEF Counted
  <2>4. CASE ~ FromBegin(x, n)
    <3>1. CASE FromEnd(x, n)
      BY <3>1, <2>4, <2>1, <1>8 DEF Counted
    <3>2. CASE ~ FromEnd(x, n)
      BY <3>2, <2>4, <2>1, <1>7 DEF Counted
    <3>3. QED BY <3>1, <3>2
  <2>5. QED BY <2>3, <2>4
<1>10. CASE n <= 0
  <2>1. Seek(x, n) = Place(x, First(ds), 0, 0)
    <3>1. CASE n >= w
      <4>1. w = 0
        BY <3>1, <1>10, <1>4
      <4>2. l = 0
        <5>1. SUFFICES ASSUME l # 0 PROVE FALSE
          OBVIOUS
        <5>2. l \in 1 .. l /\ l - 1 \in 0 .. l
          BY <5>1, <1>2
        <5>3. c[l] = c[l - 1] + fsd[ds[l]].fsdnlines /\ c[l - 1] \in Nat
          BY <5>2, <1>1
        <5>4. fsd[ds[l]].fsdnlines >= 1 /\ fsd[ds[l]].fsdnlines \in Nat
          BY <5>2, <1>5
        <5>5. QED BY <5>3, <5>4, <4>1, <1>3
      <4>3. First(ds) = Eof
        BY <4>2 DEF First
      <4>4. QED BY <4>1, <4>3, <3>1, <1>10 DEF Seek
    <3>2. CASE ~ (n >= w)
      BY <3>2, <1>10, <1>4 DEF Seek
    <3>3. QED BY <3>1, <3>2
  <2>2. First(ds) = Nth(ds, 1)
    BY <1>2 DEF First, Nth
  <2>3. 1 \in 1 .. l + 1
    BY <1>2
  <2>4. First(ds) \in Fsd \cup {Eof}
    BY <2>2, <2>3, NthIn
  <2> DEFINE y == Place(x, First(ds), 0, 0)
  <2>5. /\ y \in LaStreams
        /\ y.la_file = x.la_file /\ y.la_rlines = x.la_rlines
        /\ y.la_stay = x.la_stay /\ y.la_lpos = 0
        /\ y.la_cfsd = First(ds) /\ y.la_fsline = 0
    <3>1. PlaceArgs(x, First(ds), 0, 0)
      BY <2>4 DEF PlaceArgs
    <3>2. PlacedAt(x, First(ds), 0, 0, y)
      BY <3>1, PlaceIs
    <3>3. QED BY <3>2 DEF PlacedAt
  <2>6. 0 < Width(fsd, Nth(ds, 1))
    <3>1. CASE l >= 1
      BY <3>1, <1>5, EofIs, <1>2 DEF Nth, Width
    <3>2. CASE ~ (l >= 1)
      BY <3>2, <1>2 DEF Nth, Width
    <3>3. QED BY <3>1, <3>2
  <2> HIDE DEF y
  <2>7. IsAt(fsd, ds, y, 1)
    BY <2>5, <2>6, <2>2, <1>1 DEF IsAt
  <2>8. InChain(fsd, ds, y)
    BY <2>7, <2>3 DEF InChain
  <2>9. SeekTo(x, n) = 0
    BY <1>10 DEF SeekTo
  <2>10. Sought(x, y, n)
    BY <2>5, <2>8, <2>9 DEF Sought
  <2>11. QED BY <2>10, <2>1 DEF y
<1>11. CASE n > 0 /\ n >= w
  <2>1. Seek(x, n) = Place(x, Eof, 0, w)
    BY <1>11 DEF Seek
  <2> DEFINE y == Place(x, Eof, 0, w)
  <2>5. /\ y \in LaStreams
        /\ y.la_file = x.la_file /\ y.la_rlines = x.la_rlines
        /\ y.la_stay = x.la_stay /\ y.la_lpos = w
        /\ y.la_cfsd = Eof /\ y.la_fsline = 0
    <3>1. PlaceArgs(x, Eof, 0, w)
      BY <1>4 DEF PlaceArgs
    <3>2. PlacedAt(x, Eof, 0, w, y)
      BY <3>1, PlaceIs
    <3>3. QED BY <3>2 DEF PlacedAt
  <2>6. Nth(ds, l + 1) = Eof
    BY <1>2 DEF Nth
  <2> HIDE DEF y
  <2>7. IsAt(fsd, ds, y, l + 1)
    BY <2>5, <2>6, <1>2, <1>3, <1>4 DEF IsAt, Width
  <2>8. InChain(fsd, ds, y)
    BY <2>7, <1>2 DEF InChain
  <2>9. SeekTo(x, n) = w
    BY <1>11, <1>4 DEF SeekTo
  <2>10. Sought(x, y, n)
    BY <2>5, <2>8, <2>9 DEF Sought
  <2>11. QED BY <2>10, <2>1 DEF y
<1>12. CASE n > 0 /\ n < w
  <2>1. n \in Nat /\ n < Size(fsd, ds)
    BY <1>12
  <2>2. PICK i \in 1 .. l : c[i - 1] <= n /\ n < c[i]
    BY <2>1, Locate
  <2> DEFINE z == Counted(x, n)
             H == Holding(ds, z)
             d == CHOOSE e \in H : TRUE
  <2>3. Seek(x, n) = Place(x, d, z - Before(ds, d), n)
    <3>1. ~ (n <= 0) /\ ~ (n >= w)
      BY <1>12, <1>4
    <3>2. QED BY <3>1 DEF Seek
  <2>4. z = n
    BY <1>9
  <2>5. \A j \in 1 .. l : Before(ds, ds[j]) = c[j - 1]
    <3>1. SUFFICES ASSUME NEW j \in 1 .. l PROVE Before(ds, ds[j]) = c[j - 1]
      OBVIOUS
    <3>2. j \in 1 .. l + 1 /\ Nth(ds, j) = ds[j]
      BY <1>2 DEF Nth
    <3>3. QED BY <3>2, BeforeIs
  <2>6. DOMAIN ds = 1 .. l
    OBVIOUS
  <2> HIDE DEF z
  <2>7. ds[i] \in H
    <3>1. Before(ds, ds[i]) <= z /\ z < Before(ds, ds[i]) + fsd[ds[i]].fsdnlines
      BY <2>2, <2>4, <2>5, <1>1
    <3>2. QED BY <3>1, <2>6 DEF Holding
  <2>8. d \in H
    BY <2>7
  <2> HIDE DEF d
  <2>9. PICK j \in 1 .. l : d = ds[j] /\ Before(ds, ds[j]) <= z /\ z < Before(ds, ds[j]) + fsd[ds[j]].fsdnlines
    BY <2>8, <2>6 DEF Holding
  <2> DEFINE k == n - c[j - 1]
             y == Place(x, d, k, n)
  <2>10. Before(ds, d) = c[j - 1]
    BY <2>9, <2>5
  <2>11. c[j - 1] <= n /\ n < c[j - 1] + fsd[ds[j]].fsdnlines
    BY <2>9, <2>4, <2>5
  <2>12. j - 1 \in 0 .. l /\ j \in 1 .. l + 1
    BY <1>2
  <2>13. c[j - 1] \in Nat
    BY <2>12, <1>1
  <2>14. k \in Nat /\ k < fsd[ds[j]].fsdnlines /\ n = c[j - 1] + k
    <3> DEFINE b == c[j - 1]
               v == fsd[ds[j]].fsdnlines
    <3>1. b \in Nat /\ b <= n /\ n < b + v /\ v \in Nat
      BY <2>11, <2>13, <1>5
    <3> HIDE DEF b, v
    <3>2. n - b \in Nat /\ n - b < v /\ n = b + (n - b)
      BY <3>1, <2>1
    <3>3. QED BY <3>2 DEF b, v
  <2>15. d \in Fsd /\ d = Nth(ds, j) /\ d # Eof
    BY <2>9, EofIs, <1>2 DEF Nth
  <2>16. Seek(x, n) = y
    BY <2>3, <2>10, <2>4
  <2> HIDE DEF k
  <2>17. /\ y \in LaStreams
         /\ y.la_file = x.la_file /\ y.la_rlines = x.la_rlines
         /\ y.la_stay = x.la_stay /\ y.la_lpos = n
         /\ y.la_cfsd = d /\ y.la_fsline = k
    <3>1. PlaceArgs(x, d, k, n)
      BY <2>14, <2>15, <2>1 DEF PlaceArgs
    <3>2. PlacedAt(x, d, k, n, y)
      BY <3>1, PlaceIs
    <3>3. QED BY <3>2 DEF PlacedAt
  <2> HIDE DEF y
  <2>18. Width(fsd, Nth(ds, j)) = fsd[ds[j]].fsdnlines
    BY <2>15, <2>9 DEF Width
  <2>19. IsAt(fsd, ds, y, j)
    BY <2>17, <2>18, <2>14, <2>15 DEF IsAt
  <2>20. InChain(fsd, ds, y)
    BY <2>19, <2>12 DEF InChain
  <2>21. SeekTo(x, n) = n
    BY <1>12, <1>4 DEF SeekTo
  <2>22. Sought(x, y, n)
    BY <2>17, <2>20, <2>21 DEF Sought
  <2>23. QED BY <2>22, <2>16
<1>13. QED BY <1>10, <1>11, <1>12, <1>4

-----------------------------------------------------------------------------
(* Counting fsds, and keeping them apart.                                  *)

(* The fsds of a memory that describe lines of a file. *)
Those(m, f) == {d \in Fsd : m[d].fsdfile = f}

(* There are finitely many fsds, and any set of them has a size.           *)
LEMMA FsdFinite == \A S : S \subseteq Fsd => IsFiniteSet(S) /\ Cardinality(S) \in Nat
<1>1. IsFiniteSet(Fsd)
  BY FS_Interval, LimitAssumption DEF Fsd
<1>2. QED BY <1>1, FS_Subset, FS_CardinalityType

(* One fsd is taken for lines of file g. *)
Taken(m, m2, e, g) ==
  /\ e \in Fsd /\ m[e].fsdfile = NoFile /\ m2[e].fsdfile = g /\ g # NoFile
  /\ \A d \in Fsd : d # e => m2[d].fsdfile = m[d].fsdfile

Counted1(m, m2, g) ==
  \A f \in Files : Cardinality(Those(m2, f)) = IF f = g THEN Cardinality(Those(m, f)) + 1
                                               ELSE Cardinality(Those(m, f))

(* No file is not one of the files.                                        *)
LEMMA FilesAre == NoFile \notin Files
BY NameAssumption DEF Files

(* When one fsd is taken for lines of a file, there is one more that       *)
(* describes lines of that file.                                           *)
LEMMA TakenIs ==
  ASSUME NEW m, NEW m2, NEW e, NEW g, Taken(m, m2, e, g)
  PROVE  Counted1(m, m2, g)
<1>1. SUFFICES ASSUME NEW f \in Files
      PROVE Cardinality(Those(m2, f)) = IF f = g THEN Cardinality(Those(m, f)) + 1 ELSE Cardinality(Those(m, f))
  BY DEF Counted1
<1>2. f # NoFile
  BY FilesAre
<1>3. CASE f = g
  <2>1. Those(m2, f) = Those(m, f) \cup {e}
    BY <1>3 DEF Those, Taken
  <2>2. e \notin Those(m, f)
    BY <1>2 DEF Those, Taken
  <2>3. IsFiniteSet(Those(m, f))
    BY FsdFinite DEF Those
  <2>4. QED BY <2>1, <2>2, <2>3, <1>3, FS_AddElement
<1>4. CASE f # g
  <2>1. Those(m2, f) = Those(m, f)
    BY <1>4, <1>2 DEF Those, Taken
  <2>2. QED BY <2>1, <1>4
<1>5. QED BY <1>3, <1>4

OwnedIn(m, f, ds) == {i \in DOMAIN ds : m[ds[i]].fsdfile = f}

Freed(m, m2, ds) ==
  /\ ds \in Seq(Fsd) /\ Inj(ds)
  /\ \A d \in Fsd : m2[d] = IF d \in Elems(ds) THEN FreeFsd ELSE m[d]

CountedOff(m, m2, ds) ==
  \A f \in Files : /\ Cardinality(Those(m2, f)) = Cardinality(Those(m, f)) - Cardinality(OwnedIn(m, f, ds))
                   /\ Cardinality(OwnedIn(m, f, ds)) \in Nat

(* When a chain is freed, there are fewer fsds for lines of each file by   *)
(* as many as it had.                                                      *)
LEMMA FreedIs ==
  ASSUME NEW m, NEW m2, NEW ds, Freed(m, m2, ds)
  PROVE  CountedOff(m, m2, ds)
<1>1. SUFFICES ASSUME NEW f \in Files
      PROVE /\ Cardinality(Those(m2, f)) = Cardinality(Those(m, f)) - Cardinality(OwnedIn(m, f, ds))
            /\ Cardinality(OwnedIn(m, f, ds)) \in Nat
  BY DEF CountedOff
<1>2. f # NoFile
  BY FilesAre
<1> DEFINE A == Those(m2, f)
           B == {d \in Elems(ds) : m[d].fsdfile = f}
           O == OwnedIn(m, f, ds)
<1>3. ds \in Seq(Fsd) /\ DOMAIN ds = 1 .. Len(ds) /\ Len(ds) \in Nat
  BY DEF Freed
<1>4. Elems(ds) \subseteq Fsd
  BY <1>3 DEF Elems
<1>5. Those(m, f) = A \cup B
  BY <1>2, <1>4 DEF Those, Freed, FreeFsd
<1>6. A \cap B = {}
  BY <1>2, <1>4 DEF Those, Freed, FreeFsd
<1>7. IsFiniteSet(A) /\ IsFiniteSet(B) /\ Cardinality(A) \in Nat /\ Cardinality(B) \in Nat
  <2>1. A \subseteq Fsd /\ B \subseteq Fsd
    BY <1>4 DEF Those
  <2>2. QED BY <2>1, FsdFinite
<1>8. Cardinality(Those(m, f)) = Cardinality(A) + Cardinality(B) - 0
  <2>1. Cardinality(A \cup B) = Cardinality(A) + Cardinality(B) - Cardinality(A \cap B)
    BY <1>7, FS_Union
  <2>2. QED BY <2>1, <1>5, <1>6, FS_EmptySet
<1>9. Cardinality(O) = Cardinality(B)
  <2> DEFINE h == [i \in O |-> ds[i]]
  <2>1. h \in [O -> B]
    BY <1>3 DEF OwnedIn, Elems
  <2>2. \A i, j \in O : h[i] = h[j] => i = j
    BY <1>3 DEF OwnedIn, Inj, Freed
  <2>3. \A d \in B : \E i \in O : h[i] = d
    BY <1>3 DEF OwnedIn, Elems
  <2> HIDE DEF h
  <2> HIDE DEF O, B
  <2>4. h \in Bijection(O, B)
    <3>1. h \in Injection(O, B)
      BY <2>1, <2>2 DEF Injection, IsInjective
    <3>2. h \in Surjection(O, B)
      BY <2>1, <2>3 DEF Surjection
    <3>3. QED BY <3>1, <3>2 DEF Bijection
  <2>5. ExistsBijection(O, B)
    BY <2>4 DEF ExistsBijection
  <2>6. IsFiniteSet(O)
    <3>1. IsFiniteSet(1 .. Len(ds))
      BY <1>3, FS_Interval
    <3>2. O \subseteq 1 .. Len(ds)
      BY <1>3 DEF OwnedIn, O
    <3>3. QED BY <3>1, <3>2, FS_Subset
  <2>7. QED BY <2>5, <2>6, FS_Bijection
<1> DEFINE a == Cardinality(A)
           b == Cardinality(B)
<1>10. a \in Nat /\ b \in Nat /\ Cardinality(Those(m, f)) = a + b - 0 /\ Cardinality(O) = b
  BY <1>7, <1>8, <1>9
<1> HIDE DEF a, b
<1>11. a = Cardinality(Those(m, f)) - Cardinality(O) /\ Cardinality(O) \in Nat
  BY <1>10
<1>12. QED BY <1>11 DEF a

-----------------------------------------------------------------------------
(* Two of the lists change at once. *)
TwoChange(m, L, m2, L2, k, l) ==
  /\ k \in Spot /\ l \in Spot
  /\ \A j \in Spot : j # k /\ j # l => L2[j] = L[j]
  /\ Inj(L2[k]) /\ Inj(L2[l])
  /\ k # l => Elems(L2[k]) \cap Elems(L2[l]) = {}
  /\ \A d \in Elems(L2[k]) \cup Elems(L2[l]) :
       d \in Elems(L[k]) \cup Elems(L[l]) \/ m[d].fsdfile = NoFile
  /\ \A d \in Fsd : m2[d].fsdfile # NoFile <=>
                      \/ d \in Elems(L2[k]) \cup Elems(L2[l])
                      \/ m[d].fsdfile # NoFile /\ d \notin Elems(L[k]) \cup Elems(L[l])

InFsd(L) == \A k \in Spot : L[k] \in Seq(Fsd)

(* Placing is kept when two of the lists change and each fsd that leaves   *)
(* both is free, and each that comes was free.                             *)
LEMMA TwoChanged ==
  ASSUME NEW m, NEW L, NEW m2, NEW L2, NEW k, NEW l, TwoChange(m, L, m2, L2, k, l),
         InFsd(L), InFsd(L2), Placing(m, L)
  PROVE  Placing(m2, L2)
<1>0. \A j \in Spot : Elems(L[j]) \subseteq Fsd /\ Elems(L2[j]) \subseteq Fsd
  BY DEF InFsd, Elems
<1>1. /\ \A j \in Spot : Inj(L[j])
      /\ \A j, q \in Spot : j # q => Elems(L[j]) \cap Elems(L[q]) = {}
      /\ \A d \in Fsd : m[d].fsdfile # NoFile <=> \E j \in Spot : d \in Elems(L[j])
  BY DEF Placing, Apart, Used
<1>2. /\ k \in Spot /\ l \in Spot
      /\ \A j \in Spot : j # k /\ j # l => L2[j] = L[j]
      /\ Inj(L2[k]) /\ Inj(L2[l])
      /\ k # l => Elems(L2[k]) \cap Elems(L2[l]) = {}
      /\ \A d \in Elems(L2[k]) \cup Elems(L2[l]) :
           d \in Elems(L[k]) \cup Elems(L[l]) \/ m[d].fsdfile = NoFile
      /\ \A d \in Fsd : m2[d].fsdfile # NoFile <=>
                      \/ d \in Elems(L2[k]) \cup Elems(L2[l])
                      \/ m[d].fsdfile # NoFile /\ d \notin Elems(L[k]) \cup Elems(L[l])
  BY DEF TwoChange
<1>3. \A j \in Spot : Inj(L2[j])
  BY <1>1, <1>2
<1>4. \A j \in Spot : j # k /\ j # l => Elems(L2[j]) \cap (Elems(L2[k]) \cup Elems(L2[l])) = {}
  <2>1. SUFFICES ASSUME NEW j \in Spot, j # k, j # l, NEW d \in Elems(L2[k]) \cup Elems(L2[l]), d \in Elems(L2[j]) PROVE FALSE
    OBVIOUS
  <2>2. d \in Elems(L[j]) /\ d \in Fsd
    BY <2>1, <1>2, <1>0
  <2>3. m[d].fsdfile # NoFile
    BY <2>2, <1>1
  <2>4. d \in Elems(L[k]) \cup Elems(L[l])
    BY <2>1, <2>3, <1>2
  <2>5. QED BY <2>2, <2>4, <2>1, <1>1, <1>2
<1>5. \A j, q \in Spot : j # q => Elems(L2[j]) \cap Elems(L2[q]) = {}
  <2>1. SUFFICES ASSUME NEW j \in Spot, NEW q \in Spot, j # q PROVE Elems(L2[j]) \cap Elems(L2[q]) = {}
    OBVIOUS
  <2>2. CASE j \in {k, l} /\ q \in {k, l}
    BY <2>1, <2>2, <1>2
  <2>3. CASE j \in {k, l} /\ q \notin {k, l}
    BY <2>1, <2>3, <1>4
  <2>4. CASE j \notin {k, l} /\ q \in {k, l}
    BY <2>1, <2>4, <1>4
  <2>5. CASE j \notin {k, l} /\ q \notin {k, l}
    BY <2>1, <2>5, <1>1, <1>2
  <2>6. QED BY <2>2, <2>3, <2>4, <2>5
<1>6. ASSUME NEW d \in Fsd PROVE m2[d].fsdfile # NoFile <=> \E j \in Spot : d \in Elems(L2[j])
  <2>1. ASSUME m2[d].fsdfile # NoFile PROVE \E j \in Spot : d \in Elems(L2[j])
    <3>1. CASE d \in Elems(L2[k]) \cup Elems(L2[l])
      BY <3>1, <1>2
    <3>2. CASE m[d].fsdfile # NoFile /\ d \notin Elems(L[k]) \cup Elems(L[l])
      <4>1. PICK j \in Spot : d \in Elems(L[j])
        BY <3>2, <1>1
      <4>2. j # k /\ j # l
        BY <4>1, <3>2
      <4>3. QED BY <4>1, <4>2, <1>2
    <3>3. QED BY <2>1, <3>1, <3>2, <1>2
  <2>2. ASSUME NEW j \in Spot, d \in Elems(L2[j]) PROVE m2[d].fsdfile # NoFile
    <3>1. CASE j \in {k, l}
      BY <3>1, <2>2, <1>2
    <3>2. CASE j \notin {k, l}
      <4>1. d \in Elems(L[j])
        BY <3>2, <2>2, <1>2
      <4>2. m[d].fsdfile # NoFile /\ d \notin Elems(L[k]) \cup Elems(L[l])
        BY <4>1, <3>2, <1>1, <1>2
      <4>3. QED BY <4>2, <1>2
    <3>3. QED BY <3>1, <3>2
  <2>3. QED BY <2>1, <2>2
<1>7. QED BY <1>3, <1>5, <1>6 DEF Placing, Apart, Used

-----------------------------------------------------------------------------
(* What the books say of chains and streams.                               *)

(* The chains, and the lists an operation keeps. *)
LEMMA SpotsAre ==
  /\ \A f \in Files : << 0, f >> \in Spot
  /\ << 1, NoFile >> \in Spot /\ << 2, NoFile >> \in Spot /\ << 3, NoFile >> \in Spot
  /\ \A k \in Spot : (\E f \in Files : k = << 0, f >>) \/ k \in {<< 1, NoFile >>, << 2, NoFile >>, << 3, NoFile >>}
  /\ << 1, NoFile >> # << 2, NoFile >> /\ << 1, NoFile >> # << 3, NoFile >> /\ << 2, NoFile >> # << 3, NoFile >>
  /\ \A f \in Files : << 0, f >> # << 1, NoFile >> /\ << 0, f >> # << 2, NoFile >> /\ << 0, f >> # << 3, NoFile >>
  /\ \A f, g \in Files : << 0, f >> = << 0, g >> => f = g
BY DEF Spot

(* The lists of fsds, one by one.                                          *)
LEMMA ListsAre ==
  ASSUME NEW ch, NEW a, NEW b, NEW c
  PROVE  /\ \A f \in Files : ListsOf(ch, a, b, c)[<< 0, f >>] = ch[f]
         /\ ListsOf(ch, a, b, c)[<< 1, NoFile >>] = a
         /\ ListsOf(ch, a, b, c)[<< 2, NoFile >>] = b
         /\ ListsOf(ch, a, b, c)[<< 3, NoFile >>] = c
<1>1. ASSUME NEW f \in Files PROVE ListsOf(ch, a, b, c)[<< 0, f >>] = ch[f]
  <2>1. << 0, f >> \in Spot
    BY SpotsAre
  <2>2. << 0, f >>[1] = 0 /\ << 0, f >>[2] = f
    OBVIOUS
  <2>3. QED BY <2>1, <2>2 DEF ListsOf
<1>2. ListsOf(ch, a, b, c)[<< 1, NoFile >>] = a
  BY SpotsAre DEF ListsOf
<1>3. ListsOf(ch, a, b, c)[<< 2, NoFile >>] = b
  BY SpotsAre DEF ListsOf
<1>4. ListsOf(ch, a, b, c)[<< 3, NoFile >>] = c
  BY SpotsAre DEF ListsOf
<1>5. QED BY <1>1, <1>2, <1>3, <1>4

AllSeqs(ch, a, b, c) ==
  a \in Seq(Fsd) /\ b \in Seq(Fsd) /\ c \in Seq(Fsd) /\ \A f \in Files : ch[f] \in Seq(Fsd)

(* All lists are sequences of fsds when each of them is.                   *)
LEMMA InFsdIs ==
  ASSUME NEW ch, NEW a, NEW b, NEW c, AllSeqs(ch, a, b, c)
  PROVE  InFsd(ListsOf(ch, a, b, c))
<1> DEFINE L == ListsOf(ch, a, b, c)
<1>1. /\ \A f \in Files : L[<< 0, f >>] = ch[f]
      /\ L[<< 1, NoFile >>] = a /\ L[<< 2, NoFile >>] = b /\ L[<< 3, NoFile >>] = c
  BY ListsAre
<1> HIDE DEF L
<1>2. SUFFICES ASSUME NEW k \in Spot PROVE L[k] \in Seq(Fsd)
  BY DEF InFsd, L
<1>3. CASE \E f \in Files : k = << 0, f >>
  BY <1>1, <1>3 DEF AllSeqs
<1>4. CASE k \in {<< 1, NoFile >>, << 2, NoFile >>, << 3, NoFile >>}
  BY <1>1, <1>4 DEF AllSeqs
<1>5. QED BY <1>3, <1>4, SpotsAre

(* What a list of fsds in use is. *)
Chained(m, ds) == ds \in Seq(Fsd) /\ Inj(ds) /\ LinedOn(m, ds) /\ \A d \in Elems(ds) : d \in Fsd /\ m[d].fsdfile # NoFile

(* Every list is a chain: no fsd twice, and lines in each.                 *)
LEMMA ChainedIs ==
  ASSUME NEW m \in [Fsd -> Fsds], NEW L, InFsd(L), Placing(m, L), Lined(m)
  PROVE  \A k \in Spot : Chained(m, L[k])
<1>1. SUFFICES ASSUME NEW k \in Spot PROVE Chained(m, L[k])
  OBVIOUS
<1>2. L[k] \in Seq(Fsd) /\ Inj(L[k])
  BY DEF InFsd, Placing, Apart
<1>3. \A d \in Elems(L[k]) : d \in Fsd
  BY <1>2 DEF Elems
<1>4. \A d \in Elems(L[k]) : m[d].fsdfile # NoFile
  BY <1>3 DEF Placing, Used
<1>5. LinedOn(m, L[k])
  <2>1. SUFFICES ASSUME NEW q \in 1 .. Len(L[k]) PROVE m[L[k][q]].fsdnlines >= 1
    BY DEF LinedOn
  <2>2. L[k][q] \in Elems(L[k])
    BY DEF Elems
  <2>3. m[L[k][q]].fsdnlines \in 1 .. LA_FSDLMAX
    BY <2>2, <1>3, <1>4 DEF Lined
  <2>4. QED BY <2>3, LimitAssumption
<1>6. QED BY <1>2, <1>3, <1>4, <1>5 DEF Chained

(* The three lists of the operation are sequences of fsds.                 *)
LEMMA CallLists == TypeOK => call.new \in Seq(Fsd) /\ call.tail \in Seq(Fsd) /\ call.cut \in Seq(Fsd)
<1> SUFFICES ASSUME TypeOK PROVE call.new \in Seq(Fsd) /\ call.tail \in Seq(Fsd) /\ call.cut \in Seq(Fsd)
  OBVIOUS
<1>1. call \in Calls
  BY DEF TypeOK
<1>2. QED BY <1>1 DEF Calls

(* All lists are sequences of fsds.                                        *)
LEMMA ListsIn == TypeOK => InFsd(Lists)
<1> SUFFICES ASSUME TypeOK PROVE InFsd(Lists)
  OBVIOUS
<1>1. \A f \in Files : chain[f] \in Seq(Fsd)
  BY DEF TypeOK
<1>2. AllSeqs(chain, call.new, call.tail, call.cut)
  BY <1>1, CallLists DEF AllSeqs
<1>3. InFsd(ListsOf(chain, call.new, call.tail, call.cut))
  BY <1>2, InFsdIs
<1>4. QED BY <1>3 DEF Lists

(* The chain of every file and the lists of the operation are chains, by   *)
(* the books.                                                              *)
LEMMA ChainsAre ==
  ASSUME TypeOK, Books
  PROVE  /\ \A f \in Files : Chained(fsd, chain[f])
         /\ Chained(fsd, call.new) /\ Chained(fsd, call.tail) /\ Chained(fsd, call.cut)
<1>1. fsd \in [Fsd -> Fsds]
  BY DEF TypeOK
<1>2. InFsd(Lists)
  BY ListsIn
<1>3. Placing(fsd, Lists) /\ Lined(fsd)
  BY DEF Books
<1>4. \A k \in Spot : Chained(fsd, Lists[k])
  BY <1>1, <1>2, <1>3, ChainedIs
<1>5. /\ \A f \in Files : Lists[<< 0, f >>] = chain[f]
      /\ Lists[<< 1, NoFile >>] = call.new /\ Lists[<< 2, NoFile >>] = call.tail /\ Lists[<< 3, NoFile >>] = call.cut
  BY ListsAre DEF Lists
<1>6. QED BY <1>4, <1>5, SpotsAre

Disjoint(a, b) == Elems(a) \cap Elems(b) = {}

(* No fsd is in two of the chains and lists, by the books.                 *)
LEMMA ChainsApart ==
  ASSUME Books
  PROVE  /\ \A f, g \in Files : f # g => Disjoint(chain[f], chain[g])
         /\ \A f \in Files : Disjoint(chain[f], call.new) /\ Disjoint(chain[f], call.tail) /\ Disjoint(chain[f], call.cut)
         /\ Disjoint(call.new, call.tail) /\ Disjoint(call.new, call.cut) /\ Disjoint(call.tail, call.cut)
<1>1. /\ \A f \in Files : Lists[<< 0, f >>] = chain[f]
      /\ Lists[<< 1, NoFile >>] = call.new /\ Lists[<< 2, NoFile >>] = call.tail /\ Lists[<< 3, NoFile >>] = call.cut
  BY ListsAre DEF Lists
<1>2. \A k, l \in Spot : k # l => Elems(Lists[k]) \cap Elems(Lists[l]) = {}
  BY DEF Books, Placing, Apart
<1>3. \A f, g \in Files : f # g => Disjoint(chain[f], chain[g])
  BY <1>1, <1>2, SpotsAre, ZenonT(45) DEF Disjoint
<1>4. \A f \in Files : Disjoint(chain[f], call.new) /\ Disjoint(chain[f], call.tail) /\ Disjoint(chain[f], call.cut)
  BY <1>1, <1>2, SpotsAre, ZenonT(45) DEF Disjoint
<1>5. Disjoint(call.new, call.tail) /\ Disjoint(call.new, call.cut) /\ Disjoint(call.tail, call.cut)
  BY <1>1, <1>2, SpotsAre DEF Disjoint
<1>6. QED BY <1>3, <1>4, <1>5

(* The lowest fsd that is free. *)
LEMMA FreshIs ==
  ASSUME Free # {}
  PROVE  Fresh \in Fsd /\ fsd[Fresh].fsdfile = NoFile
<1>1. Free \in SUBSET Nat
  BY LimitAssumption DEF Free, Fsd
<1>2. \E d \in Free : \A e \in Free : d <= e
  BY <1>1, Least
<1>3. Fresh \in Free
  BY <1>2 DEF Fresh
<1>4. QED BY <1>3 DEF Free

(* The fsd that is taken next is in no chain and no list.                  *)
LEMMA FreshOut ==
  ASSUME TypeOK, Books, Free # {}
  PROVE  /\ \A f \in Files : Fresh \notin Elems(chain[f])
         /\ Fresh \notin Elems(call.new) /\ Fresh \notin Elems(call.tail) /\ Fresh \notin Elems(call.cut)
BY FreshIs, ChainsAre DEF Chained

(* A stream that is open is somewhere in its file. *)
LEMMA StreamIs ==
  ASSUME TypeOK, Books, NEW s \in Streams, Open(s)
  PROVE  /\ las[s] \in LaStreams /\ las[s].la_file \in Files
         /\ InChain(fsd, chain[las[s].la_file], las[s])
<1>1. las[s] \in LaStreams
  BY DEF TypeOK
<1>2. las[s].la_file \in Files
  BY <1>1 DEF Open, LaStreams
<1>3. InChain(fsd, chain[las[s].la_file], las[s])
  BY DEF Books, Placed
<1>4. QED BY <1>1, <1>2, <1>3

(* A line of a chain: what its fsd is, and what it is not beyond. *)
PlaceFacts(m, ds, x) ==
  /\ x.la_lpos \in Nat /\ x.la_lpos <= Size(m, ds)
  /\ x.la_cfsd = Eof <=> x.la_lpos = Size(m, ds)
  /\ x.la_cfsd # Eof => x.la_cfsd \in Elems(ds) /\ x.la_fsline < m[x.la_cfsd].fsdnlines
  /\ Broken(x) <=> Bound(m, ds, x.la_lpos)
  /\ Broken(x) => x.la_fsline = 0 /\ Pointed(m, ds, x.la_cfsd, x.la_lpos)
  /\ x.la_cfsd # Eof => x.la_lpos - x.la_fsline + m[x.la_cfsd].fsdnlines <= Size(m, ds)

(* What is known of a stream that is in a chain.                           *)
LEMMA PlaceHas ==
  ASSUME NEW m \in [Fsd -> Fsds], NEW ds, Chained(m, ds), NEW x \in LaStreams, InChain(m, ds, x)
  PROVE  PlaceFacts(m, ds, x)
<1>1. ds \in Seq(Fsd) /\ Inj(ds) /\ LinedOn(m, ds)
  BY DEF Chained
<1> DEFINE c == Sums(m, ds)
           n == Len(ds)
<1>2. n \in Nat
  BY <1>1
<1>3. /\ \A i \in 1 .. n : c[i] = c[i - 1] + m[ds[i]].fsdnlines
      /\ \A i \in 0 .. n : c[i] \in Nat
  BY <1>1, SumsIs
<1>4. Rising(m, ds)
  BY <1>1, RisingIs
<1>5. PICK i \in 1 .. n + 1 : IsAt(m, ds, x, i)
  BY DEF InChain
<1>6. Broken(x) <=> Bound(m, ds, x.la_lpos)
  BY <1>1, BrokenIs
<1>7. x.la_lpos \in Nat /\ x.la_fsline \in Nat
  BY DEF LaStreams
<1>8. i - 1 \in 0 .. n /\ i \in Nat
  BY <1>2
<1>9. x.la_lpos = c[i - 1] + x.la_fsline /\ x.la_cfsd = Nth(ds, i) /\ x.la_fsline < Width(m, Nth(ds, i))
  BY <1>5 DEF IsAt
<1>10. Size(m, ds) = c[n]
  BY DEF Size
<1>11. CASE i = n + 1
  <2>1. x.la_cfsd = Eof /\ x.la_fsline < 1
    BY <1>11, <1>9, <1>2 DEF Nth, Width
  <2>2. x.la_fsline = 0 /\ i - 1 = n
    BY <2>1, <1>7, <1>11, <1>2
  <2>3. x.la_lpos = c[n] /\ c[n] \in Nat
    <3>1. c[n] \in Nat
      BY <1>3, <1>2
    <3> HIDE DEF c, n
    <3>2. QED BY <3>1, <2>2, <1>9
  <2>4. Pointed(m, ds, x.la_cfsd, x.la_lpos)
    <3>1. c[i - 1] = x.la_lpos
      BY <2>2, <2>3
    <3>2. QED BY <3>1, <1>9 DEF Pointed
  <2>5. QED BY <2>1, <2>2, <2>3, <2>4, <1>6, <1>7, <1>10 DEF PlaceFacts
<1>12. CASE i \in 1 .. n
  <2>1. Nth(ds, i) = ds[i] /\ ds[i] \in Fsd /\ ds[i] # Eof
    <3>1. Nth(ds, i) = ds[i] /\ ds[i] \in Fsd
      BY <1>12, <1>1, <1>2 DEF Nth
    <3>2. QED BY <3>1, EofIs
  <2>2. x.la_cfsd = ds[i] /\ x.la_fsline < m[ds[i]].fsdnlines
    BY <2>1, <1>9 DEF Width
  <2>3. x.la_cfsd \in Elems(ds)
    BY <2>2, <1>12 DEF Elems
  <2>4. m[ds[i]].fsdnlines \in Nat
    BY <2>1 DEF Fsds
  <2> DEFINE w == m[ds[i]].fsdnlines
             a == c[i - 1]
             b == c[i]
             z == c[n]
             k == x.la_fsline
             p == x.la_lpos
  <2>5. b = a + w /\ a \in Nat /\ b \in Nat /\ z \in Nat /\ b <= z
    <3>1. i \in 0 .. n /\ n \in 0 .. n
      BY <1>12, <1>2
    <3>2. c[i] <= c[n]
      BY <3>1, <1>4, <1>12 DEF Rising
    <3>3. QED BY <3>1, <3>2, <1>3, <1>8, <1>12
  <2>6. p = a + k /\ k < w /\ k \in Nat /\ w \in Nat
    BY <2>2, <2>4, <1>7, <1>9
  <2> HIDE DEF a, b, k, p, w, z
  <2>7. p < z /\ p \in Nat /\ p - k + w <= z
    BY <2>5, <2>6
  <2>8. k = 0 => a = p
    BY <2>5, <2>6
  <2>9. Broken(x) => k = 0
    BY <2>1, <2>2 DEF Broken, k
  <2>10. Broken(x) => Pointed(m, ds, x.la_cfsd, x.la_lpos)
    <3>1. SUFFICES ASSUME Broken(x) PROVE Pointed(m, ds, x.la_cfsd, x.la_lpos)
      OBVIOUS
    <3>2. c[i - 1] = x.la_lpos
      BY <3>1, <2>8, <2>9 DEF a, p
    <3>3. QED BY <3>2, <1>9 DEF Pointed
  <2>11. x.la_lpos \in Nat /\ x.la_lpos <= Size(m, ds) /\ x.la_lpos # Size(m, ds)
    BY <2>7, <2>5, <1>10 DEF z, p
  <2>12. x.la_lpos - x.la_fsline + m[x.la_cfsd].fsdnlines <= Size(m, ds)
    BY <2>7, <1>10, <2>2 DEF z, p, k, w
  <2>13. x.la_cfsd # Eof
    BY <2>1, <2>2
  <2>14. QED BY <2>2, <2>3, <2>9, <2>10, <2>11, <2>12, <2>13, <1>6 DEF PlaceFacts, k
<1>13. QED BY <1>11, <1>12, <1>2

(* The same of a stream of the program. *)
LEMMA StreamHas ==
  ASSUME TypeOK, Books, NEW s \in Streams, Open(s)
  PROVE  /\ las[s].la_file \in Files /\ Chained(fsd, chain[las[s].la_file])
         /\ PlaceFacts(fsd, chain[las[s].la_file], las[s])
         /\ laf[las[s].la_file].la_nlines = Size(fsd, chain[las[s].la_file])
<1>1. fsd \in [Fsd -> Fsds]
  BY DEF TypeOK
<1>2. las[s] \in LaStreams /\ las[s].la_file \in Files /\ InChain(fsd, chain[las[s].la_file], las[s])
  BY StreamIs
<1>3. Chained(fsd, chain[las[s].la_file])
  BY <1>2, ChainsAre
<1>4. PlaceFacts(fsd, chain[las[s].la_file], las[s])
  BY <1>1, <1>2, <1>3, PlaceHas
<1>5. laf[las[s].la_file].la_nlines = Size(fsd, chain[las[s].la_file])
  BY <1>2 DEF Books, Numbered
<1>6. QED BY <1>2, <1>3, <1>4, <1>5

-----------------------------------------------------------------------------
(* la_break keeps the books.                                               *)

SameLists == call'.new = call.new /\ call'.tail = call.tail /\ call'.cut = call.cut

VarTypes == /\ fsd \in [Fsd -> Fsds] /\ chain \in [Files -> Seq(Fsd)]
            /\ laf \in [Files -> LaFiles] /\ las \in [Streams -> LaStreams]

(* TypeOK is the types of the variables and that of the call.              *)
LEMMA TypesAre == TypeOK => VarTypes /\ call \in Calls
BY DEF TypeOK, VarTypes

(* What an operation that only breaks fsds or makes some leaves as it was. *)
Kept ==
  /\ \A s \in Streams : /\ las'[s].la_file = las[s].la_file /\ las'[s].la_lpos = las[s].la_lpos
                        /\ las'[s].la_stay = las[s].la_stay
  /\ \A f \in Files : laf'[f].la_nlines = laf[f].la_nlines /\ laf'[f].la_refs = laf[f].la_refs
  /\ \A f \in Files : \A n \in Nat : Bound(fsd, chain[f], n) => Bound(fsd', chain'[f], n)
  /\ \A f \in Files : chain[f] # << >> => chain'[f] # << >>

BreakArgs(x) == /\ x \in LaStreams /\ x.la_file \in File
                /\ InChain(fsd, chain[x.la_file], x) /\ ~ Broken(x)

(* What BreakAt does, apart. *)
BreakDoes(x, f, ds, i, d, k, w, e) ==
  /\ f = x.la_file /\ f \in Files /\ f # Chg /\ ds = chain[f] /\ i \in 1 .. Len(ds) /\ d = ds[i]
  /\ d = x.la_cfsd /\ k = x.la_fsline
  /\ w = fsd[d].fsdnlines /\ d \in Fsd /\ e \in Fsd /\ d # e /\ e = Fresh
  /\ fsd[e].fsdfile = NoFile /\ fsd[d].fsdfile \in Files
  /\ x.la_lpos = Sums(fsd, ds)[i - 1] + k
  /\ k \in Nat /\ w \in Nat /\ 0 < k /\ k < w
  /\ fsd' \in [Fsd -> Fsds]
  /\ fsd'[d] = [fsdfile |-> fsd[d].fsdfile, fsdpos |-> fsd[d].fsdpos, fsdnlines |-> k]
  /\ fsd'[e] = [fsdfile |-> fsd[d].fsdfile, fsdpos |-> fsd[d].fsdpos + k, fsdnlines |-> w - k]
  /\ \A z \in Fsd : z # d /\ z # e => fsd'[z] = fsd[z]
  /\ chain'[f] = InsertAt(ds, i + 1, e)
  /\ \A g \in Files : g # f => chain'[g] = chain[g]
  /\ chain' = [chain EXCEPT ![f] = InsertAt(ds, i + 1, e)]
  /\ las' = [t \in Streams |-> AfterB(las[t], d, k, e)]
  /\ laf' = [laf EXCEPT ![fsd[d].fsdfile].la_fsrefs = @ + 1]

(* What la_break does, with a name for everything in it.                   *)
LEMMA BreakDoesIs ==
  ASSUME TypeOK, Books, NEW x, BreakArgs(x), BreakAt(x)
  PROVE  \E f, ds, i, d, k, w, e : BreakDoes(x, f, ds, i, d, k, w, e)
<1>1. VarTypes
  BY TypesAre
<1> DEFINE f == x.la_file
           ds == chain[f]
           d == x.la_cfsd
           k == x.la_fsline
           w == fsd[d].fsdnlines
           e == Fresh
<1>2. f \in Files /\ f # Chg /\ x \in LaStreams /\ InChain(fsd, ds, x) /\ ~ Broken(x)
  BY NameAssumption DEF BreakArgs, Files
<1>3. Chained(fsd, ds)
  BY <1>2, ChainsAre
<1>4. PICK i \in 1 .. Len(ds) + 1 : IsAt(fsd, ds, x, i)
  BY <1>2 DEF InChain
<1>5. d # Eof /\ k # 0
  BY <1>2 DEF Broken
<1>6. ds \in Seq(Fsd) /\ Inj(ds) /\ Len(ds) \in Nat
  BY <1>3 DEF Chained
<1>7. i \in 1 .. Len(ds) /\ Nth(ds, i) = ds[i] /\ d = ds[i]
  <2>1. d = Nth(ds, i)
    BY <1>4 DEF IsAt
  <2>2. i <= Len(ds)
    BY <2>1, <1>5 DEF Nth
  <2>3. QED BY <2>1, <2>2, <1>6 DEF Nth
<1>8. d \in Fsd /\ d \in Elems(ds)
  BY <1>6, <1>7 DEF Elems
<1>9. w \in Nat /\ k \in Nat
  BY <1>8, <1>1, <1>2 DEF VarTypes, Fsds, LaStreams
<1>10. k < w /\ x.la_lpos = Sums(fsd, ds)[i - 1] + k
  BY <1>4, <1>5, <1>7 DEF IsAt, Width
<1>11. 0 < k
  BY <1>9, <1>5
<1>12. Free # {}
  BY DEF BreakAt
<1>13. e \in Fsd /\ fsd[e].fsdfile = NoFile
  BY <1>12, FreshIs
<1>14. fsd[d].fsdfile # NoFile
  BY <1>3, <1>8 DEF Chained
<1>15. fsd[d] \in Fsds /\ fsd[d].fsdfile \in Files
  BY <1>14, <1>8, <1>1 DEF VarTypes, Fsds
<1>16. d # e
  BY <1>13, <1>14
<1>17. At(ds, d) = i
  <2>1. At(ds, Nth(ds, i)) = i
    BY <1>6, <1>4, AtIs
  <2>2. QED BY <2>1, <1>7
<1>18. fsd' = [fsd EXCEPT ![d].fsdnlines = k, ![e] = Piece(d, k, w - k)]
  BY DEF BreakAt
<1>19. chain' = [chain EXCEPT ![f] = InsertAt(ds, i + 1, e)]
  BY <1>17, SMTT(45) DEF BreakAt
<1>20. las' = [t \in Streams |-> AfterB(las[t], d, k, e)]
  BY DEF BreakAt, StreamsAfterBreak, AfterB
<1>21. laf' = [laf EXCEPT ![fsd[d].fsdfile].la_fsrefs = @ + 1]
  BY DEF BreakAt
<1>22. w - k \in Nat /\ fsd[d].fsdpos + k \in Nat /\ fsd[d].fsdpos \in Nat
  BY <1>9, <1>10, <1>15 DEF Fsds
<1> HIDE DEF f, ds, d, k, w, e
<1>23. Piece(d, k, w - k) = [fsdfile |-> fsd[d].fsdfile, fsdpos |-> fsd[d].fsdpos + k, fsdnlines |-> w - k]
  BY DEF Piece
<1>24. fsd'[d] = [fsdfile |-> fsd[d].fsdfile, fsdpos |-> fsd[d].fsdpos, fsdnlines |-> k]
  <2>1. fsd'[d] = [fsd[d] EXCEPT !.fsdnlines = k]
    BY <1>18, <1>8, <1>13, <1>16, <1>1 DEF VarTypes
  <2>2. QED BY <2>1, <1>15 DEF Fsds
<1>25. fsd'[e] = [fsdfile |-> fsd[d].fsdfile, fsdpos |-> fsd[d].fsdpos + k, fsdnlines |-> w - k]
  BY <1>18, <1>23, <1>8, <1>13, <1>16, <1>1 DEF VarTypes
<1>26. \A z \in Fsd : z # d /\ z # e => fsd'[z] = fsd[z]
  BY <1>18, <1>8, <1>13, <1>16, <1>1 DEF VarTypes
<1>27. fsd' \in [Fsd -> Fsds]
  <2>1. fsd'[d] \in Fsds /\ fsd'[e] \in Fsds
    BY <1>24, <1>25, <1>22, <1>15, <1>9 DEF Fsds
  <2>2. DOMAIN fsd' = Fsd /\ fsd' = [z \in Fsd |-> fsd'[z]]
    BY <1>18, <1>1 DEF VarTypes
  <2>3. \A z \in Fsd : fsd'[z] \in Fsds
    BY <2>1, <1>26, <1>1 DEF VarTypes
  <2>4. QED BY <2>2, <2>3
<1>28. chain'[f] = InsertAt(ds, i + 1, e) /\ \A g \in Files : g # f => chain'[g] = chain[g]
  BY <1>19, <1>2, <1>1 DEF VarTypes
<1>29. f = x.la_file /\ ds = chain[f] /\ d = x.la_cfsd /\ k = x.la_fsline /\ w = fsd[d].fsdnlines /\ e = Fresh
  BY DEF f, ds, d, k, w, e
<1>30. i \in 1 .. Len(ds) /\ d = ds[i]
  BY <1>7
<1>31. f \in Files /\ f # Chg
  BY <1>2, SMTT(45)
<1>32. BreakDoes(x, f, ds, i, d, k, w, e)
  BY <1>8, <1>9, <1>10, <1>11, <1>13, <1>15, <1>16, <1>19, <1>20, <1>21, <1>24, <1>25, <1>26, <1>27, <1>28, <1>29, <1>30, <1>31
  DEF BreakDoes
<1>33. QED BY <1>32

(* The files' counts of fsds, when one is taken for lines of file g. *)
OneMore(g) == laf' = [laf EXCEPT ![g].la_fsrefs = @ + 1]

(* What changes in the files when one fsd more describes lines of one of   *)
(* them.                                                                   *)
LEMMA OneMoreIs ==
  ASSUME NEW g \in Files, VarTypes, OneMore(g)
  PROVE  /\ laf' \in [Files -> LaFiles]
         /\ \A f \in Files : /\ laf'[f].la_refs = laf[f].la_refs /\ laf'[f].la_nlines = laf[f].la_nlines
                             /\ laf'[f].la_mode = laf[f].la_mode
                             /\ laf'[f].la_fsrefs = IF f = g THEN laf[f].la_fsrefs + 1 ELSE laf[f].la_fsrefs
BY SMTT(45) DEF VarTypes, OneMore, LaFiles

(* When one fsd is taken and la_fsrefs of its file goes up, the counts     *)
(* stay exact.                                                             *)
LEMMA OneMoreExact ==
  ASSUME NEW g \in Files, VarTypes, OneMore(g), FsrefsExact, NEW e, Taken(fsd, fsd', e, g)
  PROVE  FsrefsExact'
<1>1. Counted1(fsd, fsd', g)
  BY TakenIs
<1>2. \A f \in Files : laf'[f].la_fsrefs = IF f = g THEN laf[f].la_fsrefs + 1 ELSE laf[f].la_fsrefs
  BY OneMoreIs
<1>3. \A f \in Files : laf[f].la_fsrefs = Cardinality(Those(fsd, f))
  BY DEF FsrefsExact, Those
<1>4. \A f \in Files : laf'[f].la_fsrefs = Cardinality(Those(fsd', f))
  BY <1>1, <1>2, <1>3 DEF Counted1
<1>5. QED BY <1>4 DEF FsrefsExact, Those

(* The streams' files and the files' numbers of streams, when neither changes. *)
SameRefs == /\ \A s \in Streams : las'[s].la_file = las[s].la_file
            /\ \A f \in Files : laf'[f].la_refs = laf[f].la_refs

(* Refs is kept by a step that moves no stream to another file.            *)
LEMMA SameRefsIs == Refs /\ SameRefs => Refs'
<1> SUFFICES ASSUME Refs, SameRefs PROVE Refs'
  OBVIOUS
<1>1. \A s \in Stream : las'[s].la_file = las[s].la_file
  BY DEF SameRefs, Streams
<1>2. \A f \in Files : At1(f)' = At1(f)
  BY <1>1 DEF At1
<1>3. \A f \in File : f \in Files
  BY DEF Files
<1>4. Chg \in Files
  BY DEF Files
<1>5. QED BY <1>1, <1>2, <1>3, <1>4 DEF Refs, SameRefs

(* What a closed stream looks like.                                        *)
LEMMA ClosedIs == Closed.la_file = NoFile /\ Closed.la_cfsd = Eof
BY DEF Closed

(* la_break keeps the books.                                               *)
LEMMA BreakBooks ==
  ASSUME TypeOK, Books, NEW x, BreakArgs(x), BreakAt(x), SameLists
  PROVE  Books' /\ VarTypes' /\ Kept
<1>0. VarTypes
  BY TypesAre
<1>1. PICK f, ds, i, d, k, w, e : BreakDoes(x, f, ds, i, d, k, w, e)
  BY BreakDoesIs
<1>2. /\ f = x.la_file /\ f \in Files /\ f # Chg /\ ds = chain[f] /\ i \in 1 .. Len(ds) /\ d = ds[i]
      /\ w = fsd[d].fsdnlines /\ d \in Fsd /\ e \in Fsd /\ d # e /\ e = Fresh
      /\ fsd[e].fsdfile = NoFile /\ fsd[d].fsdfile \in Files
      /\ k \in Nat /\ w \in Nat /\ 0 < k /\ k < w
  BY <1>1 DEF BreakDoes
<1>3. /\ fsd' \in [Fsd -> Fsds]
      /\ fsd'[d] = [fsdfile |-> fsd[d].fsdfile, fsdpos |-> fsd[d].fsdpos, fsdnlines |-> k]
      /\ fsd'[e] = [fsdfile |-> fsd[d].fsdfile, fsdpos |-> fsd[d].fsdpos + k, fsdnlines |-> w - k]
      /\ \A z \in Fsd : z # d /\ z # e => fsd'[z] = fsd[z]
  BY <1>1 DEF BreakDoes
<1> DEFINE es == InsertAt(ds, i + 1, e)
<1>4. /\ chain'[f] = es /\ \A g \in Files : g # f => chain'[g] = chain[g]
      /\ chain' = [chain EXCEPT ![f] = es]
  BY <1>1 DEF BreakDoes
<1>5. las' = [t \in Streams |-> AfterB(las[t], d, k, e)]
  BY <1>1 DEF BreakDoes
<1>6. OneMore(fsd[d].fsdfile)
  BY <1>1 DEF BreakDoes, OneMore
<1> HIDE DEF es
<1>7. Chained(fsd, ds) /\ e \notin Elems(ds)
  BY <1>2, ChainsAre DEF Chained
<1>8. ds \in Seq(Fsd) /\ Inj(ds) /\ fsd \in [Fsd -> Fsds]
  BY <1>7, <1>0 DEF Chained, VarTypes
<1>9. BreakOf(fsd, ds, i, k, e, fsd', es)
  BY <1>2, <1>3, <1>7 DEF BreakOf, es
<1>10. BreakKeeps(fsd, ds, i, k, e, fsd', es)
  BY <1>2, <1>3, <1>8, <1>9, BreakChain
<1>11. es \in Seq(Fsd) /\ Inj(es) /\ Elems(es) = Elems(ds) \cup {e} /\ Size(fsd', es) = Size(fsd, ds)
       /\ \A n \in Nat : Bound(fsd, ds, n) => Bound(fsd', es, n)
  BY <1>10 DEF BreakKeeps
<1>12. d \in Elems(ds)
  BY <1>2 DEF Elems
<1>13. \A g \in Files : g # f => Alias(fsd, fsd', chain[g])
  <2>1. SUFFICES ASSUME NEW g \in Files, g # f PROVE Alias(fsd, fsd', chain[g])
    OBVIOUS
  <2>2. Chained(fsd, chain[g]) /\ Disjoint(chain[g], ds)
    BY <2>1, <1>2, ChainsAre, ChainsApart
  <2>3. SameLines(fsd, fsd', chain[g])
    <3>1. SUFFICES ASSUME NEW q \in 1 .. Len(chain[g]) PROVE fsd'[chain[g][q]].fsdnlines = fsd[chain[g][q]].fsdnlines
      BY DEF SameLines
    <3>2. chain[g][q] \in Elems(chain[g])
      BY DEF Elems
    <3>3. chain[g][q] \in Fsd /\ chain[g][q] # d /\ chain[g][q] # e
      BY <3>2, <2>2, <1>12, <1>2 DEF Chained, Disjoint
    <3>4. QED BY <3>3, <1>3
  <2>4. chain[g] \in Seq(Fsd)
    BY <2>2 DEF Chained
  <2>5. QED BY <2>3, <2>4, <1>3, <1>8, SameChain
(* the chains *)
<1>14. Placing(fsd', Lists')
  <2> DEFINE L2 == ListsOf(chain', call.new, call.tail, call.cut)
  <2>1. Lists' = L2
    BY DEF Lists, SameLists
  <2>2. AllSeqs(chain', call.new, call.tail, call.cut)
    BY <1>4, <1>11, CallLists, <1>0 DEF AllSeqs, VarTypes
  <2>3. InFsd(L2) /\ InFsd(Lists)
    BY <2>2, InFsdIs, ListsIn
  <2>4. /\ \A g \in Files : L2[<< 0, g >>] = chain'[g]
        /\ L2[<< 1, NoFile >>] = call.new /\ L2[<< 2, NoFile >>] = call.tail /\ L2[<< 3, NoFile >>] = call.cut
    BY ListsAre
  <2>5. /\ \A g \in Files : Lists[<< 0, g >>] = chain[g]
        /\ Lists[<< 1, NoFile >>] = call.new /\ Lists[<< 2, NoFile >>] = call.tail /\ Lists[<< 3, NoFile >>] = call.cut
    BY ListsAre DEF Lists
  <2> HIDE DEF L2
  <2>6. \A j \in Spot : j # << 0, f >> => L2[j] = Lists[j]
    BY <2>4, <2>5, <1>4, SpotsAre
  <2>7. Placing(fsd, Lists)
    BY DEF Books
  <2> DEFINE sp == << 0, f >>
  <2>8. sp \in Spot /\ L2[sp] = es /\ Lists[sp] = ds
    BY <2>4, <2>5, <1>4, <1>2, SpotsAre
  <2> HIDE DEF sp
  <2>9. TwoChange(fsd, Lists, fsd', L2, sp, sp)
    <3>1. \A z \in Elems(es) : z \in Elems(ds) \/ fsd[z].fsdfile = NoFile
      BY <1>11, <1>2
    <3>2. ASSUME NEW z \in Fsd PROVE fsd'[z].fsdfile # NoFile <=> z \in Elems(es) \/ (fsd[z].fsdfile # NoFile /\ z \notin Elems(ds))
      <4>1. fsd[d].fsdfile # NoFile
        BY <1>2, FilesAre
      <4>2. \A y \in Elems(ds) : fsd[y].fsdfile # NoFile
        BY <1>7 DEF Chained
      <4>3. CASE z = d
        BY <4>3, <4>1, <1>3, <1>11, <1>12
      <4>4. CASE z = e
        BY <4>4, <4>1, <1>3, <1>11
      <4>5. CASE z # d /\ z # e
        BY <4>5, <4>2, <1>3, <1>11
      <4>6. QED BY <4>3, <4>4, <4>5
    <3>3. \A j \in Spot : j # sp => L2[j] = Lists[j]
      BY <2>6 DEF sp
    <3>4. QED BY <3>1, <3>2, <3>3, <2>8, <1>11 DEF TwoChange
  <2>10. Placing(fsd', L2)
    BY <2>3, <2>7, <2>9, TwoChanged
  <2>11. QED BY <2>10, <2>1
<1>15. Lined(fsd')
  <2>1. SUFFICES ASSUME NEW z \in Fsd, fsd'[z].fsdfile # NoFile PROVE fsd'[z].fsdnlines \in 1 .. LA_FSDLMAX
    BY DEF Lined
  <2>2. w \in 1 .. LA_FSDLMAX
    BY <1>2, FilesAre DEF Books, Lined
  <2>3. k \in 1 .. LA_FSDLMAX /\ w - k \in 1 .. LA_FSDLMAX
    BY <2>2, <1>2, LimitAssumption, SMTT(45)
  <2>4. CASE z = d
    BY <2>4, <2>3, <1>3
  <2>5. CASE z = e
    BY <2>5, <2>3, <1>3
  <2>6. CASE z # d /\ z # e
    BY <2>6, <2>1, <1>3 DEF Books, Lined
  <2>7. QED BY <2>4, <2>5, <2>6
<1>16. /\ laf' \in [Files -> LaFiles]
       /\ \A g \in Files : laf'[g].la_refs = laf[g].la_refs /\ laf'[g].la_nlines = laf[g].la_nlines
  BY <1>0, <1>2, <1>6, OneMoreIs
<1>17. Numbered'
  <2>1. SUFFICES ASSUME NEW g \in Files PROVE laf'[g].la_nlines = Size(fsd', chain'[g])
    BY DEF Numbered
  <2>2. laf[g].la_nlines = Size(fsd, chain[g])
    BY DEF Books, Numbered
  <2>3. CASE g = f
    BY <2>2, <2>3, <1>2, <1>4, <1>11, <1>16
  <2>4. CASE g # f
    BY <2>2, <2>4, <1>4, <1>13, <1>16 DEF Alias
  <2>5. QED BY <2>3, <2>4
<1>18. \A g \in Files : chain[g] = << >> <=> chain'[g] = << >>
  <2>1. ds # << >> /\ es # << >>
    BY <1>11, <1>12 DEF Elems
  <2>2. QED BY <2>1, <1>2, <1>4
<1>19. Shut'
  <2>1. \A g \in File : g \in Files
    BY DEF Files
  <2>2. QED BY <2>1, <1>16, <1>18 DEF Shut, IsOpen, Books
<1>20. \A s \in Streams : las'[s] = AfterB(las[s], d, k, e) /\ las[s] \in LaStreams
  BY <1>5, <1>0 DEF VarTypes
<1>21. \A y \in LaStreams : AfterB(y, d, k, e) \in LaStreams /\ AfterB(y, d, k, e).la_file = y.la_file
            /\ AfterB(y, d, k, e).la_lpos = y.la_lpos /\ AfterB(y, d, k, e).la_stay = y.la_stay
  <2>1. SUFFICES ASSUME NEW y \in LaStreams PROVE AfterB(y, d, k, e) \in LaStreams /\ AfterB(y, d, k, e).la_file = y.la_file
            /\ AfterB(y, d, k, e).la_lpos = y.la_lpos /\ AfterB(y, d, k, e).la_stay = y.la_stay
    OBVIOUS
  <2>2. CASE y.la_cfsd = d /\ y.la_fsline >= k
    <3>1. y.la_fsline - k \in Nat
      BY <2>2, <1>2 DEF LaStreams
    <3>2. QED BY <3>1, <2>2, <1>2 DEF AfterB, LaStreams
  <2>3. CASE ~ (y.la_cfsd = d /\ y.la_fsline >= k)
    BY <2>3 DEF AfterB
  <2>4. QED BY <2>2, <2>3
<1>22. \A s \in Streams : las'[s].la_file = las[s].la_file /\ las'[s].la_lpos = las[s].la_lpos /\ las'[s].la_stay = las[s].la_stay
  BY <1>20, <1>21
<1>23. las' \in [Streams -> LaStreams]
  BY <1>5, <1>20, <1>21
<1>24. ASSUME NEW s \in Streams, las[s].la_file # f PROVE las'[s] = las[s]
  <2>1. las[s].la_cfsd # d
    <3>1. CASE Open(s)
      <4>1. las[s].la_file \in Files /\ PlaceFacts(fsd, chain[las[s].la_file], las[s])
        BY <3>1, StreamHas
      <4>2. las[s].la_cfsd # Eof => las[s].la_cfsd \in Elems(chain[las[s].la_file])
        BY <4>1 DEF PlaceFacts
      <4>3. Disjoint(chain[las[s].la_file], ds)
        BY <4>1, <1>24, <1>2, ChainsApart
      <4>4. d # Eof
        BY <1>2, EofIs
      <4>5. QED BY <4>2, <4>3, <4>4, <1>12 DEF Disjoint
    <3>2. CASE ~ Open(s)
      <4>1. las[s] = Closed
        BY <3>2 DEF Books, Placed
      <4>2. QED BY <4>1, ClosedIs, <1>2, EofIs
    <3>3. QED BY <3>1, <3>2
  <2>2. QED BY <2>1, <1>20 DEF AfterB
<1>25. Placed'
  <2>1. SUFFICES ASSUME NEW s \in Streams PROVE (IF Open(s) THEN InChain(fsd, chain[las[s].la_file], las[s]) ELSE las[s] = Closed)'
    BY DEF Placed
  <2>2. CASE ~ Open(s)
    <3>1. las[s].la_file # f /\ las[s] = Closed
      BY <2>2, <1>2, FilesAre DEF Open, Books, Placed
    <3>2. las'[s] = las[s]
      BY <3>1, <1>24
    <3>3. QED BY <3>1, <3>2, <2>2 DEF Open
  <2>3. CASE Open(s)
    <3>1. Open(s)'
      BY <2>3, <1>22 DEF Open
    <3>2. las[s].la_file \in Files /\ InChain(fsd, chain[las[s].la_file], las[s]) /\ las[s] \in LaStreams
      BY <2>3, StreamIs
    <3>3. CASE las[s].la_file = f
      <4>1. InChain(fsd, ds, las[s])
        BY <3>2, <3>3, <1>2
      <4>2. InChain(fsd', es, AfterB(las[s], ds[i], k, e))
        BY <4>1, <3>2, <1>2, <1>3, <1>8, <1>9, BreakStays
      <4>3. chain'[las'[s].la_file] = es
        BY <3>3, <1>22, <1>4
      <4>4. InChain(fsd', chain'[las'[s].la_file], las'[s])
        BY <4>2, <4>3, <1>2, <1>20
      <4>5. QED BY <4>4, <3>1
    <3>4. CASE las[s].la_file # f
      <4>1. las'[s] = las[s] /\ chain'[las[s].la_file] = chain[las[s].la_file]
        BY <3>2, <3>4, <1>24, <1>4
      <4>2. InChain(fsd', chain[las[s].la_file], las[s])
        BY <3>2, <3>4, <1>13 DEF Alias
      <4>3. InChain(fsd', chain'[las'[s].la_file], las'[s])
        BY <4>1, <4>2
      <4>4. QED BY <4>3, <3>1
    <3>5. QED BY <3>3, <3>4
  <2>4. QED BY <2>2, <2>3
<1>26. Refs'
  BY <1>16, <1>22, SameRefsIs DEF SameRefs, Books
<1>27. FsrefsExact'
  <2>1. Taken(fsd, fsd', e, fsd[d].fsdfile)
    BY <1>2, <1>3, FilesAre DEF Taken
  <2>2. FsrefsExact
    BY DEF Books
  <2>3. QED BY <2>1, <2>2, <1>0, <1>2, <1>6, OneMoreExact
<1>28. Filler'
  <2>1. Filler
    BY DEF Books
  <2>2. Blas \in Streams /\ Chg \in Files
    BY DEF Streams, Files
  <2>3. las[Blas].la_file # f
    BY <2>1, <1>2 DEF Filler
  <2>4. las'[Blas] = las[Blas] /\ chain'[Chg] = chain[Chg]
    BY <2>2, <2>3, <1>24, <1>2, <1>4
  <2>5. ASSUME chain[Chg] # << >>, Len(chain[Chg]) = 1 PROVE fsd'[chain[Chg][1]].fsdnlines = fsd[chain[Chg][1]].fsdnlines
    <3>1. chain[Chg][1] \in Elems(chain[Chg])
      BY <2>5 DEF Elems
    <3>2. Disjoint(chain[Chg], ds) /\ Chained(fsd, chain[Chg])
      BY <2>2, <1>2, ChainsApart, ChainsAre
    <3>3. chain[Chg][1] \in Fsd /\ chain[Chg][1] # d /\ chain[Chg][1] # e
      BY <3>1, <3>2, <1>2, <1>12 DEF Disjoint, Chained
    <3>4. QED BY <3>3, <1>3
  <2>6. QED BY <2>1, <2>4, <2>5 DEF Filler
<1>29. Books'
  BY <1>14, <1>15, <1>17, <1>19, <1>25, <1>26, <1>27, <1>28 DEF Books
<1>30. VarTypes'
  <2>1. chain' \in [Files -> Seq(Fsd)]
    BY <1>4, <1>11, <1>0 DEF VarTypes
  <2>2. QED BY <2>1, <1>3, <1>16, <1>23 DEF VarTypes
<1>31. Kept
  <2>1. \A g \in Files : \A n \in Nat : Bound(fsd, chain[g], n) => Bound(fsd', chain'[g], n)
    <3>1. SUFFICES ASSUME NEW g \in Files, NEW n \in Nat, Bound(fsd, chain[g], n) PROVE Bound(fsd', chain'[g], n)
      OBVIOUS
    <3>2. CASE g = f
      BY <3>1, <3>2, <1>2, <1>4, <1>11
    <3>3. CASE g # f
      BY <3>1, <3>3, <1>4, <1>13 DEF Alias
    <3>4. QED BY <3>2, <3>3
  <2>2. QED BY <2>1, <1>16, <1>18, <1>22 DEF Kept
<1>32. QED BY <1>29, <1>30, <1>31

-----------------------------------------------------------------------------
(* Making fsds keeps the books.                                            *)

(* Two chains one after the other. *)
SeqArgs(a, b) == a \in Seq(Fsd) /\ b \in Seq(Fsd)

(* Two chains, one behind the other, have the lines of both.               *)
LEMMA SizeConcat ==
  ASSUME NEW m \in [Fsd -> Fsds], NEW a, NEW b, SeqArgs(a, b)
  PROVE  Size(m, a \o b) = Size(m, a) + Size(m, b)
<1> DEFINE es == a \o b
           p == Len(a)
           q == Len(b)
<1>1. a \in Seq(Fsd) /\ b \in Seq(Fsd) /\ p \in Nat /\ q \in Nat
  BY DEF SeqArgs
<1>2. es \in Seq(Fsd) /\ Len(es) = p + q /\ (\A z \in 1 .. p : es[z] = a[z]) /\ (\A z \in 1 .. q : es[p + z] = b[z])
  BY <1>1, ConcatIs
<1> HIDE DEF es
<1>3. \A z \in Nat : z = 0 => Moved(m, a, z, m, es, z, p)
  <2>1. SUFFICES ASSUME NEW z \in Nat, z = 0 PROVE Moved(m, a, z, m, es, z, p)
    OBVIOUS
  <2>2. Alike(m, a, z, m, es, z, p)
    BY <1>1, <1>2, <2>1 DEF Alike
  <2> HIDE DEF p
  <2>3. QED BY <2>2, <1>1, <1>2, Shift
<1>4. \A z \in Nat : z = 0 => Moved(m, b, z, m, es, p, q)
  <2>1. SUFFICES ASSUME NEW z \in Nat, z = 0 PROVE Moved(m, b, z, m, es, p, q)
    OBVIOUS
  <2>2. Alike(m, b, z, m, es, p, q)
    BY <1>1, <1>2, <2>1 DEF Alike
  <2> HIDE DEF p, q
  <2>3. QED BY <2>2, <1>1, <1>2, Shift
<1>5. Moved(m, a, 0, m, es, 0, p) /\ Moved(m, b, 0, m, es, p, q)
  BY <1>3, <1>4
<1>6. Sums(m, a)[0] = 0 /\ Sums(m, b)[0] = 0 /\ Sums(m, es)[0] = 0 /\ Sums(m, a)[p] \in Nat /\ Sums(m, b)[q] \in Nat
  <2>1. p \in 0 .. Len(a) /\ q \in 0 .. Len(b)
    BY <1>1
  <2>2. Sums(m, a)[0] = 0 /\ Sums(m, a)[p] \in Nat
    BY <1>1, <2>1, SumsIs
  <2>3. Sums(m, b)[0] = 0 /\ Sums(m, b)[q] \in Nat
    BY <1>1, <2>1, SumsIs
  <2>4. Sums(m, es)[0] = 0
    BY <1>2, SumsIs
  <2>5. QED BY <2>2, <2>3, <2>4
<1> HIDE DEF p, q
<1>7. Sums(m, es)[0 + p] = Sums(m, es)[0] + Sums(m, a)[0 + p] - Sums(m, a)[0]
  BY <1>1, <1>5 DEF Moved
<1>8. Sums(m, es)[p + q] = Sums(m, es)[p] + Sums(m, b)[0 + q] - Sums(m, b)[0]
  BY <1>1, <1>5 DEF Moved
<1>9. 0 + p = p /\ 0 + q = q
  BY <1>1
<1> DEFINE u == Sums(m, a)[p]
           v == Sums(m, b)[q]
<1>10. Sums(m, es)[p] = 0 + u - 0 /\ Sums(m, es)[p + q] = Sums(m, es)[p] + v - 0 /\ u \in Nat /\ v \in Nat
  BY <1>6, <1>7, <1>8, <1>9
<1> HIDE DEF u, v
<1>11. Sums(m, es)[p + q] = u + v
  BY <1>10
<1>12. Size(m, es) = u + v
  BY <1>11, <1>2 DEF Size
<1>13. QED BY <1>12 DEF Size, es, p, q, u, v

(* A chain of one fsd has the lines of that fsd.                           *)
LEMMA SizeOne ==
  ASSUME NEW m \in [Fsd -> Fsds], NEW e \in Fsd
  PROVE  Size(m, << e >>) = m[e].fsdnlines
<1>1. << e >> \in Seq(Fsd) /\ Len(<< e >>) = 1 /\ << e >>[1] = e
  OBVIOUS
<1>2. Sums(m, << e >>)[0] = 0 /\ \A i \in 1 .. Len(<< e >>) : Sums(m, << e >>)[i] = Sums(m, << e >>)[i - 1] + m[<< e >>[i]].fsdnlines
  BY <1>1, SumsIs
<1>3. Sums(m, << e >>)[1] = 0 + m[e].fsdnlines
  <2>1. 1 \in 1 .. Len(<< e >>) /\ 1 - 1 = 0
    BY <1>1
  <2>2. QED BY <2>1, <1>1, <1>2
<1>4. m[e].fsdnlines \in Nat
  BY DEF Fsds
<1>5. QED BY <1>1, <1>3, <1>4 DEF Size

(* The empty chain has no lines.                                           *)
LEMMA SizeNone == ASSUME NEW m \in [Fsd -> Fsds] PROVE Size(m, << >>) = 0
<1>1. << >> \in Seq(Fsd) /\ Len(<< >>) = 0
  OBVIOUS
<1>2. QED BY <1>1, SumsIs DEF Size

(* The size of a chain is a natural number.                                *)
LEMMA SizeNat == ASSUME NEW m \in [Fsd -> Fsds], NEW ds, ds \in Seq(Fsd) PROVE Size(m, ds) \in Nat
<1>1. Len(ds) \in 0 .. Len(ds)
  OBVIOUS
<1>2. QED BY <1>1, SumsIs DEF Size

(* A chain with one fsd more at its end. *)
AppendFacts(ds, e, es) == /\ es \in Seq(Fsd) /\ Inj(es) /\ Elems(es) = Elems(ds) \cup {e}
                          /\ es = ds \o << e >>

(* What a chain with one more fsd at its end is.                           *)
LEMMA AppendIs ==
  ASSUME NEW ds, ds \in Seq(Fsd), Inj(ds), NEW e \in Fsd, e \notin Elems(ds)
  PROVE  AppendFacts(ds, e, Append(ds, e))
<1> DEFINE es == Append(ds, e)
           n == Len(ds)
<1>1. es \in Seq(Fsd) /\ n \in Nat /\ Len(es) = n + 1 /\ es[n + 1] = e /\ \A i \in 1 .. n : es[i] = ds[i]
  OBVIOUS
<1>2. es = ds \o << e >>
  OBVIOUS
<1> HIDE DEF es
<1>3. \A i \in 1 .. n : ds[i] # e
  BY DEF Elems
<1>4. Inj(es)
  <2>1. SUFFICES ASSUME NEW i \in 1 .. n + 1, NEW j \in 1 .. n + 1, es[i] = es[j] PROVE i = j
    BY <1>1 DEF Inj
  <2>2. CASE i \in 1 .. n /\ j \in 1 .. n
    BY <2>1, <2>2, <1>1 DEF Inj
  <2>3. CASE i = n + 1 /\ j \in 1 .. n
    BY <2>1, <2>3, <1>1, <1>3
  <2>4. CASE i \in 1 .. n /\ j = n + 1
    BY <2>1, <2>4, <1>1, <1>3
  <2>5. QED BY <2>2, <2>3, <2>4, <1>1
<1>5. Elems(es) = Elems(ds) \cup {e}
  <2>1. ASSUME NEW z \in Elems(es) PROVE z \in Elems(ds) \cup {e}
    <3>1. PICK i \in 1 .. n + 1 : z = es[i]
      BY <1>1 DEF Elems
    <3>2. QED BY <3>1, <1>1 DEF Elems
  <2>2. ASSUME NEW z \in Elems(ds) PROVE z \in Elems(es)
    <3>1. PICK i \in 1 .. n : z = ds[i]
      BY DEF Elems
    <3>2. i \in 1 .. n + 1
      BY <1>1
    <3>3. QED BY <3>1, <3>2, <1>1 DEF Elems
  <2>3. e \in Elems(es)
    <3>1. n + 1 \in 1 .. n + 1
      BY <1>1
    <3>2. QED BY <3>1, <1>1 DEF Elems
  <2>4. QED BY <2>1, <2>2, <2>3
<1>6. QED BY <1>1, <1>2, <1>4, <1>5 DEF AppendFacts, es

(* The empty chain has no fsds.                                            *)
LEMMA NoElems == Elems(<< >>) = {} /\ Inj(<< >>) /\ << >> \in Seq(Fsd)
BY DEF Elems, Inj

-----------------------------------------------------------------------------
(* An fsd is made, for a chain that is not linked in yet. *)
MakeArgs(g, p, n) == g \in Files /\ p \in Nat /\ n \in 1 .. LA_FSDLMAX /\ Free # {}
Made(g, p, n) ==
  /\ fsd' = [fsd EXCEPT ![Fresh] = [fsdfile |-> g, fsdpos |-> p, fsdnlines |-> n]]
  /\ OneMore(g) /\ chain' = chain /\ las' = las
NewMade  == call'.new = Append(call.new, Fresh) /\ call'.tail = call.tail /\ call'.cut = call.cut
TailMade == call'.new = call.new /\ call.tail = << >> /\ call'.tail = << Fresh >> /\ call'.cut = call.cut

MadeFacts(g, p, n) ==
  /\ fsd' \in [Fsd -> Fsds] /\ Fresh \in Fsd /\ fsd[Fresh].fsdfile = NoFile
  /\ fsd'[Fresh] = [fsdfile |-> g, fsdpos |-> p, fsdnlines |-> n]
  /\ \A z \in Fsd : z # Fresh => fsd'[z] = fsd[z]
  /\ \A ds : Chained(fsd, ds) => Alias(fsd, fsd', ds)

(* What is true when a new fsd has been made.                              *)
LEMMA MadeHas ==
  ASSUME TypeOK, Books, NEW g, NEW p, NEW n, MakeArgs(g, p, n), Made(g, p, n)
  PROVE  MadeFacts(g, p, n)
<1>0. VarTypes
  BY TypesAre
<1> DEFINE e == Fresh
<1>1. e \in Fsd /\ fsd[e].fsdfile = NoFile
  BY FreshIs DEF MakeArgs
<1> HIDE DEF e
<1>2. fsd' = [fsd EXCEPT ![e] = [fsdfile |-> g, fsdpos |-> p, fsdnlines |-> n]]
  BY DEF Made, e
<1>3. [fsdfile |-> g, fsdpos |-> p, fsdnlines |-> n] \in Fsds
  BY DEF MakeArgs, Fsds
<1>4. fsd' \in [Fsd -> Fsds] /\ fsd'[e] = [fsdfile |-> g, fsdpos |-> p, fsdnlines |-> n]
      /\ \A z \in Fsd : z # e => fsd'[z] = fsd[z]
  BY <1>0, <1>1, <1>2, <1>3 DEF VarTypes
<1>5. ASSUME NEW ds, Chained(fsd, ds) PROVE Alias(fsd, fsd', ds)
  <2>1. ds \in Seq(Fsd) /\ \A z \in Elems(ds) : z \in Fsd /\ fsd[z].fsdfile # NoFile
    BY <1>5 DEF Chained
  <2>2. SameLines(fsd, fsd', ds)
    BY <2>1, <1>1, <1>4 DEF SameLines, Elems
  <2>3. fsd \in [Fsd -> Fsds]
    BY <1>0 DEF VarTypes
  <2>4. QED BY <2>1, <2>2, <2>3, <1>4, SameChain
<1>6. QED BY <1>1, <1>4, <1>5 DEF MadeFacts, e

(* Making an fsd for the operation's new chain, or for the tail of a copy, *)
(* keeps the books.                                                        *)
LEMMA MakeBooks ==
  ASSUME TypeOK, Books, NEW g, NEW p, NEW n, MakeArgs(g, p, n), Made(g, p, n), NewMade \/ TailMade
  PROVE  Books' /\ VarTypes' /\ Kept
<1>0. VarTypes
  BY TypesAre
<1> DEFINE e == Fresh
<1>1. MadeFacts(g, p, n)
  BY MadeHas
<1>2. /\ fsd' \in [Fsd -> Fsds] /\ e \in Fsd /\ fsd[e].fsdfile = NoFile
      /\ fsd'[e] = [fsdfile |-> g, fsdpos |-> p, fsdnlines |-> n]
      /\ \A z \in Fsd : z # e => fsd'[z] = fsd[z]
      /\ \A ds : Chained(fsd, ds) => Alias(fsd, fsd', ds)
  BY <1>1 DEF MadeFacts
<1>3. OneMore(g) /\ chain' = chain /\ las' = las /\ g \in Files /\ n \in 1 .. LA_FSDLMAX
  BY DEF Made, MakeArgs
<1>4. \A f \in Files : Chained(fsd, chain[f]) /\ Alias(fsd, fsd', chain[f])
  BY <1>2, ChainsAre
<1>5. g # NoFile
  BY <1>3, FilesAre
<1>6. /\ laf' \in [Files -> LaFiles]
      /\ \A f \in Files : laf'[f].la_refs = laf[f].la_refs /\ laf'[f].la_nlines = laf[f].la_nlines
  BY <1>0, <1>3, OneMoreIs
<1>7. ASSUME NEW L2, NEW sp \in Spot, InFsd(L2), \A j \in Spot : j # sp => L2[j] = Lists[j],
             Inj(L2[sp]), Elems(L2[sp]) = Elems(Lists[sp]) \cup {e}
      PROVE  Placing(fsd', L2)
  <2>1. InFsd(Lists) /\ Placing(fsd, Lists)
    BY ListsIn DEF Books
  <2>2. \A z \in Elems(Lists[sp]) : fsd[z].fsdfile # NoFile
    <3>1. \A z \in Elems(Lists[sp]) : z \in Fsd
      BY <2>1 DEF InFsd, Elems
    <3>2. QED BY <3>1, <2>1 DEF Placing, Used
  <2>3. TwoChange(fsd, Lists, fsd', L2, sp, sp)
    <3>1. \A z \in Elems(L2[sp]) : z \in Elems(Lists[sp]) \/ fsd[z].fsdfile = NoFile
      BY <1>7, <1>2
    <3>2. \A z \in Fsd : fsd'[z].fsdfile # NoFile <=> z \in Elems(L2[sp]) \/ (fsd[z].fsdfile # NoFile /\ z \notin Elems(Lists[sp]))
      BY <2>2, <1>2, <1>5, <1>7
    <3>3. QED BY <3>1, <3>2, <1>7 DEF TwoChange
  <2>4. QED BY <2>1, <2>3, <1>7, TwoChanged
<1>8. call.new \in Seq(Fsd) /\ call.tail \in Seq(Fsd) /\ call.cut \in Seq(Fsd)
  BY CallLists
<1> DEFINE L2 == ListsOf(chain, call'.new, call'.tail, call'.cut)
<1>9. Lists' = L2
  BY <1>3 DEF Lists
<1>10. /\ \A f \in Files : L2[<< 0, f >>] = chain[f]
       /\ L2[<< 1, NoFile >>] = call'.new /\ L2[<< 2, NoFile >>] = call'.tail /\ L2[<< 3, NoFile >>] = call'.cut
  BY ListsAre
<1>11. /\ \A f \in Files : Lists[<< 0, f >>] = chain[f]
       /\ Lists[<< 1, NoFile >>] = call.new /\ Lists[<< 2, NoFile >>] = call.tail /\ Lists[<< 3, NoFile >>] = call.cut
  BY ListsAre DEF Lists
<1>12. Placing(fsd', Lists')
  <2>1. CASE NewMade
    <3>1. call'.new = Append(call.new, e) /\ call'.tail = call.tail /\ call'.cut = call.cut
      BY <2>1 DEF NewMade
    <3>2. Inj(call.new) /\ e \notin Elems(call.new)
      BY ChainsAre, <1>2 DEF Chained
    <3>3. AppendFacts(call.new, e, call'.new)
      BY <3>1, <3>2, <1>8, <1>2, AppendIs
    <3>4. call'.new \in Seq(Fsd) /\ Inj(call'.new) /\ Elems(call'.new) = Elems(call.new) \cup {e}
      BY <3>3 DEF AppendFacts
    <3>5. AllSeqs(chain, call'.new, call'.tail, call'.cut)
      BY <3>1, <3>4, <1>8, <1>0 DEF AllSeqs, VarTypes
    <3>6. InFsd(L2)
      BY <3>5, InFsdIs
    <3> DEFINE sp == << 1, NoFile >>
    <3> HIDE DEF L2
    <3>7. sp \in Spot /\ L2[sp] = call'.new /\ Lists[sp] = call.new
      BY <1>10, <1>11, SpotsAre
    <3>8. \A j \in Spot : j # sp => L2[j] = Lists[j]
      <4>1. SUFFICES ASSUME NEW j \in Spot, j # sp PROVE L2[j] = Lists[j]
        OBVIOUS
      <4>2. CASE \E f \in Files : j = << 0, f >>
        BY <4>2, <1>10, <1>11
      <4>3. CASE j \in {<< 1, NoFile >>, << 2, NoFile >>, << 3, NoFile >>}
        BY <4>1, <4>3, <1>10, <1>11, <3>1
      <4>4. QED BY <4>2, <4>3, SpotsAre
    <3> HIDE DEF sp
    <3>9. Placing(fsd', L2)
      BY <1>7, <3>4, <3>6, <3>7, <3>8
    <3>10. QED BY <3>9, <1>9 DEF L2
  <2>2. CASE TailMade
    <3>1. call'.new = call.new /\ call.tail = << >> /\ call'.tail = << e >> /\ call'.cut = call.cut
      BY <2>2 DEF TailMade
    <3>2. e \notin Elems(call.tail) /\ Inj(call.tail) /\ Append(call.tail, e) = << e >>
      BY <3>1, NoElems
    <3>3. AppendFacts(call.tail, e, call'.tail)
      <4>1. AppendFacts(call.tail, e, Append(call.tail, e))
        BY <3>2, <1>8, <1>2, AppendIs
      <4>2. QED BY <4>1, <3>1, <3>2
    <3>4. call'.tail \in Seq(Fsd) /\ Inj(call'.tail) /\ Elems(call'.tail) = Elems(call.tail) \cup {e}
      BY <3>3 DEF AppendFacts
    <3>5. AllSeqs(chain, call'.new, call'.tail, call'.cut)
      BY <3>1, <3>4, <1>8, <1>0 DEF AllSeqs, VarTypes
    <3>6. InFsd(L2)
      BY <3>5, InFsdIs
    <3> DEFINE sp == << 2, NoFile >>
    <3> HIDE DEF L2
    <3>7. sp \in Spot /\ L2[sp] = call'.tail /\ Lists[sp] = call.tail
      BY <1>10, <1>11, SpotsAre
    <3>8. \A j \in Spot : j # sp => L2[j] = Lists[j]
      <4>1. SUFFICES ASSUME NEW j \in Spot, j # sp PROVE L2[j] = Lists[j]
        OBVIOUS
      <4>2. CASE \E f \in Files : j = << 0, f >>
        BY <4>2, <1>10, <1>11
      <4>3. CASE j \in {<< 1, NoFile >>, << 2, NoFile >>, << 3, NoFile >>}
        BY <4>1, <4>3, <1>10, <1>11, <3>1
      <4>4. QED BY <4>2, <4>3, SpotsAre
    <3> HIDE DEF sp
    <3>9. Placing(fsd', L2)
      BY <1>7, <3>4, <3>6, <3>7, <3>8
    <3>10. QED BY <3>9, <1>9 DEF L2
  <2>3. QED BY <2>1, <2>2
<1> HIDE DEF L2, e
<1>13. Lined(fsd')
  BY <1>2, <1>3 DEF Lined, Books
<1>14. Numbered'
  BY <1>3, <1>4, <1>6 DEF Numbered, Books, Alias
<1>15. Shut'
  <2>1. \A f \in File : f \in Files
    BY DEF Files
  <2>2. QED BY <2>1, <1>3, <1>6 DEF Shut, IsOpen, Books
<1>16. Placed'
  <2>1. SUFFICES ASSUME NEW s \in Streams PROVE (IF Open(s) THEN InChain(fsd, chain[las[s].la_file], las[s]) ELSE las[s] = Closed)'
    BY DEF Placed
  <2>2. CASE ~ Open(s)
    BY <2>2, <1>3 DEF Open, Books, Placed
  <2>3. CASE Open(s)
    <3>1. las[s].la_file \in Files /\ InChain(fsd, chain[las[s].la_file], las[s])
      BY <2>3, StreamIs
    <3>2. InChain(fsd', chain[las[s].la_file], las[s])
      BY <3>1, <1>4 DEF Alias
    <3>3. QED BY <3>2, <2>3, <1>3 DEF Open
  <2>4. QED BY <2>2, <2>3
<1>17. Refs'
  BY <1>3, <1>6, SameRefsIs DEF SameRefs, Books
<1>18. FsrefsExact'
  <2>1. Taken(fsd, fsd', e, g)
    BY <1>2, <1>5 DEF Taken
  <2>2. FsrefsExact
    BY DEF Books
  <2>3. QED BY <2>1, <2>2, <1>0, <1>3, OneMoreExact
<1>19. Filler'
  <2>1. Filler /\ Chg \in Files
    BY DEF Books, Files
  <2>2. ASSUME chain[Chg] # << >>, Len(chain[Chg]) = 1 PROVE fsd'[chain[Chg][1]] = fsd[chain[Chg][1]]
    <3>1. chain[Chg][1] \in Elems(chain[Chg])
      BY <2>2 DEF Elems
    <3>2. chain[Chg][1] \in Fsd /\ fsd[chain[Chg][1]].fsdfile # NoFile
      BY <3>1, <2>1, <1>4 DEF Chained
    <3>3. QED BY <3>2, <1>2
  <2>3. QED BY <2>1, <2>2, <1>3 DEF Filler
<1>20. Books'
  BY <1>12, <1>13, <1>14, <1>15, <1>16, <1>17, <1>18, <1>19 DEF Books
<1>21. VarTypes'
  BY <1>0, <1>2, <1>3, <1>6 DEF VarTypes
<1>22. Kept
  BY <1>3, <1>4, <1>6 DEF Kept, Alias
<1>23. QED BY <1>20, <1>21, <1>22

-----------------------------------------------------------------------------
(* la_link keeps the books.                                                *)

(* The lists of this state, one by one.                                    *)
LEMMA ListsNow ==
  /\ \A g \in Files : Lists[<< 0, g >>] = chain[g]
  /\ Lists[<< 1, NoFile >>] = call.new /\ Lists[<< 2, NoFile >>] = call.tail /\ Lists[<< 3, NoFile >>] = call.cut
BY ListsAre DEF Lists

(* The lists of the next state, one by one.                                *)
LEMMA ListsThen ==
  /\ \A g \in Files : Lists'[<< 0, g >>] = chain'[g]
  /\ Lists'[<< 1, NoFile >>] = call'.new /\ Lists'[<< 2, NoFile >>] = call'.tail /\ Lists'[<< 3, NoFile >>] = call'.cut
<1>1. Lists' = ListsOf(chain', call'.new, call'.tail, call'.cut)
  BY DEF Lists
<1>2. /\ \A g \in Files : ListsOf(chain', call'.new, call'.tail, call'.cut)[<< 0, g >>] = chain'[g]
      /\ ListsOf(chain', call'.new, call'.tail, call'.cut)[<< 1, NoFile >>] = call'.new
      /\ ListsOf(chain', call'.new, call'.tail, call'.cut)[<< 2, NoFile >>] = call'.tail
      /\ ListsOf(chain', call'.new, call'.tail, call'.cut)[<< 3, NoFile >>] = call'.cut
  BY ListsAre
<1>3. QED BY <1>1, <1>2

CallSpots == {<< 1, NoFile >>, << 2, NoFile >>, << 3, NoFile >>}

(* Fsds go from a list of the operation into the chain of file f, or back. *)
Swapped(f, es, sp, b) ==
  /\ f \in Files /\ sp \in CallSpots
  /\ fsd' = fsd
  /\ chain'[f] = es /\ \A g \in Files : g # f => chain'[g] = chain[g]
  /\ \A k \in CallSpots : Lists'[k] = IF k = sp THEN b ELSE Lists[k]
  /\ es \in Seq(Fsd) /\ Inj(es) /\ b \in Seq(Fsd) /\ Inj(b)
  /\ Elems(es) \cap Elems(b) = {} /\ Elems(es) \cup Elems(b) = Elems(chain[f]) \cup Elems(Lists[sp])

(* Placing is kept when fsds move from a list of the operation into the    *)
(* chain of a file, or back.                                               *)
LEMMA SwappedIs ==
  ASSUME TypeOK, Books, NEW f, NEW es, NEW sp, NEW b, Swapped(f, es, sp, b)
  PROVE  Placing(fsd', Lists')
<1>1. /\ f \in Files /\ sp \in CallSpots
      /\ fsd' = fsd
      /\ chain'[f] = es /\ \A g \in Files : g # f => chain'[g] = chain[g]
      /\ \A k \in CallSpots : Lists'[k] = IF k = sp THEN b ELSE Lists[k]
      /\ es \in Seq(Fsd) /\ Inj(es) /\ b \in Seq(Fsd) /\ Inj(b)
      /\ Elems(es) \cap Elems(b) = {} /\ Elems(es) \cup Elems(b) = Elems(chain[f]) \cup Elems(Lists[sp])
  BY DEF Swapped
<1>2. InFsd(Lists) /\ Placing(fsd, Lists)
  BY ListsIn DEF Books
<1>3. \A g \in Files : Lists'[<< 0, g >>] = chain'[g]
  BY ListsThen
<1>4. \A g \in Files : Lists[<< 0, g >>] = chain[g]
  BY ListsNow
<1> DEFINE L2 == Lists'
           L == Lists
           k == << 0, f >>
<1>5. k \in Spot /\ sp \in Spot /\ k # sp /\ \A j \in Spot : (\E g \in Files : j = << 0, g >>) \/ j \in CallSpots
  BY <1>1, SpotsAre DEF CallSpots
<1>6. L2[k] = es /\ L[k] = chain[f] /\ L2[sp] = b
  BY <1>1, <1>3, <1>4
<1>7. \A j \in Spot : j # k /\ j # sp => L2[j] = L[j]
  <2>1. SUFFICES ASSUME NEW j \in Spot, j # k, j # sp PROVE L2[j] = L[j]
    OBVIOUS
  <2>2. CASE \E g \in Files : j = << 0, g >>
    BY <2>1, <2>2, <1>1, <1>3, <1>4
  <2>3. CASE j \in CallSpots
    BY <2>1, <2>3, <1>1
  <2>4. QED BY <2>2, <2>3, <1>5
<1>8. InFsd(L2)
  <2>1. SUFFICES ASSUME NEW j \in Spot PROVE L2[j] \in Seq(Fsd)
    BY DEF InFsd
  <2>2. CASE j = k \/ j = sp
    BY <2>2, <1>1, <1>6
  <2>3. CASE j # k /\ j # sp
    <3>1. L2[j] = L[j]
      BY <2>3, <1>7
    <3>2. L[j] \in Seq(Fsd)
      BY <1>2 DEF InFsd
    <3>3. QED BY <3>1, <3>2
  <2>4. QED BY <2>2, <2>3
<1> HIDE DEF L, L2, k
<1>9. Elems(es) \cup Elems(b) = Elems(L[k]) \cup Elems(L[sp])
  BY <1>1, <1>6 DEF L
<1>10. InFsd(L) /\ Placing(fsd, L)
  BY <1>2 DEF L
<1>11. \A z \in Elems(L[k]) \cup Elems(L[sp]) : z \in Fsd /\ fsd[z].fsdfile # NoFile
  <2>1. \A z \in Elems(L[k]) \cup Elems(L[sp]) : z \in Fsd
    BY <1>10, <1>5 DEF InFsd, Elems
  <2>2. QED BY <2>1, <1>10, <1>5 DEF Placing, Used
<1>12. TwoChange(fsd, L, fsd', L2, k, sp)
  <2>1. Inj(L2[k]) /\ Inj(L2[sp]) /\ Elems(L2[k]) \cap Elems(L2[sp]) = {}
    BY <1>1, <1>6
  <2>2. Elems(L2[k]) \cup Elems(L2[sp]) = Elems(L[k]) \cup Elems(L[sp])
    BY <1>6, <1>9
  <2>3. QED BY <2>1, <2>2, <1>1, <1>5, <1>7, <1>11 DEF TwoChange
<1>13. Placing(fsd', L2)
  BY <1>8, <1>10, <1>12, TwoChanged
<1>14. QED BY <1>13 DEF L2

-----------------------------------------------------------------------------
(* A chain is linked in. *)
LinkArgs(s, ds, sp) ==
  /\ s \in Stream /\ Open(s) /\ Edged(s) /\ sp \in CallSpots /\ ds = Lists[sp] /\ ds # << >>
  /\ fsd' = fsd
  /\ \A k \in CallSpots : Lists'[k] = IF k = sp THEN << >> ELSE Lists[k]

LinkFacts(f, at, n) ==
  /\ f \in File /\ at \in Nat /\ n \in Nat /\ n > 0
  /\ \A t \in Streams : las'[t].la_file = las[t].la_file /\ las'[t].la_stay = las[t].la_stay
  /\ \A t \in Streams : las[t].la_file # f => las'[t] = las[t]
  /\ \A t \in Streams : las[t].la_file = f =>
       las'[t].la_lpos = IF las[t].la_lpos < at \/ (las[t].la_lpos = at /\ las[t].la_stay) THEN las[t].la_lpos
                                                                                          ELSE las[t].la_lpos + n
  /\ \A g \in Files : laf'[g].la_refs = laf[g].la_refs
                      /\ laf'[g].la_nlines = IF g = f THEN laf[g].la_nlines + n ELSE laf[g].la_nlines
  /\ \A g \in Files : g # f => chain'[g] = chain[g]
  /\ \A q \in Nat : Bound(fsd, chain[f], q) /\ q <= at => Bound(fsd', chain'[f], q)
  /\ \A q \in Nat : Bound(fsd, chain[f], q) /\ q >= at => Bound(fsd', chain'[f], q + n)
  /\ Bound(fsd', chain'[f], at) /\ Bound(fsd', chain'[f], at + n)
  /\ Bound(fsd, chain[f], at)

AfterLinkFacts(x, at, ds, n, y) ==
  /\ y \in LaStreams /\ y.la_file = x.la_file /\ y.la_stay = x.la_stay
  /\ y.la_lpos = IF x.la_lpos < at \/ (x.la_lpos = at /\ x.la_stay) THEN x.la_lpos ELSE x.la_lpos + n

(* What la_link does to a stream, field by field.                          *)
LEMMA AfterLinkIs ==
  ASSUME NEW x \in LaStreams, NEW at, NEW ds, NEW n, at \in Nat, n \in Nat, ds \in Seq(Fsd), ds # << >>
  PROVE  AfterLinkFacts(x, at, ds, n, AfterLink(x, at, ds, n))
<1>1. Head(ds) \in Fsd
  OBVIOUS
<1>2. x.la_lpos \in Nat
  BY DEF LaStreams
<1>3. CASE x.la_lpos = at /\ x.la_stay
  <2>1. ~ (x.la_lpos < at)
    BY <1>2, <1>3
  <2> DEFINE y == AfterLink(x, at, ds, n)
  <2>2. y = [x EXCEPT !.la_cfsd = Head(ds), !.la_rlines = 0]
    BY <1>3, <2>1 DEF AfterLink
  <2>3. y \in LaStreams /\ y.la_file = x.la_file /\ y.la_stay = x.la_stay /\ y.la_lpos = x.la_lpos
    <3>1. ASSUME NEW e \in Fsd, y = [x EXCEPT !.la_cfsd = e, !.la_rlines = 0]
          PROVE  y \in LaStreams /\ y.la_file = x.la_file /\ y.la_stay = x.la_stay /\ y.la_lpos = x.la_lpos
      <4> HIDE DEF y
      <4>1. y \in LaStreams
        BY <3>1 DEF LaStreams
      <4>2. y.la_file = x.la_file /\ y.la_stay = x.la_stay /\ y.la_lpos = x.la_lpos
        BY <3>1 DEF LaStreams
      <4>3. QED BY <4>1, <4>2
    <3>2. QED BY <3>1, <2>2, <1>1
  <2> HIDE DEF y
  <2>4. QED BY <2>3, <1>3 DEF AfterLinkFacts, y
<1>4. CASE x.la_lpos < at
  <2>1. ~ (x.la_lpos = at /\ x.la_stay)
    BY <1>2, <1>4
  <2>2. AfterLink(x, at, ds, n) = [x EXCEPT !.la_rlines = IF x.la_lpos + @ > at THEN 0 ELSE @]
    BY <1>4, <2>1 DEF AfterLink
  <2>3. QED BY <2>2, <1>4, SMTT(45) DEF AfterLinkFacts, LaStreams
<1>5. CASE ~ (x.la_lpos = at /\ x.la_stay) /\ ~ (x.la_lpos < at)
  <2>1. AfterLink(x, at, ds, n) = [x EXCEPT !.la_lpos = @ + n]
    BY <1>5 DEF AfterLink
  <2>2. x.la_lpos + n \in Nat
    BY <1>2
  <2>3. QED BY <2>1, <2>2, <1>5 DEF AfterLinkFacts, LaStreams
<1>6. QED BY <1>3, <1>4, <1>5

(* la_link keeps the books, with whichever list it takes into the chain.   *)
LEMMA LinkBooks ==
  ASSUME TypeOK, Books, NEW s, NEW ds, NEW sp, LinkArgs(s, ds, sp), Link(s, ds)
  PROVE  /\ Books' /\ VarTypes'
         /\ LinkFacts(las[s].la_file, las[s].la_lpos, Size(fsd, ds))
<1>0. VarTypes /\ fsd \in [Fsd -> Fsds]
  BY TypesAre DEF VarTypes
<1> DEFINE f == las[s].la_file
           old == chain[f]
           at == las[s].la_lpos
           n == Size(fsd, ds)
<1>1. /\ s \in Stream /\ Open(s) /\ Edged(s) /\ sp \in CallSpots /\ ds = Lists[sp] /\ ds # << >>
      /\ fsd' = fsd
      /\ \A k \in CallSpots : Lists'[k] = IF k = sp THEN << >> ELSE Lists[k]
  BY DEF LinkArgs
<1>2. s \in Streams
  BY <1>1 DEF Streams
<1>3. f \in Files /\ Chained(fsd, old) /\ PlaceFacts(fsd, old, las[s]) /\ laf[f].la_nlines = Size(fsd, old)
  BY <1>1, <1>2, StreamHas
<1>4. f \in File /\ f # Chg
  BY <1>1, <1>3 DEF Books, Refs, Files
<1>5. sp \in Spot /\ CallSpots \subseteq Spot
  BY <1>1, SpotsAre DEF CallSpots
<1>6. Chained(fsd, ds)
  <2>1. InFsd(Lists) /\ Placing(fsd, Lists) /\ Lined(fsd)
    BY ListsIn DEF Books
  <2>2. QED BY <2>1, <1>0, <1>1, <1>5, ChainedIs
<1>7. old \in Seq(Fsd) /\ ds \in Seq(Fsd) /\ Inj(old) /\ Inj(ds) /\ LinedOn(fsd, old) /\ LinedOn(fsd, ds)
  BY <1>3, <1>6 DEF Chained
<1>8. Bound(fsd, old, at)
  BY <1>1 DEF Edged, Edge
<1>9. PICK i \in 1 .. Len(old) + 1 : las[s].la_cfsd = Nth(old, i) /\ Sums(fsd, old)[i - 1] = at
  <2>1. Pointed(fsd, old, las[s].la_cfsd, at)
    BY <1>3, <1>8 DEF PlaceFacts
  <2>2. QED BY <2>1 DEF Pointed
<1>10. At(old, las[s].la_cfsd) = i
  BY <1>7, <1>9, AtIs
<1> DEFINE es == Splice(old, i, ds, i)
<1>11. chain' = [chain EXCEPT ![f] = es]
  BY <1>10 DEF Link, Splice
<1>12. Count(ds) = n
  BY CountIs, SMTT(45)
<1>13. laf' = [laf EXCEPT ![f].la_nlines = @ + n, ![f].la_mode = TRUE]
  BY <1>12, SMTT(45) DEF Link
<1>14. las' = [t \in Streams |-> IF las[t].la_file = f THEN AfterLink(las[t], at, ds, n) ELSE las[t]]
  BY <1>12 DEF Link
<1> HIDE DEF f, at, n
<1>15. CutAt(old, i, ds, i)
  BY <1>7, <1>9 DEF CutAt
<1>16. Changed(fsd, old, i, ds, i, es)
  BY <1>0, <1>15, ChangedIs
<1>17. Spliced(old, i, ds, i, es) /\ es \in Seq(Fsd)
  <2>1. Spliced(old, i, ds, i, es)
    BY <1>15, SpliceIs
  <2>2. QED BY <2>1 DEF Spliced
<1>18. chain'[f] = es /\ \A g \in Files : g # f => chain'[g] = chain[g]
  BY <1>0, <1>3, <1>11 DEF VarTypes
<1> HIDE DEF es, old
<1>19. at \in Nat
  BY <1>3 DEF PlaceFacts, at
<1>20. n \in Nat
  BY <1>0, <1>7, SizeNat DEF n
<1>21. n > 0
  <2>1. 1 \in 1 .. Len(ds) /\ Len(ds) \in 0 .. Len(ds) /\ 1 \in 0 .. Len(ds) /\ 0 \in 0 .. Len(ds) /\ 1 <= Len(ds)
    BY <1>1, <1>7
  <2>2. Rising(fsd, ds)
    BY <1>0, <1>7, RisingIs
  <2>3. Sums(fsd, ds)[0] < Sums(fsd, ds)[Len(ds)]
    <3>1. 0 < Len(ds)
      BY <2>1
    <3>2. QED BY <2>1, <2>2, <3>1 DEF Rising
  <2>4. Sums(fsd, ds)[0] = 0
    BY <1>0, <1>7, SumsIs
  <2>5. QED BY <2>3, <2>4 DEF Size, n
<1>22. \A z \in Elems(old) : z \notin Elems(ds)
  <2>1. Lists[<< 0, f >>] = old /\ << 0, f >> \in Spot /\ << 0, f >> # sp
    BY <1>1, <1>3, ListsAre, SpotsAre DEF Lists, CallSpots, old
  <2>2. QED BY <2>1, <1>1, <1>5 DEF Books, Placing, Apart
<1>23. Elems(es) = Elems(old) \cup Elems(ds) /\ Inj(es)
  <2>1. Elems(old) \cap Elems(ds) = {}
    BY <1>22
  <2>2. ElemsAre(old, i, ds, i, es)
    BY <2>1, <1>7, <1>15, <1>17, ChangeElems
  <2>3. SubSeq(old, i, i - 1) = << >>
    BY <1>7, <1>9
  <2>4. Elems(es) = (Elems(old) \ Elems(<< >>)) \cup Elems(ds) /\ Inj(es)
    BY <2>2, <2>3 DEF ElemsAre
  <2>5. QED BY <2>4, NoElems
<1>24. Placing(fsd', Lists')
  <2>1. Swapped(f, es, sp, << >>)
    <3>1. Elems(es) \cap Elems(<< >>) = {} /\ Elems(es) \cup Elems(<< >>) = Elems(chain[f]) \cup Elems(Lists[sp])
      BY <1>1, <1>23, NoElems DEF old
    <3>2. QED BY <3>1, <1>1, <1>3, <1>17, <1>18, <1>23, NoElems DEF Swapped
  <2>2. QED BY <2>1, SwappedIs
<1>25. Lined(fsd')
  BY <1>1 DEF Books
<1>26. ChangeKeeps(fsd, old, i, ds, i, es)
  BY <1>0, <1>7, <1>16, ChangeBounds
<1>27. /\ Size(fsd, es) = Size(fsd, old) + n
       /\ \A q \in Nat : Bound(fsd, old, q) /\ q <= at => Bound(fsd, es, q)
       /\ \A q \in Nat : Bound(fsd, old, q) /\ q >= at => Bound(fsd, es, q + n)
       /\ Bound(fsd, es, at) /\ Bound(fsd, es, at + n)
  <2> DEFINE a == Sums(fsd, old)[i - 1]
  <2>1. a = at
    BY <1>9
  <2>2. /\ Size(fsd, es) = Size(fsd, old) + Size(fsd, ds) - (a - a)
        /\ \A q \in Nat : Bound(fsd, old, q) /\ q <= a => Bound(fsd, es, q)
        /\ \A q \in Nat : Bound(fsd, old, q) /\ q >= a => Bound(fsd, es, q + Size(fsd, ds) - (a - a))
        /\ Bound(fsd, es, a) /\ Bound(fsd, es, a + Size(fsd, ds))
    BY <1>26 DEF ChangeKeeps
  <2> HIDE DEF a
  <2>3. Size(fsd, ds) = n
    BY DEF n
  <2>4. Size(fsd, old) \in Nat
    BY <1>0, <1>7, SizeNat
  <2>5. Size(fsd, es) = Size(fsd, old) + n
    BY <2>1, <2>2, <2>3, <2>4, <1>19, <1>20
  <2>6. ASSUME NEW q \in Nat, Bound(fsd, old, q), q >= at PROVE Bound(fsd, es, q + n)
    <3>1. Bound(fsd, es, q + n - (a - a))
      BY <2>1, <2>2, <2>3, <2>6
    <3>2. q + n - (a - a) = q + n
      BY <2>1, <1>19, <1>20
    <3>3. QED BY <3>1, <3>2
  <2>7. QED BY <2>1, <2>2, <2>3, <2>5, <2>6
<1>28. /\ laf' \in [Files -> LaFiles]
       /\ \A g \in Files : laf'[g].la_refs = laf[g].la_refs /\ laf'[g].la_fsrefs = laf[g].la_fsrefs
                           /\ laf'[g].la_nlines = IF g = f THEN laf[g].la_nlines + n ELSE laf[g].la_nlines
  <2>1. SUFFICES ASSUME NEW g \in Files
        PROVE /\ laf'[g] \in LaFiles /\ laf'[g].la_refs = laf[g].la_refs /\ laf'[g].la_fsrefs = laf[g].la_fsrefs
              /\ laf'[g].la_nlines = IF g = f THEN laf[g].la_nlines + n ELSE laf[g].la_nlines
    <3>1. laf' = [g \in Files |-> laf'[g]]
      BY <1>13, <1>0 DEF VarTypes
    <3>2. QED BY <3>1
  <2>2. laf \in [Files -> LaFiles] /\ laf[g] \in LaFiles
    BY <1>0 DEF VarTypes
  <2>3. CASE g = f
    <3>1. PICK x : x = [laf[g] EXCEPT !.la_nlines = @ + n]
      OBVIOUS
    <3>2. laf'[g] = [x EXCEPT !.la_mode = TRUE]
      BY <1>13, <2>2, <2>3, <3>1
    <3>3. laf[g].la_nlines + n \in Nat
      BY <2>2, <1>20 DEF LaFiles
    <3>4. x \in LaFiles /\ x.la_refs = laf[g].la_refs /\ x.la_fsrefs = laf[g].la_fsrefs /\ x.la_nlines = laf[g].la_nlines + n
      BY <2>2, <3>1, <3>3 DEF LaFiles
    <3>5. laf'[g] \in LaFiles /\ laf'[g].la_refs = x.la_refs /\ laf'[g].la_fsrefs = x.la_fsrefs /\ laf'[g].la_nlines = x.la_nlines
      BY <3>2, <3>4 DEF LaFiles
    <3>6. QED BY <3>4, <3>5, <2>3
  <2>4. CASE g # f
    BY <1>13, <2>2, <2>4
  <2>5. QED BY <2>3, <2>4
<1>29. Numbered'
  <2>1. SUFFICES ASSUME NEW g \in Files PROVE laf'[g].la_nlines = Size(fsd', chain'[g])
    BY DEF Numbered
  <2>2. laf[g].la_nlines = Size(fsd, chain[g])
    BY DEF Books, Numbered
  <2>3. CASE g = f
    BY <2>2, <2>3, <1>1, <1>18, <1>27, <1>28 DEF old
  <2>4. CASE g # f
    BY <2>2, <2>4, <1>1, <1>18, <1>28
  <2>5. QED BY <2>3, <2>4
<1>30. IsOpen(f)
  <2>1. s \in At1(f)
    BY <1>1 DEF At1, f
  <2>2. IsFiniteSet(At1(f)) /\ laf[f].la_refs = Cardinality(At1(f))
    BY <1>4 DEF Books, Refs
  <2>3. Cardinality(At1(f)) \in Nat /\ Cardinality(At1(f)) # 0
    BY <2>1, <2>2, FS_EmptySet, FS_CardinalityType
  <2>4. QED BY <2>2, <2>3 DEF IsOpen
<1>31. Shut'
  <2>1. SUFFICES ASSUME NEW g \in File, ~ IsOpen(g)' PROVE chain'[g] = << >>
    BY DEF Shut
  <2>2. g \in Files
    BY DEF Files
  <2>3. ~ IsOpen(g) /\ g # f
    BY <2>1, <2>2, <1>28, <1>30 DEF IsOpen
  <2>4. QED BY <2>2, <2>3, <1>18 DEF Books, Shut
<1>32. \A t \in Streams : las[t] \in LaStreams /\ las'[t] = IF las[t].la_file = f THEN AfterLink(las[t], at, ds, n) ELSE las[t]
  BY <1>14, <1>0 DEF VarTypes
<1>33. \A t \in Streams : AfterLinkFacts(las[t], at, ds, n, AfterLink(las[t], at, ds, n))
  BY <1>32, <1>7, <1>1, <1>19, <1>20, AfterLinkIs
<1>34. \A t \in Streams : las'[t] \in LaStreams /\ las'[t].la_file = las[t].la_file /\ las'[t].la_stay = las[t].la_stay
  BY <1>32, <1>33 DEF AfterLinkFacts
<1>35. \A t \in Streams : las[t].la_file = f =>
         las'[t].la_lpos = IF las[t].la_lpos < at \/ (las[t].la_lpos = at /\ las[t].la_stay) THEN las[t].la_lpos
                                                                                            ELSE las[t].la_lpos + n
  BY <1>32, <1>33 DEF AfterLinkFacts
<1>36. las' \in [Streams -> LaStreams]
  BY <1>14, <1>34
<1>37. Placed'
  <2>1. SUFFICES ASSUME NEW t \in Streams PROVE (IF Open(t) THEN InChain(fsd, chain[las[t].la_file], las[t]) ELSE las[t] = Closed)'
    BY DEF Placed
  <2>2. CASE ~ Open(t)
    <3>1. las[t].la_file # f /\ las[t] = Closed
      BY <2>2, <1>3, FilesAre DEF Open, Books, Placed
    <3>2. las'[t] = las[t]
      BY <3>1, <1>32
    <3>3. QED BY <3>1, <3>2, <2>2 DEF Open
  <2>3. CASE Open(t)
    <3>1. Open(t)'
      BY <2>3, <1>34 DEF Open
    <3>2. las[t].la_file \in Files /\ InChain(fsd, chain[las[t].la_file], las[t]) /\ las[t] \in LaStreams
      BY <2>3, StreamIs
    <3>3. CASE las[t].la_file = f
      <4>1. InChain(fsd, old, las[t])
        BY <3>2, <3>3 DEF old
      <4>2. InChain(fsd, es, AfterLink(las[t], at, ds, n))
        BY <4>1, <3>2, <1>0, <1>1, <1>7, <1>9, <1>16, LinkStays DEF n
      <4>3. chain'[las'[t].la_file] = es /\ las'[t] = AfterLink(las[t], at, ds, n)
        BY <3>3, <1>34, <1>18, <1>32
      <4>4. InChain(fsd', chain'[las'[t].la_file], las'[t])
        BY <4>2, <4>3, <1>1
      <4>5. QED BY <4>4, <3>1
    <3>4. CASE las[t].la_file # f
      BY <3>1, <3>2, <3>4, <1>1, <1>18, <1>32
    <3>5. QED BY <3>3, <3>4
  <2>4. QED BY <2>2, <2>3
<1>38. Refs'
  BY <1>28, <1>34, SameRefsIs DEF SameRefs, Books
<1>39. FsrefsExact'
  BY <1>1, <1>28 DEF FsrefsExact, Books
<1>40. Filler'
  <2>1. Filler /\ Blas \in Streams /\ Chg \in Files
    BY DEF Books, Streams, Files
  <2>2. las'[Blas] = las[Blas] /\ chain'[Chg] = chain[Chg]
    BY <2>1, <1>4, <1>18, <1>32 DEF Filler
  <2>3. QED BY <2>1, <2>2, <1>1 DEF Filler
<1>41. Books'
  BY <1>24, <1>25, <1>29, <1>31, <1>37, <1>38, <1>39, <1>40 DEF Books
<1>42. VarTypes'
  <2>1. chain' \in [Files -> Seq(Fsd)]
    BY <1>11, <1>17, <1>0 DEF VarTypes
  <2>2. QED BY <2>1, <1>0, <1>1, <1>28, <1>36 DEF VarTypes
<1>43. LinkFacts(f, at, n)
  <2>1. \A t \in Streams : las[t].la_file # f => las'[t] = las[t]
    BY <1>32
  <2>2. chain'[f] = es /\ chain[f] = old /\ fsd' = fsd
    BY <1>18, <1>1 DEF old
  <2>3. /\ \A q \in Nat : Bound(fsd, chain[f], q) /\ q <= at => Bound(fsd', chain'[f], q)
        /\ \A q \in Nat : Bound(fsd, chain[f], q) /\ q >= at => Bound(fsd', chain'[f], q + n)
        /\ Bound(fsd', chain'[f], at) /\ Bound(fsd', chain'[f], at + n) /\ Bound(fsd, chain[f], at)
    BY <2>2, <1>8, <1>27
  <2>4. QED BY <2>1, <2>3, <1>4, <1>18, <1>19, <1>20, <1>21, <1>28, <1>34, <1>35 DEF LinkFacts
<1>44. QED BY <1>41, <1>42, <1>43 DEF f, at, n

-----------------------------------------------------------------------------
(* Cutting lines out keeps the books.                                      *)

AfterUnlinkFacts(x, at, n, y) ==
  /\ y \in LaStreams /\ y.la_file = x.la_file /\ y.la_stay = x.la_stay
  /\ y.la_lpos = IF x.la_lpos >= at + n THEN x.la_lpos - n ELSE IF x.la_lpos < at THEN x.la_lpos ELSE at

(* What la_unlink does to a stream, field by field.                        *)
LEMMA AfterUnlinkIs ==
  ASSUME NEW x \in LaStreams, NEW at, NEW n, NEW d, at \in Nat, n \in Nat, d \in Fsd \cup {Eof}
  PROVE  AfterUnlinkFacts(x, at, n, AfterU(x, at, n, d))
<1> DEFINE y == AfterU(x, at, n, d)
<1>1. x.la_lpos \in Nat
  BY DEF LaStreams
<1>2. CASE x.la_lpos >= at + n
  <2>1. y = [x EXCEPT !.la_lpos = @ - n] \/ (x.la_lpos < at)
    BY <1>2 DEF AfterU
  <2>2. ~ (x.la_lpos < at)
    BY <1>1, <1>2
  <2> HIDE DEF y
  <2>3. x.la_lpos - n \in Nat
    BY <1>1, <1>2
  <2>4. y \in LaStreams /\ y.la_file = x.la_file /\ y.la_stay = x.la_stay /\ y.la_lpos = x.la_lpos - n
    BY <2>1, <2>2, <2>3 DEF LaStreams
  <2>5. QED BY <2>4, <1>2 DEF AfterUnlinkFacts, y
<1>3. CASE x.la_lpos < at
  <2>1. ~ (x.la_lpos >= at + n)
    BY <1>1, <1>3
  <2>2. y = [x EXCEPT !.la_rlines = IF x.la_lpos + @ > at THEN 0 ELSE @]
    BY <1>3, <2>1 DEF AfterU
  <2> HIDE DEF y
  <2>3. y \in LaStreams /\ y.la_file = x.la_file /\ y.la_stay = x.la_stay /\ y.la_lpos = x.la_lpos
    BY <2>2 DEF LaStreams
  <2>4. QED BY <2>1, <2>3, <1>3 DEF AfterUnlinkFacts, y
<1>4. CASE ~ (x.la_lpos >= at + n) /\ ~ (x.la_lpos < at)
  <2>1. y = [x EXCEPT !.la_cfsd = d, !.la_fsline = 0, !.la_lpos = at, !.la_rlines = 0]
    BY <1>4 DEF AfterU
  <2> HIDE DEF y
  <2>2. y \in LaStreams
    BY <2>1 DEF LaStreams
  <2>3. y.la_file = x.la_file /\ y.la_stay = x.la_stay /\ y.la_lpos = at
    BY <2>1 DEF LaStreams
  <2>4. QED BY <2>2, <2>3, <1>4 DEF AfterUnlinkFacts, y
<1>5. QED BY <1>2, <1>3, <1>4

UnlinkArgs == /\ call.p \in Stream /\ Open(call.p) /\ Edged(call.p) /\ call.n > 0 /\ call.cut = << >>
              /\ Pointed(fsd, Ds, call.cfsd, X.la_lpos + call.n)

CutFacts(f, at, n) ==
  /\ f \in File /\ at \in Nat /\ n \in Nat /\ n > 0
  /\ \A t \in Streams : las'[t].la_file = las[t].la_file /\ las'[t].la_stay = las[t].la_stay
  /\ \A t \in Streams : las[t].la_file # f => las'[t] = las[t]
  /\ \A t \in Streams : las[t].la_file = f =>
       las'[t].la_lpos = IF las[t].la_lpos >= at + n THEN las[t].la_lpos - n
                         ELSE IF las[t].la_lpos < at THEN las[t].la_lpos ELSE at
  /\ \A g \in Files : laf'[g].la_refs = laf[g].la_refs
                      /\ laf'[g].la_nlines = IF g = f THEN laf[g].la_nlines - n ELSE laf[g].la_nlines
  /\ \A g \in Files : g # f => chain'[g] = chain[g]
  /\ \A q \in Nat : Bound(fsd, chain[f], q) /\ q <= at => Bound(fsd', chain'[f], q)
  /\ \A q \in Nat : Bound(fsd, chain[f], q) /\ q >= at + n => Bound(fsd', chain'[f], q - n)
  /\ Bound(fsd', chain'[f], at) /\ Bound(fsd, chain[f], at) /\ Bound(fsd, chain[f], at + n)

(* Cutting lines out of a chain at two ends of fsds keeps the books; what  *)
(* was cut out is not empty.                                               *)
LEMMA UnlinkBooks ==
  ASSUME TypeOK, Books, UnlinkArgs, Unlink
  PROVE  /\ Books' /\ VarTypes'
         /\ CutFacts(X.la_file, X.la_lpos, call.n)
         /\ call'.cut \in Seq(Fsd) /\ call'.cut # << >>
<1>0. VarTypes /\ fsd \in [Fsd -> Fsds] /\ call \in Calls
  BY TypesAre DEF VarTypes
<1> DEFINE f == X.la_file
           old == chain[f]
           at == X.la_lpos
           n == call.n
           s == call.p
<1>1. /\ s \in Stream /\ Open(s) /\ Edged(s) /\ n > 0 /\ call.cut = << >>
      /\ Pointed(fsd, old, call.cfsd, at + n)
  BY DEF UnlinkArgs, X, Ds
<1>2. s \in Streams /\ X = las[s]
  BY <1>1 DEF Streams, X
<1>3. f \in Files /\ Chained(fsd, old) /\ PlaceFacts(fsd, old, las[s]) /\ laf[f].la_nlines = Size(fsd, old)
  BY <1>1, <1>2, StreamHas
<1>4. f \in File /\ f # Chg
  BY <1>1, <1>2, <1>3 DEF Books, Refs, Files
<1>7. old \in Seq(Fsd) /\ Inj(old) /\ LinedOn(fsd, old)
  BY <1>3 DEF Chained
<1>8. Bound(fsd, old, at)
  BY <1>1, <1>2 DEF Edged, Edge
<1>9. PICK i \in 1 .. Len(old) + 1 : las[s].la_cfsd = Nth(old, i) /\ Sums(fsd, old)[i - 1] = at
  <2>1. Pointed(fsd, old, las[s].la_cfsd, at)
    BY <1>2, <1>3, <1>8 DEF PlaceFacts
  <2>2. QED BY <2>1 DEF Pointed
<1>10. PICK j \in 1 .. Len(old) + 1 : call.cfsd = Nth(old, j) /\ Sums(fsd, old)[j - 1] = at + n
  BY <1>1 DEF Pointed
<1>11. At(old, las[s].la_cfsd) = i /\ At(old, call.cfsd) = j
  BY <1>7, <1>9, <1>10, AtIs
<1> DEFINE em == << >>
           es == Splice(old, i, em, j)
           cut == SubSeq(old, i, j - 1)
<1>12. chain' = [chain EXCEPT ![f] = es]
  <2>1. chain' = [chain EXCEPT ![f] = SubSeq(old, 1, i - 1) \o SubSeq(old, j, Len(old))]
    BY <1>11, <1>2 DEF Unlink
  <2>2. SubSeq(old, 1, i - 1) \o SubSeq(old, j, Len(old)) = es
    <3>1. SubSeq(old, 1, i - 1) \in Seq(Fsd) /\ SubSeq(old, j, Len(old)) \in Seq(Fsd)
      BY <1>7, <1>9, <1>10, SMTT(45)
    <3>2. SubSeq(old, 1, i - 1) \o << >> = SubSeq(old, 1, i - 1)
      BY <3>1
    <3>3. QED BY <3>1, <3>2 DEF Splice
  <2>3. QED BY <2>1, <2>2
<1>13. laf' = [laf EXCEPT ![f].la_nlines = @ - n, ![f].la_mode = TRUE]
  BY <1>2 DEF Unlink
<1>14. las' = [t \in Streams |-> IF las[t].la_file = f THEN AfterU(las[t], at, n, call.cfsd) ELSE las[t]]
  <2>1. las' = [t \in Streams |-> IF las[t].la_file = f THEN AfterUnlink(las[t], at, n) ELSE las[t]]
    BY <1>2 DEF Unlink
  <2>2. \A t \in Streams : AfterUnlink(las[t], at, n) = AfterU(las[t], at, n, call.cfsd)
    BY SMTT(45) DEF AfterUnlink, AfterU
  <2>3. QED BY <2>1, <2>2, SMTT(45)
<1>15. fsd' = fsd
  BY DEF Unlink
<1>16. call'.cut = cut /\ call'.new = call.new /\ call'.tail = call.tail
  <2>1. call' = [Done EXCEPT !.cut = cut]
    BY <1>11, <1>2 DEF Unlink
  <2>2. QED BY <2>1, <1>0 DEF Done, Calls
<1>17. at \in Nat /\ n \in Nat
  BY <1>0, <1>2, <1>3 DEF PlaceFacts, Calls
<1> HIDE DEF f, at, n
<1>18. i <= j /\ i # j
  <2> DEFINE c == Sums(fsd, old)
  <2>1. Rising(fsd, old)
    BY <1>0, <1>7, RisingIs
  <2>2. i - 1 \in 0 .. Len(old) /\ j - 1 \in 0 .. Len(old) /\ i \in Nat /\ j \in Nat
    BY <1>7, <1>9, <1>10
  <2>3. \A q \in 0 .. Len(old) : c[q] \in Nat
    BY <1>0, <1>7, SumsIs
  <2>4. c[i - 1] = at /\ c[j - 1] = at + n
    BY <1>9, <1>10
  <2>5. i # j
    BY <2>4, <1>1, <1>17
  <2>6. ASSUME j < i PROVE FALSE
    <3>1. c[j - 1] < c[i - 1]
      <4>1. j - 1 < i - 1
        BY <2>6, <2>2
      <4>2. QED BY <4>1, <2>1, <2>2 DEF Rising
    <3> HIDE DEF c
    <3>2. QED BY <3>1, <2>4, <1>1, <1>17
  <2>7. QED BY <2>5, <2>6, <2>2
<1>19. j \in i .. Len(old) + 1 /\ em \in Seq(Fsd)
  BY <1>7, <1>9, <1>10, <1>18
<1>20. PartIs(fsd, old, i, j, cut)
  BY <1>0, <1>7, <1>9, <1>19, PartHas
<1>21. cut \in Seq(Fsd) /\ cut # << >>
  <2>1. cut \in Seq(Fsd) /\ Len(cut) = j - i
    BY <1>20 DEF PartIs
  <2>2. Len(cut) # 0
    BY <2>1, <1>18, <1>9, <1>10, <1>7
  <2>3. QED BY <2>1, <2>2
<1>22. CutAt(old, i, em, j)
  BY <1>7, <1>9, <1>19 DEF CutAt
<1> HIDE DEF em
<1>23. Changed(fsd, old, i, em, j, es)
  BY <1>0, <1>22, ChangedIs
<1>24. Spliced(old, i, em, j, es)
  BY <1>22, SpliceIs
<1>25. es \in Seq(Fsd)
  BY <1>24 DEF Spliced
<1>26. chain'[f] = es /\ \A g \in Files : g # f => chain'[g] = chain[g]
  BY <1>0, <1>3, <1>12 DEF VarTypes, f
<1> HIDE DEF es, old, cut
<1>27. Elems(em) = {} /\ Inj(em)
  BY NoElems DEF em
<1>28. Elems(es) = Elems(old) \ Elems(cut) /\ Inj(es) /\ Inj(cut) /\ Elems(cut) \subseteq Elems(old)
  <2>1. Elems(old) \cap Elems(em) = {}
    BY <1>27
  <2>2. ElemsAre(old, i, em, j, es)
    BY <2>1, <1>7, <1>22, <1>24, <1>27, ChangeElems
  <2>3. Elems(es) = (Elems(old) \ Elems(cut)) \cup Elems(em) /\ Inj(es) /\ Inj(cut) /\ Elems(cut) \subseteq Elems(old)
    BY <2>2 DEF ElemsAre, cut
  <2>4. QED BY <2>3, <1>27
<1>29. Placing(fsd', Lists')
  <2> DEFINE sp == << 3, NoFile >>
  <2>1. Lists[sp] = em /\ sp \in CallSpots
    BY <1>1, ListsNow DEF em, CallSpots
  <2>2. \A k \in CallSpots : Lists'[k] = IF k = sp THEN cut ELSE Lists[k]
    BY <1>16, ListsNow, ListsThen, SpotsAre DEF CallSpots
  <2> HIDE DEF sp
  <2>3. Elems(es) \cap Elems(cut) = {} /\ Elems(es) \cup Elems(cut) = Elems(chain[f]) \cup Elems(Lists[sp])
    BY <2>1, <1>27, <1>28 DEF old
  <2>4. Swapped(f, es, sp, cut)
    BY <2>1, <2>2, <2>3, <1>3, <1>15, <1>21, <1>25, <1>26, <1>28 DEF Swapped, f
  <2>5. QED BY <2>4, SwappedIs
<1>30. Lined(fsd')
  BY <1>15 DEF Books
<1>31. ChangeKeeps(fsd, old, i, em, j, es)
  BY <1>0, <1>7, <1>23, ChangeBounds
<1>32. Size(fsd, em) = 0
  BY <1>0, SizeNone DEF em
<1>33. /\ Size(fsd, es) = Size(fsd, old) - n
       /\ \A q \in Nat : Bound(fsd, old, q) /\ q <= at => Bound(fsd, es, q)
       /\ \A q \in Nat : Bound(fsd, old, q) /\ q >= at + n => Bound(fsd, es, q - n)
       /\ Bound(fsd, es, at)
  <2> DEFINE a == Sums(fsd, old)[i - 1]
             b == Sums(fsd, old)[j - 1]
             z == Size(fsd, em)
             w == Size(fsd, old)
  <2>1. a = at /\ b = at + n /\ z = 0
    BY <1>9, <1>10, <1>32
  <2>2. /\ Size(fsd, es) = w + z - (b - a)
        /\ \A q \in Nat : Bound(fsd, old, q) /\ q <= a => Bound(fsd, es, q)
        /\ \A q \in Nat : Bound(fsd, old, q) /\ q >= b => Bound(fsd, es, q + z - (b - a))
        /\ Bound(fsd, es, a)
    BY <1>31 DEF ChangeKeeps
  <2>3. w \in Nat
    BY <1>0, <1>7, SizeNat
  <2> HIDE DEF a, b, z, w
  <2>4. Size(fsd, es) = w - n
    <3>1. w + z - (b - a) = w - n
      BY <2>1, <2>3, <1>17
    <3>2. QED BY <3>1, <2>2
  <2>5. ASSUME NEW q \in Nat, Bound(fsd, old, q), q >= at + n PROVE Bound(fsd, es, q - n)
    <3>1. Bound(fsd, es, q + z - (b - a))
      BY <2>1, <2>2, <2>5
    <3>2. q + z - (b - a) = q - n
      BY <2>1, <1>17
    <3>3. QED BY <3>1, <3>2
  <2>6. \A q \in Nat : Bound(fsd, old, q) /\ q <= at => Bound(fsd, es, q)
    BY <2>1, <2>2
  <2>7. Bound(fsd, es, at)
    BY <2>1, <2>2
  <2>8. QED BY <2>4, <2>5, <2>6, <2>7 DEF w
<1>34. Bound(fsd, old, at + n)
  <2>1. j - 1 \in 0 .. Len(old)
    BY <1>7, <1>10
  <2>2. QED BY <2>1, <1>10 DEF Bound
<1>35. /\ laf' \in [Files -> LaFiles]
       /\ \A g \in Files : laf'[g].la_refs = laf[g].la_refs /\ laf'[g].la_fsrefs = laf[g].la_fsrefs
                           /\ laf'[g].la_nlines = IF g = f THEN laf[g].la_nlines - n ELSE laf[g].la_nlines
  <2>0. laf[f].la_nlines - n \in Nat
    <3>1. Size(fsd, es) \in Nat
      <4>1. LinedOn(fsd, es) \/ TRUE
        OBVIOUS
      <4>2. QED BY <1>0, <1>25, SizeNat
    <3>2. QED BY <3>1, <1>3, <1>33 DEF old, f
  <2>1. SUFFICES ASSUME NEW g \in Files
        PROVE /\ laf'[g] \in LaFiles /\ laf'[g].la_refs = laf[g].la_refs /\ laf'[g].la_fsrefs = laf[g].la_fsrefs
              /\ laf'[g].la_nlines = IF g = f THEN laf[g].la_nlines - n ELSE laf[g].la_nlines
    <3>1. laf' = [g \in Files |-> laf'[g]]
      BY <1>13, <1>0 DEF VarTypes, f
    <3>2. QED BY <3>1
  <2>2. laf \in [Files -> LaFiles] /\ laf[g] \in LaFiles
    BY <1>0 DEF VarTypes
  <2>3. CASE g = f
    <3>1. PICK x : x = [laf[g] EXCEPT !.la_nlines = @ - n]
      OBVIOUS
    <3>2. laf'[g] = [x EXCEPT !.la_mode = TRUE]
      BY <1>13, <2>2, <2>3, <3>1
    <3>3. laf[g].la_nlines - n \in Nat
      BY <2>0, <2>3
    <3>4. x \in LaFiles /\ x.la_refs = laf[g].la_refs /\ x.la_fsrefs = laf[g].la_fsrefs /\ x.la_nlines = laf[g].la_nlines - n
      BY <2>2, <3>1, <3>3 DEF LaFiles
    <3>5. laf'[g] \in LaFiles /\ laf'[g].la_refs = x.la_refs /\ laf'[g].la_fsrefs = x.la_fsrefs /\ laf'[g].la_nlines = x.la_nlines
      BY <3>2, <3>4 DEF LaFiles
    <3>6. QED BY <3>4, <3>5, <2>3
  <2>4. CASE g # f
    BY <1>13, <2>2, <2>4 DEF f
  <2>5. QED BY <2>3, <2>4
<1>36. Numbered'
  <2>1. SUFFICES ASSUME NEW g \in Files PROVE laf'[g].la_nlines = Size(fsd', chain'[g])
    BY DEF Numbered
  <2>2. laf[g].la_nlines = Size(fsd, chain[g])
    BY DEF Books, Numbered
  <2>3. CASE g = f
    BY <2>2, <2>3, <1>15, <1>26, <1>33, <1>35 DEF old
  <2>4. CASE g # f
    BY <2>2, <2>4, <1>15, <1>26, <1>35
  <2>5. QED BY <2>3, <2>4
<1>37. IsOpen(f)
  <2>1. s \in At1(f)
    BY <1>1, <1>2 DEF At1, f
  <2>2. IsFiniteSet(At1(f)) /\ laf[f].la_refs = Cardinality(At1(f))
    BY <1>4 DEF Books, Refs, f
  <2>3. Cardinality(At1(f)) \in Nat /\ Cardinality(At1(f)) # 0
    BY <2>1, <2>2, FS_EmptySet, FS_CardinalityType
  <2>4. QED BY <2>2, <2>3 DEF IsOpen
<1>38. Shut'
  <2>1. SUFFICES ASSUME NEW g \in File, ~ IsOpen(g)' PROVE chain'[g] = << >>
    BY DEF Shut
  <2>2. g \in Files
    BY DEF Files
  <2>3. ~ IsOpen(g) /\ g # f
    BY <2>1, <2>2, <1>35, <1>37 DEF IsOpen
  <2>4. QED BY <2>2, <2>3, <1>26 DEF Books, Shut
<1>39. \A t \in Streams : las[t] \in LaStreams
          /\ las'[t] = IF las[t].la_file = f THEN AfterU(las[t], at, n, call.cfsd) ELSE las[t]
  BY <1>14, <1>0 DEF VarTypes, f, at, n
<1>40. \A t \in Streams : AfterUnlinkFacts(las[t], at, n, AfterU(las[t], at, n, call.cfsd))
  <2>1. call.cfsd \in Fsd \cup {Eof}
    BY <1>0 DEF Calls
  <2>2. QED BY <2>1, <1>39, <1>17, AfterUnlinkIs
<1>41. \A t \in Streams : las'[t] \in LaStreams /\ las'[t].la_file = las[t].la_file /\ las'[t].la_stay = las[t].la_stay
  BY <1>39, <1>40 DEF AfterUnlinkFacts
<1>42. \A t \in Streams : las[t].la_file = f =>
       las'[t].la_lpos = IF las[t].la_lpos >= at + n THEN las[t].la_lpos - n
                         ELSE IF las[t].la_lpos < at THEN las[t].la_lpos ELSE at
  BY <1>39, <1>40 DEF AfterUnlinkFacts
<1>43. las' \in [Streams -> LaStreams]
  BY <1>14, <1>41
<1>44. Placed'
  <2>1. SUFFICES ASSUME NEW t \in Streams PROVE (IF Open(t) THEN InChain(fsd, chain[las[t].la_file], las[t]) ELSE las[t] = Closed)'
    BY DEF Placed
  <2>2. CASE ~ Open(t)
    <3>1. las[t].la_file # f /\ las[t] = Closed
      BY <2>2, <1>3, FilesAre DEF Open, Books, Placed, f
    <3>2. las'[t] = las[t]
      BY <3>1, <1>39
    <3>3. QED BY <3>1, <3>2, <2>2 DEF Open
  <2>3. CASE Open(t)
    <3>1. Open(t)'
      BY <2>3, <1>41 DEF Open
    <3>2. las[t].la_file \in Files /\ InChain(fsd, chain[las[t].la_file], las[t]) /\ las[t] \in LaStreams
      BY <2>3, StreamIs
    <3>3. CASE las[t].la_file = f
      <4>1. InChain(fsd, old, las[t])
        BY <3>2, <3>3 DEF old
      <4>2. InChain(fsd, es, AfterU(las[t], at, n, Nth(old, j)))
        <5>1. Changed(fsd, old, i, << >>, j, es)
          BY <1>23 DEF em
        <5>2. at = Sums(fsd, old)[i - 1] /\ at + n = Sums(fsd, old)[j - 1]
          BY <1>9, <1>10
        <5>3. QED BY <5>1, <5>2, <4>1, <3>2, <1>0, <1>7, <1>17, UnlinkStays
      <4>3. chain'[las'[t].la_file] = es /\ las'[t] = AfterU(las[t], at, n, Nth(old, j))
        BY <3>3, <1>10, <1>26, <1>39, <1>41
      <4>4. InChain(fsd', chain'[las'[t].la_file], las'[t])
        BY <4>2, <4>3, <1>15
      <4>5. QED BY <4>4, <3>1
    <3>4. CASE las[t].la_file # f
      BY <3>1, <3>2, <3>4, <1>15, <1>26, <1>39
    <3>5. QED BY <3>3, <3>4
  <2>4. QED BY <2>2, <2>3
<1>45. Refs'
  BY <1>35, <1>41, SameRefsIs DEF SameRefs, Books
<1>46. FsrefsExact'
  BY <1>15, <1>35 DEF FsrefsExact, Books
<1>47. Filler'
  <2>1. Filler /\ Blas \in Streams /\ Chg \in Files
    BY DEF Books, Streams, Files
  <2>2. las'[Blas] = las[Blas] /\ chain'[Chg] = chain[Chg]
    BY <2>1, <1>4, <1>26, <1>39 DEF Filler, f
  <2>3. QED BY <2>1, <2>2, <1>15 DEF Filler
<1>48. Books'
  BY <1>29, <1>30, <1>36, <1>38, <1>44, <1>45, <1>46, <1>47 DEF Books
<1>49. VarTypes'
  <2>1. chain' \in [Files -> Seq(Fsd)]
    BY <1>12, <1>25, <1>0 DEF VarTypes, es
  <2>2. QED BY <2>1, <1>0, <1>15, <1>35, <1>43 DEF VarTypes
<1>50. CutFacts(f, at, n)
  <2>1. \A t \in Streams : las[t].la_file # f => las'[t] = las[t]
    BY <1>39
  <2>2. chain'[f] = es /\ chain[f] = old /\ fsd' = fsd
    BY <1>26, <1>15 DEF old
  <2>3. /\ \A q \in Nat : Bound(fsd, chain[f], q) /\ q <= at => Bound(fsd', chain'[f], q)
        /\ \A q \in Nat : Bound(fsd, chain[f], q) /\ q >= at + n => Bound(fsd', chain'[f], q - n)
        /\ Bound(fsd', chain'[f], at) /\ Bound(fsd, chain[f], at) /\ Bound(fsd, chain[f], at + n)
    BY <2>2, <1>8, <1>33, <1>34
  <2>4. f \in File /\ at \in Nat /\ n \in Nat /\ n > 0
    BY <1>1, <1>4, <1>17 DEF f, n
  <2>5. QED BY <2>1, <2>3, <2>4, <1>26, <1>35, <1>41, <1>42 DEF CutFacts
<1>51. call'.cut \in Seq(Fsd) /\ call'.cut # << >>
  BY <1>16, <1>21
<1>52. QED BY <1>48, <1>49, <1>50, <1>51 DEF f, at, n

-----------------------------------------------------------------------------
(* Freeing and joining lists keeps the books.                              *)

(* The fsds of one list are let go of. *)
Emptied(sp, L2) ==
  /\ sp \in Spot /\ InFsd(L2) /\ L2[sp] = << >> /\ \A j \in Spot : j # sp => L2[j] = Lists[j]
  /\ \A d \in Fsd : fsd'[d] = IF d \in Elems(Lists[sp]) THEN FreeFsd ELSE fsd[d]

(* Placing is kept when one list is freed.                                 *)
LEMMA EmptiedIs ==
  ASSUME TypeOK, Books, NEW sp, NEW L2, Emptied(sp, L2)
  PROVE  Placing(fsd', L2)
<1>1. /\ sp \in Spot /\ InFsd(L2) /\ L2[sp] = << >> /\ \A j \in Spot : j # sp => L2[j] = Lists[j]
      /\ \A d \in Fsd : fsd'[d] = IF d \in Elems(Lists[sp]) THEN FreeFsd ELSE fsd[d]
  BY DEF Emptied
<1>2. InFsd(Lists) /\ Placing(fsd, Lists)
  BY ListsIn DEF Books
<1>3. Elems(L2[sp]) = {} /\ Inj(L2[sp])
  BY <1>1, NoElems
<1>4. FreeFsd.fsdfile = NoFile
  BY DEF FreeFsd
<1>5. ASSUME NEW d \in Fsd PROVE fsd'[d].fsdfile # NoFile <=> fsd[d].fsdfile # NoFile /\ d \notin Elems(Lists[sp])
  <2>1. CASE d \in Elems(Lists[sp])
    BY <2>1, <1>1, <1>4
  <2>2. CASE d \notin Elems(Lists[sp])
    BY <2>2, <1>1
  <2>3. QED BY <2>1, <2>2
<1>6. TwoChange(fsd, Lists, fsd', L2, sp, sp)
  BY <1>1, <1>3, <1>5 DEF TwoChange
<1>7. QED BY <1>1, <1>2, <1>6, TwoChanged

(* What is left of the memory for a chain that shares no fsd with the list. *)
Rest(ds) ==
  /\ fsd' \in [Fsd -> Fsds]
  /\ \A es : Chained(fsd, es) /\ Disjoint(es, ds) => Alias(fsd, fsd', es)
  /\ \A d \in Fsd : fsd'[d].fsdfile # NoFile => fsd'[d] = fsd[d]
  /\ \A d \in Fsd : d \notin Elems(ds) => fsd'[d] = fsd[d]

FreedNow(ds) ==
  /\ ds \in Seq(Fsd)
  /\ fsd' = [d \in Fsd |-> IF d \in Elems(ds) THEN FreeFsd ELSE fsd[d]]

(* What freeing a chain leaves of the memory.                              *)
LEMMA RestIs ==
  ASSUME TypeOK, NEW ds, FreedNow(ds)
  PROVE  Rest(ds)
<1>0. fsd \in [Fsd -> Fsds]
  BY DEF TypeOK
<1>1. fsd' = [d \in Fsd |-> IF d \in Elems(ds) THEN FreeFsd ELSE fsd[d]]
  BY DEF FreedNow
<1>2. FreeFsd \in Fsds /\ FreeFsd.fsdfile = NoFile
  BY DEF FreeFsd, Fsds
<1>3. fsd' \in [Fsd -> Fsds]
  BY <1>0, <1>1, <1>2
<1>4. \A d \in Fsd : d \notin Elems(ds) => fsd'[d] = fsd[d]
  BY <1>1
<1>5. \A d \in Fsd : fsd'[d].fsdfile # NoFile => fsd'[d] = fsd[d]
  BY <1>1, <1>2
<1>6. ASSUME NEW es, Chained(fsd, es), Disjoint(es, ds) PROVE Alias(fsd, fsd', es)
  <2>1. es \in Seq(Fsd)
    BY <1>6 DEF Chained
  <2>2. SameLines(fsd, fsd', es)
    <3>1. SUFFICES ASSUME NEW q \in 1 .. Len(es) PROVE fsd'[es[q]].fsdnlines = fsd[es[q]].fsdnlines
      BY DEF SameLines
    <3>2. es[q] \in Elems(es)
      BY DEF Elems
    <3>3. es[q] \in Fsd /\ es[q] \notin Elems(ds)
      BY <3>2, <1>6 DEF Chained, Disjoint
    <3>4. QED BY <3>3, <1>4
  <2>3. QED BY <2>1, <2>2, <1>0, <1>3, SameChain
<1>7. QED BY <1>3, <1>4, <1>5, <1>6 DEF Rest

(* la_freefsd, of a chain that an operation has made or has unlinked. *)
FreeArgs(sp) ==
  /\ sp \in CallSpots /\ FreeChain(Lists[sp]) /\ chain' = chain /\ las' = las
  /\ \A k \in CallSpots : Lists'[k] = IF k = sp THEN << >> ELSE Lists[k]

(* la_freefsd of a list of the operation keeps the books.                  *)
LEMMA FreeBooks ==
  ASSUME TypeOK, Books, NEW sp, FreeArgs(sp)
  PROVE  Books' /\ VarTypes' /\ Kept /\ Rest(Lists[sp])
<1>0. VarTypes
  BY TypesAre
<1> DEFINE ds == Lists[sp]
<1>1. /\ sp \in CallSpots /\ FreeChain(ds) /\ chain' = chain /\ las' = las
      /\ \A k \in CallSpots : Lists'[k] = IF k = sp THEN << >> ELSE Lists[k]
  BY DEF FreeArgs
<1>2. sp \in Spot /\ (\A f \in Files : << 0, f >> \in Spot /\ << 0, f >> # sp)
  BY <1>1, SpotsAre DEF CallSpots
<1>3. Chained(fsd, ds)
  <2>1. InFsd(Lists) /\ Placing(fsd, Lists) /\ Lined(fsd) /\ fsd \in [Fsd -> Fsds]
    BY ListsIn, <1>0 DEF Books, VarTypes
  <2>2. QED BY <2>1, <1>2, ChainedIs
<1>4. \A f \in Files : Chained(fsd, chain[f]) /\ Disjoint(chain[f], ds)
  <2>1. \A f \in Files : Disjoint(chain[f], ds)
    <3>1. \A f \in Files : Elems(Lists[<< 0, f >>]) \cap Elems(Lists[sp]) = {}
      BY <1>2 DEF Books, Placing, Apart
    <3>2. QED BY <3>1, ListsNow DEF Disjoint
  <2>2. QED BY <2>1, ChainsAre
<1> HIDE DEF ds
<1>5. ds \in Seq(Fsd) /\ Inj(ds) /\ \A d \in Elems(ds) : d \in Fsd
  BY <1>3 DEF Chained
<1>6. \A d : (\E i \in DOMAIN ds : ds[i] = d) <=> d \in Elems(ds)
  BY <1>5 DEF Elems
<1>7. fsd' = [d \in Fsd |-> IF d \in Elems(ds) THEN FreeFsd ELSE fsd[d]]
  BY <1>1, <1>6 DEF FreeChain
<1>8. laf' = [f \in Files |-> [laf[f] EXCEPT !.la_fsrefs = @ - Cardinality(OwnedIn(fsd, f, ds))]]
  BY <1>1 DEF FreeChain, Owned, OwnedIn
<1>9. Rest(ds)
  BY <1>5, <1>7, RestIs DEF FreedNow
<1>10. fsd' \in [Fsd -> Fsds] /\ (\A d \in Fsd : fsd'[d].fsdfile # NoFile => fsd'[d] = fsd[d])
       /\ \A f \in Files : Alias(fsd, fsd', chain[f])
  BY <1>9, <1>4 DEF Rest
<1>11. Placing(fsd', Lists')
  <2>1. AllSeqs(chain', call'.new, call'.tail, call'.cut)
    <3>1. \A k \in CallSpots : Lists'[k] \in Seq(Fsd)
      <4>1. \A k \in CallSpots : Lists[k] \in Seq(Fsd)
        BY CallLists, ListsNow DEF CallSpots
      <4>2. QED BY <4>1, <1>1, NoElems
    <3>2. call'.new \in Seq(Fsd) /\ call'.tail \in Seq(Fsd) /\ call'.cut \in Seq(Fsd)
      BY <3>1, ListsThen DEF CallSpots
    <3>3. QED BY <3>2, <1>0, <1>1 DEF AllSeqs, VarTypes
  <2>2. InFsd(Lists')
    <3>1. InFsd(ListsOf(chain', call'.new, call'.tail, call'.cut))
      BY <2>1, InFsdIs
    <3>2. QED BY <3>1 DEF Lists
  <2>3. \A j \in Spot : j # sp => Lists'[j] = Lists[j]
    <3>1. SUFFICES ASSUME NEW j \in Spot, j # sp PROVE Lists'[j] = Lists[j]
      OBVIOUS
    <3>2. CASE \E f \in Files : j = << 0, f >>
      BY <3>2, <1>1, ListsNow, ListsThen
    <3>3. CASE j \in CallSpots
      BY <3>1, <3>3, <1>1
    <3>4. QED BY <3>2, <3>3, SpotsAre DEF CallSpots
  <2>4. Lists'[sp] = << >>
    BY <1>1
  <2>5. Emptied(sp, Lists')
    BY <2>2, <2>3, <2>4, <1>2, <1>7 DEF Emptied, ds
  <2>6. QED BY <2>5, EmptiedIs
<1>12. Lined(fsd')
  BY <1>10 DEF Lined, Books
<1>13. CountedOff(fsd, fsd', ds)
  <2>1. Freed(fsd, fsd', ds)
    BY <1>5, <1>7 DEF Freed
  <2>2. QED BY <2>1, FreedIs
<1>14. ASSUME NEW f \in Files
       PROVE /\ laf'[f] \in LaFiles /\ laf'[f].la_refs = laf[f].la_refs /\ laf'[f].la_nlines = laf[f].la_nlines
             /\ laf'[f].la_fsrefs = Cardinality(Those(fsd', f))
  <2> DEFINE c == Cardinality(OwnedIn(fsd, f, ds))
             r == Cardinality(Those(fsd', f))
  <2>1. r = Cardinality(Those(fsd, f)) - c
    BY <1>13 DEF CountedOff
  <2>2. laf[f].la_fsrefs = Cardinality(Those(fsd, f))
    BY DEF Books, FsrefsExact, Those
  <2>3. r \in Nat
    BY FsdFinite DEF Those
  <2>4. laf'[f] = [laf[f] EXCEPT !.la_fsrefs = @ - c]
    BY <1>8
  <2> HIDE DEF c, r
  <2>5. laf[f].la_fsrefs - c = r
    BY <2>1, <2>2
  <2>6. laf'[f] = [laf[f] EXCEPT !.la_fsrefs = r]
    BY <2>4, <2>5
  <2>7. laf[f] \in LaFiles
    BY <1>0 DEF VarTypes
  <2>8. QED BY <2>3, <2>6, <2>7 DEF LaFiles, r
<1>15. laf' \in [Files -> LaFiles]
  BY <1>8, <1>14
<1>16. Numbered'
  BY <1>1, <1>10, <1>14 DEF Numbered, Books, Alias
<1>17. Shut'
  <2>1. \A g \in File : g \in Files
    BY DEF Files
  <2>2. QED BY <2>1, <1>1, <1>14 DEF Shut, IsOpen, Books
<1>18. Placed'
  <2>1. SUFFICES ASSUME NEW s \in Streams PROVE (IF Open(s) THEN InChain(fsd, chain[las[s].la_file], las[s]) ELSE las[s] = Closed)'
    BY DEF Placed
  <2>2. CASE ~ Open(s)
    BY <2>2, <1>1 DEF Open, Books, Placed
  <2>3. CASE Open(s)
    <3>1. las[s].la_file \in Files /\ InChain(fsd, chain[las[s].la_file], las[s])
      BY <2>3, StreamIs
    <3>2. InChain(fsd', chain[las[s].la_file], las[s])
      BY <3>1, <1>10 DEF Alias
    <3>3. QED BY <3>2, <2>3, <1>1 DEF Open
  <2>4. QED BY <2>2, <2>3
<1>19. Refs'
  BY <1>1, <1>14, SameRefsIs DEF SameRefs, Books
<1>20. FsrefsExact'
  BY <1>14 DEF FsrefsExact, Those
<1>21. Filler'
  <2>1. Filler /\ Chg \in Files
    BY DEF Books, Files
  <2>2. ASSUME chain[Chg] # << >>, Len(chain[Chg]) = 1 PROVE fsd'[chain[Chg][1]] = fsd[chain[Chg][1]]
    <3>1. chain[Chg][1] \in Elems(chain[Chg])
      BY <2>2 DEF Elems
    <3>2. chain[Chg][1] \in Fsd /\ chain[Chg][1] \notin Elems(ds)
      BY <3>1, <2>1, <1>4 DEF Chained, Disjoint
    <3>3. QED BY <3>2, <1>7
  <2>3. QED BY <2>1, <2>2, <1>1 DEF Filler
<1>22. Books'
  BY <1>11, <1>12, <1>16, <1>17, <1>18, <1>19, <1>20, <1>21 DEF Books
<1>23. VarTypes'
  BY <1>0, <1>1, <1>10, <1>15 DEF VarTypes
<1>24. Kept
  BY <1>1, <1>10, <1>14 DEF Kept, Alias
<1>25. QED BY <1>9, <1>22, <1>23, <1>24 DEF ds

(* Steps that leave the chains and the fsds as they are. *)
Idly == fsd' = fsd /\ chain' = chain /\ laf' = laf /\ las' = las

(* A step that changes no chain, no stream and no list keeps the books.    *)
LEMMA SameBooks ==
  ASSUME TypeOK, Books, Idly, SameLists
  PROVE  Books' /\ VarTypes' /\ Kept
<1>1. Lists' = Lists
  BY DEF Idly, SameLists, Lists
<1>2. Numbered' /\ Shut' /\ Placed' /\ Refs' /\ FsrefsExact' /\ Filler'
  <2>1. Numbered'
    BY DEF Idly, Books, Numbered
  <2>2. Shut'
    BY DEF Idly, Books, Shut, IsOpen
  <2>3. Placed'
    BY DEF Idly, Books, Placed, Open
  <2>4. Refs'
    BY DEF Idly, Books, Refs, At1
  <2>5. FsrefsExact'
    BY DEF Idly, Books, FsrefsExact
  <2>6. Filler'
    BY DEF Idly, Books, Filler
  <2>7. QED BY <2>1, <2>2, <2>3, <2>4, <2>5, <2>6
<1>3. Placing(fsd', Lists') /\ Lined(fsd')
  BY <1>1 DEF Idly, Books
<1>4. VarTypes'
  BY TypesAre DEF VarTypes, Idly
<1>5. Kept
  BY DEF Kept, Idly
<1>6. QED BY <1>2, <1>3, <1>4, <1>5 DEF Books

(* The last fsd of a copy comes behind the others. *)
Joined == call'.new = call.new \o call.tail /\ call'.tail = << >> /\ call'.cut = call.cut

(* The fsds of two chains, one behind the other.                           *)
LEMMA ConcatElems ==
  ASSUME NEW a, NEW b, SeqArgs(a, b), Inj(a), Inj(b), Elems(a) \cap Elems(b) = {}
  PROVE  Inj(a \o b) /\ Elems(a \o b) = Elems(a) \cup Elems(b) /\ a \o b \in Seq(Fsd)
<1> DEFINE es == a \o b
           p == Len(a)
           q == Len(b)
<1>1. a \in Seq(Fsd) /\ b \in Seq(Fsd) /\ p \in Nat /\ q \in Nat
  BY DEF SeqArgs
<1>2. es \in Seq(Fsd) /\ Len(es) = p + q /\ (\A z \in 1 .. p : es[z] = a[z]) /\ (\A z \in 1 .. q : es[p + z] = b[z])
  BY <1>1, ConcatIs
<1> HIDE DEF es, p, q
<1>3. \A z \in 1 .. Len(es) : (z \in 1 .. p /\ es[z] = a[z]) \/ (z - p \in 1 .. q /\ es[z] = b[z - p])
  <2>1. SUFFICES ASSUME NEW z \in 1 .. Len(es), ~ (z \in 1 .. p) PROVE z - p \in 1 .. q /\ es[z] = b[z - p]
    BY <1>2
  <2>2. z - p \in 1 .. q /\ z = p + (z - p)
    BY <2>1, <1>1, <1>2
  <2>3. QED BY <2>2, <1>2
<1>4. \A z \in 1 .. p : a[z] \in Elems(a)
  BY DEF Elems, p
<1>5. \A z \in 1 .. q : b[z] \in Elems(b)
  BY DEF Elems, q
<1>6. Inj(es)
  <2>1. SUFFICES ASSUME NEW y \in 1 .. Len(es), NEW z \in 1 .. Len(es), es[y] = es[z] PROVE y = z
    BY DEF Inj
  <2>2. CASE y \in 1 .. p /\ z \in 1 .. p
    BY <2>1, <2>2, <1>2 DEF Inj, p
  <2>3. CASE y - p \in 1 .. q /\ z - p \in 1 .. q /\ es[y] = b[y - p] /\ es[z] = b[z - p]
    <3>1. y - p = z - p
      BY <2>1, <2>3 DEF Inj, q
    <3>2. QED BY <3>1, <1>1, <1>2
  <2>4. CASE y \in 1 .. p /\ es[y] = a[y] /\ z - p \in 1 .. q /\ es[z] = b[z - p]
    BY <2>1, <2>4, <1>4, <1>5
  <2>5. CASE z \in 1 .. p /\ es[z] = a[z] /\ y - p \in 1 .. q /\ es[y] = b[y - p]
    BY <2>1, <2>5, <1>4, <1>5
  <2>6. QED BY <2>2, <2>3, <2>4, <2>5, <1>3
<1>7. Elems(es) \subseteq Elems(a) \cup Elems(b)
  BY <1>3, <1>4, <1>5 DEF Elems
<1>8. Elems(a) \subseteq Elems(es)
  <2>1. SUFFICES ASSUME NEW z \in 1 .. p PROVE a[z] \in Elems(es)
    BY DEF Elems, p
  <2>2. z \in 1 .. Len(es) /\ es[z] = a[z]
    BY <1>1, <1>2
  <2>3. QED BY <2>2 DEF Elems
<1>9. Elems(b) \subseteq Elems(es)
  <2>1. SUFFICES ASSUME NEW z \in 1 .. q PROVE b[z] \in Elems(es)
    BY DEF Elems, q
  <2>2. p + z \in 1 .. Len(es) /\ es[p + z] = b[z]
    BY <1>1, <1>2
  <2>3. QED BY <2>2 DEF Elems
<1>10. QED BY <1>2, <1>6, <1>7, <1>8, <1>9 DEF es

(* Appending the tail of a copy to what was copied keeps the books.        *)
LEMMA JoinBooks ==
  ASSUME TypeOK, Books, Idly, Joined
  PROVE  Books' /\ VarTypes' /\ Kept
<1>1. call'.new = call.new \o call.tail /\ call'.tail = << >> /\ call'.cut = call.cut /\ fsd' = fsd /\ chain' = chain
  BY DEF Joined, Idly
<1>2. InFsd(Lists) /\ Placing(fsd, Lists)
  BY ListsIn DEF Books
<1>3. SeqArgs(call.new, call.tail) /\ Inj(call.new) /\ Inj(call.tail) /\ Elems(call.new) \cap Elems(call.tail) = {}
  BY ChainsAre, ChainsApart DEF Chained, Disjoint, SeqArgs
<1>4. Inj(call'.new) /\ Elems(call'.new) = Elems(call.new) \cup Elems(call.tail) /\ call'.new \in Seq(Fsd)
  BY <1>1, <1>3, ConcatElems
<1>5. Elems(call'.tail) = {} /\ Inj(call'.tail) /\ call'.tail \in Seq(Fsd)
  BY <1>1, NoElems
<1>6. InFsd(Lists')
  <2>1. AllSeqs(chain', call'.new, call'.tail, call'.cut)
    BY <1>1, <1>4, <1>5, CallLists, TypesAre DEF AllSeqs, VarTypes
  <2>2. InFsd(ListsOf(chain', call'.new, call'.tail, call'.cut))
    BY <2>1, InFsdIs
  <2>3. QED BY <2>2 DEF Lists
<1> DEFINE k == << 1, NoFile >>
           l == << 2, NoFile >>
           L == Lists
           L2 == Lists'
<1>7. k \in Spot /\ l \in Spot /\ k # l
  BY SpotsAre
<1>8. L[k] = call.new /\ L[l] = call.tail /\ L2[k] = call'.new /\ L2[l] = call'.tail
  BY ListsNow, ListsThen
<1>9. \A j \in Spot : j # k /\ j # l => L2[j] = L[j]
  <2>1. SUFFICES ASSUME NEW j \in Spot, j # k, j # l PROVE L2[j] = L[j]
    OBVIOUS
  <2>2. CASE \E f \in Files : j = << 0, f >>
    BY <2>2, <1>1, ListsNow, ListsThen
  <2>3. CASE j = << 3, NoFile >>
    BY <2>3, <1>1, ListsNow, ListsThen
  <2>4. QED BY <2>1, <2>2, <2>3, SpotsAre
<1>10. InFsd(L) /\ InFsd(L2) /\ Placing(fsd, L)
  BY <1>2, <1>6
<1> HIDE DEF k, l, L, L2
<1>11. \A z \in Elems(L[k]) \cup Elems(L[l]) : z \in Fsd /\ fsd[z].fsdfile # NoFile
  <2>1. \A z \in Elems(L[k]) \cup Elems(L[l]) : z \in Fsd
    BY <1>10, <1>7 DEF InFsd, Elems
  <2>2. QED BY <2>1, <1>10, <1>7 DEF Placing, Used
<1>12. TwoChange(fsd, L, fsd', L2, k, l)
  <2>1. Inj(L2[k]) /\ Inj(L2[l]) /\ Elems(L2[k]) \cap Elems(L2[l]) = {}
    BY <1>4, <1>5, <1>8
  <2>2. Elems(L2[k]) \cup Elems(L2[l]) = Elems(L[k]) \cup Elems(L[l])
    BY <1>4, <1>5, <1>8
  <2>3. QED BY <2>1, <2>2, <1>1, <1>7, <1>9, <1>11 DEF TwoChange
<1>13. Placing(fsd', Lists')
  <2>1. Placing(fsd', L2)
    BY <1>10, <1>12, TwoChanged
  <2>2. QED BY <2>1 DEF L2
<1>14. Lined(fsd') /\ Numbered' /\ Shut' /\ Placed' /\ Refs' /\ FsrefsExact' /\ Filler'
  <2>1. Numbered'
    BY DEF Idly, Books, Numbered
  <2>2. Shut'
    BY DEF Idly, Books, Shut, IsOpen
  <2>3. Placed'
    BY DEF Idly, Books, Placed, Open
  <2>4. Refs'
    BY DEF Idly, Books, Refs, At1
  <2>5. FsrefsExact'
    BY DEF Idly, Books, FsrefsExact
  <2>6. Filler'
    BY DEF Idly, Books, Filler
  <2>7. Lined(fsd')
    BY DEF Idly, Books
  <2>8. QED BY <2>1, <2>2, <2>3, <2>4, <2>5, <2>6, <2>7
<1>15. VarTypes'
  BY TypesAre DEF VarTypes, Idly
<1>16. Kept
  BY DEF Kept, Idly
<1>17. QED BY <1>13, <1>14, <1>15, <1>16 DEF Books

-----------------------------------------------------------------------------
(* Moving, cloning and closing streams keeps the books.                    *)

(* Steps that leave the chains and the fsds as they are, but move streams, *)
(* open or close them.                                                     *)
Still == /\ fsd' = fsd /\ chain' = chain /\ SameLists
         /\ laf' \in [Files -> LaFiles] /\ las' \in [Streams -> LaStreams]
         /\ \A f \in Files : laf'[f].la_nlines = laf[f].la_nlines /\ laf'[f].la_fsrefs = laf[f].la_fsrefs
         /\ las'[Blas] = las[Blas]

(* A step that only moves streams keeps the books if every stream is       *)
(* placed afterwards.                                                      *)
LEMMA StillBooks ==
  ASSUME TypeOK, Books, Still, Refs', Shut', Placed'
  PROVE  Books' /\ VarTypes'
<1>1. Lists' = Lists
  BY DEF Still, SameLists, Lists
<1>2. Placing(fsd', Lists') /\ Lined(fsd')
  BY <1>1 DEF Still, Books
<1>3. Numbered'
  BY DEF Still, Books, Numbered
<1>4. FsrefsExact'
  BY DEF Still, Books, FsrefsExact
<1>5. Filler'
  BY DEF Still, Books, Filler
<1>6. VarTypes'
  BY TypesAre DEF VarTypes, Still
<1>7. QED BY <1>2, <1>3, <1>4, <1>5, <1>6 DEF Books

(* A stream is set to another line of its file. *)
Moves(s, x) ==
  /\ s \in Stream /\ Open(s) /\ x \in LaStreams /\ x.la_file = las[s].la_file
  /\ InChain(fsd, chain[x.la_file], x)
  /\ las' = [las EXCEPT ![s] = x] /\ fsd' = fsd /\ chain' = chain /\ laf' = laf /\ SameLists

(* A stream that moves within its file to a place of the chain keeps the   *)
(* books.                                                                  *)
LEMMA MoveBooks ==
  ASSUME TypeOK, Books, NEW s, NEW x, Moves(s, x)
  PROVE  /\ Books' /\ VarTypes' /\ las'[s] = x
         /\ \A t \in Streams : las'[t].la_file = las[t].la_file /\ (t # s => las'[t] = las[t])
<1>0. VarTypes
  BY TypesAre
<1>1. /\ s \in Stream /\ Open(s) /\ x \in LaStreams /\ x.la_file = las[s].la_file
      /\ InChain(fsd, chain[x.la_file], x)
      /\ las' = [las EXCEPT ![s] = x] /\ fsd' = fsd /\ chain' = chain /\ laf' = laf /\ SameLists
  BY DEF Moves
<1>2. s \in Streams /\ s # Blas /\ Blas \in Streams
  BY <1>1, NameAssumption DEF Streams
<1>3. las' \in [Streams -> LaStreams] /\ las'[s] = x /\ \A t \in Streams : t # s => las'[t] = las[t]
  BY <1>0, <1>1, <1>2 DEF VarTypes
<1>4. \A t \in Streams : las'[t].la_file = las[t].la_file
  BY <1>1, <1>3
<1>5. Still
  BY <1>0, <1>1, <1>2, <1>3 DEF Still, VarTypes
<1>6. Refs'
  BY <1>1, <1>4, SameRefsIs DEF SameRefs, Books
<1>7. Shut'
  BY <1>1 DEF Books, Shut, IsOpen
<1>8. Placed'
  <2>1. SUFFICES ASSUME NEW t \in Streams PROVE (IF Open(t) THEN InChain(fsd, chain[las[t].la_file], las[t]) ELSE las[t] = Closed)'
    BY DEF Placed
  <2>2. CASE t = s
    BY <2>2, <1>1, <1>3 DEF Open
  <2>3. CASE t # s
    BY <2>3, <1>1, <1>3 DEF Books, Placed, Open
  <2>4. QED BY <2>2, <2>3
<1>9. Books' /\ VarTypes'
  BY <1>5, <1>6, <1>7, <1>8, StillBooks
<1>10. QED BY <1>3, <1>4, <1>9

(* How many streams a file has. *)
LEMMA RefsAre ==
  ASSUME Books, NEW f \in File
  PROVE  IsFiniteSet(At1(f)) /\ laf[f].la_refs = Cardinality(At1(f)) /\ Cardinality(At1(f)) \in Nat
BY FS_CardinalityType DEF Books, Refs

(* An open stream of a caller is in an open file.                          *)
LEMMA OpenIs ==
  ASSUME TypeOK, Books, NEW s \in Stream, Open(s)
  PROVE  las[s].la_file \in File /\ IsOpen(las[s].la_file) /\ s \in Streams /\ las[s].la_file # Chg /\ las[s].la_file \in Files
<1>1. s \in Streams
  BY DEF Streams
<1>2. las[s].la_file \in Files
  BY <1>1, StreamIs
<1>3. las[s].la_file \in File /\ las[s].la_file # Chg
  BY <1>2 DEF Books, Refs, Files
<1>4. s \in At1(las[s].la_file)
  BY DEF At1
<1>5. IsFiniteSet(At1(las[s].la_file)) /\ laf[las[s].la_file].la_refs = Cardinality(At1(las[s].la_file))
      /\ Cardinality(At1(las[s].la_file)) \in Nat
  BY <1>3, RefsAre
<1>6. Cardinality(At1(las[s].la_file)) # 0
  BY <1>4, <1>5, FS_EmptySet
<1>7. QED BY <1>1, <1>2, <1>3, <1>5, <1>6 DEF IsOpen

(* Nobody is in a file that is not open, and it has no chain.              *)
LEMMA NobodyIn ==
  ASSUME TypeOK, Books, NEW f \in File, ~ IsOpen(f)
  PROVE  At1(f) = {} /\ chain[f] = << >> /\ \A s \in Streams : las[s].la_file # f
<1>1. IsFiniteSet(At1(f)) /\ laf[f].la_refs = Cardinality(At1(f)) /\ Cardinality(At1(f)) \in Nat
  BY RefsAre
<1>2. Cardinality(At1(f)) = 0
  BY <1>1 DEF IsOpen
<1>3. At1(f) = {}
  BY <1>1, <1>2, FS_EmptySet
<1>4. chain[f] = << >>
  BY DEF Books, Shut
<1>5. las[Blas].la_file = Chg /\ Chg # f
  BY NameAssumption DEF Books, Filler
<1>6. QED BY <1>3, <1>4, <1>5 DEF At1, Streams

(* la_clone keeps the books.                                               *)
LEMMA CloneBooks ==
  ASSUME TypeOK, Books, NEW s \in Stream, NEW t \in Stream, Clone(t, s)
  PROVE  Books' /\ VarTypes'
<1>0. VarTypes
  BY TypesAre
<1> DEFINE f == las[t].la_file
           x == [las[t] EXCEPT !.la_stay = FALSE]
<1>1. Open(t) /\ ~ Open(s) /\ las' = [las EXCEPT ![s] = x]
      /\ laf' = [laf EXCEPT ![f].la_refs = @ + 1] /\ fsd' = fsd /\ chain' = chain /\ call' = call
  BY DEF Clone
<1>2. f \in File /\ f \in Files /\ f # Chg /\ IsOpen(f) /\ t \in Streams
  BY <1>1, OpenIs
<1>3. s \in Streams /\ s # Blas /\ Blas \in Streams /\ Chg \in Files /\ \A g \in File : g \in Files
  BY NameAssumption DEF Streams, Files
<1>4. las[t] \in LaStreams
  BY <1>0, <1>2 DEF VarTypes
<1>5. x \in LaStreams /\ x.la_file = f /\ x.la_cfsd = las[t].la_cfsd /\ x.la_fsline = las[t].la_fsline
      /\ x.la_lpos = las[t].la_lpos
  BY <1>4 DEF LaStreams
<1> HIDE DEF x
<1>6. las' \in [Streams -> LaStreams] /\ las'[s] = x /\ \A u \in Streams : u # s => las'[u] = las[u]
  BY <1>0, <1>1, <1>3, <1>5 DEF VarTypes
<1> HIDE DEF f
<1>7. /\ laf' \in [Files -> LaFiles]
      /\ \A g \in Files : /\ laf'[g].la_nlines = laf[g].la_nlines /\ laf'[g].la_fsrefs = laf[g].la_fsrefs
                          /\ laf'[g].la_refs = IF g = f THEN laf[g].la_refs + 1 ELSE laf[g].la_refs
  <2>1. laf \in [Files -> LaFiles] /\ laf' = [laf EXCEPT ![f].la_refs = @ + 1] /\ f \in Files
    BY <1>0, <1>1, <1>2 DEF VarTypes
  <2>2. ASSUME NEW g \in Files
        PROVE /\ laf'[g] \in LaFiles /\ laf'[g].la_nlines = laf[g].la_nlines /\ laf'[g].la_fsrefs = laf[g].la_fsrefs
              /\ laf'[g].la_refs = IF g = f THEN laf[g].la_refs + 1 ELSE laf[g].la_refs
    <3>1. laf[g] \in LaFiles
      BY <2>1
    <3>2. CASE g = f
      <4>1. laf'[g] = [laf[g] EXCEPT !.la_refs = @ + 1]
        BY <2>1, <3>2
      <4>2. QED BY <4>1, <3>1, <3>2 DEF LaFiles
    <3>3. CASE g # f
      BY <2>1, <3>1, <3>3
    <3>4. QED BY <3>2, <3>3
  <2>3. laf' \in [Files -> LaFiles]
    BY <2>1, <2>2
  <2>4. QED BY <2>2, <2>3
<1>8. Still
  BY <1>1, <1>3, <1>6, <1>7 DEF Still, SameLists
<1>9. \A g \in File : At1(g)' = IF g = f THEN At1(g) \cup {s} ELSE At1(g)
  <2>1. SUFFICES ASSUME NEW g \in File PROVE At1(g)' = IF g = f THEN At1(g) \cup {s} ELSE At1(g)
    OBVIOUS
  <2>2. \A u \in Stream : u \in Streams
    BY DEF Streams
  <2>3. CASE g = f
    <3>1. \A u \in Stream : las'[u].la_file = g <=> las[u].la_file = g \/ u = s
      BY <2>2, <2>3, <1>5, <1>6
    <3>2. QED BY <3>1, <2>3 DEF At1
  <2>4. CASE g # f
    <3>1. las[s].la_file # g
      BY <1>1, <1>3, FilesAre DEF Open
    <3>2. \A u \in Stream : las'[u].la_file = g <=> las[u].la_file = g
      BY <3>1, <2>2, <2>4, <1>5, <1>6
    <3>3. QED BY <3>2, <2>4 DEF At1
  <2>5. QED BY <2>3, <2>4
<1>10. s \notin At1(f)
  BY <1>1, <1>2, <1>3, FilesAre DEF At1, Open
<1>11. Refs'
  <2>1. ASSUME NEW g \in File PROVE IsFiniteSet(At1(g)') /\ laf'[g].la_refs = Cardinality(At1(g)')
    <3>1. IsFiniteSet(At1(g)) /\ laf[g].la_refs = Cardinality(At1(g))
      BY RefsAre
    <3>2. CASE g = f
      <4>1. At1(g)' = At1(g) \cup {s} /\ s \notin At1(g)
        BY <3>2, <1>9, <1>10
      <4>2. IsFiniteSet(At1(g)') /\ Cardinality(At1(g)') = Cardinality(At1(g)) + 1
        BY <3>1, <4>1, FS_AddElement
      <4>3. QED BY <3>1, <3>2, <4>2, <1>3, <1>7
    <3>3. CASE g # f
      BY <3>1, <3>3, <1>3, <1>7, <1>9
    <3>4. QED BY <3>2, <3>3
  <2>2. \A u \in Stream : las'[u].la_file # Chg
    <3>1. \A u \in Stream : u \in Streams /\ las[u].la_file # Chg
      BY DEF Books, Refs, Streams
    <3>2. QED BY <3>1, <1>2, <1>5, <1>6
  <2>3. laf'[Chg].la_refs = 2
    BY <1>2, <1>3, <1>7 DEF Books, Refs
  <2>4. QED BY <2>1, <2>2, <2>3 DEF Refs
<1>12. Shut'
  <2>1. SUFFICES ASSUME NEW g \in File, ~ IsOpen(g)' PROVE chain'[g] = << >>
    BY DEF Shut
  <2>2. ~ IsOpen(g)
    <3>1. laf[g].la_refs \in Nat
      BY <1>0, <1>3 DEF VarTypes, LaFiles
    <3>2. laf'[g].la_refs = laf[g].la_refs \/ laf'[g].la_refs = laf[g].la_refs + 1
      BY <1>3, <1>7
    <3>3. QED BY <2>1, <3>1, <3>2 DEF IsOpen
  <2>3. QED BY <2>2, <1>1 DEF Books, Shut
<1>13. Placed'
  <2>1. SUFFICES ASSUME NEW u \in Streams PROVE (IF Open(u) THEN InChain(fsd, chain[las[u].la_file], las[u]) ELSE las[u] = Closed)'
    BY DEF Placed
  <2>2. CASE u = s
    <3>1. InChain(fsd, chain[f], las[t])
      BY <1>1, <1>2, StreamIs DEF f
    <3>2. InChain(fsd, chain[f], x)
      BY <3>1, <1>5 DEF InChain, IsAt
    <3>3. las'[u] = x /\ x.la_file = f /\ f # NoFile
      BY <2>2, <1>2, <1>5, <1>6, FilesAre
    <3>4. QED BY <3>2, <3>3, <1>1 DEF Open
  <2>3. CASE u # s
    BY <2>3, <1>1, <1>6 DEF Books, Placed, Open
  <2>4. QED BY <2>2, <2>3
<1>14. QED BY <1>8, <1>11, <1>12, <1>13, StillBooks

(* Closing a stream that is not the last of its file keeps the books.      *)
LEMMA CloseBooks ==
  ASSUME TypeOK, Books, NEW s \in Stream, CloseStream(s)
  PROVE  Books' /\ VarTypes'
<1>0. VarTypes
  BY TypesAre
<1> DEFINE f == las[s].la_file
<1>1. Open(s) /\ laf[f].la_refs > 1 /\ las' = [las EXCEPT ![s] = Closed]
      /\ laf' = [laf EXCEPT ![f].la_refs = @ - 1] /\ fsd' = fsd /\ chain' = chain /\ call' = call
  BY DEF CloseStream
<1>2. f \in File /\ f \in Files /\ f # Chg /\ IsOpen(f) /\ s \in Streams
  BY <1>1, OpenIs
<1>3. s # Blas /\ Blas \in Streams /\ Chg \in Files /\ \A g \in File : g \in Files
  BY NameAssumption DEF Streams, Files
<1>4. Closed \in LaStreams /\ Closed.la_file = NoFile
  BY DEF Closed, LaStreams
<1>5. f # NoFile
  BY <1>2, FilesAre
<1>6. las' \in [Streams -> LaStreams] /\ las'[s] = Closed /\ \A u \in Streams : u # s => las'[u] = las[u]
  BY <1>0, <1>1, <1>2, <1>4 DEF VarTypes
<1> HIDE DEF f
<1>7. /\ laf' \in [Files -> LaFiles]
      /\ \A g \in Files : /\ laf'[g].la_nlines = laf[g].la_nlines /\ laf'[g].la_fsrefs = laf[g].la_fsrefs
                          /\ laf'[g].la_refs = IF g = f THEN laf[g].la_refs - 1 ELSE laf[g].la_refs
  <2>1. laf[f].la_refs - 1 \in Nat
    BY <1>0, <1>1, <1>2 DEF VarTypes, LaFiles
  <2>2. QED BY <2>1, <1>0, <1>1, <1>2 DEF VarTypes, LaFiles
<1>8. Still
  BY <1>1, <1>3, <1>6, <1>7 DEF Still, SameLists
<1>9. \A g \in File : At1(g)' = IF g = f THEN At1(g) \ {s} ELSE At1(g)
  <2>1. SUFFICES ASSUME NEW g \in File PROVE At1(g)' = IF g = f THEN At1(g) \ {s} ELSE At1(g)
    OBVIOUS
  <2>2. \A u \in Stream : u \in Streams
    BY DEF Streams
  <2>3. g # NoFile
    BY <1>3, FilesAre
  <2>4. CASE g = f
    <3>1. \A u \in Stream : las'[u].la_file = g <=> las[u].la_file = g /\ u # s
      BY <2>2, <2>3, <2>4, <1>4, <1>6
    <3>2. QED BY <3>1, <2>4 DEF At1
  <2>5. CASE g # f
    <3>1. las[s].la_file # g
      BY <2>5 DEF f
    <3>2. \A u \in Stream : las'[u].la_file = g <=> las[u].la_file = g
      BY <3>1, <2>2, <2>3, <2>5, <1>4, <1>6
    <3>3. QED BY <3>2, <2>5 DEF At1
  <2>6. QED BY <2>4, <2>5
<1>10. s \in At1(f)
  BY DEF At1, f
<1>11. Refs'
  <2>1. ASSUME NEW g \in File PROVE IsFiniteSet(At1(g)') /\ laf'[g].la_refs = Cardinality(At1(g)')
    <3>1. IsFiniteSet(At1(g)) /\ laf[g].la_refs = Cardinality(At1(g))
      BY RefsAre
    <3>2. CASE g = f
      <4>1. At1(g)' = At1(g) \ {s} /\ s \in At1(g)
        BY <3>2, <1>9, <1>10
      <4>2. IsFiniteSet(At1(g)') /\ Cardinality(At1(g)') = Cardinality(At1(g)) - 1
        BY <3>1, <4>1, FS_RemoveElement
      <4>3. QED BY <3>1, <3>2, <4>2, <1>3, <1>7
    <3>3. CASE g # f
      BY <3>1, <3>3, <1>3, <1>7, <1>9
    <3>4. QED BY <3>2, <3>3
  <2>2. \A u \in Stream : las'[u].la_file # Chg
    <3>1. \A u \in Stream : u \in Streams /\ las[u].la_file # Chg
      BY DEF Books, Refs, Streams
    <3>2. Chg # NoFile
      BY <1>3, FilesAre
    <3>3. QED BY <3>1, <3>2, <1>4, <1>6
  <2>3. laf'[Chg].la_refs = 2
    BY <1>2, <1>3, <1>7 DEF Books, Refs
  <2>4. QED BY <2>1, <2>2, <2>3 DEF Refs
<1>12. Shut'
  <2>1. SUFFICES ASSUME NEW g \in File, ~ IsOpen(g)' PROVE chain'[g] = << >>
    BY DEF Shut
  <2>2. ~ IsOpen(g)
    <3>1. laf[g].la_refs \in Nat
      BY <1>0, <1>3 DEF VarTypes, LaFiles
    <3>2. CASE g = f
      <4>1. laf[g].la_refs > 1 /\ laf'[g].la_refs = laf[g].la_refs - 1
        BY <3>2, <1>1, <1>2, <1>7 DEF f
      <4>2. QED BY <4>1, <3>1, <2>1 DEF IsOpen
    <3>3. CASE g # f
      BY <2>1, <3>3, <1>3, <1>7 DEF IsOpen
    <3>4. QED BY <3>2, <3>3
  <2>3. QED BY <2>2, <1>1 DEF Books, Shut
<1>13. Placed'
  <2>1. SUFFICES ASSUME NEW u \in Streams PROVE (IF Open(u) THEN InChain(fsd, chain[las[u].la_file], las[u]) ELSE las[u] = Closed)'
    BY DEF Placed
  <2>2. CASE u = s
    BY <2>2, <1>4, <1>6 DEF Open
  <2>3. CASE u # s
    BY <2>3, <1>1, <1>6 DEF Books, Placed, Open
  <2>4. QED BY <2>2, <2>3
<1>14. QED BY <1>8, <1>11, <1>12, <1>13, StillBooks

-----------------------------------------------------------------------------
(* Opening and closing files keeps the books.                              *)

(* The beginning of a chain is a place in it.                              *)
LEMMA AtFirst ==
  ASSUME NEW m \in [Fsd -> Fsds], NEW ds, Chained(m, ds), NEW y, y.la_cfsd = First(ds), y.la_fsline = 0, y.la_lpos = 0
  PROVE  InChain(m, ds, y)
<1>1. ds \in Seq(Fsd) /\ LinedOn(m, ds)
  BY DEF Chained
<1>2. Len(ds) \in Nat /\ 1 \in 1 .. Len(ds) + 1
  BY <1>1
<1>3. Nth(ds, 1) = First(ds) /\ Width(m, First(ds)) > 0
  <2>1. CASE ds = << >>
    <3>1. First(ds) = Eof /\ Len(ds) = 0
      BY <2>1 DEF First
    <3>2. QED BY <3>1 DEF Nth, Width
  <2>2. CASE ds # << >>
    <3>1. 1 \in 1 .. Len(ds) /\ Head(ds) = ds[1] /\ ds[1] \in Fsd
      BY <2>2, <1>1
    <3>2. First(ds) = ds[1] /\ Nth(ds, 1) = ds[1]
      BY <3>1, <2>2 DEF First, Nth
    <3>3. m[ds[1]].fsdnlines >= 1 /\ m[ds[1]].fsdnlines \in Nat /\ ds[1] # Eof
      BY <3>1, <1>1, EofIs DEF LinedOn, Fsds
    <3>4. QED BY <3>2, <3>3 DEF Width
  <2>3. QED BY <2>1, <2>2
<1>4. \A z \in Nat : z = 0 => Sums(m, ds)[z] = 0
  BY <1>1, SumsIs
<1>5. \A i \in Nat : i = 1 => IsAt(m, ds, y, i)
  <2>1. SUFFICES ASSUME NEW i \in Nat, i = 1 PROVE IsAt(m, ds, y, i)
    OBVIOUS
  <2>2. Sums(m, ds)[i - 1] = 0
    BY <2>1, <1>4
  <2>3. QED BY <2>1, <2>2, <1>3 DEF IsAt
<1>6. QED BY <1>2, <1>5 DEF InChain

-----------------------------------------------------------------------------
(* A file that is open: its chain, and its first stream. *)
OpenArgs(f, s, new) ==
  /\ s \in Stream /\ ~ Open(s) /\ f \in File /\ ~ IsOpen(f) /\ new = call.new
  /\ laf' = [laf EXCEPT ![f] = [@ EXCEPT !.la_refs = 1, !.la_nlines = Count(new)]]
  /\ chain' = [chain EXCEPT ![f] = new]
  /\ las' = [las EXCEPT ![s] = [Closed EXCEPT !.la_file = f, !.la_cfsd = First(new)]]
  /\ fsd' = fsd
  /\ call'.new = << >> /\ call'.tail = call.tail /\ call'.cut = call.cut

(* Giving a file that is opened its chain, and its first stream, keeps the *)
(* books.                                                                  *)
LEMMA OpenBooks ==
  ASSUME TypeOK, Books, NEW f, NEW s, NEW new, OpenArgs(f, s, new)
  PROVE  Books' /\ VarTypes' /\ \A g \in Files : chain[g] # << >> => chain'[g] = chain[g]
<1>0. VarTypes /\ fsd \in [Fsd -> Fsds]
  BY TypesAre DEF VarTypes
<1> DEFINE y == [Closed EXCEPT !.la_file = f, !.la_cfsd = First(new)]
           n == Count(new)
<1>1. /\ s \in Stream /\ ~ Open(s) /\ f \in File /\ ~ IsOpen(f) /\ new = call.new
      /\ laf' = [laf EXCEPT ![f] = [@ EXCEPT !.la_refs = 1, !.la_nlines = n]]
      /\ chain' = [chain EXCEPT ![f] = new]
      /\ las' = [las EXCEPT ![s] = y] /\ fsd' = fsd
      /\ call'.new = << >> /\ call'.tail = call.tail /\ call'.cut = call.cut
  BY DEF OpenArgs
<1>2. At1(f) = {} /\ chain[f] = << >> /\ \A t \in Streams : las[t].la_file # f
  BY <1>1, NobodyIn
<1>3. Chained(fsd, new)
  BY <1>1, ChainsAre
<1>4. s \in Streams /\ s # Blas /\ Blas \in Streams /\ f \in Files /\ f # Chg /\ Chg \in Files /\ \A g \in File : g \in Files
  BY <1>1, NameAssumption DEF Streams, Files
<1>5. n = Size(fsd, new) /\ n \in Nat /\ new \in Seq(Fsd) /\ Inj(new)
  BY <1>0, <1>3, CountIs, SizeNat DEF Chained
<1>6. First(new) \in Fsd \cup {Eof}
  BY <1>5 DEF First
<1>7. y \in LaStreams /\ y.la_file = f /\ y.la_cfsd = First(new) /\ y.la_fsline = 0 /\ y.la_lpos = 0
  BY <1>4, <1>6 DEF Closed, LaStreams
<1> HIDE DEF y, n
<1>8. las' \in [Streams -> LaStreams] /\ las'[s] = y /\ \A t \in Streams : t # s => las'[t] = las[t]
  BY <1>0, <1>1, <1>4, <1>7 DEF VarTypes
<1>9. chain' \in [Files -> Seq(Fsd)] /\ chain'[f] = new /\ \A g \in Files : g # f => chain'[g] = chain[g]
  BY <1>0, <1>1, <1>4, <1>5 DEF VarTypes
<1>10. /\ laf' \in [Files -> LaFiles]
       /\ \A g \in Files : g # f => laf'[g] = laf[g]
       /\ laf'[f].la_refs = 1 /\ laf'[f].la_nlines = n /\ laf'[f].la_fsrefs = laf[f].la_fsrefs
  <2>1. laf \in [Files -> LaFiles] /\ laf[f] \in LaFiles
    BY <1>0, <1>4 DEF VarTypes
  <2>2. laf'[f] = [laf[f] EXCEPT !.la_refs = 1, !.la_nlines = n]
    BY <2>1, <1>1, <1>4
  <2>3. laf'[f] \in LaFiles /\ laf'[f].la_refs = 1 /\ laf'[f].la_nlines = n /\ laf'[f].la_fsrefs = laf[f].la_fsrefs
    <3>1. PICK x : x = [laf[f] EXCEPT !.la_refs = 1]
      OBVIOUS
    <3>2. laf'[f] = [x EXCEPT !.la_nlines = n]
      BY <2>2, <3>1
    <3>3. x \in LaFiles /\ x.la_refs = 1 /\ x.la_fsrefs = laf[f].la_fsrefs
      BY <2>1, <3>1 DEF LaFiles
    <3>4. laf'[f] \in LaFiles /\ laf'[f].la_refs = x.la_refs /\ laf'[f].la_nlines = n /\ laf'[f].la_fsrefs = x.la_fsrefs
      BY <3>2, <3>3, <1>5 DEF LaFiles
    <3>5. QED BY <3>3, <3>4
  <2>4. \A g \in Files : g # f => laf'[g] = laf[g]
    BY <2>1, <1>1, <1>4
  <2>5. \A g \in Files : laf'[g] \in LaFiles
    BY <2>1, <2>3, <2>4
  <2>6. laf' \in [Files -> LaFiles]
    BY <2>1, <2>5, <1>1
  <2>7. QED BY <2>3, <2>4, <2>6
<1>11. Placing(fsd', Lists')
  <2> DEFINE sp == << 1, NoFile >>
             em == << >>
  <2>1. sp \in CallSpots /\ Lists[sp] = new
    BY <1>1, ListsNow DEF CallSpots
  <2>2. \A k \in CallSpots : Lists'[k] = IF k = sp THEN em ELSE Lists[k]
    BY <1>1, ListsNow, ListsThen, SpotsAre DEF CallSpots
  <2>3. Elems(em) = {} /\ Inj(em) /\ em \in Seq(Fsd)
    BY NoElems
  <2>4. Elems(chain[f]) = {}
    BY <1>2, NoElems
  <2> HIDE DEF sp, em
  <2>5. Swapped(f, new, sp, em)
    BY <2>1, <2>2, <2>3, <2>4, <1>1, <1>4, <1>5, <1>9 DEF Swapped
  <2>6. QED BY <2>5, SwappedIs
<1>12. Lined(fsd')
  BY <1>1 DEF Books
<1>13. Numbered'
  BY <1>1, <1>5, <1>9, <1>10 DEF Numbered, Books
<1>14. Shut'
  <2>1. SUFFICES ASSUME NEW g \in File, ~ IsOpen(g)' PROVE chain'[g] = << >>
    BY DEF Shut
  <2>2. g # f
    BY <2>1, <1>10 DEF IsOpen
  <2>3. ~ IsOpen(g)
    BY <2>1, <2>2, <1>4, <1>10 DEF IsOpen
  <2>4. QED BY <2>2, <2>3, <1>4, <1>9 DEF Books, Shut
<1>15. Placed'
  <2>1. SUFFICES ASSUME NEW t \in Streams PROVE (IF Open(t) THEN InChain(fsd, chain[las[t].la_file], las[t]) ELSE las[t] = Closed)'
    BY DEF Placed
  <2>2. CASE t = s
    <3>1. InChain(fsd, new, y)
      BY <1>0, <1>3, <1>7, AtFirst
    <3>2. f # NoFile
      BY <1>4, FilesAre
    <3>3. QED BY <2>2, <3>1, <3>2, <1>1, <1>7, <1>8, <1>9 DEF Open
  <2>3. CASE t # s
    <3>1. las'[t] = las[t] /\ las[t].la_file # f
      BY <2>3, <1>2, <1>8
    <3>2. CASE Open(t)
      <4>1. las[t].la_file \in Files /\ InChain(fsd, chain[las[t].la_file], las[t])
        BY <3>2, StreamIs
      <4>2. QED BY <3>1, <3>2, <4>1, <1>1, <1>9 DEF Open
    <3>3. CASE ~ Open(t)
      BY <3>1, <3>3 DEF Books, Placed, Open
    <3>4. QED BY <3>2, <3>3
  <2>4. QED BY <2>2, <2>3
<1>16. Refs'
  <2>1. ASSUME NEW g \in File PROVE IsFiniteSet(At1(g)') /\ laf'[g].la_refs = Cardinality(At1(g)')
    <3>1. \A u \in Stream : u \in Streams
      BY DEF Streams
    <3>2. CASE g = f
      <4>1. \A u \in Stream : las'[u].la_file = f <=> u = s
        BY <3>1, <1>2, <1>7, <1>8
      <4>2. At1(g)' = {s}
        BY <3>2, <4>1, <1>1 DEF At1
      <4>3. IsFiniteSet({s}) /\ Cardinality({s}) = 1
        BY FS_Singleton
      <4>4. QED BY <3>2, <4>2, <4>3, <1>10
    <3>3. CASE g # f
      <4>1. las[s].la_file # g
        BY <1>1, <1>4, FilesAre DEF Open
      <4>2. \A u \in Stream : las'[u].la_file = g <=> las[u].la_file = g
        BY <4>1, <3>1, <3>3, <1>7, <1>8
      <4>3. At1(g)' = At1(g)
        BY <4>2 DEF At1
      <4>4. QED BY <4>3, <3>3, <1>4, <1>10, RefsAre
    <3>4. QED BY <3>2, <3>3
  <2>2. \A u \in Stream : las'[u].la_file # Chg
    <3>1. \A u \in Stream : u \in Streams /\ las[u].la_file # Chg
      BY DEF Books, Refs, Streams
    <3>2. QED BY <3>1, <1>4, <1>7, <1>8
  <2>3. laf'[Chg].la_refs = 2
    BY <1>4, <1>10 DEF Books, Refs
  <2>4. QED BY <2>1, <2>2, <2>3 DEF Refs
<1>17. FsrefsExact'
  BY <1>1, <1>10 DEF FsrefsExact, Books
<1>18. Filler'
  <2>1. Filler
    BY DEF Books
  <2>2. las'[Blas] = las[Blas] /\ chain'[Chg] = chain[Chg]
    BY <1>4, <1>8, <1>9
  <2>3. QED BY <2>1, <2>2, <1>1 DEF Filler
<1>19. Books'
  BY <1>11, <1>12, <1>13, <1>14, <1>15, <1>16, <1>17, <1>18 DEF Books
<1>20. VarTypes'
  BY <1>0, <1>1, <1>8, <1>9, <1>10 DEF VarTypes
<1>21. \A g \in Files : chain[g] # << >> => chain'[g] = chain[g]
  BY <1>2, <1>9
<1>22. QED BY <1>19, <1>20, <1>21

-----------------------------------------------------------------------------
(* The last stream of a file is closed. *)
LEMMA CloseFileBooks ==
  ASSUME TypeOK, Books, NEW s \in Stream, CloseFile(s), Unshared(las[s].la_file)
  PROVE  /\ Books' /\ VarTypes' /\ laf'[las[s].la_file].la_refs = 0
         /\ \A d \in Fsd : fsd'[d].fsdfile # NoFile => fsd'[d] = fsd[d]
<1>0. VarTypes /\ fsd \in [Fsd -> Fsds]
  BY TypesAre DEF VarTypes
<1> DEFINE f == las[s].la_file
           ds == chain[f]
           own == laf[f].la_fsrefs > 0
           left == laf[f].la_fsrefs - Cardinality(Owned(f, ds))
<1>1. /\ Open(s) /\ laf[f].la_refs = 1
      /\ fsd' = [d \in Fsd |-> IF own /\ \E i \in DOMAIN ds : ds[i] = d THEN FreeFsd ELSE fsd[d]]
      /\ laf' = [g \in Files |->
           IF g = f /\ left = 0 THEN NewFile
           ELSE [laf[g] EXCEPT !.la_fsrefs = IF own THEN @ - Cardinality(Owned(g, ds)) ELSE @]]
      /\ chain' = [chain EXCEPT ![f] = << >>]
      /\ las' = IF left = 0 THEN [las EXCEPT ![s] = Closed] ELSE las
      /\ call' = call
  BY DEF CloseFile
<1>2. f \in File /\ f \in Files /\ f # Chg /\ IsOpen(f) /\ s \in Streams
  BY <1>1, OpenIs
<1>3. s # Blas /\ Blas \in Streams /\ Chg \in Files /\ \A g \in File : g \in Files
  BY NameAssumption DEF Streams, Files
<1>4. Chained(fsd, ds)
  BY <1>2, ChainsAre
<1>5. ds \in Seq(Fsd) /\ Inj(ds)
  BY <1>4 DEF Chained
<1>6. \A d : (\E i \in DOMAIN ds : ds[i] = d) <=> d \in Elems(ds)
  BY <1>5 DEF Elems
<1>7. /\ \A d \in Fsd : fsd[d].fsdfile = f => d \in Elems(ds)
      /\ ds = << >> \/ own
  BY <1>6 DEF Unshared
<1>8. \A g \in Files : laf[g].la_fsrefs = Cardinality(Those(fsd, g))
  BY DEF Books, FsrefsExact, Those
<1>9. \A g : Owned(g, ds) = OwnedIn(fsd, g, ds)
  BY DEF Owned, OwnedIn
<1> HIDE DEF ds, own, left
<1>10. fsd' = [d \in Fsd |-> IF d \in Elems(ds) THEN FreeFsd ELSE fsd[d]]
  <2>1. CASE own
    BY <2>1, <1>1, <1>6
  <2>2. CASE ~ own
    <3>1. Elems(ds) = {}
      BY <2>2, <1>7, NoElems
    <3>2. QED BY <2>2, <3>1, <1>1
  <2>3. QED BY <2>1, <2>2
<1>11. Rest(ds)
  BY <1>5, <1>10, RestIs DEF FreedNow
<1>12. CountedOff(fsd, fsd', ds)
  <2>1. Freed(fsd, fsd', ds)
    BY <1>5, <1>10 DEF Freed
  <2>2. QED BY <2>1, FreedIs
<1>13. FreeFsd \in Fsds /\ FreeFsd.fsdfile = NoFile
  BY DEF FreeFsd, Fsds
<1>14. Those(fsd', f) = {}
  <2>1. SUFFICES ASSUME NEW d \in Fsd, fsd'[d].fsdfile = f PROVE FALSE
    BY DEF Those
  <2>2. f # NoFile
    BY <1>2, FilesAre
  <2>3. d \notin Elems(ds)
    BY <2>1, <2>2, <1>10, <1>13
  <2>4. fsd[d].fsdfile = f
    BY <2>1, <2>3, <1>10
  <2>5. QED BY <2>3, <2>4, <1>7
<1>15. Cardinality(Those(fsd', f)) = 0
  BY <1>14, FS_EmptySet
<1>16. left = 0
  <2>1. Cardinality(Those(fsd', f)) = Cardinality(Those(fsd, f)) - Cardinality(OwnedIn(fsd, f, ds))
    BY <1>12, <1>2 DEF CountedOff
  <2>2. QED BY <2>1, <1>2, <1>8, <1>9, <1>15 DEF left
<1>17. /\ laf'[f] = NewFile /\ las' = [las EXCEPT ![s] = Closed]
       /\ \A g \in Files : g # f => laf'[g] = [laf[g] EXCEPT !.la_fsrefs = IF own THEN @ - Cardinality(Owned(g, ds)) ELSE @]
  BY <1>1, <1>2, <1>16
<1>18. ASSUME NEW g \in Files, g # f
       PROVE /\ laf'[g] \in LaFiles /\ laf'[g].la_refs = laf[g].la_refs /\ laf'[g].la_nlines = laf[g].la_nlines
             /\ laf'[g].la_fsrefs = Cardinality(Those(fsd', g))
  <2> DEFINE r == Cardinality(Those(fsd', g))
             c == Cardinality(OwnedIn(fsd, g, ds))
  <2>1. r = Cardinality(Those(fsd, g)) - c
    BY <1>12 DEF CountedOff
  <2>2. laf[g].la_fsrefs - c = r
    BY <2>1, <1>8
  <2>3. r \in Nat
    BY FsdFinite DEF Those
  <2>4. laf[g] \in LaFiles
    BY <1>0 DEF VarTypes
  <2>5. laf'[g] = [laf[g] EXCEPT !.la_fsrefs = r]
    <3>1. CASE own
      <4>1. laf'[g] = [laf[g] EXCEPT !.la_fsrefs = @ - c]
        BY <1>17, <1>18, <3>1, <1>9
      <4> HIDE DEF c, r
      <4>2. QED BY <4>1, <2>2
    <3>2. CASE ~ own
      <4>1. Those(fsd', g) = Those(fsd, g)
        <5>1. ds = << >>
          BY <3>2, <1>7
        <5>2. \A d \in Fsd : fsd'[d] = fsd[d]
          BY <5>1, <1>10, NoElems
        <5>3. QED BY <5>2 DEF Those
      <4>2. laf[g].la_fsrefs = r
        BY <4>1, <1>8
      <4>3. laf'[g] = [laf[g] EXCEPT !.la_fsrefs = @]
        BY <1>17, <1>18, <3>2
      <4> HIDE DEF c, r
      <4>4. QED BY <4>2, <4>3
    <3>3. QED BY <3>1, <3>2
  <2> HIDE DEF r, c
  <2>6. laf'[g] \in LaFiles /\ laf'[g].la_refs = laf[g].la_refs /\ laf'[g].la_nlines = laf[g].la_nlines /\ laf'[g].la_fsrefs = r
    BY <2>3, <2>4, <2>5 DEF LaFiles
  <2>7. QED BY <2>6 DEF r
<1>19. NewFile \in LaFiles /\ NewFile.la_refs = 0 /\ NewFile.la_nlines = 0 /\ NewFile.la_fsrefs = 0
  BY DEF NewFile, LaFiles
<1>20. laf' \in [Files -> LaFiles]
  <2>1. \A g \in Files : laf'[g] \in LaFiles
    BY <1>17, <1>18, <1>19
  <2>2. QED BY <2>1, <1>1
<1>21. chain' \in [Files -> Seq(Fsd)] /\ chain'[f] = << >> /\ \A g \in Files : g # f => chain'[g] = chain[g]
  BY <1>0, <1>1, <1>2, NoElems DEF VarTypes
<1>22. Closed \in LaStreams /\ Closed.la_file = NoFile
  BY DEF Closed, LaStreams
<1>23. las' \in [Streams -> LaStreams] /\ las'[s] = Closed /\ \A t \in Streams : t # s => las'[t] = las[t]
  BY <1>0, <1>2, <1>17, <1>22 DEF VarTypes
<1>24. At1(f) = {s}
  <2>1. IsFiniteSet(At1(f)) /\ Cardinality(At1(f)) = 1
    BY <1>1, <1>2, RefsAre
  <2>2. PICK u : At1(f) = {u}
    BY <2>1, FS_Singleton
  <2>3. s \in At1(f)
    BY DEF At1, f
  <2>4. QED BY <2>2, <2>3
<1> HIDE DEF f
<1>25. \A t \in Streams : t # s => las[t].la_file # f
  <2>1. las[Blas].la_file = Chg
    BY DEF Books, Filler
  <2>2. \A t \in Stream : t # s => las[t].la_file # f
    BY <1>24 DEF At1
  <2>3. QED BY <2>1, <2>2, <1>2 DEF Streams
<1>26. fsd' \in [Fsd -> Fsds] /\ (\A d \in Fsd : fsd'[d].fsdfile # NoFile => fsd'[d] = fsd[d])
       /\ \A g \in Files : g # f => Alias(fsd, fsd', chain[g])
  <2>1. \A g \in Files : g # f => Chained(fsd, chain[g]) /\ Disjoint(chain[g], ds)
    BY <1>2, ChainsAre, ChainsApart DEF ds
  <2>2. QED BY <2>1, <1>11 DEF Rest
<1>27. Placing(fsd', Lists')
  <2> DEFINE sp == << 0, f >>
             L2 == Lists'
  <2>1. sp \in Spot
    BY <1>2, SpotsAre
  <2>2. Lists[sp] = ds /\ L2[sp] = << >>
    BY <1>2, <1>21, ListsNow, ListsThen DEF ds
  <2>3. \A j \in Spot : j # sp => L2[j] = Lists[j]
    <3>1. SUFFICES ASSUME NEW j \in Spot, j # sp PROVE L2[j] = Lists[j]
      OBVIOUS
    <3>2. CASE \E g \in Files : j = << 0, g >>
      BY <3>1, <3>2, <1>21, ListsNow, ListsThen
    <3>3. CASE j \in {<< 1, NoFile >>, << 2, NoFile >>, << 3, NoFile >>}
      BY <3>3, <1>1, ListsNow, ListsThen
    <3>4. QED BY <3>2, <3>3, SpotsAre
  <2>4. InFsd(L2)
    <3>1. AllSeqs(chain', call'.new, call'.tail, call'.cut)
      BY <1>1, <1>21, CallLists DEF AllSeqs
    <3>2. InFsd(ListsOf(chain', call'.new, call'.tail, call'.cut))
      BY <3>1, InFsdIs
    <3>3. QED BY <3>2 DEF Lists
  <2> HIDE DEF sp, L2
  <2>5. Emptied(sp, L2)
    BY <2>1, <2>2, <2>3, <2>4, <1>10 DEF Emptied
  <2>6. Placing(fsd', L2)
    BY <2>5, EmptiedIs
  <2>7. QED BY <2>6 DEF L2
<1>28. Lined(fsd')
  BY <1>26 DEF Lined, Books
<1>29. Numbered'
  <2>1. SUFFICES ASSUME NEW g \in Files PROVE laf'[g].la_nlines = Size(fsd', chain'[g])
    BY DEF Numbered
  <2>2. CASE g = f
    BY <2>2, <1>17, <1>19, <1>21, <1>26, SizeNone
  <2>3. CASE g # f
    BY <2>3, <1>18, <1>21, <1>26 DEF Numbered, Books, Alias
  <2>4. QED BY <2>2, <2>3
<1>30. Shut'
  <2>1. SUFFICES ASSUME NEW g \in File, ~ IsOpen(g)' PROVE chain'[g] = << >>
    BY DEF Shut
  <2>2. CASE g = f
    BY <2>2, <1>21
  <2>3. CASE g # f
    BY <2>1, <2>3, <1>3, <1>18, <1>21 DEF Books, Shut, IsOpen
  <2>4. QED BY <2>2, <2>3
<1>31. Placed'
  <2>1. SUFFICES ASSUME NEW t \in Streams PROVE (IF Open(t) THEN InChain(fsd, chain[las[t].la_file], las[t]) ELSE las[t] = Closed)'
    BY DEF Placed
  <2>2. CASE t = s
    BY <2>2, <1>22, <1>23 DEF Open
  <2>3. CASE t # s
    <3>1. las'[t] = las[t] /\ las[t].la_file # f
      BY <2>3, <1>23, <1>25
    <3>2. CASE Open(t)
      <4>1. las[t].la_file \in Files /\ InChain(fsd, chain[las[t].la_file], las[t])
        BY <3>2, StreamIs
      <4>2. InChain(fsd', chain[las[t].la_file], las[t])
        BY <3>1, <4>1, <1>26 DEF Alias
      <4>3. QED BY <3>1, <3>2, <4>1, <4>2, <1>21 DEF Open
    <3>3. CASE ~ Open(t)
      BY <3>1, <3>3 DEF Books, Placed, Open
    <3>4. QED BY <3>2, <3>3
  <2>4. QED BY <2>2, <2>3
<1>32. Refs'
  <2>1. ASSUME NEW g \in File PROVE IsFiniteSet(At1(g)') /\ laf'[g].la_refs = Cardinality(At1(g)')
    <3>1. \A u \in Stream : u \in Streams
      BY DEF Streams
    <3>2. g # NoFile
      BY <1>3, FilesAre
    <3>3. CASE g = f
      <4>1. \A u \in Stream : las'[u].la_file # f
        BY <3>1, <3>2, <3>3, <1>22, <1>23, <1>25
      <4>2. At1(g)' = {}
        BY <3>3, <4>1 DEF At1
      <4>3. QED BY <3>3, <4>2, <1>17, <1>19, FS_EmptySet
    <3>4. CASE g # f
      <4>1. s \in At1(f)
        BY <1>24
      <4>2. \A u \in Stream : las'[u].la_file = g <=> las[u].la_file = g
        BY <4>1, <3>1, <3>2, <3>4, <1>22, <1>23 DEF At1
      <4>3. At1(g)' = At1(g)
        BY <4>2 DEF At1
      <4>4. QED BY <4>3, <3>4, <1>3, <1>18, RefsAre
    <3>5. QED BY <3>3, <3>4
  <2>2. \A u \in Stream : las'[u].la_file # Chg
    <3>1. \A u \in Stream : u \in Streams /\ las[u].la_file # Chg
      BY DEF Books, Refs, Streams
    <3>2. Chg # NoFile
      BY <1>3, FilesAre
    <3>3. QED BY <3>1, <3>2, <1>22, <1>23
  <2>3. laf'[Chg].la_refs = 2
    BY <1>2, <1>3, <1>18 DEF Books, Refs
  <2>4. QED BY <2>1, <2>2, <2>3 DEF Refs
<1>33. FsrefsExact'
  <2>1. \A g \in Files : laf'[g].la_fsrefs = Cardinality(Those(fsd', g))
    BY <1>15, <1>17, <1>18, <1>19
  <2>2. QED BY <2>1 DEF FsrefsExact, Those
<1>34. Filler'
  <2>1. Filler
    BY DEF Books
  <2>2. las'[Blas] = las[Blas] /\ chain'[Chg] = chain[Chg]
    BY <1>2, <1>3, <1>21, <1>23
  <2>3. ASSUME chain[Chg] # << >>, Len(chain[Chg]) = 1 PROVE fsd'[chain[Chg][1]] = fsd[chain[Chg][1]]
    <3>1. chain[Chg][1] \in Elems(chain[Chg])
      BY <2>3 DEF Elems
    <3>2. Chained(fsd, chain[Chg]) /\ Disjoint(chain[Chg], ds)
      BY <1>2, <1>3, ChainsAre, ChainsApart DEF ds
    <3>3. chain[Chg][1] \in Fsd /\ chain[Chg][1] \notin Elems(ds)
      BY <3>1, <3>2 DEF Chained, Disjoint
    <3>4. QED BY <3>3, <1>10
  <2>4. QED BY <2>1, <2>2, <2>3 DEF Filler
<1>35. Books'
  BY <1>27, <1>28, <1>29, <1>30, <1>31, <1>32, <1>33, <1>34 DEF Books
<1>36. VarTypes'
  BY <1>20, <1>21, <1>23, <1>26 DEF VarTypes
<1>37. laf'[las[s].la_file].la_refs = 0
  BY <1>17, <1>19 DEF f
<1>38. QED BY <1>26, <1>35, <1>36, <1>37

-----------------------------------------------------------------------------
(* Blank lines.                                                            *)

(* The change file gets its chain of blank lines. *)
BlankFacts ==
  /\ \A t \in Stream : las'[t] = las[t]
  /\ \A g \in File : laf'[g] = laf[g] /\ chain'[g] = chain[g] /\ \A q : Bound(fsd, chain[g], q) => Bound(fsd', chain'[g], q)
  /\ las'[Blas].la_file = Chg /\ chain'[Chg] # << >>
  /\ fsd' \in [Fsd -> Fsds] /\ Fresh \in Fsd /\ fsd[Fresh].fsdfile = NoFile
  /\ fsd'[Fresh] = [fsdfile |-> Chg, fsdpos |-> Len(chg), fsdnlines |-> LA_FSDLMAX]
  /\ \A z \in Fsd : z # Fresh => fsd'[z] = fsd[z]

(* Filling the change file's chain with one fsd of blank lines keeps the   *)
(* books.                                                                  *)
LEMMA BlankBooks ==
  ASSUME TypeOK, Books, MakeBlanks
  PROVE  Books' /\ VarTypes' /\ BlankFacts
<1>0. VarTypes /\ call \in Calls /\ chg \in Seq(Line)
  BY TypesAre DEF TypeOK
<1> DEFINE e == Fresh
           r == [fsdfile |-> Chg, fsdpos |-> Len(chg), fsdnlines |-> LA_FSDLMAX]
<1>1. /\ chain[Chg] = << >> /\ Free # {}
      /\ fsd' = [fsd EXCEPT ![e] = r]
      /\ chain' = [chain EXCEPT ![Chg] = << e >>]
      /\ laf' = [laf EXCEPT ![Chg].la_fsrefs = @ + 1, ![Chg].la_nlines = LA_FSDLMAX, ![Chg].la_mode = TRUE]
      /\ las' = [las EXCEPT ![Blas].la_cfsd = e]
      /\ call' = Done
  BY DEF MakeBlanks
<1>2. e \in Fsd /\ fsd[e].fsdfile = NoFile
  BY <1>1, FreshIs
<1>3. Chg \in Files /\ Chg # NoFile /\ Blas \in Streams /\ (\A g \in File : g \in Files /\ g # Chg)
      /\ \A t \in Stream : t \in Streams /\ t # Blas
  BY NameAssumption DEF Files, Streams
<1>4. LA_FSDLMAX \in Nat /\ LA_FSDLMAX \in 1 .. LA_FSDLMAX
  BY LimitAssumption
<1>5. r \in Fsds /\ r.fsdfile = Chg /\ r.fsdnlines = LA_FSDLMAX
  <2>1. Len(chg) \in Nat
    BY <1>0
  <2>2. QED BY <2>1, <1>3, <1>4 DEF Fsds
<1> HIDE DEF e, r
<1>6. fsd' \in [Fsd -> Fsds] /\ fsd'[e] = r /\ \A z \in Fsd : z # e => fsd'[z] = fsd[z]
  BY <1>0, <1>1, <1>2, <1>5 DEF VarTypes
<1>7. chain' \in [Files -> Seq(Fsd)] /\ chain'[Chg] = << e >> /\ \A g \in Files : g # Chg => chain'[g] = chain[g]
  BY <1>0, <1>1, <1>2, <1>3 DEF VarTypes
<1>8. /\ laf' \in [Files -> LaFiles]
      /\ \A g \in Files : g # Chg => laf'[g] = laf[g]
      /\ laf'[Chg].la_refs = laf[Chg].la_refs /\ laf'[Chg].la_nlines = LA_FSDLMAX /\ laf'[Chg].la_fsrefs = laf[Chg].la_fsrefs + 1
  <2>1. laf \in [Files -> LaFiles] /\ laf[Chg] \in LaFiles
    BY <1>0, <1>3 DEF VarTypes
  <2>2. PICK x : x = [laf[Chg] EXCEPT !.la_fsrefs = @ + 1]
    OBVIOUS
  <2>3. PICK y : y = [x EXCEPT !.la_nlines = LA_FSDLMAX]
    OBVIOUS
  <2>4. laf'[Chg] = [y EXCEPT !.la_mode = TRUE]
    BY <2>1, <2>2, <2>3, <1>1, <1>3
  <2>5. x \in LaFiles /\ x.la_refs = laf[Chg].la_refs /\ x.la_fsrefs = laf[Chg].la_fsrefs + 1
    BY <2>1, <2>2 DEF LaFiles
  <2>6. y \in LaFiles /\ y.la_refs = x.la_refs /\ y.la_fsrefs = x.la_fsrefs /\ y.la_nlines = LA_FSDLMAX
    BY <2>3, <2>5, <1>4 DEF LaFiles
  <2>7. laf'[Chg] \in LaFiles /\ laf'[Chg].la_refs = y.la_refs /\ laf'[Chg].la_fsrefs = y.la_fsrefs /\ laf'[Chg].la_nlines = y.la_nlines
    BY <2>4, <2>6 DEF LaFiles
  <2>8. \A g \in Files : g # Chg => laf'[g] = laf[g]
    BY <2>1, <1>1, <1>3
  <2>9. \A g \in Files : laf'[g] \in LaFiles
    BY <2>1, <2>7, <2>8
  <2>10. laf' \in [Files -> LaFiles]
    BY <2>1, <2>9, <1>1
  <2>11. QED BY <2>5, <2>6, <2>7, <2>8, <2>10
<1>9. las[Blas].la_file = Chg /\ las[Blas].la_fsline = 0 /\ las[Blas].la_lpos = 0 /\ las[Blas] \in LaStreams
  BY <1>0, <1>3 DEF Books, Filler, VarTypes
<1>10. las'[Blas] = [las[Blas] EXCEPT !.la_cfsd = e] /\ \A t \in Streams : t # Blas => las'[t] = las[t]
  BY <1>0, <1>1, <1>3 DEF VarTypes
<1>11. las'[Blas] \in LaStreams /\ las'[Blas].la_file = Chg /\ las'[Blas].la_fsline = 0 /\ las'[Blas].la_lpos = 0 /\ las'[Blas].la_cfsd = e
  BY <1>2, <1>9, <1>10 DEF LaStreams
<1>12. las' \in [Streams -> LaStreams]
  <2>1. \A t \in Streams : las'[t] \in LaStreams
    BY <1>0, <1>10, <1>11 DEF VarTypes
  <2>2. QED BY <2>1, <1>0, <1>1 DEF VarTypes
<1>13. << e >> \in Seq(Fsd) /\ Inj(<< e >>) /\ Elems(<< e >>) = {e} /\ Len(<< e >>) = 1 /\ << e >>[1] = e /\ First(<< e >>) = e /\ << e >> # << >>
  BY <1>2 DEF Inj, Elems, First
<1>14. Chained(fsd', << e >>)
  <2>1. LinedOn(fsd', << e >>)
    BY <1>4, <1>5, <1>6, <1>13 DEF LinedOn
  <2>2. QED BY <2>1, <1>2, <1>3, <1>5, <1>6, <1>13 DEF Chained
<1>15. Size(fsd', << e >>) = LA_FSDLMAX
  BY <1>2, <1>5, <1>6, SizeOne
<1>16. \A g \in Files : g # Chg => Alias(fsd, fsd', chain[g])
  <2>1. SUFFICES ASSUME NEW g \in Files, g # Chg PROVE Alias(fsd, fsd', chain[g])
    OBVIOUS
  <2>2. Chained(fsd, chain[g])
    BY ChainsAre
  <2>3. chain[g] \in Seq(Fsd) /\ \A z \in Elems(chain[g]) : z \in Fsd /\ fsd[z].fsdfile # NoFile
    BY <2>2 DEF Chained
  <2>4. SameLines(fsd, fsd', chain[g])
    BY <2>3, <1>2, <1>6 DEF SameLines, Elems
  <2>5. QED BY <2>3, <2>4, <1>0, <1>6, SameChain DEF VarTypes
<1>17. call'.new = call.new /\ call'.tail = call.tail /\ call'.cut = call.cut
  BY <1>0, <1>1 DEF Done, Calls
<1>18. Placing(fsd', Lists')
  <2> DEFINE sp == << 0, Chg >>
             L2 == Lists'
  <2>1. sp \in Spot
    BY <1>3, SpotsAre
  <2>2. Lists[sp] = << >> /\ L2[sp] = << e >>
    BY <1>1, <1>3, <1>7, ListsNow, ListsThen
  <2>3. \A j \in Spot : j # sp => L2[j] = Lists[j]
    <3>1. SUFFICES ASSUME NEW j \in Spot, j # sp PROVE L2[j] = Lists[j]
      OBVIOUS
    <3>2. CASE \E g \in Files : j = << 0, g >>
      BY <3>1, <3>2, <1>7, ListsNow, ListsThen
    <3>3. CASE j \in {<< 1, NoFile >>, << 2, NoFile >>, << 3, NoFile >>}
      BY <3>3, <1>17, ListsNow, ListsThen
    <3>4. QED BY <3>2, <3>3, SpotsAre
  <2>4. InFsd(L2)
    <3>1. AllSeqs(chain', call'.new, call'.tail, call'.cut)
      BY <1>7, <1>17, CallLists DEF AllSeqs
    <3>2. InFsd(ListsOf(chain', call'.new, call'.tail, call'.cut))
      BY <3>1, InFsdIs
    <3>3. QED BY <3>2 DEF Lists
  <2>5. InFsd(Lists) /\ Placing(fsd, Lists)
    BY ListsIn DEF Books
  <2> HIDE DEF sp, L2
  <2>6. Elems(Lists[sp]) = {} /\ Elems(L2[sp]) = {e} /\ Inj(L2[sp])
    BY <2>2, <1>13, NoElems
  <2>7. \A d \in Fsd : fsd'[d].fsdfile # NoFile <=> d = e \/ fsd[d].fsdfile # NoFile
    BY <1>2, <1>3, <1>5, <1>6
  <2>8. TwoChange(fsd, Lists, fsd', L2, sp, sp)
    BY <2>1, <2>3, <2>6, <2>7, <1>2 DEF TwoChange
  <2>9. Placing(fsd', L2)
    BY <2>4, <2>5, <2>8, TwoChanged
  <2>10. QED BY <2>9 DEF L2
<1>19. Lined(fsd')
  <2>1. SUFFICES ASSUME NEW d \in Fsd, fsd'[d].fsdfile # NoFile PROVE fsd'[d].fsdnlines \in 1 .. LA_FSDLMAX
    BY DEF Lined
  <2>2. CASE d = e
    BY <2>2, <1>4, <1>5, <1>6
  <2>3. CASE d # e
    BY <2>1, <2>3, <1>6 DEF Books, Lined
  <2>4. QED BY <2>2, <2>3
<1>20. Numbered'
  <2>1. SUFFICES ASSUME NEW g \in Files PROVE laf'[g].la_nlines = Size(fsd', chain'[g])
    BY DEF Numbered
  <2>2. CASE g = Chg
    BY <2>2, <1>7, <1>8, <1>15
  <2>3. CASE g # Chg
    BY <2>3, <1>7, <1>8, <1>16 DEF Numbered, Books, Alias
  <2>4. QED BY <2>2, <2>3
<1>21. Shut'
  BY <1>3, <1>7, <1>8 DEF Books, Shut, IsOpen
<1>22. Placed'
  <2>1. SUFFICES ASSUME NEW t \in Streams PROVE (IF Open(t) THEN InChain(fsd, chain[las[t].la_file], las[t]) ELSE las[t] = Closed)'
    BY DEF Placed
  <2>2. CASE t = Blas
    <3>1. las'[Blas].la_cfsd = First(<< e >>)
      BY <1>11, <1>13
    <3>2. InChain(fsd', << e >>, las'[Blas])
      BY <3>1, <1>6, <1>11, <1>14, AtFirst
    <3>3. QED BY <2>2, <3>2, <1>3, <1>7, <1>11 DEF Open
  <2>3. CASE t # Blas
    <3>1. las'[t] = las[t] /\ las[t].la_file # Chg
      BY <2>3, <1>10 DEF Books, Refs, Streams
    <3>2. CASE Open(t)
      <4>1. las[t].la_file \in Files /\ InChain(fsd, chain[las[t].la_file], las[t])
        BY <3>2, StreamIs
      <4>2. InChain(fsd', chain[las[t].la_file], las[t])
        BY <3>1, <4>1, <1>16 DEF Alias
      <4>3. QED BY <3>1, <3>2, <4>1, <4>2, <1>7 DEF Open
    <3>3. CASE ~ Open(t)
      BY <3>1, <3>3 DEF Books, Placed, Open
    <3>4. QED BY <3>2, <3>3
  <2>4. QED BY <2>2, <2>3
<1>23. Refs'
  <2>1. \A t \in Streams : las'[t].la_file = las[t].la_file
    BY <1>9, <1>10, <1>11
  <2>2. \A g \in Files : laf'[g].la_refs = laf[g].la_refs
    BY <1>8
  <2>3. QED BY <2>1, <2>2, SameRefsIs DEF SameRefs, Books
<1>24. FsrefsExact'
  <2>1. Taken(fsd, fsd', e, Chg)
    BY <1>2, <1>3, <1>5, <1>6 DEF Taken
  <2>2. Counted1(fsd, fsd', Chg)
    BY <2>1, TakenIs
  <2>3. \A g \in Files : laf[g].la_fsrefs = Cardinality(Those(fsd, g))
    BY DEF Books, FsrefsExact, Those
  <2>4. \A g \in Files : laf'[g].la_fsrefs = Cardinality(Those(fsd', g))
    BY <2>2, <2>3, <1>8 DEF Counted1
  <2>5. QED BY <2>4 DEF FsrefsExact, Those
<1>25. Filler'
  BY <1>5, <1>6, <1>7, <1>11, <1>13 DEF Filler
<1>26. Books'
  BY <1>18, <1>19, <1>20, <1>21, <1>22, <1>23, <1>24, <1>25 DEF Books
<1>27. VarTypes'
  BY <1>6, <1>7, <1>8, <1>12 DEF VarTypes
<1>28. \A g \in File : laf'[g] = laf[g] /\ chain'[g] = chain[g] /\ \A q : Bound(fsd, chain[g], q) => Bound(fsd', chain'[g], q)
  BY <1>3, <1>7, <1>8, <1>16 DEF Alias
<1>29. BlankFacts
  BY <1>2, <1>3, <1>6, <1>7, <1>10, <1>11, <1>13, <1>28 DEF BlankFacts, e, r
<1>30. QED BY <1>26, <1>27, <1>29

-----------------------------------------------------------------------------
(* Seeking, of a stream of the program. *)
LEMMA StreamSeek ==
  ASSUME TypeOK, Books, NEW s \in Streams, Open(s), NEW n \in Int
  PROVE  Sought(las[s], Seek(las[s], n), n)
<1>1. fsd \in [Fsd -> Fsds]
  BY DEF TypeOK
<1>2. las[s] \in LaStreams /\ las[s].la_file \in Files /\ InChain(fsd, chain[las[s].la_file], las[s])
  BY StreamIs
<1>3. Chained(fsd, chain[las[s].la_file]) /\ laf[las[s].la_file].la_nlines = Size(fsd, chain[las[s].la_file])
  BY StreamHas
<1>4. chain[las[s].la_file] \in Seq(Fsd) /\ Inj(chain[las[s].la_file]) /\ LinedOn(fsd, chain[las[s].la_file])
  BY <1>3 DEF Chained
<1>5. QED BY <1>1, <1>2, <1>3, <1>4, SeekIs

-----------------------------------------------------------------------------
(* The script of an operation, and the end of one.                         *)

(* The steps an operation takes, one after the other. *)
Onwards == /\ call.todo # << >> /\ call'.todo = Tail(call.todo) /\ call'.op = call.op /\ call'.bad = call.bad

(* What the tail of a sequence is.                                         *)
LEMMA TailIs ==
  ASSUME NEW S, NEW t \in Seq(S), t # << >>
  PROVE  /\ Tail(t) \in Seq(S) /\ Len(t) \in Nat /\ Len(t) > 0 /\ Len(Tail(t)) = Len(t) - 1 /\ Head(t) = t[1]
         /\ \A i \in 1 .. Len(t) - 1 : Tail(t)[i] = t[i + 1]
OBVIOUS

(* A step that takes the first of the steps to do keeps Script, and the    *)
(* phase goes on as Leads says.                                            *)
LEMMA Onward ==
  ASSUME call \in Calls, Script, Onwards
  PROVE  Script' /\ Phase = Head(call.todo) /\ Leads(Phase, Phase') /\ (ToDelete' => ToDelete)
<1> DEFINE t == call.todo
           u == call'.todo
           n == Len(t)
<1>1. t \in Seq(Steps) /\ t # << >> /\ u = Tail(t)
  BY DEF Calls, Onwards
<1>2. n \in Nat /\ n > 0 /\ Len(u) = n - 1 /\ Head(t) = t[1] /\ (\A i \in 1 .. n - 1 : u[i] = t[i + 1]) /\ u \in Seq(Steps)
  BY <1>1, TailIs
<1>3. \A x, y : Leads(x, y)' <=> Leads(x, y)
  BY DEF Leads, Onwards, Cuts, Copying
<1>4. \A i \in 1 .. n : Leads(t[i], IF i < n THEN t[i + 1] ELSE "end")
  BY DEF Script
<1> HIDE DEF t, u, n
<1>5. ASSUME NEW i \in 1 .. n - 1 PROVE Leads(u[i], IF i < n - 1 THEN u[i + 1] ELSE "end")
  <2>1. i + 1 \in 1 .. n /\ u[i] = t[i + 1]
    BY <1>2
  <2>2. Leads(t[i + 1], IF i + 1 < n THEN t[i + 1 + 1] ELSE "end")
    BY <2>1, <1>4
  <2>3. CASE i < n - 1
    <3>1. i + 1 < n /\ i + 1 \in 1 .. n - 1
      BY <2>3, <1>2
    <3>2. u[i + 1] = t[i + 1 + 1]
      BY <3>1, <1>2
    <3>3. Leads(u[i], u[i + 1])
      BY <2>1, <2>2, <3>1, <3>2
    <3>4. QED BY <3>3, <2>3
  <2>4. CASE ~ (i < n - 1)
    <3>1. ~ (i + 1 < n)
      BY <2>4, <1>2
    <3>2. Leads(u[i], "end")
      BY <2>1, <2>2, <3>1
    <3>3. QED BY <3>2, <2>4
  <2>5. QED BY <2>3, <2>4
<1>6. Script'
  <2>1. (call.bad => call.op \in {"replace", "blank"})'
    BY DEF Script, Onwards
  <2>2. Len(call'.todo) = n - 1
    BY <1>2 DEF u
  <2>3. (\A i \in 1 .. Len(call.todo) : Leads(call.todo[i], IF i < Len(call.todo) THEN call.todo[i + 1] ELSE "end"))'
    <3>1. SUFFICES ASSUME NEW i \in 1 .. Len(call'.todo)
                   PROVE Leads(call.todo[i], IF i < Len(call.todo) THEN call.todo[i + 1] ELSE "end")'
      OBVIOUS
    <3>2. PICK x, y : x = u[i] /\ y = IF i < n - 1 THEN u[i + 1] ELSE "end"
      OBVIOUS
    <3>3. Leads(x, y)
      BY <3>1, <3>2, <2>2, <1>5
    <3>4. Leads(x, y)'
      BY <3>3, <1>3
    <3>5. x = call'.todo[i] /\ y = IF i < Len(call'.todo) THEN call'.todo[i + 1] ELSE "end"
      BY <3>2, <2>2 DEF u
    <3>6. QED BY <3>4, <3>5
  <2>4. QED BY <2>1, <2>3 DEF Script
<1>7. Phase = Head(t)
  BY <1>1 DEF Phase, t
<1>8. Phase' = IF u = << >> THEN "end" ELSE Head(u)
  BY DEF Phase, u
<1>9. Leads(Phase, Phase')
  <2>1. 1 \in 1 .. n
    BY <1>2
  <2>2. Leads(t[1], IF 1 < n THEN t[1 + 1] ELSE "end")
    BY <2>1, <1>4
  <2>3. CASE u = << >>
    <3>1. n = 1
      BY <2>3, <1>2
    <3>2. QED BY <3>1, <2>2, <2>3, <1>2, <1>7, <1>8
  <2>4. CASE u # << >>
    <3>1. Len(u) > 0 /\ Head(u) = u[1]
      BY <2>4, <1>2
    <3>2. 1 < n /\ u[1] = t[1 + 1]
      BY <3>1, <1>2
    <3>3. QED BY <3>1, <3>2, <2>2, <2>4, <1>2, <1>7, <1>8
  <2>5. QED BY <2>3, <2>4
<1>10. ToDelete' => ToDelete
  <2>1. SUFFICES ASSUME NEW i \in 1 .. n - 1, u[i] = "del" PROVE ToDelete
    BY <1>2 DEF ToDelete, u
  <2>2. i + 1 \in 1 .. n /\ t[i + 1] = "del"
    BY <2>1, <1>2
  <2>3. QED BY <2>2 DEF ToDelete, t, n
<1>11. QED BY <1>6, <1>7, <1>9, <1>10 DEF t

(* The record of a call, field by field. *)
LEMMA CallIs ==
  ASSUME call \in Calls
  PROVE  /\ call.op \in Ops /\ call.todo \in Seq(Steps) /\ call.p \in Streams \cup {None} /\ call.d \in Stream \cup {None}
         /\ call.n \in Nat /\ call.own \in Files \cup {NoFile} /\ call.pos \in Nat /\ call.left \in Nat
         /\ call.new \in Seq(Fsd) /\ call.tail \in Seq(Fsd) /\ call.cut \in Seq(Fsd) /\ call.cfsd \in Fsd \cup {Eof}
         /\ call.sure \in BOOLEAN /\ call.text \in Seq(Line) /\ call.blank \in Nat /\ call.cnt \in Nat /\ call.bad \in BOOLEAN
         /\ call.ret \in {"ok", "err", "abort"} /\ call.edits \in Nat
BY DEF Calls

(* No operation is a call, whose fields are these.                         *)
LEMMA NoCallIs ==
  /\ NoCall \in Calls /\ NoCall.op = "none" /\ NoCall.todo = << >> /\ NoCall.new = << >> /\ NoCall.tail = << >>
  /\ NoCall.cut = << >> /\ NoCall.cnt = 0 /\ NoCall.bad = FALSE /\ NoCall.ret = "ok" /\ NoCall.n = 0
  /\ NoCall.p = None /\ NoCall.d = None /\ NoCall.own = NoFile /\ NoCall.pos = 0 /\ NoCall.left = 0
  /\ NoCall.blank = 0
BY DEF NoCall, Calls, Ops

(* The call after an operation that has ended.                             *)
LEMMA EndedIs ==
  ASSUME call \in Calls, NEW r \in {"ok", "err", "abort"}
  PROVE  /\ Ended(r) \in Calls /\ Ended(r).op = "none" /\ Ended(r).todo = << >> /\ Ended(r).new = << >> /\ Ended(r).tail = << >>
         /\ Ended(r).cut = << >> /\ Ended(r).cnt = 0 /\ Ended(r).bad = FALSE /\ Ended(r).ret = r /\ Ended(r).n = 0
         /\ Ended(r).edits = call.edits /\ Ended(r).own = NoFile /\ Ended(r).pos = 0 /\ Ended(r).left = 0
         /\ Ended(r).blank = 0 /\ Ended(r).d = None
<1>1. call.edits \in Nat
  BY CallIs
<1>2. PICK x : x = [NoCall EXCEPT !.ret = r]
  OBVIOUS
<1>3. x \in Calls
  <2>1. NoCall \in Calls /\ r \in {"ok", "err", "abort"}
    BY NoCallIs
  <2>2. QED BY <1>2, <2>1, ZenonT(45) DEF Calls
<1>4. /\ x.op = "none" /\ x.todo = << >> /\ x.new = << >> /\ x.tail = << >> /\ x.cut = << >>
      /\ x.cnt = 0 /\ x.bad = FALSE /\ x.ret = r
  BY <1>2, NoCallIs DEF Calls
<1>5. x.n = 0 /\ x.own = NoFile /\ x.pos = 0 /\ x.left = 0 /\ x.blank = 0 /\ x.d = None
  BY <1>2, NoCallIs DEF Calls
<1>6. PICK k : k = call.edits
  OBVIOUS
<1>7. PICK y : y = [x EXCEPT !.edits = k]
  OBVIOUS
<1>8. Ended(r) = y
  BY <1>2, <1>6, <1>7, NoCallIs DEF Ended
<1>9. y \in Calls
  BY <1>1, <1>3, <1>6, <1>7, ZenonT(45) DEF Calls
<1>10. /\ y.op = x.op /\ y.todo = x.todo /\ y.new = x.new /\ y.tail = x.tail /\ y.cut = x.cut
       /\ y.cnt = x.cnt /\ y.bad = x.bad /\ y.ret = x.ret
  BY <1>3, <1>7 DEF Calls
<1>11. /\ y.n = x.n /\ y.own = x.own /\ y.pos = x.pos /\ y.left = x.left /\ y.blank = x.blank
       /\ y.d = x.d /\ y.edits = k
  BY <1>3, <1>7 DEF Calls
<1>12. QED BY <1>4, <1>5, <1>6, <1>8, <1>9, <1>10, <1>11

(* When no operation is in progress. *)
Over == call.op = "none" /\ call.todo = << >> /\ Nothing /\ call.cnt = 0 /\ call.bad = FALSE /\ call.ret # "abort"

(* When no operation is in progress the script, who takes part and the     *)
(* stages hold.                                                            *)
LEMMA OverIs == ASSUME Over PROVE Script /\ Who /\ Stage /\ NeverAbort
<1>1. Len(call.todo) = 0
  BY DEF Over
<1>2. Script
  BY <1>1 DEF Script, Over
<1>3. Phase = "end" /\ ~ ToDelete
  BY <1>1 DEF Phase, Over, ToDelete
<1>4. Who
  BY <1>3 DEF Who, Over
<1>5. Stage
  BY <1>3 DEF Stage, Over
<1>6. QED BY <1>2, <1>4, <1>5 DEF NeverAbort, Over

(* When no operation is in progress the call is over.                      *)
LEMMA OverHas ==
  ASSUME call \in Calls, Script, Who, Stage, NeverAbort, call.op = "none"
  PROVE  Over
<1>1. call.todo \in Seq(Steps) /\ call.bad \in BOOLEAN
  BY CallIs
<1>2. call.bad = FALSE
  BY <1>1 DEF Script
<1>3. call.todo = << >>
  <2>1. SUFFICES ASSUME call.todo # << >> PROVE FALSE
    OBVIOUS
  <2>2. 1 \in 1 .. Len(call.todo)
    BY <2>1, <1>1
  <2>3. PICK y : Leads(call.todo[1], y)
    BY <2>2 DEF Script
  <2>4. QED BY <2>3, <1>2 DEF Leads, Cuts, Copying
<1>4. Nothing
  BY <1>3 DEF Stage, Phase
<1>5. QED BY <1>2, <1>3, <1>4 DEF Over, Who, NeverAbort

-----------------------------------------------------------------------------
(* What one operation leaves of what another relies on.                    *)

(* Who an operation is for, while its streams keep their files. *)
WhoKept == /\ call'.op = call.op /\ call'.bad = call.bad /\ call'.p = call.p /\ call'.d = call.d
           /\ \A s \in Streams : las'[s].la_file = las[s].la_file /\ las'[s].la_stay = las[s].la_stay
           /\ call'.n = call.n \/ call'.n > 0
           /\ call'.cnt = call.cnt \/ call.op \in {"replace", "blank"}
           /\ ToDelete' => ToDelete

(* Who takes part is kept by a step that changes none of what it speaks    *)
(* of.                                                                     *)
LEMMA WhoFrame == ASSUME Who, WhoKept PROVE Who'
<1>1. Copying' = Copying
  BY DEF WhoKept, Copying
<1>2. Blas \in Streams /\ \A s \in Stream : s \in Streams
  BY DEF Streams
<1>3. ASSUME call.op \notin {"none", "open"}
      PROVE (/\ call.p \in (IF call.op = "blank" /\ ~ call.bad THEN {Blas} ELSE Stream) /\ Open(call.p)
             /\ call.d # None => call.d \in Stream /\ Open(call.d)
             /\ Copying => call.d # None
             /\ call.bad => call.d = None
             /\ call.op = "replace" /\ ~ call.bad => ~ X.la_stay
             /\ call.op = "blank" /\ ~ call.bad => ~ las[call.d].la_stay)'
  <2>1. call.p \in Streams /\ call.p \in (IF call.op = "blank" /\ ~ call.bad THEN {Blas} ELSE Stream) /\ Open(call.p)
    BY <1>2, <1>3 DEF Who
  <2>2. call.d # None => call.d \in Stream /\ Open(call.d)
    BY <1>3 DEF Who
  <2>3. (Copying => call.d # None) /\ (call.bad => call.d = None)
    BY <1>3 DEF Who
  <2>4. call.op = "replace" /\ ~ call.bad => ~ las[call.p].la_stay
    BY <1>3 DEF Who, X
  <2>5. call.op = "blank" /\ ~ call.bad => ~ las[call.d].la_stay
    BY <1>3 DEF Who
  <2>6. call.op = "blank" /\ ~ call.bad => call.d # None
    BY <2>3 DEF Copying
  <2>7. (call.p \in (IF call.op = "blank" /\ ~ call.bad THEN {Blas} ELSE Stream) /\ Open(call.p))'
    BY <2>1 DEF WhoKept, Open
  <2>8. (call.d # None => call.d \in Stream /\ Open(call.d))'
    BY <2>2, <1>2 DEF WhoKept, Open
  <2>9. (call.op = "replace" /\ ~ call.bad => ~ X.la_stay)'
    BY <2>1, <2>4 DEF WhoKept, X
  <2>10. (call.op = "blank" /\ ~ call.bad => ~ las[call.d].la_stay)'
    BY <2>2, <2>5, <2>6, <1>2 DEF WhoKept
  <2>11. ((Copying => call.d # None) /\ (call.bad => call.d = None))'
    BY <2>3, <1>1 DEF WhoKept
  <2>12. QED BY <2>7, <2>8, <2>9, <2>10, <2>11
<1>4. call'.op = call.op
  BY DEF WhoKept
<1>5. (call.op \in {"replace", "delete"} => call.n > 0)' /\ (call.op = "collect" /\ ToDelete => call.n > 0)'
      /\ (call.op \notin {"replace", "blank"} => call.cnt = 0)'
  BY DEF Who, WhoKept
<1>6. QED BY <1>3, <1>4, <1>5 DEF Who

(* The boundaries of fsds that a break or a new fsd leaves are still there. *)
LEMMA KeptEdges ==
  ASSUME TypeOK, Books, Kept, NEW s \in Streams, Open(s)
  PROVE  /\ Open(s)' /\ (Edged(s) => Edged(s)')
         /\ \A n \in Nat : Edge(s, n) => Edge(s, n)'
         /\ \A n \in Nat : Cleft(s, n) => Cleft(s, n)'
         /\ las'[s].la_lpos = las[s].la_lpos /\ las[s].la_lpos \in Nat
         /\ las'[s].la_file = las[s].la_file /\ las[s].la_file \in Files
         /\ laf'[las'[s].la_file].la_nlines = laf[las[s].la_file].la_nlines
<1>1. las[s].la_file \in Files /\ PlaceFacts(fsd, chain[las[s].la_file], las[s])
  BY StreamHas
<1>2. las[s].la_lpos \in Nat
  BY <1>1 DEF PlaceFacts
<1>3. las'[s].la_file = las[s].la_file /\ las'[s].la_lpos = las[s].la_lpos
  BY DEF Kept
<1>4. Open(s)'
  BY <1>3 DEF Open
<1>5. \A n \in Nat : Edge(s, n) => Edge(s, n)'
  BY <1>1, <1>3 DEF Edge, Kept
<1>6. Edged(s) => Edged(s)'
  BY <1>2, <1>3, <1>5 DEF Edged
<1>7. \A n \in Nat : Cleft(s, n) => Cleft(s, n)'
  <2>1. SUFFICES ASSUME NEW n \in Nat, Cleft(s, n) PROVE Cleft(s, n)'
    OBVIOUS
  <2>2. n <= las[s].la_lpos /\ Edged(s) /\ Edge(s, las[s].la_lpos - n)
    BY <2>1 DEF Cleft
  <2>3. las[s].la_lpos - n \in Nat
    BY <2>2, <1>2
  <2>4. PICK q \in Nat : q = las[s].la_lpos - n
    BY <2>3
  <2>5. Edge(s, q)'
    BY <2>2, <2>4, <1>5
  <2>6. Edged(s)'
    BY <2>2, <1>6
  <2>7. q = (las[s].la_lpos - n)' /\ n <= las'[s].la_lpos
    BY <2>4, <2>2, <1>3
  <2>8. QED BY <2>5, <2>6, <2>7 DEF Cleft
<1>8. laf'[las'[s].la_file].la_nlines = laf[las[s].la_file].la_nlines
  BY <1>1, <1>3 DEF Kept
<1>9. QED BY <1>1, <1>2, <1>3, <1>4, <1>5, <1>6, <1>7, <1>8

(* A chain has been linked in at stream s. *)
Linked(s, n) == fsd' = fsd /\ s \in Stream /\ Open(s) /\ LinkFacts(las[s].la_file, las[s].la_lpos, n)

(* A stream that is at an end of an fsd still is when a chain has been     *)
(* linked into some file.                                                  *)
LEMMA LinkEdges ==
  ASSUME TypeOK, Books, NEW s, NEW n, Linked(s, n), NEW t \in Streams, Open(t)
  PROVE  Open(t)' /\ (Edged(t) => Edged(t)')
<1> DEFINE f == las[s].la_file
           at == las[s].la_lpos
<1>1. LinkFacts(f, at, n) /\ fsd' = fsd
  BY DEF Linked
<1> HIDE DEF f, at
<1>2. las[t].la_file \in Files /\ PlaceFacts(fsd, chain[las[t].la_file], las[t])
  BY StreamHas
<1>3. las[t].la_lpos \in Nat
  BY <1>2 DEF PlaceFacts
<1>4. las'[t].la_file = las[t].la_file
  BY <1>1 DEF LinkFacts
<1>5. Open(t)'
  BY <1>4 DEF Open
<1>6. ASSUME Edged(t) PROVE Edged(t)'
  <2>1. Bound(fsd, chain[las[t].la_file], las[t].la_lpos)
    BY <1>6 DEF Edged, Edge
  <2>2. CASE las[t].la_file # f
    <3>1. las'[t] = las[t] /\ chain'[las[t].la_file] = chain[las[t].la_file]
      BY <2>2, <1>1, <1>2 DEF LinkFacts
    <3>2. QED BY <3>1, <2>1, <1>1 DEF Edged, Edge
  <2>3. CASE las[t].la_file = f
    <3>1. /\ at \in Nat /\ n \in Nat
          /\ \A q \in Nat : Bound(fsd, chain[f], q) /\ q <= at => Bound(fsd', chain'[f], q)
          /\ \A q \in Nat : Bound(fsd, chain[f], q) /\ q >= at => Bound(fsd', chain'[f], q + n)
          /\ las'[t].la_lpos = IF las[t].la_lpos < at \/ (las[t].la_lpos = at /\ las[t].la_stay) THEN las[t].la_lpos
                                                                                          ELSE las[t].la_lpos + n
      BY <2>3, <1>1 DEF LinkFacts
    <3>2. Bound(fsd', chain'[f], las'[t].la_lpos)
      BY <3>1, <2>1, <2>3, <1>3
    <3>3. QED BY <3>2, <2>3, <1>4 DEF Edged, Edge
  <2>4. QED BY <2>2, <2>3
<1>7. QED BY <1>5, <1>6

(* The stream itself is behind what it has linked in. *)
LEMMA LinkCleft ==
  ASSUME TypeOK, Books, NEW s, NEW n, Linked(s, n), ~ las[s].la_stay, NEW c \in Nat, c > 0 => Cleft(s, c)
  PROVE  Cleft(s, c + n)'
<1> DEFINE f == las[s].la_file
           at == las[s].la_lpos
<1>1. LinkFacts(f, at, n) /\ fsd' = fsd /\ Open(s) /\ s \in Streams
  BY DEF Linked, Streams
<1>2. /\ at \in Nat /\ n \in Nat /\ las'[s].la_file = f /\ las'[s].la_lpos = at + n
      /\ \A q \in Nat : Bound(fsd, chain[f], q) /\ q <= at => Bound(fsd', chain'[f], q)
      /\ Bound(fsd', chain'[f], at) /\ Bound(fsd', chain'[f], at + n)
  <2>1. \A t \in Streams : las[t].la_file = f =>
       las'[t].la_lpos = IF las[t].la_lpos < at \/ (las[t].la_lpos = at /\ las[t].la_stay) THEN las[t].la_lpos
                                                                                          ELSE las[t].la_lpos + n
    BY <1>1 DEF LinkFacts
  <2>2. at \in Nat
    BY <1>1 DEF LinkFacts
  <2>3. las'[s].la_lpos = at + n
    BY <2>1, <2>2, <1>1
  <2> HIDE DEF f, at
  <2>4. QED BY <2>3, <1>1 DEF LinkFacts, f
<1>3. Edged(s)'
  BY <1>2 DEF Edged, Edge
<1>4. Bound(fsd', chain'[f], at - c) /\ c <= at
  <2>1. CASE c = 0
    <3>1. at - c = at
      BY <2>1, <1>2
    <3>2. QED BY <3>1, <2>1, <1>2
  <2>2. CASE c > 0
    <3>1. c <= at /\ Bound(fsd, chain[f], at - c)
      BY <2>2 DEF Cleft, Edge
    <3>2. at - c \in Nat /\ at - c <= at
      BY <3>1, <1>2
    <3>3. QED BY <3>1, <3>2, <1>2
  <2>3. QED BY <2>1, <2>2
<1> HIDE DEF f, at
<1>5. (at + n) - (c + n) = at - c /\ c + n <= at + n
  BY <1>2, <1>4
<1>6. Edge(s, las[s].la_lpos - (c + n))' /\ c + n <= las'[s].la_lpos
  BY <1>2, <1>4, <1>5 DEF Edge
<1>7. QED BY <1>3, <1>6 DEF Cleft

(* Lines have been taken out. *)
LEMMA CutEdges ==
  ASSUME TypeOK, Books, fsd' = fsd, NEW f, NEW at, NEW n, CutFacts(f, at, n), NEW t \in Streams, Open(t)
  PROVE  Open(t)' /\ (Edged(t) => Edged(t)')
<1>2. las[t].la_file \in Files /\ PlaceFacts(fsd, chain[las[t].la_file], las[t])
  BY StreamHas
<1>3. las[t].la_lpos \in Nat
  BY <1>2 DEF PlaceFacts
<1>4. las'[t].la_file = las[t].la_file
  BY DEF CutFacts
<1>5. Open(t)'
  BY <1>4 DEF Open
<1>6. ASSUME Edged(t) PROVE Edged(t)'
  <2>1. Bound(fsd, chain[las[t].la_file], las[t].la_lpos)
    BY <1>6 DEF Edged, Edge
  <2>2. CASE las[t].la_file # f
    <3>1. las'[t] = las[t] /\ chain'[las[t].la_file] = chain[las[t].la_file]
      BY <2>2, <1>2 DEF CutFacts
    <3>2. QED BY <3>1, <2>1 DEF Edged, Edge
  <2>3. CASE las[t].la_file = f
    <3>1. /\ at \in Nat /\ n \in Nat
          /\ \A q \in Nat : Bound(fsd, chain[f], q) /\ q <= at => Bound(fsd', chain'[f], q)
          /\ \A q \in Nat : Bound(fsd, chain[f], q) /\ q >= at + n => Bound(fsd', chain'[f], q - n)
          /\ Bound(fsd', chain'[f], at)
          /\ las'[t].la_lpos = IF las[t].la_lpos >= at + n THEN las[t].la_lpos - n
                         ELSE IF las[t].la_lpos < at THEN las[t].la_lpos ELSE at
      BY <2>3 DEF CutFacts
    <3>2. Bound(fsd', chain'[f], las'[t].la_lpos)
      BY <3>1, <2>1, <2>3, <1>3
    <3>3. QED BY <3>2, <2>3, <1>4 DEF Edged, Edge
  <2>4. QED BY <2>2, <2>3
<1>7. QED BY <1>5, <1>6

-----------------------------------------------------------------------------
(* What fsds describe is in store.                                         *)

(* Where a break was made. *)
BrokeAt(f, n) ==
  /\ Fresh \in Fsd /\ Pointed(fsd', chain'[f], Fresh, n) /\ Bound(fsd', chain'[f], n)

(* What else la_break does: the place where it breaks is an end of an fsd  *)
(* now, and streams in other fsds stay as they are.                        *)
LEMMA BreakMore ==
  ASSUME TypeOK, Books, NEW x, BreakArgs(x), BreakAt(x)
  PROVE  /\ BrokeAt(x.la_file, x.la_lpos)
         /\ \A t \in Streams : las[t].la_cfsd # x.la_cfsd => las'[t] = las[t]
<1>0. VarTypes
  BY TypesAre
<1>1. PICK f, ds, i, d, k, w, e : BreakDoes(x, f, ds, i, d, k, w, e)
  BY BreakDoesIs
<1>2. /\ f = x.la_file /\ f \in Files /\ ds = chain[f] /\ i \in 1 .. Len(ds) /\ d = ds[i]
      /\ d = x.la_cfsd /\ d \in Fsd /\ e \in Fsd /\ e = Fresh /\ fsd[e].fsdfile = NoFile
      /\ w = fsd[d].fsdnlines /\ k \in Nat /\ 0 < k /\ k < w /\ d # e
      /\ x.la_lpos = Sums(fsd, ds)[i - 1] + k
  BY <1>1 DEF BreakDoes
<1>3. /\ fsd' \in [Fsd -> Fsds]
      /\ fsd'[d] = [fsdfile |-> fsd[d].fsdfile, fsdpos |-> fsd[d].fsdpos, fsdnlines |-> k]
      /\ fsd'[e] = [fsdfile |-> fsd[d].fsdfile, fsdpos |-> fsd[d].fsdpos + k, fsdnlines |-> w - k]
      /\ \A z \in Fsd : z # d /\ z # e => fsd'[z] = fsd[z]
  BY <1>1 DEF BreakDoes
<1> DEFINE es == InsertAt(ds, i + 1, e)
<1>4. chain'[f] = es
  BY <1>1 DEF BreakDoes
<1>5. las' = [t \in Streams |-> AfterB(las[t], d, k, e)]
  BY <1>1 DEF BreakDoes
<1> HIDE DEF es
<1>6. Chained(fsd, ds) /\ e \notin Elems(ds)
  BY <1>2, ChainsAre DEF Chained
<1>7. ds \in Seq(Fsd) /\ Inj(ds) /\ fsd \in [Fsd -> Fsds] /\ Len(ds) \in Nat
  BY <1>6, <1>0 DEF Chained, VarTypes
<1>8. BreakOf(fsd, ds, i, k, e, fsd', es)
  BY <1>2, <1>3, <1>6 DEF BreakOf, es
<1>9. BreakKeeps(fsd, ds, i, k, e, fsd', es)
  BY <1>2, <1>3, <1>7, <1>8, BreakChain
<1>10. InTwo(fsd, ds, i, k, e, fsd', es)
  BY <1>2, <1>3, <1>7, <1>8, InTwoIs
<1>11. Bound(fsd', es, x.la_lpos)
  BY <1>9, <1>2 DEF BreakKeeps
<1>12. Pointed(fsd', es, e, x.la_lpos)
  <2>1. es \in Seq(Fsd) /\ Len(es) = Len(ds) + 1 /\ es[i + 1] = e /\ Sums(fsd', es)[i] = x.la_lpos
    BY <1>10, <1>2 DEF InTwo
  <2>2. i + 1 \in 1 .. Len(es) + 1 /\ i + 1 <= Len(es) /\ (i + 1) - 1 = i
    BY <2>1, <1>2, <1>7, SMTT(45)
  <2>3. Nth(es, i + 1) = e
    BY <2>1, <2>2 DEF Nth
  <2>4. QED BY <2>1, <2>2, <2>3 DEF Pointed
<1>13. \A t \in Streams : las[t].la_cfsd # x.la_cfsd => las'[t] = las[t]
  BY <1>2, <1>5 DEF AfterB
<1>14. BrokeAt(x.la_file, x.la_lpos)
  BY <1>2, <1>4, <1>11, <1>12 DEF BrokeAt
<1>15. QED BY <1>13, <1>14

(* What the fsds describe is in the files. *)
Filling == Phase \in {"parse", "write"}

(* InStore is kept when each fsd is as it was or describes lines that are  *)
(* in its file.                                                            *)
LEMMA StoreStep ==
  ASSUME InStore, chg \in Seq(Line), chg' \in Seq(Line), Len(chg') >= Len(chg), fsd \in [Fsd -> Fsds],
         \A d \in Fsd : fsd'[d].fsdfile # NoFile =>
           \/ fsd'[d] = fsd[d] /\ (Filling => d \notin Elems(call.new))
           \/ fsd'[d] = fsd[d] /\ Filling' /\ (d \in Elems(call.new) => d \in Elems(call'.new))
           \/ Within1(d)'
           \/ d \in Elems(call'.new) /\ Filling'
  PROVE  InStore'
<1>1. SUFFICES ASSUME NEW d \in Fsd, fsd'[d].fsdfile # NoFile
               PROVE  Within1(d)' \/ (d \in Elems(call'.new) /\ Filling')
  BY DEF InStore, Filling
<1>2. ASSUME fsd'[d] = fsd[d], Within1(d) PROVE Within1(d)'
  <2>1. Len(chg) \in Nat /\ Len(chg') \in Nat /\ fsd[d] \in Fsds
    OBVIOUS
  <2>2. fsd[d].fsdpos \in Nat /\ fsd[d].fsdnlines \in Nat
    BY <2>1 DEF Fsds
  <2>3. CASE fsd[d].fsdfile = Chg
    <3>1. fsd[d].fsdpos + fsd[d].fsdnlines <= Len(chg)
      BY <1>2, <2>3 DEF Within1, Store
    <3>2. fsd[d].fsdpos + fsd[d].fsdnlines <= Len(chg')
      BY <3>1, <2>1, <2>2
    <3>3. QED BY <3>2, <1>2, <2>3 DEF Within1, Store
  <2>4. CASE fsd[d].fsdfile # Chg
    BY <1>2, <2>4 DEF Within1, Store
  <2>5. QED BY <2>3, <2>4
<1>3. fsd'[d] = fsd[d] => Within1(d) \/ (d \in Elems(call.new) /\ Filling)
  BY <1>1 DEF InStore, Filling
<1>4. QED BY <1>1, <1>2, <1>3

(* InStore is kept when no fsd and no line changes.                        *)
LEMMA StoreKept ==
  ASSUME TypeOK, InStore, fsd' = fsd, chg' = chg, ~ Filling
  PROVE  InStore'
<1>1. chg \in Seq(Line) /\ fsd \in [Fsd -> Fsds] /\ Len(chg) \in Nat
  BY DEF TypeOK
<1>2. QED BY <1>1, StoreStep

(* la_break keeps InStore.                                                 *)
LEMMA BreakStore ==
  ASSUME TypeOK, Books, InStore, NEW x, BreakArgs(x), BreakAt(x), chg' = chg, ~ Filling
  PROVE  InStore'
<1>0. VarTypes
  BY TypesAre
<1>1. PICK f, ds, i, d, k, w, e : BreakDoes(x, f, ds, i, d, k, w, e)
  BY BreakDoesIs
<1>2. d \in Fsd /\ e \in Fsd /\ w = fsd[d].fsdnlines /\ k \in Nat /\ w \in Nat /\ 0 < k /\ k < w /\ d # e /\ fsd[d].fsdfile \in Files
  BY <1>1 DEF BreakDoes
<1>3. /\ fsd'[d] = [fsdfile |-> fsd[d].fsdfile, fsdpos |-> fsd[d].fsdpos, fsdnlines |-> k]
      /\ fsd'[e] = [fsdfile |-> fsd[d].fsdfile, fsdpos |-> fsd[d].fsdpos + k, fsdnlines |-> w - k]
      /\ \A z \in Fsd : z # d /\ z # e => fsd'[z] = fsd[z]
  BY <1>1 DEF BreakDoes
<1>4. chg \in Seq(Line) /\ fsd \in [Fsd -> Fsds] /\ Len(chg) \in Nat
  BY DEF TypeOK
<1>5. Within1(d) /\ fsd[d].fsdpos \in Nat
  <2>1. fsd[d].fsdfile # NoFile
    BY <1>2, FilesAre
  <2>2. QED BY <2>1, <1>2, <1>4 DEF InStore, Filling, Fsds
<1> DEFINE p == fsd[d].fsdpos
           l == Len(Store(fsd[d].fsdfile))
<1>6. l \in Nat
  <2>1. CASE fsd[d].fsdfile = Chg
    BY <2>1, <1>4 DEF Store
  <2>2. CASE fsd[d].fsdfile # Chg
    <3>1. fsd[d].fsdfile \in File
      BY <2>2, <1>2 DEF Files
    <3>2. DiskText[fsd[d].fsdfile] \in Seq(Line)
      BY <3>1, TextAssumption
    <3>3. QED BY <3>2, <2>2 DEF Store
  <2>3. QED BY <2>1, <2>2
<1>7. p + w <= l
  BY <1>5, <1>2 DEF Within1
<1>8. Store(fsd[d].fsdfile)' = Store(fsd'[d].fsdfile) /\ fsd'[d].fsdfile = fsd[d].fsdfile /\ fsd'[e].fsdfile = fsd[d].fsdfile
  BY <1>3 DEF Store
<1>9. fsd'[d].fsdpos = p /\ fsd'[d].fsdnlines = k /\ fsd'[e].fsdpos = p + k /\ fsd'[e].fsdnlines = w - k
  BY <1>3
<1>10. Within1(d)' <=> fsd'[d].fsdpos + fsd'[d].fsdnlines <= l
  BY <1>8 DEF Within1, Store
<1>11. Within1(e)' <=> fsd'[e].fsdpos + fsd'[e].fsdnlines <= l
  BY <1>8 DEF Within1, Store
<1>12. p \in Nat
  BY <1>5
<1> HIDE DEF p, l
<1>13. p + k <= l /\ (p + k) + (w - k) <= l
  BY <1>2, <1>6, <1>7, <1>12
<1>14. Within1(d)' /\ Within1(e)'
  BY <1>9, <1>10, <1>11, <1>13
<1>15. \A z \in Fsd : fsd'[z] = fsd[z] \/ Within1(z)'
  BY <1>3, <1>14
<1>16. QED BY <1>4, <1>15, StoreStep

(* How many lines there are in a file of the system is a natural number.   *)
LEMMA StoreLen == ASSUME TypeOK, NEW g \in Files PROVE Len(Store(g)) \in Nat
<1>1. chg \in Seq(Line)
  BY DEF TypeOK
<1>2. CASE g = Chg
  BY <1>1, <1>2 DEF Store
<1>3. CASE g # Chg
  <2>1. DiskText[g] \in Seq(Line)
    BY <1>3, TextAssumption DEF Files
  <2>2. QED BY <2>1, <1>3 DEF Store
<1>4. QED BY <1>2, <1>3

(* Making an fsd for lines that are there keeps InStore.                   *)
LEMMA MakeStore ==
  ASSUME TypeOK, Books, InStore, NEW g, NEW p, NEW n, MakeArgs(g, p, n), Made(g, p, n), chg' = chg, ~ Filling,
         p + n <= Len(Store(g))
  PROVE  InStore'
<1>1. MadeFacts(g, p, n)
  BY MadeHas
<1>2. Fresh \in Fsd /\ fsd'[Fresh] = [fsdfile |-> g, fsdpos |-> p, fsdnlines |-> n] /\ \A z \in Fsd : z # Fresh => fsd'[z] = fsd[z]
  BY <1>1 DEF MadeFacts
<1>3. chg \in Seq(Line) /\ fsd \in [Fsd -> Fsds] /\ Len(chg) \in Nat
  BY DEF TypeOK
<1>4. PICK e : e = Fresh
  OBVIOUS
<1>5. fsd'[e].fsdfile = g /\ fsd'[e].fsdpos = p /\ fsd'[e].fsdnlines = n
  BY <1>2, <1>4
<1>6. Store(g)' = Store(g)
  BY DEF Store
<1>7. Within1(e)'
  BY <1>5, <1>6 DEF Within1, Store
<1>8. \A z \in Fsd : fsd'[z] = fsd[z] \/ Within1(z)'
  BY <1>2, <1>4, <1>7
<1>9. QED BY <1>3, <1>8, StoreStep

-----------------------------------------------------------------------------
(* Failing.                                                                *)

(* What the invariant consists of.                                         *)
LEMMA InvParts ==
  ASSUME IInv
  PROVE  /\ TypeOK /\ Books /\ InStore /\ Collected /\ Script /\ Who /\ Stage /\ NeverAbort /\ VarTypes /\ call \in Calls
         /\ chg \in Seq(Line) /\ coll \in [on : BOOLEAN, chgpos : Nat, nxchgpos : Nat]
<1>1. TypeOK
  BY DEF IInv, Base
<1>2. QED BY <1>1 DEF IInv, Base, TypeOK, VarTypes

CollType == coll \in [on : BOOLEAN, chgpos : Nat, nxchgpos : Nat]
Others == VarTypes /\ chg \in Seq(Line) /\ CollType

(* The variables and the call have their types, and so TypeOK.             *)
LEMMA NowTyped ==
  ASSUME Others', call' \in Calls
  PROVE  TypeOK'
BY DEF Others, TypeOK, VarTypes, CollType

(* What a collection that is over looks like.                              *)
LEMMA DormantIs == Dormant.on = FALSE /\ Dormant \in [on : BOOLEAN, chgpos : Nat, nxchgpos : Nat]
BY DEF Dormant

(* The invariant, after a step that ends an operation.                     *)
LEMMA OverNext ==
  ASSUME Books', Others', InStore', Collected', Over', call' \in Calls
  PROVE  IInv'
<1>1. (Script /\ Who /\ Stage /\ NeverAbort)'
  BY OverIs, PTL
<1>2. TypeOK'
  BY NowTyped
<1>3. QED BY <1>1, <1>2 DEF IInv, Base

(* An operation is at its end when there is nothing left to do.            *)
LEMMA NoPhase == Phase = "end" <=> (call.todo = << >> \/ Head(call.todo) = "end")
BY DEF Phase

(* An operation is undone. *)
LEMMA UndoIs ==
  /\ Undo \in Seq(Steps) /\ Undo # << >> /\ Len(Undo) = 5 /\ Head(Undo) = "back"
  /\ Undo[1] = "back" /\ Undo[2] = "break" /\ Undo[3] = "bend" /\ Undo[4] = "unlink" /\ Undo[5] = "place"
BY DEF Undo, Steps

(* Undoing is a script of its own.                                         *)
LEMMA UndoScript ==
  ASSUME call.todo = Undo, call.bad = TRUE, call.op \in {"replace", "blank"}
  PROVE  Script /\ Phase = "back" /\ ~ ToDelete
<1>1. Cuts
  BY DEF Cuts
<1>2. Leads("back", "break") /\ Leads("break", "bend") /\ Leads("bend", "unlink") /\ Leads("unlink", "place") /\ Leads("place", "end")
  BY <1>1 DEF Leads
<1>3. \A i \in 1 .. 5 : i = 1 \/ i = 2 \/ i = 3 \/ i = 4 \/ i = 5
  OBVIOUS
<1>4. ASSUME NEW i \in 1 .. 5 PROVE Leads(Undo[i], IF i < 5 THEN Undo[i + 1] ELSE "end")
  BY <1>2, <1>3, UndoIs
<1>5. Script
  BY <1>4, UndoIs DEF Script
<1>6. Phase = "back"
  BY UndoIs DEF Phase
<1>7. \A i \in 1 .. 5 : Undo[i] # "del"
  BY <1>3, UndoIs
<1>8. QED BY <1>5, <1>6, <1>7, UndoIs DEF ToDelete

WasSet == [text : [File -> Seq(Line)], las : [Stream -> [la_file : Files \cup {NoFile},
            la_lpos : Nat, la_rlines : Nat, la_stay : BOOLEAN]],
          ask : Asks] \cup {None}

(* What callers saw has a type.                                            *)
LEMMA WasIs == ASSUME call \in Calls PROVE call.was \in WasSet
BY DEF Calls, WasSet

(* What the undoing of an operation takes over from it. *)
Undone == /\ call' \in Calls /\ call'.op = call.op /\ call'.todo = Undo /\ call'.n = call.cnt
          /\ call'.p = (IF call.op = "blank" THEN call.d ELSE call.p) /\ call'.d = None
          /\ call'.cnt = call.cnt /\ call'.bad = TRUE /\ call'.ret = "ok"
          /\ call'.new = << >> /\ call'.tail = << >> /\ call'.cut = << >>

(* What the call is when an operation is to be undone.                     *)
LEMMA UndoneIs ==
  ASSUME call \in Calls, Fail, call.cnt # 0, call.op = "blank" => call.d \in Stream
  PROVE  Undone
<1> DEFINE q == IF call.op = "blank" THEN call.d ELSE call.p
           e == Ended("ok")
<1>1. call' = [e EXCEPT !.op = call.op, !.todo = Undo, !.n = call.cnt, !.p = q, !.cnt = call.cnt, !.bad = TRUE, !.was = call.was]
  BY DEF Fail
<1>2. e \in Calls /\ e.new = << >> /\ e.tail = << >> /\ e.cut = << >> /\ e.ret = "ok" /\ e.d = None
  BY EndedIs
<1>3. q \in Streams \cup {None} /\ call.op \in Ops /\ call.cnt \in Nat /\ call.was \in WasSet /\ Undo \in Seq(Steps)
  BY CallIs, WasIs, UndoIs DEF Streams
<1> HIDE DEF e, q
<1>4. call' \in Calls
  BY <1>1, <1>2, <1>3, ZenonT(45) DEF Calls, WasSet
<1>5. /\ call'.op = call.op /\ call'.todo = Undo /\ call'.n = call.cnt /\ call'.p = q /\ call'.d = None
      /\ call'.cnt = call.cnt /\ call'.bad = TRUE /\ call'.ret = "ok"
      /\ call'.new = << >> /\ call'.tail = << >> /\ call'.cut = << >>
  BY <1>1, <1>2 DEF Calls
<1>6. QED BY <1>4, <1>5 DEF Undone, q

(* What has to be so when an operation fails. *)
MayFail ==
  /\ call.tail = << >> /\ call.cut = << >>
  /\ call.cnt > 0 => /\ call.op \in {"replace", "blank"} /\ ~ call.bad
                     /\ Cleft(IF call.op = "blank" THEN call.d ELSE call.p, call.cnt)

(* The invariant is kept by a failure: what was made is freed, and what    *)
(* was linked in is still between two ends of fsds and can be deleted.     *)
LEMMA FailNext ==
  ASSUME IInv, Fail, MayFail, coll' = coll \/ coll' = Dormant
  PROVE  IInv'
<1>0. /\ TypeOK /\ Books /\ InStore /\ Collected /\ Script /\ Who /\ Stage /\ NeverAbort /\ VarTypes /\ call \in Calls
      /\ chg \in Seq(Line) /\ CollType
  BY InvParts DEF CollType
<1>1. FreeChain(call.new) /\ chain' = chain /\ las' = las /\ chg' = chg
  BY DEF Fail
<1>2. call.cnt \in Nat /\ call.new \in Seq(Fsd)
  BY <1>0, CallIs
<1>20. PICK q : q = IF call.op = "blank" THEN call.d ELSE call.p
  OBVIOUS
<1>3. ASSUME call.cnt > 0
      PROVE  q \in Stream /\ q \in Streams /\ Open(q) /\ Cleft(q, call.cnt) /\ call.op \in {"replace", "blank"} /\ ~ call.bad
  <2>1. Cleft(q, call.cnt) /\ call.op \in {"replace", "blank"} /\ ~ call.bad
    BY <1>3, <1>20 DEF MayFail
  <2>2. call.op = "blank" => call.d # None
    BY <1>0, <2>1 DEF Who, Copying
  <2>3. q \in Stream /\ Open(q)
    BY <1>0, <1>20, <2>1, <2>2 DEF Who
  <2>4. QED BY <2>1, <2>3 DEF Streams
<1>4. call' \in Calls /\ call'.new = << >> /\ call'.tail = << >> /\ call'.cut = << >>
  <2>1. CASE call.cnt = 0
    <3>1. call' = Ended("err")
      BY <2>1 DEF Fail
    <3>2. QED BY <3>1, <1>0, EndedIs
  <2>2. CASE call.cnt # 0
    <3>1. call.op = "blank" => call.d \in Stream
      BY <2>2, <1>2, <1>3, <1>20
    <3>2. Undone
      BY <2>2, <3>1, <1>0, UndoneIs
    <3>3. QED BY <3>2 DEF Undone
  <2>3. QED BY <2>1, <2>2
<1>5. FreeArgs(<< 1, NoFile >>)
  <2>1. Lists[<< 1, NoFile >>] = call.new
    BY ListsNow
  <2>2. << 1, NoFile >> \in CallSpots /\ call.tail = << >> /\ call.cut = << >>
    BY DEF CallSpots, MayFail
  <2>3. \A k \in CallSpots : Lists'[k] = IF k = << 1, NoFile >> THEN << >> ELSE Lists[k]
    <3>1. /\ Lists'[<< 1, NoFile >>] = << >> /\ Lists'[<< 2, NoFile >>] = << >> /\ Lists'[<< 3, NoFile >>] = << >>
      BY <1>4, ListsThen
    <3>2. Lists[<< 2, NoFile >>] = << >> /\ Lists[<< 3, NoFile >>] = << >>
      BY <2>2, ListsNow
    <3>3. QED BY <3>1, <3>2 DEF CallSpots
  <2>4. QED BY <2>1, <2>2, <2>3, <1>1 DEF FreeArgs
<1>6. Books' /\ VarTypes' /\ Kept
  BY <1>0, <1>5, FreeBooks
<1>7. InStore'
  <2>1. \A d \in Fsd : fsd'[d].fsdfile # NoFile => fsd'[d] = fsd[d] /\ d \notin Elems(call.new)
    <3>1. SUFFICES ASSUME NEW d \in Fsd, fsd'[d].fsdfile # NoFile PROVE fsd'[d] = fsd[d] /\ d \notin Elems(call.new)
      OBVIOUS
    <3>2. FreeFsd.fsdfile = NoFile
      BY DEF FreeFsd
    <3>3. ~ \E i \in DOMAIN call.new : call.new[i] = d
      BY <3>1, <3>2, <1>1 DEF FreeChain
    <3>4. d \notin Elems(call.new)
      BY <3>3, <1>2 DEF Elems
    <3>5. QED BY <3>3, <3>4, <1>1 DEF FreeChain
  <2>2. chg' \in Seq(Line) /\ Len(chg') >= Len(chg) /\ fsd \in [Fsd -> Fsds]
    <3>1. Len(chg) \in Nat
      BY <1>0
    <3>2. QED BY <3>1, <1>0, <1>1 DEF VarTypes
  <2>3. QED BY <2>1, <2>2, <1>0, StoreStep
<1>8. Collected'
  <2>1. CASE coll' = coll
    BY <2>1, <1>0, <1>1 DEF Collected
  <2>2. CASE coll' = Dormant
    BY <2>2, DormantIs DEF Collected
  <2>3. QED BY <2>1, <2>2
<1>9. Others'
  BY <1>0, <1>1, <1>6, DormantIs DEF Others, CollType
<1>10. CASE call.cnt = 0
  <2>1. call' = Ended("err")
    BY <1>10 DEF Fail
  <2>2. Over'
    BY <2>1, <1>0, EndedIs DEF Over, Nothing, Loose
  <2>3. QED BY <2>2, <1>4, <1>6, <1>7, <1>8, <1>9, OverNext
<1>11. CASE call.cnt # 0
  <2>0. q \in Stream /\ q \in Streams /\ Open(q) /\ Cleft(q, call.cnt) /\ call.op \in {"replace", "blank"} /\ ~ call.bad
    BY <1>11, <1>2, <1>3
  <2>1. Undone
    <3>1. call.op = "blank" => call.d \in Stream
      BY <2>0, <1>20
    <3>2. QED BY <3>1, <1>11, <1>0, UndoneIs
  <2>2. /\ call'.op = call.op /\ call'.todo = Undo /\ call'.n = call.cnt /\ call'.p = q /\ call'.d = None
        /\ call'.cnt = call.cnt /\ call'.bad = TRUE /\ call'.ret = "ok"
    BY <2>1, <1>20 DEF Undone
  <2>3. (Script /\ Phase = "back" /\ ~ ToDelete)'
    <3>1. (call.todo = Undo /\ call.bad = TRUE /\ call.op \in {"replace", "blank"})'
      BY <2>0, <2>2
    <3>2. QED BY <3>1, UndoScript, PTL
  <2>4. Open(q)' /\ Cleft(q, call.cnt)'
    <3>1. Open(q)' /\ \A n \in Nat : Cleft(q, n) => Cleft(q, n)'
      BY <2>0, <1>0, <1>6, KeptEdges
    <3>2. PICK n \in Nat : n = call.cnt
      BY <1>2
    <3>3. Cleft(q, n)'
      BY <3>1, <3>2, <2>0
    <3>4. n = call'.cnt
      BY <3>2, <2>2
    <3>5. QED BY <3>1, <3>3, <3>4
  <2>5. Who'
    <3>1. Open(call.p)' /\ call'.p \in Stream
      BY <2>0, <2>2, <2>4
    <3>2. ~ Copying' /\ call'.n > 0
      BY <2>2, <1>11, <1>2 DEF Copying
    <3>3. QED BY <3>1, <3>2, <2>0, <2>2 DEF Who
  <2>6. Stage'
    <3>1. InBack'
      <4>1. Nothing'
        BY <1>4 DEF Nothing, Loose
      <4>2. Cleft(call.p, call.cnt)'
        BY <2>4, <2>2
      <4>3. QED BY <4>1, <4>2, <2>2, <1>11, <1>2 DEF InBack
    <3>2. QED BY <3>1, <2>3 DEF Stage
  <2>7. TypeOK'
    BY <1>9, <1>4, NowTyped
  <2>8. QED BY <2>2, <2>3, <2>5, <2>6, <2>7, <1>6, <1>7, <1>8 DEF IInv, Base, NeverAbort
<1>12. QED BY <1>10, <1>11

-----------------------------------------------------------------------------
(* Going on.                                                               *)

(* An operation goes on to its next step. *)
Going == call' \in Calls /\ Script' /\ Who' /\ Stage' /\ call'.ret = call.ret

(* The invariant, after a step of an operation that goes on.               *)
LEMMA StepNext ==
  ASSUME NeverAbort, Books', VarTypes', InStore', Collected', Going, chg' \in Seq(Line), CollType'
  PROVE  IInv'
<1>1. Others'
  BY DEF Others
<1>2. TypeOK'
  BY <1>1, NowTyped DEF Going
<1>3. QED BY <1>2 DEF IInv, Base, Going, NeverAbort

(* The steps of the call are one fewer, and nothing else changes in it. *)
Advanced ==
  /\ call' \in Calls /\ call'.todo = Tail(call.todo) /\ call'.op = call.op /\ call'.p = call.p /\ call'.d = call.d
  /\ call'.n = call.n /\ call'.own = call.own /\ call'.pos = call.pos /\ call'.left = call.left /\ call'.new = call.new
  /\ call'.tail = call.tail /\ call'.cut = call.cut /\ call'.cfsd = call.cfsd /\ call'.text = call.text
  /\ call'.blank = call.blank /\ call'.cnt = call.cnt /\ call'.bad = call.bad /\ call'.ret = call.ret

(* The call after a step, when nothing else of it changes.                 *)
LEMMA DoneIs ==
  ASSUME call \in Calls, call.todo # << >>
  PROVE  /\ Done \in Calls /\ Done.todo = Tail(call.todo) /\ Done.op = call.op /\ Done.p = call.p /\ Done.d = call.d
         /\ Done.n = call.n /\ Done.own = call.own /\ Done.pos = call.pos /\ Done.left = call.left /\ Done.new = call.new
         /\ Done.tail = call.tail /\ Done.cut = call.cut /\ Done.cfsd = call.cfsd /\ Done.text = call.text
         /\ Done.blank = call.blank /\ Done.cnt = call.cnt /\ Done.bad = call.bad /\ Done.ret = call.ret
         /\ Done.sure = call.sure
<1>1. call.todo \in Seq(Steps)
  BY CallIs
<1>2. Tail(call.todo) \in Seq(Steps)
  BY <1>1, TailIs
<1>3. PICK t \in Seq(Steps) : t = Tail(call.todo)
  BY <1>2
<1>4. Done = [call EXCEPT !.todo = t]
  BY <1>3 DEF Done
<1>5. Done.todo = t
  BY <1>4 DEF Calls
<1>6. QED BY <1>3, <1>4, <1>5, ZenonT(45) DEF Calls

(* The operation goes on to its next step.                                 *)
LEMMA AdvancedIs ==
  ASSUME IInv, NEW st, Do(st), call' = Done
  PROVE  Advanced /\ Script' /\ Phase = st /\ Leads(st, Phase') /\ (ToDelete' => ToDelete) /\ SameLists
<1>1. call \in Calls /\ Script
  BY InvParts
<1>2. call.todo # << >> /\ Head(call.todo) = st
  BY DEF Do
<1>3. Advanced
  BY <1>1, <1>2, DoneIs DEF Advanced
<1>4. Onwards
  BY <1>2, <1>3 DEF Advanced, Onwards
<1>5. QED BY <1>1, <1>2, <1>3, <1>4, Onward DEF Advanced, SameLists

(* la_zbreak at a stream, or the break at the current place of la_ldelete. *)
Zed(s) == s \in Stream /\ Open(s) /\ (IF Broken(las[s]) THEN NoBreak ELSE BreakAt(las[s])) /\ SameLists /\ chg' = chg
Zedded(s) ==
  /\ Books' /\ VarTypes' /\ Kept /\ InStore' /\ Edged(s)'
  /\ Broken(las[s]) => las' = las
  /\ ~ Broken(las[s]) => \A t \in Streams : las[t].la_cfsd # las[s].la_cfsd => las'[t] = las[t]

(* What la_zbreak at a stream does: the stream is at an end of an fsd,     *)
(* whether a break was needed or not.                                      *)
LEMMA ZedIs ==
  ASSUME IInv, NEW s, Zed(s), ~ Filling
  PROVE  Zedded(s)
<1>0. TypeOK /\ Books /\ InStore
  BY InvParts
<1>1. s \in Stream /\ s \in Streams /\ Open(s) /\ chg' = chg /\ SameLists
  BY DEF Zed, Streams
<1>2. las[s].la_file \in Files /\ PlaceFacts(fsd, chain[las[s].la_file], las[s]) /\ las[s] \in LaStreams
      /\ InChain(fsd, chain[las[s].la_file], las[s]) /\ las[s].la_file \in File
  BY <1>0, <1>1, StreamHas, StreamIs, OpenIs
<1>3. CASE Broken(las[s])
  <2>1. NoBreak
    BY <1>3 DEF Zed
  <2>2. Idly
    BY <2>1 DEF NoBreak, Idly
  <2>3. Books' /\ VarTypes' /\ Kept
    BY <2>2, <1>0, <1>1, SameBooks
  <2>4. InStore'
    BY <2>2, <1>0, <1>1, StoreKept DEF Idly
  <2>5. Edged(s)
    BY <1>2, <1>3 DEF PlaceFacts, Edged, Edge
  <2>6. Edged(s)'
    BY <2>3, <2>5, <1>0, <1>1, KeptEdges
  <2>7. QED BY <2>2, <2>3, <2>4, <2>6, <1>3 DEF Zedded, Idly
<1>4. CASE ~ Broken(las[s])
  <2>1. BreakAt(las[s])
    BY <1>4 DEF Zed
  <2>2. PICK x : x = las[s]
    OBVIOUS
  <2>3. BreakArgs(x) /\ BreakAt(x)
    BY <2>1, <2>2, <1>2, <1>4 DEF BreakArgs
  <2>4. Books' /\ VarTypes' /\ Kept
    BY <2>3, <1>0, <1>1, BreakBooks
  <2>5. InStore'
    BY <2>3, <1>0, <1>1, BreakStore
  <2>6. BrokeAt(x.la_file, x.la_lpos) /\ \A t \in Streams : las[t].la_cfsd # x.la_cfsd => las'[t] = las[t]
    BY <2>3, <1>0, BreakMore
  <2>7. las'[s].la_file = x.la_file /\ las'[s].la_lpos = x.la_lpos
    BY <2>2, <2>4, <1>1 DEF Kept
  <2>8. Edged(s)'
    BY <2>6, <2>7 DEF BrokeAt, Edged, Edge
  <2>9. QED BY <2>2, <2>4, <2>5, <2>6, <2>8, <1>4 DEF Zedded
<1>5. QED BY <1>3, <1>4

(* Where the streams of an operation are open. *)
LEMMA Actors ==
  ASSUME IInv, call.op \notin {"none", "open"}
  PROVE  /\ call.p \in Streams /\ Open(call.p) /\ (call.op # "blank" \/ call.bad => call.p \in Stream)
         /\ call.op = "blank" /\ ~ call.bad => call.p = Blas
         /\ call.d # None => call.d \in Stream /\ call.d \in Streams /\ Open(call.d)
         /\ Copying => call.d # None
         /\ call.bad => call.d = None
<1>1. Who
  BY InvParts
<1>2. Blas \in Streams /\ \A s \in Stream : s \in Streams
  BY DEF Streams
<1>3. QED BY <1>1, <1>2 DEF Who

(* What is known of a collection is kept as long as it and the change file *)
(* are left alone.                                                         *)
LEMMA CollSame ==
  ASSUME Collected, CollType, chg' = chg, coll' = coll
  PROVE  Collected' /\ CollType'
BY DEF Collected, CollType

-----------------------------------------------------------------------------
(* The steps of breaking.                                                  *)

(* Breaking where lines are to go keeps the invariant.                     *)
LEMMA ZpNext ==
  ASSUME IInv, NEW s \in Stream, call.p = s, ZBreak("zp", s)
  PROVE  IInv'
<1>0. /\ TypeOK /\ Books /\ InStore /\ Collected /\ Script /\ Who /\ Stage /\ NeverAbort /\ VarTypes /\ call \in Calls
      /\ chg \in Seq(Line) /\ CollType
  BY InvParts DEF CollType
<1>1. Do("zp") /\ call' = Done /\ chg' = chg /\ coll' = coll
  BY DEF ZBreak
<1>2. Advanced /\ Script' /\ Phase = "zp" /\ Leads("zp", Phase') /\ (ToDelete' => ToDelete) /\ SameLists
  BY <1>1, AdvancedIs
<1>3. call.op \in {"insert", "replace", "collect"} /\ ~ call.bad /\ Phase' = "parse"
  BY <1>2 DEF Leads
<1>4. s \in Streams /\ Open(s)
  BY <1>3, Actors
<1>5. Zed(s)
  BY <1>1, <1>2, <1>4 DEF ZBreak, Zed
<1>6. Zedded(s)
  BY <1>2, <1>5, ZedIs DEF Filling
<1>7. Books' /\ VarTypes' /\ Kept /\ InStore' /\ Edged(s)'
  BY <1>6 DEF Zedded
<1>8. InZp
  BY <1>0, <1>2 DEF Stage
<1>9. WhoKept
  BY <1>2, <1>7 DEF WhoKept, Kept, Advanced
<1>10. InParse'
  <2>1. Edged(call.p)'
    BY <1>2, <1>7 DEF Advanced
  <2>2. Loose' /\ call'.new = << >>
    BY <1>2, <1>8 DEF Advanced, InZp, Nothing, Loose
  <2>3. Parsed'
    BY <2>2, NoElems DEF Parsed
  <2>4. Limit' = Limit
    BY <1>1, <1>2 DEF Advanced, Limit
  <2>5. (call.pos + call.left = Limit)'
    BY <2>4, <1>2, <1>8 DEF Advanced, InZp
  <2>6. Asked'
    BY <1>1, <1>2, <1>8 DEF Advanced, InZp, Asked
  <2>7. call'.op # "open" /\ call'.left > 0
    BY <1>2, <1>3, <1>8 DEF Advanced, InZp
  <2>8. QED BY <2>1, <2>2, <2>3, <2>5, <2>6, <2>7 DEF InParse
<1>11. Who'
  BY <1>0, <1>9, WhoFrame
<1>12. Stage'
  BY <1>3, <1>10 DEF Stage
<1>13. Going
  BY <1>2, <1>11, <1>12 DEF Going, Advanced
<1>14. Collected' /\ CollType' /\ chg' \in Seq(Line)
  BY <1>0, <1>1, CollSame
<1>15. QED BY <1>0, <1>7, <1>13, <1>14, StepNext

(* What the deletion still has before it. *)
LEMMA DelKept ==
  ASSUME IInv, Kept, call.op # "none", call.op # "open", ~ Copying,
         call'.p = call.p, call'.op = call.op, call'.bad = call.bad, call'.cnt = call.cnt, call'.n = call.n,
         call'.new = call.new, call'.tail = call.tail, call'.cut = call.cut, InDel
  PROVE  InDel' /\ (Before1 => Before1')
<1>1. TypeOK /\ Books /\ call \in Calls
  BY InvParts
<1>2. PICK p \in Streams : p = call.p
  BY Actors
<1>3. Open(p)
  BY <1>2, Actors
<1>4. /\ Open(p)' /\ (Edged(p) => Edged(p)')
      /\ \A n \in Nat : Cleft(p, n) => Cleft(p, n)'
      /\ las'[p].la_lpos = las[p].la_lpos
      /\ laf'[las'[p].la_file].la_nlines = laf[las[p].la_file].la_nlines
  BY <1>1, <1>2, <1>3, KeptEdges
<1>5. Before1 => Before1'
  BY <1>2, <1>4 DEF Before1, X
<1>6. call.cnt \in Nat
  BY <1>1, CallIs
<1>7. PICK c \in Nat : c = call.cnt
  BY <1>6
<1>8. Cleft(p, c) => Cleft(p, c)'
  BY <1>4, <1>7
<1>9. (call.op = "collect" => Edged(call.p))'
  BY <1>2, <1>4 DEF InDel
<1>10. (call.op = "replace" /\ ~ call.bad => call.cnt > 0 /\ Cleft(call.p, call.cnt))'
  BY <1>2, <1>7, <1>8 DEF InDel
<1>11. (Loose /\ Keeping /\ call.n > 0)'
  BY DEF InDel, Loose, Keeping
<1>12. QED BY <1>5, <1>9, <1>10, <1>11 DEF InDel

(* Breaking where deleted or copied lines are to go keeps the invariant.   *)
LEMMA ZdNext ==
  ASSUME IInv, NEW s \in Stream, call.d = s, ZBreak("zd", s)
  PROVE  IInv'
<1>0. /\ TypeOK /\ Books /\ InStore /\ Collected /\ Script /\ Who /\ Stage /\ NeverAbort /\ VarTypes /\ call \in Calls
      /\ chg \in Seq(Line) /\ CollType
  BY InvParts DEF CollType
<1>1. Do("zd") /\ call' = Done /\ chg' = chg /\ coll' = coll
  BY DEF ZBreak
<1>2. Advanced /\ Script' /\ Phase = "zd" /\ Leads("zd", Phase') /\ (ToDelete' => ToDelete) /\ SameLists
  BY <1>1, AdvancedIs
<1>3. \/ Cuts /\ ~ call.bad /\ Phase' = "break"
      \/ Copying /\ Phase' = "chead"
  BY <1>2 DEF Leads
<1>4. call.op \notin {"none", "open"} /\ s # None
  <2>1. call.op \notin {"none", "open"}
    BY <1>3, <1>0 DEF Cuts, Copying, Script
  <2>2. s # None
    BY NameAssumption
  <2>3. QED BY <2>1, <2>2
<1>5. s \in Streams /\ Open(s)
  BY <1>4, Actors
<1>6. Zed(s)
  BY <1>1, <1>2, <1>5 DEF ZBreak, Zed
<1>7. Zedded(s)
  BY <1>2, <1>6, ZedIs DEF Filling
<1>8. Books' /\ VarTypes' /\ Kept /\ InStore' /\ Edged(s)'
  BY <1>7 DEF Zedded
<1>9. WhoKept
  BY <1>2, <1>8 DEF WhoKept, Kept, Advanced
<1>10. Who'
  BY <1>0, <1>9, WhoFrame
<1>11. Edged(call.d)'
  BY <1>2, <1>8 DEF Advanced
<1>12. ASSUME Cuts /\ ~ call.bad /\ Phase' = "break" PROVE Stage'
  <2>1. ~ Copying
    BY <1>12 DEF Cuts, Copying
  <2>2. InDel /\ Before1
    BY <1>0, <1>2, <1>12 DEF Stage, InZd
  <2>3. InDel' /\ Before1'
    BY <2>1, <2>2, <1>2, <1>4, <1>8, DelKept DEF Advanced
  <2>4. InBreak'
    BY <2>3, <1>2, <1>11, <1>12 DEF InBreak, Apart1, Advanced
  <2>5. QED BY <2>4, <1>12 DEF Stage
<1>13. ASSUME Copying /\ Phase' = "chead" PROVE Stage'
  <2>1. Nothing /\ AtCopy /\ (~ Broken(las[s]) => las[s].la_cfsd # call.cfsd)
    BY <1>0, <1>2, <1>13 DEF Stage, InZdCopy
  <2>2. PICK p \in Streams : p = call.p
    BY <1>4, Actors
  <2>3. Open(p)
    BY <2>2, <1>4, Actors
  <2>4. /\ las'[p].la_lpos = las[p].la_lpos
        /\ laf'[las'[p].la_file].la_nlines = laf[las[p].la_file].la_nlines
    BY <2>3, <1>0, <1>8, KeptEdges
  <2>5. las'[p] = las[p]
    BY <2>1, <2>2, <1>7 DEF Zedded, AtCopy, X
  <2>6. (call.cfsd = X.la_cfsd)' /\ Before1'
    BY <2>1, <2>2, <2>4, <2>5, <1>2 DEF AtCopy, Before1, X, Advanced
  <2>7. Filled'
    <3>1. call.n > 0 /\ (call.op = "blank" => chain[Chg] # << >> /\ call.n <= LA_FSDLMAX /\ (call.cnt > 0 => Cleft(s, call.cnt)))
      BY <2>1 DEF AtCopy, Filled
    <3>2. Chg \in Files
      BY DEF Files
    <3>3. chain[Chg] # << >> => chain'[Chg] # << >>
      BY <3>2, <1>8 DEF Kept
    <3>4. \A n \in Nat : Cleft(s, n) => Cleft(s, n)'
      BY <1>0, <1>5, <1>8, KeptEdges
    <3>5. PICK c \in Nat : c = call.cnt
      BY <1>0, CallIs
    <3>6. (call.cnt > 0 => Cleft(s, call.cnt)) => (call.cnt > 0 => Cleft(call.d, call.cnt))'
      <4>1. Cleft(s, c) => Cleft(s, c)'
        BY <3>4
      <4>2. call'.d = s /\ call'.cnt = c
        BY <3>5, <1>2 DEF Advanced
      <4>3. QED BY <4>1, <4>2, <3>5
    <3>7. QED BY <3>1, <3>3, <3>6, <1>2 DEF Filled, Advanced
  <2>8. InChead'
    BY <2>1, <2>6, <2>7, <1>2, <1>11 DEF InChead, AtCopy, Nothing, Loose, Advanced
  <2>9. QED BY <2>8, <1>13 DEF Stage
<1>14. Stage'
  BY <1>3, <1>12, <1>13
<1>15. Going
  BY <1>2, <1>10, <1>14 DEF Going, Advanced
<1>16. Collected' /\ CollType' /\ chg' \in Seq(Line)
  BY <1>0, <1>1, CollSame
<1>17. QED BY <1>0, <1>8, <1>15, <1>16, StepNext

(* The first of the two breaks of a delete keeps the invariant.            *)
LEMMA BreakNext ==
  ASSUME IInv, Break
  PROVE  IInv'
<1>0. /\ TypeOK /\ Books /\ InStore /\ Collected /\ Script /\ Who /\ Stage /\ NeverAbort /\ VarTypes /\ call \in Calls
      /\ chg \in Seq(Line) /\ CollType
  BY InvParts DEF CollType
<1>1. /\ Do("break") /\ chg' = chg /\ coll' = coll
      /\ call' = [Done EXCEPT !.sure = Within(las[call.p], call.n)]
      /\ IF Broken(las[call.p]) THEN NoBreak ELSE BreakAt(las[call.p])
  BY DEF Break
<1>2. call.todo # << >> /\ Head(call.todo) = "break"
  BY <1>1 DEF Do
<1>3. Advanced /\ SameLists
  <2>1. /\ Done \in Calls /\ Done.todo = Tail(call.todo) /\ Done.op = call.op /\ Done.p = call.p /\ Done.d = call.d
         /\ Done.n = call.n /\ Done.own = call.own /\ Done.pos = call.pos /\ Done.left = call.left /\ Done.new = call.new
         /\ Done.tail = call.tail /\ Done.cut = call.cut /\ Done.cfsd = call.cfsd /\ Done.text = call.text
         /\ Done.blank = call.blank /\ Done.cnt = call.cnt /\ Done.bad = call.bad /\ Done.ret = call.ret
    BY <1>0, <1>2, DoneIs
  <2>2. Within(las[call.p], call.n) \in BOOLEAN
    BY DEF Within
  <2>3. PICK b \in BOOLEAN : b = Within(las[call.p], call.n)
    BY <2>2
  <2>4. PICK r : r = Done
    OBVIOUS
  <2>5. call' = [r EXCEPT !.sure = b] /\ r \in Calls
    BY <2>1, <2>3, <2>4, <1>1
  <2>6. /\ call' \in Calls /\ call'.todo = r.todo /\ call'.op = r.op /\ call'.p = r.p /\ call'.d = r.d
        /\ call'.n = r.n /\ call'.own = r.own /\ call'.pos = r.pos /\ call'.left = r.left /\ call'.new = r.new
        /\ call'.tail = r.tail /\ call'.cut = r.cut /\ call'.cfsd = r.cfsd /\ call'.text = r.text
        /\ call'.blank = r.blank /\ call'.cnt = r.cnt /\ call'.bad = r.bad /\ call'.ret = r.ret
    BY <2>5, ZenonT(45) DEF Calls
  <2>7. QED BY <2>1, <2>4, <2>6 DEF Advanced, SameLists
<1>4. Onwards
  BY <1>2, <1>3 DEF Onwards, Advanced
<1>5. Script' /\ Phase = "break" /\ Leads("break", Phase') /\ (ToDelete' => ToDelete)
  BY <1>0, <1>2, <1>4, Onward
<1>6. Cuts /\ Phase' = "bend"
  BY <1>5 DEF Leads
<1>7. call.op \notin {"none", "open"} /\ ~ Copying /\ (call.op = "blank" => call.bad)
  BY <1>6, <1>0 DEF Cuts, Copying, Script
<1>8. PICK s : s = call.p
  OBVIOUS
<1>9. s \in Stream /\ s \in Streams /\ Open(s)
  BY <1>7, <1>8, Actors
<1>10. Zed(s)
  BY <1>1, <1>3, <1>8, <1>9 DEF Zed
<1>11. Zedded(s)
  BY <1>5, <1>10, ZedIs DEF Filling
<1>12. Books' /\ VarTypes' /\ Kept /\ InStore' /\ Edged(s)'
  BY <1>11 DEF Zedded
<1>13. WhoKept
  BY <1>3, <1>5, <1>12 DEF WhoKept, Kept, Advanced
<1>14. Who'
  BY <1>0, <1>13, WhoFrame
<1>15. InBreak
  BY <1>0, <1>5 DEF Stage
<1>16. InDel' /\ Before1'
  BY <1>3, <1>7, <1>12, <1>15, DelKept DEF InBreak, Advanced
<1>17. Apart1'
  <2>1. SUFFICES ASSUME call.d # None PROVE Edged(call.d)'
    BY <1>3 DEF Apart1, Advanced
  <2>2. PICK d \in Streams : d = call.d
    BY <2>1, <1>7, Actors
  <2>3. Open(d) /\ Edged(d)
    BY <2>1, <2>2, <1>7, <1>15, Actors DEF InBreak, Apart1
  <2>4. Edged(d)'
    BY <2>3, <1>0, <1>12, KeptEdges
  <2>5. QED BY <2>2, <2>4, <1>3 DEF Advanced
<1>18. Edged(call.p)'
  BY <1>8, <1>12, <1>3 DEF Advanced
<1>19. (call.bad => Edged(call.p) /\ Edge(call.p, X.la_lpos + call.n))'
  <2>1. SUFFICES ASSUME call.bad PROVE Edge(call.p, X.la_lpos + call.n)'
    BY <1>18, <1>3 DEF Advanced
  <2>2. (\A n \in Nat : Edge(s, n) => Edge(s, n)') /\ las'[s].la_lpos = las[s].la_lpos /\ las[s].la_lpos \in Nat
    BY <1>0, <1>9, <1>12, KeptEdges
  <2>3. call.n \in Nat
    BY <1>0, CallIs
  <2>4. PICK q \in Nat : q = las[s].la_lpos + call.n
    BY <2>2, <2>3
  <2>5. Edge(s, q)
    BY <2>1, <2>4, <1>8, <1>15 DEF InBreak, X
  <2>6. Edge(s, q)'
    BY <2>2, <2>5
  <2>7. q = (X.la_lpos + call.n)' /\ s = call'.p
    BY <2>2, <2>4, <1>3, <1>8 DEF X, Advanced
  <2>8. QED BY <2>6, <2>7
<1>20. InBend'
  BY <1>16, <1>17, <1>18, <1>19 DEF InBend, InBreak
<1>21. Stage'
  BY <1>6, <1>20 DEF Stage
<1>22. Going
  BY <1>3, <1>5, <1>14, <1>21 DEF Going, Advanced
<1>23. Collected' /\ CollType' /\ chg' \in Seq(Line)
  BY <1>0, <1>1, CollSame
<1>24. QED BY <1>0, <1>12, <1>22, <1>23, StepNext

(* The end of the lines to be deleted or copied. *)
EndFacts(e) ==
  /\ e = End /\ e \in LaStreams /\ e.la_file = X.la_file /\ X.la_file \in Files
  /\ InChain(fsd, Ds, e) /\ PlaceFacts(fsd, Ds, e) /\ PlaceFacts(fsd, Ds, X) /\ Chained(fsd, Ds) /\ X \in LaStreams
  /\ InChain(fsd, Ds, X)
  /\ e.la_lpos = IF X.la_lpos + call.n >= laf[X.la_file].la_nlines THEN laf[X.la_file].la_nlines ELSE X.la_lpos + call.n
  /\ laf[X.la_file].la_nlines = Size(fsd, Ds)
  /\ X.la_lpos \in Nat /\ e.la_lpos \in Nat /\ e.la_lpos > X.la_lpos /\ Size(fsd, Ds) \in Nat

(* The end of the lines to be deleted or copied: a place in the chain,     *)
(* that many lines on or at the end of the file.                           *)
LEMMA EndIs ==
  ASSUME IInv, call.op \notin {"none", "open"}, Before1, call.n > 0
  PROVE  \E e : EndFacts(e)
<1>0. TypeOK /\ Books /\ VarTypes /\ call \in Calls
  BY InvParts
<1>1. call.p \in Streams /\ Open(call.p)
  BY Actors
<1>2. PICK p : p = call.p
  OBVIOUS
<1>3. /\ las[p].la_file \in Files /\ Chained(fsd, chain[las[p].la_file])
      /\ PlaceFacts(fsd, chain[las[p].la_file], las[p])
      /\ laf[las[p].la_file].la_nlines = Size(fsd, chain[las[p].la_file])
      /\ las[p] \in LaStreams /\ InChain(fsd, chain[las[p].la_file], las[p])
  BY <1>0, <1>1, <1>2, StreamHas, StreamIs
<1>4. call.n \in Nat /\ las[p].la_lpos \in Nat
  BY <1>0, <1>3, CallIs DEF PlaceFacts
<1>5. PICK n \in Nat : n = las[p].la_lpos + call.n
  BY <1>4
<1>6. PICK e : e = Seek(las[p], n)
  OBVIOUS
<1>7. Sought(las[p], e, n)
  BY <1>0, <1>1, <1>2, <1>5, <1>6, StreamSeek
<1>8. e = End
  BY <1>2, <1>5, <1>6 DEF End
<1>9. /\ e \in LaStreams /\ InChain(fsd, chain[las[p].la_file], e) /\ e.la_file = las[p].la_file
      /\ e.la_lpos = IF n <= 0 THEN 0 ELSE IF n >= laf[las[p].la_file].la_nlines THEN laf[las[p].la_file].la_nlines ELSE n
  BY <1>7 DEF Sought, SeekTo
<1>10. X = las[p] /\ Ds = chain[las[p].la_file]
  BY <1>2 DEF X, Ds
<1>11. PlaceFacts(fsd, chain[las[p].la_file], e)
  BY <1>3, <1>9, <1>0, PlaceHas DEF VarTypes
<1>12. Size(fsd, Ds) \in Nat
  BY <1>3, <1>10, <1>0, SizeNat DEF Chained, VarTypes
<1> DEFINE l == laf[X.la_file].la_nlines
           a == X.la_lpos
           b == e.la_lpos
<1>13. l \in Nat /\ a \in Nat /\ a < l /\ n = a + call.n /\ b = IF n <= 0 THEN 0 ELSE IF n >= l THEN l ELSE n
  BY <1>3, <1>4, <1>5, <1>9, <1>10, <1>12 DEF Before1
<1> HIDE DEF l, a, b
<1>14. b = (IF a + call.n >= l THEN l ELSE a + call.n) /\ b \in Nat /\ b > a
  BY <1>4, <1>13
<1>15. e.la_lpos = IF X.la_lpos + call.n >= laf[X.la_file].la_nlines THEN laf[X.la_file].la_nlines ELSE X.la_lpos + call.n
  BY <1>14 DEF a, b, l
<1>16. EndFacts(e)
  BY <1>3, <1>8, <1>9, <1>10, <1>11, <1>12, <1>13, <1>14, <1>15 DEF EndFacts, a, b
<1>17. QED BY <1>16

(* The second break of a delete keeps the invariant.                       *)
LEMMA BreakEndNext ==
  ASSUME IInv, BreakEnd
  PROVE  IInv'
<1>0. /\ TypeOK /\ Books /\ InStore /\ Collected /\ Script /\ Who /\ Stage /\ NeverAbort /\ VarTypes /\ call \in Calls
      /\ chg \in Seq(Line) /\ CollType
  BY InvParts DEF CollType
<1>1. /\ Do("bend") /\ chg' = chg /\ coll' = coll
      /\ call' = [Done EXCEPT !.n = End.la_lpos - las[call.p].la_lpos,
                              !.cfsd = IF Broken(End) THEN End.la_cfsd ELSE Fresh]
      /\ IF Broken(End) THEN NoBreak ELSE BreakAt(End)
  BY DEF BreakEnd
<1>2. call.todo # << >> /\ Head(call.todo) = "bend" /\ Phase = "bend"
  BY <1>1 DEF Do, Phase
<1>3. \E y : Leads("bend", y)
  <2>1. call.todo \in Seq(Steps)
    BY <1>0, CallIs
  <2>2. 1 \in 1 .. Len(call.todo) /\ call.todo[1] = "bend"
    BY <2>1, <1>2
  <2>3. QED BY <2>2, <1>0 DEF Script
<1>4. Cuts
  BY <1>3 DEF Leads
<1>5. call.op \notin {"none", "open"} /\ ~ Copying /\ (call.op = "blank" => call.bad)
  BY <1>4, <1>0 DEF Cuts, Copying, Script
<1>6. InBend
  BY <1>0, <1>2 DEF Stage
<1>7. InDel /\ Before1 /\ Apart1 /\ Edged(call.p) /\ call.n > 0
  BY <1>6 DEF InBend, InBreak, InDel
<1>8. PICK e : EndFacts(e)
  BY <1>5, <1>7, EndIs
<1>9. PICK p : p = call.p
  OBVIOUS
<1>10. p \in Stream /\ p \in Streams /\ Open(p) /\ las[p].la_file \in File /\ X = las[p] /\ Ds = chain[las[p].la_file]
  <2>1. p \in Stream /\ p \in Streams /\ Open(p)
    BY <1>5, <1>9, Actors
  <2>2. QED BY <2>1, <1>0, <1>9, OpenIs DEF X, Ds
<1> DEFINE n2 == e.la_lpos - X.la_lpos
           c2 == IF Broken(e) THEN e.la_cfsd ELSE Fresh
<1>11. n2 \in Nat /\ n2 > 0 /\ X.la_lpos + n2 = e.la_lpos /\ e = End
  BY <1>8 DEF EndFacts
<1>12. c2 \in Fsd \cup {Eof}
  <2>1. CASE Broken(e)
    BY <2>1, <1>8 DEF EndFacts, LaStreams
  <2>2. CASE ~ Broken(e)
    <3>1. Free # {}
      BY <2>2, <1>1, <1>11 DEF BreakAt
    <3>2. QED BY <2>2, <3>1, FreshIs
  <2>3. QED BY <2>1, <2>2
<1>13. PICK m : m = n2
  OBVIOUS
<1>14. PICK c : c = c2
  OBVIOUS
<1>15. /\ call' \in Calls /\ call'.todo = Tail(call.todo) /\ call'.op = call.op /\ call'.p = p /\ call'.d = call.d
       /\ call'.n = m /\ call'.cfsd = c /\ call'.new = call.new
       /\ call'.tail = call.tail /\ call'.cut = call.cut /\ call'.cnt = call.cnt /\ call'.bad = call.bad /\ call'.ret = call.ret
  <2>1. /\ Done \in Calls /\ Done.todo = Tail(call.todo) /\ Done.op = call.op /\ Done.p = call.p /\ Done.d = call.d
        /\ Done.new = call.new
         /\ Done.tail = call.tail /\ Done.cut = call.cut
         /\ Done.cnt = call.cnt /\ Done.bad = call.bad /\ Done.ret = call.ret
    BY <1>0, <1>2, DoneIs
  <2>2. PICK r : r = Done
    OBVIOUS
  <2>3. m \in Nat /\ c \in Fsd \cup {Eof} /\ call' = [r EXCEPT !.n = m, !.cfsd = c] /\ r \in Calls
    BY <2>1, <2>2, <1>1, <1>11, <1>12, <1>13, <1>14 DEF X
  <2>4. /\ call' \in Calls /\ call'.todo = r.todo /\ call'.op = r.op /\ call'.p = r.p /\ call'.d = r.d
        /\ call'.n = m /\ call'.cfsd = c /\ call'.new = r.new
        /\ call'.tail = r.tail /\ call'.cut = r.cut /\ call'.cnt = r.cnt /\ call'.bad = r.bad /\ call'.ret = r.ret
    BY <2>3, ZenonT(45) DEF Calls
  <2>5. QED BY <2>1, <2>2, <2>4, <1>9
<1>16. m \in Nat /\ m > 0 /\ X.la_lpos + m = e.la_lpos
  BY <1>11, <1>13
<1>17. Onwards /\ SameLists
  BY <1>2, <1>15 DEF Onwards, SameLists
<1>18. Script' /\ Leads("bend", Phase') /\ (ToDelete' => ToDelete)
  BY <1>0, <1>2, <1>17, Onward
<1>19. Phase' = "unlink"
  BY <1>18 DEF Leads
<1>20. Books' /\ VarTypes' /\ Kept /\ InStore' /\ Pointed(fsd', chain'[las[p].la_file], c, e.la_lpos)
  <2>1. ~ Filling
    BY <1>2 DEF Filling
  <2>2. CASE Broken(e)
    <3>1. Idly
      BY <2>2, <1>1, <1>11 DEF NoBreak, Idly
    <3>2. Books' /\ VarTypes' /\ Kept
      BY <3>1, <1>0, <1>17, SameBooks
    <3>3. InStore'
      BY <3>1, <2>1, <1>0, <1>1, StoreKept DEF Idly
    <3>4. Pointed(fsd, Ds, e.la_cfsd, e.la_lpos)
      BY <2>2, <1>8 DEF EndFacts, PlaceFacts
    <3>5. QED BY <3>1, <3>2, <3>3, <3>4, <2>2, <1>10, <1>14 DEF Idly
  <2>3. CASE ~ Broken(e)
    <3>1. BreakAt(e) /\ c = Fresh
      BY <2>3, <1>1, <1>11, <1>14
    <3>2. BreakArgs(e)
      BY <2>3, <1>8, <1>10 DEF EndFacts, BreakArgs
    <3>3. Books' /\ VarTypes' /\ Kept
      BY <3>1, <3>2, <1>0, <1>17, BreakBooks
    <3>4. InStore'
      BY <3>1, <3>2, <2>1, <1>0, <1>1, BreakStore
    <3>5. BrokeAt(e.la_file, e.la_lpos)
      BY <3>1, <3>2, <1>0, BreakMore
    <3>6. e.la_file = las[p].la_file
      BY <1>8, <1>10 DEF EndFacts
    <3>7. Pointed(fsd', chain'[las[p].la_file], Fresh, e.la_lpos)
      BY <3>5, <3>6 DEF BrokeAt
    <3>8. QED BY <3>1, <3>3, <3>4, <3>7
  <2>4. QED BY <2>2, <2>3
<1> HIDE DEF n2, c2
<1>21. WhoKept
  BY <1>9, <1>15, <1>16, <1>18, <1>20 DEF WhoKept, Kept
<1>22. Who'
  BY <1>0, <1>21, WhoFrame
<1>23. /\ (Edged(p) => Edged(p)') /\ las'[p].la_lpos = las[p].la_lpos /\ las'[p].la_file = las[p].la_file
  BY <1>0, <1>10, <1>20, KeptEdges
<1>24. Apart1'
  <2>1. SUFFICES ASSUME call.d # None PROVE Edged(call.d)'
    BY <1>15 DEF Apart1
  <2>2. PICK d \in Streams : d = call.d
    BY <2>1, <1>5, Actors
  <2>3. Open(d) /\ Edged(d)
    BY <2>1, <2>2, <1>5, <1>7, Actors DEF Apart1
  <2>4. Edged(d)'
    BY <2>3, <1>0, <1>20, KeptEdges
  <2>5. QED BY <2>2, <2>4, <1>15
<1>25. InUnlink'
  <2>1. (Loose /\ Keeping)' /\ call'.n > 0
    BY <1>7, <1>15, <1>16 DEF InDel, Loose, Keeping
  <2>2. Edged(call.p)'
    BY <1>7, <1>9, <1>15, <1>23
  <2>3. X' = las'[p] /\ Ds' = chain'[las[p].la_file] /\ las'[p].la_lpos + call'.n = e.la_lpos
    BY <1>10, <1>15, <1>16, <1>23 DEF X, Ds
  <2>4. Pointed(fsd, Ds, call.cfsd, X.la_lpos + call.n)'
    BY <2>3, <1>15, <1>20
  <2>5. QED BY <2>1, <2>2, <2>4, <1>24 DEF InUnlink
<1>26. Stage'
  BY <1>19, <1>25 DEF Stage
<1>27. Going
  BY <1>15, <1>18, <1>22, <1>26 DEF Going
<1>28. Collected' /\ CollType' /\ chg' \in Seq(Line)
  BY <1>0, <1>1, CollSame
<1>29. QED BY <1>0, <1>20, <1>27, <1>28, StepNext

-----------------------------------------------------------------------------
(* The steps of cutting out.                                               *)

(* What is to be done next is in the script.                               *)
LEMMA StepLeads ==
  ASSUME IInv, NEW st, Do(st)
  PROVE  Phase = st /\ call.todo # << >> /\ Head(call.todo) = st /\ \E y : Leads(st, y)
<1>1. Script /\ call \in Calls
  BY InvParts
<1>2. call.todo \in Seq(Steps) /\ call.todo # << >> /\ Head(call.todo) = st
  BY <1>1, CallIs DEF Do
<1>3. 1 \in 1 .. Len(call.todo) /\ call.todo[1] = st
  BY <1>2
<1>4. Phase = st
  BY <1>2 DEF Phase
<1>5. QED BY <1>1, <1>2, <1>3, <1>4 DEF Script

(* A step that also changes the lists of the operation, and how many lines *)
(* were inserted. *)
Relisted(new, tail, cut, cnt) ==
  /\ call' \in Calls /\ call'.todo = Tail(call.todo) /\ call'.op = call.op /\ call'.p = call.p /\ call'.d = call.d
  /\ call'.n = call.n /\ call'.cfsd = call.cfsd /\ call'.blank = call.blank
  /\ call'.bad = call.bad /\ call'.ret = call.ret
  /\ call'.new = new /\ call'.tail = tail /\ call'.cut = cut /\ call'.cnt = cnt

(* A call in which the lists change is a call.                             *)
LEMMA ListsTyped ==
  ASSUME NEW r \in Calls, NEW new \in Seq(Fsd), NEW tail \in Seq(Fsd), NEW cut \in Seq(Fsd), NEW cnt \in Nat,
         NEW x, x = [r EXCEPT !.new = new, !.tail = tail, !.cut = cut, !.cnt = cnt]
  PROVE  x \in Calls
<1>1. PICK q : q = [r EXCEPT !.new = new, !.tail = tail]
  OBVIOUS
<1>2. q \in Calls
  BY <1>1, ZenonT(45) DEF Calls
<1>3. x = [q EXCEPT !.cut = cut, !.cnt = cnt]
  BY <1>1
<1>4. QED BY <1>2, <1>3, ZenonT(45) DEF Calls

(* What the call is after a step that changes its lists.                   *)
LEMMA RelistedIs ==
  ASSUME call \in Calls, call.todo # << >>, NEW new \in Seq(Fsd), NEW tail \in Seq(Fsd), NEW cut \in Seq(Fsd), NEW cnt \in Nat,
         call' = [Done EXCEPT !.new = new, !.tail = tail, !.cut = cut, !.cnt = cnt]
  PROVE  Relisted(new, tail, cut, cnt)
<1>1. /\ Done \in Calls /\ Done.todo = Tail(call.todo) /\ Done.op = call.op /\ Done.p = call.p /\ Done.d = call.d
      /\ Done.n = call.n /\ Done.cfsd = call.cfsd /\ Done.blank = call.blank /\ Done.bad = call.bad /\ Done.ret = call.ret
  BY DoneIs
<1>2. PICK r : r = Done
  OBVIOUS
<1>3. call' = [r EXCEPT !.new = new, !.tail = tail, !.cut = cut, !.cnt = cnt] /\ r \in Calls
  BY <1>1, <1>2
<1>4. /\ call'.todo = r.todo /\ call'.op = r.op /\ call'.p = r.p /\ call'.d = r.d
      /\ call'.n = r.n /\ call'.cfsd = r.cfsd /\ call'.blank = r.blank /\ call'.bad = r.bad /\ call'.ret = r.ret
  BY <1>3, ZenonT(45) DEF Calls
<1>5. call'.new = new /\ call'.tail = tail /\ call'.cut = cut /\ call'.cnt = cnt
  BY <1>3 DEF Calls
<1>6. call' \in Calls
  <2>1. r \in Calls
    BY <1>3
  <2>2. ASSUME NEW x, x = [r EXCEPT !.new = new, !.tail = tail, !.cut = cut, !.cnt = cnt] PROVE x \in Calls
    BY <2>1, <2>2, ListsTyped
  <2>3. QED BY <1>3, <2>2
<1>7. QED BY <1>1, <1>2, <1>4, <1>5, <1>6 DEF Relisted

(* Cutting the lines out keeps the invariant.                              *)
LEMMA UnlinkNext ==
  ASSUME IInv, Unlink
  PROVE  IInv'
<1>0. /\ TypeOK /\ Books /\ InStore /\ Collected /\ Script /\ Who /\ Stage /\ NeverAbort /\ VarTypes /\ call \in Calls
      /\ chg \in Seq(Line) /\ CollType
  BY InvParts DEF CollType
<1>1. Do("unlink") /\ fsd' = fsd /\ chg' = chg /\ coll' = coll
  BY DEF Unlink
<1>2. Phase = "unlink" /\ call.todo # << >> /\ Head(call.todo) = "unlink" /\ \E y : Leads("unlink", y)
  BY <1>1, StepLeads
<1>3. Cuts
  BY <1>2 DEF Leads
<1>4. call.op \notin {"none", "open"} /\ ~ Copying /\ (call.op = "blank" => call.bad)
  BY <1>3, <1>0 DEF Cuts, Copying, Script
<1>5. InUnlink
  BY <1>0, <1>2 DEF Stage
<1>6. UnlinkArgs
  <2>1. call.p \in Stream /\ Open(call.p)
    BY <1>4, Actors
  <2>2. QED BY <2>1, <1>5 DEF UnlinkArgs, InUnlink, Loose
<1>7. Books' /\ VarTypes' /\ CutFacts(X.la_file, X.la_lpos, call.n) /\ call'.cut \in Seq(Fsd) /\ call'.cut # << >>
  BY <1>0, <1>6, UnlinkBooks, SMTT(45)
<1>8. PICK c : call' = [Done EXCEPT !.cut = c]
  BY DEF Unlink
<1>9. /\ Done \in Calls /\ Done.todo = Tail(call.todo) /\ Done.op = call.op /\ Done.p = call.p /\ Done.d = call.d
      /\ Done.n = call.n /\ Done.cfsd = call.cfsd /\ Done.blank = call.blank /\ Done.bad = call.bad /\ Done.ret = call.ret
      /\ Done.new = call.new /\ Done.tail = call.tail /\ Done.cnt = call.cnt
  BY <1>0, <1>2, DoneIs
<1>10. /\ call' \in Calls /\ call'.todo = Tail(call.todo) /\ call'.op = call.op /\ call'.p = call.p /\ call'.d = call.d
       /\ call'.n = call.n /\ call'.cfsd = call.cfsd /\ call'.blank = call.blank
       /\ call'.bad = call.bad /\ call'.ret = call.ret
       /\ call'.new = call.new /\ call'.tail = call.tail /\ call'.cnt = call.cnt
  <2>1. PICK r : r = Done
    OBVIOUS
  <2>2. call' = [r EXCEPT !.cut = c] /\ r \in Calls
    BY <2>1, <1>8, <1>9
  <2>3. call'.cut = c
    BY <2>2 DEF Calls
  <2>4. c \in Seq(Fsd)
    BY <2>3, <1>7
  <2>5. /\ call' \in Calls /\ call'.todo = r.todo /\ call'.op = r.op /\ call'.p = r.p /\ call'.d = r.d
        /\ call'.n = r.n /\ call'.cfsd = r.cfsd /\ call'.blank = r.blank /\ call'.bad = r.bad /\ call'.ret = r.ret
        /\ call'.new = r.new /\ call'.tail = r.tail /\ call'.cnt = r.cnt
    BY <2>2, <2>4 DEF Calls
  <2>6. QED BY <2>1, <2>5, <1>9
<1>11. Onwards
  BY <1>2, <1>10 DEF Onwards
<1>12. Script' /\ Leads("unlink", Phase') /\ (ToDelete' => ToDelete)
  BY <1>0, <1>2, <1>11, Onward
<1>13. Phase' = "place"
  BY <1>12 DEF Leads
<1>14. InStore'
  BY <1>0, <1>1, <1>2, StoreKept DEF Filling
<1>15. \A t \in Streams : las'[t].la_file = las[t].la_file /\ las'[t].la_stay = las[t].la_stay
  BY <1>7 DEF CutFacts
<1>16. Who'
  <2>1. WhoKept
    BY <1>10, <1>12, <1>15 DEF WhoKept
  <2>2. QED BY <2>1, <1>0, WhoFrame
<1>17. ASSUME NEW t \in Streams, Open(t), Edged(t) PROVE Edged(t)'
  BY <1>0, <1>1, <1>7, <1>17, CutEdges
<1>18. Apart1'
  <2>1. SUFFICES ASSUME call.d # None PROVE Edged(call.d)'
    BY <1>10 DEF Apart1
  <2>2. PICK d \in Streams : d = call.d
    BY <2>1, <1>4, Actors
  <2>3. Open(d) /\ Edged(d)
    BY <2>1, <2>2, <1>4, <1>5, Actors DEF InUnlink, Apart1
  <2>4. Edged(d)'
    BY <2>3, <1>17
  <2>5. QED BY <2>2, <2>4, <1>10
<1>19. Edged(call.p)'
  <2>1. PICK p \in Streams : p = call.p
    BY <1>4, Actors
  <2>2. Open(p) /\ Edged(p)
    BY <2>1, <1>4, <1>5, Actors DEF InUnlink
  <2>3. Edged(p)'
    BY <2>2, <1>17
  <2>4. QED BY <2>1, <2>3, <1>10
<1>20. InPlace'
  <2>1. call'.tail = << >> /\ Keeping'
    BY <1>5, <1>10 DEF InUnlink, Loose, Keeping
  <2>2. QED BY <2>1, <1>7, <1>18, <1>19 DEF InPlace
<1>21. Stage'
  BY <1>13, <1>20 DEF Stage
<1>22. Going
  BY <1>10, <1>12, <1>16, <1>21 DEF Going
<1>23. Collected' /\ CollType' /\ chg' \in Seq(Line)
  BY <1>0, <1>1, CollSame
<1>24. QED BY <1>0, <1>7, <1>14, <1>22, <1>23, StepNext, SMTT(45)

(* Freeing the lines that were cut out, or linking them in elsewhere,      *)
(* keeps the invariant.                                                    *)
LEMMA PlaceNext ==
  ASSUME IInv, PlaceCut
  PROVE  IInv'
<1>0. /\ TypeOK /\ Books /\ InStore /\ Collected /\ Script /\ Who /\ Stage /\ NeverAbort /\ VarTypes /\ call \in Calls
      /\ chg \in Seq(Line) /\ CollType
  BY InvParts DEF CollType
<1>1. Do("place") /\ chg' = chg /\ coll' = coll /\ call' = [Done EXCEPT !.cut = << >>]
  BY DEF PlaceCut
<1>2. Phase = "place" /\ call.todo # << >> /\ Head(call.todo) = "place" /\ \E y : Leads("place", y)
  BY <1>1, StepLeads
<1>3. Cuts
  BY <1>2 DEF Leads
<1>4. call.op \notin {"none", "open"} /\ ~ Copying /\ (call.op = "blank" => call.bad)
  BY <1>3, <1>0 DEF Cuts, Copying, Script
<1>5. InPlace
  BY <1>0, <1>2 DEF Stage
<1>6. call.tail = << >> /\ call.cut # << >> /\ Keeping /\ Apart1 /\ (call.op = "collect" => Edged(call.p))
  BY <1>5 DEF InPlace
<1>7. Relisted(call.new, call.tail, << >>, call.cnt)
  <2>1. call.new \in Seq(Fsd) /\ call.tail \in Seq(Fsd) /\ call.cnt \in Nat /\ << >> \in Seq(Fsd)
    BY <1>0, CallIs
  <2>2. /\ Done \in Calls /\ Done.new = call.new /\ Done.tail = call.tail /\ Done.cnt = call.cnt
    BY <1>0, <1>2, DoneIs
  <2>3. PICK r : r = Done
    OBVIOUS
  <2>4. PICK a \in Seq(Fsd) : a = call.new
    BY <2>1
  <2>5. PICK b \in Seq(Fsd) : b = call.tail
    BY <2>1
  <2>6. PICK c \in Nat : c = call.cnt
    BY <2>1
  <2>7. [r EXCEPT !.cut = << >>] = [r EXCEPT !.new = a, !.tail = b, !.cut = << >>, !.cnt = c]
    <3>1. r \in Calls /\ r.new = a /\ r.tail = b /\ r.cnt = c
      BY <2>2, <2>3, <2>4, <2>5, <2>6
    <3>2. QED BY <3>1 DEF Calls
  <2>8. call' = [Done EXCEPT !.new = a, !.tail = b, !.cut = << >>, !.cnt = c]
    BY <2>3, <2>7, <1>1
  <2>9. Relisted(a, b, << >>, c)
    BY <2>1, <2>8, <1>0, <1>2, RelistedIs
  <2>10. QED BY <2>4, <2>5, <2>6, <2>9
<1>8. /\ call' \in Calls /\ call'.todo = Tail(call.todo) /\ call'.op = call.op /\ call'.p = call.p /\ call'.d = call.d
       /\ call'.n = call.n /\ call'.bad = call.bad /\ call'.ret = call.ret
       /\ call'.new = call.new /\ call'.tail = << >> /\ call'.cut = << >> /\ call'.cnt = call.cnt
  BY <1>6, <1>7 DEF Relisted
<1>9. Onwards
  BY <1>2, <1>8 DEF Onwards
<1>10. Script' /\ Leads("place", Phase') /\ (ToDelete' => ToDelete)
  BY <1>0, <1>2, <1>9, Onward
<1>11. Phase' = IF call.op = "collect" THEN "link" ELSE "end"
  BY <1>10 DEF Leads
<1> DEFINE sp == << 3, NoFile >>
<1>12. /\ sp \in CallSpots /\ Lists[sp] = call.cut
       /\ \A k \in CallSpots : Lists'[k] = IF k = sp THEN << >> ELSE Lists[k]
  <2>1. sp \in CallSpots /\ Lists[sp] = call.cut
    BY ListsNow DEF CallSpots
  <2>2. /\ Lists'[<< 1, NoFile >>] = call.new /\ Lists'[<< 2, NoFile >>] = << >> /\ Lists'[<< 3, NoFile >>] = << >>
    BY <1>8, ListsThen
  <2>3. Lists[<< 1, NoFile >>] = call.new /\ Lists[<< 2, NoFile >>] = << >>
    BY <1>6, ListsNow
  <2>4. << 1, NoFile >> # sp /\ << 2, NoFile >> # sp
    BY SpotsAre
  <2>5. QED BY <2>1, <2>2, <2>3, <2>4 DEF CallSpots
<1> HIDE DEF sp
<1>13. /\ Books' /\ VarTypes' /\ InStore'
       /\ \A t \in Streams : las'[t].la_file = las[t].la_file /\ las'[t].la_stay = las[t].la_stay
       /\ \A t \in Streams : Open(t) => (Edged(t) => Edged(t)')
  <2>1. CASE call.d = None
    <3>1. FreeChain(Lists[sp]) /\ chain' = chain /\ las' = las
      BY <2>1, <1>12 DEF PlaceCut
    <3>2. FreeArgs(sp)
      BY <3>1, <1>12 DEF FreeArgs
    <3>3. Books' /\ VarTypes' /\ Kept /\ Rest(Lists[sp])
      BY <3>2, <1>0, FreeBooks
    <3>4. InStore'
      <4>1. \A d \in Fsd : fsd'[d].fsdfile # NoFile => fsd'[d] = fsd[d]
        BY <3>3 DEF Rest
      <4>2. ~ Filling /\ Len(chg') >= Len(chg) /\ fsd \in [Fsd -> Fsds] /\ chg' \in Seq(Line)
        <5>1. Len(chg) \in Nat
          BY <1>0
        <5>2. QED BY <5>1, <1>0, <1>1, <1>2 DEF Filling, VarTypes
      <4>3. QED BY <4>1, <4>2, <1>0, StoreStep
    <3>5. \A t \in Streams : Open(t) => (Edged(t) => Edged(t)')
      BY <3>3, <1>0, KeptEdges
    <3>6. QED BY <3>1, <3>3, <3>4, <3>5
  <2>2. CASE call.d # None
    <3>1. PICK s : s = call.d
      OBVIOUS
    <3>2. PICK ds : ds = call.cut
      OBVIOUS
    <3>3. Link(s, ds) /\ fsd' = fsd
      BY <2>2, <3>1, <3>2 DEF PlaceCut
    <3>4. s \in Stream /\ Open(s) /\ Edged(s)
      BY <2>2, <3>1, <1>4, <1>6, Actors DEF Apart1
    <3>5. LinkArgs(s, ds, sp)
      BY <3>2, <3>3, <3>4, <1>6, <1>12 DEF LinkArgs
    <3>6. Books' /\ VarTypes' /\ LinkFacts(las[s].la_file, las[s].la_lpos, Size(fsd, ds))
      BY <3>3, <3>5, <1>0, LinkBooks
    <3>7. Linked(s, Size(fsd, ds))
      BY <3>3, <3>4, <3>6 DEF Linked
    <3>8. InStore'
      BY <3>3, <1>0, <1>1, <1>2, StoreKept DEF Filling
    <3>9. \A t \in Streams : Open(t) => (Edged(t) => Edged(t)')
      <4>1. PICK m : m = Size(fsd, ds)
        OBVIOUS
      <4>2. QED BY <3>7, <4>1, <1>0, LinkEdges
    <3>10. \A t \in Streams : las'[t].la_file = las[t].la_file /\ las'[t].la_stay = las[t].la_stay
      BY <3>6 DEF LinkFacts
    <3>11. QED BY <3>6, <3>8, <3>9, <3>10
  <2>3. QED BY <2>1, <2>2
<1>14. Who'
  <2>1. WhoKept
    BY <1>8, <1>10, <1>13 DEF WhoKept
  <2>2. QED BY <2>1, <1>0, WhoFrame
<1>15. CASE call.op = "collect"
  <2>1. Phase' = "link"
    BY <1>11, <1>15
  <2>2. Edged(call.p)'
    <3>1. PICK p \in Streams : p = call.p
      BY <1>4, Actors
    <3>2. Open(p) /\ Edged(p)
      BY <3>1, <1>4, <1>6, <1>15, Actors
    <3>3. Edged(p)'
      BY <3>2, <1>13
    <3>4. QED BY <3>1, <3>3, <1>8
  <2>3. call'.cnt = 0 /\ call'.new # << >> /\ Loose'
    BY <1>0, <1>6, <1>8, <1>15 DEF Who, Keeping, Loose
  <2>4. InLink'
    BY <2>2, <2>3 DEF InLink
  <2>5. Stage'
    BY <2>1, <2>4 DEF Stage
  <2>6. Going
    BY <2>5, <1>8, <1>10, <1>14 DEF Going
  <2>7. Collected' /\ CollType' /\ chg' \in Seq(Line)
    BY <1>0, <1>1, CollSame
  <2>8. QED BY <2>6, <2>7, <1>0, <1>13, StepNext
<1>16. CASE call.op # "collect"
  <2>1. Phase' = "end"
    BY <1>11, <1>16
  <2>2. Nothing'
    BY <1>6, <1>8, <1>16 DEF Keeping, Nothing, Loose
  <2>3. Stage'
    BY <2>1, <2>2 DEF Stage
  <2>4. Going
    BY <2>3, <1>8, <1>10, <1>14 DEF Going
  <2>5. Collected' /\ CollType' /\ chg' \in Seq(Line)
    BY <1>0, <1>1, CollSame
  <2>6. QED BY <2>4, <2>5, <1>0, <1>13, StepNext
<1>17. QED BY <1>15, <1>16

-----------------------------------------------------------------------------
(* The failures, one by one.                                               *)

(* A step that fails. *)
LEMMA CleftOr ==
  ASSUME IInv, Filled, Copying
  PROVE  call.cnt > 0 => /\ call.op \in {"replace", "blank"} /\ ~ call.bad
                         /\ Cleft(IF call.op = "blank" THEN call.d ELSE call.p, call.cnt)
<1>1. Who
  BY InvParts
<1>2. call.op \in {"copy", "blank"} /\ ~ call.bad
  BY DEF Copying
<1>3. call.op = "copy" => call.cnt = 0
  BY <1>1 DEF Who
<1>4. call.op = "blank" => (call.cnt > 0 => Cleft(call.d, call.cnt))
  BY DEF Filled
<1>5. QED BY <1>2, <1>3, <1>4

(* A delete that has not cut anything out yet may fail.                    *)
LEMMA DelMayFail ==
  ASSUME IInv, InDel, ~ call.bad, Cuts
  PROVE  MayFail
<1>1. Who
  BY InvParts
<1>2. call.op \in {"replace", "delete", "collect"}
  BY DEF Cuts
<1>3. call.op # "replace" => call.cnt = 0
  BY <1>1, <1>2 DEF Who
<1>4. call.op = "replace" => Cleft(call.p, call.cnt)
  BY DEF InDel
<1>5. QED BY <1>2, <1>3, <1>4 DEF MayFail, InDel, Loose

(* A break that finds no memory keeps the invariant.                       *)
LEMMA ZBreakFailsNext ==
  ASSUME IInv, NEW s, NEW st \in {"zp", "zd"}, ZBreakFails(st, s)
  PROVE  IInv'
<1>0. Script /\ Who /\ Stage
  BY InvParts
<1>1. Do(st) /\ Fail /\ coll' = coll
  BY DEF ZBreakFails
<1>2. Phase = st /\ \E y : Leads(st, y)
  BY <1>1, StepLeads
<1>3. MayFail
  <2>1. CASE st = "zp"
    <3>1. InZp
      BY <2>1, <1>0, <1>2 DEF Stage
    <3>2. QED BY <3>1 DEF InZp, Nothing, Loose, Asked, MayFail
  <2>2. CASE st = "zd"
    <3>1. (Cuts /\ ~ call.bad) \/ Copying
      BY <2>2, <1>2 DEF Leads
    <3>2. ASSUME Cuts, ~ call.bad PROVE MayFail
      <4>1. InDel
        BY <2>2, <3>2, <1>0, <1>2 DEF Stage, InZd
      <4>2. QED BY <4>1, <3>2, DelMayFail
    <3>3. ASSUME Copying PROVE MayFail
      <4>1. InZdCopy
        BY <2>2, <3>3, <1>0, <1>2 DEF Stage
      <4>2. Filled
        BY <4>1 DEF InZdCopy, AtCopy
      <4>3. QED BY <4>1, <4>2, <3>3, CleftOr DEF InZdCopy, Nothing, Loose, MayFail
    <3>4. QED BY <3>1, <3>2, <3>3
  <2>3. QED BY <2>1, <2>2
<1>4. QED BY <1>1, <1>3, FailNext

(* A first break that finds no memory keeps the invariant.                 *)
LEMMA BreakFailsNext ==
  ASSUME IInv, BreakFails
  PROVE  IInv'
<1>0. TypeOK /\ Books /\ Script /\ Who /\ Stage
  BY InvParts
<1>1. Do("break") /\ Fail /\ coll' = coll /\ ~ Broken(las[call.p])
  BY DEF BreakFails
<1>2. Phase = "break" /\ \E y : Leads("break", y)
  BY <1>1, StepLeads
<1>3. Cuts
  BY <1>2 DEF Leads
<1>4. InBreak
  BY <1>0, <1>2 DEF Stage
<1>5. ~ call.bad
  <2>1. SUFFICES ASSUME call.bad PROVE FALSE
    OBVIOUS
  <2>2. Edged(call.p)
    BY <2>1, <1>4 DEF InBreak
  <2>3. call.op \notin {"none", "open"}
    BY <2>1, <1>0 DEF Script
  <2>4. PICK p : p = call.p
    OBVIOUS
  <2>5. p \in Streams /\ Open(p)
    BY <2>3, <2>4, Actors
  <2>6. PlaceFacts(fsd, chain[las[p].la_file], las[p])
    BY <2>5, <1>0, StreamHas
  <2>7. Broken(las[p])
    BY <2>2, <2>4, <2>6 DEF PlaceFacts, Edged, Edge
  <2>8. QED BY <2>4, <2>7, <1>1
<1>6. MayFail
  BY <1>3, <1>4, <1>5, DelMayFail DEF InBreak
<1>7. QED BY <1>1, <1>6, FailNext

(* A second break that finds no memory keeps the invariant.                *)
LEMMA BreakEndFailsNext ==
  ASSUME IInv, BreakEndFails
  PROVE  IInv'
<1>0. TypeOK /\ Books /\ Script /\ Who /\ Stage /\ call \in Calls
  BY InvParts
<1>1. Do("bend") /\ Fail /\ coll' = coll /\ ~ Broken(End)
  BY DEF BreakEndFails
<1>2. Phase = "bend" /\ \E y : Leads("bend", y)
  BY <1>1, StepLeads
<1>3. Cuts
  BY <1>2 DEF Leads
<1>4. InBend
  BY <1>0, <1>2 DEF Stage
<1>5. ~ call.bad
  <2>1. SUFFICES ASSUME call.bad PROVE FALSE
    OBVIOUS
  <2>2. Edge(call.p, X.la_lpos + call.n) /\ Before1 /\ call.n > 0
    BY <2>1, <1>4 DEF InBend, InBreak, InDel
  <2>3. call.op \notin {"none", "open"}
    BY <2>1, <1>0 DEF Script
  <2>4. PICK e : EndFacts(e)
    BY <2>2, <2>3, EndIs
  <2>5. Bound(fsd, Ds, X.la_lpos + call.n)
    BY <2>2 DEF Edge, X, Ds
  <2>6. CASE X.la_lpos + call.n >= laf[X.la_file].la_nlines
    <3>1. e.la_lpos = Size(fsd, Ds)
      BY <2>4, <2>6 DEF EndFacts
    <3>2. e.la_cfsd = Eof
      BY <2>4, <3>1 DEF EndFacts, PlaceFacts
    <3>3. QED BY <2>4, <3>2, <1>1 DEF EndFacts, Broken
  <2>7. CASE ~ (X.la_lpos + call.n >= laf[X.la_file].la_nlines)
    <3>1. e.la_lpos = X.la_lpos + call.n
      BY <2>4, <2>7 DEF EndFacts
    <3>2. Broken(e)
      BY <2>4, <2>5, <3>1 DEF EndFacts, PlaceFacts
    <3>3. QED BY <2>4, <3>2, <1>1 DEF EndFacts
  <2>8. QED BY <2>6, <2>7
<1>6. MayFail
  BY <1>3, <1>4, <1>5, DelMayFail DEF InBend, InBreak
<1>7. QED BY <1>1, <1>6, FailNext

(* A delete whose target would get too long keeps the invariant.           *)
LEMMA DeleteTooLongNext ==
  ASSUME IInv, DeleteTooLong
  PROVE  IInv'
<1>0. Script /\ Who /\ Stage
  BY InvParts
<1>1. Do("del") /\ Fail /\ coll' = coll
  BY DEF DeleteTooLong
<1>2. Phase = "del" /\ \E y : Leads("del", y)
  BY <1>1, StepLeads
<1>3. Cuts /\ ~ call.bad
  BY <1>2 DEF Leads, Cuts
<1>4. InDel
  BY <1>0, <1>2 DEF Stage
<1>5. QED BY <1>1, <1>3, <1>4, DelMayFail, FailNext

(* An insert or an open that finds no memory for its fsds keeps the        *)
(* invariant.                                                              *)
LEMMA ParseFailsNext ==
  ASSUME IInv, ParseFails
  PROVE  IInv'
<1>0. Script /\ Who /\ Stage
  BY InvParts
<1>1. Do("parse") /\ Fail /\ coll' = coll
  BY DEF ParseFails
<1>2. Phase = "parse"
  BY <1>1, StepLeads
<1>3. InParse
  BY <1>0, <1>2 DEF Stage
<1>4. call.cnt = 0
  BY <1>0, <1>3 DEF InParse, Asked, Who
<1>5. MayFail
  BY <1>3, <1>4 DEF MayFail, InParse, Loose
<1>6. QED BY <1>1, <1>5, FailNext

(* A write to the change file that fails keeps the invariant.              *)
LEMMA WriteFailsNext ==
  ASSUME IInv, WriteFails
  PROVE  IInv'
<1>0. Stage
  BY InvParts
<1>1. Do("write") /\ Fail /\ coll' = coll
  BY DEF WriteFails
<1>2. Phase = "write"
  BY <1>1, StepLeads
<1>3. InLink
  BY <1>0, <1>2 DEF Stage, InWrite
<1>4. MayFail
  BY <1>3 DEF MayFail, InLink, Loose
<1>5. QED BY <1>1, <1>4, FailNext

(* A collection that would make the file too long keeps the invariant.     *)
LEMMA CollectTooLongNext ==
  ASSUME IInv, CollectTooLong
  PROVE  IInv'
<1>0. Stage
  BY InvParts
<1>1. Do("room") /\ Fail /\ coll' = Dormant
  BY DEF CollectTooLong
<1>2. Phase = "room"
  BY <1>1, StepLeads
<1>3. InLink
  BY <1>0, <1>2 DEF Stage
<1>4. MayFail
  BY <1>3 DEF MayFail, InLink, Loose
<1>5. QED BY <1>1, <1>4, FailNext

(* A copy that finds no memory keeps the invariant.                        *)
LEMMA CopyFailsNext ==
  ASSUME IInv, CopyFails
  PROVE  IInv'
<1>0. Stage
  BY InvParts
<1>1. Fail /\ coll' = coll /\ call.tail = << >> /\ (Do("chead") \/ Do("ctail") \/ Do("walk"))
  BY DEF CopyFails
<1>2. PICK st \in {"chead", "ctail", "walk"} : Do(st)
  BY <1>1
<1>3. Phase = st /\ \E y : Leads(st, y)
  BY <1>2, StepLeads
<1>4. Copying
  BY <1>3 DEF Leads
<1>5. Filled /\ call.cut = << >>
  <2>1. CASE st = "chead"
    BY <2>1, <1>0, <1>3 DEF Stage, InChead, AtCopy, Nothing, Loose
  <2>2. CASE st = "ctail"
    BY <2>2, <1>0, <1>3 DEF Stage, InCtail, AtCopy, Loose
  <2>3. CASE st = "walk"
    BY <2>3, <1>0, <1>3 DEF Stage, InWalk
  <2>4. QED BY <2>1, <2>2, <2>3
<1>6. MayFail
  BY <1>1, <1>4, <1>5, CleftOr DEF MayFail
<1>7. QED BY <1>1, <1>6, FailNext

(* A blank that cannot make its blank lines keeps the invariant.           *)
LEMMA BlanksFailNext ==
  ASSUME IInv, BlanksFail
  PROVE  IInv'
<1>0. Stage
  BY InvParts
<1>1. Do("bprep") /\ Fail /\ coll' = coll
  BY DEF BlanksFail
<1>2. Phase = "bprep"
  BY <1>1, StepLeads
<1>3. InBprep
  BY <1>0, <1>2 DEF Stage
<1>4. MayFail
  BY <1>3 DEF MayFail, InBprep, Nothing, Loose
<1>5. QED BY <1>1, <1>4, FailNext
=============================================================================

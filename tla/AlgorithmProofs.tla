--------------------------- MODULE AlgorithmProofs ---------------------------
(***************************************************************************)
(* Proofs about the algorithms that are pure functions of a document: the  *)
(* address sets (Netset, for words of any width and any two lists), the    *)
(* containment check (Containment, for any deployment and any edits of it),*)
(* the normalizer (Normalizer, for any resources, expressions and          *)
(* manifests) and the readers of the configuration files (Sources, for     *)
(* files of any length).                                                   *)
(*                                                                         *)
(* Induction is had from the least element of a nonempty set of naturals,  *)
(* and recursive functions from the lemma that a definition by lower ranks *)
(* has a solution; both are the first part of this module.                 *)
(***************************************************************************)
EXTENDS Netset, Normalizer, Containment, Sources, TLAPS, WellFoundedInduction, FiniteSetTheorems

\* Every nonempty set of naturals has a least element.
LEMMA LeastNat ==
  ASSUME NEW S \in SUBSET Nat, S # {}
  PROVE  \E i \in S : \A j \in S : i <= j
<1> DEFINE less == {p \in Nat \X Nat : p[1] < p[2]}
<1>1. IsWellFoundedOn(less, Nat)
  BY NatLessThanWellFounded DEF OpToRel
<1> HIDE DEF less
<1>2. PICK i \in S : \A j \in S : ~(<<j, i>> \in less)
  BY <1>1, WFMin
<1>3. ASSUME NEW j \in S
      PROVE  i <= j
  <2>1. i \in Nat /\ j \in Nat
    OBVIOUS
  <2>2. j < i => <<j, i>> \in less
    BY <2>1 DEF less
  <2> QED
    BY <1>2, <2>1, <2>2
<1> QED
  BY <1>3

\* A set of naturals with zero and all its successors has them all.
LEMMA Induction ==
  ASSUME NEW S \in SUBSET Nat, 0 \in S, \A n \in S : n + 1 \in S
  PROVE  S = Nat
<1> SUFFICES ASSUME Nat \ S # {} PROVE FALSE
  OBVIOUS
<1>1. PICK n \in Nat \ S : \A m \in Nat \ S : n <= m
  BY LeastNat
<1>2. n - 1 \in Nat /\ n - 1 \notin Nat \ S
  BY <1>1
<1> QED BY <1>2

\* A value, and at each natural the step from the value there to the next.
Steps(T) == [Nat -> [T -> T]]
Iterates(g, T, c, step) == g \in [Nat -> T] /\ g[0] = c /\ \A k \in Nat : g[k + 1] = step[k][g[k]]

\* A step for each natural can be iterated.
LEMMA Iteration ==
  ASSUME NEW T, NEW c \in T, NEW step \in Steps(T)
  PROVE  \E g : Iterates(g, T, c, step)
<1> USE DEF Steps
<1> DEFINE Is(g, n) == g[0] = c /\ \A k \in 0 .. n - 1 : g[k + 1] = step[k][g[k]]
           S == {n \in Nat : \E g \in [0 .. n -> T] : Is(g, n)}
           h(n) == CHOOSE g \in [0 .. n -> T] : Is(g, n)
<1>1. S = Nat
  <2>1. 0 \in S
    <3>1. [k \in 0 .. 0 |-> c] \in [0 .. 0 -> T] /\ Is([k \in 0 .. 0 |-> c], 0)
      OBVIOUS
    <3> QED BY <3>1
  <2>2. ASSUME NEW n \in S PROVE n + 1 \in S
    <3>1. PICK g \in [0 .. n -> T] : Is(g, n)
      OBVIOUS
    <3> DEFINE f == [k \in 0 .. n + 1 |-> IF k <= n THEN g[k] ELSE step[n][g[n]]]
    <3>2. f \in [0 .. n + 1 -> T]
      OBVIOUS
    <3>3. Is(f, n + 1)
      BY <3>1
    <3> HIDE DEF Is, f
    <3> QED BY <3>2, <3>3
  <2> HIDE DEF S
  <2> QED BY <2>1, <2>2, Induction DEF S
<1>2. ASSUME NEW n \in Nat PROVE h(n) \in [0 .. n -> T] /\ Is(h(n), n)
  <2> HIDE DEF Is
  <2> QED BY <1>1
<1> HIDE DEF h
<1>3. ASSUME NEW n \in Nat PROVE \A k \in 0 .. n : h(n + 1)[k] = h(n)[k]
  <2> DEFINE A == {k \in Nat : k <= n => h(n + 1)[k] = h(n)[k]}
  <2>1. 0 \in A
    BY <1>2
  <2>2. ASSUME NEW k \in A PROVE k + 1 \in A
    <3> SUFFICES ASSUME k + 1 <= n PROVE h(n + 1)[k + 1] = h(n)[k + 1]
      OBVIOUS
    <3>1. h(n + 1)[k + 1] = step[k][h(n + 1)[k]] /\ h(n)[k + 1] = step[k][h(n)[k]]
      <4>1. Is(h(n), n) /\ Is(h(n + 1), n + 1)
        BY <1>2
      <4> QED BY <4>1
    <3> QED BY <3>1
  <2>3. A = Nat
    <3> HIDE DEF A
    <3> QED BY <2>1, <2>2, Induction DEF A
  <2> QED BY <2>3
<1> DEFINE g == [n \in Nat |-> h(n)[n]]
<1>4. g \in [Nat -> T] /\ g[0] = c
  BY <1>2
<1>5. ASSUME NEW k \in Nat PROVE g[k + 1] = step[k][g[k]]
  <2>1. Is(h(k + 1), k + 1)
    BY <1>2
  <2>2. h(k + 1)[k + 1] = step[k][h(k + 1)[k]]
    BY <2>1
  <2>3. h(k + 1)[k] = h(k)[k]
    BY <1>3
  <2> QED BY <2>2, <2>3
<1> HIDE DEF g
<1> QED BY <1>4, <1>5 DEF Iterates

\* The powers of two are what their recursive definition says.
LEMMA Powers ==
  Power \in [Nat -> Nat] /\ Power[0] = 1 /\ \A n \in Nat : Power[n + 1] = 2 * Power[n]
<1> DEFINE e(f) == [n \in Nat |-> IF n = 0 THEN 1 ELSE 2 * f[n - 1]]
<1>1. PICK g \in [Nat -> Nat] : g[0] = 1 /\ \A k \in Nat : g[k + 1] = [i \in Nat |-> [m \in Nat |-> 2 * m]][k][g[k]]
  <2> DEFINE T == Nat
             c == 1
             step == [i \in Nat |-> [m \in Nat |-> 2 * m]]
  <2>1. c \in T /\ step \in Steps(T)
    BY DEF Steps
  <2>2. \E g : Iterates(g, T, c, step)
    <3> HIDE DEF T, c, step
    <3> QED BY <2>1, Iteration
  <2> QED BY <2>2 DEF Iterates
<1>2. \A k \in Nat : g[k + 1] = 2 * g[k]
  BY <1>1
<1>3. g = e(g)
  <2> SUFFICES ASSUME NEW n \in Nat PROVE g[n] = IF n = 0 THEN 1 ELSE 2 * g[n - 1]
    BY <1>1
  <2>1. CASE n = 0
    BY <2>1, <1>1
  <2>2. CASE n # 0
    <3>1. n - 1 \in Nat /\ (n - 1) + 1 = n
      BY <2>2
    <3> QED BY <3>1, <1>2, <2>2
  <2> QED BY <2>1, <2>2
<1>4. Power = e(Power)
  <2>1. Power = CHOOSE f : f = e(f)
    BY DEF Power
  <2> HIDE DEF e
  <2> QED BY <1>3, <2>1
<1>5. DOMAIN Power = Nat /\ \A n \in Nat : Power[n] = IF n = 0 THEN 1 ELSE 2 * Power[n - 1]
  BY <1>4
<1>6. Power[0] = 1 /\ \A n \in Nat : Power[n + 1] = 2 * Power[n]
  <2>1. ASSUME NEW n \in Nat PROVE Power[n + 1] = 2 * Power[n]
    <3>1. n + 1 \in Nat /\ n + 1 # 0 /\ (n + 1) - 1 = n
      OBVIOUS
    <3> QED BY <3>1, <1>5
  <2> QED BY <1>5, <2>1
<1> DEFINE A == {n \in Nat : Power[n] \in Nat}
<1>7. 0 \in A /\ \A n \in A : n + 1 \in A
  BY <1>6
<1>8. A = Nat
  <2> HIDE DEF A
  <2> QED BY <1>7, Induction DEF A
<1>9. Power \in [Nat -> Nat]
  <2>1. Power = [n \in Nat |-> Power[n]]
    BY <1>4
  <2> QED BY <1>8, <2>1
<1> QED BY <1>6, <1>9

\* A power of a sum is a product of powers.
LEMMA PowerSum ==
  ASSUME NEW m \in Nat, NEW n \in Nat
  PROVE  Power[m + n] = Power[m] * Power[n]
<1> DEFINE A == {k \in Nat : Power[m + k] = Power[m] * Power[k]}
<1>1. 0 \in A
  BY Powers
<1>2. ASSUME NEW k \in A PROVE k + 1 \in A
  <2>1. Power[m + (k + 1)] = 2 * Power[m + k]
    <3>1. m + k \in Nat /\ m + (k + 1) = (m + k) + 1
      OBVIOUS
    <3> QED BY <3>1, Powers
  <2>2. Power[k + 1] = 2 * Power[k]
    BY Powers
  <2>3. Power[m] \in Nat /\ Power[k] \in Nat
    BY Powers
  <2> DEFINE x == Power[m]
             y == Power[k]
  <2>4. \A u, v \in Nat : 2 * (u * v) = u * (2 * v)
    OBVIOUS
  <2>5. 2 * (x * y) = x * (2 * y)
    <3> HIDE DEF x, y
    <3> QED BY <2>3, <2>4 DEF x, y
  <2> QED BY <2>1, <2>2, <2>5
<1>3. A = Nat
  <2> HIDE DEF A
  <2> QED BY <1>1, <1>2, Induction DEF A
<1> QED BY <1>3

\* No power of two is zero.
LEMMA PowerPositive == \A n \in Nat : Power[n] \in Nat \ {0}
<1> DEFINE A == {n \in Nat : Power[n] # 0}
<1>1. 0 \in A /\ \A n \in A : n + 1 \in A
  BY Powers
<1>2. A = Nat
  <2> HIDE DEF A
  <2> QED BY <1>1, Induction DEF A
<1> QED BY <1>2, Powers

-----------------------------------------------------------------------------
(* Intervals.                                                              *)

Interval == {x \in [lo : 0..Top, hi : 0..Top] : x.lo <= x.hi}
Within(x) == x.lo .. x.hi

\* No two intervals of a list touch or adjoin, and they are in order.
Apart(s) == \A i, j \in DOMAIN s : i < j => s[i].hi + 1 < s[j].lo

\* The greatest word is one less than a power.
LEMMA TopType == Top \in Nat /\ Power[W] = Top + 1 /\ Power[W] \in Nat \ {0}
BY WidthAssumption, PowerPositive DEF Top

\* What fits a word is kept by it.
LEMMA SmallWords == \A a \in 0..Top : Word(a) = a
BY TopType DEF Word

\* Sorting a set puts each element at one place, the lower ends in order.
LEMMA SortedFacts ==
  ASSUME NEW S \in SUBSET Interval, IsFiniteSet(S)
  PROVE  /\ Cardinality(S) \in Nat
         /\ Sorted(S) \in [1..Cardinality(S) -> S]
         /\ \A x \in S : \E i \in 1..Cardinality(S) : Sorted(S)[i] = x
         /\ \A i, j \in 1..Cardinality(S) : i < j => Sorted(S)[i].lo <= Sorted(S)[j].lo
<1> DEFINE n == Cardinality(S)
           below(x) == {y \in S : Before(y, x)}
           rank == [x \in S |-> Cardinality(below(x))]
<1>1. n \in Nat
  BY FS_CardinalityType
<1>2. ASSUME NEW x \in S PROVE IsFiniteSet(below(x)) /\ Cardinality(below(x)) \in 0..n-1
  <2>1. below(x) \in SUBSET (S \ {x})
    BY TopType DEF Before, Interval
  <2>2. IsFiniteSet(S \ {x}) /\ Cardinality(S \ {x}) = n - 1
    BY FS_RemoveElement
  <2>3. IsFiniteSet(below(x)) /\ Cardinality(below(x)) <= n - 1
    <3> HIDE DEF below
    <3> QED BY <2>1, <2>2, FS_Subset
  <2>4. Cardinality(below(x)) \in Nat
    BY <2>3, FS_CardinalityType
  <2> HIDE DEF below
  <2> QED BY <1>1, <2>3, <2>4
<1>3. ASSUME NEW x \in S, NEW y \in S, Before(x, y) PROVE Cardinality(below(x)) < Cardinality(below(y))
  <2>1. below(x) \in SUBSET below(y) /\ x \in below(y) /\ x \notin below(x)
    BY <1>3, TopType DEF Before, Interval
  <2>2. /\ Cardinality(below(x)) <= Cardinality(below(y))
        /\ Cardinality(below(y)) = Cardinality(below(x)) => below(y) = below(x)
    <3> HIDE DEF below
    <3> QED BY <1>2, <2>1, FS_Subset
  <2>3. Cardinality(below(x)) \in Nat /\ Cardinality(below(y)) \in Nat
    <3> HIDE DEF below
    <3> QED BY <1>1, <1>2
  <2> HIDE DEF below
  <2> QED BY <2>1, <2>2, <2>3
<1>4. \A x, y \in S : x # y => Before(x, y) \/ Before(y, x)
  BY TopType DEF Before, Interval
<1>5. rank \in Injection(S, 0..n-1)
  <2>1. rank \in [S -> 0..n-1]
    BY <1>2
  <2>2. \A x, y \in S : rank[x] = rank[y] => x = y
    <3> SUFFICES ASSUME NEW x \in S, NEW y \in S, x # y PROVE rank[x] # rank[y]
      OBVIOUS
    <3> HIDE DEF below
    <3>1. Cardinality(below(x)) \in Nat /\ Cardinality(below(y)) \in Nat
      BY <1>1, <1>2
    <3> QED BY <1>3, <1>4, <3>1
  <2> QED BY <2>1, <2>2 DEF Injection, IsInjective
<1>6. rank \in Surjection(S, 0..n-1)
  <2>1. IsFiniteSet(0..n-1) /\ Cardinality(0..n-1) = n
    BY <1>1, FS_Interval
  <2> HIDE DEF rank
  <2> QED BY <1>5, <2>1, FS_Injection
<1>7. \A i \in 1..n : \E x \in S : Cardinality(below(x)) = i - 1
  <2>1. \A k \in 0..n-1 : \E x \in S : rank[x] = k
    <3> HIDE DEF rank
    <3> QED BY <1>6 DEF Surjection
  <2> SUFFICES ASSUME NEW i \in 1..n PROVE \E x \in S : Cardinality(below(x)) = i - 1
    OBVIOUS
  <2>2. i - 1 \in 0..n-1
    BY <1>1
  <2> HIDE DEF below
  <2> QED BY <2>1, <2>2
<1>8. ASSUME NEW i \in 1..n
      PROVE  Sorted(S)[i] \in S /\ Cardinality(below(Sorted(S)[i])) = i - 1
  <2>1. Sorted(S)[i] = CHOOSE x \in S : Cardinality(below(x)) = i - 1
    BY DEF Sorted
  <2> HIDE DEF below
  <2> QED BY <1>7, <2>1
<1>9. Sorted(S) \in [1..n -> S]
  <2> DEFINE e(i) == CHOOSE x \in S : Cardinality(below(x)) = i - 1
  <2>1. Sorted(S) = [i \in 1..n |-> e(i)]
    BY DEF Sorted
  <2> HIDE DEF e
  <2> QED BY <1>8, <2>1
<1>10. ASSUME NEW x \in S PROVE \E i \in 1..n : Sorted(S)[i] = x
  <2> DEFINE i == rank[x] + 1
  <2>1. i \in 1..n /\ i - 1 = rank[x]
    <3> HIDE DEF below
    <3> QED BY <1>1, <1>2
  <2>2. rank[Sorted(S)[i]] = rank[x] /\ Sorted(S)[i] \in S
    <3> HIDE DEF below, i
    <3> QED BY <1>8, <2>1
  <2>3. \A y, z \in S : rank[y] = rank[z] => y = z
    <3> HIDE DEF rank
    <3> QED BY <1>5 DEF Injection, IsInjective
  <2> HIDE DEF rank, i
  <2> QED BY <2>1, <2>2, <2>3
<1>11. ASSUME NEW i \in 1..n, NEW j \in 1..n, i < j PROVE Sorted(S)[i].lo <= Sorted(S)[j].lo
  <2> DEFINE x == Sorted(S)[i]
             y == Sorted(S)[j]
  <2>1. x \in S /\ y \in S /\ Cardinality(below(x)) = i - 1 /\ Cardinality(below(y)) = j - 1
    BY <1>8
  <2>2. x # y /\ ~Before(y, x)
    <3>1. i - 1 < j - 1 /\ i - 1 \in Nat /\ j - 1 \in Nat
      BY <1>1, <1>11
    <3> HIDE DEF below, x, y
    <3> QED BY <1>3, <2>1, <3>1
  <2>3. Before(x, y)
    <3> HIDE DEF below, x, y
    <3> QED BY <1>4, <2>1, <2>2
  <2>4. x \in Interval /\ y \in Interval
    BY <2>1
  <2> HIDE DEF x, y, below
  <2>5. x.lo <= y.lo
    BY <2>3, <2>4, TopType DEF Before, Interval
  <2> QED BY <2>5 DEF x, y
<1> HIDE DEF rank, below
<1> QED BY <1>1, <1>9, <1>10, <1>11

\* One turn of normalize keeps the intervals apart and adds one of them.
LEMMA MergedFacts ==
  ASSUME NEW m \in Seq(Interval), m # <<>>, Apart(m), NEW iv \in Interval, m[Len(m)].lo <= iv.lo
  PROVE  LET t == Merged(m, iv) IN
         /\ t \in Seq(Interval) /\ t # <<>> /\ Apart(t) /\ t[Len(t)].lo <= iv.lo
         /\ \A a \in 0..Top : Contains(t, a) <=> Contains(m, a) \/ a \in Within(iv)
<1> DEFINE n == Len(m)
           last == m[n]
           t == Merged(m, iv)
<1>1. n \in Nat \ {0} /\ DOMAIN m = 1..n /\ \A i \in 1..n : m[i] \in Interval
  OBVIOUS
<1>2. last \in Interval
  BY <1>1
<1>3. \A x \in Interval : x.lo \in 0..Top /\ x.hi \in 0..Top /\ x.lo <= x.hi
  BY DEF Interval
<1>4. last.hi # Top => Word(last.hi + 1) = last.hi + 1
  <2>1. last.hi # Top => last.hi + 1 \in 0..Top
    BY <1>2, <1>3, TopType
  <2> QED BY <2>1, SmallWords
<1> HIDE DEF last, n
<1>5. CASE iv.lo <= last.hi \/ (last.hi # Top /\ iv.lo = last.hi + 1)
  <2>0. iv.lo <= last.hi + 1
    BY <1>2, <1>3, <1>5, TopType
  <2>1. t = IF iv.hi > last.hi THEN [m EXCEPT ![n].hi = iv.hi] ELSE m
    BY <1>4, <1>5 DEF Merged, last, n
  <2>2. CASE iv.hi > last.hi
    <3> DEFINE z == [last EXCEPT !.hi = iv.hi]
    <3>1. z \in Interval /\ z.lo = last.lo /\ z.hi = iv.hi
      <4>1. last \in [lo : 0..Top, hi : 0..Top] /\ iv.hi \in 0..Top /\ last.lo <= iv.hi
        BY <1>2, <1>3, <2>2, TopType DEF Interval
      <4>2. z = [lo |-> last.lo, hi |-> iv.hi]
        BY <4>1
      <4> HIDE DEF z
      <4> QED BY <4>1, <4>2 DEF Interval
    <3>2. t = [m EXCEPT ![n] = z]
      BY <2>1, <2>2 DEF last
    <3> HIDE DEF z
    <3> HIDE DEF t
    <3>3. t \in Seq(Interval) /\ Len(t) = n /\ DOMAIN t = 1..n /\ t[n] = z /\ \A i \in 1..n-1 : t[i] = m[i]
      <4>1. m \in [1..n -> Interval] /\ n \in 1..n
        BY <1>1 DEF n
      <4>2. t \in [1..n -> Interval] /\ t[n] = z /\ \A i \in 1..n-1 : t[i] = m[i]
        BY <1>1, <3>1, <3>2, <4>1
      <4> QED BY <1>1, <4>2
    <3>4. Apart(t)
      <4> SUFFICES ASSUME NEW i \in 1..n, NEW j \in 1..n, i < j PROVE t[i].hi + 1 < t[j].lo
        BY <3>3 DEF Apart
      <4>1. m[i].hi + 1 < m[j].lo
        BY <1>1 DEF Apart
      <4>2. i \in 1..n-1
        BY <1>1
      <4> QED BY <1>1, <3>1, <3>3, <4>1, <4>2 DEF last
    <3>5. ASSUME NEW a \in 0..Top PROVE Contains(t, a) <=> Contains(m, a) \/ a \in Within(iv)
      <4>0. a \in Int /\ n \in 1..n
        BY <1>1, TopType
      <4>1. (\E i \in 1..n : t[i].lo <= a /\ a <= t[i].hi) <=>
              (\E i \in 1..n-1 : m[i].lo <= a /\ a <= m[i].hi) \/ (last.lo <= a /\ a <= iv.hi)
        BY <1>1, <3>1, <3>3, <4>0
      <4>2. (\E i \in 1..n : m[i].lo <= a /\ a <= m[i].hi) <=>
              (\E i \in 1..n-1 : m[i].lo <= a /\ a <= m[i].hi) \/ (last.lo <= a /\ a <= last.hi)
        BY <1>1, <4>0 DEF last
      <4>3. last.lo <= a /\ a <= iv.hi <=> (last.lo <= a /\ a <= last.hi) \/ (iv.lo <= a /\ a <= iv.hi)
        <5>1. last.lo <= iv.lo
          BY DEF last, n
        <5> QED BY <5>1, <1>2, <1>3, <2>0, <2>2, <4>0, TopType
      <4>4. a \in Within(iv) <=> iv.lo <= a /\ a <= iv.hi
        BY <1>3, TopType DEF Within
      <4> QED BY <1>1, <3>3, <4>1, <4>2, <4>3, <4>4 DEF Contains
    <3>6. t # <<>> /\ t[Len(t)].lo <= iv.lo
      BY <1>1, <3>1, <3>3 DEF last, n
    <3> QED BY <3>3, <3>4, <3>5, <3>6 DEF t
  <2>3. CASE ~(iv.hi > last.hi)
    <3>1. t = m
      BY <2>1, <2>3
    <3>2. ASSUME NEW a \in Within(iv) PROVE Contains(m, a)
      <4>1. last.lo <= a /\ a <= last.hi
        <5>1. last.lo <= iv.lo
          BY DEF last, n
        <5> QED BY <5>1, <1>2, <1>3, <2>3, TopType DEF Within
      <4> QED BY <4>1, <1>1 DEF Contains, last
    <3> HIDE DEF t
    <3> QED BY <3>1, <3>2 DEF t
  <2> QED BY <2>2, <2>3
<1>6. CASE ~(iv.lo <= last.hi \/ (last.hi # Top /\ iv.lo = last.hi + 1))
  <2>1. t = Append(m, iv)
    BY <1>4, <1>6 DEF Merged, last, n
  <2>2. t \in Seq(Interval) /\ Len(t) = n + 1 /\ DOMAIN t = 1..n+1 /\ t[n+1] = iv /\ \A i \in 1..n : t[i] = m[i]
    BY <2>1, <1>1 DEF n
  <2>3. last.hi + 1 < iv.lo
    BY <1>2, <1>3, <1>6, TopType
  <2> HIDE DEF t
  <2>4. Apart(t)
    <3> SUFFICES ASSUME NEW i \in 1..n+1, NEW j \in 1..n+1, i < j PROVE t[i].hi + 1 < t[j].lo
      BY <2>2 DEF Apart
    <3>1. i \in 1..n
      BY <1>1
    <3>2. CASE j \in 1..n
      BY <1>1, <2>2, <3>1, <3>2 DEF Apart
    <3>3. CASE j = n + 1
      <4>1. m[i].hi <= last.hi
        <5>1. CASE i = n
          BY <1>1, <1>2, <1>3, <5>1, TopType DEF last
        <5>2. CASE i # n
          <6>1. i < n /\ n \in 1..n
            BY <1>1, <3>1, <5>2
          <6>2. m[i].hi + 1 < last.lo
            BY <1>1, <3>1, <6>1 DEF Apart, last
          <6>3. m[i] \in Interval
            BY <1>1, <3>1
          <6> QED BY <6>2, <6>3, <1>2, <1>3, TopType
        <5> QED BY <5>1, <5>2
      <4>2. m[i] \in Interval
        BY <1>1, <3>1
      <4> QED BY <1>2, <1>3, <2>2, <2>3, <3>1, <3>3, <4>1, <4>2, TopType
    <3> QED BY <1>1, <3>2, <3>3
  <2>5. ASSUME NEW a \in 0..Top PROVE Contains(t, a) <=> Contains(m, a) \/ a \in Within(iv)
    <3>1. (\E i \in 1..n+1 : t[i].lo <= a /\ a <= t[i].hi) <=>
            (\E i \in 1..n : m[i].lo <= a /\ a <= m[i].hi) \/ (iv.lo <= a /\ a <= iv.hi)
      BY <1>1, <2>2
    <3>2. a \in Within(iv) <=> iv.lo <= a /\ a <= iv.hi
      BY <1>3, TopType DEF Within
    <3> QED BY <1>1, <2>2, <3>1, <3>2 DEF Contains
  <2>6. t # <<>> /\ t[Len(t)].lo <= iv.lo
    BY <1>1, <1>3, <2>2, TopType
  <2> QED BY <2>2, <2>4, <2>5, <2>6 DEF t
<1> QED BY <1>5, <1>6 DEF t

\* A normalized list: what it covers is what went in, and it has no other spelling.
LEMMA NormalizeFacts ==
  ASSUME NEW S \in SUBSET Interval, IsFiniteSet(S)
  PROVE  /\ Normalize(S) \in Seq(Interval) /\ Apart(Normalize(S))
         /\ \A a \in 0..Top : Contains(Normalize(S), a) <=> \E x \in S : a \in Within(x)
<1>1. CASE S = {}
  <2>1. Normalize(S) = <<>>
    BY <1>1 DEF Normalize
  <2>2. <<>> \in Seq(Interval) /\ Apart(<<>>) /\ \A a \in 0..Top : ~Contains(<<>>, a)
    BY DEF Apart, Contains
  <2> QED BY <1>1, <2>1, <2>2
<1>2. CASE S # {}
  <2> DEFINE n == Cardinality(S)
             sorted == Sorted(S)
             T == Seq(Interval) \ {<<>>}
             turn(k, m) == IF k + 2 \in 1..n /\ m[Len(m)].lo <= sorted[k + 2].lo /\ Apart(m)
                           THEN Merged(m, sorted[k + 2]) ELSE m
             step == [k \in Nat |-> [m \in T |-> turn(k, m)]]
             e(f) == [i \in 1..Len(sorted) |-> IF i = 1 THEN <<sorted[1]>> ELSE Merged(f[i - 1], sorted[i])]
             merged == CHOOSE f : f = e(f)
  <2>1. n \in Nat \ {0} /\ sorted \in [1..n -> S] /\ Len(sorted) = n
    <3>1. n \in Nat /\ sorted \in [1..n -> S]
      BY SortedFacts
    <3>2. n # 0
      BY <1>2, FS_EmptySet
    <3> HIDE DEF n, sorted
    <3> QED BY <3>1, <3>2
  <2>2. /\ \A x \in S : \E i \in 1..n : sorted[i] = x
        /\ \A i, j \in 1..n : i < j => sorted[i].lo <= sorted[j].lo
    BY SortedFacts
  <2>3. Normalize(S) = merged[n]
    BY <1>2, <2>1 DEF Normalize
  <2> HIDE DEF n, sorted
  <2>4. \A i \in 1..n : sorted[i] \in S /\ sorted[i] \in Interval
    BY <2>1
  <2>5. <<sorted[1]>> \in T /\ step \in Steps(T)
    <3>1. <<sorted[1]>> \in T
      BY <2>1, <2>4
    <3>2. ASSUME NEW k \in Nat, NEW m \in T PROVE turn(k, m) \in T
      <4>1. CASE k + 2 \in 1..n /\ m[Len(m)].lo <= sorted[k + 2].lo /\ Apart(m)
        BY <4>1, <2>4, MergedFacts
      <4>2. CASE ~(k + 2 \in 1..n /\ m[Len(m)].lo <= sorted[k + 2].lo /\ Apart(m))
        BY <4>2
      <4> QED BY <4>1, <4>2
    <3> HIDE DEF turn, T
    <3> QED BY <3>1, <3>2 DEF Steps
  <2>6. PICK g : Iterates(g, T, <<sorted[1]>>, step)
    <3> DEFINE c == <<sorted[1]>>
    <3>1. c \in T /\ step \in Steps(T)
      BY <2>5
    <3> HIDE DEF c, T, step
    <3>2. \E g : Iterates(g, T, c, step)
      BY <3>1, Iteration
    <3> QED BY <3>2 DEF c
  <2>7. g[0] = <<sorted[1]>> /\ \A k \in Nat : g[k] \in T /\ g[k + 1] = turn(k, g[k])
    <3> HIDE DEF turn, T
    <3> QED BY <2>6 DEF Iterates
  \* What the list is after the first k + 1 intervals.
  <2> DEFINE After(k) == /\ Apart(g[k]) /\ g[k][Len(g[k])].lo <= sorted[k + 1].lo
                         /\ \A a \in 0..Top : Contains(g[k], a) <=> \E i \in 1..k+1 : a \in Within(sorted[i])
             A == {k \in Nat : k < n => After(k)}
  <2>8. 0 \in A
    <3>1. Len(<<sorted[1]>>) = 1 /\ <<sorted[1]>>[1] = sorted[1] /\ DOMAIN <<sorted[1]>> = 1..1
      OBVIOUS
    <3>2. sorted[1] \in Interval
      BY <2>1, <2>4
    <3>3. Apart(<<sorted[1]>>)
      BY <3>1 DEF Apart
    <3>4. ASSUME NEW a \in 0..Top
          PROVE Contains(<<sorted[1]>>, a) <=> \E i \in 1..0+1 : a \in Within(sorted[i])
      BY <3>1, <3>2, TopType DEF Contains, Within, Interval
    <3>5. sorted[1].lo <= sorted[1].lo
      BY <3>2, TopType DEF Interval
    <3> DEFINE c == <<sorted[1]>>
    <3>6. g[0] = c /\ 0 + 1 = 1 /\ Len(c) = 1 /\ c[1] = sorted[1] /\ Apart(c)
      BY <2>7, <3>1, <3>3
    <3>7. \A a \in 0..Top : Contains(c, a) <=> \E i \in 1..0+1 : a \in Within(sorted[i])
      BY <3>4
    <3> HIDE DEF c
    <3>8. g[0][Len(g[0])].lo <= sorted[0 + 1].lo
      BY <3>5, <3>6
    <3>9. After(0)
      BY <3>6, <3>7, <3>8
    <3> HIDE DEF After
    <3> QED BY <3>9
  <2>9. ASSUME NEW k \in A, k + 1 < n
        PROVE  /\ g[k + 1] = Merged(g[k], sorted[k + 2])
               /\ After(k + 1)
    <3>1. k \in Nat /\ k < n /\ k + 1 \in 1..n /\ k + 2 \in 1..n /\ k + 1 < k + 2
      BY <2>1, <2>9
    <3>2. After(k) /\ g[k] \in T
      BY <2>7, <3>1
    <3>3. sorted[k + 1].lo <= sorted[k + 2].lo /\ sorted[k + 1] \in Interval /\ sorted[k + 2] \in Interval
      BY <2>2, <2>4, <3>1
    <3> DEFINE m == g[k]
               iv == sorted[k + 2]
    <3>4. m \in Seq(Interval) /\ m # <<>> /\ Apart(m) /\ m[Len(m)].lo <= iv.lo
      <4>1. m \in Seq(Interval) /\ m # <<>> /\ Apart(m) /\ m[Len(m)].lo <= sorted[k + 1].lo
        BY <3>2
      <4>2. m[Len(m)] \in Interval
        <5> HIDE DEF m
        <5> QED BY <4>1
      <4> HIDE DEF m
      <4> QED BY <3>3, <4>1, <4>2, TopType DEF Interval
    <3>5. g[k + 1] = Merged(m, iv)
      BY <2>7, <3>1, <3>4
    <3>6. /\ Apart(g[k + 1]) /\ g[k + 1][Len(g[k + 1])].lo <= iv.lo
          /\ \A a \in 0..Top : Contains(g[k + 1], a) <=> Contains(m, a) \/ a \in Within(iv)
      <4> HIDE DEF m, iv
      <4> QED BY <3>3, <3>4, <3>5, MergedFacts DEF iv
    <3>7. ASSUME NEW a \in 0..Top
          PROVE  Contains(g[k + 1], a) <=> \E i \in 1..(k+1)+1 : a \in Within(sorted[i])
      <4>1. Contains(g[k + 1], a) <=> (\E i \in 1..k+1 : a \in Within(sorted[i])) \/ a \in Within(iv)
        BY <3>2, <3>6
      <4>2. \A i : i \in 1..(k+1)+1 <=> i \in 1..k+1 \/ i = k + 2
        BY <3>1
      <4> QED BY <4>1, <4>2
    <3>8. (k + 1) + 1 = k + 2
      BY <3>1
    <3> HIDE DEF m, iv
    <3> QED BY <3>5, <3>6, <3>7, <3>8 DEF m, iv
  <2>10. A = Nat
    <3>1. \A k \in A : k + 1 \in A
      <4> HIDE DEF After
      <4> QED BY <2>9
    <3> HIDE DEF A
    <3> QED BY <2>8, <3>1, Induction DEF A
  <2>11. merged = e(merged) /\ merged[n] = g[n - 1]
    <3> DEFINE h == [i \in 1..n |-> g[i - 1]]
    <3>1. h = e(h)
      <4>1. ASSUME NEW i \in 1..n
            PROVE  g[i - 1] = IF i = 1 THEN <<sorted[1]>> ELSE Merged(h[i - 1], sorted[i])
        <5>1. CASE i = 1
          BY <2>7, <5>1
        <5>2. CASE i # 1
          <6>1. i - 2 \in Nat /\ (i - 2) + 1 < n /\ i - 1 \in 1..n /\ (i - 2) + 1 = i - 1 /\ (i - 2) + 2 = i
            BY <2>1, <5>2
          <6>2. i - 2 \in A
            BY <2>10, <6>1
          <6>3. g[(i - 2) + 1] = Merged(g[i - 2], sorted[(i - 2) + 2])
            <7> DEFINE k == i - 2
            <7>1. k \in A /\ k + 1 < n
              BY <6>1, <6>2
            <7>2. g[k + 1] = Merged(g[k], sorted[k + 2])
              <8> HIDE DEF k, After, A
              <8> QED BY <2>9, <7>1
            <7> QED BY <7>2
          <6>4. h[i - 1] = g[i - 2]
            BY <6>1
          <6> QED BY <5>2, <6>1, <6>3, <6>4
        <5> QED BY <5>1, <5>2
      <4>2. Len(sorted) = n
        BY <2>1
      <4> QED BY <4>1, <4>2
    <3>2. merged = e(merged)
      <4> HIDE DEF e, h
      <4> QED BY <3>1
    \* The recursion has no other solution.
    <3> DEFINE B == {k \in Nat : k < n => merged[k + 1] = g[k]}
    <3>3. \A i \in 1..n : merged[i] = IF i = 1 THEN <<sorted[1]>> ELSE Merged(merged[i - 1], sorted[i])
      <4> HIDE DEF merged
      <4> QED BY <2>1, <3>2
    <3> HIDE DEF merged, e
    <3>4. 0 \in B
      <4>1. 1 \in 1..n /\ 0 + 1 = 1
        BY <2>1
      <4>2. merged[1] = <<sorted[1]>> /\ g[0] = <<sorted[1]>>
        BY <2>7, <3>3, <4>1
      <4> QED BY <4>1, <4>2
    <3>5. ASSUME NEW k \in B PROVE k + 1 \in B
      <4> SUFFICES ASSUME k + 1 < n PROVE merged[(k + 1) + 1] = g[k + 1]
        OBVIOUS
      <4>1. (k + 1) + 1 \in 1..n /\ (k + 1) + 1 # 1 /\ ((k + 1) + 1) - 1 = k + 1 /\ (k + 1) + 1 = k + 2 /\ k < n
        BY <2>1
      <4>2. merged[(k + 1) + 1] = Merged(merged[k + 1], sorted[k + 2])
        BY <3>3, <4>1
      <4>3. k \in A
        BY <2>10
      <4>4. g[k + 1] = Merged(g[k], sorted[k + 2])
        <5> HIDE DEF After, A
        <5> QED BY <2>9, <4>3
      <4> QED BY <4>1, <4>2, <4>4
    <3>6. B = Nat
      <4> HIDE DEF B
      <4> QED BY <3>4, <3>5, Induction DEF B
    <3>7. n - 1 \in B /\ n - 1 < n /\ (n - 1) + 1 = n
      BY <2>1, <3>6
    <3> QED BY <3>2, <3>7
  <2> HIDE DEF merged
  <2>12. n - 1 \in A /\ n - 1 < n /\ (n - 1) + 1 = n /\ n - 1 \in Nat
    BY <2>1, <2>10
  <2>13. After(n - 1) /\ g[n - 1] \in Seq(Interval)
    BY <2>7, <2>12
  <2>14. \A a : (\E i \in 1..n : a \in Within(sorted[i])) <=> \E x \in S : a \in Within(x)
    BY <2>2, <2>4
  <2>15. Apart(g[n - 1]) /\ \A a \in 0..Top : Contains(g[n - 1], a) <=> \E i \in 1..n : a \in Within(sorted[i])
    BY <2>12, <2>13
  <2>16. Normalize(S) = g[n - 1]
    BY <2>3, <2>11
  <2> HIDE DEF After, A
  <2> QED BY <2>13, <2>14, <2>15, <2>16
<1> QED BY <1>1, <1>2

\* Quotient and remainder.
LEMMA Division ==
  ASSUME NEW a \in Nat, NEW k \in Nat \ {0}
  PROVE  /\ a \div k \in Nat /\ a % k \in 0..k-1
         /\ a = k * (a \div k) + (a % k)
         /\ a - (a % k) = k * (a \div k)
         /\ k * (a \div k) \in Nat /\ k * (a \div k) <= a /\ a < k * (a \div k) + k
<1>1. a \div k \in Nat /\ a % k \in 0..k-1 /\ a = k * (a \div k) + (a % k)
  OBVIOUS
<1>2. a \div k \in Nat => k * (a \div k) \in Nat
  OBVIOUS
<1> DEFINE m == k * (a \div k)
           r == a % k
<1>3. m \in Nat /\ r \in 0..k-1 /\ a = m + r
  BY <1>1, <1>2
<1>4. a - r = m /\ m <= a /\ a < m + k
  <2> HIDE DEF m, r
  <2> QED BY <1>3
<1> QED BY <1>1, <1>3, <1>4

\* The quotient is the multiple below a number.
LEMMA Quotient ==
  ASSUME NEW a \in Nat, NEW k \in Nat \ {0}, NEW d \in Nat, k * d <= a, a < k * d + k
  PROVE  a \div k = d
<1> DEFINE e == a \div k
<1>1. e \in Nat /\ k * e <= a /\ a < k * e + k
  BY Division
<1> HIDE DEF e
<1>2. ASSUME e + 1 <= d PROVE FALSE
  <2>1. k * (e + 1) <= k * d
    BY <1>1, <1>2
  <2>2. k * (e + 1) = k * e + k
    BY <1>1
  <2> QED BY <1>1, <2>1, <2>2
<1>3. ASSUME d + 1 <= e PROVE FALSE
  <2>1. k * (d + 1) <= k * e
    BY <1>1, <1>3
  <2>2. k * (d + 1) = k * d + k
    BY <1>1
  <2> QED BY <1>1, <2>1, <2>2
<1>4. e = d
  BY <1>1, <1>2, <1>3
<1> QED BY <1>4 DEF e

\* A block of 2^(W - bits) addresses lies within the address space.
LEMMA BlockFits ==
  ASSUME NEW b \in 0..W
  PROVE  /\ W - b \in Nat /\ Power[W - b] \in Nat \ {0} /\ Power[b] \in Nat \ {0}
         /\ Power[W - b] * Power[b] = Top + 1
         /\ b # 0 => Power[W - b] <= Top
         /\ b = 0 => Power[W - b] = Top + 1
         /\ \A d \in Nat : Power[W - b] * d <= Top => Power[W - b] * d + Power[W - b] <= Top + 1
<1> DEFINE k == Power[W - b]
           p == Power[b]
<1>1. W - b \in Nat /\ b \in Nat /\ (W - b) + b = W /\ Top \in Nat /\ Power[W] = Top + 1
  BY WidthAssumption, TopType
<1>2. k \in Nat \ {0} /\ p \in Nat \ {0}
  BY <1>1, PowerPositive
<1>3. k * p = Top + 1
  BY <1>1, PowerSum
<1>4. b = 0 => k = Top + 1
  BY <1>1
<1>5. ASSUME b # 0 PROVE p >= 2
  <2>1. b - 1 \in Nat /\ (b - 1) + 1 = b
    BY <1>1, <1>5
  <2>2. p = 2 * Power[b - 1] /\ Power[b - 1] \in Nat \ {0}
    BY <2>1, Powers, PowerPositive
  <2> QED BY <2>2
<1> HIDE DEF k, p
<1>6. ASSUME p >= 2 PROVE k <= Top
  <2>1. k * 2 <= k * p
    BY <1>2, <1>6
  <2> QED BY <1>1, <1>2, <1>3, <2>1
<1>7. ASSUME NEW d \in Nat, k * d <= Top PROVE k * d + k <= Top + 1
  <2>1. d < p
    <3> SUFFICES ASSUME p <= d PROVE FALSE
      BY <1>2
    <3>1. k * p <= k * d
      BY <1>2
    <3>2. k * d \in Nat
      BY <1>2
    <3> QED BY <1>1, <1>3, <1>7, <3>1, <3>2
  <2>2. k * (d + 1) <= k * p
    BY <1>2, <2>1
  <2>3. k * (d + 1) = k * d + k
    BY <1>2
  <2> QED BY <1>3, <2>2, <2>3
<1> QED BY <1>1, <1>2, <1>3, <1>4, <1>5, <1>6, <1>7 DEF k, p

\* What a CIDR stands for, in words that wrap, at both ends of the address space.
LEMMA IntervalOfFacts ==
  ASSUME NEW c \in Cidr
  PROVE  /\ IntervalOf(c) \in Interval
         /\ \A a \in 0..Top : a \in Within(IntervalOf(c)) <=> a \in Block(c)
<1> DEFINE k == Power[W - c.bits]
           d == c.addr \div k
           x == IntervalOf(c)
<1>1. c.addr \in 0..Top /\ c.bits \in 0..W
  BY DEF Cidr
<1>2. /\ k \in Nat \ {0} /\ Top \in Nat /\ Power[W] = Top + 1
      /\ c.bits # 0 => k <= Top
      /\ c.bits = 0 => k = Top + 1
      /\ \A e \in Nat : k * e <= Top => k * e + k <= Top + 1
  BY <1>1, BlockFits, TopType
<1>3. d \in Nat /\ c.addr - (c.addr % k) = k * d /\ k * d \in Nat /\ k * d <= c.addr
  <2>1. c.addr \in Nat
    BY <1>1, <1>2
  <2> HIDE DEF k
  <2> QED BY <2>1, <1>2, Division
<1>4. k * d + k <= Top + 1
  <2>1. k * d <= Top
    <3> HIDE DEF k, d
    <3> QED BY <1>1, <1>2, <1>3
  <2> HIDE DEF d
  <2> HIDE DEF k
  <2> QED BY <2>1, <1>2, <1>3
<1>5. Word(Word(k) - 1) = k - 1
  <2>1. CASE c.bits = 0
    <3>1. k = Top + 1
      BY <1>2, <2>1
    <3>2. Word(k) = 0
      <4> HIDE DEF k
      <4> QED BY <1>2, <3>1 DEF Word
    <3>3. Word(0 - 1) = Top
      BY <1>2 DEF Word
    <3> HIDE DEF k
    <3> QED BY <1>2, <3>1, <3>2, <3>3
  <2>2. CASE c.bits # 0
    <3>1. k \in 0..Top /\ k - 1 \in 0..Top
      <4>1. k <= Top
        BY <1>2, <2>2
      <4> HIDE DEF k
      <4> QED BY <1>2, <4>1
    <3> HIDE DEF k
    <3> QED BY <3>1, SmallWords
  <2> QED BY <2>1, <2>2
<1>6. x = [lo |-> k * d, hi |-> k * d + (k - 1)]
  <2>1. k * d + (k - 1) \in 0..Top
    <3> HIDE DEF k, d
    <3> QED BY <1>2, <1>3, <1>4
  <2>2. x = [lo |-> k * d, hi |-> Word(k * d + (k - 1))]
    BY <1>3, <1>5 DEF IntervalOf
  <2> HIDE DEF k, d, x
  <2> QED BY <2>1, <2>2, SmallWords
<1>7. x \in Interval
  <2> HIDE DEF k, d, x
  <2>1. k * d \in 0..Top /\ k * d + (k - 1) \in 0..Top /\ k * d <= k * d + (k - 1)
    BY <1>2, <1>3, <1>4
  <2> QED BY <1>6, <2>1 DEF Interval
<1>8. ASSUME NEW a \in 0..Top PROVE a \in Within(x) <=> a \in Block(c)
  <2>1. a \in Block(c) <=> a \div k = d
    BY DEF Block
  <2>2. a \in Nat
    BY <1>2
  <2> HIDE DEF k, d, x
  <2>3. a \in Within(x) <=> k * d <= a /\ a < k * d + k
    BY <1>2, <1>3, <1>6, <2>2 DEF Within
  <2>4. k * d <= a /\ a < k * d + k <=> a \div k = d
    <3>1. a \div k = d => k * d <= a /\ a < k * d + k
      BY <1>2, <2>2, Division
    <3>2. k * d <= a /\ a < k * d + k => a \div k = d
      BY <1>2, <1>3, <2>2, Quotient
    <3> QED BY <3>1, <3>2
  <2> QED BY <2>1, <2>3, <2>4
<1> QED BY <1>7, <1>8

\* There are finitely many intervals.
LEMMA IntervalSets == \A S \in SUBSET Interval : IsFiniteSet(S)
<1>1. IsFiniteSet((0..Top) \X (0..Top))
  <2> DEFINE words == 0..Top
  <2>1. IsFiniteSet(words)
    BY TopType, FS_Interval
  <2> HIDE DEF words
  <2> QED BY <2>1, FS_Product DEF words
<1> DEFINE f == [x \in Interval |-> <<x.lo, x.hi>>]
<1>2. f \in Injection(Interval, (0..Top) \X (0..Top))
  BY DEF Injection, IsInjective, Interval
<1>3. IsFiniteSet(Interval)
  <2> HIDE DEF f
  <2> QED BY <1>1, <1>2, FS_Injection
<1> QED BY <1>3, FS_Subset

\* Parse is the addresses that share the leading bits of one of the CIDRs.
LEMMA ParseFacts ==
  ASSUME NEW l \in Seq(Cidr)
  PROVE  /\ Parse(l) \in Seq(Interval) /\ Apart(Parse(l))
         /\ Covered(l) \in SUBSET (0..Top)
         /\ \A a \in 0..Top : Contains(Parse(l), a) <=> a \in Covered(l)
<1> DEFINE S == {IntervalOf(l[i]) : i \in DOMAIN l}
<1>1. \A i \in DOMAIN l : l[i] \in Cidr
  OBVIOUS
<1>2. S \in SUBSET Interval /\ IsFiniteSet(S)
  BY <1>1, IntervalOfFacts, IntervalSets
<1>3. Parse(l) = Normalize(S)
  BY DEF Parse
<1>4. ASSUME NEW a \in 0..Top PROVE (\E x \in S : a \in Within(x)) <=> a \in Covered(l)
  <2>1. \A i \in DOMAIN l : a \in Within(IntervalOf(l[i])) <=> a \in Block(l[i])
    BY <1>1, IntervalOfFacts
  <2>2. (\E x \in S : a \in Within(x)) <=> \E i \in DOMAIN l : a \in Within(IntervalOf(l[i]))
    OBVIOUS
  <2> QED BY <2>1, <2>2 DEF Covered
<1>5. Covered(l) \in SUBSET (0..Top)
  BY DEF Covered, Block
<1> HIDE DEF S
<1> QED BY <1>2, <1>3, <1>4, <1>5, NormalizeFacts

\* The union of two sets holds what one of them holds.
LEMMA UnionFacts ==
  ASSUME NEW s \in Seq(Interval), NEW t \in Seq(Interval)
  PROVE  /\ Union(s, t) \in Seq(Interval) /\ Apart(Union(s, t))
         /\ \A a \in 0..Top : Contains(Union(s, t), a) <=> Contains(s, a) \/ Contains(t, a)
<1> DEFINE S == {s[i] : i \in DOMAIN s} \cup {t[j] : j \in DOMAIN t}
<1>1. S \in SUBSET Interval /\ IsFiniteSet(S)
  <2>1. S \in SUBSET Interval
    OBVIOUS
  <2> HIDE DEF S
  <2> QED BY <2>1, IntervalSets
<1>2. ASSUME NEW a \in 0..Top PROVE (\E x \in S : a \in Within(x)) <=> Contains(s, a) \/ Contains(t, a)
  <2>1. \A x \in Interval : a \in Within(x) <=> x.lo <= a /\ a <= x.hi
    BY TopType DEF Within, Interval
  <2>2. \A x \in S : x \in Interval
    BY <1>1
  <2> QED BY <2>1, <2>2 DEF Contains
<1>3. Union(s, t) = Normalize(S)
  BY DEF Union
<1> HIDE DEF S
<1> QED BY <1>1, <1>2, <1>3, NormalizeFacts

\* The intersection holds what both hold.
LEMMA IntersectFacts ==
  ASSUME NEW s \in Seq(Interval), NEW t \in Seq(Interval)
  PROVE  /\ Intersect(s, t) \in Seq(Interval) /\ Apart(Intersect(s, t))
         /\ \A a \in 0..Top : Contains(Intersect(s, t), a) <=> Contains(s, a) /\ Contains(t, a)
<1> DEFINE overlap(x, y) == [lo |-> IF y.lo > x.lo THEN y.lo ELSE x.lo,
                             hi |-> IF y.hi < x.hi THEN y.hi ELSE x.hi]
           S == {iv \in {overlap(s[i], t[j]) : i \in DOMAIN s, j \in DOMAIN t} : iv.lo <= iv.hi}
<1>1. Intersect(s, t) = Normalize(S)
  BY DEF Intersect
<1>2. \A i \in DOMAIN s : s[i] \in Interval
  OBVIOUS
<1>3. \A j \in DOMAIN t : t[j] \in Interval
  OBVIOUS
<1>4. ASSUME NEW x \in Interval, NEW y \in Interval
      PROVE  /\ overlap(x, y).lo <= overlap(x, y).hi => overlap(x, y) \in Interval
             /\ \A a \in 0..Top : overlap(x, y).lo <= a /\ a <= overlap(x, y).hi
                                    <=> x.lo <= a /\ a <= x.hi /\ y.lo <= a /\ a <= y.hi
  <2>1. x.lo \in 0..Top /\ x.hi \in 0..Top /\ y.lo \in 0..Top /\ y.hi \in 0..Top
    BY DEF Interval
  <2> DEFINE lo == IF y.lo > x.lo THEN y.lo ELSE x.lo
             hi == IF y.hi < x.hi THEN y.hi ELSE x.hi
  <2>2. lo \in 0..Top /\ hi \in 0..Top
    BY <2>1
  <2>3. overlap(x, y) = [lo |-> lo, hi |-> hi] /\ overlap(x, y).lo = lo /\ overlap(x, y).hi = hi
    OBVIOUS
  <2>4. \A a \in 0..Top : lo <= a /\ a <= hi <=> x.lo <= a /\ a <= x.hi /\ y.lo <= a /\ a <= y.hi
    BY <2>1, TopType
  <2> HIDE DEF lo, hi, overlap
  <2>5. lo <= hi => overlap(x, y) \in Interval
    BY <2>2, <2>3 DEF Interval
  <2> QED BY <2>3, <2>4, <2>5
<1> HIDE DEF overlap
<1>5. S \in SUBSET Interval /\ IsFiniteSet(S)
  <2>1. S \in SUBSET Interval
    BY <1>2, <1>3, <1>4
  <2> HIDE DEF S
  <2> QED BY <2>1, IntervalSets
<1>6. ASSUME NEW a \in 0..Top PROVE (\E x \in S : a \in Within(x)) <=> Contains(s, a) /\ Contains(t, a)
  <2>1. \A x \in Interval : a \in Within(x) <=> x.lo <= a /\ a <= x.hi
    BY TopType DEF Within, Interval
  <2>2. ASSUME NEW x \in S, a \in Within(x) PROVE Contains(s, a) /\ Contains(t, a)
    <3>1. PICK i \in DOMAIN s, j \in DOMAIN t : x = overlap(s[i], t[j])
      OBVIOUS
    <3>2. x.lo <= a /\ a <= x.hi
      <4> HIDE DEF S
      <4> QED BY <1>5, <2>1, <2>2
    <3> QED BY <1>2, <1>3, <1>4, <3>1, <3>2 DEF Contains
  <2>3. ASSUME Contains(s, a), Contains(t, a) PROVE \E x \in S : a \in Within(x)
    <3>1. PICK i \in DOMAIN s : s[i].lo <= a /\ a <= s[i].hi
      BY <2>3 DEF Contains
    <3>2. PICK j \in DOMAIN t : t[j].lo <= a /\ a <= t[j].hi
      BY <2>3 DEF Contains
    <3> DEFINE x == overlap(s[i], t[j])
    <3>3. x.lo <= a /\ a <= x.hi
      BY <1>2, <1>3, <1>4, <3>1, <3>2
    <3>4. s[i].lo \in 0..Top /\ s[i].hi \in 0..Top /\ t[j].lo \in 0..Top /\ t[j].hi \in 0..Top
      BY <1>2, <1>3 DEF Interval
    <3>5. x.lo \in 0..Top /\ x.hi \in 0..Top
      BY <3>4 DEF overlap
    <3>6. x.lo <= x.hi
      <4> HIDE DEF x
      <4> QED BY <3>3, <3>5, TopType
    <3>7. x \in S
      <4>1. x \in {overlap(s[ii], t[jj]) : ii \in DOMAIN s, jj \in DOMAIN t}
        OBVIOUS
      <4> HIDE DEF x
      <4> QED BY <3>6, <4>1
    <3> HIDE DEF S, x
    <3>8. a \in Within(x)
      BY <1>5, <2>1, <3>3, <3>7
    <3> QED BY <3>7, <3>8
  <2> QED BY <2>2, <2>3
<1> HIDE DEF S
<1> QED BY <1>1, <1>5, <1>6, NormalizeFacts

\* Of lists that are apart, only the one interval covers the whole space.
LEMMA CoversAllFacts ==
  ASSUME NEW s \in Seq(Interval), Apart(s)
  PROVE  CoversAll(s) <=> \A a \in 0..Top : Contains(s, a)
<1> DEFINE all == [lo |-> 0, hi |-> Top]
<1>1. \A i \in DOMAIN s : s[i] \in Interval /\ s[i].lo \in 0..Top /\ s[i].hi \in 0..Top /\ s[i].lo <= s[i].hi
  BY DEF Interval
<1>2. ASSUME CoversAll(s) PROVE \A a \in 0..Top : Contains(s, a)
  <2>1. 1 \in DOMAIN s /\ s[1].lo = 0 /\ s[1].hi = Top
    BY <1>2 DEF CoversAll
  <2> QED BY <2>1, TopType DEF Contains
<1>3. ASSUME \A a \in 0..Top : Contains(s, a) PROVE CoversAll(s)
  <2>1. PICK i \in DOMAIN s : s[i].lo <= 0 /\ 0 <= s[i].hi
    BY <1>3, TopType DEF Contains
  <2>2. s[i].lo = 0
    BY <1>1, <2>1, TopType
  <2>3. ASSUME s[i].hi # Top PROVE FALSE
    <3>1. s[i].hi + 1 \in 0..Top
      BY <1>1, <2>3, TopType
    <3>2. PICK j \in DOMAIN s : s[j].lo <= s[i].hi + 1 /\ s[i].hi + 1 <= s[j].hi
      BY <1>3, <3>1 DEF Contains
    <3>3. i \in Int /\ j \in Int
      OBVIOUS
    <3>4. CASE i < j
      <4>1. s[i].hi + 1 < s[j].lo
        BY <3>4 DEF Apart
      <4> QED BY <1>1, <3>2, <4>1, TopType
    <3>5. CASE j < i
      <4>1. s[j].hi + 1 < s[i].lo
        BY <3>5 DEF Apart
      <4> QED BY <1>1, <2>2, <4>1, TopType
    <3>6. CASE i = j
      BY <1>1, <3>2, <3>6, TopType
    <3> QED BY <3>3, <3>4, <3>5, <3>6
  <2>4. s[i] = all
    <3>1. s[i].hi = Top
      BY <2>3
    <3> QED BY <1>1, <2>2, <3>1 DEF Interval
  <2>5. ASSUME NEW j \in DOMAIN s, j # i PROVE FALSE
    <3>1. i \in Int /\ j \in Int
      OBVIOUS
    <3>2. CASE i < j
      <4>1. Top + 1 < s[j].lo
        BY <2>4, <3>2 DEF Apart
      <4> QED BY <1>1, <4>1, TopType
    <3>3. CASE j < i
      <4>1. s[j].hi + 1 < 0
        BY <2>4, <3>3 DEF Apart
      <4> QED BY <1>1, <4>1, TopType
    <3> QED BY <2>5, <3>1, <3>2, <3>3
  <2>6. Len(s) = 1 /\ i = 1
    <3>1. Len(s) \in Nat /\ DOMAIN s = 1..Len(s)
      OBVIOUS
    <3>2. 1 \in DOMAIN s /\ Len(s) \in DOMAIN s
      BY <2>1, <3>1
    <3>3. i = 1 /\ i = Len(s)
      BY <2>5, <3>2
    <3> QED BY <3>3
  <2>7. s = <<all>>
    BY <2>4, <2>6
  <2> QED BY <2>7 DEF CoversAll
<1> QED BY <1>2, <1>3

-----------------------------------------------------------------------------
Lists == left \in Seq(Cidr) /\ right \in Seq(Cidr)

\* The machine puts together two lists of blocks, and nothing else.
LEMMA ListsInvariant == Spec => []Lists
<1>1. Init => Lists
  BY DEF Init, Lists
<1>2. Lists /\ [Next]_vars => Lists'
  <2> SUFFICES ASSUME Lists, [Next]_vars PROVE Lists'
    OBVIOUS
  <2>1. CASE AddLeft
    <3>1. PICK c \in Cidr : left' = Append(left, c) /\ right' = right
      BY <2>1 DEF AddLeft
    <3> QED BY <3>1 DEF Lists
  <2>2. CASE AddRight
    <3>1. PICK c \in Cidr : right' = Append(right, c) /\ left' = left
      BY <2>2 DEF AddRight
    <3> QED BY <3>1 DEF Lists
  <2>3. CASE UNCHANGED vars
    BY <2>3 DEF Lists, vars
  <2> QED BY <2>1, <2>2, <2>3 DEF Next
<1> QED BY <1>1, <1>2, PTL DEF Spec

\* Of any two lists: the operations on their sets are exact.
LEMMA ExactLists == Lists => OperationsAreExact
<1> SUFFICES ASSUME Lists PROVE OperationsAreExact
  OBVIOUS
<1> DEFINE s == Parse(left)
           t == Parse(right)
<1>1. /\ s \in Seq(Interval) /\ Apart(s) /\ Covered(left) \in SUBSET (0..Top)
      /\ \A a \in 0..Top : Contains(s, a) <=> a \in Covered(left)
  BY ParseFacts DEF Lists
<1>2. /\ t \in Seq(Interval) /\ Apart(t) /\ Covered(right) \in SUBSET (0..Top)
      /\ \A a \in 0..Top : Contains(t, a) <=> a \in Covered(right)
  BY ParseFacts DEF Lists
<1> HIDE DEF s, t
<1>3. Members(s) = Covered(left)
  BY <1>1 DEF Members
<1>4. \A i, j \in DOMAIN s : i < j => s[i].hi + 1 < s[j].lo
  BY <1>1 DEF Apart
<1>5. \A i \in DOMAIN s : s[i].lo <= s[i].hi
  <2>1. \A i \in DOMAIN s : s[i] \in Interval
    BY <1>1
  <2> QED BY <2>1 DEF Interval
<1>6. /\ Union(s, t) \in Seq(Interval) /\ Apart(Union(s, t))
      /\ \A a \in 0..Top : Contains(Union(s, t), a) <=> Contains(s, a) \/ Contains(t, a)
  BY <1>1, <1>2, UnionFacts
<1>7. Members(Union(s, t)) = Covered(left) \cup Covered(right)
  BY <1>1, <1>2, <1>6 DEF Members
<1>8. \A a \in 0..Top : Contains(Intersect(s, t), a) <=> Contains(s, a) /\ Contains(t, a)
  BY <1>1, <1>2, IntersectFacts
<1>9. Members(Intersect(s, t)) = Covered(left) \cap Covered(right)
  BY <1>1, <1>2, <1>8 DEF Members
<1>10. CoversAll(Union(s, t)) <=> Covered(left) \cup Covered(right) = 0..Top
  <2>1. CoversAll(Union(s, t)) <=> \A a \in 0..Top : Contains(Union(s, t), a)
    BY <1>6, CoversAllFacts
  <2> QED BY <1>1, <1>2, <1>6, <2>1
<1> QED BY <1>3, <1>4, <1>5, <1>7, <1>9, <1>10 DEF OperationsAreExact, s, t

\* The address sets are exact: what a parsed list, a union, an intersection and
\* the test for everything say (netset.go 31-158) is so of
\* the addresses themselves, for words of any width and lists of any length.
THEOREM OperationsExact == Spec => []OperationsAreExact
BY ListsInvariant, ExactLists, PTL

-----------------------------------------------------------------------------
(* A recursive definition in which each value depends on values of lower   *)
(* rank has a solution, so the function TLA+ chooses for it is one.        *)

Lowers(D, R, rank, e) ==
  \A f, g \in [D -> R] : \A x \in D :
    (\A y \in D : rank[y] < rank[x] => f[y] = g[y]) => e[f][x] = e[g][x]

HasSolution(D, R, e) == \E f \in [D -> R] : f = e[f]

\* What a recursive definition maps to a value that depends on lower ranks only
\* has a fixed point.
LEMMA Recursion ==
  ASSUME NEW D, NEW R, NEW c \in [D -> R], NEW rank \in [D -> Nat],
         NEW e \in [[D -> R] -> [D -> R]], Lowers(D, R, rank, e)
  PROVE  HasSolution(D, R, e)
<1> DEFINE T == [D -> R]
           step == [k \in Nat |-> e]
<1>1. PICK h : Iterates(h, T, c, step)
  <2>1. c \in T /\ step \in Steps(T)
    BY DEF Steps
  <2> HIDE DEF T, step
  <2> QED BY <2>1, Iteration
<1>2. \A k \in Nat : h[k] \in T /\ h[k + 1] = e[h[k]]
  BY <1>1 DEF Iterates
<1> HIDE DEF T
<1> DEFINE A == {k \in Nat : \A x \in D : rank[x] < k => h[k + 1][x] = h[k][x]}
<1>3. A = Nat
  <2>1. 0 \in A
    OBVIOUS
  <2>2. ASSUME NEW k \in A PROVE k + 1 \in A
    <3> SUFFICES ASSUME NEW x \in D, rank[x] < k + 1 PROVE h[(k + 1) + 1][x] = h[k + 1][x]
      OBVIOUS
    <3>1. \A y \in D : rank[y] < rank[x] => h[k + 1][y] = h[k][y]
      BY <2>2
    <3>2. h[k + 1] \in T /\ h[k] \in T
      BY <1>2
    <3>3. e[h[k + 1]][x] = e[h[k]][x]
      BY <3>1, <3>2 DEF Lowers, T
    <3> QED BY <1>2, <3>3
  <2> HIDE DEF A
  <2> QED BY <2>1, <2>2, Induction DEF A
<1>4. ASSUME NEW x \in D, NEW n \in Nat, rank[x] < n PROVE h[n][x] = h[rank[x] + 1][x]
  <2> DEFINE m == rank[x] + 1
             B == {j \in Nat : h[m + j][x] = h[m][x]}
  <2>0. m \in Nat /\ rank[x] < m
    OBVIOUS
  <2>1. 0 \in B
    BY <2>0
  <2>2. ASSUME NEW j \in B PROVE j + 1 \in B
    <3>1. m + j \in Nat /\ rank[x] < m + j /\ m + (j + 1) = (m + j) + 1
      OBVIOUS
    <3>2. h[(m + j) + 1][x] = h[m + j][x]
      BY <1>3, <3>1
    <3> HIDE DEF m
    <3> QED BY <3>1, <3>2
  <2>3. B = Nat
    <3> HIDE DEF B
    <3> QED BY <2>1, <2>2, Induction DEF B
  <2>4. n - m \in Nat /\ m + (n - m) = n
    BY <1>4
  <2> HIDE DEF m
  <2>5. n - m \in B
    BY <2>3, <2>4
  <2>6. h[m + (n - m)][x] = h[m][x]
    BY <2>5
  <2> QED BY <2>4, <2>6 DEF m
<1> DEFINE F == [x \in D |-> h[rank[x] + 1][x]]
<1>5. F \in T
  BY <1>2 DEF T
<1>6. ASSUME NEW x \in D PROVE e[F][x] = F[x]
  <2>1. \A y \in D : rank[y] < rank[x] => F[y] = h[rank[x]][y]
    BY <1>4
  <2>2. h[rank[x]] \in T
    BY <1>2
  <2>3. e[F][x] = e[h[rank[x]]][x]
    <3> HIDE DEF F
    <3> QED BY <1>5, <2>1, <2>2 DEF Lowers, T
  <2> QED BY <1>2, <2>3
<1>7. e[F] \in T
  BY <1>5 DEF T
<1> HIDE DEF F
<1> QED BY <1>5, <1>6, <1>7 DEF T, HasSolution

\* Where an interval of s lies, t has one that begins no later.
LEMMA BeginsNoLater ==
  ASSUME NEW s \in Seq(Interval), NEW t \in Seq(Interval), Apart(s), Apart(t),
         \A a \in 0..Top : Contains(s, a) => Contains(t, a),
         NEW k \in DOMAIN s, k - 1 <= Len(t), \A j \in 1..k-1 : s[j] = t[j]
  PROVE  k \in DOMAIN t /\ t[k].lo <= s[k].lo
<1>1. /\ \A i \in DOMAIN s : s[i].lo \in 0..Top /\ s[i].hi \in 0..Top /\ s[i].lo <= s[i].hi
      /\ \A i \in DOMAIN t : t[i].lo \in 0..Top /\ t[i].hi \in 0..Top /\ t[i].lo <= t[i].hi
  BY DEF Interval
<1>2. Contains(s, s[k].lo)
  BY <1>1, TopType DEF Contains
<1>3. PICK j \in DOMAIN t : t[j].lo <= s[k].lo /\ s[k].lo <= t[j].hi
  BY <1>1, <1>2 DEF Contains
<1>4. j \in Nat \ {0} /\ k \in Nat \ {0} /\ DOMAIN s = 1..Len(s) /\ DOMAIN t = 1..Len(t) /\ Len(t) \in Nat /\ Len(s) \in Nat
  OBVIOUS
<1>5. ASSUME j < k PROVE FALSE
  <2>1. s[j] = t[j] /\ j \in DOMAIN s
    BY <1>4, <1>5
  <2>2. s[j].hi + 1 < s[k].lo
    BY <1>5, <2>1 DEF Apart
  <2> QED BY <1>1, <1>3, <2>1, <2>2, TopType
<1>6. k <= j
  BY <1>4, <1>5
<1>7. k \in DOMAIN t
  BY <1>4, <1>6
<1>8. CASE k < j
  <2>1. t[k].hi + 1 < t[j].lo
    BY <1>7, <1>8 DEF Apart
  <2> QED BY <1>1, <1>3, <1>7, <2>1, TopType
<1>9. CASE k = j
  BY <1>3, <1>7, <1>9
<1> QED BY <1>4, <1>6, <1>8, <1>9

\* Nor does it end later.
LEMMA EndsNoLater ==
  ASSUME NEW s \in Seq(Interval), NEW t \in Seq(Interval), Apart(s),
         \A a \in 0..Top : Contains(t, a) => Contains(s, a),
         NEW k \in DOMAIN s, k \in DOMAIN t, t[k].lo = s[k].lo
  PROVE  t[k].hi <= s[k].hi
<1>1. /\ \A i \in DOMAIN s : s[i].lo \in 0..Top /\ s[i].hi \in 0..Top /\ s[i].lo <= s[i].hi
      /\ \A i \in DOMAIN t : t[i].lo \in 0..Top /\ t[i].hi \in 0..Top /\ t[i].lo <= t[i].hi
  BY DEF Interval
<1> SUFFICES ASSUME s[k].hi < t[k].hi PROVE FALSE
  BY <1>1, TopType
<1> DEFINE a == s[k].hi + 1
<1>2. a \in 0..Top /\ t[k].lo <= a /\ a <= t[k].hi
  BY <1>1, TopType
<1>3. Contains(s, a)
  BY <1>2 DEF Contains
<1>4. PICK j \in DOMAIN s : s[j].lo <= a /\ a <= s[j].hi
  BY <1>3 DEF Contains
<1>5. j \in Int /\ k \in Int
  OBVIOUS
<1>6. CASE j < k
  <2>1. s[j].hi + 1 < s[k].lo
    BY <1>6 DEF Apart
  <2> QED BY <1>1, <1>4, <2>1, TopType
<1>7. CASE k < j
  <2>1. s[k].hi + 1 < s[j].lo
    BY <1>7 DEF Apart
  <2> QED BY <1>1, <1>4, <2>1, TopType
<1>8. CASE j = k
  BY <1>1, <1>4, <1>8, TopType
<1> QED BY <1>5, <1>6, <1>7, <1>8

\* Two lists that are apart and cover the same addresses are the same list.
LEMMA ApartUnique ==
  ASSUME NEW s \in Seq(Interval), NEW t \in Seq(Interval), Apart(s), Apart(t),
         \A a \in 0..Top : Contains(s, a) <=> Contains(t, a)
  PROVE  s = t
<1> DEFINE Same(k) == (k \in DOMAIN s <=> k \in DOMAIN t) /\ (k \in DOMAIN s => s[k] = t[k])
           bad == {k \in Nat \ {0} : ~Same(k)}
<1>1. Len(s) \in Nat /\ Len(t) \in Nat /\ DOMAIN s = 1..Len(s) /\ DOMAIN t = 1..Len(t)
  OBVIOUS
<1>2. bad = {}
  <2> SUFFICES ASSUME bad # {} PROVE FALSE
    OBVIOUS
  <2>1. PICK k \in bad : \A j \in bad : k <= j
    <3>1. bad \in SUBSET Nat
      OBVIOUS
    <3> HIDE DEF bad
    <3> QED BY <3>1, LeastNat
  <2>2. k \in Nat \ {0} /\ ~Same(k) /\ \A j \in 1..k-1 : Same(j)
    BY <2>1
  <2>3. k \in DOMAIN s \/ k \in DOMAIN t
    BY <2>2
  <2>4. k - 1 <= Len(s) /\ k - 1 <= Len(t)
    <3>1. CASE k = 1
      BY <1>1, <3>1
    <3>2. CASE k # 1
      <4>1. Same(k - 1) /\ k - 1 \in 1..k-1
        BY <2>2, <3>2
      <4>2. k - 1 \in DOMAIN s \/ k - 1 \in DOMAIN t
        BY <1>1, <2>2, <2>3, <4>1
      <4>3. k - 1 \in DOMAIN s /\ k - 1 \in DOMAIN t
        BY <4>1, <4>2
      <4> QED BY <1>1, <4>3
    <3> QED BY <3>1, <3>2
  <2>5. \A j \in 1..k-1 : s[j] = t[j] /\ t[j] = s[j]
    BY <1>1, <2>2, <2>4
  <2>6. k \in DOMAIN s /\ k \in DOMAIN t /\ t[k].lo <= s[k].lo /\ s[k].lo <= t[k].lo
    <3>1. k \in DOMAIN s => k \in DOMAIN t /\ t[k].lo <= s[k].lo
      BY <2>4, <2>5, BeginsNoLater
    <3>2. k \in DOMAIN t => k \in DOMAIN s /\ s[k].lo <= t[k].lo
      BY <2>4, <2>5, BeginsNoLater
    <3> QED BY <2>3, <3>1, <3>2
  <2>7. s[k] \in Interval /\ t[k] \in Interval
    BY <2>6
  <2>8. s[k].lo = t[k].lo
    BY <2>6, <2>7, TopType DEF Interval
  <2>9. t[k].hi <= s[k].hi /\ s[k].hi <= t[k].hi
    BY <2>6, <2>8, EndsNoLater
  <2>10. s[k] = t[k]
    <3>1. s[k].hi = t[k].hi
      BY <2>7, <2>9, TopType DEF Interval
    <3>2. \A x \in Interval : x = [lo |-> x.lo, hi |-> x.hi]
      BY DEF Interval
    <3> QED BY <2>7, <2>8, <3>1, <3>2
  <2> QED BY <2>2, <2>6, <2>10
<1>3. \A k \in Nat \ {0} : Same(k)
  BY <1>2
<1>4. Len(s) = Len(t)
  <2>1. Len(s) # 0 => Len(s) \in DOMAIN t
    BY <1>1, <1>3
  <2>2. Len(t) # 0 => Len(t) \in DOMAIN s
    BY <1>1, <1>3
  <2> DEFINE m == Len(s)
             n == Len(t)
  <2>3. m \in Nat /\ n \in Nat /\ (m # 0 => m \in 1..n) /\ (n # 0 => n \in 1..m)
    BY <1>1, <2>1, <2>2
  <2> HIDE DEF m, n
  <2>4. m = n
    BY <2>3
  <2> QED BY <2>4 DEF m, n
<1> QED BY <1>1, <1>3, <1>4

\* Bits is the largest block that begins at lo and ends by hi: there is one.
LEMMA BitsFacts ==
  ASSUME NEW lo \in 0..Top, NEW hi \in 0..Top, lo <= hi
  PROVE  LET bits == Bits(lo, hi) IN
         /\ bits \in 0..W /\ Power[W - bits] \in Nat \ {0}
         /\ Power[W - bits] <= hi - lo + 1 /\ lo % Power[W - bits] = 0
<1> DEFINE fits(b) == Power[W - b] <= hi - lo + 1 /\ lo % Power[W - b] = 0
           F == {b \in 0..W : fits(b)}
<1>1. W \in Nat /\ Top \in Nat
  BY WidthAssumption, TopType
<1>2. W \in F
  <2>1. W \in 0..W /\ W - W = 0 /\ Power[0] = 1
    BY <1>1, Powers
  <2>2. lo % 1 = 0 /\ 1 <= hi - lo + 1
    BY <1>1
  <2> QED BY <2>1, <2>2
<1>3. PICK b \in F : \A d \in F : b <= d
  <2>1. F \in SUBSET Nat /\ F # {}
    <3> HIDE DEF fits
    <3> QED BY <1>1, <1>2
  <2> HIDE DEF F
  <2> QED BY <2>1, LeastNat
<1>4. Bits(lo, hi) = CHOOSE bits \in 0..W : fits(bits) /\ \A d \in 0..W : fits(d) => bits <= d
  BY DEF Bits
<1>5. Bits(lo, hi) \in 0..W /\ fits(Bits(lo, hi))
  <2>1. b \in 0..W /\ fits(b) /\ \A d \in 0..W : fits(d) => b <= d
    BY <1>3
  <2> HIDE DEF fits
  <2> QED BY <1>4, <2>1
<1> QED BY <1>5, BlockFits

\* An aligned block of 2^(W - bits) addresses.
LEMMA AlignedBlock ==
  ASSUME NEW lo \in 0..Top, NEW b \in 0..W, lo % Power[W - b] = 0
  PROVE  \A a \in 0..Top : a \in Block([addr |-> lo, bits |-> b]) <=> lo <= a /\ a < lo + Power[W - b]
<1> DEFINE k == Power[W - b]
           d == lo \div k
<1>1. k \in Nat \ {0} /\ Top \in Nat
  BY BlockFits, TopType
<1>2. lo \in Nat
  BY <1>1
<1>3. d \in Nat /\ lo = k * d
  <2> HIDE DEF k
  <2>1. lo % k = 0
    BY DEF k
  <2> QED BY <1>1, <1>2, <2>1, Division
<1> SUFFICES ASSUME NEW a \in 0..Top
             PROVE  a \in Block([addr |-> lo, bits |-> b]) <=> lo <= a /\ a < lo + k
  OBVIOUS
<1>4. a \in Block([addr |-> lo, bits |-> b]) <=> a \div k = d
  BY DEF Block
<1>5. a \in Nat
  BY <1>1
<1> HIDE DEF k, d
<1>6. a \div k = d => k * d <= a /\ a < k * d + k
  BY <1>1, <1>5, Division
<1>7. k * d <= a /\ a < k * d + k => a \div k = d
  BY <1>1, <1>3, <1>5, Quotient
<1> QED BY <1>3, <1>4, <1>6, <1>7

\* Two lists together cover what each covers.
LEMMA CoveredConcat ==
  ASSUME NEW s \in Seq(Cidr), NEW t \in Seq(Cidr)
  PROVE  s \o t \in Seq(Cidr) /\ Covered(s \o t) = Covered(s) \cup Covered(t)
<1>1. /\ s \o t \in Seq(Cidr) /\ Len(s \o t) = Len(s) + Len(t)
      /\ Len(s) \in Nat /\ Len(t) \in Nat
      /\ \A i \in 1..Len(s) + Len(t) : (s \o t)[i] = IF i <= Len(s) THEN s[i] ELSE t[i - Len(s)]
  OBVIOUS
<1>2. \A i \in 1..Len(s) : i \in 1..Len(s) + Len(t) /\ (s \o t)[i] = s[i]
  BY <1>1
<1>3. \A i \in 1..Len(t) : i + Len(s) \in 1..Len(s) + Len(t) /\ (s \o t)[i + Len(s)] = t[i]
  BY <1>1
<1>4. \A i \in 1..Len(s) + Len(t) : i \in 1..Len(s) \/ (i - Len(s) \in 1..Len(t) /\ (s \o t)[i] = t[i - Len(s)])
  BY <1>1
<1>5. DOMAIN s = 1..Len(s) /\ DOMAIN t = 1..Len(t) /\ DOMAIN (s \o t) = 1..Len(s) + Len(t)
  BY <1>1
<1>6. ASSUME NEW a, a \in Covered(s \o t) PROVE a \in Covered(s) \cup Covered(t)
  <2>1. PICK i \in 1..Len(s) + Len(t) : a \in Block((s \o t)[i])
    BY <1>5, <1>6 DEF Covered
  <2> QED BY <1>2, <1>4, <1>5, <2>1 DEF Covered
<1>7. ASSUME NEW a, a \in Covered(s) PROVE a \in Covered(s \o t)
  <2>1. PICK i \in 1..Len(s) : a \in Block(s[i])
    BY <1>5, <1>7 DEF Covered
  <2> QED BY <1>2, <1>5, <2>1 DEF Covered
<1>8. ASSUME NEW a, a \in Covered(t) PROVE a \in Covered(s \o t)
  <2>1. PICK i \in 1..Len(t) : a \in Block(t[i])
    BY <1>5, <1>8 DEF Covered
  <2> QED BY <1>3, <1>5, <2>1 DEF Covered
<1>9. Covered(s \o t) = Covered(s) \cup Covered(t)
  <2> DEFINE x == Covered(s \o t)
             y == Covered(s)
             z == Covered(t)
  <2>1. \A a : a \in x <=> a \in y \/ a \in z
    BY <1>6, <1>7, <1>8
  <2> HIDE DEF x, y, z
  <2>2. x = y \cup z
    BY <2>1
  <2> QED BY <2>2 DEF x, y, z
<1> QED BY <1>1, <1>9

\* The empty list, and a list of one block.
LEMMA CoveredEnds ==
  /\ <<>> \in Seq(Cidr) /\ Covered(<<>>) = {}
  /\ \A c \in Cidr : <<c>> \in Seq(Cidr) /\ Covered(<<c>>) = Block(c)
<1>1. Covered(<<>>) = {}
  BY DEF Covered
<1>2. ASSUME NEW c \in Cidr PROVE <<c>> \in Seq(Cidr) /\ Covered(<<c>>) = Block(c)
  <2>1. DOMAIN <<c>> = {1} /\ <<c>>[1] = c
    OBVIOUS
  <2> QED BY <2>1 DEF Covered
<1> QED BY <1>1, <1>2

\* The prefixes of an interval cover it.
LEMMA PrefixesOfFacts ==
  ASSUME NEW iv \in Interval
  PROVE  PrefixesOf(iv) \in Seq(Cidr) /\ Covered(PrefixesOf(iv)) = Within(iv)
<1> DEFINE D == 0..(Top + 1)
           hi == iv.hi
           value(f, lo) == IF lo > hi THEN <<>>
                           ELSE LET bits == Bits(lo, hi)
                                IN <<[addr |-> lo, bits |-> bits]>> \o f[lo + Power[W - bits]]
           E(f) == [lo \in D |-> value(f, lo)]
           from == CHOOSE f : f = E(f)
<1>1. Top \in Nat /\ iv.lo \in 0..Top /\ hi \in 0..Top /\ iv.lo <= hi
  BY TopType DEF Interval
<1>2. PrefixesOf(iv) = from[iv.lo]
  BY DEF PrefixesOf
<1> HIDE DEF hi
<1>3. ASSUME NEW lo \in D, ~(lo > hi)
      PROVE  LET bits == Bits(lo, hi)  k == Power[W - bits] IN
             /\ lo \in 0..Top /\ bits \in 0..W /\ k \in Nat \ {0} /\ lo % k = 0
             /\ lo + k <= hi + 1 /\ lo + k \in D
             /\ [addr |-> lo, bits |-> bits] \in Cidr
  <2> DEFINE bits == Bits(lo, hi)
             k == Power[W - bits]
  <2>1. lo \in 0..Top /\ lo <= hi
    BY <1>1, <1>3
  <2>2. bits \in 0..W /\ k \in Nat \ {0} /\ k <= hi - lo + 1 /\ lo % k = 0
    BY <1>1, <2>1, BitsFacts
  <2> HIDE DEF bits, k
  <2>3. lo + k <= hi + 1 /\ lo + k \in D
    BY <1>1, <2>1, <2>2
  <2> QED BY <2>1, <2>2, <2>3 DEF Cidr, bits, k
<1>4. from = E(from)
  <2> DEFINE R == Seq(Cidr)
             rank == [lo \in D |-> (Top + 1) - lo]
             e == [f \in [D -> R] |-> E(f)]
             c == [lo \in D |-> <<>>]
  <2>1. c \in [D -> R] /\ rank \in [D -> Nat]
    BY <1>1, CoveredEnds
  <2>2. e \in [[D -> R] -> [D -> R]]
    <3> SUFFICES ASSUME NEW f \in [D -> R], NEW lo \in D PROVE value(f, lo) \in R
      OBVIOUS
    <3>1. CASE lo > hi
      BY <3>1
    <3>2. CASE ~(lo > hi)
      <4> DEFINE p == [addr |-> lo, bits |-> Bits(lo, hi)]
                 q == f[lo + Power[W - Bits(lo, hi)]]
      <4>1. <<p>> \in R /\ q \in R
        BY <1>3, <3>2, CoveredEnds
      <4>2. value(f, lo) = <<p>> \o q
        BY <3>2
      <4> HIDE DEF p, q
      <4>3. <<p>> \o q \in R
        BY <4>1
      <4> HIDE DEF value
      <4> QED BY <4>2, <4>3
    <3> QED BY <3>1, <3>2
  <2>3. Lowers(D, R, rank, e)
    <3> SUFFICES ASSUME NEW f \in [D -> R], NEW g \in [D -> R], NEW x \in D,
                        \A y \in D : rank[y] < rank[x] => f[y] = g[y]
                 PROVE  e[f][x] = e[g][x]
      BY DEF Lowers
    <3>1. e[f][x] = value(f, x) /\ e[g][x] = value(g, x)
      OBVIOUS
    <3>2. CASE x > hi
      BY <3>1, <3>2
    <3>3. CASE ~(x > hi)
      <4> DEFINE y == x + Power[W - Bits(x, hi)]
      <4>1. y \in D /\ rank[y] < rank[x]
        <5>1. y \in D /\ Power[W - Bits(x, hi)] \in Nat \ {0}
          BY <1>3, <3>3
        <5>2. rank[y] = (Top + 1) - y /\ rank[x] = (Top + 1) - x
          BY <5>1
        <5> DEFINE k == Power[W - Bits(x, hi)]
        <5> HIDE DEF k, rank
        <5>3. x \in Int /\ k \in Nat \ {0}
          BY <5>1 DEF k
        <5>4. (Top + 1) - (x + k) < (Top + 1) - x
          BY <1>1, <5>3
        <5> QED BY <5>1, <5>2, <5>4 DEF k
      <4>2. f[y] = g[y]
        BY <4>1
      <4> QED BY <3>1, <3>3, <4>2
    <3> QED BY <3>2, <3>3
  <2> HIDE DEF D, R, rank, e, c
  <2>4. HasSolution(D, R, e)
    BY <2>1, <2>2, <2>3, Recursion
  <2>5. \E f : f = E(f)
    BY <2>4 DEF e, HasSolution
  <2> HIDE DEF E
  <2> QED BY <2>5
<1> HIDE DEF from
<1>5. \A lo \in D : from[lo] = value(from, lo)
  BY <1>4
<1> DEFINE Good(lo) == from[lo] \in Seq(Cidr) /\ Covered(from[lo]) = lo .. hi
           A == {n \in Nat : \A lo \in D : hi + 1 - lo <= n => Good(lo)}
<1>6. ASSUME NEW lo \in D, lo > hi PROVE Good(lo)
  <2>1. from[lo] = <<>>
    BY <1>5, <1>6
  <2>2. lo .. hi = {}
    BY <1>1, <1>6
  <2> QED BY <2>1, <2>2, CoveredEnds
<1>7. ASSUME NEW lo \in D, ~(lo > hi), Good(lo + Power[W - Bits(lo, hi)]) PROVE Good(lo)
  <2> DEFINE k == Power[W - Bits(lo, hi)]
             p == [addr |-> lo, bits |-> Bits(lo, hi)]
  <2>1. lo \in 0..Top /\ k \in Nat \ {0} /\ lo % k = 0 /\ lo + k <= hi + 1 /\ p \in Cidr /\ Bits(lo, hi) \in 0..W
    BY <1>3, <1>7
  <2>2. from[lo] = <<p>> \o from[lo + k]
    BY <1>5, <1>7
  <2>3. from[lo] \in Seq(Cidr) /\ Covered(from[lo]) = Block(p) \cup ((lo + k) .. hi)
    <3>1. <<p>> \in Seq(Cidr) /\ Covered(<<p>>) = Block(p)
      BY <2>1, CoveredEnds
    <3>2. from[lo + k] \in Seq(Cidr) /\ Covered(from[lo + k]) = (lo + k) .. hi
      BY <1>7
    <3> HIDE DEF p, k
    <3> QED BY <2>2, <3>1, <3>2, CoveredConcat
  <2>4. \A a \in 0..Top : a \in Block(p) <=> lo <= a /\ a < lo + k
    BY <2>1, AlignedBlock
  <2>5. Block(p) \in SUBSET (0..Top)
    BY DEF Block
  <2> HIDE DEF k, p
  <2>6. Block(p) \cup ((lo + k) .. hi) = lo .. hi
    BY <1>1, <2>1, <2>4, <2>5
  <2> QED BY <2>3, <2>6
<1>8. 0 \in A
  <2> SUFFICES ASSUME NEW lo \in D, hi + 1 - lo <= 0 PROVE Good(lo)
    OBVIOUS
  <2>1. lo > hi
    BY <1>1
  <2> QED BY <1>6, <2>1
<1>9. ASSUME NEW n \in A PROVE n + 1 \in A
  <2> SUFFICES ASSUME NEW lo \in D, hi + 1 - lo <= n + 1 PROVE Good(lo)
    OBVIOUS
  <2>1. CASE ~(lo > hi)
    <3> DEFINE k == Power[W - Bits(lo, hi)]
    <3>1. k \in Nat \ {0} /\ lo + k \in D
      BY <1>3, <2>1
    <3>2. hi + 1 - (lo + k) <= n
      <4> HIDE DEF k
      <4> QED BY <1>1, <3>1
    <3>3. Good(lo + k)
      <4> HIDE DEF k, Good
      <4> QED BY <3>1, <3>2
    <3> HIDE DEF Good
    <3> QED BY <1>7, <2>1, <3>3
  <2> HIDE DEF Good
  <2> QED BY <1>6, <2>1
<1>10. A = Nat
  <2> HIDE DEF A
  <2> QED BY <1>8, <1>9, Induction DEF A
<1>11. iv.lo \in D /\ hi + 1 - iv.lo \in A
  <2>1. iv.lo \in D /\ hi + 1 - iv.lo \in Nat
    BY <1>1
  <2> HIDE DEF A
  <2> QED BY <1>10, <2>1
<1>12. Good(iv.lo)
  <2>1. hi + 1 - iv.lo <= hi + 1 - iv.lo
    BY <1>1
  <2> HIDE DEF Good
  <2> QED BY <1>11, <2>1
<1> QED BY <1>2, <1>12 DEF Within, hi

\* Joining the lists of prefixes keeps what each of them covers.
LEMMA FlattenFacts ==
  ASSUME NEW q \in Seq(Seq(Cidr))
  PROVE  /\ Seqs!FlattenSeq(q) \in Seq(Cidr)
         /\ Covered(Seqs!FlattenSeq(q)) = UNION {Covered(q[i]) : i \in DOMAIN q}
<1> DEFINE n == Len(q)
           D == 1..n
<1>1. n \in Nat /\ DOMAIN q = D /\ \A i \in D : q[i] \in Seq(Cidr)
  OBVIOUS
<1>2. CASE n = 0
  <2>1. Seqs!FlattenSeq(q) = q /\ q = <<>>
    BY <1>2 DEF Seqs!FlattenSeq
  <2> QED BY <2>1, CoveredEnds
<1>3. CASE n # 0
  <2> DEFINE R == Seq(Cidr)
             value(f, i) == IF i = 1 THEN q[i] ELSE f[i - 1] \o q[i]
             E(f) == [i \in 1..Len(q) |-> value(f, i)]
             flatten == CHOOSE f : f = E(f)
             rank == [i \in D |-> i]
             e == [f \in [D -> R] |-> E(f)]
             c == [i \in D |-> q[i]]
  <2>1. Seqs!FlattenSeq(q) = flatten[n]
    BY <1>3 DEF Seqs!FlattenSeq
  <2>2. ASSUME NEW i \in D, i # 1 PROVE i - 1 \in D /\ i - 1 < i
    BY <1>1, <2>2
  <2>3. flatten = E(flatten)
    <3>1. c \in [D -> R] /\ rank \in [D -> Nat]
      BY <1>1
    <3>2. e \in [[D -> R] -> [D -> R]]
      <4> SUFFICES ASSUME NEW f \in [D -> R], NEW i \in D PROVE value(f, i) \in R
        OBVIOUS
      <4>1. CASE i = 1
        BY <1>1, <4>1
      <4>2. CASE i # 1
        <5>1. f[i - 1] \in R /\ q[i] \in R
          BY <1>1, <2>2, <4>2
        <5>2. \A x, y \in R : x \o y \in R
          OBVIOUS
        <5> QED BY <4>2, <5>1, <5>2
      <4> QED BY <4>1, <4>2
    <3>3. Lowers(D, R, rank, e)
      <4> SUFFICES ASSUME NEW f \in [D -> R], NEW g \in [D -> R], NEW x \in D,
                          \A y \in D : rank[y] < rank[x] => f[y] = g[y]
                   PROVE  e[f][x] = e[g][x]
        BY DEF Lowers
      <4>1. e[f][x] = value(f, x) /\ e[g][x] = value(g, x)
        OBVIOUS
      <4>2. CASE x = 1
        BY <4>1, <4>2
      <4>3. CASE x # 1
        <5>1. rank[x - 1] < rank[x] /\ x - 1 \in D
          BY <2>2, <4>3
        <5> QED BY <4>1, <4>3, <5>1
      <4> QED BY <4>2, <4>3
    <3> HIDE DEF D, R, rank, e, c
    <3>4. HasSolution(D, R, e)
      BY <3>1, <3>2, <3>3, Recursion
    <3>5. \E f : f = E(f)
      BY <3>4 DEF e, HasSolution
    <3> HIDE DEF E
    <3> QED BY <3>5
  <2> HIDE DEF flatten
  <2>4. \A i \in D : flatten[i] = value(flatten, i)
    BY <2>3
  <2> DEFINE Good(i) == flatten[i] \in R /\ Covered(flatten[i]) = UNION {Covered(q[j]) : j \in 1..i}
             A == {k \in Nat : k < n => Good(k + 1)}
  <2>5. 0 \in A
    <3>1. 1 \in D /\ 0 + 1 = 1 /\ 1..1 = {1}
      BY <1>1, <1>3
    <3>2. flatten[1] = q[1]
      BY <2>4, <3>1
    <3>3. UNION {Covered(q[j]) : j \in {1}} = Covered(q[1])
      OBVIOUS
    <3>4. Good(1)
      BY <1>1, <3>1, <3>2, <3>3
    <3> HIDE DEF Good
    <3> QED BY <3>1, <3>4
  <2>6. ASSUME NEW k \in A PROVE k + 1 \in A
    <3> SUFFICES ASSUME k + 1 < n PROVE Good((k + 1) + 1)
      OBVIOUS
    <3> DEFINE i == (k + 1) + 1
    <3>1. k \in Nat /\ i \in D /\ i # 1 /\ i - 1 = k + 1 /\ k < n
      BY <1>1
    <3>2. Good(k + 1)
      BY <3>1
    <3>3. flatten[i] = flatten[k + 1] \o q[i]
      <4> HIDE DEF i
      <4> QED BY <2>4, <3>1
    <3>4. q[i] \in R
      BY <1>1, <3>1
    <3>5. flatten[i] \in R /\ Covered(flatten[i]) = Covered(flatten[k + 1]) \cup Covered(q[i])
      <4> HIDE DEF i
      <4> QED BY <3>2, <3>3, <3>4, CoveredConcat
    <3>6. 1..i = (1..k+1) \cup {i}
      BY <3>1
    <3> DEFINE U(m) == UNION {Covered(q[j]) : j \in m}
    <3>7. U((1..k+1) \cup {i}) = U(1..k+1) \cup Covered(q[i])
      <4> DEFINE m == 1..k+1
      <4> HIDE DEF m, i
      <4>1. U(m \cup {i}) = U(m) \cup Covered(q[i])
        OBVIOUS
      <4> QED BY <4>1 DEF m
    <3>8. U(1..i) = U(1..k+1) \cup Covered(q[i])
      BY <3>6, <3>7
    <3>9. Covered(flatten[k + 1]) = U(1..k+1)
      BY <3>2
    <3>10. Covered(flatten[i]) = U(1..i)
      <4> HIDE DEF U, i
      <4> QED BY <3>5, <3>8, <3>9
    <3> QED BY <3>5, <3>10
  <2>7. A = Nat
    <3> HIDE DEF A
    <3> QED BY <2>5, <2>6, Induction DEF A
  <2>8. Good(n)
    <3>1. n - 1 \in A /\ n - 1 < n /\ (n - 1) + 1 = n
      <4>1. n - 1 \in Nat /\ n - 1 < n /\ (n - 1) + 1 = n
        BY <1>1, <1>3
      <4> HIDE DEF A
      <4> QED BY <2>7, <4>1
    <3> HIDE DEF Good, n
    <3> QED BY <3>1
  <2> QED BY <1>1, <2>1, <2>8
<1> QED BY <1>2, <1>3

\* The blocks a set is written as cover what the set holds.
LEMMA PrefixesFacts ==
  ASSUME NEW s \in Seq(Interval)
  PROVE  /\ Prefixes(s) \in Seq(Cidr)
         /\ \A a \in 0..Top : a \in Covered(Prefixes(s)) <=> Contains(s, a)
<1> DEFINE q == [i \in DOMAIN s |-> PrefixesOf(s[i])]
<1>1. \A i \in DOMAIN s : s[i] \in Interval
  OBVIOUS
<1>2. q \in Seq(Seq(Cidr)) /\ DOMAIN q = DOMAIN s
  <2>1. \A i \in DOMAIN s : PrefixesOf(s[i]) \in Seq(Cidr)
    BY <1>1, PrefixesOfFacts
  <2>2. Len(s) \in Nat /\ DOMAIN s = 1..Len(s)
    OBVIOUS
  <2> QED BY <2>1, <2>2
<1>3. \A i \in DOMAIN s : Covered(q[i]) = Within(s[i])
  BY <1>1, PrefixesOfFacts
<1>4. Prefixes(s) = Seqs!FlattenSeq(q)
  BY DEF Prefixes
<1> HIDE DEF q
<1>5. Prefixes(s) \in Seq(Cidr) /\ Covered(Prefixes(s)) = UNION {Covered(q[i]) : i \in DOMAIN q}
  BY <1>2, <1>4, FlattenFacts
<1>6. ASSUME NEW a \in 0..Top PROVE a \in Covered(Prefixes(s)) <=> Contains(s, a)
  <2>1. a \in Covered(Prefixes(s)) <=> \E i \in DOMAIN s : a \in Within(s[i])
    BY <1>2, <1>3, <1>5
  <2>2. \A x \in Interval : a \in Within(x) <=> x.lo <= a /\ a <= x.hi
    BY TopType DEF Within, Interval
  <2> QED BY <1>1, <2>1, <2>2 DEF Contains
<1> QED BY <1>5, <1>6

\* Of any two lists: the sets are spelled alike if they are equal.
LEMMA OneSpellingLists == Lists => OneSpelling
<1> SUFFICES ASSUME Lists PROVE OneSpelling
  OBVIOUS
<1> DEFINE s == Parse(left)
           t == Parse(right)
<1>1. /\ s \in Seq(Interval) /\ Apart(s) /\ Covered(left) \in SUBSET (0..Top)
      /\ \A a \in 0..Top : Contains(s, a) <=> a \in Covered(left)
  BY ParseFacts DEF Lists
<1>2. /\ t \in Seq(Interval) /\ Apart(t) /\ Covered(right) \in SUBSET (0..Top)
      /\ \A a \in 0..Top : Contains(t, a) <=> a \in Covered(right)
  BY ParseFacts DEF Lists
<1> HIDE DEF s, t
<1>3. /\ Prefixes(s) \in Seq(Cidr)
      /\ \A a \in 0..Top : a \in Covered(Prefixes(s)) <=> Contains(s, a)
  BY <1>1, PrefixesFacts
<1>4. /\ Prefixes(t) \in Seq(Cidr)
      /\ \A a \in 0..Top : a \in Covered(Prefixes(t)) <=> Contains(t, a)
  BY <1>2, PrefixesFacts
<1>5. ASSUME Equal(s, t) PROVE Covered(left) = Covered(right)
  <2>1. \A a \in 0..Top : a \in Covered(left) <=> a \in Covered(right)
    BY <1>1, <1>2, <1>3, <1>4, <1>5 DEF Equal
  <2> QED BY <1>1, <1>2, <2>1
<1>6. ASSUME Covered(left) = Covered(right) PROVE Equal(s, t)
  <2>1. s = t
    BY <1>1, <1>2, <1>6, ApartUnique
  <2> QED BY <2>1 DEF Equal
<1>7. Parse(Prefixes(s)) = s
  <2> DEFINE u == Parse(Prefixes(s))
  <2>1. u \in Seq(Interval) /\ Apart(u) /\ \A a \in 0..Top : Contains(u, a) <=> a \in Covered(Prefixes(s))
    BY <1>3, ParseFacts
  <2> HIDE DEF u
  <2>2. \A a \in 0..Top : Contains(u, a) <=> Contains(s, a)
    BY <1>3, <2>1
  <2>3. u = s
    BY <1>1, <2>1, <2>2, ApartUnique
  <2> QED BY <2>3 DEF u
<1> QED BY <1>5, <1>6, <1>7 DEF OneSpelling, s, t

\* A set of addresses has one form: two lists are equal exactly when they cover the
\* same addresses, and what is printed of a set reads back as the same set
\* (netset.go Equal 160-173, Prefixes 175-197).
THEOREM SpelledOnce == Spec => []OneSpelling
BY ListsInvariant, OneSpellingLists, PTL

-----------------------------------------------------------------------------
(* The containment check.                                                  *)

ContainSpec == ContainInit /\ [][ContainNext]_<<document, edits>>

\* What a service of a document without a finding touches.
LEMMA CleanService ==
  ASSUME NEW d, DocumentType(d), Check(d) = {}, NEW s \in DOMAIN d.services
  PROVE  /\ Touches(d, s) = d.services[s].networks \cup {s}
         /\ d.services[s].networks \subseteq SegmentNames
         /\ s # PublicEdge => ~(SegmentNames \subseteq d.services[s].networks)
<1> DEFINE service == d.services[s]
<1>1. NetworkFindings(d) = {} /\ AttachmentFindings(d) = {} /\ ServiceFindings(d) = {}
  BY DEF Check
<1>2. DOMAIN d.networks \subseteq SegmentNames /\ \A n \in DOMAIN d.networks : d.networks[n].internal
  <2>1. DOMAIN d.networks \ SegmentNames = {}
    BY <1>1 DEF NetworkFindings
  <2>2. {m \in SegmentNames \cap DOMAIN d.networks : ~d.networks[m].internal} = {}
    BY <1>1 DEF NetworkFindings
  <2> QED BY <2>1, <2>2
<1>3. /\ service \in ServiceType /\ service.networks \subseteq DOMAIN d.networks
  BY DEF DocumentType
<1>4. /\ Hardening \ service.hardening = {} /\ service.takes = {}
      /\ \A n \in Namespace : ~Shared(service.mode[n])
  <2> DEFINE found == {<<h, s>> : h \in Hardening \ service.hardening}
                        \cup {<<"no_shared_host_namespace", s>> : n \in {m \in Namespace : Shared(service.mode[m])}}
                        \cup {<<a, s>> : a \in service.takes}
  <2>1. found \subseteq ServiceFindings(d)
    BY DEF ServiceFindings
  <2>2. found = {}
    <3> HIDE DEF found
    <3> QED BY <1>1, <2>1
  <2> QED BY <2>2
<1>5. service.networks = {} => service.mode["network"] # Unset
  <2>1. {t \in DOMAIN d.services : d.services[t].networks = {} /\ d.services[t].mode["network"][1] # "none"} = {}
    BY <1>1 DEF AttachmentFindings
  <2>2. service.networks = {} => service.mode["network"][1] = "none"
    BY <2>1
  <2>3. Unset[1] # "none"
    BY DEF Unset
  <2> QED BY <2>2, <2>3
<1>6. s # PublicEdge => ~(SegmentNames \subseteq service.networks)
  <2>1. {t \in DOMAIN d.services : SegmentNames \subseteq d.services[t].networks /\ t # PublicEdge} = {}
    BY <1>1 DEF AttachmentFindings
  <2> QED BY <2>1
<1> DEFINE beside(n) == CASE service.mode[n][1] = "service:" -> service.mode[n][2]
                          [] service.mode[n][1] \in {"host", "container:"} -> "host"
                          [] OTHER -> s
<1>7. {beside(n) : n \in Namespace} = {s}
  <2>1. \A n \in Namespace : beside(n) = s
    BY <1>4 DEF Shared
  <2>2. "network" \in Namespace
    BY DEF Namespace
  <2> HIDE DEF beside
  <2> QED BY <2>1, <2>2
<1>8. "not privileged" \in service.hardening
  BY <1>4 DEF Hardening
<1>9. ~(\E n \in service.networks : ~d.networks[n].internal)
  BY <1>2, <1>3
<1>10. Touches(d, s) =
         service.networks
           \cup (IF \E n \in service.networks : ~d.networks[n].internal THEN {"world"} ELSE {})
           \cup (IF service.networks = {} /\ service.mode["network"] = Unset THEN {"world"} ELSE {})
           \cup (IF "published port" \in service.takes THEN {"world"} ELSE {})
           \cup (IF service.takes \ {"published port"} # {} \/ "not privileged" \notin service.hardening
                 THEN {"host"} ELSE {})
           \cup {beside(n) : n \in Namespace}
  BY DEF Touches
<1> HIDE DEF beside, service
<1>11. Touches(d, s) = service.networks \cup {s}
  BY <1>4, <1>5, <1>7, <1>8, <1>9, <1>10
<1> QED BY <1>2, <1>3, <1>6, <1>11 DEF service

\* What is reached through services stays in any set that they do not lead out of.
LEMMA ReachStays ==
  ASSUME NEW d, NEW place, NEW C, place \in C, IsFiniteSet(DOMAIN d.services),
         \A s \in DOMAIN d.services \ {PublicEdge} :
           s \in C \/ Touches(d, s) \cap C # {} => {s} \cup Touches(d, s) \subseteq C
  PROVE  ReachOf(d, place) \subseteq C
<1> DEFINE others == DOMAIN d.services \ {PublicEdge}
           near(at) == at \cup UNION {{s} \cup Touches(d, s) :
                                        s \in {t \in others : t \in at \/ Touches(d, t) \cap at # {}}}
           N == 2 * Cardinality(others)
           D == 0 .. N
           value(f, k) == IF k = 0 THEN {place} ELSE near(f[k - 1])
           E(f) == [k \in 0 .. 2 * Cardinality(others) |-> value(f, k)]
           reach == CHOOSE f : f = E(f)
<1>1. ReachOf(d, place) = reach[N]
  BY DEF ReachOf
<1>2. N \in Nat
  <2>1. Cardinality(others) \in Nat
    BY FS_RemoveElement, FS_CardinalityType
  <2> HIDE DEF others
  <2> QED BY <2>1
<1>3. reach = E(reach)
  <2> DEFINE U == {place} \cup UNION {{s} \cup Touches(d, s) : s \in others}
             R == SUBSET U
             rank == [k \in D |-> k]
             e == [f \in [D -> R] |-> E(f)]
             c == [k \in D |-> {}]
  <2>0. ASSUME NEW at \in R PROVE near(at) \in R
    OBVIOUS
  <2> HIDE DEF near, others, U
  <2>1. c \in [D -> R] /\ rank \in [D -> Nat]
    BY <1>2
  <2>2. {place} \in R
    BY DEF U
  <2>3. ASSUME NEW k \in D, k # 0 PROVE k - 1 \in D /\ k - 1 < k
    <3> HIDE DEF N
    <3> QED BY <1>2, <2>3
  <2>4. e \in [[D -> R] -> [D -> R]]
    <3> SUFFICES ASSUME NEW f \in [D -> R], NEW k \in D PROVE value(f, k) \in R
      OBVIOUS
    <3> HIDE DEF N, R
    <3> QED BY <2>0, <2>2, <2>3
  <2>5. Lowers(D, R, rank, e)
    <3> SUFFICES ASSUME NEW f \in [D -> R], NEW g \in [D -> R], NEW x \in D,
                        \A y \in D : rank[y] < rank[x] => f[y] = g[y]
                 PROVE  e[f][x] = e[g][x]
      BY DEF Lowers
    <3>1. e[f][x] = value(f, x) /\ e[g][x] = value(g, x)
      OBVIOUS
    <3>2. CASE x = 0
      BY <3>1, <3>2
    <3>3. CASE x # 0
      <4>1. rank[x - 1] < rank[x] /\ x - 1 \in D
        BY <2>3, <3>3
      <4> QED BY <3>1, <3>3, <4>1
    <3> QED BY <3>2, <3>3
  <2> HIDE DEF D, R, rank, e, c
  <2>6. HasSolution(D, R, e)
    BY <2>1, <2>4, <2>5, Recursion
  <2>7. \E f : f = E(f)
    BY <2>6 DEF e, HasSolution
  <2> HIDE DEF E
  <2> QED BY <2>7
<1> HIDE DEF reach, N
<1>4. \A k \in D : reach[k] = value(reach, k)
  BY <1>3 DEF N
<1>5. ASSUME NEW at \in SUBSET C PROVE near(at) \subseteq C
  OBVIOUS
<1> HIDE DEF near
<1> DEFINE A == {k \in Nat : k <= N => reach[k] \subseteq C}
<1>6. 0 \in A
  BY <1>2, <1>4
<1>7. ASSUME NEW k \in A PROVE k + 1 \in A
  <2> SUFFICES ASSUME k + 1 <= N PROVE reach[k + 1] \subseteq C
    OBVIOUS
  <2>1. k + 1 \in D /\ k + 1 # 0 /\ (k + 1) - 1 = k /\ k <= N
    BY <1>2
  <2>2. reach[k + 1] = near(reach[k])
    BY <1>4, <2>1
  <2> QED BY <1>5, <2>1, <2>2
<1>8. A = Nat
  <2> HIDE DEF A
  <2> QED BY <1>6, <1>7, Induction DEF A
<1>9. N \in A /\ N <= N
  <2>1. N <= N
    BY <1>2
  <2> HIDE DEF A
  <2> QED BY <1>2, <1>8, <2>1
<1> QED BY <1>1, <1>9

\* Of a document without a finding: the segments are apart.
LEMMA CleanDocument ==
  ASSUME NEW d, DocumentType(d), Check(d) = {}
  PROVE  /\ "corp" \notin ReachOf(d, "internet")
         /\ \A n \in SegmentNames : {"host", "world"} \cap ReachOf(d, n) = {}
         /\ Touches(d, PublicEdge) = SegmentNames \cup {PublicEdge}
<1> DEFINE C(n) == {n} \cup {s \in DOMAIN d.services \ {PublicEdge} : n \in d.services[s].networks}
<1>1. IsFiniteSet(DOMAIN d.services) /\ DOMAIN d.services \cap (SegmentNames \cup {"host", "world"}) = {}
  <2>1. DOMAIN d.services \in SUBSET DOMAIN Deployment.services
    BY DEF DocumentType
  <2> QED BY <2>1, DeploymentAssumption, FS_Subset
<1>2. ASSUME NEW n \in SegmentNames PROVE ReachOf(d, n) \subseteq C(n)
  <2>1. ASSUME NEW s \in DOMAIN d.services \ {PublicEdge}, s \in C(n) \/ Touches(d, s) \cap C(n) # {}
        PROVE  {s} \cup Touches(d, s) \subseteq C(n)
    <3>1. /\ Touches(d, s) = d.services[s].networks \cup {s}
          /\ d.services[s].networks \subseteq SegmentNames
          /\ ~(SegmentNames \subseteq d.services[s].networks)
      BY CleanService
    <3>2. s \notin SegmentNames
      BY <1>1
    <3>3. n \in d.services[s].networks
      <4>1. CASE s \in C(n)
        BY <3>2, <4>1
      <4>2. CASE Touches(d, s) \cap C(n) # {}
        <5>1. PICK x \in d.services[s].networks \cup {s} : x \in C(n)
          BY <3>1, <4>2
        <5>2. CASE x = s
          BY <3>2, <5>1, <5>2
        <5>3. CASE x \in d.services[s].networks
          <6>1. x \in SegmentNames
            BY <3>1, <5>3
          <6>2. x \notin DOMAIN d.services
            BY <1>1, <6>1
          <6> QED BY <5>1, <5>3, <6>2
        <5> QED BY <5>1, <5>2, <5>3
      <4> QED BY <2>1, <4>1, <4>2
    <3>4. d.services[s].networks = {n}
      BY <3>1, <3>3 DEF SegmentNames
    <3> QED BY <3>1, <3>3, <3>4
  <2>2. n \in C(n)
    OBVIOUS
  <2> HIDE DEF C
  <2> DEFINE cn == C(n)
  <2>3. n \in cn /\ \A s \in DOMAIN d.services \ {PublicEdge} :
          s \in cn \/ Touches(d, s) \cap cn # {} => {s} \cup Touches(d, s) \subseteq cn
    BY <2>1, <2>2
  <2> HIDE DEF cn
  <2>4. ReachOf(d, n) \subseteq cn
    BY <1>1, <2>3, ReachStays
  <2> QED BY <2>4 DEF cn
<1>3. "corp" \notin C("internet") /\ \A n \in SegmentNames : {"host", "world"} \cap C(n) = {}
  BY <1>1 DEF SegmentNames
<1>4. Touches(d, PublicEdge) = SegmentNames \cup {PublicEdge}
  <2>1. AttachmentFindings(d) = {}
    BY DEF Check
  <2>2. PublicEdge \in DOMAIN d.services
    BY <2>1 DEF AttachmentFindings
  <2>3. SegmentNames \ d.services[PublicEdge].networks = {}
    BY <2>1, <2>2 DEF AttachmentFindings
  <2>4. /\ Touches(d, PublicEdge) = d.services[PublicEdge].networks \cup {PublicEdge}
        /\ d.services[PublicEdge].networks \subseteq SegmentNames
    BY <2>2, CleanService
  <2> QED BY <2>3, <2>4
<1>5. {"corp", "internet"} = SegmentNames
  BY DEF SegmentNames
<1> HIDE DEF C
<1>6. "corp" \notin ReachOf(d, "internet")
  BY <1>2, <1>3, <1>5
<1>7. \A n \in SegmentNames : {"host", "world"} \cap ReachOf(d, n) = {}
  BY <1>2, <1>3
<1> QED BY <1>4, <1>6, <1>7


\* The edits of a service keep its type, and lead to no network it had not.
LEMMA AttachEdit ==
  ASSUME NEW x \in ServiceType, NEW n \in DOMAIN Deployment.networks \cup {Undeclared}
  PROVE  LET y == [x EXCEPT !.networks = @ \cup {n}, !.mode["network"] = Unset]
         IN y \in ServiceType /\ y.networks = x.networks \cup {n}
<1> DEFINE y == [x EXCEPT !.networks = @ \cup {n}, !.mode["network"] = Unset]
<1>1. Unset \in ModeType /\ "network" \in Namespace
  BY DEF Unset, ModeType, Namespace
<1>2. y \in ServiceType
  BY <1>1 DEF ServiceType
<1>3. y.networks = x.networks \cup {n}
  BY <1>1 DEF ServiceType
<1> QED BY <1>2, <1>3

\* A mode keeps the type, and takes networks away only.
LEMMA ModeEdit ==
  ASSUME NEW x \in ServiceType, NEW n \in Namespace, NEW mode \in ModeType
  PROVE  LET y == [x EXCEPT !.mode[n] = mode, !.networks = IF n = "network" THEN {} ELSE @]
         IN y \in ServiceType /\ y.networks \subseteq x.networks
<1> DEFINE y == [x EXCEPT !.mode[n] = mode, !.networks = IF n = "network" THEN {} ELSE @]
<1>1. y \in ServiceType
  BY DEF ServiceType
<1>2. y.networks \subseteq x.networks
  BY DEF ServiceType
<1> QED BY <1>1, <1>2

\* An edit of a network keeps its type.
LEMMA NetworkEdits ==
  ASSUME NEW r \in NetworkType
  PROVE  [r EXCEPT !.internal = FALSE] \in NetworkType /\ [r EXCEPT !.subnet = FALSE] \in NetworkType
<1>1. [r EXCEPT !.internal = FALSE] \in NetworkType
  BY DEF NetworkType
<1>2. [r EXCEPT !.subnet = FALSE] \in NetworkType
  BY DEF NetworkType
<1> QED BY <1>1, <1>2

\* Whatever is edited, the document is one that can be written.
LEMMA DocumentsInvariant == ContainSpec => []DocumentType(document)
<1>1. ContainInit => DocumentType(document)
  BY DeploymentAssumption DEF ContainInit
<1>2. DocumentType(document) /\ [ContainNext]_<<document, edits>> => DocumentType(document)'
  <2> SUFFICES ASSUME DocumentType(document), ContainNext PROVE DocumentType(document')
    BY DEF DocumentType
  <2> DEFINE d == document
             P == DOMAIN Deployment.services
             Q == DOMAIN Deployment.networks \cup {Undeclared}
  <2>1. /\ d = [networks |-> d.networks, services |-> d.services]
        /\ d.networks \in [DOMAIN d.networks -> NetworkType]
        /\ d.services \in [DOMAIN d.services -> ServiceType]
        /\ DOMAIN d.networks \subseteq Q
        /\ DOMAIN d.services \subseteq P
        /\ \A s \in DOMAIN d.services : d.services[s].networks \subseteq DOMAIN d.networks
    BY DEF DocumentType
  <2>2. ASSUME NEW s \in Service, NEW x \in ServiceType, x.networks \subseteq DOMAIN d.networks, Edit(s, x)
        PROVE  DocumentType(document')
    <3>1. document' = [networks |-> d.networks, services |-> [d.services EXCEPT ![s] = x]]
      BY <2>1, <2>2 DEF Edit
    <3>2. s \in DOMAIN d.services
      BY DEF Service
    <3> DEFINE u == [d.services EXCEPT ![s] = x]
    <3>3. /\ u \in [DOMAIN d.services -> ServiceType] /\ DOMAIN u = DOMAIN d.services
          /\ \A t \in DOMAIN d.services : u[t].networks \subseteq DOMAIN d.networks
      BY <2>1, <2>2, <3>2
    <3>4. document'.networks = d.networks /\ document'.services = u
      BY <3>1
    <3> HIDE DEF u
    <3> QED BY <2>1, <3>1, <3>3, <3>4 DEF DocumentType, u
  <2>3. \A s \in Service : d.services[s] \in ServiceType /\ d.services[s].networks \subseteq DOMAIN d.networks
    BY <2>1 DEF Service
  <2>4. \A x \in ServiceType :
          /\ x = [networks |-> x.networks, mode |-> x.mode, hardening |-> x.hardening, takes |-> x.takes]
          /\ x.networks \subseteq Q /\ x.mode \in [Namespace -> ModeType]
          /\ x.hardening \subseteq Hardening /\ x.takes \subseteq HostAccess
    BY DEF ServiceType
  <2> DEFINE record(n, m, h, a) == [networks |-> n, mode |-> m, hardening |-> h, takes |-> a]
  <2>5. ASSUME NEW n \in SUBSET Q, NEW m \in [Namespace -> ModeType],
               NEW h \in SUBSET Hardening, NEW a \in SUBSET HostAccess
        PROVE  record(n, m, h, a) \in ServiceType /\ record(n, m, h, a).networks = n
    BY DEF ServiceType
  <2>6. ASSUME NEW s \in Service, Attach(s) PROVE DocumentType(document')
    <3> DEFINE x == d.services[s]
    <3>1. PICK n \in DOMAIN d.networks \ x.networks :
            Edit(s, [x EXCEPT !.networks = @ \cup {n}, !.mode["network"] = Unset])
      BY <2>6 DEF Attach
    <3> DEFINE y == [x EXCEPT !.networks = @ \cup {n}, !.mode["network"] = Unset]
    <3>2. x \in ServiceType /\ x.networks \subseteq DOMAIN d.networks /\ n \in Q
      BY <2>1, <2>3
    <3> HIDE DEF x, d
    <3>3. y \in ServiceType /\ y.networks = x.networks \cup {n}
      BY <3>2, AttachEdit
    <3> HIDE DEF y
    <3>4. y.networks \subseteq DOMAIN d.networks
      BY <3>2, <3>3
    <3> QED BY <2>2, <3>1, <3>3, <3>4 DEF y
  <2>7. ASSUME NEW s \in Service, Detach(s) PROVE DocumentType(document')
    <3> DEFINE x == d.services[s]
    <3>1. PICK n \in x.networks : Edit(s, [x EXCEPT !.networks = @ \ {n}])
      BY <2>7 DEF Detach
    <3> DEFINE y == record(x.networks \ {n}, x.mode, x.hardening, x.takes)
    <3>2. x \in ServiceType /\ x.networks \subseteq DOMAIN d.networks
      BY <2>3
    <3> HIDE DEF x
    <3>3. [x EXCEPT !.networks = @ \ {n}] = y
      BY <2>4, <3>2
    <3>4. /\ x.networks \ {n} \in SUBSET Q /\ x.networks \ {n} \subseteq DOMAIN d.networks
          /\ x.mode \in [Namespace -> ModeType] /\ x.hardening \in SUBSET Hardening /\ x.takes \in SUBSET HostAccess
      BY <2>1, <2>4, <3>2
    <3>5. y \in ServiceType /\ y.networks = x.networks \ {n}
      <4> HIDE DEF record
      <4> QED BY <2>5, <3>4
    <3> HIDE DEF y
    <3> QED BY <2>2, <3>1, <3>3, <3>4, <3>5
  <2>8. ASSUME NEW s \in Service, SetMode(s) PROVE DocumentType(document')
    <3> DEFINE x == d.services[s]
    <3>1. PICK n \in Namespace, mode \in Mode(s) :
            Edit(s, [x EXCEPT !.mode[n] = mode, !.networks = IF n = "network" THEN {} ELSE @])
      BY <2>8 DEF SetMode
    <3> DEFINE y == [x EXCEPT !.mode[n] = mode, !.networks = IF n = "network" THEN {} ELSE @]
    <3>2. x \in ServiceType /\ x.networks \subseteq DOMAIN d.networks
      BY <2>3
    <3>3. mode \in ModeType
      <4>1. Service \subseteq P
        BY <2>1 DEF Service
      <4>2. \A t \in Service : <<"service:", t>> \in ModeType
        BY <4>1 DEF ModeType
      <4>3. <<"host", "">> \in ModeType /\ <<"container:", "">> \in ModeType /\ <<"none", "">> \in ModeType
        BY DEF ModeType
      <4> QED BY <4>2, <4>3 DEF Mode
    <3> HIDE DEF x, d
    <3>4. y \in ServiceType /\ y.networks \subseteq x.networks
      BY <3>2, <3>3, ModeEdit
    <3> HIDE DEF y
    <3>5. y.networks \subseteq DOMAIN d.networks
      BY <3>2, <3>4
    <3> QED BY <2>2, <3>1, <3>4, <3>5 DEF y
  <2>9. ASSUME NEW s \in Service, Weaken(s) PROVE DocumentType(document')
    <3> DEFINE x == d.services[s]
    <3>1. x \in ServiceType /\ x.networks \subseteq DOMAIN d.networks
      BY <2>3
    <3>2. CASE \E h \in x.hardening : Edit(s, [x EXCEPT !.hardening = @ \ {h}])
      <4>1. PICK h \in x.hardening : Edit(s, [x EXCEPT !.hardening = @ \ {h}])
        BY <3>2
      <4> HIDE DEF x
      <4>2. [x EXCEPT !.hardening = @ \ {h}] = record(x.networks, x.mode, x.hardening \ {h}, x.takes)
        BY <2>4, <3>1
      <4>3. /\ x.networks \in SUBSET Q /\ x.hardening \ {h} \in SUBSET Hardening
            /\ x.mode \in [Namespace -> ModeType] /\ x.takes \in SUBSET HostAccess
        BY <2>4, <3>1
      <4> DEFINE y == record(x.networks, x.mode, x.hardening \ {h}, x.takes)
      <4>4. y \in ServiceType /\ y.networks = x.networks
        <5> HIDE DEF record
        <5> QED BY <2>5, <4>3
      <4> HIDE DEF y
      <4> QED BY <2>2, <3>1, <4>1, <4>2, <4>4 DEF y
    <3>3. CASE \E a \in HostAccess \ x.takes : Edit(s, [x EXCEPT !.takes = @ \cup {a}])
      <4>1. PICK a \in HostAccess \ x.takes : Edit(s, [x EXCEPT !.takes = @ \cup {a}])
        BY <3>3
      <4> HIDE DEF x
      <4>2. [x EXCEPT !.takes = @ \cup {a}] = record(x.networks, x.mode, x.hardening, x.takes \cup {a})
        BY <2>4, <3>1
      <4>3. /\ x.networks \in SUBSET Q /\ x.hardening \in SUBSET Hardening
            /\ x.mode \in [Namespace -> ModeType] /\ x.takes \cup {a} \in SUBSET HostAccess
        BY <2>4, <3>1
      <4> DEFINE y == record(x.networks, x.mode, x.hardening, x.takes \cup {a})
      <4>4. y \in ServiceType /\ y.networks = x.networks
        <5> HIDE DEF record
        <5> QED BY <2>5, <4>3
      <4> HIDE DEF y
      <4> QED BY <2>2, <3>1, <4>1, <4>2, <4>4 DEF y
    <3> QED BY <2>9, <3>2, <3>3 DEF Weaken
  <2>10. ASSUME NEW s \in Service, Remove(s) PROVE DocumentType(document')
    <3> DEFINE S == DOMAIN d.services \ {s}
               u == [t \in S |-> d.services[t]]
    <3>1. document' = [networks |-> d.networks, services |-> u]
      BY <2>1, <2>10 DEF Remove, Service
    <3>2. /\ u \in [S -> ServiceType] /\ DOMAIN u = S /\ S \subseteq P
          /\ \A t \in S : u[t].networks \subseteq DOMAIN d.networks
      BY <2>1
    <3>3. document'.networks = d.networks /\ document'.services = u
      BY <3>1
    <3> HIDE DEF u, S
    <3> QED BY <2>1, <3>1, <3>2, <3>3 DEF DocumentType
  <2>11. ASSUME NEW w, w \in [DOMAIN w -> NetworkType], DOMAIN d.networks \subseteq DOMAIN w, DOMAIN w \subseteq Q,
                document' = [networks |-> w, services |-> d.services]
         PROVE  DocumentType(document')
    <3>1. document'.networks = w /\ document'.services = d.services
      BY <2>11
    <3> QED BY <2>1, <2>11, <3>1 DEF DocumentType
  <2>13. ASSUME NEW n \in DOMAIN d.networks, Open(n) \/ Readdress(n) PROVE DocumentType(document')
    <3> DEFINE r == d.networks[n]
               N == DOMAIN d.networks
    <3>1. r \in NetworkType
      BY <2>1
    <3>2. CASE Open(n)
      <4> DEFINE w == [d.networks EXCEPT ![n] = [r EXCEPT !.internal = FALSE]]
      <4>1. document' = [networks |-> w, services |-> d.services]
        BY <2>1, <3>2 DEF Open
      <4>2. w \in [N -> NetworkType] /\ DOMAIN w = N
        <5>1. [r EXCEPT !.internal = FALSE] \in NetworkType
          BY <3>1, NetworkEdits
        <5> HIDE DEF r
        <5> QED BY <2>1, <5>1
      <4> HIDE DEF w
      <4> QED BY <2>1, <2>11, <4>1, <4>2
    <3>3. CASE Readdress(n)
      <4> DEFINE w == [d.networks EXCEPT ![n] = [r EXCEPT !.subnet = FALSE]]
      <4>1. document' = [networks |-> w, services |-> d.services]
        BY <2>1, <3>3 DEF Readdress
      <4>2. w \in [N -> NetworkType] /\ DOMAIN w = N
        <5>1. [r EXCEPT !.subnet = FALSE] \in NetworkType
          BY <3>1, NetworkEdits
        <5> HIDE DEF r
        <5> QED BY <2>1, <5>1
      <4> HIDE DEF w
      <4> QED BY <2>1, <2>11, <4>1, <4>2
    <3> QED BY <2>13, <3>2, <3>3
  <2>14. ASSUME DeclareNetwork PROVE DocumentType(document')
    <3> DEFINE N == DOMAIN d.networks \cup {Undeclared}
               w == [n \in N |-> IF n = Undeclared THEN [internal |-> TRUE, subnet |-> FALSE] ELSE d.networks[n]]
    <3>1. document' = [networks |-> w, services |-> d.services]
      BY <2>1, <2>14 DEF DeclareNetwork
    <3>2. w \in [N -> NetworkType] /\ DOMAIN w = N /\ N \subseteq Q
      <4>1. [internal |-> TRUE, subnet |-> FALSE] \in NetworkType
        BY DEF NetworkType
      <4>2. \A n \in N : w[n] \in NetworkType
        BY <2>1, <4>1
      <4> QED BY <2>1, <4>2
    <3>3. DOMAIN d.networks \subseteq N
      OBVIOUS
    <3> HIDE DEF w, N
    <3> QED BY <2>11, <3>1, <3>2, <3>3
  <2> QED BY <2>6, <2>7, <2>8, <2>9, <2>10, <2>13, <2>14 DEF ContainNext
<1> QED BY <1>1, <1>2, PTL DEF ContainSpec

\* A deployment without a finding keeps its segments apart, whatever was edited
\* and however often: no chain of services leads from the public segment to the
\* corporate one except through the public edge, none from a segment to the host
\* or the world, and the edge touches the two segments only
\* (internal/containment Check).
THEOREM ContainmentHolds == ContainSpec => []SegmentsAreApart
<1>1. DocumentType(document) => SegmentsAreApart
  BY CleanDocument DEF SegmentsAreApart
<1> QED BY <1>1, DocumentsInvariant, PTL

-----------------------------------------------------------------------------
(* The normalizer.                                                         *)

DocSpec == DocInit /\ [][DocNext]_input

Plans == [of : {"plan"}, plan : [Paths -> SUBSET PlannedResources]]

\* The three modules a plan can have resources in, each called by the one before.
LEMMA PathFacts ==
  /\ Cardinality(Paths) = 3
  /\ <<>> \in Paths /\ <<"m">> \in Paths /\ <<"m", "n">> \in Paths
  /\ Len(<<"m">>) = Len(<<>>) + 1 /\ SeqExt!IsPrefix(<<>>, <<"m">>)
  /\ Len(<<"m", "n">>) = Len(<<"m">>) + 1 /\ SeqExt!IsPrefix(<<"m">>, <<"m", "n">>)
<1> DEFINE p0 == <<>> p1 == <<"m">> p2 == <<"m", "n">>
<1>1. Len(p0) = 0 /\ Len(p1) = 1 /\ Len(p2) = 2
  OBVIOUS
<1>2. p0 # p1 /\ p0 # p2 /\ p1 # p2
  BY <1>1
<1>3. SeqExt!IsPrefix(p0, p1)
  BY DEF SeqExt!IsPrefix
<1>4. SeqExt!IsPrefix(p1, p2)
  BY DEF SeqExt!IsPrefix
<1>5. Paths = {p0, p1, p2}
  BY DEF Paths
<1> HIDE DEF p0, p1, p2
<1>6. IsFiniteSet({}) /\ Cardinality({}) = 0
  BY FS_EmptySet
<1>7. IsFiniteSet({p0}) /\ Cardinality({p0}) = 1
  BY FS_Singleton
<1>8. IsFiniteSet({p0, p1}) /\ Cardinality({p0, p1}) = 2
  <2>1. {p0, p1} = {p0} \cup {p1} /\ p1 \notin {p0}
    BY <1>2
  <2> QED BY <1>7, <2>1, FS_AddElement
<1>9. Cardinality({p0, p1, p2}) = 3
  <2>1. {p0, p1, p2} = {p0, p1} \cup {p2} /\ p2 \notin {p0, p1}
    BY <1>2
  <2> QED BY <1>8, <2>1, FS_AddElement
<1>10. p0 \in Paths /\ p1 \in Paths /\ p2 \in Paths
  BY <1>5
<1>11. Len(p1) = Len(p0) + 1 /\ Len(p2) = Len(p1) + 1
  BY <1>1
<1> QED BY <1>3, <1>4, <1>5, <1>9, <1>10, <1>11 DEF p0, p1, p2

\* The walk reaches every module of a plan.
LEMMA EveryModuleWalked ==
  ASSUME NEW plan \in [Paths -> SUBSET PlannedResources]
  PROVE  Walked(plan) = Paths
<1> DEFINE onto(at) == at \cup {p \in DOMAIN plan : \E q \in at : Len(p) = Len(q) + 1 /\ SeqExt!IsPrefix(q, p)}
           value(f, k) == IF k = 0 THEN {<<>>} ELSE onto(f[k - 1])
           E(f) == [k \in Nat |-> value(f, k)]
           below == CHOOSE f : f = E(f)
<1>1. Walked(plan) = below[Cardinality(Paths)]
  BY DEF Walked
<1>2. below = E(below)
  <2> DEFINE R == SUBSET Paths
             rank == [k \in Nat |-> k]
             e == [f \in [Nat -> R] |-> E(f)]
             c == [k \in Nat |-> {}]
  <2>0. ASSUME NEW at \in R PROVE onto(at) \in R
    OBVIOUS
  <2> HIDE DEF onto
  <2>1. c \in [Nat -> R] /\ rank \in [Nat -> Nat]
    OBVIOUS
  <2>2. {<<>>} \in R
    BY PathFacts
  <2>3. ASSUME NEW k \in Nat, k # 0 PROVE k - 1 \in Nat /\ k - 1 < k
    BY <2>3
  <2>4. e \in [[Nat -> R] -> [Nat -> R]]
    <3> SUFFICES ASSUME NEW f \in [Nat -> R], NEW k \in Nat PROVE value(f, k) \in R
      OBVIOUS
    <3> HIDE DEF R
    <3> QED BY <2>0, <2>2, <2>3
  <2>5. Lowers(Nat, R, rank, e)
    <3> SUFFICES ASSUME NEW f \in [Nat -> R], NEW g \in [Nat -> R], NEW x \in Nat,
                        \A y \in Nat : rank[y] < rank[x] => f[y] = g[y]
                 PROVE  e[f][x] = e[g][x]
      BY DEF Lowers
    <3>1. e[f][x] = value(f, x) /\ e[g][x] = value(g, x)
      OBVIOUS
    <3>2. CASE x = 0
      BY <3>1, <3>2
    <3>3. CASE x # 0
      <4>1. rank[x - 1] < rank[x] /\ x - 1 \in Nat
        BY <2>3, <3>3
      <4> QED BY <3>1, <3>3, <4>1
    <3> QED BY <3>2, <3>3
  <2> HIDE DEF R, rank, e, c
  <2>6. HasSolution(Nat, R, e)
    BY <2>1, <2>4, <2>5, Recursion
  <2>7. \E f : f = E(f)
    BY <2>6 DEF e, HasSolution
  <2> HIDE DEF E
  <2> QED BY <2>7
<1> HIDE DEF below
<1>3. \A k \in Nat : below[k] = value(below, k)
  BY <1>2
<1>4. below[0] = {<<>>} /\ below[1] = onto(below[0]) /\ below[2] = onto(below[1]) /\ below[3] = onto(below[2])
  <2>1. 1 - 1 = 0 /\ 2 - 1 = 1 /\ 3 - 1 = 2
    OBVIOUS
  <2> HIDE DEF onto
  <2> QED BY <1>3, <2>1
<1>5. <<>> \in below[0]
  BY <1>4
<1>6. <<>> \in below[1] /\ <<"m">> \in below[1]
  BY <1>4, <1>5, PathFacts
<1>7. <<>> \in below[2] /\ <<"m">> \in below[2] /\ <<"m", "n">> \in below[2]
  BY <1>4, <1>6, PathFacts
<1>8. Paths \subseteq below[3]
  BY <1>4, <1>7 DEF Paths
<1>9. below[3] \subseteq Paths
  <2>1. \A at \in SUBSET Paths : onto(at) \subseteq Paths
    OBVIOUS
  <2>2. below[0] \subseteq Paths
    BY <1>4, PathFacts
  <2> HIDE DEF onto
  <2> QED BY <1>4, <2>1, <2>2
<1> QED BY <1>1, <1>8, <1>9, PathFacts

\* The values a node carries are those of its resource, as the provider
\* declares them lists.
LEMMA NodeIsWhole ==
  ASSUME NEW r \in PlannedResources, r.type \in DOMAIN KnownAttributes, Resolved(r)
  PROVE  /\ r.type = "democloud_grant" => /\ Node(r)[5] = r.values["principals"].is
                                          /\ Node(r)[7] = r.values["source_ranges"].is
         /\ r.type = "democloud_workload" => Node(r)[3] = r.values["ports"].is
<1>1. ASSUME NEW a \in KnownAttributes[r.type] \ {"id"}, a \in ListAttributes(r.type)
      PROVE  /\ StringsOf(Value(r, a)) = r.values[a].is
             /\ PortsOf(Value(r, a)) = r.values[a].is
  <2>1. a \in DOMAIN r.values
    BY DEF Resolved
  <2>2. r.values[a].shape = "list"
    BY <1>1, <2>1, PlannedAssumption
  <2> QED BY <2>1, <2>2 DEF StringsOf, PortsOf, Value
<1>2. CASE r.type = "democloud_grant"
  <2>1. {"principals", "source_ranges"} \subseteq (KnownAttributes[r.type] \ {"id"}) \cap ListAttributes(r.type)
    BY <1>2 DEF KnownAttributes, ListAttributes
  <2>2. Node(r) = <<"grant", StringOf(Value(r, "id")), StringOf(Value(r, "resource_kind")),
                    StringOf(Value(r, "resource_name")), StringsOf(Value(r, "principals")),
                    StringsOf(Value(r, "actions")), StringsOf(Value(r, "source_ranges"))>>
    BY <1>2 DEF Node
  <2>3. Node(r)[5] = StringsOf(Value(r, "principals")) /\ Node(r)[7] = StringsOf(Value(r, "source_ranges"))
    BY <2>2
  <2> QED BY <1>1, <1>2, <2>1, <2>3
<1>3. CASE r.type = "democloud_workload"
  <2>1. "ports" \in (KnownAttributes[r.type] \ {"id"}) \cap ListAttributes(r.type)
    BY <1>3 DEF KnownAttributes, ListAttributes
  <2>2. Node(r) = <<"workload", StringOf(Value(r, "name")), PortsOf(Value(r, "ports"))>>
    BY <1>3 DEF Node
  <2>3. Node(r)[3] = PortsOf(Value(r, "ports"))
    BY <2>2
  <2> QED BY <1>1, <1>3, <2>1, <2>3
<1> QED BY <1>2, <1>3

\* Of one plan: what ReportedOrWhole says of it.
LEMMA PlanIsReported ==
  ASSUME NEW plan \in [Paths -> SUBSET PlannedResources], NEW p \in Paths, NEW r \in plan[p]
  PROVE  LET g == FromPlan(plan) IN
         IF r.type \notin DOMAIN KnownAttributes THEN r.type \in g.unknownTypes
         ELSE /\ \A a \in DOMAIN r.values \ KnownAttributes[r.type] : <<r.address, a>> \in g.unrecognized
              /\ Node(r) \in g.nodes
<1> DEFINE reached == UNION {plan[q] : q \in Walked(plan)}
           known == {x \in reached : x.type \in DOMAIN KnownAttributes}
           beyond(x) == {<<x.address, a>> : a \in DOMAIN x.values \ KnownAttributes[x.type]}
           g == FromPlan(plan)
<1>1. r \in reached
  BY EveryModuleWalked
<1>2. /\ g.nodes = {Node(x) : x \in known}
      /\ g.unknownTypes = {x.type : x \in reached \ known}
      /\ g.unrecognized = UNION {beyond(x) : x \in known}
  BY DEF FromPlan
<1> HIDE DEF reached, g
<1>3. CASE r.type \notin DOMAIN KnownAttributes
  <2>1. r \in reached \ known
    BY <1>1, <1>3
  <2>2. r.type \in g.unknownTypes
    BY <1>2, <2>1
  <2> QED BY <1>3, <2>2 DEF g
<1>4. CASE r.type \in DOMAIN KnownAttributes
  <2>1. r \in known
    BY <1>1, <1>4
  <2>2. Node(r) \in g.nodes
    BY <1>2, <2>1
  <2>3. beyond(r) \subseteq g.unrecognized
    <3> HIDE DEF beyond, known
    <3> QED BY <1>2, <2>1
  <2> QED BY <1>4, <2>2, <2>3 DEF g
<1> QED BY <1>3, <1>4

\* A step is one of the document it edits.
LEMMA DocumentStep ==
  ASSUME DocNext
  PROVE  \/ input.of = "plan" /\ PlanResource
         \/ input.of = "configuration" /\ (Write \/ Pass \/ Declare)
         \/ input.of = "manifests" /\ Manifest
BY DEF DocNext, PlanResource, Write, Pass, Declare, Manifest

Configurations ==
  [of : {"configuration"}, module : {"root", "called", "nested"}, value : Expressions \cup {Absent},
   passed : [ModuleVariables -> Expressions \cup {Absent}],
   root : [RootVariables -> Declarations \cup {"undeclared"}]]
ManifestSets == [of : {"manifests"}, rendered : Seq(Manifests), base : Seq(Manifests)]

\* A resource more is a plan again.
LEMMA PlanEdit ==
  ASSUME NEW x \in Plans, NEW p \in Paths, NEW r \in PlannedResources
  PROVE  [x EXCEPT !.plan[p] = @ \cup {r}] \in Plans
BY DEF Plans

\* Another expression is a configuration again.
LEMMA ConfigurationEdits ==
  ASSUME NEW x \in Configurations, NEW e \in Expressions
  PROVE  /\ \A m \in {"root", "called", "nested"} : [x EXCEPT !.value = e, !.module = m] \in Configurations
         /\ \A v \in ModuleVariables : [x EXCEPT !.passed[v] = e] \in Configurations
<1>1. ASSUME NEW m \in {"root", "called", "nested"} PROVE [x EXCEPT !.value = e, !.module = m] \in Configurations
  BY DEF Configurations
<1>2. ASSUME NEW v \in ModuleVariables PROVE [x EXCEPT !.passed[v] = e] \in Configurations
  BY DEF Configurations
<1> QED BY <1>1, <1>2

\* So is another declaration.
LEMMA DeclarationEdit ==
  ASSUME NEW x \in Configurations, NEW v \in RootVariables, NEW d \in Declarations
  PROVE  [x EXCEPT !.root[v] = d] \in Configurations
BY DEF Configurations

\* A manifest more is a pair of manifest sets again.
LEMMA ManifestEdits ==
  ASSUME NEW x \in ManifestSets, NEW doc \in Manifests
  PROVE  /\ [x EXCEPT !.rendered = Append(@, doc)] \in ManifestSets
         /\ [x EXCEPT !.base = Append(@, doc)] \in ManifestSets
<1>1. Append(x.rendered, doc) \in Seq(Manifests) /\ Append(x.base, doc) \in Seq(Manifests)
  BY DEF ManifestSets
<1>2. \A s \in Seq(Manifests) : [x EXCEPT !.rendered = s] \in ManifestSets /\ [x EXCEPT !.base = s] \in ManifestSets
  BY DEF ManifestSets
<1> QED BY <1>1, <1>2

InputType == input \in Plans \cup Configurations \cup ManifestSets

\* Whatever was put together is a document of its kind.
LEMMA InputInvariant == DocSpec => []InputType
<1>1. DocInit => InputType
  <2>1. EmptyPlan \in Plans
    BY DEF EmptyPlan, Plans
  <2>2. EmptyConfiguration \in Configurations
    BY DEF EmptyConfiguration, Configurations
  <2>3. EmptyManifests \in ManifestSets
    BY DEF EmptyManifests, ManifestSets
  <2> QED BY <2>1, <2>2, <2>3 DEF DocInit, InputType
<1>2. InputType /\ [DocNext]_input => InputType'
  <2> SUFFICES ASSUME InputType, DocNext PROVE InputType'
    BY DEF InputType
  <2>1. /\ input.of = "plan" => input \in Plans
        /\ input.of = "configuration" => input \in Configurations
        /\ input.of = "manifests" => input \in ManifestSets
    BY DEF InputType, Plans, Configurations, ManifestSets
  <2>2. CASE input.of = "plan" /\ PlanResource
    BY <2>1, <2>2, PlanEdit DEF PlanResource, InputType
  <2>3. CASE input.of = "configuration" /\ (Write \/ Pass \/ Declare)
    <3>1. CASE Write
      <4>1. PICK e \in Expressions, m \in {"root", "called", "nested"} :
              input' = [input EXCEPT !.value = e, !.module = m]
        BY <3>1 DEF Write
      <4>2. [input EXCEPT !.value = e, !.module = m] \in Configurations
        BY <2>1, <2>3, ConfigurationEdits
      <4> QED BY <4>1, <4>2 DEF InputType
    <3>2. CASE Pass
      <4>1. PICK v \in ModuleVariables, e \in Expressions : input' = [input EXCEPT !.passed[v] = e]
        BY <3>2 DEF Pass
      <4>2. [input EXCEPT !.passed[v] = e] \in Configurations
        BY <2>1, <2>3, ConfigurationEdits
      <4> QED BY <4>1, <4>2 DEF InputType
    <3>3. CASE Declare
      BY <2>1, <2>3, <3>3, DeclarationEdit DEF Declare, InputType
    <3> QED BY <2>3, <3>1, <3>2, <3>3
  <2>4. CASE input.of = "manifests" /\ Manifest
    BY <2>1, <2>4, ManifestEdits DEF Manifest, InputType
  <2> QED BY <2>2, <2>3, <2>4, DocumentStep
<1> QED BY <1>1, <1>2, PTL DEF DocSpec

\* What the normalizer leaves out it reports, and what it takes it takes whole: of
\* any plan, every resource in every module is of an unknown type and reported, or
\* is a node with the values that will be put, its other attributes reported
\* (normalize.go FromPlan, walk and add).
THEOREM PlansAreWhole == DocSpec => []ReportedOrWhole
<1>1. InputType => ReportedOrWhole
  <2> SUFFICES ASSUME InputType, input.of = "plan", NEW p \in Paths, NEW r \in input.plan[p]
               PROVE  LET g == FromPlan(input.plan) IN
                      IF r.type \notin DOMAIN KnownAttributes THEN r.type \in g.unknownTypes
                      ELSE /\ \A a \in DOMAIN r.values \ KnownAttributes[r.type] : <<r.address, a>> \in g.unrecognized
                           /\ Resolved(r) => \E n \in g.nodes :
                                /\ n = Node(r)
                                /\ r.type = "democloud_grant" => /\ n[5] = r.values["principals"].is
                                                                 /\ n[7] = r.values["source_ranges"].is
                                /\ r.type = "democloud_workload" => n[3] = r.values["ports"].is
    BY DEF ReportedOrWhole
  <2>1. input.plan \in [Paths -> SUBSET PlannedResources]
    BY DEF InputType, Plans, Configurations, ManifestSets
  <2>2. r \in PlannedResources
    BY <2>1
  <2> QED BY <2>1, <2>2, PlanIsReported, NodeIsWhole
<1> QED BY <1>1, InputInvariant, PTL

\* The least of a nonempty set of places.
LEMMA LeastFacts ==
  ASSUME NEW S \in SUBSET Nat, S # {}
  PROVE  Least(S) \in S /\ \A j \in S : Least(S) <= j
<1>1. \E i \in S : \A j \in S : i <= j
  BY LeastNat
<1> QED BY <1>1 DEF Least

\* A set of at most one element has not two.
LEMMA AtMostOne ==
  ASSUME NEW S, IsFiniteSet(S), Cardinality(S) <= 1, NEW x \in S, NEW y \in S
  PROVE  x = y
<1> SUFFICES ASSUME x # y PROVE FALSE
  OBVIOUS
<1>1. IsFiniteSet(S \ {x}) /\ Cardinality(S \ {x}) = Cardinality(S) - 1
  BY FS_RemoveElement
<1>2. Cardinality(S) \in Nat /\ Cardinality(S \ {x}) \in Nat
  BY <1>1, FS_CardinalityType
<1>3. Cardinality(S \ {x}) = 0
  BY <1>1, <1>2
<1>4. S \ {x} = {}
  BY <1>1, <1>3, FS_EmptySet
<1> QED BY <1>4

\* Every origin has a visibility.
LEMMA VisibilityFacts ==
  /\ Visibility \in [Origins -> Nat]
  /\ "unknown" \in Origins /\ "variable-file" \in Origins /\ "root-default" \in Origins
  /\ "literal" \in Origins /\ "module-default" \in Origins
BY DEF Visibility, Origins

\* The primary contributor is one, and no other is less visible.
LEMMA PrimaryFacts ==
  ASSUME NEW I \in SUBSET Nat, I # {}, NEW f \in [I -> Origins]
  PROVE  \E i \in I : Primary(f) = f[i] /\ \A j \in I : Visibility[f[i]] <= Visibility[f[j]]
<1> DEFINE seen == {Visibility[f[i]] : i \in I}
           least == {i \in DOMAIN f : \A j \in DOMAIN f : Visibility[f[i]] <= Visibility[f[j]]}
<1>1. seen \in SUBSET Nat /\ seen # {}
  BY VisibilityFacts
<1>2. PICK n \in seen : \A m \in seen : n <= m
  <2> HIDE DEF seen
  <2> QED BY <1>1, LeastNat
<1>3. PICK i \in I : Visibility[f[i]] = n
  BY <1>2
<1>4. \A j \in I : Visibility[f[i]] <= Visibility[f[j]]
  BY <1>2, <1>3
<1>5. least \in SUBSET Nat /\ least # {}
  BY <1>4
<1>6. Primary(f) = f[Least(least)]
  BY DEF Primary
<1>7. Least(least) \in least
  <2> HIDE DEF least
  <2> QED BY <1>5, LeastFacts
<1> QED BY <1>6, <1>7

\* A configuration that a document can be.
LEMMA ConfigurationFacts ==
  ASSUME NEW c \in Configurations
  PROVE  /\ \A e \in {c.value} \cup {c.passed[v] : v \in ModuleVariables} :
              /\ e.kind \in {"absent", "garbled", "constant", "refs"}
              /\ e.refs \in Seq(STRING)
              /\ e.kind # "refs" => e.refs = <<>>
         /\ \A v : RootOrigin(c, v) \in Origins
<1>1. \A e \in Expressions \cup {Absent} :
        /\ e.kind \in {"absent", "garbled", "constant", "refs"}
        /\ e.refs \in Seq(STRING)
        /\ e.kind # "refs" => e.refs = <<>>
  <2>1. Absent.kind = "absent" /\ Absent.refs = <<>> /\ <<>> \in Seq(STRING)
    BY DEF Absent
  <2> QED BY <2>1, ConfigurationAssumption
<1>2. c.value \in Expressions \cup {Absent} /\ c.passed \in [ModuleVariables -> Expressions \cup {Absent}]
  BY DEF Configurations
<1>3. ASSUME NEW v PROVE RootOrigin(c, v) \in Origins
  <2>1. v \in RootVariables =>
          c.root[v] \in {"undeclared", "required", "default", "default unresolved", "overridden"}
    BY ConfigurationAssumption DEF Configurations
  <2>2. CASE v \notin RootVariables
    BY <2>2, VisibilityFacts DEF RootOrigin
  <2>3. CASE v \in RootVariables
    BY <2>1, <2>3, VisibilityFacts DEF RootOrigin
  <2> QED BY <2>2, <2>3
<1>4. {c.value} \cup {c.passed[v] : v \in ModuleVariables} \subseteq Expressions \cup {Absent}
  BY <1>2
<1> QED BY <1>1, <1>3, <1>4

\* What takes part in a value by way of one variable.
Part(c, v) ==
  LET passed == IF v \in ModuleVariables THEN c.passed[v] ELSE Absent
      variables == {passed.refs[i] : i \in DOMAIN passed.refs} \ {"resource"}
  IN IF c.module = "root" THEN {RootOrigin(c, v)}
     ELSE IF passed.kind = "absent" THEN {"module-default"}
     ELSE IF passed.kind = "garbled" THEN {"unknown"}
     ELSE IF variables = {} THEN {"literal"}
     ELSE {RootOrigin(c, w) : w \in variables}

\* What takes part in a value does so by way of a variable.
LEMMA TakePartFacts ==
  ASSUME NEW c
  PROVE  TakePart(c) = UNION {Part(c, v) : v \in {c.value.refs[i] : i \in DOMAIN c.value.refs} \ {"resource"}}
BY DEF TakePart, Part

\* One variable contributes what takes part by way of it, if the caller passes
\* one at most.
LEMMA OneContribution ==
  ASSUME NEW c \in Configurations, SinglePassed(c), NEW v
  PROVE  Part(c, v) = {ContributionOf(c, v)} /\ ContributionOf(c, v) \in Origins
<1> DEFINE passed == IF v \in ModuleVariables THEN c.passed[v] ELSE Absent
           places == Variables(passed.refs)
           variables == {passed.refs[i] : i \in DOMAIN passed.refs} \ {"resource"}
<1>1. /\ passed.kind \in {"absent", "garbled", "constant", "refs"}
      /\ passed.refs \in Seq(STRING)
      /\ passed.kind # "refs" => passed.refs = <<>>
  <2>1. Absent.kind = "absent" /\ Absent.refs = <<>> /\ <<>> \in Seq(STRING)
    BY DEF Absent
  <2>2. v \in ModuleVariables => c.passed[v] \in {c.value} \cup {c.passed[u] : u \in ModuleVariables}
    OBVIOUS
  <2> QED BY <2>1, <2>2, ConfigurationFacts
<1>2. /\ places \in SUBSET Nat
      /\ variables = {passed.refs[i] : i \in places}
      /\ \A i, j \in places : i = j
  <2>1. places = {i \in DOMAIN passed.refs : passed.refs[i] # "resource"}
    BY DEF Variables
  <2>2. DOMAIN passed.refs = 1 .. Len(passed.refs) /\ Len(passed.refs) \in Nat
    BY <1>1
  <2>3. IsFiniteSet(places)
    <3>1. IsFiniteSet(1 .. Len(passed.refs))
      BY <2>2, FS_Interval
    <3>2. places \in SUBSET (1 .. Len(passed.refs))
      BY <2>1, <2>2
    <3> HIDE DEF places, passed
    <3> QED BY <3>1, <3>2, FS_Subset
  <2>4. Cardinality(places) <= 1
    <3>1. CASE v \in ModuleVariables
      <4>1. passed = c.passed[v]
        BY <3>1
      <4>2. Cardinality({i \in DOMAIN c.passed[v].refs : c.passed[v].refs[i] # "resource"}) <= 1
        BY <3>1 DEF SinglePassed
      <4> HIDE DEF passed
      <4> QED BY <4>1, <4>2 DEF Variables
    <3>2. CASE v \notin ModuleVariables
      <4>1. passed.refs = <<>>
        BY <3>2 DEF Absent
      <4>2. places = {}
        BY <2>1, <4>1
      <4> QED BY <4>2, FS_EmptySet
    <3> QED BY <3>1, <3>2
  <2>5. places \in SUBSET Nat /\ variables = {passed.refs[i] : i \in places}
    BY <2>1, <2>2
  <2>6. ASSUME NEW i \in places, NEW j \in places PROVE i = j
    <3> HIDE DEF places
    <3> QED BY <2>3, <2>4, AtMostOne
  <2> HIDE DEF places, variables
  <2> QED BY <2>5, <2>6
<1>3. ContributionOf(c, v) =
        IF c.module = "root" THEN RootOrigin(c, v)
        ELSE CASE passed.kind = "absent"              -> "module-default"
               [] passed.kind = "garbled"             -> "unknown"
               [] passed.kind = "constant"            -> "literal"
               [] passed.kind = "refs" /\ places # {} -> RootOrigin(c, passed.refs[Least(places)])
               [] OTHER                               -> "literal"
  BY DEF ContributionOf
<1>4. Part(c, v) =
        IF c.module = "root" THEN {RootOrigin(c, v)}
        ELSE IF passed.kind = "absent" THEN {"module-default"}
        ELSE IF passed.kind = "garbled" THEN {"unknown"}
        ELSE IF variables = {} THEN {"literal"}
        ELSE {RootOrigin(c, w) : w \in variables}
  BY DEF Part
<1>5. passed.kind # "refs" => places = {}
  <2>1. passed.refs = <<>> => places = {}
    BY DEF Variables
  <2> QED BY <1>1, <2>1
<1>6. \A w : RootOrigin(c, w) \in Origins
  BY ConfigurationFacts
<1> HIDE DEF passed, places, variables
<1>7. places = {} => variables = {}
  BY <1>2
<1>8. ASSUME places # {} PROVE variables = {passed.refs[Least(places)]}
  <2>1. Least(places) \in places
    BY <1>2, <1>8, LeastFacts
  <2> QED BY <1>2, <2>1
<1>9. CASE c.module = "root"
  BY <1>3, <1>4, <1>6, <1>9
<1>10. CASE c.module # "root" /\ passed.kind # "refs"
  BY <1>1, <1>3, <1>4, <1>5, <1>7, <1>10, VisibilityFacts
<1>11. CASE c.module # "root" /\ passed.kind = "refs" /\ places = {}
  BY <1>3, <1>4, <1>7, <1>11, VisibilityFacts
<1>12. CASE c.module # "root" /\ passed.kind = "refs" /\ places # {}
  BY <1>3, <1>4, <1>6, <1>8, <1>12
<1> QED BY <1>9, <1>10, <1>11, <1>12

\* Of one configuration: its origin is the least visible of what takes part.
LEMMA LeastVisible ==
  ASSUME NEW c \in Configurations, Found(c), SinglePassed(c), TakePart(c) # {}
  PROVE  OriginOf(c) \in TakePart(c) /\ \A o \in TakePart(c) : Visibility[OriginOf(c)] <= Visibility[o]
<1> DEFINE refs == c.value.refs
           V == Variables(refs)
           f == [i \in V |-> ContributionOf(c, refs[i])]
<1>1. /\ refs \in Seq(STRING)
      /\ c.value.kind # "refs" => refs = <<>>
  BY ConfigurationFacts
<1>2. V \in SUBSET Nat /\ {refs[i] : i \in DOMAIN refs} \ {"resource"} = {refs[i] : i \in V}
  <2>1. V = {i \in DOMAIN refs : refs[i] # "resource"}
    BY DEF Variables
  <2>2. DOMAIN refs = 1 .. Len(refs) /\ Len(refs) \in Nat
    BY <1>1
  <2> HIDE DEF V, refs
  <2> QED BY <2>1, <2>2
<1>3. TakePart(c) = UNION {Part(c, v) : v \in {refs[i] : i \in V}}
  BY <1>2, TakePartFacts
<1>4. V # {}
  BY <1>3
<1>5. c.value.kind = "refs"
  <2>1. refs = <<>> => V = {}
    BY DEF Variables
  <2> HIDE DEF V, refs
  <2> QED BY <1>1, <1>4, <2>1
<1>6. OriginOf(c) = Primary(f)
  BY <1>4, <1>5 DEF OriginOf
<1>7. f \in [V -> Origins]
  BY OneContribution
<1> HIDE DEF V
<1>8. TakePart(c) = {f[i] : i \in V}
  <2>1. \A i \in V : Part(c, refs[i]) = {f[i]}
    BY OneContribution
  <2> HIDE DEF f, refs
  <2> QED BY <1>3, <2>1
<1> HIDE DEF f
<1>9. PICK i \in V : Primary(f) = f[i] /\ \A j \in V : Visibility[f[i]] <= Visibility[f[j]]
  BY <1>2, <1>4, <1>7, PrimaryFacts
<1> QED BY <1>6, <1>8, <1>9

\* A nonempty set of places has a last one.
LEMMA GreatestUpTo ==
  ASSUME NEW n \in Nat, NEW S \in SUBSET (1 .. n), S # {}
  PROVE  \E i \in S : \A j \in S : j <= i
<1> DEFINE less == {n - i : i \in S}
<1>1. less \in SUBSET Nat /\ less # {}
  <2>1. \A i \in S : i \in 1 .. n
    OBVIOUS
  <2>2. \A i \in 1 .. n : n - i \in Nat
    OBVIOUS
  <2>3. \A i \in S : n - i \in Nat
    BY <2>1, <2>2
  <2> QED BY <2>3
<1>2. PICK m \in less : \A k \in less : m <= k
  <2> HIDE DEF less
  <2> QED BY <1>1, LeastNat
<1>3. PICK i \in S : m = n - i
  BY <1>2
<1>4. ASSUME NEW j \in S PROVE j <= i
  <2>1. n - i <= n - j
    BY <1>2, <1>3
  <2>2. i \in 1 .. n /\ j \in 1 .. n
    OBVIOUS
  <2> QED BY <2>1, <2>2
<1> QED BY <1>4

\* The base's manifest of the same identity, if it has one.
LEMMA BaseOfFacts ==
  ASSUME NEW base \in Seq(Manifests), NEW doc
  PROVE  \/ \E i \in DOMAIN base : /\ BaseOf(base, doc) = base[i]
                                   /\ base[i].kind = doc.kind /\ base[i].name = doc.name
         \/ BaseOf(base, doc) = [annotations |-> <<>>, containers |-> <<>>, blocks |-> <<>>]
<1> DEFINE same == {i \in DOMAIN base : base[i].kind = doc.kind /\ base[i].name = doc.name}
           last == CHOOSE i \in same : \A j \in same : j <= i
<1>1. BaseOf(base, doc) = IF same = {} THEN [annotations |-> <<>>, containers |-> <<>>, blocks |-> <<>>]
                          ELSE base[last]
  BY DEF BaseOf
<1>2. ASSUME same # {} PROVE last \in same
  <2>1. same \in SUBSET (1 .. Len(base)) /\ Len(base) \in Nat
    OBVIOUS
  <2> HIDE DEF same
  <2>2. \E i \in same : \A j \in same : j <= i
    BY <1>2, <2>1, GreatestUpTo
  <2> QED BY <2>2
<1> HIDE DEF last
<1>3. CASE same = {}
  BY <1>1, <1>3
<1>4. CASE same # {}
  <2>1. last \in same
    BY <1>2, <1>4
  <2> QED BY <1>1, <1>4, <2>1
<1> QED BY <1>3, <1>4

\* In a set of distinct manifests each is its own base.
LEMMA OwnBase ==
  ASSUME NEW base \in Seq(Manifests),
         Cardinality({<<base[i].kind, base[i].name>> : i \in DOMAIN base}) = Len(base),
         NEW k \in DOMAIN base
  PROVE  BaseOf(base, base[k]) = base[k]
<1> DEFINE D == DOMAIN base
           names == {<<base[i].kind, base[i].name>> : i \in D}
           f == [i \in D |-> <<base[i].kind, base[i].name>>]
           same == {i \in D : base[i].kind = base[k].kind /\ base[i].name = base[k].name}
<1>1. IsFiniteSet(D) /\ Cardinality(D) = Len(base)
  <2>1. D = 1 .. Len(base) /\ Len(base) \in Nat
    OBVIOUS
  <2>2. ASSUME NEW n \in Nat PROVE IsFiniteSet(1 .. n) /\ Cardinality(1 .. n) = n
    <3>1. 1 \in Int /\ n \in Int /\ (IF 1 > n THEN 0 ELSE n - 1 + 1) = n
      OBVIOUS
    <3> QED BY <3>1, FS_Interval
  <2> QED BY <2>1, <2>2
<1>2. f \in Surjection(D, names)
  <2> HIDE DEF D
  <2> QED BY DEF Surjection
<1>3. f \in Injection(D, names)
  <2> HIDE DEF f, D
  <2>1. Cardinality(D) = Cardinality(names)
    BY <1>1 DEF D
  <2> HIDE DEF names
  <2> QED BY <1>1, <1>2, <2>1, FS_SurjSameCardinalityImpliesInj
<1>4. \A i, j \in D : f[i] = f[j] => i = j
  <2> HIDE DEF f, D, names
  <2>1. DOMAIN f = D
    BY <1>3 DEF Injection
  <2> QED BY <1>3, <2>1 DEF Injection, IsInjective
<1>5. same = {k}
  <2> HIDE DEF D
  <2>1. k \in D
    BY DEF D
  <2>2. \A i \in same : f[i] = f[k]
    BY <2>1
  <2>3. \A i \in same : i \in D
    OBVIOUS
  <2> HIDE DEF f
  <2>4. \A i \in same : i = k
    BY <1>4, <2>1, <2>2, <2>3
  <2> QED BY <2>1, <2>4
<1>6. BaseOf(base, base[k]) = IF same = {} THEN [annotations |-> <<>>, containers |-> <<>>, blocks |-> <<>>]
                              ELSE base[CHOOSE i \in same : \A j \in same : j <= i]
  BY DEF BaseOf
<1> HIDE DEF same
<1>7. k <= k
  <2>1. k \in 1 .. Len(base)
    OBVIOUS
  <2> QED BY <2>1
<1>8. (CHOOSE i \in same : \A j \in same : j <= i) = k
  BY <1>5, <1>7
<1> QED BY <1>5, <1>6, <1>8

Binds(doc) == UNION {{doc.containers[i][j] : j \in DOMAIN doc.containers[i]} : i \in DOMAIN doc.containers}
Says(doc, what) == CASE doc.kind = "Deployment" -> what \in Binds(doc) /\ what.bind # ""
                     [] doc.kind = "Service" -> what \in DOMAIN doc.annotations
                     [] OTHER -> doc.blocks # <<>>
SameSaid(doc, other, what) ==
  /\ doc.kind = other.kind /\ doc.name = other.name
  /\ Says(doc, what) /\ Says(other, what)
  /\ doc.kind = "Service" => doc.annotations[what] = other.annotations[what]
  /\ doc.kind = "NetworkPolicy" => doc.blocks = other.blocks

\* What is recorded of one manifest against its base.
Recorded(doc, base) ==
  CASE doc.kind = "Service"       -> ServiceOrigins(doc, base)
    [] doc.kind = "Deployment"    -> DeploymentOrigins(doc, base)
    [] doc.kind = "NetworkPolicy" -> PolicyOrigins(doc, base)

\* What is recorded of one manifest: of the manifest, and attributed to the
\* base's manifest only when that says the same; with itself as its base,
\* attributed to the base whatever it says.
RecordedTruly(doc) ==
  /\ \A base, o : o \in Recorded(doc, base) => o[1] = doc
  /\ \A o : o \in Recorded(doc, [annotations |-> <<>>, containers |-> <<>>, blocks |-> <<>>]) => o[3] # "base-manifest"
  /\ \A base \in Manifests : base.kind = doc.kind /\ base.name = doc.name =>
       \A o \in Recorded(doc, base) : o[3] = "base-manifest" => SameSaid(doc, base, o[2])
  /\ \A o \in Recorded(doc, doc) : Says(doc, o[2]) => o[3] = "base-manifest"

\* A value comes from the base when the base has it and it is the same.
LEMMA CompareFacts ==
  \A x, y : Compare(x, y) = "base-manifest" <=> y # "" /\ x = y
BY DEF Compare

\* The origins recorded of a service.
LEMMA ServiceRecorded ==
  ASSUME NEW doc \in Manifests, doc.kind = "Service"
  PROVE  RecordedTruly(doc)
<1>1. ASSUME NEW base, NEW o \in Recorded(doc, base)
      PROVE  \E key : o = <<doc, key, Compare(Annotation(doc, key), Annotation(base, key))>>
  BY <1>1 DEF Recorded, ServiceOrigins
<1>2. \A key : Annotation([annotations |-> <<>>, containers |-> <<>>, blocks |-> <<>>], key) = ""
  <2> SUFFICES ASSUME NEW key,
                      key \in DOMAIN [annotations |-> <<>>, containers |-> <<>>, blocks |-> <<>>].annotations
               PROVE  [annotations |-> <<>>, containers |-> <<>>, blocks |-> <<>>].annotations[key] = ""
    BY DEF Annotation
  <2>1. DOMAIN [annotations |-> <<>>, containers |-> <<>>, blocks |-> <<>>].annotations = {}
    OBVIOUS
  <2> QED BY <2>1
<1>3. ASSUME NEW m \in Manifests, NEW key
      PROVE  Annotation(m, key) # "" <=> key \in DOMAIN m.annotations
  BY ManifestsAssumption DEF Annotation
<1>4. ASSUME NEW base, NEW o \in Recorded(doc, base) PROVE o[1] = doc
  BY <1>1
<1>5. ASSUME NEW o \in Recorded(doc, [annotations |-> <<>>, containers |-> <<>>, blocks |-> <<>>])
      PROVE  o[3] # "base-manifest"
  <2> DEFINE empty == [annotations |-> <<>>, containers |-> <<>>, blocks |-> <<>>]
  <2>1. PICK key : o = <<doc, key, Compare(Annotation(doc, key), Annotation(empty, key))>>
    BY <1>1
  <2>2. Annotation(empty, key) = ""
    BY <1>2
  <2> HIDE DEF empty
  <2> QED BY <2>1, <2>2, CompareFacts
<1>6. ASSUME NEW base \in Manifests, base.kind = doc.kind, base.name = doc.name,
             NEW o \in Recorded(doc, base), o[3] = "base-manifest"
      PROVE  SameSaid(doc, base, o[2])
  <2>1. PICK key : o = <<doc, key, Compare(Annotation(doc, key), Annotation(base, key))>>
    BY <1>1
  <2>2. Annotation(base, key) # "" /\ Annotation(doc, key) = Annotation(base, key)
    <3> DEFINE x == Annotation(doc, key)
               y == Annotation(base, key)
    <3>1. Compare(x, y) = "base-manifest"
      BY <1>6, <2>1
    <3> HIDE DEF x, y
    <3>2. y # "" /\ x = y
      BY <3>1, CompareFacts
    <3> QED BY <3>2 DEF x, y
  <2>3. key \in DOMAIN doc.annotations /\ key \in DOMAIN base.annotations
    BY <1>3, <2>2
  <2>4. doc.annotations[key] = base.annotations[key]
    BY <2>2, <2>3 DEF Annotation
  <2>5. o[2] = key
    BY <2>1
  <2> QED BY <1>6, <2>3, <2>4, <2>5 DEF SameSaid, Says
<1>7. ASSUME NEW o \in Recorded(doc, doc), Says(doc, o[2]) PROVE o[3] = "base-manifest"
  <2>1. PICK key : o = <<doc, key, Compare(Annotation(doc, key), Annotation(doc, key))>>
    BY <1>1
  <2>2. key \in DOMAIN doc.annotations
    BY <1>7, <2>1 DEF Says
  <2>3. Annotation(doc, key) # ""
    BY <1>3, <2>2
  <2> QED BY <2>1, <2>3, CompareFacts
<1> QED BY <1>4, <1>5, <1>6, <1>7 DEF RecordedTruly

\* The origins recorded of a network policy.
LEMMA PolicyRecorded ==
  ASSUME NEW doc \in Manifests, doc.kind = "NetworkPolicy"
  PROVE  RecordedTruly(doc)
<1>1. ASSUME NEW base, NEW o \in Recorded(doc, base)
      PROVE  o = <<doc, "source_ranges", Compare(Blocks(doc), Blocks(base))>>
  BY <1>1 DEF Recorded, PolicyOrigins
<1>2. Blocks([annotations |-> <<>>, containers |-> <<>>, blocks |-> <<>>]) = ""
  BY DEF Blocks
<1>3. ASSUME NEW m \in Manifests PROVE Blocks(m) # "" <=> m.blocks # <<>>
  BY ManifestsAssumption DEF Blocks
<1>4. ASSUME NEW base, NEW o \in Recorded(doc, base) PROVE o[1] = doc
  BY <1>1
<1>5. ASSUME NEW o \in Recorded(doc, [annotations |-> <<>>, containers |-> <<>>, blocks |-> <<>>])
      PROVE  o[3] # "base-manifest"
  <2> DEFINE empty == [annotations |-> <<>>, containers |-> <<>>, blocks |-> <<>>]
  <2>1. o = <<doc, "source_ranges", Compare(Blocks(doc), Blocks(empty))>>
    BY <1>1
  <2>2. Blocks(empty) = ""
    BY <1>2
  <2> HIDE DEF empty
  <2> QED BY <2>1, <2>2, CompareFacts
<1>6. ASSUME NEW base \in Manifests, base.kind = doc.kind, base.name = doc.name,
             NEW o \in Recorded(doc, base), o[3] = "base-manifest"
      PROVE  SameSaid(doc, base, o[2])
  <2>1. Blocks(base) # "" /\ Blocks(doc) = Blocks(base)
    <3>1. Compare(Blocks(doc), Blocks(base)) = "base-manifest"
      BY <1>1, <1>6
    <3> QED BY <3>1, CompareFacts
  <2>2. doc.blocks # <<>> /\ base.blocks # <<>>
    BY <1>3, <2>1
  <2>3. doc.blocks[1] = base.blocks[1]
    BY <2>1, <2>2 DEF Blocks
  <2>4. \A m \in {doc, base} : m.blocks \in Seq(STRING) /\ Len(m.blocks) <= 1
    BY ManifestsAssumption
  <2>5. doc.blocks = base.blocks
    BY <2>2, <2>3, <2>4
  <2> QED BY <1>6, <2>2, <2>5 DEF SameSaid, Says
<1>7. ASSUME NEW o \in Recorded(doc, doc), Says(doc, o[2]) PROVE o[3] = "base-manifest"
  <2>1. o = <<doc, "source_ranges", Compare(Blocks(doc), Blocks(doc))>>
    BY <1>1
  <2>2. Blocks(doc) # ""
    BY <1>3, <1>7 DEF Says
  <2> QED BY <2>1, <2>2, CompareFacts
<1> QED BY <1>4, <1>5, <1>6, <1>7 DEF RecordedTruly

\* Of a sequence of elements of a set.
LEMMA Elements ==
  ASSUME NEW S, NEW s \in Seq(S)
  PROVE  DOMAIN s = 1 .. Len(s) /\ Len(s) \in Nat /\ \A i \in DOMAIN s : s[i] \in S
OBVIOUS

Stands(base, i, port) ==
  i \in DOMAIN base.containers /\ \E k \in DOMAIN base.containers[i] :
    base.containers[i][k].name = port /\ base.containers[i][k].bind = BaseBind(base, i, port)

\* The bind address a base gives stands in the base, under the port's name.
LEMMA BaseBindFacts ==
  ASSUME NEW base \in Manifests, NEW i, NEW port, BaseBind(base, i, port) # ""
  PROVE  Stands(base, i, port)
<1> DEFINE named == IF i \in DOMAIN base.containers
                    THEN {j \in DOMAIN base.containers[i] : base.containers[i][j].name = port} ELSE {}
           last == CHOOSE j \in named : \A k \in named : k <= j
<1>1. BaseBind(base, i, port) = IF named = {} THEN "" ELSE base.containers[i][last].bind
  BY DEF BaseBind
<1>2. named # {}
  <2> HIDE DEF named, last
  <2> QED BY <1>1
<1>3. i \in DOMAIN base.containers
  BY <1>2
<1>4. last \in named
  <2> DEFINE n == Len(base.containers[i])
  <2>1. n \in Nat /\ DOMAIN base.containers[i] = 1 .. n
    <3>1. base.containers \in Seq(Seq([name : STRING, bind : STRING]))
      BY ManifestsAssumption
    <3>2. base.containers[i] \in Seq([name : STRING, bind : STRING])
      BY <1>3, <3>1, Elements
    <3> QED BY <3>2, Elements
  <2> HIDE DEF n
  <2>2. named \in SUBSET (1 .. n)
    BY <2>1
  <2> HIDE DEF named
  <2>3. \E j \in named : \A k \in named : k <= j
    BY <1>2, <2>1, <2>2, GreatestUpTo
  <2> QED BY <2>3
<1> HIDE DEF last
<1> QED BY <1>1, <1>2, <1>3, <1>4 DEF Stands

\* A manifest that is not in the base has no bind address there.
LEMMA EmptyBaseBind ==
  \A i, port : BaseBind([annotations |-> <<>>, containers |-> <<>>, blocks |-> <<>>], i, port) = ""
<1> SUFFICES ASSUME NEW i, NEW port
             PROVE  BaseBind([annotations |-> <<>>, containers |-> <<>>, blocks |-> <<>>], i, port) = ""
  OBVIOUS
<1>1. DOMAIN [annotations |-> <<>>, containers |-> <<>>, blocks |-> <<>>].containers = {}
  OBVIOUS
<1> QED BY <1>1 DEF BaseBind

\* What is recorded is the origin of a port, the last of its name in its container.
OfPort(doc, base, o, i, j) ==
  LET port(k) == doc.containers[i][k]
  IN /\ o = <<doc, port(j), Compare(port(j).bind, BaseBind(base, i, port(j).name))>>
     /\ \A k \in DOMAIN doc.containers[i] : k > j => port(k).name # port(j).name

\* What is recorded of a deployment is recorded of a port.
LEMMA PortRecorded ==
  ASSUME NEW doc, doc.kind = "Deployment", NEW base, NEW o \in Recorded(doc, base)
  PROVE  \E i \in DOMAIN doc.containers : \E j \in DOMAIN doc.containers[i] : OfPort(doc, base, o, i, j)
<1> DEFINE ports == UNION {{<<i, j>> : j \in DOMAIN doc.containers[i]} : i \in DOMAIN doc.containers}
           port(at) == doc.containers[at[1]][at[2]]
           after(at, other) == at[1] > other[1] \/ (at[1] = other[1] /\ at[2] > other[2])
           recorded == {at \in ports : \A other \in ports :
                          after(other, at) => port(other).name # port(at).name}
           origin(at) == <<doc, port(at), Compare(port(at).bind, BaseBind(base, at[1], port(at).name))>>
<1>1. Recorded(doc, base) = DeploymentOrigins(doc, base)
  BY DEF Recorded
<1>2. DeploymentOrigins(doc, base) =
        IF Annotation(doc, "workload") = "" THEN {} ELSE {origin(at) : at \in recorded}
  BY DEF DeploymentOrigins
<1>3. PICK at \in recorded : o = origin(at)
  <2> HIDE DEF recorded, origin
  <2> QED BY <1>1, <1>2
<1>4. PICK i \in DOMAIN doc.containers : \E j \in DOMAIN doc.containers[i] : at = <<i, j>>
  BY <1>3
<1>5. PICK j \in DOMAIN doc.containers[i] : at = <<i, j>>
  BY <1>4
<1>6. at[1] = i /\ at[2] = j
  BY <1>5
<1>7. ASSUME NEW k \in DOMAIN doc.containers[i], k > j
      PROVE  doc.containers[i][k].name # doc.containers[i][j].name
  <2> DEFINE other == <<i, k>>
  <2>1. other \in ports
    OBVIOUS
  <2>2. other[1] = i /\ other[2] = k
    OBVIOUS
  <2> HIDE DEF other
  <2>3. after(other, at)
    BY <1>6, <1>7, <2>2
  <2>4. port(other).name # port(at).name
    <3> HIDE DEF after, port, ports
    <3> QED BY <1>3, <2>1, <2>3
  <2> QED BY <1>6, <2>2, <2>4
<1>8. o = <<doc, doc.containers[i][j],
            Compare(doc.containers[i][j].bind, BaseBind(base, i, doc.containers[i][j].name))>>
  BY <1>3, <1>6
<1> QED BY <1>7, <1>8 DEF OfPort

\* The origins recorded of a deployment.
LEMMA DeploymentRecorded ==
  ASSUME NEW doc \in Manifests, doc.kind = "Deployment"
  PROVE  RecordedTruly(doc)
<1> DEFINE port(i, j) == doc.containers[i][j]
<1>1. ASSUME NEW base, NEW o \in Recorded(doc, base)
      PROVE  \E i \in DOMAIN doc.containers : \E j \in DOMAIN doc.containers[i] :
               /\ o = <<doc, port(i, j), Compare(port(i, j).bind, BaseBind(base, i, port(i, j).name))>>
               /\ \A k \in DOMAIN doc.containers[i] : k > j => port(i, k).name # port(i, j).name
  <2>1. PICK i \in DOMAIN doc.containers : \E j \in DOMAIN doc.containers[i] : OfPort(doc, base, o, i, j)
    BY <1>1, PortRecorded
  <2>2. PICK j \in DOMAIN doc.containers[i] : OfPort(doc, base, o, i, j)
    BY <2>1
  <2> QED BY <2>2 DEF OfPort
<1>2. ASSUME NEW m \in Manifests, NEW i \in DOMAIN m.containers
      PROVE  /\ m.containers[i] \in Seq([name : STRING, bind : STRING])
             /\ \A j \in DOMAIN m.containers[i] : m.containers[i][j] \in [name : STRING, bind : STRING]
  <2>1. m.containers \in Seq(Seq([name : STRING, bind : STRING]))
    BY ManifestsAssumption
  <2>2. m.containers[i] \in Seq([name : STRING, bind : STRING])
    BY <2>1
  <2> DEFINE s == m.containers[i]
             R == [name : STRING, bind : STRING]
  <2>3. s \in Seq(R)
    BY <2>2
  <2> HIDE DEF s, R
  <2>4. \A j \in DOMAIN s : s[j] \in R
    BY <2>3
  <2> QED BY <2>2, <2>4 DEF s, R
<1>3. ASSUME NEW base, NEW o \in Recorded(doc, base) PROVE o[1] = doc
  <2> HIDE DEF port
  <2> QED BY <1>1
<1>4. ASSUME NEW o \in Recorded(doc, [annotations |-> <<>>, containers |-> <<>>, blocks |-> <<>>])
      PROVE  o[3] # "base-manifest"
  <2> DEFINE empty == [annotations |-> <<>>, containers |-> <<>>, blocks |-> <<>>]
  <2> HIDE DEF port
  <2>1. PICK i, j : o = <<doc, port(i, j), Compare(port(i, j).bind, BaseBind(empty, i, port(i, j).name))>>
    BY <1>1
  <2>2. BaseBind(empty, i, port(i, j).name) = ""
    BY EmptyBaseBind
  <2> HIDE DEF empty
  <2> QED BY <2>1, <2>2, CompareFacts
<1>5. ASSUME NEW base \in Manifests, base.kind = doc.kind, base.name = doc.name,
             NEW o \in Recorded(doc, base), o[3] = "base-manifest"
      PROVE  SameSaid(doc, base, o[2])
  <2>1. PICK i \in DOMAIN doc.containers : \E j \in DOMAIN doc.containers[i] :
          o = <<doc, port(i, j), Compare(port(i, j).bind, BaseBind(base, i, port(i, j).name))>>
    <3> HIDE DEF port
    <3> QED BY <1>1
  <2>2. PICK j \in DOMAIN doc.containers[i] :
          o = <<doc, port(i, j), Compare(port(i, j).bind, BaseBind(base, i, port(i, j).name))>>
    BY <2>1
  <2> DEFINE p == port(i, j)
             b == BaseBind(base, i, p.name)
  <2>3. p \in [name : STRING, bind : STRING]
    BY <1>2
  <2>4. o = <<doc, p, Compare(p.bind, b)>>
    BY <2>2
  <2> HIDE DEF p, b
  <2>5. Compare(p.bind, b) = "base-manifest" /\ o[2] = p
    BY <1>5, <2>4
  <2>6. b # "" /\ p.bind = b
    BY <2>5, CompareFacts
  <2>7. i \in DOMAIN base.containers /\ \E k \in DOMAIN base.containers[i] :
          base.containers[i][k].name = p.name /\ base.containers[i][k].bind = b
    <3> DEFINE name == p.name
    <3>1. BaseBind(base, i, name) # ""
      BY <2>6 DEF b
    <3> HIDE DEF name
    <3>2. Stands(base, i, name)
      BY <3>1, BaseBindFacts
    <3> QED BY <3>2 DEF name, b, Stands
  <2>8. PICK k \in DOMAIN base.containers[i] : base.containers[i][k].name = p.name /\ base.containers[i][k].bind = b
    BY <2>7
  <2> DEFINE q == base.containers[i][k]
  <2>9. q \in [name : STRING, bind : STRING] /\ q.name = p.name /\ q.bind = p.bind
    BY <1>2, <2>6, <2>7, <2>8
  <2>10. q \in Binds(base)
    BY <2>7 DEF Binds
  <2>11. p \in Binds(doc)
    BY DEF Binds, p
  <2> HIDE DEF q
  <2>12. p = q
    BY <2>3, <2>9
  <2>13. Says(doc, p) /\ Says(base, p)
    BY <1>5, <2>6, <2>10, <2>11, <2>12 DEF Says
  <2> QED BY <1>5, <2>5, <2>13 DEF SameSaid
<1>6. ASSUME NEW o \in Recorded(doc, doc), Says(doc, o[2]) PROVE o[3] = "base-manifest"
  <2>1. PICK i \in DOMAIN doc.containers : \E j \in DOMAIN doc.containers[i] :
          /\ o = <<doc, port(i, j), Compare(port(i, j).bind, BaseBind(doc, i, port(i, j).name))>>
          /\ \A k \in DOMAIN doc.containers[i] : k > j => port(i, k).name # port(i, j).name
    <3> HIDE DEF port
    <3> QED BY <1>1
  <2>2. PICK j \in DOMAIN doc.containers[i] :
          /\ o = <<doc, port(i, j), Compare(port(i, j).bind, BaseBind(doc, i, port(i, j).name))>>
          /\ \A k \in DOMAIN doc.containers[i] : k > j => port(i, k).name # port(i, j).name
    BY <2>1
  <2> DEFINE p == port(i, j)
             named == {k \in DOMAIN doc.containers[i] : doc.containers[i][k].name = p.name}
             last == CHOOSE k \in named : \A l \in named : l <= k
  <2>3. j \in named
    OBVIOUS
  <2>4. DOMAIN doc.containers[i] \subseteq Nat
    BY <1>2
  <2>5. \A k \in named : k <= j
    <3> SUFFICES ASSUME NEW k \in named PROVE k <= j
      OBVIOUS
    <3>1. k \in Nat /\ j \in Nat
      BY <2>4
    <3>2. ~(k > j)
      BY <2>2
    <3> QED BY <3>1, <3>2
  <2>6. last = j
    <3>1. last \in named /\ \A l \in named : l <= last
      <4> HIDE DEF named
      <4> QED BY <2>3, <2>5
    <3>2. named \subseteq Nat
      BY <2>4
    <3> HIDE DEF named, last
    <3>3. last <= j /\ j <= last /\ last \in Nat /\ j \in Nat
      BY <2>3, <2>5, <3>1, <3>2
    <3> QED BY <3>3
  <2>7. BaseBind(doc, i, p.name) = IF named = {} THEN "" ELSE doc.containers[i][last].bind
    BY DEF BaseBind
  <2>8. BaseBind(doc, i, p.name) = p.bind
    <3> HIDE DEF last, named
    <3>1. BaseBind(doc, i, p.name) = doc.containers[i][j].bind
      BY <2>3, <2>6, <2>7
    <3> QED BY <3>1
  <2>9. o[2] = p /\ o = <<doc, p, Compare(p.bind, BaseBind(doc, i, p.name))>>
    BY <2>2
  <2>10. p.bind # ""
    BY <1>6, <2>9 DEF Says
  <2> HIDE DEF p
  <2>11. Compare(p.bind, p.bind) = "base-manifest"
    BY <2>10, CompareFacts
  <2> QED BY <2>8, <2>9, <2>11
<1> QED BY <1>3, <1>4, <1>5, <1>6 DEF RecordedTruly

\* Of a pair of manifest sets: what the origins of a rendered set say is true.
LEMMA SetsAreTrue ==
  ASSUME NEW rendered \in Seq(Manifests), NEW base \in Seq(Manifests),
         NEW o \in FromManifests(rendered, base).origins
  PROVE  /\ o[3] = "base-manifest" => \E i \in DOMAIN base : SameSaid(o[1], base[i], o[2])
         /\ /\ rendered = base
            /\ Cardinality({<<base[i].kind, base[i].name>> : i \in DOMAIN base}) = Len(base)
            /\ Says(o[1], o[2])
            => o[3] = "base-manifest"
<1> DEFINE known == {i \in DOMAIN rendered : rendered[i].kind \in KnownKinds}
           origins(doc) == Recorded(doc, BaseOf(base, doc))
<1>1. FromManifests(rendered, base).origins = UNION {origins(rendered[i]) : i \in known}
  BY DEF FromManifests, Recorded
<1>2. PICK i \in known : o \in Recorded(rendered[i], BaseOf(base, rendered[i]))
  BY <1>1
<1> DEFINE doc == rendered[i]
<1>3. doc \in Manifests
  BY Elements
<1>4. RecordedTruly(doc)
  <2>1. doc.kind \in {"Service", "Deployment", "NetworkPolicy"}
    BY DEF KnownKinds
  <2> HIDE DEF doc
  <2> QED BY <1>3, <2>1, ServiceRecorded, DeploymentRecorded, PolicyRecorded
<1>5. o \in Recorded(doc, BaseOf(base, doc))
  BY <1>2
<1>6. rendered = base => i \in DOMAIN base /\ doc = base[i]
  OBVIOUS
<1> HIDE DEF doc, known, origins
<1>7. o[1] = doc
  BY <1>4, <1>5 DEF RecordedTruly
<1>8. ASSUME o[3] = "base-manifest" PROVE \E k \in DOMAIN base : SameSaid(o[1], base[k], o[2])
  <2>1. CASE BaseOf(base, doc) = [annotations |-> <<>>, containers |-> <<>>, blocks |-> <<>>]
    BY <1>4, <1>5, <1>8, <2>1 DEF RecordedTruly
  <2>2. CASE \E k \in DOMAIN base : /\ BaseOf(base, doc) = base[k]
                                    /\ base[k].kind = doc.kind /\ base[k].name = doc.name
    <3>1. PICK k \in DOMAIN base : /\ BaseOf(base, doc) = base[k]
                                   /\ base[k].kind = doc.kind /\ base[k].name = doc.name
      BY <2>2
    <3>2. base[k] \in Manifests
      BY Elements
    <3>3. SameSaid(doc, base[k], o[2])
      BY <1>4, <1>5, <1>8, <3>1, <3>2 DEF RecordedTruly
    <3> QED BY <1>7, <3>3
  <2> QED BY <2>1, <2>2, BaseOfFacts
<1>9. ASSUME rendered = base,
             Cardinality({<<base[k].kind, base[k].name>> : k \in DOMAIN base}) = Len(base),
             Says(o[1], o[2])
      PROVE  o[3] = "base-manifest"
  <2>1. i \in DOMAIN base /\ doc = base[i]
    BY <1>6, <1>9
  <2>2. BaseOf(base, doc) = doc
    BY <1>9, <2>1, OwnBase
  <2> QED BY <1>4, <1>5, <1>7, <1>9, <2>2 DEF RecordedTruly
<1> QED BY <1>8, <1>9

\* Where a value is said to come from is where it comes from: of any configuration
\* the origin is the least visible of what takes part in the value, if one variable
\* is passed at most for each of the module's, and of any two manifest sets what is
\* said to come from the base stands there, in the manifest of that kind and name,
\* and in a set of distinct manifests rendered without an overlay all that is said
\* does (provenance.go originOf and contributionOf, manifests.go).
THEOREM OriginsHold == DocSpec => []OriginsAreTrue
<1>1. ASSUME InputType PROVE OriginIsLeastVisible
  <2> SUFFICES ASSUME input.of = "configuration", Found(input), SinglePassed(input), TakePart(input) # {}
               PROVE  /\ OriginOf(input) \in TakePart(input)
                      /\ \A o \in TakePart(input) : Visibility[OriginOf(input)] <= Visibility[o]
    BY DEF OriginIsLeastVisible
  <2>1. input \in Configurations
    BY <1>1 DEF InputType, Plans, Configurations, ManifestSets
  <2> QED BY <2>1, LeastVisible
<1>2. ASSUME InputType PROVE BaseOriginIsTrue
  <2> SUFFICES ASSUME input.of = "manifests",
                      NEW o \in FromManifests(input.rendered, input.base).origins
               PROVE  /\ o[3] = "base-manifest" => \E i \in DOMAIN input.base : SameSaid(o[1], input.base[i], o[2])
                      /\ /\ input.rendered = input.base
                         /\ Cardinality({<<input.base[i].kind, input.base[i].name>> : i \in DOMAIN input.base})
                              = Len(input.base)
                         /\ Says(o[1], o[2])
                         => o[3] = "base-manifest"
    BY DEF BaseOriginIsTrue, SameSaid, Says, Binds
  <2>1. input.rendered \in Seq(Manifests) /\ input.base \in Seq(Manifests)
    BY <1>2 DEF InputType, Plans, Configurations, ManifestSets
  <2> QED BY <2>1, SetsAreTrue
<1>3. InputType => OriginsAreTrue
  BY <1>1, <1>2 DEF OriginsAreTrue
<1> QED BY <1>3, InputInvariant, PTL

-----------------------------------------------------------------------------
(* The readers of the configuration files (Sources), for files of any      *)
(* length.                                                                 *)

\* A file is put together, one token at a time.
SourceSpec == SourceInit /\ [][SourceNext]_source

Tokens == Headers \cup Contents \cup {"mention", "open", "close", "string_open", "string_close"}

\* How many tokens of a set stand between two positions, both included.
Counted(text, tokens, from, to) == Cardinality({k \in from .. to : text[k] \in tokens})

\* Open after k tokens: blocks of the language, and braces of strings and comments.
Level(text, k) == Counted(text, {"open"}, 1, k) - Counted(text, {"close"}, 1, k)
Quoted(text, k) == Counted(text, {"string_open"}, 1, k) - Counted(text, {"string_close"}, 1, k)

Sign(token, up, down) == IF token = up THEN 1 ELSE IF token = down THEN 0 - 1 ELSE 0

\* A position more adds its token.
LEMMA CountedFacts ==
  ASSUME NEW text, NEW tokens, NEW from \in Nat \ {0}, NEW to \in Nat, from <= to + 1
  PROVE  /\ Counted(text, tokens, from, to) \in Nat
         /\ from = to + 1 => Counted(text, tokens, from, to) = 0
         /\ Counted(text, tokens, from, to + 1) = Counted(text, tokens, from, to) + IF text[to + 1] \in tokens THEN 1 ELSE 0
<1> DEFINE S == {k \in from .. to : text[k] \in tokens}
           T == {k \in from .. to + 1 : text[k] \in tokens}
<1>1. IsFiniteSet(S)
  <2>1. IsFiniteSet(from .. to) /\ S \in SUBSET (from .. to)
    BY FS_Interval
  <2> HIDE DEF S
  <2> QED BY <2>1, FS_Subset
<1>2. from = to + 1 => S = {}
  OBVIOUS
<1>3. to + 1 \notin S /\ T = IF text[to + 1] \in tokens THEN S \cup {to + 1} ELSE S
  <2>1. from .. to + 1 = (from .. to) \cup {to + 1}
    OBVIOUS
  <2>2. to + 1 \notin from .. to
    OBVIOUS
  <2> QED BY <2>1, <2>2
<1>4. Cardinality(S) \in Nat
  <2> HIDE DEF S
  <2> QED BY <1>1, FS_CardinalityType
<1>5. Cardinality(T) = Cardinality(S) + IF text[to + 1] \in tokens THEN 1 ELSE 0
  <2> HIDE DEF S, T
  <2>1. Cardinality(S \cup {to + 1}) = Cardinality(S) + 1
    BY <1>1, <1>3, FS_AddElement
  <2> QED BY <1>3, <1>4, <2>1
<1>6. S = {} => Cardinality(S) = 0
  <2> HIDE DEF S
  <2> QED BY FS_EmptySet
<1>7. Counted(text, tokens, from, to) = Cardinality(S) /\ Counted(text, tokens, from, to + 1) = Cardinality(T)
  BY DEF Counted
<1> HIDE DEF S, T
<1> QED BY <1>2, <1>4, <1>5, <1>6, <1>7

\* So the two counts change by one at a brace of their kind and nowhere else.
LEMMA LevelFacts ==
  ASSUME NEW text, NEW k \in Nat
  PROVE  /\ Level(text, 0) = 0 /\ Quoted(text, 0) = 0
         /\ Level(text, k) \in Int /\ Quoted(text, k) \in Int
         /\ Level(text, k + 1) = Level(text, k) + Sign(text[k + 1], "open", "close")
         /\ Quoted(text, k + 1) = Quoted(text, k) + Sign(text[k + 1], "string_open", "string_close")
<1> DEFINE c(t, i) == Counted(text, {t}, 1, i)
<1>1. ASSUME NEW t
      PROVE  c(t, 0) = 0 /\ c(t, k) \in Nat /\ c(t, k + 1) = c(t, k) + IF text[k + 1] = t THEN 1 ELSE 0
  <2>1. c(t, 0) = 0
    BY CountedFacts
  <2>2. c(t, k) \in Nat /\ c(t, k + 1) = c(t, k) + IF text[k + 1] \in {t} THEN 1 ELSE 0
    BY CountedFacts
  <2> QED BY <2>1, <2>2
<1>2. ASSUME NEW up, NEW down, up # down
      PROVE  /\ c(up, 0) - c(down, 0) = 0 /\ c(up, k) - c(down, k) \in Int
             /\ c(up, k + 1) - c(down, k + 1) = (c(up, k) - c(down, k)) + Sign(text[k + 1], up, down)
  <2>1. /\ c(up, 0) = 0 /\ c(up, k) \in Nat
        /\ c(up, k + 1) = c(up, k) + IF text[k + 1] = up THEN 1 ELSE 0
    BY <1>1
  <2>2. /\ c(down, 0) = 0 /\ c(down, k) \in Nat
        /\ c(down, k + 1) = c(down, k) + IF text[k + 1] = down THEN 1 ELSE 0
    BY <1>1
  <2> HIDE DEF c
  <2>3. CASE text[k + 1] = up
    BY <1>2, <2>1, <2>2, <2>3 DEF Sign
  <2>4. CASE text[k + 1] = down
    BY <1>2, <2>1, <2>2, <2>4 DEF Sign
  <2>5. CASE text[k + 1] # up /\ text[k + 1] # down
    BY <2>1, <2>2, <2>5 DEF Sign
  <2> QED BY <2>3, <2>4, <2>5
<1>3. \A i : /\ Level(text, i) = c("open", i) - c("close", i)
             /\ Quoted(text, i) = c("string_open", i) - c("string_close", i)
  BY DEF Level, Quoted
<1>4. "open" # "close" /\ "string_open" # "string_close"
  OBVIOUS
<1> HIDE DEF c
<1> QED BY <1>2, <1>3, <1>4

\* The depth from an opening brace is one there, and changes by one at a brace.
LEMMA DepthSteps ==
  ASSUME NEW text, NEW o \in Nat \ {0}
  PROVE  /\ text[o] \in Opening => Depth(text, o, o) = 1
         /\ \A k \in Nat : o <= k + 1 =>
              /\ Depth(text, o, k) \in Int
              /\ o = k + 1 => Depth(text, o, k) = 0
              /\ Depth(text, o, k + 1) = Depth(text, o, k)
                   + (IF text[k + 1] \in Opening THEN 1 ELSE 0) - (IF text[k + 1] \in Closing THEN 1 ELSE 0)
<1>1. \A i, j : Depth(text, i, j) = Counted(text, Opening, i, j) - Counted(text, Closing, i, j)
  BY DEF Depth, Counted
<1>2. ASSUME NEW k \in Nat, o <= k + 1
      PROVE  /\ Depth(text, o, k) \in Int
             /\ o = k + 1 => Depth(text, o, k) = 0
             /\ Depth(text, o, k + 1) = Depth(text, o, k)
                  + (IF text[k + 1] \in Opening THEN 1 ELSE 0) - (IF text[k + 1] \in Closing THEN 1 ELSE 0)
  <2>1. ASSUME NEW tokens
        PROVE  /\ Counted(text, tokens, o, k) \in Nat
               /\ o = k + 1 => Counted(text, tokens, o, k) = 0
               /\ Counted(text, tokens, o, k + 1) = Counted(text, tokens, o, k) + IF text[k + 1] \in tokens THEN 1 ELSE 0
    BY <1>2, CountedFacts
  <2> QED BY <1>1, <2>1
<1>3. text[o] \in Opening => Depth(text, o, o) = 1
  <2>1. o - 1 \in Nat /\ o = (o - 1) + 1
    OBVIOUS
  <2>2. Depth(text, o, o) = 0 + (IF text[o] \in Opening THEN 1 ELSE 0) - (IF text[o] \in Closing THEN 1 ELSE 0)
    BY <1>2, <2>1
  <2>3. text[o] \in Opening => text[o] \notin Closing
    BY DEF Opening, Closing
  <2> QED BY <2>2, <2>3
<1> QED BY <1>2, <1>3

\* The depth the readers count is how much both have grown.
LEMMA DepthIs ==
  ASSUME NEW text, NEW o \in Nat \ {0}, NEW k \in Nat, o <= k
  PROVE  Depth(text, o, k) = (Level(text, k) + Quoted(text, k)) - (Level(text, o - 1) + Quoted(text, o - 1))
<1> DEFINE both(i) == Level(text, i) + Quoted(text, i)
           A == {n \in Nat : Depth(text, o, (o - 1) + n) = both((o - 1) + n) - both(o - 1)}
<1>1. 0 \in A
  <2>1. o - 1 \in Nat /\ o = (o - 1) + 1 /\ (o - 1) + 0 = o - 1
    OBVIOUS
  <2>2. Depth(text, o, o - 1) = 0 /\ both(o - 1) \in Int
    BY <2>1, DepthSteps, LevelFacts
  <2> QED BY <2>1, <2>2
<1>2. ASSUME NEW n \in A PROVE n + 1 \in A
  <2> DEFINE i == (o - 1) + n
             t == text[i + 1]
  <2>1. i \in Nat /\ o <= i + 1 /\ (o - 1) + (n + 1) = i + 1 /\ o - 1 \in Nat
    OBVIOUS
  <2>2. Depth(text, o, i) = both(i) - both(o - 1)
    OBVIOUS
  <2> HIDE DEF i
  <2>3. /\ Depth(text, o, i) \in Int
        /\ Depth(text, o, i + 1) = Depth(text, o, i)
             + (IF t \in Opening THEN 1 ELSE 0) - (IF t \in Closing THEN 1 ELSE 0)
    BY <2>1, DepthSteps
  <2>4. /\ both(i) \in Int /\ both(o - 1) \in Int
        /\ both(i + 1) = both(i) + (IF t \in Opening THEN 1 ELSE 0) - (IF t \in Closing THEN 1 ELSE 0)
    BY <2>1, LevelFacts DEF Sign, Opening, Closing
  <2> HIDE DEF both
  <2>5. Depth(text, o, i + 1) = both(i + 1) - both(o - 1)
    BY <2>2, <2>3, <2>4
  <2> QED BY <2>1, <2>5
<1>3. A = Nat
  <2> HIDE DEF A
  <2> QED BY <1>1, <1>2, Induction DEF A
<1>4. (k - o) + 1 \in Nat /\ (o - 1) + ((k - o) + 1) = k
  OBVIOUS
<1>5. (k - o) + 1 \in A
  <2> HIDE DEF A
  <2> QED BY <1>3, <1>4
<1> QED BY <1>4, <1>5

\* What a reachable file is: a header stands outside every block and is followed
\* by its brace, a block of the outermost level has a header, and what closes a
\* block or stands in one has a block to stand in.
File(text) ==
  /\ text \in Seq(Tokens)
  /\ \A k \in 0 .. Len(text) : Level(text, k) >= 0
  /\ \A k \in 1 .. Len(text) :
       /\ text[k] \in Headers => Level(text, k - 1) = 0 /\ (k < Len(text) => text[k + 1] = "open")
       /\ text[k] = "open" /\ Level(text, k - 1) = 0 => k > 1 /\ text[k - 1] \in Headers
       /\ text[k] \in {"close"} \cup Contents => Level(text, k - 1) > 0

\* The nesting of a text is the level after its last token, and that of a prefix
\* the level after its length.
LEMMA NestingIs ==
  ASSUME NEW text \in Seq(Tokens)
  PROVE  /\ Nesting(text) = Level(text, Len(text))
         /\ \A j \in 1 .. Len(text) + 1 : Nesting(SubSeq(text, 1, j - 1)) = Level(text, j - 1)
<1>1. Nesting(text) = Level(text, Len(text))
  <2>1. \A t : {k \in DOMAIN text : text[k] = t} = {k \in 1 .. Len(text) : text[k] \in {t}}
    OBVIOUS
  <2> QED BY <2>1 DEF Nesting, Level, Counted
<1>2. ASSUME NEW j \in 1 .. Len(text) + 1 PROVE Nesting(SubSeq(text, 1, j - 1)) = Level(text, j - 1)
  <2> DEFINE s == SubSeq(text, 1, j - 1)
  <2>1. DOMAIN s = 1 .. j - 1 /\ \A k \in 1 .. j - 1 : s[k] = text[k]
    OBVIOUS
  <2>2. \A t : {k \in DOMAIN s : s[k] = t} = {k \in 1 .. j - 1 : text[k] \in {t}}
    <3> HIDE DEF s
    <3> QED BY <2>1
  <2>3. Nesting(s) = Level(text, j - 1)
    <3> HIDE DEF s
    <3> QED BY <2>2 DEF Nesting, Level, Counted
  <2> QED BY <2>3
<1> QED BY <1>1, <1>2

\* A token more changes no level before it.
LEMMA LevelsStay ==
  ASSUME NEW text \in Seq(Tokens), NEW t \in Tokens, NEW k \in 0 .. Len(text)
  PROVE  Level(Append(text, t), k) = Level(text, k)
<1>1. \A i \in 1 .. k : Append(text, t)[i] = text[i]
  OBVIOUS
<1>2. \A x : {i \in 1 .. k : Append(text, t)[i] \in {x}} = {i \in 1 .. k : text[i] \in {x}}
  BY <1>1
<1> QED BY <1>2 DEF Level, Counted

\* Every reachable text is a file.
LEMMA FileInvariant == SourceSpec => []File(source)
<1>1. SourceInit => File(source)
  <2> SUFFICES ASSUME source = <<>> PROVE File(source)
    BY DEF SourceInit
  <2>1. source \in Seq(Tokens) /\ Len(source) = 0
    OBVIOUS
  <2>2. Level(source, 0) = 0
    BY LevelFacts
  <2> QED BY <2>1, <2>2 DEF File
<1>2. File(source) /\ [SourceNext]_source => File(source)'
  <2> SUFFICES ASSUME File(source), SourceNext PROVE File(source')
    <3>1. source' = source => File(source') = File(source)
      OBVIOUS
    <3> QED BY <3>1
  <2>1. PICK t \in Token : source' = Append(source, t)
    BY DEF SourceNext
  <2> DEFINE n == Len(source)
             s == Append(source, t)
  <2>0. /\ Awaiting(source) => t = "open"
        /\ ~Awaiting(source) /\ Nesting(source) = 0 =>
             t \in {"mention", "string_open", "string_close"} \cup Headers
        /\ ~Awaiting(source) /\ Nesting(source) # 0 =>
             t \in {"mention", "string_open", "string_close"} \cup ({"open", "close"} \cup Contents)
    <3>1. t \in IF Awaiting(source) THEN {"open"}
               ELSE {"mention", "string_open", "string_close"}
                      \cup (IF Nesting(source) = 0 THEN Headers ELSE {"open", "close"} \cup Contents)
      BY DEF Token
    <3> QED BY <3>1
  <2>2. source \in Seq(Tokens) /\ t \in Tokens /\ n \in Nat
    <3>1. source \in Seq(Tokens)
      BY DEF File
    <3>2. t \in Tokens
      BY <2>0 DEF Tokens
    <3> QED BY <3>1, <3>2
  <2>3. s \in Seq(Tokens) /\ Len(s) = n + 1 /\ s[n + 1] = t /\ \A k \in 1 .. n : s[k] = source[k]
    BY <2>2
  <2>4. \A k \in 0 .. n : Level(s, k) = Level(source, k)
    BY <2>2, LevelsStay
  <2>5. Level(s, n + 1) = Level(source, n) + Sign(t, "open", "close")
    <3>1. Level(s, n + 1) = Level(s, n) + Sign(s[n + 1], "open", "close")
      BY <2>2, LevelFacts
    <3>2. Level(s, n) = Level(source, n)
      BY <2>2, <2>4
    <3> HIDE DEF s
    <3> QED BY <2>3, <3>1, <3>2
  <2>6. Nesting(source) = Level(source, n) /\ Level(source, n) \in Int /\ Level(source, n) >= 0
    <3>1. Nesting(source) = Level(source, n)
      BY <2>2, NestingIs
    <3>2. Level(source, n) \in Int
      BY <2>2, LevelFacts
    <3>3. Level(source, n) >= 0
      <4>1. \A k \in 0 .. n : Level(source, k) >= 0
        BY DEF File
      <4> HIDE DEF n
      <4>2. n \in 0 .. n
        BY <2>2
      <4> QED BY <4>1, <4>2
    <3> QED BY <3>1, <3>2, <3>3
  <2>7. Awaiting(source) <=> n > 0 /\ source[n] \in Headers
    BY <2>2 DEF Awaiting
  <2>13. /\ t \in Headers => Level(source, n) = 0
         /\ t = "open" /\ Level(source, n) = 0 => n > 0 /\ source[n] \in Headers
         /\ t \in {"close"} \cup Contents => Level(source, n) > 0
         /\ n > 0 /\ source[n] \in Headers => t = "open"
    <3> HIDE DEF n
    <3>1. "open" \notin Headers /\ "close" \notin Headers /\ Headers \cap Contents = {} /\ "open" \notin Contents
      BY DEF Headers, Contents
    <3>2. "mention" \notin Headers \cup Contents /\ "string_open" \notin Headers \cup Contents /\ "string_close" \notin Headers \cup Contents
      BY DEF Headers, Contents
    <3>3. CASE Awaiting(source)
      BY <2>0, <2>7, <3>1, <3>3
    <3>4. CASE ~Awaiting(source) /\ Nesting(source) = 0
      BY <2>0, <2>6, <2>7, <3>1, <3>2, <3>4
    <3>5. CASE ~Awaiting(source) /\ Nesting(source) # 0
      <4>1. Level(source, n) > 0
        BY <2>6, <3>5
      <4>2. t \notin Headers /\ ~(n > 0 /\ source[n] \in Headers) /\ ~(Level(source, n) = 0)
        BY <2>0, <2>6, <2>7, <3>1, <3>2, <3>5
      <4> QED BY <4>1, <4>2
    <3> QED BY <3>3, <3>4, <3>5
  <2> DEFINE Fits(k) ==
               /\ s[k] \in Headers => Level(s, k - 1) = 0 /\ (k < n + 1 => s[k + 1] = "open")
               /\ s[k] = "open" /\ Level(s, k - 1) = 0 => k > 1 /\ s[k - 1] \in Headers
               /\ s[k] \in {"close"} \cup Contents => Level(s, k - 1) > 0
  <2>8. ASSUME NEW k \in 1 .. n PROVE Fits(k)
    <3>1. /\ source[k] \in Headers => Level(source, k - 1) = 0 /\ (k < n => source[k + 1] = "open")
          /\ source[k] = "open" /\ Level(source, k - 1) = 0 => k > 1 /\ source[k - 1] \in Headers
          /\ source[k] \in {"close"} \cup Contents => Level(source, k - 1) > 0
      BY DEF File
    <3>2. k - 1 \in 0 .. n /\ (k < n => k + 1 \in 1 .. n) /\ (k > 1 => k - 1 \in 1 .. n)
      BY <2>2
    <3>3. k = n /\ source[k] \in Headers => t = "open"
      <4>1. k > 0
        BY <2>2
      <4> HIDE DEF n
      <4> QED BY <2>13, <4>1
    <3> HIDE DEF s, n
    <3>4. s[k] = source[k] /\ Level(s, k - 1) = Level(source, k - 1)
      BY <2>3, <2>4, <3>2
    <3>5. s[k] \in Headers => s[k + 1] = "open"
      <4>1. CASE k = n
        BY <2>3, <3>3, <3>4, <4>1
      <4>2. CASE k # n
        <5>1. k < n /\ k + 1 \in 1 .. n
          BY <2>2, <4>2 DEF n
        <5>2. s[k + 1] = source[k + 1]
          BY <2>3, <5>1
        <5> QED BY <3>1, <3>4, <5>1, <5>2
      <4> QED BY <4>1, <4>2
    <3>6. k > 1 => s[k - 1] = source[k - 1]
      BY <2>3, <3>2
    <3> QED BY <3>1, <3>4, <3>5, <3>6
  <2>9. Fits(n + 1)
    <3>1. Level(s, n) = Level(source, n) /\ (n + 1) - 1 = n /\ ~(n + 1 < n + 1)
      BY <2>2, <2>4
    <3> HIDE DEF s
    <3>5. n > 0 => s[n] = source[n]
      BY <2>2, <2>3
    <3>6. n \in Nat /\ s[n + 1] = t
      BY <2>2, <2>3
    <3> HIDE DEF n
    <3>7. n > 0 => n + 1 > 1
      BY <3>6
    <3> QED BY <2>13, <3>1, <3>5, <3>6, <3>7
  <2>10. \A k \in 0 .. n + 1 : Level(s, k) >= 0
    <3>1. \A k \in 0 .. n : Level(s, k) >= 0
      BY <2>4 DEF File
    <3>2. Level(s, n + 1) >= 0
      <4>1. Sign(t, "open", "close") \in {0, 1} \/ (t = "close" /\ Sign(t, "open", "close") = 0 - 1)
        BY DEF Sign
      <4> HIDE DEF s, n
      <4> DEFINE a == Level(source, n)
                 b == Sign(t, "open", "close")
      <4>2. a \in Int /\ a >= 0 /\ (b \in {0, 1} \/ (a > 0 /\ b = 0 - 1))
        BY <2>6, <2>13, <4>1
      <4>3. Level(s, n + 1) = a + b
        BY <2>5
      <4> HIDE DEF a, b
      <4>4. a + b >= 0
        BY <4>2
      <4> QED BY <4>3, <4>4
    <3> QED BY <2>2, <3>1, <3>2
  <2>11. \A k \in 1 .. n + 1 : Fits(k)
    <3>1. 1 .. n + 1 = (1 .. n) \cup {n + 1}
      BY <2>2
    <3> HIDE DEF Fits, n
    <3> QED BY <2>8, <2>9, <3>1
  <2>12. File(s)
    <3> HIDE DEF s, n
    <3> QED BY <2>3, <2>10, <2>11 DEF File
  <2> QED BY <2>1, <2>12
<1> QED BY <1>1, <1>2, PTL DEF SourceSpec

ClosedFile(text) == File(text) /\ Nesting(text) = 0 /\ ~Awaiting(text) /\ LiteralsPaired(text)

\* The brace of a string that closes the one at a position.
Partner(text, i, j) ==
  /\ i < j /\ text[j] = "string_close"
  /\ \A x \in i + 1 .. j - 1 : text[x] \notin Opening \cup Closing

\* Within a string: its brace is open, and no other brace follows it.
InString(text, k) ==
  \E i \in 1 .. k : text[i] = "string_open" /\ \A x \in i + 1 .. k : text[x] \notin Opening \cup Closing

\* Paired braces are one another's partners: as many as they are, no closing one
\* is without an opening one.
LEMMA PartnersFacts ==
  ASSUME NEW text \in Seq(Tokens), LiteralsPaired(text)
  PROVE  /\ \A i \in 1 .. Len(text) : text[i] = "string_open" => \E j \in 1 .. Len(text) : Partner(text, i, j)
         /\ \A j \in 1 .. Len(text) : text[j] = "string_close" =>
              \E i \in 1 .. Len(text) : text[i] = "string_open" /\ Partner(text, i, j)
<1> DEFINE n == Len(text)
           U == {k \in 1 .. n : text[k] = "string_open"}
           D == {k \in 1 .. n : text[k] = "string_close"}
           f == [k \in U |-> CHOOSE j \in D : Partner(text, k, j)]
<1>1. n \in Nat /\ DOMAIN text = 1 .. n
  OBVIOUS
<1>2. ASSUME NEW k \in U PROVE \E j \in D : Partner(text, k, j)
  <2>1. PICK j \in k + 1 .. n : /\ text[j] = "string_close"
                               /\ \A i \in k + 1 .. j - 1 : text[i] \notin Opening \cup Closing
    BY <1>1 DEF LiteralsPaired
  <2>2. j \in 1 .. n /\ k < j
    BY <1>1
  <2> QED BY <2>1, <2>2 DEF Partner
<1>3. f \in [U -> D] /\ \A k \in U : Partner(text, k, f[k])
  <2> HIDE DEF U, D
  <2> QED BY <1>2
<1>4. \A k, l \in U : f[k] = f[l] => k = l
  <2> SUFFICES ASSUME NEW k \in U, NEW l \in U, k < l, f[k] = f[l] PROVE FALSE
    <3>1. \A k, l \in U : k \in Nat /\ l \in Nat
      OBVIOUS
    <3> HIDE DEF U, f
    <3> QED BY <3>1
  <2>1. Partner(text, k, f[k]) /\ Partner(text, l, f[k]) /\ f[k] \in D
    BY <1>3
  <2>2. f[k] \in Nat /\ l < f[k]
    <3> HIDE DEF f
    <3> QED BY <2>1 DEF Partner
  <2>3. l \in k + 1 .. f[k] - 1 /\ text[l] = "string_open"
    <3> HIDE DEF f
    <3> QED BY <2>2
  <2> HIDE DEF f, U, D
  <2> QED BY <2>1, <2>3 DEF Partner, Opening
<1>5. IsFiniteSet(U) /\ IsFiniteSet(D) /\ Cardinality(U) = Cardinality(D)
  <2>1. IsFiniteSet(1 .. n) /\ U \in SUBSET (1 .. n) /\ D \in SUBSET (1 .. n)
    BY <1>1, FS_Interval
  <2>2. Cardinality(U) = Cardinality(D)
    BY <1>1 DEF LiteralsPaired
  <2> HIDE DEF U, D
  <2> QED BY <2>1, <2>2, FS_Subset
<1>6. f \in Surjection(U, D)
  <2>1. f \in Injection(U, D)
    <3> HIDE DEF f, U, D
    <3> QED BY <1>3, <1>4 DEF Injection, IsInjective
  <2> HIDE DEF f, U, D
  <2> QED BY <1>5, <2>1, FS_Injection
<1>7. \A j \in D : \E k \in U : Partner(text, k, j)
  <2> HIDE DEF f, U, D
  <2> QED BY <1>3, <1>6 DEF Surjection
<1> QED BY <1>2, <1>7

\* What the next token makes of being in a string.
LEMMA InStringSteps ==
  ASSUME NEW text \in Seq(Tokens), LiteralsPaired(text), NEW k \in Nat, k < Len(text)
  PROVE  /\ text[k + 1] \in Opening \cup {"close"} => ~InString(text, k)
         /\ text[k + 1] = "string_close" => InString(text, k)
         /\ text[k + 1] = "string_open" => InString(text, k + 1)
         /\ text[k + 1] \in Closing \cup {"open"} => ~InString(text, k + 1)
         /\ text[k + 1] \notin Opening \cup Closing => (InString(text, k + 1) <=> InString(text, k))
<1> DEFINE t == text[k + 1]
<1>0. Len(text) \in Nat /\ k + 1 \in 1 .. Len(text)
  OBVIOUS
<1>1. ASSUME InString(text, k), t \in Opening \cup {"close"} PROVE FALSE
  <2>1. PICK i \in 1 .. k : text[i] = "string_open" /\ \A x \in i + 1 .. k : text[x] \notin Opening \cup Closing
    BY <1>1 DEF InString
  <2>2. i \in 1 .. Len(text)
    BY <1>0
  <2>3. PICK j \in 1 .. Len(text) : Partner(text, i, j)
    BY <2>1, <2>2, PartnersFacts
  <2>4. i < j /\ text[j] = "string_close" /\ \A x \in i + 1 .. j - 1 : text[x] \notin Opening \cup Closing
    BY <2>3 DEF Partner
  <2>5. j \notin i + 1 .. k
    BY <2>1, <2>4 DEF Closing
  <2>6. j # k + 1
    BY <1>1, <2>4 DEF Opening
  <2>7. k + 1 \in i + 1 .. j - 1
    BY <1>0, <2>4, <2>5, <2>6
  <2> QED BY <1>1, <2>4, <2>7 DEF Closing
<1>2. ASSUME t = "string_close" PROVE InString(text, k)
  <2>1. PICK i \in 1 .. Len(text) : text[i] = "string_open" /\ Partner(text, i, k + 1)
    BY <1>0, <1>2, PartnersFacts
  <2>2. i < k + 1 /\ (k + 1) - 1 = k /\ \A x \in i + 1 .. (k + 1) - 1 : text[x] \notin Opening \cup Closing
    BY <2>1 DEF Partner
  <2>3. i \in 1 .. k
    BY <2>2
  <2> QED BY <2>1, <2>2, <2>3 DEF InString
<1>3. ASSUME t = "string_open" PROVE InString(text, k + 1)
  <2>1. k + 1 \in 1 .. k + 1 /\ (k + 1) + 1 .. k + 1 = {}
    OBVIOUS
  <2> QED BY <1>3, <2>1 DEF InString
<1>4. ASSUME t \in Closing \cup {"open"}, InString(text, k + 1) PROVE FALSE
  <2>1. PICK i \in 1 .. k + 1 : text[i] = "string_open" /\ \A x \in i + 1 .. k + 1 : text[x] \notin Opening \cup Closing
    BY <1>4 DEF InString
  <2>2. i # k + 1
    BY <1>4, <2>1 DEF Closing
  <2>3. k + 1 \in i + 1 .. k + 1
    BY <2>2
  <2> QED BY <1>4, <2>1, <2>3 DEF Opening
<1>5. ASSUME t \notin Opening \cup Closing PROVE InString(text, k + 1) <=> InString(text, k)
  <2>1. ASSUME InString(text, k) PROVE InString(text, k + 1)
    <3>1. PICK i \in 1 .. k : text[i] = "string_open" /\ \A x \in i + 1 .. k : text[x] \notin Opening \cup Closing
      BY <2>1 DEF InString
    <3>2. i \in 1 .. k + 1 /\ \A x \in i + 1 .. k + 1 : x \in i + 1 .. k \/ x = k + 1
      OBVIOUS
    <3> QED BY <1>5, <3>1, <3>2 DEF InString
  <2>2. ASSUME InString(text, k + 1) PROVE InString(text, k)
    <3>1. PICK i \in 1 .. k + 1 : text[i] = "string_open" /\ \A x \in i + 1 .. k + 1 : text[x] \notin Opening \cup Closing
      BY <2>2 DEF InString
    <3>2. i # k + 1
      BY <1>5, <3>1 DEF Opening
    <3>3. i \in 1 .. k /\ \A x \in i + 1 .. k : x \in i + 1 .. k + 1
      BY <3>2
    <3> QED BY <3>1, <3>3 DEF InString
  <2> QED BY <2>1, <2>2
<1> QED BY <1>1, <1>2, <1>3, <1>4, <1>5

\* Of paired braces at most one is open, none where a brace of the other kinds
\* stands, and none at the end.
LEMMA QuotedFacts ==
  ASSUME NEW text \in Seq(Tokens), LiteralsPaired(text)
  PROVE  /\ \A k \in 0 .. Len(text) : Quoted(text, k) \in {0, 1}
         /\ \A k \in 1 .. Len(text) : text[k] \in Opening => Quoted(text, k - 1) = 0
         /\ Quoted(text, Len(text)) = 0
<1> DEFINE n == Len(text)
           A == {k \in Nat : k <= n => Quoted(text, k) = IF InString(text, k) THEN 1 ELSE 0}
<1>0. n \in Nat
  OBVIOUS
<1>1. 0 \in A
  <2>1. ~InString(text, 0)
    BY DEF InString
  <2> QED BY <2>1, LevelFacts
<1>2. ASSUME NEW k \in A PROVE k + 1 \in A
  <2> SUFFICES ASSUME k < n PROVE Quoted(text, k + 1) = IF InString(text, k + 1) THEN 1 ELSE 0
    BY <1>0
  <2> DEFINE t == text[k + 1]
             s == Sign(t, "string_open", "string_close")
  <2>1. Quoted(text, k) = IF InString(text, k) THEN 1 ELSE 0
    BY <1>0
  <2>2. Quoted(text, k + 1) = Quoted(text, k) + s
    BY LevelFacts
  <2>3. /\ t \in Opening \cup {"close"} => ~InString(text, k)
        /\ t = "string_close" => InString(text, k)
        /\ t = "string_open" => InString(text, k + 1)
        /\ t \in Closing \cup {"open"} => ~InString(text, k + 1)
        /\ t \notin Opening \cup Closing => (InString(text, k + 1) <=> InString(text, k))
    BY InStringSteps
  <2>4. \/ t = "string_open" /\ s = 1
        \/ t = "string_close" /\ s = 0 - 1
        \/ t \in {"open", "close"} /\ s = 0
        \/ t \notin Opening \cup Closing /\ s = 0
    BY DEF Sign, Opening, Closing
  <2> HIDE DEF t, s
  <2>5. \/ ~InString(text, k) /\ InString(text, k + 1) /\ s = 1
        \/ InString(text, k) /\ ~InString(text, k + 1) /\ s = 0 - 1
        \/ (InString(text, k) <=> InString(text, k + 1)) /\ s = 0
    BY <2>3, <2>4 DEF Opening, Closing
  <2> QED BY <2>1, <2>2, <2>5
<1>3. A = Nat
  <2> HIDE DEF A
  <2> QED BY <1>1, <1>2, Induction DEF A
<1>4. \A k \in 0 .. n : Quoted(text, k) = IF InString(text, k) THEN 1 ELSE 0
  BY <1>0, <1>3
<1>5. ASSUME NEW k \in 1 .. n, text[k] \in Opening PROVE Quoted(text, k - 1) = 0
  <2>1. k - 1 \in Nat /\ k - 1 < Len(text) /\ (k - 1) + 1 = k /\ k - 1 \in 0 .. n
    BY <1>0
  <2>2. ~InString(text, k - 1)
    BY <1>5, <2>1, InStringSteps
  <2> QED BY <1>4, <2>1, <2>2
<1>6. Quoted(text, n) = 0
  <2> DEFINE c(t) == Cardinality({k \in DOMAIN text : text[k] = t})
  <2>1. \A t : Counted(text, {t}, 1, n) = c(t)
    <3>1. \A t : {k \in DOMAIN text : text[k] = t} = {k \in 1 .. n : text[k] \in {t}}
      OBVIOUS
    <3> QED BY <3>1 DEF Counted
  <2>2. c("string_open") = c("string_close")
    BY DEF LiteralsPaired
  <2>3. Counted(text, {"string_open"}, 1, n) \in Nat
    BY <1>0, CountedFacts
  <2> HIDE DEF c
  <2> QED BY <2>1, <2>2, <2>3 DEF Quoted
<1> QED BY <1>4, <1>5, <1>6

\* The first of a nonempty set of positions, and the last of one that has one.
LEMMA MinFacts ==
  ASSUME NEW S \in SUBSET Nat, S # {}
  PROVE  Min(S) \in S /\ \A j \in S : Min(S) <= j
BY LeastNat DEF Min

LEMMA MaxIs ==
  ASSUME NEW S \in SUBSET Nat, NEW m \in S, \A j \in S : j <= m
  PROVE  Max(S) = m
<1>1. \E x \in S : \A y \in S : x >= y
  OBVIOUS
<1>2. Max(S) \in S /\ \A y \in S : Max(S) >= y
  BY <1>1 DEF Max
<1> DEFINE x == Max(S)
<1>3. x \in Nat /\ m \in Nat /\ x >= m /\ x <= m
  BY <1>2
<1> HIDE DEF x
<1>4. x = m
  BY <1>3
<1> QED BY <1>4 DEF x

\* What is true of a closed file wherever a reader looks.
LEMMA ClosedFacts ==
  ASSUME NEW text, ClosedFile(text)
  PROVE  /\ text \in Seq(Tokens) /\ Len(text) \in Nat
         /\ Level(text, Len(text)) = 0 /\ Quoted(text, Len(text)) = 0
         /\ \A k \in 0 .. Len(text) : Level(text, k) \in Nat /\ Quoted(text, k) \in Nat
         /\ \A k \in 1 .. Len(text) :
              /\ text[k] \in Opening => Quoted(text, k - 1) = 0
              /\ text[k] = "open" /\ Level(text, k - 1) = 0 => k > 1 /\ text[k - 1] \in Headers
              /\ text[k] \in Contents => Level(text, k - 1) > 0 /\ Level(text, k) = Level(text, k - 1)
              /\ text[k] \in Headers => /\ k < Len(text) /\ text[k + 1] = "open"
                                        /\ Level(text, k - 1) = 0 /\ Level(text, k) = 0
                                        /\ Quoted(text, k - 1) = 0 /\ Quoted(text, k) = 0
<1> DEFINE n == Len(text)
<1>1. /\ text \in Seq(Tokens) /\ LiteralsPaired(text) /\ n \in Nat
      /\ \A k \in 0 .. n : Level(text, k) >= 0
      /\ \A k \in 1 .. n :
           /\ text[k] \in Headers => Level(text, k - 1) = 0 /\ (k < n => text[k + 1] = "open")
           /\ text[k] = "open" /\ Level(text, k - 1) = 0 => k > 1 /\ text[k - 1] \in Headers
           /\ text[k] \in {"close"} \cup Contents => Level(text, k - 1) > 0
  <2>1. text \in Seq(Tokens)
    BY DEF ClosedFile, File
  <2> QED BY <2>1 DEF ClosedFile, File
<1>2. Level(text, n) = 0
  BY <1>1, NestingIs DEF ClosedFile
<1>3. \A k \in 0 .. n : Level(text, k) \in Nat
  BY <1>1, LevelFacts
<1>4. /\ \A k \in 0 .. n : Quoted(text, k) \in Nat
      /\ \A k \in 1 .. n : text[k] \in Opening => Quoted(text, k - 1) = 0
      /\ Quoted(text, n) = 0
  BY <1>1, QuotedFacts
<1>5. n > 0 => text[n] \notin Headers
  BY <1>1 DEF ClosedFile, Awaiting
<1> HIDE DEF n
<1>6. ASSUME NEW k \in 1 .. n, text[k] \in Headers \cup Contents
      PROVE  Level(text, k) = Level(text, k - 1) /\ Quoted(text, k) = Quoted(text, k - 1)
  <2>1. k - 1 \in Nat /\ (k - 1) + 1 = k
    OBVIOUS
  <2>2. Sign(text[k], "open", "close") = 0 /\ Sign(text[k], "string_open", "string_close") = 0
    BY <1>6 DEF Sign, Headers, Contents
  <2>3. /\ Level(text, k) = Level(text, k - 1) + Sign(text[k], "open", "close")
        /\ Quoted(text, k) = Quoted(text, k - 1) + Sign(text[k], "string_open", "string_close")
        /\ Level(text, k - 1) \in Int /\ Quoted(text, k - 1) \in Int
    BY <2>1, LevelFacts
  <2> QED BY <2>2, <2>3
<1>7. ASSUME NEW k \in 1 .. n, text[k] \in Headers
      PROVE  /\ k < n /\ text[k + 1] = "open"
             /\ Level(text, k - 1) = 0 /\ Level(text, k) = 0
             /\ Quoted(text, k - 1) = 0 /\ Quoted(text, k) = 0
  <2>1. k # n
    BY <1>1, <1>5, <1>7
  <2>2. k < n /\ k + 1 \in 1 .. n /\ (k + 1) - 1 = k
    BY <1>1, <2>1
  <2>3. text[k + 1] = "open" /\ Level(text, k - 1) = 0
    BY <1>1, <1>7, <2>2
  <2>4. Quoted(text, k) = 0
    BY <1>4, <2>2, <2>3 DEF Opening
  <2> QED BY <1>6, <1>7, <2>2, <2>3, <2>4
<1>8. ASSUME NEW k \in 1 .. n, text[k] \in Contents
      PROVE  Level(text, k - 1) > 0 /\ Level(text, k) = Level(text, k - 1)
  BY <1>1, <1>6, <1>8
<1> QED BY <1>1, <1>2, <1>3, <1>4, <1>7, <1>8 DEF n

\* A block ends no later than where the depth is not positive any more, and is
\* open until then.
LEMMA EndFacts ==
  ASSUME NEW text \in Seq(Tokens), NEW o \in 1 .. Len(text), text[o] \in Opening,
         NEW z \in o .. Len(text), Depth(text, o, z) <= 0
  PROVE  /\ EndOf(text, o) # {}
         /\ Min(EndOf(text, o)) \in o + 1 .. z
         /\ Depth(text, o, Min(EndOf(text, o))) = 0
         /\ text[Min(EndOf(text, o))] \in Closing
         /\ \A y \in o .. Min(EndOf(text, o)) - 1 : Depth(text, o, y) > 0
<1> DEFINE n == Len(text)
           S == {y \in o .. n : Depth(text, o, y) <= 0}
<1>0. n \in Nat /\ o \in Nat \ {0} /\ S \in SUBSET Nat /\ z \in S
  OBVIOUS
<1>1. PICK e \in S : \A y \in S : e <= y
  <2> HIDE DEF S
  <2> QED BY <1>0, LeastNat
<1>2. e \in o .. n /\ Depth(text, o, e) <= 0 /\ e <= z
  BY <1>0, <1>1
<1>3. \A y \in o .. e - 1 : Depth(text, o, y) > 0
  <2> SUFFICES ASSUME NEW y \in o .. e - 1 PROVE Depth(text, o, y) > 0
    OBVIOUS
  <2>1. y \in o .. n /\ ~(e <= y) /\ y \in Nat /\ o <= y
    BY <1>0, <1>2
  <2>2. Depth(text, o, y) \in Int
    BY <1>0, <2>1, DepthSteps
  <2> QED BY <1>1, <2>1, <2>2
<1>4. e # o
  <2>1. Depth(text, o, o) = 1
    BY <1>0, DepthSteps
  <2> QED BY <1>2, <2>1
<1>5. Depth(text, o, e) = 0 /\ text[e] \in Closing
  <2>1. e - 1 \in Nat /\ o <= e - 1 /\ (e - 1) + 1 = e /\ e - 1 \in o .. e - 1
    BY <1>0, <1>2, <1>4
  <2>2. /\ Depth(text, o, e - 1) \in Int
        /\ Depth(text, o, e) = Depth(text, o, e - 1)
             + (IF text[e] \in Opening THEN 1 ELSE 0) - (IF text[e] \in Closing THEN 1 ELSE 0)
    <3> HIDE DEF S, n
    <3>0. o <= (e - 1) + 1
      BY <1>0, <2>1
    <3>1. /\ Depth(text, o, e - 1) \in Int
          /\ Depth(text, o, (e - 1) + 1) = Depth(text, o, e - 1)
               + (IF text[(e - 1) + 1] \in Opening THEN 1 ELSE 0) - (IF text[(e - 1) + 1] \in Closing THEN 1 ELSE 0)
      BY <1>0, <2>1, <3>0, DepthSteps
    <3> QED BY <2>1, <3>1
  <2>3. Depth(text, o, e - 1) > 0
    BY <1>3, <2>1
  <2> QED BY <1>2, <2>2, <2>3
<1>6. e \in EndOf(text, o)
  <2>1. e \in o + 1 .. n
    BY <1>0, <1>2, <1>4
  <2> QED BY <1>5, <2>1 DEF EndOf
<1>7. EndOf(text, o) \in SUBSET Nat /\ EndOf(text, o) \subseteq S
  BY DEF EndOf
<1>8. Min(EndOf(text, o)) = e
  <2>1. /\ Min(EndOf(text, o)) \in EndOf(text, o)
        /\ \A j \in EndOf(text, o) : Min(EndOf(text, o)) <= j
    BY <1>6, <1>7, MinFacts
  <2> DEFINE m == Min(EndOf(text, o))
  <2>2. m <= e /\ e <= m /\ m \in Nat /\ e \in Nat
    <3> HIDE DEF S
    <3> QED BY <1>0, <1>1, <1>6, <1>7, <2>1
  <2> HIDE DEF m
  <2>3. m = e
    BY <2>2
  <2> QED BY <2>3 DEF m
<1>9. e \in o + 1 .. z
  BY <1>0, <1>2, <1>4
<1> QED BY <1>3, <1>5, <1>6, <1>8, <1>9

\* The block of the outermost level that is open all the way to a position is
\* the outermost one there.
LEMMA OutermostIs ==
  ASSUME NEW text \in Seq(Tokens), NEW k \in 1 .. Len(text), NEW j \in 1 .. k,
         text[j] = "open", Level(text, j - 1) = 0, \A y \in j .. k - 1 : Level(text, y) > 0
  PROVE  Outermost(text, k) = j
<1> DEFINE S == {i \in 1 .. k : text[i] = "open" /\ Nesting(SubSeq(text, 1, i - 1)) = 0}
<1>1. \A i \in 1 .. k : Nesting(SubSeq(text, 1, i - 1)) = Level(text, i - 1)
  <2>1. \A i \in 1 .. k : i \in 1 .. Len(text) + 1
    OBVIOUS
  <2> QED BY <2>1, NestingIs
<1>2. j \in S /\ S \in SUBSET Nat
  BY <1>1
<1>3. \A i \in S : i <= j
  <2> SUFFICES ASSUME NEW i \in S, i > j PROVE FALSE
    OBVIOUS
  <2>1. i - 1 \in j .. k - 1 /\ Level(text, i - 1) = 0
    BY <1>1
  <2> QED BY <2>1
<1>4. Max(S) = j
  <2> HIDE DEF S
  <2> QED BY <1>2, <1>3, MaxIs
<1> QED BY <1>4 DEF Outermost

\* Where a block is open there is an outermost one, open from its header on.
LEMMA OutermostFacts ==
  ASSUME NEW text, ClosedFile(text), NEW k \in 1 .. Len(text), Level(text, k) > 0
  PROVE  /\ Outermost(text, k) \in 2 .. k
         /\ text[Outermost(text, k)] = "open"
         /\ text[Outermost(text, k) - 1] \in Headers
         /\ Level(text, Outermost(text, k) - 1) = 0
         /\ \A y \in Outermost(text, k) .. k : Level(text, y) > 0
<1> DEFINE S == {d \in 0 .. k : Level(text, k - d) = 0}
<1>1. k \in S /\ S \in SUBSET Nat
  BY LevelFacts
<1>2. PICK d \in S : \A x \in S : d <= x
  <2> HIDE DEF S
  <2> QED BY <1>1, LeastNat
<1> DEFINE j == (k - d) + 1
<1>3. d \in 1 .. k /\ Level(text, k - d) = 0
  <2>1. d \in 0 .. k /\ Level(text, k - d) = 0
    OBVIOUS
  <2>2. d # 0
    BY <2>1
  <2> QED BY <2>1, <2>2
<1>4. j \in 1 .. k /\ j - 1 = k - d /\ j - 1 \in Nat /\ (j - 1) + 1 = j
  BY <1>3
<1>5. \A y \in j .. k : Level(text, y) > 0
  <2> SUFFICES ASSUME NEW y \in j .. k PROVE Level(text, y) > 0
    OBVIOUS
  <2>1. k - y \in 0 .. k /\ ~(d <= k - y) /\ k - (k - y) = y
    BY <1>3
  <2>2. Level(text, y) # 0
    BY <1>2, <2>1
  <2>3. y \in 0 .. Len(text)
    BY <1>4
  <2>4. Level(text, y) \in Nat
    BY <2>3, ClosedFacts
  <2> QED BY <2>2, <2>4
<1> HIDE DEF j
<1>6. text[j] = "open"
  <2>1. Level(text, j) > 0 /\ Level(text, j - 1) = 0
    BY <1>3, <1>4, <1>5
  <2>2. Level(text, j) = 0 + Sign(text[j], "open", "close")
    BY <1>4, <2>1, LevelFacts
  <2> QED BY <2>1, <2>2 DEF Sign
<1>7. j > 1 /\ text[j - 1] \in Headers
  BY <1>3, <1>4, <1>6, ClosedFacts
<1>8. Outermost(text, k) = j
  <2>1. text \in Seq(Tokens) /\ Level(text, j - 1) = 0
    BY <1>3, <1>4, ClosedFacts
  <2>2. \A y \in j .. k - 1 : Level(text, y) > 0
    BY <1>4, <1>5
  <2> QED BY <1>4, <1>6, <2>1, <2>2, OutermostIs
<1> QED BY <1>3, <1>4, <1>5, <1>6, <1>7, <1>8

\* The search at a position: the words it may find, the braces one may open, and
\* the bodies from there on, of which those that follow are given.
Words(text, i) == {k \in i .. Len(text) : text[k] \in {"resource", "mention", "subresource"}}
Opens(text, start) == {k \in start .. Len(text) : text[k] \in Opening}
NextBodies(text, bodies, i) ==
  LET start == Min(Words(text, i))
      open  == Min(Opens(text, start))
      end   == Min(EndOf(text, open))
  IN IF Words(text, i) = {} THEN <<>>
     ELSE IF ~AtBoundary(text[start]) THEN bodies[start + 1]
     ELSE IF Opens(text, start) = {} \/ EndOf(text, open) = {} THEN <<>>
     ELSE <<open + 1 .. end - 1>> \o bodies[end + 1]

\* Where a search finds something, what it finds is in the file, and the search
\* resumes further on.
LEMMA SearchFacts ==
  ASSUME NEW text \in Seq(Tokens), NEW i \in 1 .. Len(text) + 1, Words(text, i) # {}
  PROVE  LET start == Min(Words(text, i))
             open == Min(Opens(text, start))
             end == Min(EndOf(text, open))
         IN /\ start \in i .. Len(text) /\ text[start] \in {"resource", "mention", "subresource"}
            /\ \A k \in i .. start - 1 : text[k] \notin {"resource", "mention", "subresource"}
            /\ Opens(text, start) # {} =>
                 /\ open \in start .. Len(text) /\ text[open] \in Opening
                 /\ \A k \in start .. open - 1 : text[k] \notin Opening
                 /\ EndOf(text, open) # {} => end \in open + 1 .. Len(text) /\ Depth(text, open, end) = 0
<1> DEFINE start == Min(Words(text, i))
           open == Min(Opens(text, start))
           end == Min(EndOf(text, open))
<1>0. Len(text) \in Nat
  OBVIOUS
<1>1. start \in Words(text, i) /\ \A j \in Words(text, i) : start <= j
  <2>1. Words(text, i) \in SUBSET Nat
    BY DEF Words
  <2> QED BY <2>1, MinFacts
<1> HIDE DEF start
<1>2. start \in i .. Len(text) /\ text[start] \in {"resource", "mention", "subresource"}
  BY <1>1 DEF Words
<1>3. \A k \in i .. start - 1 : text[k] \notin {"resource", "mention", "subresource"}
  <2> SUFFICES ASSUME NEW k \in i .. start - 1, k \in Words(text, i) PROVE FALSE
    BY <1>0, <1>2 DEF Words
  <2> QED BY <1>1, <1>2
<1>4. ASSUME Opens(text, start) # {}
      PROVE  /\ open \in start .. Len(text) /\ text[open] \in Opening
             /\ \A k \in start .. open - 1 : text[k] \notin Opening
  <2>1. Opens(text, start) \in SUBSET Nat
    BY <1>2 DEF Opens
  <2>2. open \in Opens(text, start) /\ \A j \in Opens(text, start) : open <= j
    BY <1>4, <2>1, MinFacts
  <2> HIDE DEF open
  <2>3. open \in start .. Len(text) /\ text[open] \in Opening
    BY <2>2 DEF Opens
  <2>4. \A k \in start .. open - 1 : text[k] \notin Opening
    <3> SUFFICES ASSUME NEW k \in start .. open - 1, k \in Opens(text, start) PROVE FALSE
      BY <1>0, <1>2, <2>3 DEF Opens
    <3> QED BY <1>2, <2>2, <2>3
  <2> QED BY <2>3, <2>4
<1>5. ASSUME Opens(text, start) # {}, EndOf(text, open) # {}
      PROVE  end \in open + 1 .. Len(text) /\ Depth(text, open, end) = 0
  <2>1. open \in Nat
    BY <1>2, <1>4, <1>5
  <2> HIDE DEF open
  <2>2. EndOf(text, open) \in SUBSET Nat
    BY <2>1 DEF EndOf
  <2>3. end \in EndOf(text, open)
    BY <1>5, <2>2, MinFacts
  <2> HIDE DEF end
  <2> QED BY <2>3 DEF EndOf
<1> QED BY <1>2, <1>3, <1>4, <1>5 DEF start

\* What holds of a position when it holds of all those after it, holds of all.
LEMMA FromTheEnd ==
  ASSUME NEW n \in Nat, NEW S \in SUBSET (1 .. n),
         \A i \in 1 .. n : (\A k \in 1 .. n : i < k => k \in S) => i \in S
  PROVE  S = 1 .. n
<1> SUFFICES ASSUME S # 1 .. n PROVE FALSE
  OBVIOUS
<1> DEFINE T == {d \in 0 .. n : n - d \in (1 .. n) \ S}
<1>1. T # {}
  <2>1. PICK i \in 1 .. n : i \notin S
    OBVIOUS
  <2>2. n - i \in 0 .. n /\ n - (n - i) = i
    OBVIOUS
  <2>3. n - i \in T
    BY <2>1, <2>2
  <2> QED BY <2>3
<1>2. PICK d \in T : \A x \in T : d <= x
  <2>1. T \in SUBSET Nat
    OBVIOUS
  <2> HIDE DEF T
  <2> QED BY <1>1, <2>1, LeastNat
<1> DEFINE i == n - d
<1>3. i \in 1 .. n /\ i \notin S
  OBVIOUS
<1>4. ASSUME NEW k \in 1 .. n, i < k, k \notin S PROVE FALSE
  <2>1. n - k \in 0 .. n /\ n - (n - k) = k /\ ~(d <= n - k)
    BY <1>4
  <2>2. n - k \in T
    BY <1>4, <2>1
  <2> QED BY <1>2, <2>1, <2>2
<1> QED BY <1>3, <1>4

\* The bodies are those the search finds first and those after it.
LEMMA BodiesFacts ==
  ASSUME NEW text \in Seq(Tokens)
  PROVE  \E bodies : /\ ResourceBlockBodies(text) = bodies[1]
                     /\ \A i \in 1 .. Len(text) + 1 : /\ bodies[i] \in Seq(SUBSET Int)
                                                      /\ bodies[i] = NextBodies(text, bodies, i)
<1> DEFINE D == 1 .. Len(text) + 1
           R == Seq(SUBSET Int)
           E(f) == [i \in D |-> NextBodies(text, f, i)]
           chosen == CHOOSE f : f = E(f)
<1>0. Len(text) \in Nat
  OBVIOUS
<1>1. ResourceBlockBodies(text) = chosen[1]
  BY DEF ResourceBlockBodies, NextBodies, Words, Opens
<1> DEFINE Resumes(i) ==
             LET start == Min(Words(text, i))
                 end == Min(EndOf(text, Min(Opens(text, start))))
             IN /\ Words(text, i) # {} => start + 1 \in D /\ i < start + 1
                /\ Words(text, i) # {} /\ Opens(text, start) # {} /\ EndOf(text, Min(Opens(text, start))) # {} =>
                     end + 1 \in D /\ i < end + 1
<1>2. ASSUME NEW i \in D PROVE Resumes(i)
  <2> DEFINE start == Min(Words(text, i))
             open == Min(Opens(text, start))
             end == Min(EndOf(text, open))
  <2>1. ASSUME Words(text, i) # {} PROVE start \in i .. Len(text)
    BY <2>1, SearchFacts
  <2>2. ASSUME Words(text, i) # {}, Opens(text, start) # {}, EndOf(text, open) # {}
        PROVE  open \in start .. Len(text) /\ end \in open + 1 .. Len(text)
    BY <2>2, SearchFacts
  <2> HIDE DEF start
  <2>3. ASSUME Words(text, i) # {} PROVE start + 1 \in D /\ i < start + 1
    BY <1>0, <2>1, <2>3
  <2>4. ASSUME Words(text, i) # {}, Opens(text, start) # {}, EndOf(text, open) # {}
        PROVE  end + 1 \in D /\ i < end + 1
    <3> HIDE DEF open, end
    <3> QED BY <1>0, <2>1, <2>2, <2>4
  <2> QED BY <2>3, <2>4 DEF start
<1>3. ASSUME NEW f, NEW i \in D, \A k \in D : i < k => f[k] \in R PROVE NextBodies(text, f, i) \in R
  <2> DEFINE start == Min(Words(text, i))
             open == Min(Opens(text, start))
             end == Min(EndOf(text, open))
  <2>1. /\ Words(text, i) # {} => start + 1 \in D /\ i < start + 1
        /\ Words(text, i) # {} /\ Opens(text, start) # {} /\ EndOf(text, open) # {} => end + 1 \in D /\ i < end + 1
    BY <1>2
  <2>2. /\ <<>> \in R
        /\ \A x \in R : <<open + 1 .. end - 1>> \o x \in R
    <3>1. (open + 1 .. end - 1) \in SUBSET Int
      <4> HIDE DEF open, end
      <4> QED OBVIOUS
    <3> HIDE DEF open, end
    <3> QED BY <3>1
  <2> HIDE DEF start, open, end, D, R
  <2>3. NextBodies(text, f, i) = IF Words(text, i) = {} THEN <<>>
                                 ELSE IF ~AtBoundary(text[start]) THEN f[start + 1]
                                 ELSE IF Opens(text, start) = {} \/ EndOf(text, open) = {} THEN <<>>
                                 ELSE <<open + 1 .. end - 1>> \o f[end + 1]
    BY DEF NextBodies, start, open, end
  <2> QED BY <1>3, <2>1, <2>2, <2>3
<1>4. \E f : f = E(f)
  <2> DEFINE rank == [i \in D |-> (Len(text) + 1) - i]
             e == [f \in [D -> R] |-> E(f)]
             c == [i \in D |-> <<>>]
  <2>1. c \in [D -> R] /\ rank \in [D -> Nat]
    BY <1>0
  <2>2. ASSUME NEW f \in [D -> R], NEW i \in D PROVE NextBodies(text, f, i) \in R
    <3> HIDE DEF D, R
    <3> QED BY <1>3
  <2>3. e \in [[D -> R] -> [D -> R]]
    <3> HIDE DEF D, R
    <3> QED BY <2>2
  <2>4. Lowers(D, R, rank, e)
    <3> SUFFICES ASSUME NEW f \in [D -> R], NEW g \in [D -> R], NEW i \in D,
                        \A y \in D : rank[y] < rank[i] => f[y] = g[y]
                 PROVE  e[f][i] = e[g][i]
      BY DEF Lowers
    <3>1. e[f][i] = NextBodies(text, f, i) /\ e[g][i] = NextBodies(text, g, i)
      OBVIOUS
    <3>2. \A y \in D : i < y => f[y] = g[y]
      BY <1>0
    <3> DEFINE start == Min(Words(text, i))
               open == Min(Opens(text, start))
               end == Min(EndOf(text, open))
    <3>3. /\ Words(text, i) # {} => start + 1 \in D /\ i < start + 1
          /\ Words(text, i) # {} /\ Opens(text, start) # {} /\ EndOf(text, open) # {} => end + 1 \in D /\ i < end + 1
      BY <1>2
    <3>4. /\ Words(text, i) # {} => f[start + 1] = g[start + 1]
          /\ Words(text, i) # {} /\ Opens(text, start) # {} /\ EndOf(text, open) # {} => f[end + 1] = g[end + 1]
      <4> HIDE DEF start, open, end, D
      <4> QED BY <3>2, <3>3
    <3> HIDE DEF e
    <3> QED BY <3>1, <3>4 DEF NextBodies
  <2> HIDE DEF D, R, rank, e, c
  <2>5. HasSolution(D, R, e)
    BY <2>1, <2>3, <2>4, Recursion
  <2>6. \E f \in [D -> R] : f = e[f]
    BY <2>5 DEF HasSolution
  <2> HIDE DEF E
  <2> QED BY <2>6 DEF e
<1>5. chosen = E(chosen)
  <2> HIDE DEF E
  <2> QED BY <1>4
<1> DEFINE S == {i \in D : chosen[i] \in R}
<1>6. S = D
  <2>1. ASSUME NEW i \in D, \A k \in D : i < k => k \in S PROVE i \in S
    <3>1. \A k \in D : i < k => chosen[k] \in R
      BY <2>1
    <3>2. NextBodies(text, chosen, i) \in R
      <4> HIDE DEF chosen, D, R
      <4> QED BY <1>3, <3>1
    <3>3. chosen[i] = NextBodies(text, chosen, i)
      <4> HIDE DEF chosen
      <4> QED BY <1>5
    <3> QED BY <3>2, <3>3
  <2>2. Len(text) + 1 \in Nat /\ S \in SUBSET D
    BY <1>0
  <2> HIDE DEF S
  <2> QED BY <2>1, <2>2, FromTheEnd
<1>7. \A i \in D : chosen[i] \in R /\ chosen[i] = NextBodies(text, chosen, i)
  <2>1. \A i \in D : chosen[i] \in R
    BY <1>6
  <2> HIDE DEF chosen, R
  <2> QED BY <1>5, <2>1
<1> HIDE DEF chosen
<1> QED BY <1>1, <1>7

\* Where the search may resume without having passed a resource block by: not
\* between its header and its brace, and not in it.
Resumable(text, i) ==
  i > 1 => /\ text[i - 1] # "resource"
           /\ Level(text, i - 1) > 0 => text[Outermost(text, i - 1) - 1] # "resource"

\* A search that passes no header of a resource block can be resumed.
LEMMA StillResumable ==
  ASSUME NEW text, ClosedFile(text), NEW i \in 1 .. Len(text) + 1, Resumable(text, i),
         NEW e \in i .. Len(text), \A x \in i .. e : text[x] # "resource"
  PROVE  Resumable(text, e + 1)
<1>0. text \in Seq(Tokens) /\ Len(text) \in Nat /\ e \in 1 .. Len(text) /\ (e + 1) - 1 = e
  BY ClosedFacts
<1> SUFFICES ASSUME Level(text, e) > 0, text[Outermost(text, e) - 1] = "resource" PROVE FALSE
  BY <1>0 DEF Resumable
<1> DEFINE j == Outermost(text, e)
<1>1. /\ j \in 2 .. e /\ text[j] = "open" /\ Level(text, j - 1) = 0
      /\ \A y \in j .. e : Level(text, y) > 0
      /\ text[j - 1] = "resource"
  BY <1>0, OutermostFacts
<1> HIDE DEF j
<1>2. j <= i
  <2>1. j - 1 \notin i .. e
    BY <1>1
  <2> QED BY <1>0, <1>1, <2>1
<1>3. CASE j = i
  BY <1>1, <1>3 DEF Resumable
<1>4. CASE j < i
  <2>1. i - 1 \in 1 .. Len(text) /\ j \in 1 .. i - 1 /\ i > 1
    BY <1>0, <1>1, <1>4
  <2>2. \A y \in j .. i - 1 : y \in j .. e
    BY <1>0, <1>1, <1>4
  <2>3. Level(text, i - 1) > 0 /\ \A y \in j .. (i - 1) - 1 : Level(text, y) > 0
    BY <1>1, <2>1, <2>2
  <2>4. Outermost(text, i - 1) = j
    BY <1>0, <1>1, <2>1, <2>3, OutermostIs
  <2> QED BY <1>1, <2>1, <2>3, <2>4 DEF Resumable
<1> QED BY <1>0, <1>1, <1>2, <1>3, <1>4

\* What stands in a resource block, and the block's header ahead of any search
\* that has not passed it.
LEMMA AheadOfSearch ==
  ASSUME NEW text, ClosedFile(text), NEW k \in InResourceBlock(text)
  PROVE  /\ k \in 1 .. Len(text) /\ text[k] \in Contents
         /\ Outermost(text, k) \in 2 .. k - 1
         /\ text[Outermost(text, k)] = "open"
         /\ text[Outermost(text, k) - 1] = "resource"
         /\ Level(text, Outermost(text, k) - 1) = 0
         /\ \A y \in Outermost(text, k) .. k : Level(text, y) > 0
         /\ \A i \in 1 .. k : Resumable(text, i) => i < Outermost(text, k)
<1> DEFINE j == Outermost(text, k)
<1>0. /\ text \in Seq(Tokens) /\ Len(text) \in Nat
      /\ k \in 1 .. Len(text) /\ text[k] \in Contents /\ text[j - 1] = "resource"
  <2>1. text \in Seq(Tokens)
    BY ClosedFacts
  <2> QED BY <2>1 DEF InResourceBlock
<1>1. Level(text, k) > 0
  BY <1>0, ClosedFacts
<1>2. /\ j \in 2 .. k /\ text[j] = "open" /\ Level(text, j - 1) = 0
      /\ \A y \in j .. k : Level(text, y) > 0
  BY <1>0, <1>1, OutermostFacts
<1> HIDE DEF j
<1>3. j # k
  BY <1>0, <1>2 DEF Contents
<1>4. ASSUME NEW i \in 1 .. k, Resumable(text, i), ~(i < j) PROVE FALSE
  <2>1. CASE j = i
    BY <1>0, <1>2, <1>4, <2>1 DEF Resumable
  <2>2. CASE j < i
    <3>1. i - 1 \in 1 .. Len(text) /\ j \in 1 .. i - 1 /\ i > 1
      BY <1>0, <1>2, <2>2
    <3>2. \A y \in j .. i - 1 : y \in j .. k
      BY <1>0, <1>2, <2>2
    <3>3. Level(text, i - 1) > 0 /\ \A y \in j .. (i - 1) - 1 : Level(text, y) > 0
      BY <1>2, <3>1, <3>2
    <3>4. Outermost(text, i - 1) = j
      BY <1>0, <1>2, <3>1, <3>3, OutermostIs
    <3> QED BY <1>0, <1>4, <3>1, <3>3, <3>4 DEF Resumable
  <2> QED BY <1>2, <1>4, <2>1, <2>2
<1> QED BY <1>0, <1>2, <1>3, <1>4 DEF j

\* Outside every string the depth is how many blocks have been opened since.
LEMMA DepthOfBlocks ==
  ASSUME NEW text, ClosedFile(text), NEW o \in 1 .. Len(text), text[o] \in Opening, NEW k \in o .. Len(text)
  PROVE  /\ Level(text, o - 1) \in Nat /\ Level(text, k) \in Nat /\ Quoted(text, k) \in Nat
         /\ Depth(text, o, k) = (Level(text, k) + Quoted(text, k)) - Level(text, o - 1)
<1>1. Quoted(text, o - 1) = 0
  BY ClosedFacts
<1>2. o - 1 \in 0 .. Len(text) /\ k \in 0 .. Len(text) /\ o \in Nat \ {0} /\ k \in Nat /\ o <= k
  BY ClosedFacts
<1>3. Level(text, o - 1) \in Nat /\ Level(text, k) \in Nat /\ Quoted(text, k) \in Nat
  BY <1>2, ClosedFacts
<1>4. Depth(text, o, k) = (Level(text, k) + Quoted(text, k)) - (Level(text, o - 1) + Quoted(text, o - 1))
  BY <1>2, DepthIs
<1> QED BY <1>1, <1>3, <1>4

\* A search that comes before what stands in a resource block finds a word, and
\* passes by less than the block, or takes its body.
LEMMA SearchStep ==
  ASSUME NEW text, ClosedFile(text), NEW k \in InResourceBlock(text), NEW i \in 1 .. k, Resumable(text, i)
  PROVE  LET start == Min(Words(text, i))
             open  == Min(Opens(text, start))
             end   == Min(EndOf(text, open))
         IN /\ Words(text, i) # {}
            /\ ~AtBoundary(text[start]) => start + 1 \in i + 1 .. k /\ Resumable(text, start + 1)
            /\ AtBoundary(text[start]) =>
                 /\ Opens(text, start) # {} /\ EndOf(text, open) # {}
                 /\ \/ k \in open + 1 .. end - 1
                    \/ end + 1 \in i + 1 .. k /\ Resumable(text, end + 1)
<1> DEFINE n == Len(text)
           j == Outermost(text, k)
           h == j - 1
           start == Min(Words(text, i))
           open  == Min(Opens(text, start))
           end   == Min(EndOf(text, open))
<1>0. text \in Seq(Tokens) /\ n \in Nat
  BY ClosedFacts
<1>1. /\ k \in 1 .. n /\ text[k] \in Contents /\ j \in 2 .. k - 1 /\ text[j] = "open" /\ text[h] = "resource"
      /\ Level(text, h) = 0 /\ \A y \in j .. k : Level(text, y) > 0 /\ i < j
  BY AheadOfSearch
<1> HIDE DEF j
<1>2. h \in i .. n /\ h \in 1 .. n /\ i \in 1 .. n + 1 /\ j \in 1 .. n /\ j = h + 1
  BY <1>0, <1>1
<1>3. h \in Words(text, i)
  BY <1>1, <1>2 DEF Words
<1>4. /\ start \in i .. n /\ text[start] \in {"resource", "mention", "subresource"}
      /\ \A x \in i .. start - 1 : text[x] \notin {"resource", "mention", "subresource"}
      /\ Opens(text, start) # {} =>
           /\ open \in start .. n /\ text[open] \in Opening
           /\ \A x \in start .. open - 1 : text[x] \notin Opening
  BY <1>0, <1>2, <1>3, SearchFacts
<1>5. start <= h
  <2>1. Words(text, i) \in SUBSET Nat
    BY DEF Words
  <2> QED BY <1>3, <2>1, MinFacts
<1> HIDE DEF start
<1>6. ASSUME ~AtBoundary(text[start]) PROVE start + 1 \in i + 1 .. k /\ Resumable(text, start + 1)
  <2>1. text[start] = "subresource"
    BY <1>4, <1>6 DEF AtBoundary
  <2>2. start \in 1 .. n /\ (start + 1) - 1 = start
    BY <1>4
  <2>3. Level(text, start) = 0
    BY <2>1, <2>2, ClosedFacts DEF Headers
  <2>4. Resumable(text, start + 1)
    BY <2>1, <2>2, <2>3 DEF Resumable
  <2> QED BY <1>1, <1>2, <1>4, <1>5, <2>4
<1>7. ASSUME AtBoundary(text[start])
      PROVE  /\ Opens(text, start) # {} /\ EndOf(text, open) # {}
             /\ \/ k \in open + 1 .. end - 1
                \/ end + 1 \in i + 1 .. k /\ Resumable(text, end + 1)
  <2>1. j \in Opens(text, start)
    BY <1>0, <1>1, <1>2, <1>4, <1>5 DEF Opens, Opening
  <2>2. open <= j
    <3>1. Opens(text, start) \in SUBSET Nat
      BY <1>4 DEF Opens
    <3> QED BY <2>1, <3>1, MinFacts
  <2>3. /\ open \in start .. n /\ open \in 1 .. n /\ text[open] \in Opening
        /\ \A x \in start .. open - 1 : text[x] \notin Opening
    BY <1>4, <2>1
  <2> HIDE DEF open, h
  <2>4. CASE open = j
    <3>1. n \in open .. n /\ h = j - 1
      BY <1>0, <2>3 DEF h
    <3>2. Depth(text, open, n) <= 0
      <4>1. Depth(text, open, n) = (Level(text, n) + Quoted(text, n)) - Level(text, h)
        BY <2>3, <2>4, <3>1, DepthOfBlocks
      <4>2. Level(text, n) = 0 /\ Quoted(text, n) = 0
        BY ClosedFacts
      <4> QED BY <1>1, <4>1, <4>2
    <3>3. EndOf(text, open) # {} /\ end \in open + 1 .. n /\ Depth(text, open, end) = 0
      BY <1>0, <2>3, <3>1, <3>2, EndFacts
    <3> HIDE DEF end, n
    <3>4. ~(end <= k)
      <4> SUFFICES ASSUME end <= k PROVE FALSE
        OBVIOUS
      <4>1. end \in open .. n /\ end \in j .. k
        BY <1>0, <1>1, <2>3, <2>4, <3>3
      <4>2. /\ Depth(text, open, end) = (Level(text, end) + Quoted(text, end)) - Level(text, h)
            /\ Level(text, end) \in Nat /\ Quoted(text, end) \in Nat
        BY <2>3, <2>4, <3>1, <4>1, DepthOfBlocks DEF n
      <4>3. Level(text, end) > 0
        BY <1>1, <4>1
      <4> QED BY <1>1, <3>3, <4>2, <4>3
    <3>5. k \in open + 1 .. end - 1
      BY <1>0, <1>1, <2>3, <2>4, <3>3, <3>4
    <3> QED BY <2>1, <3>3, <3>5
  <2>5. CASE open # j
    <3>1. open # h
      BY <1>1, <2>3 DEF Opening
    <3>2. h - 1 \in open .. n /\ h \in Nat /\ h - 1 < k
      BY <1>0, <1>1, <1>2, <2>2, <2>3, <2>5, <3>1
    <3>3. Level(text, h - 1) = 0 /\ Quoted(text, h - 1) = 0
      BY <1>1, <1>2, ClosedFacts DEF Headers
    <3>4. Depth(text, open, h - 1) <= 0
      <4>1. /\ Depth(text, open, h - 1) = (Level(text, h - 1) + Quoted(text, h - 1)) - Level(text, open - 1)
            /\ Level(text, open - 1) \in Nat
        BY <2>3, <3>2, DepthOfBlocks
      <4> QED BY <3>3, <4>1
    <3>5. /\ EndOf(text, open) # {} /\ end \in open + 1 .. h - 1 /\ Depth(text, open, end) = 0
          /\ text[end] \in Closing
          /\ \A y \in open .. end - 1 : Depth(text, open, y) > 0
      BY <1>0, <2>3, <3>2, <3>4, EndFacts
    <3> HIDE DEF end, n
    <3>6. end \in open .. n /\ end \in 1 .. n /\ end \in i .. n /\ end + 1 \in i + 1 .. k /\ (end + 1) - 1 = end
      BY <1>0, <1>1, <1>2, <1>4, <2>3, <3>2, <3>5
    <3>7. Resumable(text, end + 1)
      <4>1. CASE \E x \in start .. open - 1 : text[x] = "resource"
        <5>1. PICK x \in start .. open - 1 : text[x] = "resource"
          BY <4>1
        <5>2. x \in 1 .. n
          BY <1>0, <1>4, <2>3, <5>1
        <5>3. text[x + 1] = "open" /\ Level(text, x) = 0
          BY <5>1, <5>2, ClosedFacts DEF Headers, n
        <5>4. x + 1 \notin start .. open - 1
          BY <2>3, <5>3 DEF Opening
        <5>5. open - 1 = x
          BY <1>0, <1>4, <2>3, <5>1, <5>4
        <5>6. /\ Depth(text, open, end) = (Level(text, end) + Quoted(text, end)) - Level(text, x)
              /\ Level(text, end) \in Nat /\ Quoted(text, end) \in Nat
          BY <2>3, <3>6, <5>5, DepthOfBlocks DEF n
        <5>7. Level(text, end) = 0
          BY <3>5, <5>3, <5>6
        <5>8. text[end] # "resource"
          BY <3>5 DEF Closing
        <5> QED BY <3>6, <5>7, <5>8 DEF Resumable
      <4>2. CASE \A x \in start .. open - 1 : text[x] # "resource"
        <5>1. ASSUME NEW x \in open + 1 .. end, text[x] = "resource" PROVE FALSE
          <6>1. x # end
            BY <3>5, <5>1 DEF Closing
          <6>2. x \in 1 .. n /\ x - 1 \in open .. end - 1 /\ x - 1 \in open .. n
            BY <1>0, <2>3, <3>6, <6>1
          <6>3. Level(text, x - 1) = 0 /\ Quoted(text, x - 1) = 0
            BY <5>1, <6>2, ClosedFacts DEF Headers, n
          <6>4. /\ Depth(text, open, x - 1) = (Level(text, x - 1) + Quoted(text, x - 1)) - Level(text, open - 1)
                /\ Level(text, open - 1) \in Nat
            BY <2>3, <6>2, DepthOfBlocks DEF n
          <6>5. Depth(text, open, x - 1) > 0
            BY <3>5, <6>2
          <6> QED BY <6>3, <6>4, <6>5
        <5>2. text[open] # "resource"
          BY <2>3 DEF Opening
        <5>3. \A x \in i .. end : x \in i .. start - 1 \/ x \in start .. open - 1 \/ x = open \/ x \in open + 1 .. end
          BY <1>0, <1>4, <2>3, <3>5
        <5>4. \A x \in i .. end : text[x] # "resource"
          BY <1>4, <4>2, <5>1, <5>2, <5>3
        <5> QED BY <1>2, <3>6, <5>4, StillResumable DEF n
      <4> QED BY <4>1, <4>2
    <3> QED BY <2>1, <3>5, <3>6, <3>7
  <2> QED BY <2>4, <2>5
<1> HIDE DEF open, end
<1> QED BY <1>3, <1>6, <1>7 DEF start, open, end

\* A body more is a set of positions more.
LEMMA BodyMore ==
  ASSUME NEW X \in SUBSET Int, NEW q \in Seq(SUBSET Int)
  PROVE  UNION Range(<<X>> \o q) = X \cup UNION Range(q)
<1> DEFINE s == <<X>> \o q
<1>1. /\ s \in Seq(SUBSET Int) /\ Len(s) = Len(q) + 1 /\ s[1] = X
      /\ \A i \in 1 .. Len(q) : s[i + 1] = q[i]
  OBVIOUS
<1>2. DOMAIN s = 1 .. Len(q) + 1 /\ DOMAIN q = 1 .. Len(q) /\ Len(q) \in Nat
  BY <1>1
<1> HIDE DEF s
<1>3. X \in Range(s) /\ \A x \in Range(q) : x \in Range(s)
  <2>1. 1 \in DOMAIN s /\ \A i \in DOMAIN q : i + 1 \in DOMAIN s
    BY <1>2
  <2> QED BY <1>1, <1>2, <2>1 DEF Range
<1>4. \A x \in Range(s) : x = X \/ x \in Range(q)
  <2> SUFFICES ASSUME NEW i \in DOMAIN s, i # 1 PROVE s[i] \in Range(q)
    BY <1>1 DEF Range
  <2>1. i - 1 \in 1 .. Len(q) /\ (i - 1) + 1 = i
    BY <1>2
  <2>2. s[i] = q[i - 1] /\ i - 1 \in DOMAIN q
    BY <1>1, <1>2, <2>1
  <2> QED BY <2>2 DEF Range
<1>5. UNION Range(s) = X \cup UNION Range(q)
  BY <1>3, <1>4
<1> QED BY <1>5 DEF s

\* The bodies have everything that stands in a resource block.
LEMMA NothingPassedBy ==
  ASSUME NEW text, ClosedFile(text), NEW k \in InResourceBlock(text)
  PROVE  k \in UNION Range(ResourceBlockBodies(text))
<1> DEFINE n == Len(text)
           D == 1 .. n + 1
<1>0. text \in Seq(Tokens) /\ n \in Nat /\ k \in 1 .. n
  BY ClosedFacts, AheadOfSearch
<1>1. PICK bodies : /\ ResourceBlockBodies(text) = bodies[1]
                    /\ \A i \in D : bodies[i] \in Seq(SUBSET Int) /\ bodies[i] = NextBodies(text, bodies, i)
  BY <1>0, BodiesFacts
<1> DEFINE S == {i \in D : i <= k /\ Resumable(text, i) => k \in UNION Range(bodies[i])}
<1>2. ASSUME NEW i \in D, \A x \in D : i < x => x \in S PROVE i \in S
  <2> SUFFICES ASSUME i <= k, Resumable(text, i) PROVE k \in UNION Range(bodies[i])
    OBVIOUS
  <2> DEFINE start == Min(Words(text, i))
             open  == Min(Opens(text, start))
             end   == Min(EndOf(text, open))
  <2>1. i \in 1 .. k
    BY <1>0
  <2>2. /\ Words(text, i) # {}
        /\ ~AtBoundary(text[start]) => start + 1 \in i + 1 .. k /\ Resumable(text, start + 1)
        /\ AtBoundary(text[start]) =>
             /\ Opens(text, start) # {} /\ EndOf(text, open) # {}
             /\ \/ k \in open + 1 .. end - 1
                \/ end + 1 \in i + 1 .. k /\ Resumable(text, end + 1)
    BY <2>1, SearchStep
  <2>3. bodies[i] = IF Words(text, i) = {} THEN <<>>
                    ELSE IF ~AtBoundary(text[start]) THEN bodies[start + 1]
                    ELSE IF Opens(text, start) = {} \/ EndOf(text, open) = {} THEN <<>>
                    ELSE <<open + 1 .. end - 1>> \o bodies[end + 1]
    BY <1>1 DEF NextBodies
  <2> HIDE DEF start
  <2>4. ASSUME NEW x \in i + 1 .. k, Resumable(text, x) PROVE k \in UNION Range(bodies[x])
    <3>1. x \in D /\ i < x /\ x <= k
      BY <1>0, <2>1
    <3> QED BY <1>2, <2>4, <3>1
  <2>5. CASE ~AtBoundary(text[start])
    BY <2>2, <2>3, <2>4, <2>5
  <2>6. CASE AtBoundary(text[start])
    <3>1. end + 1 \in D
      <4>1. end \in open + 1 .. n /\ open \in start .. n /\ start \in i .. n
        BY <1>0, <2>2, <2>6, SearchFacts DEF start
      <4> HIDE DEF end, open
      <4> QED BY <1>0, <2>1, <4>1
    <3>2. bodies[end + 1] \in Seq(SUBSET Int)
      BY <1>1, <3>1
    <3>3. (open + 1 .. end - 1) \in SUBSET Int
      <4> HIDE DEF end, open
      <4> QED OBVIOUS
    <3> HIDE DEF end, open, n, S
    <3>4. bodies[i] = <<open + 1 .. end - 1>> \o bodies[end + 1]
      BY <2>2, <2>3, <2>6
    <3>5. UNION Range(bodies[i]) = (open + 1 .. end - 1) \cup UNION Range(bodies[end + 1])
      BY <3>2, <3>3, <3>4, BodyMore
    <3> QED BY <2>2, <2>4, <2>6, <3>5
  <2> QED BY <2>5, <2>6
<1>3. S = D
  <2>1. n + 1 \in Nat /\ S \in SUBSET D
    BY <1>0
  <2> HIDE DEF S
  <2> QED BY <1>2, <2>1, FromTheEnd
<1>4. 1 \in D /\ 1 <= k /\ Resumable(text, 1)
  BY <1>0 DEF Resumable
<1>5. k \in UNION Range(bodies[1])
  BY <1>3, <1>4
<1> QED BY <1>1, <1>5

\* Where no comment spells a header, a body is that of a resource block.
LEMMA BodyIsOfBlock ==
  ASSUME NEW text, ClosedFile(text), \A k \in DOMAIN text : text[k] # "mention",
         NEW i \in 1 .. Len(text) + 1, Words(text, i) # {}, AtBoundary(text[Min(Words(text, i))]),
         Opens(text, Min(Words(text, i))) # {}, EndOf(text, Min(Opens(text, Min(Words(text, i))))) # {},
         NEW k \in Min(Opens(text, Min(Words(text, i)))) + 1
                     .. Min(EndOf(text, Min(Opens(text, Min(Words(text, i)))))) - 1
  PROVE  k \in DOMAIN text /\ (text[k] \in Contents => k \in InResourceBlock(text))
<1> DEFINE n == Len(text)
           start == Min(Words(text, i))
           open  == Min(Opens(text, start))
           end   == Min(EndOf(text, open))
           j == Outermost(text, k)
<1>0. text \in Seq(Tokens) /\ n \in Nat /\ DOMAIN text = 1 .. n
  BY ClosedFacts
<1>1. /\ start \in i .. n /\ text[start] \in {"resource", "mention", "subresource"}
      /\ open \in start .. n /\ text[open] \in Opening
      /\ \A x \in start .. open - 1 : text[x] \notin Opening
      /\ end \in open + 1 .. n /\ Depth(text, open, end) = 0
  BY <1>0, SearchFacts
<1>2. k \in open + 1 .. end - 1 /\ AtBoundary(text[start])
  OBVIOUS
<1> HIDE DEF start
<1>3. start \in 1 .. n /\ text[start] = "resource"
  <2>1. start \in 1 .. n
    BY <1>0, <1>1
  <2> QED BY <1>0, <1>1, <1>2, <2>1 DEF AtBoundary
<1>4. start < n /\ text[start + 1] = "open" /\ Level(text, start) = 0
  BY <1>3, ClosedFacts DEF Headers
<1>5. \A y \in open .. end - 1 : Depth(text, open, y) > 0
  <2>1. open \in 1 .. n /\ end \in open .. n /\ Depth(text, open, end) <= 0
    BY <1>0, <1>1, <1>3
  <2> QED BY <1>0, <1>1, <2>1, EndFacts
<1> HIDE DEF open, end, n
<1>6. open = start + 1
  <2>1. start + 1 \notin start .. open - 1
    BY <1>1, <1>4 DEF Opening
  <2>2. open # start
    BY <1>1, <1>3 DEF Opening
  <2> QED BY <1>0, <1>1, <1>3, <2>1, <2>2
<1>7. k \in 1 .. n /\ open \in 1 .. n
  BY <1>0, <1>1, <1>2, <1>3
<1>8. ASSUME text[k] \in Contents PROVE k \in InResourceBlock(text)
  <2>1. Level(text, k) > 0
    BY <1>7, <1>8, ClosedFacts DEF n
  <2>2. /\ j \in 2 .. k /\ text[j - 1] \in Headers /\ Level(text, j - 1) = 0
        /\ \A y \in j .. k : Level(text, y) > 0
    BY <1>7, <2>1, OutermostFacts DEF n
  <2> HIDE DEF j
  <2>3. ASSUME j > open PROVE FALSE
    <3>1. j - 1 \in 1 .. n /\ j - 1 \in open .. end - 1 /\ j - 1 \in open .. n
      BY <1>0, <1>1, <1>2, <1>7, <2>2, <2>3
    <3>2. Quoted(text, j - 1) = 0
      BY <2>2, <3>1, ClosedFacts DEF n
    <3>3. /\ Depth(text, open, j - 1) = (Level(text, j - 1) + Quoted(text, j - 1)) - Level(text, open - 1)
          /\ Level(text, open - 1) \in Nat
      BY <1>1, <1>7, <3>1, DepthOfBlocks DEF n
    <3>4. Depth(text, open, j - 1) > 0
      BY <1>5, <3>1
    <3> QED BY <2>2, <3>2, <3>3, <3>4
  <2>4. ASSUME j < open PROVE FALSE
    <3>1. start \in j .. k
      BY <1>0, <1>1, <1>2, <1>6, <2>2, <2>4
    <3> QED BY <1>4, <2>2, <3>1
  <2>5. j = open
    BY <1>1, <1>7, <2>2, <2>3, <2>4
  <2>6. j - 1 = start
    BY <1>3, <1>6, <2>5
  <2> QED BY <1>0, <1>3, <1>7, <1>8, <2>6 DEF InResourceBlock, j
<1> QED BY <1>0, <1>7, <1>8

\* So then the bodies have nothing else of what the readers look for.
LEMMA NothingElseTaken ==
  ASSUME NEW text, ClosedFile(text), \A k \in DOMAIN text : text[k] # "mention",
         NEW k \in UNION Range(ResourceBlockBodies(text)), text[k] \in Contents
  PROVE  k \in InResourceBlock(text)
<1> DEFINE n == Len(text)
           D == 1 .. n + 1
           B == InResourceBlock(text)
<1>0. text \in Seq(Tokens) /\ n \in Nat
  BY ClosedFacts
<1>1. PICK bodies : /\ ResourceBlockBodies(text) = bodies[1]
                    /\ \A i \in D : bodies[i] \in Seq(SUBSET Int) /\ bodies[i] = NextBodies(text, bodies, i)
  BY <1>0, BodiesFacts
<1> DEFINE S == {i \in D : k \in UNION Range(bodies[i]) => k \in B}
<1>2. ASSUME NEW i \in D, \A x \in D : i < x => x \in S PROVE i \in S
  <2> SUFFICES ASSUME k \in UNION Range(bodies[i]) PROVE k \in B
    OBVIOUS
  <2> DEFINE start == Min(Words(text, i))
             open  == Min(Opens(text, start))
             end   == Min(EndOf(text, open))
  <2>1. bodies[i] = IF Words(text, i) = {} THEN <<>>
                    ELSE IF ~AtBoundary(text[start]) THEN bodies[start + 1]
                    ELSE IF Opens(text, start) = {} \/ EndOf(text, open) = {} THEN <<>>
                    ELSE <<open + 1 .. end - 1>> \o bodies[end + 1]
    BY <1>1 DEF NextBodies
  <2>2. Range(<<>>) = {}
    BY DEF Range
  <2>3. /\ Words(text, i) # {} => start \in i .. n
        /\ Words(text, i) # {} /\ Opens(text, start) # {} /\ EndOf(text, open) # {} =>
             open \in start .. n /\ end \in open + 1 .. n
    BY <1>0, SearchFacts
  <2>4. CASE Words(text, i) = {}
    BY <2>1, <2>2, <2>4
  <2>5. CASE Words(text, i) # {} /\ ~AtBoundary(text[start])
    <3> HIDE DEF start, S
    <3>1. start + 1 \in D /\ i < start + 1
      BY <1>0, <2>3, <2>5
    <3>2. bodies[i] = bodies[start + 1]
      BY <2>1, <2>5
    <3> QED BY <1>2, <3>1, <3>2 DEF S
  <2>6. CASE Words(text, i) # {} /\ AtBoundary(text[start]) /\ (Opens(text, start) = {} \/ EndOf(text, open) = {})
    BY <2>1, <2>2, <2>6
  <2>7. CASE Words(text, i) # {} /\ AtBoundary(text[start]) /\ Opens(text, start) # {} /\ EndOf(text, open) # {}
    <3>1. ASSUME k \in open + 1 .. end - 1 PROVE k \in B
      BY <2>7, <3>1, BodyIsOfBlock
    <3>2. (open + 1 .. end - 1) \in SUBSET Int
      <4> HIDE DEF end, open
      <4> QED OBVIOUS
    <3> HIDE DEF start, open, end, n, S
    <3>3. end + 1 \in D /\ i < end + 1
      BY <1>0, <2>3, <2>7
    <3>4. bodies[i] = <<open + 1 .. end - 1>> \o bodies[end + 1]
      BY <2>1, <2>7
    <3>5. UNION Range(bodies[i]) = (open + 1 .. end - 1) \cup UNION Range(bodies[end + 1])
      BY <1>1, <3>2, <3>3, <3>4, BodyMore
    <3>6. CASE k \in UNION Range(bodies[end + 1])
      BY <1>2, <3>3, <3>6 DEF S
    <3> QED BY <3>1, <3>5, <3>6
  <2> QED BY <2>4, <2>5, <2>6, <2>7
<1>3. S = D
  <2>1. n + 1 \in Nat /\ S \in SUBSET D
    BY <1>0
  <2> HIDE DEF S
  <2> QED BY <1>2, <2>1, FromTheEnd
<1>4. 1 \in D
  BY <1>0
<1> QED BY <1>1, <1>3, <1>4

\* Counting braces finds what a parser would: in a file of any length whose strings
\* have paired braces, every value and every pattern that stands in a resource block
\* is read, and nothing else where no comment spells a header (sources.go 37-76,
\* ResourceBlockBodies).
THEOREM BlocksAreRead == SourceSpec => []EveryResourceBlockIsRead
<1>1. File(source) => EveryResourceBlockIsRead
  <2> SUFFICES ASSUME File(source), Nesting(source) = 0, ~Awaiting(source), LiteralsPaired(source)
               PROVE  LET read == CheckSources(source) \cup SourceScan(source)
                      IN /\ InResourceBlock(source) \subseteq read
                         /\ (\A k \in DOMAIN source : source[k] # "mention") => read \subseteq InResourceBlock(source)
    BY DEF EveryResourceBlockIsRead
  <2>1. ClosedFile(source)
    BY DEF ClosedFile
  <2> DEFINE read == CheckSources(source) \cup SourceScan(source)
  <2>2. read = {k \in UNION Range(ResourceBlockBodies(source)) : source[k] \in Contents}
    BY DEF CheckSources, SourceScan, Normalized, Contents
  <2>3. InResourceBlock(source) \subseteq read
    <3>1. \A k \in InResourceBlock(source) : source[k] \in Contents
      BY DEF InResourceBlock
    <3> HIDE DEF read
    <3> QED BY <2>1, <2>2, <3>1, NothingPassedBy
  <2>4. ASSUME \A k \in DOMAIN source : source[k] # "mention" PROVE read \subseteq InResourceBlock(source)
    <3> HIDE DEF read
    <3> QED BY <2>1, <2>2, <2>4, NothingElseTaken
  <2> QED BY <2>3, <2>4
<1> QED BY <1>1, FileInvariant, PTL
=============================================================================

----------------------------- MODULE PplProofs ------------------------------
(***************************************************************************)
(* Proofs about the loops, the folds and the merges of PplAlgorithms, for  *)
(* any calls, any inputs and any values of its constants.                  *)
(***************************************************************************)
EXTENDS PplAlgorithms, FiniteSetTheorems, SequenceTheorems, TLAPS

(* First what all of them need: least and greatest elements, induction,    *)
(* division.                                                               *)

(* A set of natural numbers that is not empty has a least element.         *)
LEMMA LeastOf ==
    ASSUME NEW S \in SUBSET Nat, S # {}
    PROVE  \E m \in S : \A k \in S : m <= k
<1> DEFINE R == OpToRel(<, Nat)
<1>1. IsWellFoundedOn(R, Nat)
  BY NatLessThanWellFounded
<1>2. PICK m \in S : \A k \in S : ~(<<k, m>> \in R)
  <2> HIDE DEF R
  <2> QED BY <1>1, WFMin
<1>3. \A k \in S : m <= k
  <2> TAKE k \in S
  <2>1. ~(<<k, m>> \in R)
    BY <1>2
  <2>2. m \in Nat /\ k \in Nat
    OBVIOUS
  <2>3. ~(k < m)
    BY <2>1, <2>2 DEF OpToRel
  <2> QED BY <2>2, <2>3
<1> QED BY <1>3

(* Induction: what is in S whenever all that is smaller is, is all of Nat. *)
LEMMA FromSmaller ==
    ASSUME NEW S \in SUBSET Nat,
           \A n \in Nat : (\A m \in Nat : m < n => m \in S) => n \in S
    PROVE  \A n \in Nat : n \in S
<1> SUFFICES ASSUME Nat \ S # {} PROVE FALSE
  OBVIOUS
<1>1. PICK n \in Nat \ S : \A k \in Nat \ S : n <= k
  BY LeastOf
<1>2. \A m \in Nat : m < n => m \in S
  BY <1>1
<1> QED BY <1>1, <1>2

(* The induction from n to n + 1, for a set that is known.                 *)
LEMMA FromPrevious ==
    ASSUME NEW S \in SUBSET Nat, 0 \in S, \A n \in S : n + 1 \in S
    PROVE  \A n \in Nat : n \in S
<1>1. ASSUME NEW n \in Nat, \A m \in Nat : m < n => m \in S PROVE n \in S
  <2>1. CASE n = 0
    BY <2>1
  <2>2. CASE n # 0
    <3>1. n - 1 \in Nat /\ n - 1 < n /\ n = (n - 1) + 1
      BY <2>2
    <3> QED BY <1>1, <3>1
  <2> QED BY <2>1, <2>2
<1> QED BY <1>1, FromSmaller

(* std::min of two numbers.                                                *)
LEMMA MinOfTwo == ASSUME NEW x \in Int, NEW y \in Int
                  PROVE  Min({x, y}) = IF x <= y THEN x ELSE y
<1>1. PICK m \in {x, y} : \A k \in {x, y} : m <= k
  OBVIOUS
<1>2. Min({x, y}) \in {x, y} /\ \A k \in {x, y} : Min({x, y}) <= k
  BY <1>1 DEF Min
<1> QED BY <1>2

(* std::max of two numbers.                                                *)
LEMMA MaxOfTwo == ASSUME NEW x \in Int, NEW y \in Int
                  PROVE  Max({x, y}) = IF x >= y THEN x ELSE y
<1>1. PICK m \in {x, y} : \A k \in {x, y} : m >= k
  OBVIOUS
<1>2. Max({x, y}) \in {x, y} /\ \A k \in {x, y} : Max({x, y}) >= k
  BY <1>1 DEF Max
<1> QED BY <1>2

(* A bounded set of integers has a least and a greatest element.           *)
LEMMA MinIs == ASSUME NEW S \in SUBSET Int, NEW b \in Int, \A x \in S : b <= x, S # {}
               PROVE  Min(S) \in S /\ \A x \in S : Min(S) <= x
<1> DEFINE T == {n \in Nat : n + b \in S}
<1>1. PICK z \in S : TRUE
  OBVIOUS
<1>2. z - b \in T /\ T \in SUBSET Nat
  BY <1>1
<1>3. PICK m \in T : \A k \in T : m <= k
  BY <1>2, LeastOf
<1>4. m + b \in S
  BY <1>3
<1>5. ASSUME NEW x \in S PROVE m + b <= x
  <2>1. x - b \in T
    OBVIOUS
  <2> QED BY <1>3, <2>1
<1> QED BY <1>4, <1>5 DEF Min

(* The same for the greatest element.                                      *)
LEMMA MaxIs == ASSUME NEW S \in SUBSET Int, NEW b \in Int, \A x \in S : x <= b, S # {}
               PROVE  Max(S) \in S /\ \A x \in S : Max(S) >= x
<1> DEFINE T == {n \in Nat : b - n \in S}
<1>1. PICK z \in S : TRUE
  OBVIOUS
<1>2. b - z \in T /\ T \in SUBSET Nat
  <2>1. b - z \in Nat /\ b - (b - z) = z
    OBVIOUS
  <2> QED BY <2>1
<1>3. PICK m \in T : \A k \in T : m <= k
  BY <1>2, LeastOf
<1>4. b - m \in S
  BY <1>3
<1>5. ASSUME NEW x \in S PROVE b - m >= x
  <2>0. b - x \in Nat /\ b - (b - x) = x
    OBVIOUS
  <2>1. b - x \in T
    BY <2>0
  <2>2. m \in Nat /\ m <= b - x
    BY <1>3, <2>1
  <2> QED BY <2>2
<1> QED BY <1>4, <1>5 DEF Max

(* How many integers there are in a range.                                 *)
LEMMA CardinalityOfRange ==
    ASSUME NEW a \in Int, NEW b \in Int, a <= b + 1
    PROVE  IsFiniteSet(a..b) /\ Cardinality(a..b) = b - a + 1
<1>1. IsFiniteSet(a..b) /\ Cardinality(a..b) = IF a > b THEN 0 ELSE b - a + 1
  BY FS_Interval
<1>2. CASE a > b
  BY <1>1, <1>2
<1>3. CASE ~(a > b)
  BY <1>1, <1>3
<1> QED BY <1>2, <1>3

(* What division and remainder are,                                        *)
LEMMA DivModIs ==
    ASSUME NEW x \in Nat, NEW n \in Nat, n > 0
    PROVE  /\ x \div n \in Nat /\ x % n \in 0..(n - 1)
           /\ x = n * (x \div n) + (x % n)
<1>1. x % n \in 0..(n - 1)
  OBVIOUS
<1>2. x \div n \in Int
  OBVIOUS
<1>3. x = n * (x \div n) + (x % n)
  OBVIOUS
<1>4. x \div n >= 0
  BY <1>1, <1>2, <1>3, SMTT(30)
<1> QED BY <1>1, <1>2, <1>3, <1>4

(* and that they are the only such numbers.                                *)
LEMMA QuotientIs ==
    ASSUME NEW x \in Nat, NEW n \in Nat, n > 0, NEW q \in Int, NEW r \in 0..(n - 1),
           x = n * q + r
    PROVE  x \div n = q /\ x % n = r
<1> DEFINE p == x \div n
           t == x % n
<1>1. p \in Nat /\ t \in 0..(n - 1) /\ x = n * p + t
  BY DivModIs
<1> HIDE DEF p, t
<1>2. n * (q - p) = t - r
  BY <1>1
<1>3. q = p
  <2> DEFINE d == q - p
  <2>1. d \in Int /\ n * d = t - r /\ t - r < n /\ r - t < n
    BY <1>1, <1>2
  <2> HIDE DEF d
  <2>2. ~(d >= 1)
    <3> SUFFICES ASSUME d >= 1 PROVE FALSE
      OBVIOUS
    <3>1. n * d >= n
      BY <2>1
    <3> QED BY <2>1, <3>1, <1>1
  <2>3. ~(d <= 0 - 1)
    <3> SUFFICES ASSUME d <= 0 - 1 PROVE FALSE
      OBVIOUS
    <3>1. n * d <= 0 - n
      BY <2>1
    <3> QED BY <2>1, <3>1, <1>1
  <2>4. d = 0
    BY <2>1, <2>2, <2>3
  <2> QED BY <2>4, <1>1 DEF d
<1> QED BY <1>1, <1>2, <1>3 DEF p, t

(* A product grows with its factor.                                        *)
LEMMA ProductOrder ==
    ASSUME NEW a \in Int, NEW b \in Int, NEW n \in Nat, n > 0
    PROVE  /\ a < b <=> n * a < n * b
           /\ a <= b <=> n * a <= n * b
           /\ n * a \in Int /\ n * b \in Int
<1>1. ASSUME NEW c \in Int, NEW d \in Int, c <= d PROVE n * c <= n * d
  <2> DEFINE e == d - c
  <2>1. e \in Nat /\ d = c + e
    BY <1>1
  <2> HIDE DEF e
  <2>2. n * (c + e) = n * c + n * e
    BY <2>1
  <2>3. n * e >= 0 /\ n * e \in Int /\ n * c \in Int
    BY <2>1
  <2>4. n * d = n * c + n * e
    BY <2>1, <2>2
  <2> QED BY <2>3, <2>4
<1>2. ASSUME NEW c \in Int, NEW d \in Int, c < d PROVE n * c < n * d
  <2>1. c + 1 <= d /\ c + 1 \in Int
    BY <1>2
  <2>2. n * (c + 1) <= n * d
    BY <1>1, <2>1
  <2>3. n * (c + 1) = n * c + n
    OBVIOUS
  <2> QED BY <2>2, <2>3
<1> QED BY <1>1, <1>2

-----------------------------------------------------------------------------
(* The loops: parallel_for, parallel_for_each, parallel_transform and the  *)
(* predicates.                                                             *)

(* parallel_for_impl runs the body for first, first + step and so on: the  *)
(* two loops of its chunks meet without a gap.                             *)
LEMMA ForVisits ==
    ASSUME NEW first \in Int, NEW last \in Int, NEW step \in Nat \ {0}, NEW cut \in Nat
    PROVE  parallel_for_impl(first, last, step, cut)
               = {x \in first..last - 1 : (x - first) % step = 0}
<1> DEFINE range == last - first
           n == Iterations(range, step)
           V == {x \in first..last - 1 : (x - first) % step = 0}
<1>1. CASE first >= last
  <2>1. V = {}
    BY <1>1
  <2> QED BY <1>1, <2>1 DEF parallel_for_impl
<1>2. CASE first < last /\ range <= step
  <2>1. ASSUME NEW x \in first..last - 1
        PROVE  (x - first) % step = x - first
    <3>1. x - first \in 0..(step - 1) /\ x - first \in Nat /\ x - first = step * 0 + (x - first)
      BY <1>2
    <3> QED BY <3>1, QuotientIs
  <2>2. V = {first}
    BY <1>2, <2>1
  <2>3. ~(first >= last)
    BY <1>2
  <2> QED BY <1>2, <2>2, <2>3 DEF parallel_for_impl
<1>3. CASE first < last /\ range > step
  <2>1. range \in Nat /\ range > 1 /\ range - 1 \in Nat
    BY <1>3
  <2>2. n \in Nat /\ \A i \in Nat : i < n <=> step * i <= range - 1
    <3>1. CASE step = 1
      BY <2>1, <3>1 DEF Iterations
    <3>2. CASE step # 1
      <4> DEFINE q == (range - 1) \div step
                 r == (range - 1) % step
      <4>1. q \in Nat /\ r \in 0..(step - 1) /\ range - 1 = step * q + r
        BY <2>1, DivModIs
      <4>2. n = q + 1
        BY <3>2 DEF Iterations
      <4> HIDE DEF q, r, range, n
      <4>3. ASSUME NEW i \in Nat PROVE i < n <=> step * i <= range - 1
        <5>1. CASE i <= q
          <6>1. step * i <= step * q
            BY <5>1, <4>1, ProductOrder
          <6> QED BY <5>1, <6>1, <4>1, <4>2, <2>1
        <5>2. CASE ~(i <= q)
          <6>1. step * (q + 1) <= step * i
            BY <5>2, <4>1, ProductOrder
          <6>2. step * (q + 1) = step * q + step
            BY <4>1
          <6> QED BY <5>2, <6>1, <6>2, <4>1, <4>2, <2>1
        <5> QED BY <5>1, <5>2
      <4> QED BY <4>1, <4>2, <4>3
    <3> QED BY <3>1, <3>2
  <2> HIDE DEF n
  <2> DEFINE c == Min({cut, n})
             F == fixed_chunk(first, step, 0, c) \cup fixed_chunk(first, step, c, n)
  <2>3. c \in 0..n
    BY <2>2, MinOfTwo
  <2>4. parallel_for_impl(first, last, step, cut) = F
    BY <1>3 DEF parallel_for_impl, n
  <2> HIDE DEF c
  <2>5. F = {first + i * step : i \in 0..n - 1}
    BY <2>2, <2>3 DEF fixed_chunk
  <2>6. ASSUME NEW i \in 0..n - 1 PROVE first + i * step \in V
    <3>1. i \in Nat /\ step * i <= range - 1 /\ step * i \in Nat /\ i * step = step * i
      BY <2>2
    <3>2. step * i = step * i + 0 /\ 0 \in 0..(step - 1)
      OBVIOUS
    <3>3. (step * i) % step = 0
      BY <3>1, <3>2, QuotientIs
    <3>4. first + i * step \in first..last - 1 /\ first + i * step - first = step * i
      BY <3>1
    <3> QED BY <3>3, <3>4
  <2>7. ASSUME NEW x \in V PROVE \E i \in 0..n - 1 : x = first + i * step
    <3> DEFINE y == x - first
               q == y \div step
    <3>1. y \in Nat /\ y <= range - 1 /\ y % step = 0
      BY <1>3
    <3>2. q \in Nat /\ y = step * q
      BY <3>1, DivModIs
    <3> HIDE DEF q
    <3>3. q < n
      BY <3>1, <3>2, <2>2
    <3>4. x = first + q * step
      BY <3>2
    <3> QED BY <3>2, <3>3, <3>4, <2>2
  <2> QED BY <2>4, <2>5, <2>6, <2>7
<1> QED BY <1>1, <1>2, <1>3

-----------------------------------------------------------------------------
(* A batch of parallel_for_each_forward_impl begins where it was called    *)
(* and is empty only at the end.                                           *)
LEMMA BatchIs ==
    ASSUME NEW first \in Int, NEW last \in Int, first <= last
    PROVE  /\ Batch(first, last) = first..(first + Cardinality(Batch(first, last))) - 1
           /\ Cardinality(Batch(first, last)) \in 0..last - first
           /\ first < last => Cardinality(Batch(first, last)) > 0
<1> DEFINE b == Min({first + BatchSize, last}) - 1
<1>1. BatchSize \in Nat /\ BatchSize >= 1
  BY AlgorithmsAssumption
<1>2. b \in Int /\ first <= b + 1 /\ b <= last - 1 /\ (first < last => first <= b)
  BY <1>1, MinOfTwo
<1>3. Batch(first, last) = first..b
  BY DEF Batch
<1> HIDE DEF b
<1>4. Cardinality(first..b) = b - first + 1
  BY <1>2, CardinalityOfRange
<1> QED BY <1>2, <1>3, <1>4

(* A task of parallel_for_each_forward_impl: the batches of the last left. *)
TasksRow(g, last, left) ==
    <<Batch(last - left, last)>>
        \o IF left - Cardinality(Batch(last - left, last)) = 0 THEN <<>>
           ELSE g[left - Cardinality(Batch(last - left, last))]

(* There is a function with that equation, so the recursion is defined.    *)
LEMMA TasksExist ==
    ASSUME NEW last \in Int, NEW n \in Nat
    PROVE  \E g : g = [left \in 1..n |-> TasksRow(g, last, left)]
<1> DEFINE S == {k \in Nat : \E g : g = [left \in 1..k |-> TasksRow(g, last, left)]}
<1>1. 0 \in S
  <2> DEFINE g == [left \in 1..0 |-> {}]
  <2>1. g = [left \in 1..0 |-> TasksRow(g, last, left)]
    OBVIOUS
  <2> QED BY <2>1
<1>2. ASSUME NEW k \in S PROVE k + 1 \in S
  <2>1. PICK g : g = [left \in 1..k |-> TasksRow(g, last, left)]
    BY <1>2
  <2> DEFINE f == [left \in 1..k + 1 |-> IF left = k + 1 THEN TasksRow(g, last, k + 1) ELSE g[left]]
  <2>2. ASSUME NEW left \in 1..k + 1 PROVE f[left] = TasksRow(f, last, left)
    <3> DEFINE size == Cardinality(Batch(last - left, last))
               next == left - size
    <3>1. last - left \in Int /\ last - left < last /\ last - (last - left) = left
        /\ left \in Nat
      BY <1>2
    <3>2. next \in 0..left - 1
      <4>1. size \in 0..last - (last - left) /\ size > 0
        <5> DEFINE first == last - left
        <5>1. first \in Int /\ first <= last /\ first < last
          BY <3>1
        <5> HIDE DEF f, S, first
        <5>2. Cardinality(Batch(first, last)) \in 0..last - first
              /\ Cardinality(Batch(first, last)) > 0
          BY <5>1, BatchIs
        <5> QED BY <5>2 DEF first
      <4> HIDE DEF size
      <4> QED BY <3>1, <4>1
    <3> HIDE DEF next
    <3>3. next # 0 => f[next] = g[next]
      BY <3>2
    <3>4. f[left] = TasksRow(g, last, left)
      BY <2>1
    <3> HIDE DEF f
    <3> QED BY <3>3, <3>4 DEF TasksRow, next
  <2> HIDE DEF f
  <2>3. f = [left \in 1..k + 1 |-> f[left]]
    BY DEF f
  <2>4. f = [left \in 1..k + 1 |-> TasksRow(f, last, left)]
    BY <2>2, <2>3
  <2> QED BY <2>4
<1> HIDE DEF S
<1>3. n \in S
  BY <1>1, <1>2, FromPrevious DEF S
<1> QED BY <1>3 DEF S

(* v are the batches of first..last - 1.                                   *)
Batches(v, first, last) ==
    /\ v \in Seq(SUBSET Int)
    /\ \A x \in Int : (\E i \in DOMAIN v : x \in v[i]) <=> first <= x /\ x < last
    /\ \A i, j \in DOMAIN v : i # j => \A x \in Int : ~(x \in v[i] /\ x \in v[j])

(* A batch before batches.                                                 *)
LEMMA FirstBatch ==
    ASSUME NEW first \in Int, NEW next \in Int, NEW last \in Int, first <= next, next <= last,
           NEW w, Batches(w, next, last)
    PROVE  Batches(<<first..next - 1>> \o w, first, last)
<1> DEFINE b == first..next - 1
           v == <<b>> \o w
<1>1. w \in Seq(SUBSET Int) /\ b \in SUBSET Int
  BY DEF Batches
<1>2. /\ v \in Seq(SUBSET Int) /\ Len(v) = Len(w) + 1 /\ DOMAIN v = 1..Len(w) + 1
      /\ v[1] = b /\ \A i \in 1..Len(w) : v[i + 1] = w[i]
  <2> HIDE DEF b
  <2> QED BY <1>1
<1>3. DOMAIN w = 1..Len(w) /\ Len(w) \in Nat
  BY <1>1
<1>4. ASSUME NEW x \in Int
      PROVE  (\E i \in DOMAIN v : x \in v[i]) <=> first <= x /\ x < last
  <2>1. ASSUME NEW i \in DOMAIN v, x \in v[i] PROVE first <= x /\ x < last
    <3>1. CASE i = 1
      BY <1>2, <2>1, <3>1
    <3>2. CASE i # 1
      <4>1. i - 1 \in 1..Len(w) /\ (i - 1) + 1 = i
        BY <1>2, <1>3, <3>2
      <4>2. x \in w[i - 1]
        BY <1>2, <2>1, <4>1
      <4> HIDE DEF v
      <4>3. next <= x /\ x < last
        BY <1>3, <4>1, <4>2 DEF Batches
      <4> QED BY <4>3
    <3> QED BY <3>1, <3>2
  <2>2. ASSUME first <= x, x < last PROVE \E i \in DOMAIN v : x \in v[i]
    <3>1. CASE x < next
      BY <1>2, <1>3, <2>2, <3>1
    <3>2. CASE next <= x
      <4>1. PICK i \in DOMAIN w : x \in w[i]
        BY <2>2, <3>2 DEF Batches
      <4>2. i + 1 \in DOMAIN v /\ v[i + 1] = w[i]
        BY <1>2, <1>3, <4>1
      <4> QED BY <4>1, <4>2
    <3> QED BY <3>1, <3>2
  <2> QED BY <2>1, <2>2
<1>5. ASSUME NEW i \in DOMAIN v, NEW j \in DOMAIN v, i # j, NEW x \in Int
      PROVE  ~(x \in v[i] /\ x \in v[j])
  <2> DEFINE Of(k) == IF k = 1 THEN b ELSE w[k - 1]
  <2>1. ASSUME NEW k \in DOMAIN v PROVE v[k] = Of(k) /\ (k # 1 => k - 1 \in DOMAIN w)
    <3>1. CASE k = 1
      BY <1>2, <3>1
    <3>2. CASE k # 1
      <4>1. k - 1 \in 1..Len(w) /\ (k - 1) + 1 = k
        BY <1>2, <1>3, <3>2
      <4> QED BY <1>2, <1>3, <3>2, <4>1
    <3> QED BY <3>1, <3>2
  <2>2. ASSUME NEW k \in DOMAIN w, x \in w[k] PROVE ~(x \in b)
    BY <2>2 DEF Batches
  <2>3. v[i] = Of(i) /\ v[j] = Of(j)
    BY <2>1
  <2>4. i \in Int /\ j \in Int
    BY <1>2, <1>3
  <2>5. CASE i = 1 \/ j = 1
    <3> HIDE DEF v, b
    <3> QED BY <1>5, <2>1, <2>2, <2>3, <2>5
  <2>6. CASE i # 1 /\ j # 1
    <3>1. i - 1 \in DOMAIN w /\ j - 1 \in DOMAIN w /\ i - 1 # j - 1
      BY <1>5, <2>1, <2>4, <2>6
    <3> HIDE DEF v, b
    <3> QED BY <2>3, <2>6, <3>1 DEF Batches
  <2> QED BY <2>5, <2>6
<1> HIDE DEF v
<1> QED BY <1>2, <1>4, <1>5 DEF Batches, v

(* parallel_for_each_forward_impl hands out every element in one batch.    *)
LEMMA ForEachVisits ==
    ASSUME NEW first \in Int, NEW last \in Int, first < last
    PROVE  Batches(parallel_for_each_forward_impl(first, last), first, last)
<1> DEFINE n == last - first
           T == CHOOSE g : g = [left \in 1..n |-> TasksRow(g, last, left)]
<1>1. n \in Nat /\ n > 0 /\ last - n = first
  OBVIOUS
<1>2. parallel_for_each_forward_impl(first, last) = T[n]
  BY DEF parallel_for_each_forward_impl, TasksRow
<1> HIDE DEF n
<1>3. \E g : g = [left \in 1..n |-> TasksRow(g, last, left)]
  BY <1>1, TasksExist
<1>4. T = [left \in 1..n |-> TasksRow(T, last, left)]
  BY <1>3
<1> HIDE DEF T
<1> DEFINE S == {k \in Nat : k \in 1..n => Batches(T[k], last - k, last)}
<1>5. ASSUME NEW k \in Nat, \A m \in Nat : m < k => m \in S PROVE k \in S
  <2> SUFFICES ASSUME k \in 1..n PROVE Batches(T[k], last - k, last)
    OBVIOUS
  <2> DEFINE from == last - k
             size == Cardinality(Batch(from, last))
             w == IF k - size = 0 THEN <<>> ELSE T[k - size]
  <2>1. from \in Int /\ from < last /\ last - from = k
    BY <1>1
  <2>2. T[k] = <<Batch(from, last)>> \o w
    BY <1>4 DEF TasksRow
  <2> HIDE DEF from
  <2>3. size \in 0..k /\ size > 0 /\ Batch(from, last) = from..(from + size) - 1
    <3>1. size \in 0..last - from /\ size > 0 /\ Batch(from, last) = from..(from + size) - 1
      <4>1. from <= last
        BY <2>1
      <4>2. Cardinality(Batch(from, last)) \in 0..last - from
            /\ Cardinality(Batch(from, last)) > 0
        BY <2>1, <4>1, BatchIs
      <4>3. Batch(from, last) = from..(from + Cardinality(Batch(from, last))) - 1
        BY <2>1, <4>1, BatchIs
      <4> QED BY <4>2, <4>3
    <3> HIDE DEF size
    <3> QED BY <2>1, <3>1
  <2> HIDE DEF size
  <2>4. Batches(w, from + size, last)
    <3>1. CASE k - size = 0
      <4>1. w = <<>> /\ from + size = last
        BY <2>1, <2>3, <3>1
      <4>2. Batches(<<>>, last, last)
        BY DEF Batches
      <4> QED BY <4>1, <4>2
    <3>2. CASE k - size # 0
      <4>1. k - size \in Nat /\ k - size < k /\ k - size \in 1..n
        BY <2>3, <3>2, <1>1
      <4>2. last - (k - size) = from + size
        BY <2>1, <2>3
      <4>3. Batches(T[k - size], last - (k - size), last)
        BY <1>5, <4>1
      <4> QED BY <3>2, <4>2, <4>3
    <3> QED BY <3>1, <3>2
  <2> HIDE DEF w
  <2>5. Batches(<<from..(from + size) - 1>> \o w, from, last)
    <3> DEFINE next == from + size
    <3>1. next \in Int /\ from <= next /\ next <= last
      BY <2>1, <2>3
    <3>2. Batches(w, next, last)
      BY <2>4
    <3> HIDE DEF next
    <3>3. Batches(<<from..next - 1>> \o w, from, last)
      BY <2>1, <3>1, <3>2, FirstBatch
    <3> QED BY <3>3 DEF next
  <2> QED BY <2>2, <2>3, <2>5 DEF from
<1> HIDE DEF S
<1>6. n \in S
  <2>1. S \in SUBSET Nat
    BY DEF S
  <2> QED BY <1>1, <1>5, <2>1, FromSmaller
<1> QED BY <1>1, <1>2, <1>6 DEF S

-----------------------------------------------------------------------------
TransformRow(g, n, s, last) == IF n = 0 THEN s ELSE TransformBatch(g[n - 1], last)

(* One batch of a transform after the other.                               *)
LEMMA TransformTurns ==
    ASSUME NEW s, NEW last \in Int, NEW n \in Nat
    PROVE  \E g : g = [k \in 0..n |-> TransformRow(g, k, s, last)]
<1> DEFINE S == {m \in Nat : \E g : g = [k \in 0..m |-> TransformRow(g, k, s, last)]}
<1>1. 0 \in S
  <2> DEFINE g == [k \in 0..0 |-> s]
  <2>1. g = [k \in 0..0 |-> TransformRow(g, k, s, last)]
    BY DEF TransformRow
  <2> QED BY <2>1
<1>2. ASSUME NEW m \in S PROVE m + 1 \in S
  <2>1. PICK g : g = [k \in 0..m |-> TransformRow(g, k, s, last)]
    BY <1>2
  <2> DEFINE f == [k \in 0..m + 1 |-> IF k = m + 1 THEN TransformRow(g, k, s, last) ELSE g[k]]
  <2>2. ASSUME NEW k \in 0..m + 1 PROVE f[k] = TransformRow(f, k, s, last)
    <3>1. k # 0 => f[k - 1] = g[k - 1]
      OBVIOUS
    <3>2. f[k] = TransformRow(g, k, s, last)
      BY <2>1
    <3> HIDE DEF f
    <3> QED BY <3>1, <3>2 DEF TransformRow
  <2> HIDE DEF f
  <2>3. f = [k \in 0..m + 1 |-> f[k]]
    BY DEF f
  <2>4. f = [k \in 0..m + 1 |-> TransformRow(f, k, s, last)]
    BY <2>2, <2>3
  <2> QED BY <2>4
<1> HIDE DEF S
<1>3. n \in S
  <2>1. S \in SUBSET Nat
    BY DEF S
  <2> QED BY <1>1, <1>2, <2>1, FromPrevious
<1> QED BY <1>3 DEF S

(* What is stored after c elements.                                        *)
TransformState(s, firsts, c) ==
    /\ s.firsts = [k \in DOMAIN firsts |-> firsts[k] + c]
    /\ s.result = c
    /\ s.stores = Stores(firsts, 0, c)

(* What is stored for the first c elements and for the next len.           *)
LEMMA StoresJoin ==
    ASSUME NEW firsts \in Seq(Int), NEW c \in Nat, NEW len \in Nat
    PROVE  Stores(firsts, 0, c) \cup Stores([k \in DOMAIN firsts |-> firsts[k] + c], c, len)
               = Stores(firsts, 0, c + len)
<1> DEFINE Store(i) == [from |-> [k \in DOMAIN firsts |-> firsts[k] + i], to |-> i]
           moved == [k \in DOMAIN firsts |-> firsts[k] + c]
<1>1. ASSUME NEW m \in Nat
      PROVE  Stores(firsts, 0, m) = {Store(i) : i \in 0..m - 1}
  <2>1. Stores(firsts, 0, m) = {[from |-> [k \in DOMAIN firsts |-> firsts[k] + i], to |-> 0 + i] : i \in 0..m - 1}
    BY DEF Stores
  <2>2. \A i \in 0..m - 1 : 0 + i = i
    OBVIOUS
  <2>3. \A i \in 0..m - 1 :
           [from |-> [k \in DOMAIN firsts |-> firsts[k] + i], to |-> 0 + i] = Store(i)
    BY <2>2
  <2> HIDE DEF Store
  <2> QED BY <2>1, <2>3
<1>2. Stores(moved, c, len) = {Store(c + i) : i \in 0..len - 1}
  <2>1. ASSUME NEW i \in 0..len - 1
        PROVE  [from |-> [k \in DOMAIN moved |-> moved[k] + i], to |-> c + i] = Store(c + i)
    <3>1. \A k \in DOMAIN firsts : firsts[k] + c + i = firsts[k] + (c + i)
      OBVIOUS
    <3>2. [k \in DOMAIN moved |-> moved[k] + i] = [k \in DOMAIN firsts |-> firsts[k] + (c + i)]
      BY <3>1
    <3> QED BY <3>2
  <2> HIDE DEF moved, Store
  <2> QED BY <2>1 DEF Stores
<1> HIDE DEF Store
<1>3. {Store(i) : i \in 0..(c + len) - 1} = {Store(i) : i \in 0..c - 1} \cup {Store(c + i) : i \in 0..len - 1}
  <2>1. ASSUME NEW i \in 0..(c + len) - 1
        PROVE  i \in 0..c - 1 \/ \E k \in 0..len - 1 : i = c + k
    <3>1. CASE i < c
      BY <3>1
    <3>2. CASE i >= c
      <4>1. i - c \in 0..len - 1 /\ i = c + (i - c)
        BY <3>2
      <4> QED BY <4>1
    <3> QED BY <3>1, <3>2
  <2>2. \A k \in 0..len - 1 : c + k \in 0..(c + len) - 1
    OBVIOUS
  <2>3. \A k \in 0..c - 1 : k \in 0..(c + len) - 1
    OBVIOUS
  <2> QED BY <2>1, <2>2, <2>3
<1>4. Stores(firsts, 0, c) = {Store(i) : i \in 0..c - 1}
      /\ Stores(firsts, 0, c + len) = {Store(i) : i \in 0..(c + len) - 1}
  <2>1. c + len \in Nat
    OBVIOUS
  <2> QED BY <2>1, <1>1
<1> QED BY <1>2, <1>3, <1>4

(* The two transforms store the result of every element at its place.      *)
LEMMA TransformVisits ==
    ASSUME NEW firsts \in Seq(Int), NEW last \in Int, 1 \in DOMAIN firsts, firsts[1] <= last
    PROVE  /\ _Parallel_transform_impl(firsts, last, 0)
                  = <<Stores(firsts, 0, last - firsts[1]), last - firsts[1]>>
           /\ _Parallel_transform_impl2(firsts, last, 0)
                  = <<Stores(firsts, 0, last - firsts[1]), last - firsts[1]>>
<1> DEFINE size == last - firsts[1]
           start == [firsts |-> firsts, result |-> 0, stores |-> {}]
           T == CHOOSE g : g = [k \in 0..size |-> TransformRow(g, k, start, last)]
<1>1. size \in Nat
  OBVIOUS
<1>2. _Parallel_transform_impl2(firsts, last, 0) = <<T[size].stores, T[size].result>>
  BY DEF _Parallel_transform_impl2, TransformRow
<1>3. T = [k \in 0..size |-> TransformRow(T, k, start, last)]
  <2> HIDE DEF size, start
  <2>1. \E g : g = [k \in 0..size |-> TransformRow(g, k, start, last)]
    <3> HIDE DEF T
    <3> QED BY <1>1, TransformTurns
  <2> QED BY <2>1
<1> HIDE DEF T
<1> DEFINE S == {k \in Nat : k \in 0..size =>
                    \E c \in 0..size : (c = size \/ c >= k) /\ TransformState(T[k], firsts, c)}
<1>4. 0 \in S
  <2>1. T[0] = start
    BY <1>1, <1>3 DEF TransformRow
  <2>2. firsts = [k \in DOMAIN firsts |-> firsts[k] + 0]
    OBVIOUS
  <2>3. Stores(firsts, 0, 0) = {}
    BY DEF Stores
  <2>4. TransformState(start, firsts, 0)
    <3> HIDE DEF size
    <3> QED BY <2>2, <2>3 DEF TransformState
  <2> QED BY <1>1, <2>1, <2>4
<1>5. ASSUME NEW k \in S PROVE k + 1 \in S
  <2> SUFFICES ASSUME k + 1 \in 0..size
               PROVE  \E c \in 0..size : (c = size \/ c >= k + 1)
                                           /\ TransformState(T[k + 1], firsts, c)
    BY <1>5
  <2>0. k \in Nat /\ k \in 0..size
    BY <1>5
  <2>1. PICK c \in 0..size : (c = size \/ c >= k) /\ TransformState(T[k], firsts, c)
    BY <1>5, <2>0
  <2>2. T[k + 1] = TransformBatch(T[k], last)
    <3>1. k + 1 \in 0..size /\ k + 1 # 0 /\ (k + 1) - 1 = k
      BY <2>0
    <3>2. T[k + 1] = TransformRow(T, k + 1, start, last)
      BY <1>3, <3>1
    <3> QED BY <3>1, <3>2 DEF TransformRow
  <2> DEFINE t == T[k]
             from == firsts[1] + c
             len == Cardinality(Batch(from, last))
  <2>3. t.firsts[1] = from /\ from \in Int /\ from <= last /\ last - from = size - c /\ c \in Nat
    BY <2>1 DEF TransformState
  <2>4. CASE from = last
    <3>1. T[k + 1] = t
      BY <2>2, <2>3, <2>4 DEF TransformBatch
    <3>2. c = size
      BY <2>3, <2>4, <1>1
    <3> QED BY <2>1, <3>1, <3>2
  <2>5. CASE from # last
    <3>1. len \in 0..size - c /\ len > 0
      <4>1. from < last
        BY <2>3, <2>5
      <4> HIDE DEF from
      <4>2. len \in 0..last - from /\ len > 0
        BY <2>3, <4>1, BatchIs
      <4> HIDE DEF len
      <4> QED BY <2>3, <4>2
    <3>2. T[k + 1] = [firsts |-> _Populate(t.firsts, len), result |-> t.result + len,
                      stores |-> t.stores \cup Stores(t.firsts, t.result, len)]
      BY <2>2, <2>3, <2>5 DEF TransformBatch
    <3> HIDE DEF len
    <3>3. _Populate(t.firsts, len) = [i \in DOMAIN firsts |-> firsts[i] + (c + len)]
      <4>1. \A i \in DOMAIN firsts : firsts[i] + c + len = firsts[i] + (c + len)
        BY <2>3, <3>1
      <4> QED BY <2>1, <4>1 DEF _Populate, TransformState
    <3>4. t.stores \cup Stores(t.firsts, t.result, len) = Stores(firsts, 0, c + len)
      <4>1. len \in Nat /\ c \in Nat
        BY <2>3, <3>1
      <4> HIDE DEF t
      <4>2. /\ t.firsts = [i \in DOMAIN firsts |-> firsts[i] + c] /\ t.result = c
            /\ t.stores = Stores(firsts, 0, c)
        BY <2>1 DEF TransformState, t
      <4>3. Stores(firsts, 0, c) \cup Stores([i \in DOMAIN firsts |-> firsts[i] + c], c, len)
               = Stores(firsts, 0, c + len)
        BY <4>1, StoresJoin
      <4> QED BY <4>2, <4>3
    <3>5. t.result + len = c + len
      BY <2>1 DEF TransformState
    <3>6. TransformState(T[k + 1], firsts, c + len)
      <4> HIDE DEF t
      <4> QED BY <3>2, <3>3, <3>4, <3>5 DEF TransformState
    <3>7. c + len \in 0..size /\ (c + len = size \/ c + len >= k + 1)
      BY <2>0, <2>1, <2>3, <3>1, <1>1
    <3> QED BY <3>6, <3>7
  <2> QED BY <2>4, <2>5
<1> HIDE DEF S
<1>6. size \in S
  <2>1. S \in SUBSET Nat
    BY DEF S
  <2> HIDE DEF size
  <2> QED BY <1>1, <1>4, <1>5, <2>1, FromPrevious
<1>7. TransformState(T[size], firsts, size)
  BY <1>1, <1>6 DEF S
<1>8. _Parallel_transform_impl2(firsts, last, 0) = <<Stores(firsts, 0, size), size>>
  <2> HIDE DEF size
  <2> QED BY <1>2, <1>7 DEF TransformState
<1>9. _Parallel_transform_impl(firsts, last, 0) = <<Stores(firsts, 0, size), size>>
  <2>1. 0 + last - firsts[1] = size
    OBVIOUS
  <2> QED BY <2>1 DEF _Parallel_transform_impl
<1> QED BY <1>8, <1>9

-----------------------------------------------------------------------------
ForEachReturns == IF call.first = call.last THEN <<>>
                  ELSE parallel_for_each_forward_impl(call.first, call.last)

(* Of a call of parallel_for_each: all elements, and none twice.           *)
LEMMA ForEachCall ==
    ASSUME call \in Calls, call.op = "for_each", NEW v, v = ForEachReturns
    PROVE  /\ UNION ToSet(v) = call.first..call.last - 1
           /\ \A i, j \in DOMAIN v : i # j => v[i] \cap v[j] = {}
<1>1. call.first \in Int /\ call.last \in Int /\ call.first <= call.last
  BY CallsAssumption
<1>2. Batches(v, call.first, call.last)
  <2>1. CASE call.first = call.last
    <3>1. v = <<>>
      BY <2>1 DEF ForEachReturns
    <3> QED BY <1>1, <2>1, <3>1 DEF Batches
  <2>2. CASE call.first # call.last
    <3>1. v = parallel_for_each_forward_impl(call.first, call.last)
      BY <2>2 DEF ForEachReturns
    <3>2. call.first < call.last
      BY <1>1, <2>2
    <3> QED BY <1>1, <3>1, <3>2, ForEachVisits
  <2> QED BY <2>1, <2>2
<1>3. \A i \in DOMAIN v : v[i] \in SUBSET Int
  BY <1>2 DEF Batches
<1>4. UNION ToSet(v) = call.first..call.last - 1
  <2>1. \A x : x \in UNION ToSet(v) <=> \E i \in DOMAIN v : x \in v[i]
    BY DEF ToSet
  <2>2. \A x : x \in UNION ToSet(v) => x \in Int
    BY <1>3, <2>1
  <2>3. \A x \in Int : (\E i \in DOMAIN v : x \in v[i]) <=> call.first <= x /\ x < call.last
    BY <1>2 DEF Batches
  <2>4. \A x : x \in UNION ToSet(v) <=> x \in Int /\ call.first <= x /\ x < call.last
    BY <2>1, <2>2, <2>3
  <2>5. \A x : x \in call.first..call.last - 1 <=> x \in Int /\ call.first <= x /\ x < call.last
    BY <1>1
  <2> QED BY <2>4, <2>5
<1>5. ASSUME NEW i \in DOMAIN v, NEW j \in DOMAIN v, i # j PROVE v[i] \cap v[j] = {}
  BY <1>2, <1>3, <1>5 DEF Batches
<1> QED BY <1>4, <1>5

(* The calls that VisitsAll is about.                                      *)
VisitOps == {"for", "for_each", "transform", "predicates"}

(* The predicates answer right whichever task cancels the others.          *)
LEMMA PredicatesReturn ==
    ASSUME call \in Calls, Predicates, call.op = "predicates" PROVE VisitsAll'
<1> DEFINE all == 1..call.size
<1>1. call.size \in Nat /\ call.pred \in {"all", "any", "none"}
  BY CallsAssumption
<1>2. PICK ran \in SUBSET all :
        /\ ran # all => CASE call.pred = "all" -> ~(ran \subseteq call.trues)
                          [] OTHER             -> ran \cap call.trues # {}
        /\ Returns("predicates",
                 CASE call.pred = "all"   -> parallel_all_of(ran, call.trues)
                   [] call.pred = "any"   -> parallel_any_of(ran, call.trues)
                   [] call.pred = "none"  -> parallel_none_of(ran, call.trues))
  BY DEF Predicates
<1>3. call' = call /\ Returned'
  BY <1>2 DEF Returns, Returned
<1>4. CASE call.pred = "all"
  <2>1. value' = (ran \subseteq call.trues)
    BY <1>2, <1>4 DEF Returns, value, parallel_all_of
  <2>2. (ran \subseteq call.trues) = (\A i \in all : i \in call.trues)
    BY <1>2, <1>4
  <2> QED BY <1>3, <1>4, <2>1, <2>2 DEF VisitsAll
<1>5. CASE call.pred = "any"
  <2>1. value' = (ran \cap call.trues # {})
    BY <1>2, <1>5 DEF Returns, value, parallel_any_of
  <2>2. (ran \cap call.trues # {}) = (\E i \in all : i \in call.trues)
    BY <1>2, <1>5
  <2> QED BY <1>3, <1>5, <2>1, <2>2 DEF VisitsAll
<1>6. CASE call.pred = "none"
  <2>1. value' = (ran \cap call.trues = {})
    BY <1>2, <1>6 DEF Returns, value, parallel_none_of
  <2>2. (ran \cap call.trues = {}) = (\A i \in all : i \notin call.trues)
    BY <1>2, <1>6
  <2> QED BY <1>3, <1>6, <2>1, <2>2 DEF VisitsAll
<1> QED BY <1>1, <1>4, <1>5, <1>6

(* A parallel loop runs its body for every iteration, over batches for     *)
(* each element once, each input of a transform goes to its place in the   *)
(* output, and the answers of all_of, any_of and none_of are right         *)
(* wherever they cancel the loop: for any range, step, division and size   *)
(* of the batches.                                                         *)
THEOREM EveryIterationRuns == AlgorithmsSpec => []VisitsAll
<1> DEFINE Inv == call \in Calls /\ VisitsAll
<1>1. AlgorithmsInit => Inv
  BY DEF AlgorithmsInit, VisitsAll, Returned
<1>2. Inv /\ [AlgorithmsNext]_algorithmsVars => Inv'
  <2> SUFFICES ASSUME Inv, [AlgorithmsNext]_algorithmsVars PROVE Inv'
    OBVIOUS
  <2>1. CASE parallel_sort \/ parallel_buffered_sort \/ parallel_radixsort \/ Merge \/ Search
             \/ Reduce \/ PartialSum \/ Count
    <3>1. call' = call /\ call.op \notin VisitOps
      BY <2>1 DEF parallel_sort, parallel_buffered_sort, parallel_radixsort, Merge, Search,
                  Reduce, PartialSum, Count, Returns, VisitOps
    <3> QED BY <3>1 DEF VisitsAll, VisitOps
  <2>2. CASE For
    <3>1. call' = call /\ call.op = "for"
          /\ value' = parallel_for_impl(call.first, call.last, call.step, call.cut)
      BY <2>2 DEF For, Returns, value
    <3>2. /\ call.first \in Int /\ call.last \in Int
          /\ call.step \in Nat \ {0} /\ call.cut \in Nat
      BY <3>1, CallsAssumption
    <3>3. parallel_for_impl(call.first, call.last, call.step, call.cut)
             = {x \in call.first..call.last - 1 : (x - call.first) % call.step = 0}
      BY <3>2, ForVisits
    <3> QED BY <3>1, <3>3 DEF VisitsAll
  <2>3. CASE ForEach
    <3>1. call' = call /\ call.op = "for_each" /\ value' = ForEachReturns
      BY <2>3 DEF ForEach, Returns, value, ForEachReturns
    <3>2. /\ UNION ToSet(value') = call.first..call.last - 1
          /\ \A i, j \in DOMAIN value' : i # j => value'[i] \cap value'[j] = {}
      <4>1. PICK v : v = ForEachReturns
        OBVIOUS
      <4>2. /\ UNION ToSet(v) = call.first..call.last - 1
            /\ \A i, j \in DOMAIN v : i # j => v[i] \cap v[j] = {}
        BY <3>1, <4>1, ForEachCall
      <4>3. value' = v
        BY <3>1, <4>1
      <4> QED BY <4>2, <4>3
    <3> QED BY <3>1, <3>2 DEF VisitsAll, ToSet
  <2>4. CASE parallel_transform
    <3> DEFINE firsts == call.firsts
               last == call.last
    <3>1. call' = call /\ call.op = "transform"
          /\ value' = IF firsts[1] = last THEN <<{}, 0>>
                      ELSE IF call.random THEN _Parallel_transform_impl(firsts, last, 0)
                      ELSE _Parallel_transform_impl2(firsts, last, 0)
      BY <2>4 DEF parallel_transform, Returns, value
    <3>2. firsts \in Seq(Int) /\ 1 \in DOMAIN firsts /\ last \in Int /\ firsts[1] <= last
      <4>1. firsts \in Seq(Int) /\ Len(firsts) \in 1..2 /\ last \in Int /\ firsts[1] <= last
        BY <3>1, CallsAssumption
      <4> HIDE DEF firsts
      <4> QED BY <4>1
    <3> HIDE DEF firsts, last
    <3>3. CASE firsts[1] = last
      <4>1. last - firsts[1] = 0 /\ Stores(firsts, 0, 0) = {}
        BY <3>2, <3>3 DEF Stores
      <4>2. value' = <<Stores(firsts, 0, last - firsts[1]), last - firsts[1]>>
        BY <3>1, <3>3, <4>1
      <4> QED BY <3>1, <4>2 DEF VisitsAll, firsts, last
    <3>4. CASE firsts[1] # last
      <4>1. value' = <<Stores(firsts, 0, last - firsts[1]), last - firsts[1]>>
        BY <3>1, <3>2, <3>4, TransformVisits
      <4> QED BY <3>1, <4>1 DEF VisitsAll, firsts, last
    <3> QED BY <3>3, <3>4
  <2>5. CASE Predicates
    <3>1. call' = call
      BY <2>5 DEF Predicates, Returns
    <3> QED BY <2>5, <3>1, PredicatesReturn DEF Predicates
  <2>6. CASE UNCHANGED algorithmsVars
    BY <2>6 DEF algorithmsVars, VisitsAll, Returned, value
  <2> QED BY <2>1, <2>2, <2>3, <2>4, <2>5, <2>6 DEF AlgorithmsNext
<1>3. Inv => VisitsAll
  OBVIOUS
<1> QED BY <1>1, <1>2, <1>3, PTL DEF AlgorithmsSpec

-----------------------------------------------------------------------------
(* Folds over sequences: FoldLeft one element further, which the           *)
(* reductions and the partial sums need.                                   *)

(* The three folds of the algorithms.                                      *)
Combined(fun, x, y) == CASE fun = "joined"   -> x \o y
                         [] fun = "released" -> y \o x
                         [] fun = "summed"   -> x + y
Values(fun) == IF fun = "summed" THEN Int ELSE Seq(Int)
Fold(fun, id, s) == CASE fun = "joined"   -> FoldLeft(\o, id, s)
                      [] fun = "released" -> FoldLeft(LAMBDA ret, cur : cur \o ret, id, s)
                      [] fun = "summed"   -> FoldLeft(+, id, s)
Folds == {"joined", "released", "summed"}

(* The operations stay in their domains.                                   *)
LEMMA CombinedIn ==
    ASSUME NEW fun \in Folds, NEW x \in Values(fun), NEW y \in Values(fun)
    PROVE  Combined(fun, x, y) \in Values(fun)
<1>1. CASE fun = "joined"
  <2>1. x \in Seq(Int) /\ y \in Seq(Int)
    BY <1>1 DEF Values
  <2>2. x \o y \in Seq(Int)
    BY <2>1
  <2> QED BY <1>1, <2>2 DEF Values, Combined
<1>2. CASE fun = "released"
  <2>1. x \in Seq(Int) /\ y \in Seq(Int)
    BY <1>2 DEF Values
  <2>2. y \o x \in Seq(Int)
    BY <2>1
  <2> QED BY <1>2, <2>2 DEF Values, Combined
<1>3. CASE fun = "summed"
  <2>1. x \in Int /\ y \in Int
    BY <1>3 DEF Values
  <2>2. x + y \in Int
    BY <2>1
  <2> QED BY <1>3, <2>2 DEF Values, Combined
<1> QED BY <1>1, <1>2, <1>3 DEF Folds

(* The fold of SequencesExt takes the greatest place first.                *)
LEMMA LastIsMax ==
    ASSUME NEW m \in Nat, NEW S \in SUBSET (1..m + 1), m + 1 \in S
    PROVE  Max(S) = m + 1
<1>1. S # {} /\ S \in SUBSET Int /\ (\A x \in S : x <= m + 1) /\ m + 1 \in Int
  OBVIOUS
<1>2. Max(S) \in S /\ \A x \in S : Max(S) >= x
  BY <1>1, MaxIs
<1>3. Max(S) >= m + 1 /\ Max(S) <= m + 1 /\ Max(S) \in Int
  BY <1>1, <1>2
<1> QED BY <1>3

(* One row of the recursion of FoldLeft, over the places that are left.    *)
FoldRow(fun, it, S, id, s) ==
    IF S = {} THEN id ELSE Combined(fun, it[S \ {Max(S)}], s[Max(S)])

FoldTable(fun, it, n, id, s) == it = [S \in SUBSET (1..n) |-> FoldRow(fun, it, S, id, s)]

(* There is a function with that equation, so FoldLeft is defined.         *)
LEMMA FoldExists ==
    ASSUME NEW fun \in Folds, NEW id \in Values(fun), NEW s \in Seq(Values(fun)), NEW n \in Nat
    PROVE  \E it : it = [S \in SUBSET (1..n) |-> FoldRow(fun, it, S, id, s)]
<1> DEFINE Good == {m \in Nat : \E it : it = [S \in SUBSET (1..m) |-> FoldRow(fun, it, S, id, s)]}
<1>1. 0 \in Good
  <2> DEFINE it == [S \in SUBSET (1..0) |-> id]
  <2>1. \A S \in SUBSET (1..0) : S = {}
    OBVIOUS
  <2>2. \A S \in SUBSET (1..0) : FoldRow(fun, it, S, id, s) = id
    <3> HIDE DEF it
    <3> QED BY <2>1 DEF FoldRow
  <2>3. it = [S \in SUBSET (1..0) |-> FoldRow(fun, it, S, id, s)]
    BY <2>2
  <2> QED BY <2>3
<1>2. ASSUME NEW m \in Good PROVE m + 1 \in Good
  <2>1. PICK it : it = [S \in SUBSET (1..m) |-> FoldRow(fun, it, S, id, s)]
    BY <1>2
  <2> DEFINE f == [S \in SUBSET (1..m + 1) |->
                      IF m + 1 \in S THEN Combined(fun, it[S \ {m + 1}], s[m + 1]) ELSE it[S]]
  <2>2. m \in Nat
    BY <1>2
  <2>3. ASSUME NEW S \in SUBSET (1..m + 1) PROVE f[S] = FoldRow(fun, f, S, id, s)
    <3>1. CASE m + 1 \in S
      <4>1. Max(S) = m + 1
        BY <2>2, <3>1, LastIsMax
      <4>2. S \ {m + 1} \in SUBSET (1..m + 1) /\ m + 1 \notin S \ {m + 1}
        OBVIOUS
      <4>3. f[S \ {m + 1}] = it[S \ {m + 1}]
        BY <4>2
      <4>4. f[S] = Combined(fun, it[S \ {m + 1}], s[m + 1])
        BY <3>1
      <4> HIDE DEF f
      <4> QED BY <3>1, <4>1, <4>3, <4>4 DEF FoldRow
    <3>2. CASE m + 1 \notin S
      <4>1. S \in SUBSET (1..m)
        BY <2>2, <3>2
      <4>2. f[S] = it[S] /\ it[S] = FoldRow(fun, it, S, id, s)
        BY <2>1, <3>2, <4>1
      <4>3. S \ {Max(S)} \in SUBSET (1..m + 1) /\ m + 1 \notin S \ {Max(S)}
        BY <3>2
      <4>4. f[S \ {Max(S)}] = it[S \ {Max(S)}]
        BY <4>3
      <4> HIDE DEF f
      <4> QED BY <4>2, <4>4 DEF FoldRow
    <3> QED BY <3>1, <3>2
  <2>4. f = [S \in SUBSET (1..m + 1) |-> f[S]]
    OBVIOUS
  <2> HIDE DEF f
  <2>5. f = [S \in SUBSET (1..m + 1) |-> FoldRow(fun, f, S, id, s)]
    BY <2>3, <2>4
  <2>6. m + 1 \in Nat
    BY <2>2
  <2> QED BY <2>5, <2>6 DEF FoldTable
<1>3. Good \in SUBSET Nat
  OBVIOUS
<1> HIDE DEF Good
<1>4. n \in Good
  BY <1>1, <1>2, <1>3, FromPrevious
<1> QED BY <1>4 DEF Good

(* h holds the values of the fold after every element.                     *)
FoldSteps(fun, h, id, s) ==
    /\ h \in [0..Len(s) -> Values(fun)] /\ h[0] = id
    /\ \A k \in 0..Len(s) - 1 : h[k + 1] = Combined(fun, h[k], s[k + 1])

(* FoldLeft is that function at all places.                                *)
LEMMA FoldUnfolds ==
    ASSUME NEW fun \in Folds, NEW id \in Values(fun), NEW s \in Seq(Values(fun)),
           NEW n \in Nat, n = Len(s)
    PROVE  \E it : FoldTable(fun, it, n, id, s) /\ Fold(fun, id, s) = it[1..n]
<1>0. PICK jt : jt = [S \in SUBSET (1..n) |-> FoldRow(fun, jt, S, id, s)]
  BY FoldExists
<1>1. DOMAIN s = 1..n
  OBVIOUS
<1>2. CASE fun = "joined"
  <2> DEFINE Row(it, S) == IF S = {} THEN id ELSE it[S \ {Max(S)}] \o s[Max(S)]
             U == CHOOSE it : it = [S \in SUBSET (1..n) |-> Row(it, S)]
  <2>1. FoldLeft(\o, id, s) = U[1..n]
    BY <1>1 DEF FoldLeft, MapThenFoldSet
  <2>2. \A it, S : FoldRow(fun, it, S, id, s) = Row(it, S)
    BY <1>2 DEF FoldRow, Combined
  <2> HIDE DEF Row
  <2>3. jt = [S \in SUBSET (1..n) |-> Row(jt, S)]
    BY <1>0, <2>2
  <2>4. U = [S \in SUBSET (1..n) |-> Row(U, S)]
    BY <2>3
  <2>5. Fold(fun, id, s) = U[1..n]
    BY <1>2, <2>1 DEF Fold
  <2> HIDE DEF U
  <2>6. U = [S \in SUBSET (1..n) |-> FoldRow(fun, U, S, id, s)]
    BY <2>2, <2>4
  <2> QED BY <2>5, <2>6 DEF FoldTable
<1>3. CASE fun = "released"
  <2> DEFINE Row(it, S) == IF S = {} THEN id ELSE s[Max(S)] \o it[S \ {Max(S)}]
             U == CHOOSE it : it = [S \in SUBSET (1..n) |-> Row(it, S)]
  <2>1. FoldLeft(LAMBDA ret, cur : cur \o ret, id, s) = U[1..n]
    BY <1>1 DEF FoldLeft, MapThenFoldSet
  <2>2. \A it, S : FoldRow(fun, it, S, id, s) = Row(it, S)
    BY <1>3 DEF FoldRow, Combined
  <2> HIDE DEF Row
  <2>3. jt = [S \in SUBSET (1..n) |-> Row(jt, S)]
    BY <1>0, <2>2
  <2>4. U = [S \in SUBSET (1..n) |-> Row(U, S)]
    BY <2>3
  <2>5. Fold(fun, id, s) = U[1..n]
    BY <1>3, <2>1 DEF Fold
  <2> HIDE DEF U
  <2>6. U = [S \in SUBSET (1..n) |-> FoldRow(fun, U, S, id, s)]
    BY <2>2, <2>4
  <2> QED BY <2>5, <2>6 DEF FoldTable
<1>4. CASE fun = "summed"
  <2> DEFINE Row(it, S) == IF S = {} THEN id ELSE it[S \ {Max(S)}] + s[Max(S)]
             U == CHOOSE it : it = [S \in SUBSET (1..n) |-> Row(it, S)]
  <2>1. FoldLeft(+, id, s) = U[1..n]
    BY <1>1 DEF FoldLeft, MapThenFoldSet
  <2>2. \A it, S : FoldRow(fun, it, S, id, s) = Row(it, S)
    BY <1>4 DEF FoldRow, Combined
  <2> HIDE DEF Row
  <2>3. jt = [S \in SUBSET (1..n) |-> Row(jt, S)]
    BY <1>0, <2>2
  <2>4. U = [S \in SUBSET (1..n) |-> Row(U, S)]
    BY <2>3
  <2>5. Fold(fun, id, s) = U[1..n]
    BY <1>4, <2>1 DEF Fold
  <2> HIDE DEF U
  <2>6. U = [S \in SUBSET (1..n) |-> FoldRow(fun, U, S, id, s)]
    BY <2>2, <2>4
  <2> QED BY <2>5, <2>6 DEF FoldTable
<1> QED BY <1>2, <1>3, <1>4 DEF Folds

(* FoldLeft goes through the elements in their order.                      *)
LEMMA FoldIs ==
    ASSUME NEW fun \in Folds, NEW id \in Values(fun), NEW s \in Seq(Values(fun))
    PROVE  \E h : FoldSteps(fun, h, id, s) /\ Fold(fun, id, s) = h[Len(s)]
<1> DEFINE V == Values(fun)
           n == Len(s)
<1>1. n \in Nat /\ n = Len(s)
  OBVIOUS
<1> HIDE DEF n
<1>3. PICK T : FoldTable(fun, T, n, id, s) /\ Fold(fun, id, s) = T[1..n]
  BY <1>1, FoldUnfolds
<1> HIDE DEF V
<1>2. id \in V /\ \A k \in 0..n - 1 : s[k + 1] \in V
  <2>1. s \in Seq(V) /\ id \in V
    BY DEF V
  <2> QED BY <1>1, <2>1
<1> DEFINE h == [k \in 0..n |-> T[1..k]]
<1>5. \A S \in SUBSET (1..n) : T[S] = FoldRow(fun, T, S, id, s)
  BY <1>3 DEF FoldTable
<1>6. h[0] = id
  <2>1. 1..0 = {} /\ {} \in SUBSET (1..n) /\ 0 \in 0..n
    BY <1>1
  <2>2. T[{}] = id
    BY <1>5, <2>1 DEF FoldRow
  <2> QED BY <2>1, <2>2
<1>7. ASSUME NEW k \in 0..n - 1 PROVE h[k + 1] = Combined(fun, h[k], s[k + 1])
  <2>0. k \in Nat /\ k \in 0..n /\ k + 1 \in 0..n
    BY <1>1
  <2>1. /\ 1..k + 1 \in SUBSET (1..n) /\ k + 1 \in 1..k + 1
        /\ (1..k + 1) \ {k + 1} = 1..k
    BY <1>1, <2>0
  <2> DEFINE S == 1..k + 1
  <2>2. Max(S) = k + 1
    <3>1. S \in SUBSET (1..k + 1) /\ k + 1 \in S
      BY <2>1
    <3> HIDE DEF S
    <3> QED BY <2>0, <3>1, LastIsMax
  <2>3. S \in SUBSET (1..n) /\ S # {} /\ S \ {k + 1} = 1..k
    BY <2>1
  <2>4. h[k] = T[1..k] /\ h[k + 1] = T[S]
    BY <2>0
  <2> HIDE DEF S, h
  <2>5. T[S] = Combined(fun, T[S \ {Max(S)}], s[Max(S)])
    BY <1>5, <2>3 DEF FoldRow
  <2> QED BY <2>2, <2>3, <2>4, <2>5
<1>8. h = [k \in 0..n |-> h[k]] /\ Fold(fun, id, s) = h[n]
  <2>1. n \in 0..n
    BY <1>1
  <2> QED BY <1>3, <2>1
<1> HIDE DEF h
<1> DEFINE Good == {k \in Nat : k <= n => h[k] \in V}
<1>9. 0 \in Good
  BY <1>2, <1>6
<1>10. ASSUME NEW k \in Good PROVE k + 1 \in Good
  <2> SUFFICES ASSUME k + 1 <= n PROVE h[k + 1] \in V
    OBVIOUS
  <2>1. k \in 0..n - 1 /\ k <= n
    BY <1>1
  <2>2. h[k] \in V /\ s[k + 1] \in V
    BY <1>2, <2>1
  <2>3. h[k + 1] = Combined(fun, h[k], s[k + 1])
    BY <1>7, <2>1
  <2> QED BY <2>2, <2>3, CombinedIn DEF V
<1>11. \A k \in Nat : k \in Good
  <2>1. Good \in SUBSET Nat
    OBVIOUS
  <2> HIDE DEF Good
  <2> QED BY <1>9, <1>10, <2>1, FromPrevious
<1>12. \A k \in 0..n : h[k] \in V
  BY <1>1, <1>11
<1>13. FoldSteps(fun, h, id, s)
  <2>1. h \in [0..n -> V]
    BY <1>8, <1>12
  <2> QED BY <1>6, <1>7, <2>1 DEF FoldSteps, V, n
<1> QED BY <1>8, <1>13 DEF n

(* The fold of one more element.                                           *)
LEMMA FoldNext ==
    ASSUME NEW fun \in Folds, NEW id \in Values(fun), NEW s \in Seq(Values(fun)),
           NEW k \in Nat, k < Len(s)
    PROVE  /\ Fold(fun, id, SubSeq(s, 1, k)) \in Values(fun)
           /\ Fold(fun, id, SubSeq(s, 1, k + 1))
                  = Combined(fun, Fold(fun, id, SubSeq(s, 1, k)), s[k + 1])
<1> DEFINE V == Values(fun)
           q == SubSeq(s, 1, k)
           r == SubSeq(s, 1, k + 1)
<1>1. s \in Seq(V) /\ id \in V
  OBVIOUS
<1>2. /\ q \in Seq(V) /\ Len(q) = k /\ r \in Seq(V) /\ Len(r) = k + 1
      /\ r[k + 1] = s[k + 1] /\ \A i \in 1..k : q[i] = r[i]
  <2> HIDE DEF V
  <2> QED BY <1>1
<1> HIDE DEF q, r
<1>3. PICK g : FoldSteps(fun, g, id, q) /\ Fold(fun, id, q) = g[k]
  BY <1>2, FoldIs
<1>4. PICK h : FoldSteps(fun, h, id, r) /\ Fold(fun, id, r) = h[k + 1]
  BY <1>2, FoldIs
<1> DEFINE Good == {i \in Nat : i <= k => g[i] = h[i]}
<1>5. g[k] = h[k]
  <2>1. 0 \in Good
    BY <1>3, <1>4 DEF FoldSteps
  <2>2. ASSUME NEW i \in Good PROVE i + 1 \in Good
    <3> SUFFICES ASSUME i + 1 <= k PROVE g[i + 1] = h[i + 1]
      OBVIOUS
    <3>1. i \in 0..Len(q) - 1 /\ i \in 0..Len(r) - 1 /\ i + 1 \in 1..k /\ g[i] = h[i]
      BY <1>2
    <3>2. q[i + 1] = r[i + 1]
      BY <1>2, <3>1
    <3>3. /\ g[i + 1] = Combined(fun, g[i], q[i + 1])
          /\ h[i + 1] = Combined(fun, h[i], r[i + 1])
      BY <1>3, <1>4, <3>1 DEF FoldSteps
    <3> QED BY <3>1, <3>2, <3>3
  <2>3. Good \in SUBSET Nat
    OBVIOUS
  <2> HIDE DEF Good
  <2>4. k \in Good
    BY <2>1, <2>2, <2>3, FromPrevious
  <2> QED BY <2>4 DEF Good
<1>6. k \in 0..Len(r) - 1 /\ k \in 0..Len(q)
  BY <1>2
<1>7. Fold(fun, id, r) = Combined(fun, Fold(fun, id, q), s[k + 1])
  BY <1>2, <1>3, <1>4, <1>5, <1>6 DEF FoldSteps
<1>8. Fold(fun, id, q) \in V
  BY <1>3, <1>6 DEF FoldSteps
<1> QED BY <1>7, <1>8 DEF q, r

(* The fold of no element.                                                 *)
LEMMA FoldOfNone ==
    ASSUME NEW fun \in Folds, NEW id \in Values(fun)
    PROVE  Fold(fun, id, <<>>) = id
<1>1. <<>> \in Seq(Values(fun)) /\ Len(<<>>) = 0
  OBVIOUS
<1> DEFINE e == <<>>
<1> HIDE DEF e
<1>2. e \in Seq(Values(fun)) /\ Len(e) = 0
  BY <1>1 DEF e
<1>3. PICK h : FoldSteps(fun, h, id, e) /\ Fold(fun, id, e) = h[Len(e)]
  BY <1>2, FoldIs
<1> QED BY <1>2, <1>3 DEF FoldSteps, e

(* Concatenation has a unit,                                               *)
LEMMA Concatenated ==
    ASSUME NEW r \in Seq(Int), NEW s \in Seq(Int)
    PROVE  r \o s \in Seq(Int) /\ <<>> \o r = r /\ r \o <<>> = r
<1>1. r \o s \in Seq(Int)
  OBVIOUS
<1>2. <<>> \o r = r /\ r \o <<>> = r
  BY ConcatEmptySeq
<1> QED BY <1>1, <1>2

(* and is associative.                                                     *)
LEMMA Associates ==
    ASSUME NEW r \in Seq(Int), NEW s \in Seq(Int), NEW t \in Seq(Int)
    PROVE  (r \o s) \o t = r \o (s \o t)
BY ConcatAssociative

(* The folds that begin with the unit of their operation.                  *)
UnitFolds == {"joined", "summed"}
Unit(fun) == IF fun = "summed" THEN 0 ELSE <<>>
Folded(fun, s, a, b) == Fold(fun, Unit(fun), SubSeq(s, a, b))

(* The folds that begin with a unit.                                       *)
LEMMA UnitIs ==
    ASSUME NEW fun \in UnitFolds, NEW x \in Values(fun)
    PROVE  /\ fun \in Folds /\ Unit(fun) \in Values(fun)
           /\ Combined(fun, x, Unit(fun)) = x /\ Combined(fun, Unit(fun), x) = x
<1>1. CASE fun = "joined"
  <2>1. x \in Seq(Int) /\ Unit(fun) = <<>>
    BY <1>1 DEF Values, Unit
  <2>2. <<>> \o x = x /\ x \o <<>> = x /\ <<>> \in Seq(Int)
    BY <2>1, Concatenated
  <2> QED BY <1>1, <2>1, <2>2 DEF Values, Combined, Folds
<1>2. CASE fun = "summed"
  <2>1. x \in Int /\ Unit(fun) = 0
    BY <1>2 DEF Values, Unit
  <2>2. 0 + x = x /\ x + 0 = x
    BY <2>1
  <2> QED BY <1>2, <2>1, <2>2 DEF Values, Combined, Folds
<1> QED BY <1>1, <1>2 DEF UnitFolds

(* Their operations are associative.                                       *)
LEMMA CombinedAssociates ==
    ASSUME NEW fun \in UnitFolds, NEW x \in Values(fun), NEW y \in Values(fun), NEW z \in Values(fun)
    PROVE  Combined(fun, Combined(fun, x, y), z) = Combined(fun, x, Combined(fun, y, z))
<1>1. CASE fun = "joined"
  <2>1. x \in Seq(Int) /\ y \in Seq(Int) /\ z \in Seq(Int)
    BY <1>1 DEF Values
  <2>2. (x \o y) \o z = x \o (y \o z)
    BY <2>1, Associates
  <2> QED BY <1>1, <2>2 DEF Combined
<1>2. CASE fun = "summed"
  <2>1. x \in Int /\ y \in Int /\ z \in Int
    BY <1>2 DEF Values
  <2>2. (x + y) + z = x + (y + z)
    BY <2>1
  <2> QED BY <1>2, <2>2 DEF Combined
<1> QED BY <1>1, <1>2 DEF UnitFolds

(* The fold of the first n elements, one element further.                  *)
LEMMA FoldedNext ==
    ASSUME NEW fun \in UnitFolds, NEW s \in Seq(Values(fun)), NEW n \in 0..Len(s)
    PROVE  /\ Folded(fun, s, 1, 0) = Unit(fun)
           /\ Folded(fun, s, 1, n) \in Values(fun)
           /\ n < Len(s) => Folded(fun, s, 1, n + 1) = Combined(fun, Folded(fun, s, 1, n), s[n + 1])
<1> DEFINE V == Values(fun)
           id == Unit(fun)
<1>1. fun \in Folds /\ id \in V
  <2>1. \E x : x \in V
    <3>1. 0 \in Int /\ <<>> \in Seq(Int)
      OBVIOUS
    <3> QED BY <3>1 DEF Values
  <2> QED BY <2>1, UnitIs
<1>2. Folded(fun, s, 1, 0) = id
  <2>1. SubSeq(s, 1, 0) = <<>>
    OBVIOUS
  <2> QED BY <1>1, <2>1, FoldOfNone DEF Folded
<1> HIDE DEF id
<1>3. ASSUME NEW k \in 0..Len(s) - 1
      PROVE  /\ Folded(fun, s, 1, k) \in V
             /\ Folded(fun, s, 1, k + 1) = Combined(fun, Folded(fun, s, 1, k), s[k + 1])
  <2>1. k \in Nat /\ k < Len(s)
    OBVIOUS
  <2>2. /\ Fold(fun, id, SubSeq(s, 1, k)) \in Values(fun)
        /\ Fold(fun, id, SubSeq(s, 1, k + 1))
              = Combined(fun, Fold(fun, id, SubSeq(s, 1, k)), s[k + 1])
    BY <1>1, <2>1, FoldNext
  <2> QED BY <2>2 DEF Folded, id
<1>4. Folded(fun, s, 1, n) \in V
  <2>1. CASE n = 0
    BY <1>1, <1>2, <2>1
  <2>2. CASE n # 0
    <3> DEFINE m == n - 1
    <3>1. m \in 0..Len(s) - 1 /\ m + 1 = n /\ n \in 1..Len(s)
      BY <2>2
    <3>2. s[n] \in V
      <4> HIDE DEF V
      <4>1. s \in Seq(V)
        BY DEF V
      <4> QED BY <3>1, <4>1
    <3> HIDE DEF m
    <3>3. Folded(fun, s, 1, m) \in V /\ Folded(fun, s, 1, n) = Combined(fun, Folded(fun, s, 1, m), s[n])
      BY <1>3, <3>1
    <3> QED BY <1>1, <3>2, <3>3, CombinedIn
  <2> QED BY <2>1, <2>2
<1>5. n < Len(s) => n \in 0..Len(s) - 1
  OBVIOUS
<1> QED BY <1>2, <1>3, <1>4, <1>5 DEF id

(* What is folded up to d is what is folded up to c and then from there.   *)
LEMMA FoldedJoin ==
    ASSUME NEW fun \in UnitFolds, NEW s \in Seq(Values(fun)), NEW c \in 0..Len(s), NEW d \in c..Len(s)
    PROVE  /\ Folded(fun, s, c + 1, d) \in Values(fun)
           /\ Folded(fun, s, 1, d)
                  = Combined(fun, Folded(fun, s, 1, c), Folded(fun, s, c + 1, d))
<1> DEFINE V == Values(fun)
           t == SubSeq(s, c + 1, d)
           n == d - c
           F(k) == Folded(fun, t, 1, k)
           J(k) == Folded(fun, s, 1, k)
<1>0. c \in Nat /\ Len(s) \in Nat /\ c <= Len(s) /\ d \in Nat /\ d <= Len(s) /\ n \in Nat /\ c + n = d
  OBVIOUS
<1>1. t \in Seq(Values(fun)) /\ Len(t) = n /\ \A k \in 1..n : t[k] = s[c + k]
  <2> HIDE DEF V
  <2>1. s \in Seq(V)
    BY DEF V
  <2>2. t \in Seq(V) /\ Len(t) = n /\ \A k \in 1..n : t[k] = s[c + k]
    BY <1>0, <2>1
  <2> QED BY <2>2 DEF V
<1>2. SubSeq(t, 1, n) = t
  <2> HIDE DEF t, n
  <2> QED BY <1>1, SubSeqFull
<1>3. F(n) = Folded(fun, s, c + 1, d)
  BY <1>2 DEF Folded
<1> HIDE DEF t, n
<1> DEFINE Is(k) == J(c + k) = Combined(fun, J(c), F(k))
           Good == {k \in Nat : k <= n => Is(k)}
<1>4. J(c) \in V
  BY FoldedNext
<1>5. 0 \in Good
  <2>1. c + 0 = c /\ 0 \in 0..Len(t)
    BY <1>0, <1>1
  <2>2. F(0) = Unit(fun)
    BY <1>1, <2>1, FoldedNext
  <2>3. Combined(fun, J(c), Unit(fun)) = J(c)
    BY <1>4, UnitIs
  <2> QED BY <2>1, <2>2, <2>3
<1>6. ASSUME NEW k \in Good PROVE k + 1 \in Good
  <2> SUFFICES ASSUME k + 1 <= n PROVE Is(k + 1)
    OBVIOUS
  <2> DEFINE x == J(c)
             y == F(k)
             z == s[c + k + 1]
             e == c + k
  <2>1. /\ k \in Nat /\ e \in 0..Len(s) /\ e < Len(s) /\ c + (k + 1) = e + 1 /\ k \in 0..Len(t)
        /\ k < Len(t) /\ e + 1 \in 1..Len(s) /\ Is(k) /\ k + 1 \in 1..n /\ e + 1 = c + k + 1
        /\ e + 1 = c + (k + 1)
    BY <1>0, <1>1
  <2>2. z \in V
    <3> HIDE DEF V, Good, J, F
    <3>1. s \in Seq(V)
      BY DEF V
    <3> QED BY <2>1, <3>1
  <2> HIDE DEF Good, e
  <2>3. J(e + 1) = Combined(fun, J(e), s[e + 1])
    BY <2>1, FoldedNext
  <2>4. y \in V /\ F(k + 1) = Combined(fun, y, t[k + 1])
    BY <1>1, <2>1, FoldedNext
  <2>5. t[k + 1] = z
    BY <1>1, <2>1
  <2>6. Combined(fun, Combined(fun, x, y), z) = Combined(fun, x, Combined(fun, y, z))
    BY <1>4, <2>2, <2>4, CombinedAssociates
  <2> HIDE DEF J, F
  <2>7. J(e) = Combined(fun, x, y)
    BY <2>1 DEF e
  <2> QED BY <2>1, <2>3, <2>4, <2>5, <2>6, <2>7
<1>7. Good \in SUBSET Nat
  OBVIOUS
<1>8. n \in Good
  <2> HIDE DEF Good
  <2> QED BY <1>0, <1>5, <1>6, <1>7, FromPrevious
<1>9. F(n) \in V
  <2>1. n \in 0..Len(t)
    BY <1>0, <1>1
  <2> QED BY <1>1, <2>1, FoldedNext
<1> HIDE DEF F
<1>10. J(d) = Combined(fun, J(c), F(n))
  BY <1>0, <1>8
<1> QED BY <1>3, <1>9, <1>10

(* The concatenation of the first n.                                       *)
Joined(s, n) == Folded("joined", s, 1, n)

(* The concatenation of one more sequence.                                 *)
LEMMA JoinedNext ==
    ASSUME NEW s \in Seq(Seq(Int))
    PROVE  /\ Joined(s, 0) = <<>>
           /\ \A n \in 0..Len(s) : Joined(s, n) \in Seq(Int)
           /\ \A n \in 0..Len(s) - 1 : Joined(s, n + 1) = Joined(s, n) \o s[n + 1]
<1> DEFINE fun == "joined"
<1>1. /\ fun \in UnitFolds /\ Values(fun) = Seq(Int) /\ Unit(fun) = <<>>
      /\ \A x, y : Combined(fun, x, y) = x \o y
  BY DEF UnitFolds, Values, Unit, Combined
<1> HIDE DEF fun
<1>2. s \in Seq(Values(fun))
  BY <1>1
<1>3. ASSUME NEW n \in 0..Len(s)
      PROVE  /\ Folded(fun, s, 1, 0) = <<>> /\ Folded(fun, s, 1, n) \in Seq(Int)
             /\ n < Len(s) => Folded(fun, s, 1, n + 1) = Folded(fun, s, 1, n) \o s[n + 1]
  <2>1. /\ Folded(fun, s, 1, 0) = Unit(fun) /\ Folded(fun, s, 1, n) \in Values(fun)
        /\ n < Len(s) => Folded(fun, s, 1, n + 1) = Combined(fun, Folded(fun, s, 1, n), s[n + 1])
    BY <1>1, <1>2, FoldedNext
  <2> QED BY <1>1, <2>1
<1>4. 0 \in 0..Len(s) /\ \A n \in 0..Len(s) - 1 : n \in 0..Len(s) /\ n < Len(s)
  OBVIOUS
<1> QED BY <1>3, <1>4 DEF Joined, fun

(* FlattenSeq, the reference, is the same fold.                            *)
FlattenRow(g, s, i) == IF i = 1 THEN s[i] ELSE g[i - 1] \o s[i]

(* There is a function with that equation, so FlattenSeq is defined.       *)
LEMMA FlattenExists ==
    ASSUME NEW s \in Seq(Seq(Int)), NEW n \in Nat
    PROVE  \E g : g = [i \in 1..n |-> FlattenRow(g, s, i)]
<1> DEFINE S == {m \in Nat : \E g : g = [i \in 1..m |-> FlattenRow(g, s, i)]}
<1>1. 0 \in S
  <2> DEFINE g == [i \in 1..0 |-> {}]
  <2>1. g = [i \in 1..0 |-> FlattenRow(g, s, i)]
    OBVIOUS
  <2> QED BY <2>1
<1>2. ASSUME NEW m \in S PROVE m + 1 \in S
  <2>1. PICK g : g = [i \in 1..m |-> FlattenRow(g, s, i)]
    BY <1>2
  <2> DEFINE f == [i \in 1..m + 1 |-> IF i = m + 1 THEN FlattenRow(g, s, i) ELSE g[i]]
  <2>2. ASSUME NEW i \in 1..m + 1 PROVE f[i] = FlattenRow(f, s, i)
    <3>1. i # 1 => f[i - 1] = g[i - 1]
      OBVIOUS
    <3>2. f[i] = FlattenRow(g, s, i)
      BY <2>1
    <3> HIDE DEF f
    <3> QED BY <3>1, <3>2 DEF FlattenRow
  <2> HIDE DEF f
  <2>3. f = [i \in 1..m + 1 |-> f[i]]
    BY DEF f
  <2>4. f = [i \in 1..m + 1 |-> FlattenRow(f, s, i)]
    BY <2>2, <2>3
  <2> QED BY <2>4
<1>3. S \in SUBSET Nat
  OBVIOUS
<1> HIDE DEF S
<1>4. n \in S
  BY <1>1, <1>2, <1>3, FromPrevious
<1> QED BY <1>4 DEF S

(* FlattenSeq concatenates in order,                                       *)
LEMMA FlattenIsJoined ==
    ASSUME NEW s \in Seq(Seq(Int))
    PROVE  FlattenSeq(s) = Joined(s, Len(s))
<1> DEFINE n == Len(s)
           T == CHOOSE g : g = [i \in 1..n |-> FlattenRow(g, s, i)]
<1>1. n \in Nat
  OBVIOUS
<1>2. FlattenSeq(s) = IF n = 0 THEN s ELSE T[n]
  BY DEF FlattenSeq, FlattenRow
<1>3. T = [i \in 1..n |-> FlattenRow(T, s, i)]
  <2> HIDE DEF n
  <2>1. \E g : g = [i \in 1..n |-> FlattenRow(g, s, i)]
    <3> HIDE DEF T
    <3> QED BY <1>1, FlattenExists
  <2> QED BY <2>1
<1> HIDE DEF T
<1>4. CASE n = 0
  <2>1. s = <<>>
    BY <1>4
  <2>2. FlattenSeq(s) = <<>>
    BY <1>2, <1>4, <2>1
  <2> QED BY <1>4, <2>2, JoinedNext
<1>5. CASE n # 0
  <2> DEFINE Good == {i \in Nat : i + 1 <= n => T[i + 1] = Joined(s, i + 1)}
  <2>1. 0 \in Good
    <3>1. T[1] = s[1]
      BY <1>1, <1>3, <1>5 DEF FlattenRow
    <3>2. 0 \in 0..Len(s) - 1 /\ 1 \in 1..Len(s)
      BY <1>5
    <3>3. Joined(s, 0 + 1) = <<>> \o s[0 + 1]
      BY <3>2, JoinedNext
    <3>4. s[1] \in Seq(Int)
      BY <3>2
    <3>5. <<>> \o s[1] = s[1]
      BY <3>4, ConcatEmptySeq
    <3> QED BY <3>1, <3>3, <3>5
  <2>2. ASSUME NEW i \in Good PROVE i + 1 \in Good
    <3> SUFFICES ASSUME (i + 1) + 1 <= n PROVE T[(i + 1) + 1] = Joined(s, (i + 1) + 1)
      OBVIOUS
    <3> DEFINE k == i + 1
    <3>1. k \in Nat /\ k + 1 \in 1..n /\ k + 1 # 1 /\ (k + 1) - 1 = k /\ k \in 0..Len(s) - 1
          /\ T[k] = Joined(s, k)
      BY <1>1
    <3> HIDE DEF k
    <3>2. T[k + 1] = T[k] \o s[k + 1]
      <4>1. T[k + 1] = FlattenRow(T, s, k + 1)
        BY <1>3, <3>1
      <4> QED BY <3>1, <4>1 DEF FlattenRow
    <3>3. Joined(s, k + 1) = Joined(s, k) \o s[k + 1]
      BY <3>1, JoinedNext
    <3>4. T[k + 1] = Joined(s, k + 1)
      BY <3>1, <3>2, <3>3
    <3> QED BY <3>4 DEF k
  <2>3. Good \in SUBSET Nat
    OBVIOUS
  <2> DEFINE m == n - 1
  <2>4. m \in Nat /\ m + 1 = n
    BY <1>1, <1>5
  <2>5. m \in Good
    <3> HIDE DEF Good, m
    <3> QED BY <2>1, <2>2, <2>3, <2>4, FromPrevious
  <2>6. T[n] = Joined(s, n)
    BY <2>4, <2>5
  <2> QED BY <1>2, <1>5, <2>6
<1> QED BY <1>4, <1>5

(* also the first n sequences.                                             *)
LEMMA JoinedOfPrefix ==
    ASSUME NEW s \in Seq(Seq(Int)), NEW n \in 0..Len(s)
    PROVE  FlattenSeq(Prefix(s, n)) = Joined(s, n)
<1> DEFINE t == SubSeq(s, 1, n)
<1>1. t \in Seq(Seq(Int)) /\ Len(t) = n
  OBVIOUS
<1>2. SubSeq(t, 1, n) = t
  BY <1>1, SubSeqFull
<1>3. Joined(t, n) = Joined(s, n)
  BY <1>2 DEF Joined, Folded
<1> HIDE DEF t
<1>4. FlattenSeq(t) = Joined(t, n)
  BY <1>1, FlattenIsJoined
<1> QED BY <1>3, <1>4 DEF Prefix, t

-----------------------------------------------------------------------------
(* The reduction.                                                          *)
RangeJoined(s, a, b) == Folded("joined", s, a, b)

(* A chunk is folded after all before it.                                  *)
LEMMA RangeJoins ==
    ASSUME NEW s \in Seq(Seq(Int)), NEW c \in 0..Len(s), NEW d \in c..Len(s)
    PROVE  /\ RangeJoined(s, c + 1, d) \in Seq(Int)
           /\ Joined(s, d) = Joined(s, c) \o RangeJoined(s, c + 1, d)
<1> DEFINE fun == "joined"
<1>1. /\ fun \in UnitFolds /\ Values(fun) = Seq(Int)
      /\ \A x, y : Combined(fun, x, y) = x \o y
  BY DEF UnitFolds, Values, Combined
<1> HIDE DEF fun
<1>2. s \in Seq(Values(fun))
  BY <1>1
<1>3. /\ Folded(fun, s, c + 1, d) \in Values(fun)
      /\ Folded(fun, s, 1, d) = Combined(fun, Folded(fun, s, 1, c), Folded(fun, s, c + 1, d))
  BY <1>1, <1>2, FoldedJoin
<1> QED BY <1>1, <1>3 DEF Joined, RangeJoined, fun

(* The worker of one chunk folds the elements of that chunk.               *)
LEMMA WorkerJoins ==
    ASSUME NEW s \in Seq(Seq(Int)), NEW c \in 0..Len(s), NEW d \in c..Len(s)
    PROVE  /\ _Parallel_reduce_fixed_worker(s, c + 1..d, <<>>) \in Seq(Int)
           /\ Joined(s, d) = Joined(s, c) \o _Parallel_reduce_fixed_worker(s, c + 1..d, <<>>)
<1> DEFINE P == c + 1..d
           lo == Min(P \cup {Len(s) + 1})
           hi == Max(P \cup {0})
<1>0. c \in Nat /\ d \in Nat /\ Len(s) \in Nat /\ c <= d /\ d <= Len(s)
  OBVIOUS
<1>1. SubSeq(s, lo, hi) = SubSeq(s, c + 1, d)
  <2>1. CASE c = d
    <3>1. P = {} /\ P \cup {Len(s) + 1} = {Len(s) + 1, Len(s) + 1} /\ P \cup {0} = {0, 0}
      BY <1>0, <2>1
    <3>2. lo = Len(s) + 1 /\ hi = 0
      <4>1. Min({Len(s) + 1, Len(s) + 1}) = Len(s) + 1 /\ Max({0, 0}) = 0
        <5>1. Len(s) + 1 \in Int /\ 0 \in Int
          BY <1>0
        <5> QED BY <5>1, MinOfTwo, MaxOfTwo
      <4> QED BY <3>1, <4>1
    <3> HIDE DEF lo, hi
    <3>3. SubSeq(s, lo, hi) = <<>>
      <4>1. lo \in Int /\ hi \in Int /\ hi < lo
        BY <1>0, <3>2
      <4> QED BY <4>1, SubSeqEmpty
    <3>4. SubSeq(s, c + 1, d) = <<>>
      <4>1. c + 1 \in Int /\ d \in Int /\ d < c + 1
        BY <1>0, <2>1
      <4> QED BY <4>1, SubSeqEmpty
    <3> QED BY <3>3, <3>4
  <2>2. CASE c # d
    <3>1. /\ P \cup {Len(s) + 1} \in SUBSET Int /\ c + 1 \in P \cup {Len(s) + 1}
          /\ \A x \in P \cup {Len(s) + 1} : c + 1 <= x
      BY <1>0, <2>2
    <3>2. /\ P \cup {0} \in SUBSET Int /\ d \in P \cup {0}
          /\ \A x \in P \cup {0} : x <= d
      BY <1>0, <2>2
    <3> DEFINE A == P \cup {Len(s) + 1}
               B == P \cup {0}
    <3>3. A # {} /\ A \in SUBSET Int /\ (\A x \in A : c + 1 <= x) /\ c + 1 \in A /\ c + 1 \in Int
      BY <1>0, <3>1
    <3>4. B # {} /\ B \in SUBSET Int /\ (\A x \in B : x <= d) /\ d \in B /\ d \in Int
      BY <1>0, <3>2
    <3>5. lo = Min(A) /\ hi = Max(B)
      OBVIOUS
    <3> HIDE DEF A, B, lo, hi
    <3>6. Min(A) \in A /\ \A x \in A : Min(A) <= x
      BY <3>3, MinIs
    <3>7. Max(B) \in B /\ \A x \in B : Max(B) >= x
      BY <3>4, MaxIs
    <3>8. lo = c + 1
      <4>1. lo \in Int /\ lo <= c + 1 /\ c + 1 <= lo
        BY <3>3, <3>5, <3>6
      <4> QED BY <1>0, <4>1
    <3>9. hi = d
      <4>1. hi \in Int /\ hi <= d /\ d <= hi
        BY <3>4, <3>5, <3>7
      <4> QED BY <1>0, <4>1
    <3> QED BY <3>8, <3>9
  <2> QED BY <2>1, <2>2
<1>2. _Parallel_reduce_fixed_worker(s, c + 1..d, <<>>) = RangeJoined(s, c + 1, d)
  BY <1>1 DEF _Parallel_reduce_fixed_worker, RangeJoined, Folded, Unit, Fold
<1> QED BY <1>2, RangeJoins

(* b are the ends of the chunks, one after the other.                      *)
ChunksOf(chunks, n, size, b) ==
    /\ b \in [0..n -> 0..size] /\ b[0] = 0 /\ b[n] = size
    /\ \A k \in 1..n : b[k - 1] <= b[k]
    /\ chunks = [k \in 1..n |-> b[k - 1] + 1..b[k]]

(* The results of the chunks, folded in their order, are the fold of all   *)
(* elements.                                                               *)
LEMMA ReduceImplJoins ==
    ASSUME NEW s \in Seq(Seq(Int)), NEW n \in Nat, n > 0, NEW b, NEW chunks,
           ChunksOf(chunks, n, Len(s), b)
    PROVE  _Parallel_reduce_impl(s, chunks, <<>>) = Joined(s, Len(s))
<1> DEFINE size == Len(s)
           id == <<>>
           w(k) == _Parallel_reduce_fixed_worker(s, chunks[k], id)
           buckets == Reverse([k \in DOMAIN chunks |-> w(k)])
           tail == Tail(buckets)
<1>1. /\ size \in Nat /\ DOMAIN chunks = 1..n
      /\ \A k \in 1..n : chunks[k] = b[k - 1] + 1..b[k]
  BY DEF ChunksOf
<1>2. ASSUME NEW k \in 1..n
      PROVE  w(k) \in Seq(Int) /\ Joined(s, b[k]) = Joined(s, b[k - 1]) \o w(k)
  <2> DEFINE c == b[k - 1]
             d == b[k]
  <2>1. c \in 0..Len(s) /\ d \in c..Len(s) /\ chunks[k] = c + 1..d
    <3>1. k - 1 \in 0..n /\ k \in 0..n
      OBVIOUS
    <3> QED BY <1>1, <3>1 DEF ChunksOf
  <2> HIDE DEF c, d
  <2>2. /\ _Parallel_reduce_fixed_worker(s, c + 1..d, <<>>) \in Seq(Int)
        /\ Joined(s, d) = Joined(s, c) \o _Parallel_reduce_fixed_worker(s, c + 1..d, <<>>)
    BY <2>1, WorkerJoins
  <2> QED BY <2>1, <2>2 DEF c, d
<1> HIDE DEF w
<1> DEFINE ws == [k \in 1..n |-> w(k)]
<1>3. ws \in Seq(Seq(Int)) /\ Len(ws) = n /\ buckets = Reverse(ws)
  <2>1. ws \in Seq(Seq(Int)) /\ Len(ws) = n
    BY <1>2
  <2>2. buckets = Reverse(ws)
    BY <1>1
  <2> QED BY <2>1, <2>2
<1>4. /\ buckets \in Seq(Seq(Int)) /\ Len(buckets) = n
      /\ \A k \in 1..n : buckets[k] = w((n - k) + 1)
  <2>1. buckets = [k \in 1..n |-> ws[(n - k) + 1]]
    <3> HIDE DEF ws, buckets
    <3> QED BY <1>3 DEF Reverse
  <2>2. \A k \in 1..n : (n - k) + 1 \in 1..n /\ ws[(n - k) + 1] = w((n - k) + 1)
    OBVIOUS
  <2> HIDE DEF ws, buckets
  <2> QED BY <1>2, <2>1, <2>2
<1>5. _Parallel_reduce_impl(s, chunks, <<>>) = Fold("released", buckets[1], tail)
  BY DEF _Parallel_reduce_impl, _Serial_combine_release, Fold, w
<1> HIDE DEF buckets
<1>6. /\ tail \in Seq(Seq(Int)) /\ Len(tail) = n - 1
      /\ \A k \in 1..n - 1 : tail[k] = w(n - k)
  <2>1. buckets # <<>>
    BY <1>4
  <2>2. /\ tail \in Seq(Seq(Int)) /\ Len(tail) = Len(buckets) - 1
        /\ \A k \in 1..Len(tail) : tail[k] = buckets[k + 1]
    BY <1>4, <2>1, HeadTailProperties
  <2>3. ASSUME NEW k \in 1..n - 1 PROVE tail[k] = w(n - k)
    <3>1. k + 1 \in 1..n /\ (n - (k + 1)) + 1 = n - k /\ k \in 1..Len(tail)
      BY <1>4, <2>2
    <3> QED BY <1>4, <2>2, <3>1
  <2> QED BY <1>4, <2>2, <2>3
<1> DEFINE first == buckets[1]
<1>7. first \in Seq(Int) /\ first = w(n)
  <2>1. 1 \in 1..n /\ (n - 1) + 1 = n
    OBVIOUS
  <2> QED BY <1>4, <2>1
<1> HIDE DEF tail, first
<1> DEFINE F(k) == Fold("released", first, SubSeq(tail, 1, k))
           Good == {k \in Nat : k <= n - 1 =>
                       /\ F(k) \in Seq(Int)
                       /\ Joined(s, size) = Joined(s, b[(n - k) - 1]) \o F(k)}
<1>8. /\ "released" \in Folds /\ Values("released") = Seq(Int)
  BY DEF Folds, Values
<1>9. 0 \in Good
  <2>1. SubSeq(tail, 1, 0) = <<>>
    OBVIOUS
  <2>2. F(0) = first
    BY <1>7, <1>8, <2>1, FoldOfNone
  <2>3. (n - 0) - 1 = n - 1 /\ n \in 1..n
    OBVIOUS
  <2>4. Joined(s, b[n]) = Joined(s, b[n - 1]) \o w(n) /\ b[n] = size
    BY <1>2, <2>3 DEF ChunksOf
  <2> HIDE DEF F
  <2> QED BY <1>7, <2>2, <2>3, <2>4
<1>10. ASSUME NEW k \in Good PROVE k + 1 \in Good
  <2> SUFFICES ASSUME k + 1 <= n - 1
               PROVE  /\ F(k + 1) \in Seq(Int)
                      /\ Joined(s, size) = Joined(s, b[(n - (k + 1)) - 1]) \o F(k + 1)
    OBVIOUS
  <2> DEFINE m == (n - k) - 1
  <2>1. /\ k \in Nat /\ k <= n - 1 /\ k < Len(tail) /\ k + 1 \in 1..n - 1 /\ m \in 1..n
        /\ (n - (k + 1)) - 1 = m - 1 /\ n - (k + 1) = m /\ m \in 0..n /\ m - 1 \in 0..n
    BY <1>6
  <2>2. F(k) \in Seq(Int) /\ Joined(s, size) = Joined(s, b[m]) \o F(k)
    BY <2>1
  <2> HIDE DEF m, Good
  <2>3. F(k + 1) = tail[k + 1] \o F(k)
    <3>1. first \in Values("released") /\ tail \in Seq(Values("released"))
      BY <1>6, <1>7, <1>8
    <3>2. Fold("released", first, SubSeq(tail, 1, k + 1))
             = Combined("released", Fold("released", first, SubSeq(tail, 1, k)), tail[k + 1])
      BY <1>8, <2>1, <3>1, FoldNext
    <3> QED BY <3>2 DEF Combined
  <2>4. tail[k + 1] = w(m)
    BY <1>6, <2>1
  <2>5. w(m) \in Seq(Int) /\ Joined(s, b[m]) = Joined(s, b[m - 1]) \o w(m)
    BY <1>2, <2>1
  <2> DEFINE j == Joined(s, b[m - 1])
             x == w(m)
             y == F(k)
  <2>6. j \in Seq(Int) /\ x \in Seq(Int) /\ y \in Seq(Int)
    <3>1. b[m - 1] \in 0..Len(s)
      BY <2>1 DEF ChunksOf
    <3>2. j \in Seq(Int)
      BY <3>1, JoinedNext
    <3> QED BY <2>2, <2>5, <3>2
  <2>7. Joined(s, size) = (j \o x) \o y /\ F(k + 1) = x \o y
    BY <2>2, <2>3, <2>4, <2>5
  <2> HIDE DEF j, x, y, F
  <2>8. x \o y \in Seq(Int)
    BY <2>6, Concatenated
  <2>9. (j \o x) \o y = j \o (x \o y)
    BY <2>6, Associates
  <2> QED BY <2>1, <2>7, <2>8, <2>9 DEF j
<1>11. Good \in SUBSET Nat
  OBVIOUS
<1>12. n - 1 \in Nat /\ n - 1 <= n - 1 /\ (n - (n - 1)) - 1 = 0
  OBVIOUS
<1>13. n - 1 \in Good
  <2> HIDE DEF Good
  <2> QED BY <1>9, <1>10, <1>11, <1>12, FromPrevious
<1>14. F(n - 1) \in Seq(Int) /\ Joined(s, size) = Joined(s, 0) \o F(n - 1)
  <2>1. b[0] = 0
    BY DEF ChunksOf
  <2> HIDE DEF F
  <2> QED BY <1>12, <1>13, <2>1
<1>15. F(n - 1) = Fold("released", first, tail)
  <2>1. SubSeq(tail, 1, n - 1) = tail
    BY <1>6, SubSeqFull
  <2> QED BY <2>1
<1>16. Joined(s, size) = F(n - 1)
  <2>1. Joined(s, 0) = <<>>
    BY JoinedNext
  <2> HIDE DEF F
  <2>2. <<>> \o F(n - 1) = F(n - 1)
    BY <1>14, Concatenated
  <2> QED BY <1>14, <2>1, <2>2
<1> QED BY <1>5, <1>15, <1>16 DEF first

(* The chunks of _Parallel_reduce_random_executor, one for each core,      *)
LEMMA RandomChunks ==
    ASSUME NEW size \in Nat, NEW cores \in Nat \ {0}
    PROVE  \E b : ChunksOf(_Parallel_reduce_random_executor(size, cores), cores, size, b)
<1> DEFINE q == size \div cores
           r == size % cores
           start(n) == q * n + Min({n, r})
           b == [n \in 0..cores |-> IF n = cores THEN size ELSE start(n)]
<1>1. q \in Nat /\ r \in 0..(cores - 1) /\ size = cores * q + r
  <2>1. cores \in Nat /\ cores > 0
    OBVIOUS
  <2> QED BY <2>1, DivModIs
<1>2. \A n \in 0..cores : start(n) = ChunkStart(size, cores, n)
  BY DEF ChunkStart
<1> HIDE DEF q, r
<1>3. ASSUME NEW n \in 0..cores
      PROVE  /\ Min({n, r}) = IF n <= r THEN n ELSE r
             /\ q * n \in Nat /\ q * (n + 1) = q * n + q
  <2>1. n \in Int /\ r \in Int
    BY <1>1
  <2>2. q * n \in Nat /\ q * (n + 1) = q * n + q
    BY <1>1, <2>1
  <2> QED BY <2>1, <2>2, MinOfTwo
<1>4. start(0) = 0
  <2>1. q * 0 = 0 /\ 0 \in 0..cores /\ 0 <= r
    BY <1>1
  <2> QED BY <1>3, <2>1
<1>5. ASSUME NEW n \in 0..cores - 1
      PROVE  start(n) \in Nat /\ start(n + 1) \in Nat /\ start(n) <= start(n + 1)
  <2>1. n \in 0..cores /\ n + 1 \in 0..cores /\ n \in Nat
    OBVIOUS
  <2>2. q * (n + 1) = q * n + q /\ q * n \in Nat /\ q \in Nat /\ r \in Nat
    BY <1>1, <1>3, <2>1
  <2>3. Min({n, r}) = (IF n <= r THEN n ELSE r) /\ Min({n + 1, r}) = IF n + 1 <= r THEN n + 1 ELSE r
    BY <1>3, <2>1
  <2> QED BY <2>1, <2>2, <2>3
<1>6. start(cores) = size
  <2>1. cores \in 0..cores /\ ~(cores <= r) /\ q * cores = cores * q
    BY <1>1
  <2>2. Min({cores, r}) = r
    BY <1>3, <2>1
  <2> QED BY <1>1, <2>1, <2>2
<1> HIDE DEF start
<1>7. \A n \in 0..cores : b[n] = start(n)
  BY <1>6
<1>8. \A k \in 1..cores : b[k - 1] \in Nat /\ b[k] \in Nat /\ b[k - 1] <= b[k]
  <2> TAKE k \in 1..cores
  <2> DEFINE n == k - 1
  <2>1. n \in 0..cores - 1 /\ n + 1 = k /\ k \in 0..cores /\ n \in 0..cores
    OBVIOUS
  <2> HIDE DEF n, b
  <2>2. start(n) \in Nat /\ start(n + 1) \in Nat /\ start(n) <= start(n + 1)
    BY <1>5, <2>1
  <2> QED BY <1>7, <2>1, <2>2 DEF n
<1>9. \A k \in 0..cores : b[k] \in 0..size
  <2> DEFINE Good == {m \in Nat : m <= cores => b[cores - m] \in 0..size}
  <2> HIDE DEF b
  <2>1. 0 \in Good
    <3>1. cores - 0 = cores /\ cores \in 0..cores
      OBVIOUS
    <3> QED BY <1>6, <1>7, <3>1
  <2>2. ASSUME NEW m \in Good PROVE m + 1 \in Good
    <3> SUFFICES ASSUME m + 1 <= cores PROVE b[cores - (m + 1)] \in 0..size
      OBVIOUS
    <3>1. m <= cores /\ cores - m \in 1..cores /\ (cores - m) - 1 = cores - (m + 1)
      OBVIOUS
    <3>2. b[cores - m] \in 0..size
      BY <3>1
    <3>3. b[(cores - m) - 1] \in Nat /\ b[(cores - m) - 1] <= b[cores - m]
      BY <1>8, <3>1
    <3> QED BY <3>1, <3>2, <3>3
  <2>3. Good \in SUBSET Nat
    OBVIOUS
  <2> HIDE DEF Good
  <2>4. \A m \in Nat : m \in Good
    BY <2>1, <2>2, <2>3, FromPrevious
  <2>5. ASSUME NEW k \in 0..cores PROVE b[k] \in 0..size
    <3>1. cores - k \in Nat /\ cores - (cores - k) = k /\ cores - k <= cores
      OBVIOUS
    <3>2. cores - k \in Good
      BY <2>4, <3>1
    <3>3. b[cores - (cores - k)] \in 0..size
      BY <3>1, <3>2 DEF Good
    <3> QED BY <3>1, <3>3
  <2> QED BY <2>5
<1>10. ASSUME NEW n \in 1..cores PROVE ChunkOf(size, cores, n - 1) = b[n - 1] + 1..b[n]
  <2>1. n - 1 \in 0..cores /\ n \in 0..cores /\ (n - 1) + 1 = n /\ (n - 1 = cores - 1 <=> n = cores)
    OBVIOUS
  <2>2. b[n - 1] = ChunkStart(size, cores, n - 1)
    BY <1>2, <1>7, <2>1
  <2>3. b[n] = IF n - 1 = cores - 1 THEN size ELSE ChunkStart(size, cores, (n - 1) + 1)
    <3>1. CASE n = cores
      BY <3>1, <2>1
    <3>2. CASE n # cores
      BY <1>2, <1>7, <2>1, <3>2
    <3> QED BY <3>1, <3>2
  <2> HIDE DEF b
  <2> QED BY <2>2, <2>3 DEF ChunkOf
<1>11. b = [n \in 0..cores |-> b[n]] /\ 0 \in 0..cores /\ cores \in 0..cores
  OBVIOUS
<1> HIDE DEF b
<1>12. b[0] = 0 /\ b[cores] = size
  BY <1>4, <1>6, <1>7, <1>11
<1>13. b \in [0..cores -> 0..size]
  BY <1>9, <1>11
<1>14. _Parallel_reduce_random_executor(size, cores) = [n \in 1..cores |-> b[n - 1] + 1..b[n]]
  BY <1>10 DEF _Parallel_reduce_random_executor
<1>15. ChunksOf(_Parallel_reduce_random_executor(size, cores), cores, size, b)
  BY <1>8, <1>12, <1>13, <1>14 DEF ChunksOf
<1> QED BY <1>15

(* and those of _Parallel_reduce_forward_executor, of BatchSize elements,  *)
(* follow each other without a gap.                                        *)
LEMMA ForwardChunks ==
    ASSUME NEW size \in Nat, size > 0
    PROVE  LET n == (size + BatchSize - 1) \div BatchSize
           IN  n \in Nat /\ n > 0
               /\ \E b : ChunksOf(_Parallel_reduce_forward_executor(size), n, size, b)
<1> DEFINE x == size + BatchSize - 1
           n == x \div BatchSize
           r == x % BatchSize
           b == [k \in 0..n |-> Min({k * BatchSize, size})]
<1>1. BatchSize \in Nat /\ BatchSize > 0
  BY AlgorithmsAssumption
<1>2. x \in Nat /\ x = size + (BatchSize - 1)
  BY <1>1
<1>3. n \in Nat /\ r \in 0..(BatchSize - 1) /\ x = BatchSize * n + r
  <2> HIDE DEF x
  <2> QED BY <1>1, <1>2, DivModIs
<1> HIDE DEF x, n, r
<1>4. \A k \in Nat : k * BatchSize = BatchSize * k /\ BatchSize * k \in Nat
                     /\ BatchSize * (k + 1) = BatchSize * k + BatchSize
  BY <1>1
<1>5. n > 0
  <2>1. CASE n = 0
    <3>1. BatchSize * n = 0
      BY <1>1, <2>1
    <3>2. x = r
      BY <1>3, <3>1
    <3> QED BY <1>1, <1>2, <1>3, <3>2
  <2> QED BY <1>3, <2>1
<1> DEFINE P(k) == BatchSize * k
<1>a. /\ P(0) = 0 /\ x = P(n) + r
      /\ \A k \in Nat : k * BatchSize = P(k) /\ P(k) \in Nat /\ P(k + 1) = P(k) + BatchSize
      /\ \A k \in 0..n : P(k) <= P(n)
  <2>1. P(0) = 0 /\ x = P(n) + r
    BY <1>1, <1>3
  <2>2. ASSUME NEW k \in 0..n PROVE P(k) <= P(n)
    <3>1. k \in Int /\ n \in Int /\ k <= n
      BY <1>3
    <3> QED BY <1>1, <3>1, ProductOrder
  <2> QED BY <1>4, <2>1, <2>2
<1> HIDE DEF P
<1>6. ASSUME NEW k \in 0..n
      PROVE  /\ b[k] = IF P(k) <= size THEN P(k) ELSE size
             /\ b[k] = Min({k * BatchSize, size})
             /\ b[k] \in 0..size
  <2>1. k * BatchSize = P(k) /\ P(k) \in Nat
    BY <1>a
  <2>2. b[k] = Min({k * BatchSize, size})
    OBVIOUS
  <2> HIDE DEF b
  <2>3. Min({P(k), size}) = IF P(k) <= size THEN P(k) ELSE size
    BY <2>1, MinOfTwo
  <2> QED BY <2>1, <2>2, <2>3
<1>7. b = [k \in 0..n |-> b[k]]
  OBVIOUS
<1> HIDE DEF b
<1>8. b[0] = 0
  <2>1. 0 \in 0..n /\ P(0) <= size
    BY <1>3, <1>a
  <2> QED BY <1>6, <1>a, <2>1
<1>9. b[n] = size
  <2>1. n \in 0..n /\ P(n) \in Nat
    BY <1>3, <1>a
  <2>2. P(n) >= size
    BY <1>1, <1>2, <1>3, <1>a, <2>1
  <2>3. b[n] = IF P(n) <= size THEN P(n) ELSE size
    BY <1>6, <2>1
  <2> QED BY <2>1, <2>2, <2>3
<1>10. ASSUME NEW k \in 1..n
       PROVE  b[k - 1] <= b[k] /\ b[k - 1] = (k - 1) * BatchSize
  <2> DEFINE m == k - 1
  <2>1. m \in Nat /\ k = m + 1 /\ m \in 0..n /\ k \in 0..n
    BY <1>3
  <2> HIDE DEF m
  <2>2. P(m + 1) = P(m) + BatchSize /\ P(m) \in Nat /\ m * BatchSize = P(m) /\ P(m + 1) <= P(n)
        /\ P(n) \in Nat
    BY <1>3, <1>a, <2>1
  <2>3. P(m) <= size
    BY <1>1, <1>2, <1>3, <1>a, <2>2
  <2>4. b[m] = P(m)
    BY <1>6, <2>1, <2>3
  <2>5. b[m + 1] = IF P(m + 1) <= size THEN P(m + 1) ELSE size
    BY <1>6, <2>1
  <2>6. b[m] <= b[m + 1]
    BY <1>1, <2>2, <2>3, <2>4, <2>5
  <2> QED BY <2>1, <2>2, <2>4, <2>6 DEF m
<1>11. ASSUME NEW k \in 1..n PROVE ForwardChunk(size, k - 1) = b[k - 1] + 1..b[k]
  <2>1. (k - 1) + 1 = k /\ k \in 0..n
    OBVIOUS
  <2> QED BY <1>6, <1>10, <2>1 DEF ForwardChunk
<1>12. _Parallel_reduce_forward_executor(size) = [k \in 1..n |-> b[k - 1] + 1..b[k]]
  BY <1>11 DEF _Parallel_reduce_forward_executor, n, x
<1>13. ChunksOf(_Parallel_reduce_forward_executor(size), n, size, b)
  <2>1. b \in [0..n -> 0..size]
    BY <1>6, <1>7
  <2> QED BY <1>8, <1>9, <1>10, <1>12, <2>1 DEF ChunksOf
<1> QED BY <1>3, <1>5, <1>13 DEF n, x

(* parallel_reduce applies its function to all elements in their order.    *)
LEMMA ReduceJoins ==
    ASSUME NEW s \in Seq(Seq(Int)), NEW cores \in Nat \ {0}, NEW forward
    PROVE  parallel_reduce(s, cores, forward, <<>>) = FlattenSeq(s)
<1> DEFINE size == Len(s)
<1>1. size \in Nat
  OBVIOUS
<1>2. FlattenSeq(s) = Joined(s, size)
  BY FlattenIsJoined
<1>3. CASE s = <<>>
  <2>1. size = 0
    BY <1>3
  <2>2. FlattenSeq(s) = <<>>
    BY <1>2, <2>1, JoinedNext
  <2> QED BY <1>3, <2>2 DEF parallel_reduce
<1>4. CASE s # <<>> /\ forward
  <2>1. size > 0
    BY <1>4
  <2>2. parallel_reduce(s, cores, forward, <<>>)
           = _Parallel_reduce_impl(s, _Parallel_reduce_forward_executor(size), <<>>)
    BY <1>4 DEF parallel_reduce
  <2> DEFINE n == (size + BatchSize - 1) \div BatchSize
             chunks == _Parallel_reduce_forward_executor(size)
  <2>3. n \in Nat /\ n > 0 /\ \E b : ChunksOf(chunks, n, size, b)
    <3> HIDE DEF size
    <3> QED BY <1>1, <2>1, ForwardChunks
  <2> HIDE DEF n, chunks
  <2>4. PICK b : ChunksOf(chunks, n, size, b)
    BY <2>3
  <2>5. _Parallel_reduce_impl(s, chunks, <<>>) = Joined(s, size)
    BY <2>3, <2>4, ReduceImplJoins
  <2> QED BY <1>2, <2>2, <2>5 DEF chunks
<1>5. CASE s # <<>> /\ ~forward /\ size = 1
  <2> DEFINE chunks == <<{1}>>
             b == [k \in 0..1 |-> k]
  <2>1. parallel_reduce(s, cores, forward, <<>>) = _Parallel_reduce_impl(s, chunks, <<>>)
    BY <1>5 DEF parallel_reduce
  <2>2. ChunksOf(chunks, 1, size, b)
    <3>1. chunks = [k \in 1..1 |-> b[k - 1] + 1..b[k]]
      <4>1. \A k \in 1..1 : b[k - 1] + 1..b[k] = {1}
        OBVIOUS
      <4>2. chunks = [k \in 1..1 |-> {1}]
        OBVIOUS
      <4> HIDE DEF chunks, b
      <4> QED BY <4>1, <4>2
    <3> QED BY <1>5, <3>1 DEF ChunksOf
  <2> HIDE DEF chunks, b
  <2>3. _Parallel_reduce_impl(s, chunks, <<>>) = Joined(s, size)
    <3>1. 1 \in Nat /\ 1 > 0
      OBVIOUS
    <3> QED BY <2>2, <3>1, ReduceImplJoins
  <2> QED BY <1>2, <2>1, <2>3
<1>6. CASE s # <<>> /\ ~forward /\ size # 1
  <2> DEFINE chunks == _Parallel_reduce_random_executor(size, cores)
  <2>1. parallel_reduce(s, cores, forward, <<>>) = _Parallel_reduce_impl(s, chunks, <<>>)
    BY <1>6 DEF parallel_reduce
  <2>2. PICK b : ChunksOf(chunks, cores, size, b)
    <3> HIDE DEF size
    <3> QED BY <1>1, RandomChunks
  <2> HIDE DEF chunks
  <2>3. _Parallel_reduce_impl(s, chunks, <<>>) = Joined(s, size)
    <3>1. cores \in Nat /\ cores > 0
      OBVIOUS
    <3> QED BY <2>2, <3>1, ReduceImplJoins
  <2> QED BY <1>2, <2>1, <2>3
<1> QED BY <1>3, <1>4, <1>5, <1>6

-----------------------------------------------------------------------------
(* The partial sum that sums pairs, then every second place, then the      *)
(* places in between.                                                      *)

(* The k-th of the places that are skip apart.                             *)
At(begin, skip, k) == begin + k * skip

(* How the places with twice the distance lie among those of one,          *)
LEMMA AtIs ==
    ASSUME NEW begin \in Nat, NEW skip \in Nat, skip > 0
    PROVE  /\ \A k \in Nat : At(begin, skip, k) \in Nat /\ At(begin, skip, k) >= begin
           /\ At(begin, skip, 0) = begin
           /\ \A k \in Nat : At(begin, skip, k + 1) = At(begin, skip, k) + skip
           /\ \A j, k \in Nat : j < k <=> At(begin, skip, j) < At(begin, skip, k)
           /\ \A k \in Nat : begin + k * 2 * skip + skip = At(begin, skip, 2 * k + 1)
           /\ \A k \in Nat : begin + k * 2 * skip + 2 * skip = At(begin, skip, 2 * k + 2)
           /\ \A k \in Nat : At(begin + skip, skip * 2, k) = At(begin, skip, 2 * k + 1)
<1> DEFINE M(k) == skip * k
<1>1. ASSUME NEW k \in Nat
      PROVE  /\ M(k) \in Nat /\ k * skip = M(k) /\ M(k + 1) = M(k) + skip
             /\ M(2 * k) = 2 * M(k) /\ k * 2 * skip = 2 * M(k) /\ k * (skip * 2) = 2 * M(k)
  OBVIOUS
<1>2. \A j, k \in Nat : j < k <=> M(j) < M(k)
  BY ProductOrder
<1>3. \A k \in Nat : At(begin, skip, k) = begin + M(k)
  BY <1>1 DEF At
<1>4. M(0) = 0
  OBVIOUS
<1>5. \A k \in Nat : At(begin + skip, skip * 2, k) = begin + skip + 2 * M(k)
  BY <1>1 DEF At
<1>6. \A k \in Nat : M(2 * k + 1) = 2 * M(k) + skip /\ M(2 * k + 2) = 2 * M(k) + 2 * skip
  <2> TAKE k \in Nat
  <2> DEFINE j == 2 * k
  <2>1. j \in Nat /\ j + 1 \in Nat /\ (j + 1) + 1 = 2 * k + 2
    OBVIOUS
  <2> HIDE DEF j, M
  <2>2. M(j + 1) = M(j) + skip /\ M((j + 1) + 1) = M(j + 1) + skip
    BY <1>1, <2>1
  <2>3. M(j) = 2 * M(k) /\ M(k) \in Nat
    BY <1>1 DEF j
  <2> QED BY <2>1, <2>2, <2>3 DEF j
<1>7. ASSUME NEW k \in Nat
      PROVE  /\ k * skip = M(k) /\ k * 2 * skip = 2 * M(k) /\ M(k) \in Nat /\ M(k + 1) = M(k) + skip
             /\ k + 1 \in Nat /\ 2 * k + 1 \in Nat /\ 2 * k + 2 \in Nat
  BY <1>1
<1> DEFINE N2(k) == k * 2 * skip
<1>8. \A k \in Nat : N2(k) = 2 * M(k)
  BY <1>7
<1> HIDE DEF M, N2
<1>9. ASSUME NEW k \in Nat
      PROVE  /\ At(begin, skip, k) \in Nat /\ At(begin, skip, k) >= begin
             /\ At(begin, skip, k + 1) = At(begin, skip, k) + skip
             /\ begin + N2(k) + skip = At(begin, skip, 2 * k + 1)
             /\ begin + N2(k) + 2 * skip = At(begin, skip, 2 * k + 2)
             /\ At(begin + skip, skip * 2, k) = At(begin, skip, 2 * k + 1)
  <2>1. M(k) \in Nat /\ N2(k) = 2 * M(k) /\ M(k + 1) = M(k) + skip
    BY <1>7, <1>8
  <2>2. M(2 * k + 1) = 2 * M(k) + skip /\ M(2 * k + 2) = 2 * M(k) + 2 * skip
    BY <1>6
  <2>3. /\ At(begin, skip, k) = begin + M(k) /\ At(begin, skip, k + 1) = begin + M(k + 1)
        /\ At(begin, skip, 2 * k + 1) = begin + M(2 * k + 1)
        /\ At(begin, skip, 2 * k + 2) = begin + M(2 * k + 2)
        /\ At(begin + skip, skip * 2, k) = begin + skip + 2 * M(k)
    BY <1>3, <1>5, <1>7
  <2> QED BY <2>1, <2>2, <2>3
<1>10. \A j, k \in Nat : j < k <=> At(begin, skip, j) < At(begin, skip, k)
  <2> TAKE j, k \in Nat
  <2>1. M(j) \in Nat /\ M(k) \in Nat /\ (j < k <=> M(j) < M(k))
    BY <1>2, <1>7
  <2> QED BY <1>3, <2>1
<1>11. At(begin, skip, 0) = begin
  BY <1>3, <1>4
<1> QED BY <1>9, <1>10, <1>11 DEF N2

HasSteps(begin, skip) ==
    /\ \A k \in Nat : At(begin, skip, k) \in Nat /\ At(begin, skip, k) >= begin
    /\ At(begin, skip, 0) = begin
    /\ \A k \in Nat : At(begin, skip, k + 1) = At(begin, skip, k) + skip
    /\ \A j, k \in Nat : j < k <=> At(begin, skip, j) < At(begin, skip, k)

(* The places of a call follow each other.                                 *)
LEMMA AtSteps ==
    ASSUME NEW begin \in Nat, NEW skip \in Nat, skip > 0
    PROVE  HasSteps(begin, skip)
BY AtIs DEF HasSteps

PairAt(begin, skip, after, k) == begin + k * 2 * skip + after

(* The place of the k-th pair.                                             *)
LEMMA AtPairs ==
    ASSUME NEW begin \in Nat, NEW skip \in Nat, skip > 0, NEW k \in Nat
    PROVE  /\ PairAt(begin, skip, skip, k) = At(begin, skip, 2 * k + 1)
           /\ PairAt(begin, skip, 2 * skip, k) = At(begin, skip, 2 * k + 2)
           /\ At(begin + skip, skip * 2, k) = At(begin, skip, 2 * k + 1)
BY AtIs DEF PairAt

ArePairs(a, r, begin, skip, d, n) ==
    /\ r \in Seq(Seq(Int)) /\ Len(r) = Len(a)
    /\ \A k \in 0..n - 1 : At(begin, skip, 2 * k + d) \in 1..Len(a) =>
          r[At(begin, skip, 2 * k + d)]
             = a[At(begin, skip, (2 * k + d) - 1)] \o a[At(begin, skip, 2 * k + d)]
    /\ \A i \in 1..Len(a) :
          (\A k \in 0..n - 1 : i # At(begin, skip, 2 * k + d)) => r[i] = a[i]

(* One pass over the pairs adds to each second of a pair its first.        *)
LEMMA PairsAre ==
    ASSUME NEW a \in Seq(Seq(Int)), NEW begin \in Nat, NEW skip \in Nat, begin > 0, skip > 0,
           NEW d \in 1..2, NEW after \in Nat, after = (IF d = 1 THEN skip ELSE 2 * skip), NEW n \in Nat
    PROVE  ArePairs(a, PairsSummed(a, begin, skip, after, n), begin, skip, d, n)
<1> DEFINE P(k) == At(begin, skip, k)
           r == PairsSummed(a, begin, skip, after, n)
           Is(i) == \E k \in 0..n - 1 : i = P(2 * k + d)
<1>1. ASSUME NEW k \in Nat
      PROVE  /\ PairAt(begin, skip, after, k) = P(2 * k + d)
             /\ P(2 * k + d) - skip = P((2 * k + d) - 1)
             /\ P((2 * k + d) - 1) \in Nat /\ P((2 * k + d) - 1) >= begin
  <2>1. PairAt(begin, skip, after, k) = P(2 * k + d)
    <3>1. CASE d = 1
      <4>1. PairAt(begin, skip, skip, k) = At(begin, skip, 2 * k + 1)
        BY AtPairs
      <4> QED BY <3>1, <4>1
    <3>2. CASE d = 2
      <4>1. PairAt(begin, skip, 2 * skip, k) = At(begin, skip, 2 * k + 2)
        BY AtPairs
      <4> QED BY <3>2, <4>1
    <3> QED BY <3>1, <3>2
  <2> DEFINE j == (2 * k + d) - 1
  <2>2. j \in Nat /\ j + 1 = 2 * k + d
    OBVIOUS
  <2> HIDE DEF j
  <2>3. P(j + 1) = P(j) + skip /\ P(j) \in Nat /\ P(j) >= begin
    <3>1. j \in Nat
      BY <2>2
    <3> HIDE DEF P
    <3>2. HasSteps(begin, skip)
      BY AtSteps
    <3>3. \A i \in Nat : P(i) \in Nat /\ P(i) >= begin /\ P(i + 1) = P(i) + skip
      BY <3>2 DEF HasSteps, P
    <3> QED BY <3>1, <3>3
  <2>4. P(2 * k + d) - skip = P(j)
    BY <2>2, <2>3
  <2> QED BY <2>1, <2>3, <2>4 DEF j
<1> HIDE DEF P
<1>b. \A k \in 0..n - 1 : /\ P(2 * k + d) - skip = P((2 * k + d) - 1)
                          /\ P((2 * k + d) - 1) \in Nat /\ P((2 * k + d) - 1) >= begin
  <2> TAKE k \in 0..n - 1
  <2>1. k \in Nat
    OBVIOUS
  <2> QED BY <1>1, <2>1
<1>2. r = [i \in 1..Len(a) |-> IF Is(i) THEN a[i - skip] \o a[i] ELSE a[i]]
  <2>1. DOMAIN a = 1..Len(a)
    OBVIOUS
  <2>2. \A k \in 0..n - 1 : PairAt(begin, skip, after, k) = P(2 * k + d)
    BY <1>1
  <2>3. \A i : Is(i) <=> \E k \in 0..n - 1 : i = PairAt(begin, skip, after, k)
    BY <2>2
  <2> HIDE DEF Is
  <2> QED BY <2>1, <2>3 DEF PairsSummed, PairAt
<1>3. ASSUME NEW i \in 1..Len(a), Is(i) PROVE i - skip \in 1..Len(a)
  <2>1. PICK k \in 0..n - 1 : i = P(2 * k + d)
    BY <1>3
  <2>2. i - skip \in Nat /\ i - skip >= begin
    <3> HIDE DEF Is, r
    <3> QED BY <1>b, <2>1
  <2> QED BY <2>2
<1> HIDE DEF Is, r
<1>4. \A i \in 1..Len(a) : r[i] = IF Is(i) THEN a[i - skip] \o a[i] ELSE a[i]
  BY <1>2
<1>5. r \in Seq(Seq(Int)) /\ Len(r) = Len(a)
  <2>1. ASSUME NEW i \in 1..Len(a) PROVE r[i] \in Seq(Int)
    <3>1. CASE Is(i)
      <4> DEFINE x == a[i - skip]
                 y == a[i]
      <4>1. x \in Seq(Int) /\ y \in Seq(Int)
        <5>1. i - skip \in 1..Len(a)
          BY <1>3, <3>1
        <5> QED BY <5>1
      <4>2. r[i] = x \o y
        BY <1>4, <3>1
      <4> HIDE DEF x, y
      <4> QED BY <4>1, <4>2, Concatenated
    <3>2. CASE ~Is(i)
      <4>1. r[i] = a[i] /\ a[i] \in Seq(Int)
        BY <1>4, <3>2
      <4> QED BY <4>1
    <3> QED BY <3>1, <3>2
  <2>2. r = [i \in 1..Len(a) |-> r[i]] /\ Len(a) \in Nat
    BY <1>2
  <2> QED BY <2>1, <2>2
<1>6. ASSUME NEW k \in 0..n - 1, P(2 * k + d) \in 1..Len(a)
      PROVE  r[P(2 * k + d)] = a[P((2 * k + d) - 1)] \o a[P(2 * k + d)]
  <2>1. Is(P(2 * k + d))
    BY DEF Is
  <2>2. P(2 * k + d) - skip = P((2 * k + d) - 1)
    BY <1>b
  <2> QED BY <1>4, <1>6, <2>1, <2>2
<1>7. ASSUME NEW i \in 1..Len(a), \A k \in 0..n - 1 : i # P(2 * k + d)
      PROVE  r[i] = a[i]
  <2>1. ~Is(i)
    BY <1>7 DEF Is
  <2> QED BY <1>4, <2>1
<1> QED BY <1>5, <1>6, <1>7 DEF ArePairs, P, r

(* One size of the recursion of parallel_partial_sum_impl_recursive.       *)
ScanRow(g, size) ==
    [p \in Seq(Seq(Int)) \X Nat \X Nat |->
        IF size <= 1 THEN p[1]
        ELSE PairsSummed(g[size \div 2][<<PairsSummed(p[1], p[2], p[3], p[3], size \div 2),
                                           p[2] + p[3], p[3] * 2>>],
                         p[2], p[3], 2 * p[3],
                         IF size % 2 = 0 THEN size \div 2 - 1 ELSE size \div 2)]

(* The halves of a number.                                                 *)
LEMMA HalfIs == ASSUME NEW m \in Nat, m > 1
                PROVE  /\ m \div 2 \in Nat /\ m \div 2 >= 1 /\ m \div 2 < m
                       /\ m = 2 * (m \div 2) + (IF m % 2 = 0 THEN 0 ELSE 1)
OBVIOUS

(* There is a function with that equation, so the recursion is defined.    *)
LEMMA ScanExists ==
    ASSUME NEW n \in Nat
    PROVE  \E g : g = [size \in 0..n |-> ScanRow(g, size)]
<1> DEFINE S == {m \in Nat : \E g : g = [size \in 0..m |-> ScanRow(g, size)]}
<1>0. ASSUME NEW f, NEW g, NEW m \in Nat, m > 1 => f[m \div 2] = g[m \div 2]
      PROVE  ScanRow(f, m) = ScanRow(g, m)
  <2>1. CASE m <= 1
    <3> DEFINE D == Seq(Seq(Int)) \X Nat \X Nat
    <3> HIDE DEF D
    <3>1. \A h : ScanRow(h, m) = [p \in D |-> p[1]]
      BY <2>1 DEF ScanRow, D
    <3> QED BY <3>1
  <2>2. CASE m > 1
    <3>1. f[m \div 2] = g[m \div 2]
      BY <1>0, <2>2
    <3> QED BY <3>1 DEF ScanRow
  <2> QED BY <2>1, <2>2
<1>1. 0 \in S
  <2> DEFINE g == [size \in 0..0 |-> ScanRow({}, 0)]
  <2>1. ScanRow(g, 0) = ScanRow({}, 0)
    <3> HIDE DEF g
    <3> QED BY <1>0
  <2>2. \A size \in 0..0 : size = 0
    OBVIOUS
  <2>3. g = [size \in 0..0 |-> ScanRow(g, size)]
    BY <2>1, <2>2
  <2> QED BY <2>3
<1>2. ASSUME NEW m \in S PROVE m + 1 \in S
  <2>1. PICK g : g = [size \in 0..m |-> ScanRow(g, size)]
    BY <1>2
  <2> DEFINE f == [size \in 0..m + 1 |-> IF size = m + 1 THEN ScanRow(g, size) ELSE g[size]]
  <2>2. ASSUME NEW k \in 0..m + 1 PROVE f[k] = ScanRow(f, k)
    <3>1. k > 1 => f[k \div 2] = g[k \div 2]
      <4> SUFFICES ASSUME k > 1 PROVE f[k \div 2] = g[k \div 2]
        OBVIOUS
      <4>1. k \div 2 \in Nat /\ k \div 2 < k
        BY HalfIs
      <4>2. k \div 2 \in 0..m + 1 /\ k \div 2 # m + 1
        BY <1>2, <4>1
      <4> QED BY <4>2
    <3>2. f[k] = ScanRow(g, k)
      BY <2>1
    <3> HIDE DEF f
    <3>3. ScanRow(f, k) = ScanRow(g, k)
      BY <1>0, <3>1
    <3> QED BY <3>2, <3>3
  <2> HIDE DEF f
  <2>3. f = [k \in 0..m + 1 |-> f[k]]
    BY DEF f
  <2>4. f = [k \in 0..m + 1 |-> ScanRow(f, k)]
    BY <2>2, <2>3
  <2> QED BY <2>4
<1>3. S \in SUBSET Nat
  OBVIOUS
<1> HIDE DEF S
<1>4. n \in S
  BY <1>1, <1>2, <1>3, FromPrevious
<1> QED BY <1>4 DEF S

(* What the partial sum leaves at the places it is given, and elsewhere.   *)
IsScan(a, r, begin, skip, size) ==
    /\ r \in Seq(Seq(Int)) /\ Len(r) = Len(a)
    /\ size > 0 => r[At(begin, skip, 0)] = a[At(begin, skip, 0)]
    /\ \A k \in 1..size - 1 :
          r[At(begin, skip, k)] = r[At(begin, skip, k - 1)] \o a[At(begin, skip, k)]
    /\ \A i \in 1..Len(a) : (\A k \in 0..size - 1 : i # At(begin, skip, k)) => r[i] = a[i]

ScanInput(a, begin, skip, size) ==
    /\ a \in Seq(Seq(Int)) /\ begin \in Nat /\ skip \in Nat /\ begin > 0 /\ skip > 0
    /\ \A k \in 0..size - 1 : At(begin, skip, k) <= Len(a)

(* The pairs, the recursion over every second place and the places in      *)
(* between make the partial sum.                                           *)
LEMMA ScanStep ==
    ASSUME NEW a, NEW begin \in Nat, NEW skip \in Nat, NEW size \in Nat, size > 1,
           ScanInput(a, begin, skip, size), NEW half \in Nat, NEW n \in Nat, half > 0,
           \/ size = 2 * half /\ n = half - 1
           \/ size = 2 * half + 1 /\ n = half,
           NEW pairs, pairs = PairsSummed(a, begin, skip, skip, half), NEW inner,
           IsScan(pairs, inner, begin + skip, skip * 2, half)
    PROVE  IsScan(a, PairsSummed(inner, begin, skip, 2 * skip, n), begin, skip, size)
<1> DEFINE P(k) == At(begin, skip, k)
           N == Len(a)
           r == PairsSummed(inner, begin, skip, 2 * skip, n)
<1>1. /\ \A k \in Nat : P(k) \in Nat /\ P(k) >= begin
      /\ \A j, k \in Nat : j < k <=> P(j) < P(k)
      /\ begin > 0 /\ skip > 0 /\ N \in Nat /\ a \in Seq(Seq(Int))
      /\ \A k \in 0..size - 1 : P(k) \in 1..N
  <2>1. begin > 0 /\ skip > 0 /\ N \in Nat /\ a \in Seq(Seq(Int))
    BY DEF ScanInput
  <2>2. /\ \A k \in Nat : P(k) \in Nat /\ P(k) >= begin
        /\ \A j, k \in Nat : j < k <=> P(j) < P(k)
    BY <2>1, AtSteps DEF HasSteps
  <2>3. ASSUME NEW k \in 0..size - 1 PROVE P(k) \in 1..N
    <3>1. P(k) <= N
      BY DEF ScanInput
    <3> HIDE DEF P
    <3>2. P(k) \in Nat /\ P(k) >= begin
      BY <2>2
    <3> QED BY <2>1, <3>1, <3>2
  <2> QED BY <2>1, <2>2, <2>3
<1>2. /\ pairs \in Seq(Seq(Int)) /\ Len(pairs) = N
      /\ \A k \in 0..half - 1 : P(2 * k + 1) \in 1..N =>
            pairs[P(2 * k + 1)] = a[P((2 * k + 1) - 1)] \o a[P(2 * k + 1)]
      /\ \A i \in 1..N : (\A k \in 0..half - 1 : i # P(2 * k + 1)) => pairs[i] = a[i]
  <2> DEFINE d == 1
  <2>1. d \in 1..2 /\ skip = (IF d = 1 THEN skip ELSE 2 * skip)
    OBVIOUS
  <2> HIDE DEF d
  <2>2. ArePairs(a, pairs, begin, skip, d, half)
    <3> HIDE DEF P, N
    <3> QED BY <1>1, <2>1, PairsAre
  <2> QED BY <2>2 DEF d, ArePairs
<1>3. /\ inner \in Seq(Seq(Int)) /\ Len(inner) = N
      /\ inner[P(1)] = pairs[P(1)]
      /\ \A k \in 1..half - 1 : inner[P(2 * k + 1)] = inner[P(2 * k - 1)] \o pairs[P(2 * k + 1)]
      /\ \A i \in 1..N : (\A k \in 0..half - 1 : i # P(2 * k + 1)) => inner[i] = pairs[i]
  <2>1. \A k \in Nat : At(begin + skip, skip * 2, k) = P(2 * k + 1)
    BY <1>1, AtPairs
  <2>2. \A k \in 1..half - 1 : k - 1 \in Nat /\ k \in Nat /\ 2 * (k - 1) + 1 = 2 * k - 1
    OBVIOUS
  <2>3. 2 * 0 + 1 = 1 /\ 0 \in Nat
    OBVIOUS
  <2>4. inner[P(1)] = pairs[P(1)]
    BY <2>1, <2>3 DEF IsScan
  <2>5. ASSUME NEW k \in 1..half - 1
        PROVE  inner[P(2 * k + 1)] = inner[P(2 * k - 1)] \o pairs[P(2 * k + 1)]
    <3> DEFINE Q(j) == At(begin + skip, skip * 2, j)
    <3>1. inner[Q(k)] = inner[Q(k - 1)] \o pairs[Q(k)]
      BY DEF IsScan
    <3>2. Q(k) = P(2 * k + 1) /\ Q(k - 1) = P(2 * k - 1)
      <4> HIDE DEF P
      <4>1. Q(k) = P(2 * k + 1) /\ Q(k - 1) = P(2 * (k - 1) + 1)
        BY <2>1, <2>2
      <4> QED BY <2>2, <4>1
    <3> QED BY <3>1, <3>2
  <2>6. ASSUME NEW i \in 1..N, \A k \in 0..half - 1 : i # P(2 * k + 1)
        PROVE  inner[i] = pairs[i]
    <3>1. \A k \in 0..half - 1 : i # At(begin + skip, skip * 2, k)
      BY <2>1, <2>6
    <3> HIDE DEF P
    <3> QED BY <1>2, <3>1 DEF IsScan
  <2> QED BY <1>2, <2>4, <2>5, <2>6 DEF IsScan
<1>4. /\ r \in Seq(Seq(Int)) /\ Len(r) = N
      /\ \A k \in 0..n - 1 : P(2 * k + 2) \in 1..N =>
            r[P(2 * k + 2)] = inner[P((2 * k + 2) - 1)] \o inner[P(2 * k + 2)]
      /\ \A i \in 1..N : (\A k \in 0..n - 1 : i # P(2 * k + 2)) => r[i] = inner[i]
  <2> DEFINE d == 2
             after == 2 * skip
  <2>1. d \in 1..2 /\ after = (IF d = 1 THEN skip ELSE 2 * skip) /\ after \in Nat
    OBVIOUS
  <2> HIDE DEF d, after
  <2>2. ArePairs(inner, PairsSummed(inner, begin, skip, after, n), begin, skip, d, n)
    <3> HIDE DEF P, N
    <3> QED BY <1>1, <1>3, <2>1, PairsAre
  <2> QED BY <1>3, <2>2 DEF d, after, ArePairs
<1> HIDE DEF P, r, N
<1>5. \A j, k \in Nat : P(j) = P(k) => j = k
  <2> TAKE j, k \in Nat
  <2> SUFFICES ASSUME P(j) = P(k) PROVE j = k
    OBVIOUS
  <2>1. ~(j < k) /\ ~(k < j)
    BY <1>1
  <2> QED BY <2>1
<1>6. ASSUME NEW j \in Nat, 2 * j \in 0..size - 1
      PROVE  inner[P(2 * j)] = a[P(2 * j)]
  <2>1. \A k \in 0..half - 1 : P(2 * j) # P(2 * k + 1)
    <3> TAKE k \in 0..half - 1
    <3>1. 2 * j \in Nat /\ 2 * k + 1 \in Nat /\ 2 * j # 2 * k + 1
      OBVIOUS
    <3> QED BY <1>5, <3>1
  <2>2. P(2 * j) \in 1..N
    BY <1>1, <1>6
  <2> QED BY <1>2, <1>3, <2>1, <2>2
<1>7. ASSUME NEW i \in 1..N, \A k \in 0..n - 1 : i # P(2 * k + 2) PROVE r[i] = inner[i]
  BY <1>4, <1>7
<1>8. r[P(0)] = a[P(0)]
  <2>1. \A k \in 0..n - 1 : P(0) # P(2 * k + 2)
    <3> TAKE k \in 0..n - 1
    <3>1. 0 \in Nat /\ 2 * k + 2 \in Nat /\ 0 # 2 * k + 2
      OBVIOUS
    <3> QED BY <1>5, <3>1
  <2>2. P(0) \in 1..N
    BY <1>1
  <2>3. r[P(0)] = inner[P(0)]
    BY <1>7, <2>1, <2>2
  <2>4. 0 \in Nat /\ 2 * 0 = 0 /\ 0 \in 0..size - 1
    OBVIOUS
  <2> QED BY <1>6, <2>3, <2>4
\* At the odd places, and at the even ones after the first.
<1>9. ASSUME NEW j \in 0..half - 1 PROVE r[P(2 * j + 1)] = inner[P(2 * j + 1)]
  <2>1. \A k \in 0..n - 1 : P(2 * j + 1) # P(2 * k + 2)
    <3> TAKE k \in 0..n - 1
    <3>1. 2 * j + 1 \in Nat /\ 2 * k + 2 \in Nat /\ 2 * j + 1 # 2 * k + 2
      OBVIOUS
    <3> QED BY <1>5, <3>1
  <2>2. 2 * j + 1 \in 0..size - 1
    OBVIOUS
  <2>3. P(2 * j + 1) \in 1..N
    BY <1>1, <2>2
  <2> QED BY <1>7, <2>1, <2>3
<1>10. ASSUME NEW j \in 0..n - 1 PROVE r[P(2 * j + 2)] = r[P(2 * j + 1)] \o a[P(2 * j + 2)]
  <2>1. j \in 0..half - 1 /\ 2 * j + 2 \in 0..size - 1 /\ j + 1 \in Nat /\ 2 * (j + 1) = 2 * j + 2
        /\ (2 * j + 2) - 1 = 2 * j + 1
    OBVIOUS
  <2>2. P(2 * j + 2) \in 1..N
    BY <1>1, <2>1
  <2>3. r[P(2 * j + 2)] = inner[P(2 * j + 1)] \o inner[P(2 * j + 2)]
    <3>1. r[P(2 * j + 2)] = inner[P((2 * j + 2) - 1)] \o inner[P(2 * j + 2)]
      BY <1>4, <2>2
    <3> QED BY <2>1, <3>1
  <2>4. inner[P(2 * (j + 1))] = a[P(2 * (j + 1))]
    BY <1>6, <2>1
  <2> QED BY <1>9, <2>1, <2>3, <2>4
<1>11. ASSUME NEW j \in 0..half - 1
       PROVE  r[P(2 * j + 1)] = r[P(2 * j)] \o a[P(2 * j + 1)]
  <2> DEFINE y == a[P(2 * j)]
             z == a[P(2 * j + 1)]
  <2>1. 2 * j + 1 \in 0..size - 1 /\ 2 * j \in 0..size - 1 /\ (2 * j + 1) - 1 = 2 * j /\ j \in Nat
    OBVIOUS
  <2>2. P(2 * j + 1) \in 1..N /\ P(2 * j) \in 1..N
    BY <1>1, <2>1
  <2>3. y \in Seq(Int) /\ z \in Seq(Int)
    <3>1. P(2 * j + 1) \in 1..Len(a) /\ P(2 * j) \in 1..Len(a) /\ a \in Seq(Seq(Int))
      BY <1>1, <2>2 DEF N
    <3> QED BY <3>1
  <2>4. pairs[P(2 * j + 1)] = y \o z
    <3>1. pairs[P(2 * j + 1)] = a[P((2 * j + 1) - 1)] \o a[P(2 * j + 1)]
      BY <1>2, <2>2
    <3> QED BY <2>1, <3>1
  <2>5. CASE j = 0
    <3>1. 2 * j = 0 /\ 2 * j + 1 = 1
      BY <2>5
    <3>2. r[P(1)] = pairs[P(1)] /\ r[P(0)] = a[P(0)]
      BY <1>3, <1>8, <1>9, <3>1
    <3> QED BY <2>4, <3>1, <3>2
  <2>6. CASE j # 0
    <3> DEFINE i == j - 1
               x == inner[P(2 * j - 1)]
    <3>1. i \in 0..n - 1 /\ i \in 0..half - 1 /\ 2 * i + 2 = 2 * j /\ 2 * i + 1 = 2 * j - 1
          /\ j \in 1..half - 1 /\ 2 * j - 1 \in 0..size - 1
      BY <2>6
    <3>2. r[P(2 * j + 1)] = x \o (y \o z)
      BY <1>3, <1>9, <2>4, <3>1
    <3>3. r[P(2 * j)] = x \o y
      <4>1. r[P(2 * i + 2)] = r[P(2 * i + 1)] \o a[P(2 * i + 2)] /\ r[P(2 * i + 1)] = inner[P(2 * i + 1)]
        BY <1>9, <1>10, <3>1
      <4> QED BY <3>1, <4>1
    <3>4. x \in Seq(Int)
      <4>1. P(2 * j - 1) \in 1..N
        BY <1>1, <3>1
      <4> QED BY <1>3, <4>1
    <3> HIDE DEF x, y, z
    <3>5. (x \o y) \o z = x \o (y \o z)
      BY <2>3, <3>4, Associates
    <3> QED BY <3>2, <3>3, <3>5 DEF z
  <2> QED BY <2>5, <2>6
<1>12. ASSUME NEW k \in 1..size - 1 PROVE r[P(k)] = r[P(k - 1)] \o a[P(k)]
  <2>1. \/ \E j \in 0..half - 1 : k = 2 * j + 1 /\ k - 1 = 2 * j
        \/ \E j \in 0..n - 1 : k = 2 * j + 2 /\ k - 1 = 2 * j + 1
    <3> DEFINE m == k \div 2
    <3>1. m \in Nat /\ (k = 2 * m \/ k = 2 * m + 1)
      OBVIOUS
    <3> HIDE DEF m
    <3>2. CASE k = 2 * m
      <4>1. m - 1 \in 0..n - 1 /\ k = 2 * (m - 1) + 2 /\ k - 1 = 2 * (m - 1) + 1
        BY <3>1, <3>2
      <4> QED BY <4>1
    <3>3. CASE k = 2 * m + 1
      <4>1. m \in 0..half - 1 /\ k - 1 = 2 * m
        BY <3>1, <3>3
      <4> QED BY <3>3, <4>1
    <3> QED BY <3>1, <3>2, <3>3
  <2> QED BY <1>10, <1>11, <2>1
<1>13. ASSUME NEW i \in 1..N, \A k \in 0..size - 1 : i # P(k) PROVE r[i] = a[i]
  <2>1. \A k \in 0..n - 1 : i # P(2 * k + 2)
    <3> TAKE k \in 0..n - 1
    <3>1. 2 * k + 2 \in 0..size - 1
      OBVIOUS
    <3> QED BY <1>13, <3>1
  <2>2. \A k \in 0..half - 1 : i # P(2 * k + 1)
    <3> TAKE k \in 0..half - 1
    <3>1. 2 * k + 1 \in 0..size - 1
      OBVIOUS
    <3> QED BY <1>13, <3>1
  <2> QED BY <1>2, <1>3, <1>7, <2>1, <2>2
<1> QED BY <1>4, <1>8, <1>12, <1>13 DEF IsScan, P, r, N

(* By induction over the size, so does the whole recursion.                *)
LEMMA ScanIs ==
    ASSUME NEW n \in Nat, NEW T, T = [size \in 0..n |-> ScanRow(T, size)]
    PROVE  \A size \in 0..n, begin, skip \in Nat, a \in Seq(Seq(Int)) :
              ScanInput(a, begin, skip, size) =>
                 IsScan(a, T[size][<<a, begin, skip>>], begin, skip, size)
<1> DEFINE Is(size) == \A begin, skip \in Nat, a \in Seq(Seq(Int)) :
                          ScanInput(a, begin, skip, size) =>
                             IsScan(a, T[size][<<a, begin, skip>>], begin, skip, size)
           Good == {m \in Nat : m <= n => Is(m)}
<1>1. ASSUME NEW m \in Nat, \A k \in Nat : k < m => k \in Good PROVE m \in Good
  <2> SUFFICES ASSUME m <= n, NEW begin \in Nat, NEW skip \in Nat, NEW a \in Seq(Seq(Int)),
                      ScanInput(a, begin, skip, m)
               PROVE  IsScan(a, T[m][<<a, begin, skip>>], begin, skip, m)
    OBVIOUS
  <2> DEFINE p == <<a, begin, skip>>
             D == Seq(Seq(Int)) \X Nat \X Nat
  <2>1. p \in D /\ p[1] = a /\ p[2] = begin /\ p[3] = skip
    OBVIOUS
  <2> HIDE DEF p, Good, D, Is
  <2>2. T[m] = ScanRow(T, m)
    <3>1. m \in 0..n
      BY <1>1
    <3> QED BY <3>1
  <2>3. CASE m <= 1
    <3>1. T[m][p] = a
      <4>1. T[m] = [q \in D |-> q[1]]
        BY <2>2, <2>3 DEF ScanRow, D
      <4> QED BY <2>1, <4>1
    <3>2. IsScan(a, a, begin, skip, m)
      <4>1. \A k \in 1..m - 1 : FALSE
        BY <1>1, <2>3
      <4> QED BY <4>1 DEF IsScan
    <3> QED BY <3>1, <3>2 DEF p
  <2>4. CASE m > 1
    <3> DEFINE half == m \div 2
               w == IF m % 2 = 0 THEN half - 1 ELSE half
               pairs == PairsSummed(a, begin, skip, skip, half)
               inner == T[half][<<pairs, begin + skip, skip * 2>>]
    <3>1. /\ half \in Nat /\ half >= 1 /\ half < m /\ half > 0
          /\ \/ m = 2 * half /\ w = half - 1
             \/ m = 2 * half + 1 /\ w = half
      BY <2>4, HalfIs
    <3>2. T[m][p] = PairsSummed(inner, begin, skip, 2 * skip, w)
      <4>1. ~(m <= 1)
        BY <2>4
      <4>2. T[m] = [q \in D |->
                      PairsSummed(T[half][<<PairsSummed(q[1], q[2], q[3], q[3], half),
                                             q[2] + q[3], q[3] * 2>>], q[2], q[3], 2 * q[3], w)]
        BY <2>2, <4>1 DEF ScanRow, D
      <4> HIDE DEF half, w
      <4> QED BY <2>1, <4>2
    <3> HIDE DEF half, w
    <3>3. Is(half)
      <4>1. half \in Good /\ half <= n
        BY <1>1, <3>1
      <4> QED BY <4>1 DEF Good
    <3>4. begin > 0 /\ skip > 0 /\ \A k \in 0..m - 1 : At(begin, skip, k) <= Len(a)
      BY DEF ScanInput
    <3>5. pairs \in Seq(Seq(Int)) /\ Len(pairs) = Len(a)
      <4> DEFINE d == 1
      <4>1. d \in 1..2 /\ skip = (IF d = 1 THEN skip ELSE 2 * skip)
        OBVIOUS
      <4> HIDE DEF d
      <4>2. ArePairs(a, pairs, begin, skip, d, half)
        BY <3>1, <3>4, <4>1, PairsAre
      <4> QED BY <4>2 DEF ArePairs
    <3> HIDE DEF pairs
    <3>6. begin + skip \in Nat /\ skip * 2 \in Nat /\ begin + skip > 0 /\ skip * 2 > 0
      BY <3>4
    <3>7. ScanInput(pairs, begin + skip, skip * 2, half)
      <4>1. ASSUME NEW k \in 0..half - 1
            PROVE  At(begin + skip, skip * 2, k) <= Len(pairs)
        <5>1. k \in Nat /\ 2 * k + 1 \in 0..m - 1
          BY <3>1
        <5>2. At(begin + skip, skip * 2, k) = At(begin, skip, 2 * k + 1)
          BY <3>4, <5>1, AtPairs
        <5> QED BY <3>4, <3>5, <5>1, <5>2
      <4> QED BY <3>5, <3>6, <4>1 DEF ScanInput
    <3>8. IsScan(pairs, inner, begin + skip, skip * 2, half)
      BY <3>3, <3>5, <3>6, <3>7 DEF Is
    <3>9. half \in Nat /\ w \in Nat
      BY <3>1
    <3>10. IsScan(a, PairsSummed(inner, begin, skip, 2 * skip, w), begin, skip, m)
      <4>1. pairs = PairsSummed(a, begin, skip, skip, half)
        BY DEF pairs
      <4> HIDE DEF inner
      <4> QED BY <2>4, <3>1, <3>8, <3>9, <4>1, ScanStep
    <3> QED BY <3>2, <3>10 DEF p
  <2> QED BY <2>3, <2>4
<1>2. Good \in SUBSET Nat
  OBVIOUS
<1> HIDE DEF Good
<1>3. \A m \in Nat : m \in Good
  BY <1>1, <1>2, FromSmaller
<1>4. \A m \in 0..n : Is(m)
  <2> HIDE DEF Is
  <2> QED BY <1>3 DEF Good
<1> QED BY <1>4

(* parallel_partial_sum_impl_recursive has at each place the sum of the    *)
(* elements up to it.                                                      *)
LEMMA ScanJoins ==
    ASSUME NEW s \in Seq(Seq(Int))
    PROVE  parallel_partial_sum_impl_recursive(s)
              = [i \in DOMAIN s |-> FlattenSeq(Prefix(s, i))]
<1> DEFINE n == Len(s)
           T == CHOOSE g : g = [size \in 0..n |-> ScanRow(g, size)]
           p == <<s, 1, 1>>
           r == T[n][p]
<1>1. n \in Nat /\ DOMAIN s = 1..n
  OBVIOUS
<1>2. parallel_partial_sum_impl_recursive(s) = r
  BY DEF parallel_partial_sum_impl_recursive, ScanRow
<1>3. T = [size \in 0..n |-> ScanRow(T, size)]
  <2> HIDE DEF n
  <2>1. \E g : g = [size \in 0..n |-> ScanRow(g, size)]
    <3> HIDE DEF T
    <3> QED BY <1>1, ScanExists
  <2> QED BY <2>1
<1> HIDE DEF T
<1>4. \A k \in Nat : At(1, 1, k) = k + 1
  BY DEF At
<1>5. ScanInput(s, 1, 1, n)
  <2>1. \A k \in 0..n - 1 : At(1, 1, k) <= n
    BY <1>1, <1>4
  <2> QED BY <2>1 DEF ScanInput
<1>6. IsScan(s, r, 1, 1, n)
  <2>1. 1 \in Nat /\ n \in 0..n
    BY <1>1
  <2> HIDE DEF n
  <2> QED BY <1>1, <1>3, <1>5, <2>1, ScanIs
<1> HIDE DEF r
<1>7. r \in Seq(Seq(Int)) /\ Len(r) = n
  BY <1>6 DEF IsScan
<1> DEFINE Good == {k \in Nat : k + 1 <= n => r[k + 1] = Joined(s, k + 1)}
<1>8. 0 \in Good
  <2> SUFFICES ASSUME 0 + 1 <= n PROVE r[0 + 1] = Joined(s, 0 + 1)
    OBVIOUS
  <2>1. 0 \in 0..n - 1 /\ 1 \in 1..n /\ n > 0
    BY <1>1
  <2>2. r[1] = s[1]
    <3>1. At(1, 1, 0) = 1
      BY <1>4
    <3> QED BY <1>6, <2>1, <3>1 DEF IsScan
  <2>3. Joined(s, 0 + 1) = <<>> \o s[0 + 1]
    BY <2>1, JoinedNext
  <2>4. s[1] \in Seq(Int)
    BY <2>1
  <2>5. <<>> \o s[1] = s[1]
    BY <2>4, Concatenated
  <2> QED BY <2>2, <2>3, <2>5
<1>9. ASSUME NEW k \in Good PROVE k + 1 \in Good
  <2> SUFFICES ASSUME (k + 1) + 1 <= n PROVE r[(k + 1) + 1] = Joined(s, (k + 1) + 1)
    OBVIOUS
  <2> DEFINE j == k + 1
  <2>1. j \in Nat /\ j \in 1..n - 1 /\ r[j] = Joined(s, j) /\ j - 1 \in Nat /\ (j - 1) + 1 = j
        /\ j \in 0..n - 1
    BY <1>1
  <2> HIDE DEF j
  <2>2. r[j + 1] = r[j] \o s[j + 1]
    <3>1. r[At(1, 1, j)] = r[At(1, 1, j - 1)] \o s[At(1, 1, j)]
      BY <1>6, <2>1 DEF IsScan
    <3>2. At(1, 1, j) = j + 1 /\ At(1, 1, j - 1) = j
      BY <1>4, <2>1
    <3> QED BY <3>1, <3>2
  <2>3. Joined(s, j + 1) = Joined(s, j) \o s[j + 1]
    BY <2>1, JoinedNext
  <2>4. r[j + 1] = Joined(s, j + 1)
    BY <2>1, <2>2, <2>3
  <2> QED BY <2>4 DEF j
<1>10. Good \in SUBSET Nat
  OBVIOUS
<1> HIDE DEF Good
<1>11. ASSUME NEW i \in 1..n PROVE r[i] = FlattenSeq(Prefix(s, i))
  <2> DEFINE k == i - 1
  <2>1. k \in Nat /\ k + 1 = i /\ i \in 0..n
    BY <1>1
  <2> HIDE DEF k
  <2>2. k \in Good
    BY <1>8, <1>9, <1>10, <2>1, FromPrevious
  <2>3. r[i] = Joined(s, i)
    <3>1. k + 1 <= n => r[k + 1] = Joined(s, k + 1)
      BY <2>2 DEF Good
    <3>2. k + 1 <= n
      BY <1>1, <2>1
    <3> QED BY <2>1, <3>1, <3>2
  <2>4. FlattenSeq(Prefix(s, i)) = Joined(s, i)
    BY <2>1, JoinedOfPrefix
  <2> QED BY <2>3, <2>4
<1>12. r = [i \in 1..n |-> r[i]]
  <2> HIDE DEF n
  <2> QED BY <1>1, <1>7
<1>13. r = [i \in 1..n |-> FlattenSeq(Prefix(s, i))]
  BY <1>11, <1>12
<1> QED BY <1>1, <1>2, <1>13

-----------------------------------------------------------------------------
(* The partial sum that divides the elements into one chunk for each core. *)

Summed(s, n) == Folded("summed", s, 1, n)

(* The sums of numbers.                                                    *)
LEMMA SummedIs ==
    ASSUME NEW s \in Seq(Int)
    PROVE  /\ Summed(s, 0) = 0
           /\ \A n \in 0..Len(s) : Summed(s, n) \in Int
           /\ \A n \in 0..Len(s) - 1 : Summed(s, n + 1) = Summed(s, n) + s[n + 1]
           /\ \A c \in 0..Len(s) : \A d \in c..Len(s) :
                 /\ Folded("summed", s, c + 1, d) \in Int
                 /\ Summed(s, d) = Summed(s, c) + Folded("summed", s, c + 1, d)
<1> DEFINE fun == "summed"
<1>1. /\ fun \in UnitFolds /\ Values(fun) = Int /\ Unit(fun) = 0
      /\ \A x, y : Combined(fun, x, y) = x + y
  BY DEF UnitFolds, Values, Unit, Combined
<1> HIDE DEF fun
<1>2. s \in Seq(Values(fun))
  BY <1>1
<1>3. ASSUME NEW n \in 0..Len(s)
      PROVE  /\ Folded(fun, s, 1, 0) = 0 /\ Folded(fun, s, 1, n) \in Int
             /\ n < Len(s) => Folded(fun, s, 1, n + 1) = Folded(fun, s, 1, n) + s[n + 1]
  <2>1. /\ Folded(fun, s, 1, 0) = Unit(fun) /\ Folded(fun, s, 1, n) \in Values(fun)
        /\ n < Len(s) => Folded(fun, s, 1, n + 1) = Combined(fun, Folded(fun, s, 1, n), s[n + 1])
    BY <1>1, <1>2, FoldedNext
  <2> QED BY <1>1, <2>1
<1>4. ASSUME NEW c \in 0..Len(s), NEW d \in c..Len(s)
      PROVE  /\ Folded(fun, s, c + 1, d) \in Int
             /\ Folded(fun, s, 1, d) = Folded(fun, s, 1, c) + Folded(fun, s, c + 1, d)
  <2>1. /\ Folded(fun, s, c + 1, d) \in Values(fun)
        /\ Folded(fun, s, 1, d) = Combined(fun, Folded(fun, s, 1, c), Folded(fun, s, c + 1, d))
    BY <1>1, <1>2, FoldedJoin
  <2> QED BY <1>1, <2>1
<1>5. 0 \in 0..Len(s) /\ \A n \in 0..Len(s) - 1 : n \in 0..Len(s) /\ n < Len(s)
  OBVIOUS
<1> QED BY <1>3, <1>4, <1>5 DEF Summed, fun

(* The reference has the sum of the first i elements at place i.           *)
LEMMA StdPartialSumIs ==
    ASSUME NEW s \in Seq(Int)
    PROVE  StdPartialSum(s) = [i \in 1..Len(s) |-> Summed(s, i)]
<1>1. DOMAIN s = 1..Len(s)
  OBVIOUS
<1>2. \A i : FoldLeft(+, 0, SubSeq(s, 1, i)) = Summed(s, i)
  BY DEF Summed, Folded, Unit, Fold
<1> QED BY <1>1, <1>2 DEF StdPartialSum

(* The chunks of parallel_partial_sum_impl.                                *)
SumEnd(n, chunks, size, len) == IF n = chunks THEN len ELSE n * size
SumPlaces(n, chunks, size, len) == n * size + 1..IF n = chunks - 1 THEN len ELSE (n + 1) * size

AreSumChunks(chunks, size, len) ==
    /\ SumEnd(0, chunks, size, len) = 0 /\ SumEnd(chunks, chunks, size, len) = len
    /\ \A n \in 0..chunks - 1 :
          /\ SumEnd(n, chunks, size, len) \in Nat /\ SumEnd(n + 1, chunks, size, len) \in Nat
          /\ SumEnd(n, chunks, size, len) < SumEnd(n + 1, chunks, size, len)
          /\ SumEnd(n + 1, chunks, size, len) <= len
          /\ SumPlaces(n, chunks, size, len)
                = SumEnd(n, chunks, size, len) + 1..SumEnd(n + 1, chunks, size, len)
    /\ \A i \in 1..len : \E n \in 0..chunks - 1 : i \in SumPlaces(n, chunks, size, len)
    /\ \A m, n \in 0..chunks - 1 : \A i \in 1..len :
          i \in SumPlaces(m, chunks, size, len) /\ i \in SumPlaces(n, chunks, size, len) => m = n

(* The chunks follow each other without a gap, and no place is in two of   *)
(* them.                                                                   *)
LEMMA SumChunks ==
    ASSUME NEW chunks \in Nat, chunks > 0, NEW len \in Nat, chunks <= len,
           NEW size \in Nat, size = len \div chunks
    PROVE  AreSumChunks(chunks, size, len)
<1> DEFINE r == len % chunks
           B(k) == size * k
           b(n) == SumEnd(n, chunks, size, len)
           P(n) == SumPlaces(n, chunks, size, len)
<1>1. size \in Nat /\ r \in 0..(chunks - 1) /\ len = chunks * size + r
  BY DivModIs
<1> HIDE DEF r
<1>2. size > 0
  <2>1. CASE size = 0
    <3>1. chunks * size = 0
      BY <2>1
    <3> QED BY <1>1, <3>1
  <2> QED BY <1>1, <2>1
<1>3. ASSUME NEW k \in Nat
      PROVE  B(k) \in Nat /\ k * size = B(k) /\ B(k + 1) = B(k) + size /\ k + 1 \in Nat
             /\ (k + 1) * size = B(k) + size
  BY <1>1
<1>4. B(0) = 0 /\ len = B(chunks) + r
  BY <1>1
<1>5. \A j, k \in Nat : j <= k => B(j) <= B(k)
  <2> TAKE j, k \in Nat
  <2>1. j \in Int /\ k \in Int
    OBVIOUS
  <2> QED BY <1>1, <1>2, <2>1, ProductOrder
<1> DEFINE B1(k) == k * size
<1>6. \A k \in Nat : B1(k) = B(k)
  BY <1>3
<1>7. /\ \A n : b(n) = IF n = chunks THEN len ELSE B1(n)
      /\ \A n : P(n) = B1(n) + 1..IF n = chunks - 1 THEN len ELSE B1(n + 1)
  BY DEF SumEnd, SumPlaces
<1>8. \A k \in Nat : B(k) \in Nat /\ B(k + 1) = B(k) + size
  BY <1>3
<1> HIDE DEF B, b, P, B1
<1>9. b(0) = 0 /\ b(chunks) = len
  BY <1>4, <1>6, <1>7
<1>10. ASSUME NEW n \in 0..chunks - 1
       PROVE  /\ b(n) = B(n) /\ b(n + 1) = (IF n = chunks - 1 THEN len ELSE B(n + 1))
              /\ b(n) \in Nat /\ b(n + 1) \in Nat /\ b(n) < b(n + 1) /\ b(n + 1) <= len
              /\ P(n) = b(n) + 1..b(n + 1)
  <2>1. n \in Nat /\ n + 1 \in Nat /\ n # chunks /\ (n + 1 = chunks <=> n = chunks - 1)
    OBVIOUS
  <2>2. B(n) \in Nat /\ B(n + 1) = B(n) + size /\ B(chunks) \in Nat /\ B(n + 1) \in Nat
        /\ B(n + 1) <= B(chunks)
    <3>1. B(n) \in Nat /\ B(n + 1) = B(n) + size /\ B(chunks) \in Nat /\ B(n + 1) \in Nat
      BY <1>8, <2>1
    <3>2. n + 1 <= chunks
      OBVIOUS
    <3>3. B(n + 1) <= B(chunks)
      BY <1>5, <2>1, <3>2
    <3> QED BY <3>1, <3>3
  <2>3. b(n) = B(n) /\ b(n + 1) = (IF n = chunks - 1 THEN len ELSE B(n + 1))
    BY <1>6, <1>7, <2>1
  <2>4. P(n) = B(n) + 1..IF n = chunks - 1 THEN len ELSE B(n + 1)
    BY <1>6, <1>7, <2>1
  <2>5. B(n + 1) <= len
    <3>1. r \in Int /\ r >= 0
      BY <1>1
    <3> QED BY <1>4, <2>2, <3>1
  <2> QED BY <1>1, <1>2, <2>2, <2>3, <2>4, <2>5
<1>11. ASSUME NEW i \in 1..len PROVE \E n \in 0..chunks - 1 : i \in P(n)
  <2> DEFINE q == (i - 1) \div size
             t == (i - 1) % size
  <2>1. q \in Nat /\ t \in 0..(size - 1) /\ i - 1 = B(q) + t
    <3>1. i - 1 \in Nat
      OBVIOUS
    <3>2. q \in Nat /\ t \in 0..(size - 1) /\ i - 1 = size * q + t
      BY <1>1, <1>2, <3>1, DivModIs
    <3> QED BY <3>2 DEF B
  <2> HIDE DEF q, t
  <2>2. CASE q < chunks - 1
    <3>1. q \in 0..chunks - 1 /\ B(q + 1) = B(q) + size /\ B(q) \in Nat
      BY <1>8, <2>1, <2>2
    <3>2. P(q) = B(q) + 1..B(q + 1)
      BY <1>10, <2>2, <3>1
    <3>3. i \in P(q)
      BY <1>1, <2>1, <3>1, <3>2
    <3> QED BY <3>1, <3>3
  <2>3. CASE q >= chunks - 1
    <3>1. chunks - 1 \in 0..chunks - 1 /\ chunks - 1 \in Nat
      OBVIOUS
    <3>2. B(chunks - 1) <= B(q) /\ B(chunks - 1) \in Nat /\ B(q) \in Nat
      BY <1>5, <1>8, <2>1, <2>3, <3>1
    <3>3. P(chunks - 1) = B(chunks - 1) + 1..len
      BY <1>10, <3>1
    <3>4. i \in P(chunks - 1)
      BY <2>1, <3>2, <3>3
    <3> QED BY <3>1, <3>4
  <2> QED BY <2>1, <2>2, <2>3
<1>12. ASSUME NEW m \in 0..chunks - 1, NEW n \in 0..chunks - 1, NEW i \in 1..len,
              i \in P(m), i \in P(n)
       PROVE  ~(m < n)
  <2> SUFFICES ASSUME m < n PROVE FALSE
    OBVIOUS
  <2>1. m + 1 \in Nat /\ n \in Nat /\ m + 1 <= n /\ m # chunks - 1
    OBVIOUS
  <2>2. B(m + 1) <= B(n) /\ B(m + 1) \in Nat /\ B(n) \in Nat
    BY <1>5, <1>8, <2>1
  <2>3. b(m + 1) = B(m + 1) /\ b(n) = B(n)
    BY <1>10, <2>1
  <2>4. P(m) = b(m) + 1..b(m + 1) /\ P(n) = b(n) + 1..b(n + 1)
    BY <1>10
  <2>5. i <= b(m + 1) /\ i >= b(n) + 1
    <3>1. i \in b(m) + 1..b(m + 1) /\ i \in b(n) + 1..b(n + 1)
      BY <1>12, <2>4
    <3> QED BY <1>10, <3>1
  <2> QED BY <2>2, <2>3, <2>5
<1>13. \A m, n \in 0..chunks - 1 : \A i \in 1..len : i \in P(m) /\ i \in P(n) => m = n
  <2> TAKE m, n \in 0..chunks - 1
  <2> TAKE i \in 1..len
  <2> SUFFICES ASSUME i \in P(m), i \in P(n) PROVE m = n
    OBVIOUS
  <2>1. ~(m < n) /\ ~(n < m)
    BY <1>12
  <2> QED BY <2>1
<1> QED BY <1>9, <1>10, <1>11, <1>13 DEF AreSumChunks, b, P

(* parallel_partial_sum_impl has the same sums as std::partial_sum.        *)
LEMMA SumFixedIs ==
    ASSUME NEW s \in Seq(Int), NEW cores \in Nat \ {0}
    PROVE  parallel_partial_sum_impl(s, cores) = StdPartialSum(s)
<1> DEFINE chunks == 2 * cores
           len == Len(s)
           size == len \div chunks
           b(n) == SumEnd(n, chunks, size, len)
           P(n) == SumPlaces(n, chunks, size, len)
           of(i) == CHOOSE n \in 0..chunks - 1 : i \in P(n)
           inside(i) == FoldLeft(+, 0, SubSeq(s, Min(P(of(i))), i))
           w == [n \in 1..chunks |-> inside(Max(P(n - 1)))]
           sums == StdPartialSum(w)
<1>1. CASE len < chunks
  BY <1>1 DEF parallel_partial_sum_impl
<1>2. CASE ~(len < chunks)
  <2>1. parallel_partial_sum_impl(s, cores)
           = [i \in DOMAIN s |-> inside(i) + (IF of(i) = 0 THEN 0 ELSE sums[of(i)])]
    BY <1>2 DEF parallel_partial_sum_impl, SumPlaces
  <2>2. chunks \in Nat /\ chunks > 0 /\ len \in Nat /\ chunks <= len /\ DOMAIN s = 1..len
    BY <1>2
  <2> HIDE DEF chunks, len
  <2>3. /\ b(0) = 0 /\ b(chunks) = len
        /\ \A n \in 0..chunks - 1 :
              /\ b(n) \in Nat /\ b(n + 1) \in Nat /\ b(n) < b(n + 1) /\ b(n + 1) <= len
              /\ P(n) = b(n) + 1..b(n + 1)
        /\ \A i \in 1..len : \E n \in 0..chunks - 1 : i \in P(n)
        /\ \A m, n \in 0..chunks - 1 : \A i \in 1..len : i \in P(m) /\ i \in P(n) => m = n
    <3>1. size = len \div chunks /\ size \in Nat
      BY <2>2, DivModIs
    <3> HIDE DEF size
    <3>2. AreSumChunks(chunks, size, len)
      BY <2>2, <3>1, SumChunks
    <3> QED BY <3>2 DEF AreSumChunks
  <2> HIDE DEF size, b, P
  <2>4. ASSUME NEW i \in 1..len PROVE of(i) \in 0..chunks - 1 /\ i \in P(of(i))
    BY <2>3
  <2>5. ASSUME NEW n \in 0..chunks - 1 PROVE Min(P(n)) = b(n) + 1 /\ Max(P(n)) = b(n + 1)
    <3> DEFINE A == P(n)
               lo == b(n) + 1
               hi == b(n + 1)
    <3>1. A = lo..hi /\ lo \in Int /\ hi \in Int /\ lo <= hi
      BY <2>3
    <3> HIDE DEF A, lo, hi
    <3>2. A # {} /\ A \in SUBSET Int /\ lo \in A /\ hi \in A
          /\ (\A x \in A : lo <= x) /\ (\A x \in A : x <= hi)
      <4>1. lo \in A /\ hi \in A
        BY <3>1
      <4>2. \A x \in A : x \in Int /\ lo <= x /\ x <= hi
        BY <3>1
      <4> QED BY <4>1, <4>2
    <3>3. Min(A) \in A /\ \A x \in A : Min(A) <= x
      BY <3>1, <3>2, MinIs
    <3>4. Max(A) \in A /\ \A x \in A : Max(A) >= x
      BY <3>1, <3>2, MaxIs
    <3>5. Min(A) \in Int /\ Min(A) <= lo /\ lo <= Min(A)
      BY <3>2, <3>3
    <3>6. Max(A) \in Int /\ Max(A) <= hi /\ hi <= Max(A)
      BY <3>2, <3>4
    <3>7. Min(A) = lo /\ Max(A) = hi
      BY <3>1, <3>5, <3>6
    <3> QED BY <3>7 DEF A, lo, hi
  <2> DEFINE S(i) == Summed(s, i)
  <2>6. /\ S(0) = 0 /\ \A n \in 0..len : S(n) \in Int
        /\ \A c \in 0..len : \A d \in c..len :
              /\ Folded("summed", s, c + 1, d) \in Int
              /\ S(d) = S(c) + Folded("summed", s, c + 1, d)
    BY SummedIs DEF len
  <2> HIDE DEF of
  <2>7. ASSUME NEW i \in 1..len
        PROVE  inside(i) \in Int /\ S(i) = S(b(of(i))) + inside(i)
    <3> DEFINE c == b(of(i))
    <3>1. of(i) \in 0..chunks - 1 /\ i \in c + 1..b(of(i) + 1) /\ c \in Nat
      BY <2>3, <2>4
    <3>2. c \in 0..len /\ i \in c..len
      BY <2>2, <3>1
    <3>3. Min(P(of(i))) = c + 1
      BY <2>5, <3>1
    <3>4. inside(i) = Folded("summed", s, c + 1, i)
      BY <3>3 DEF Folded, Fold, Unit
    <3> HIDE DEF c, inside, S
    <3>5. Folded("summed", s, c + 1, i) \in Int /\ S(i) = S(c) + Folded("summed", s, c + 1, i)
      BY <2>6, <3>2
    <3> QED BY <3>4, <3>5 DEF c
  <2> HIDE DEF inside
  <2>8. ASSUME NEW n \in 1..chunks
        PROVE  w[n] \in Int /\ S(b(n)) = S(b(n - 1)) + w[n] /\ S(b(n)) \in Int
    <3> DEFINE m == n - 1
               e == b(n)
    <3>1. m \in 0..chunks - 1 /\ m + 1 = n
      BY <2>2
    <3> HIDE DEF m
    <3>2. /\ b(m) \in Nat /\ b(m + 1) \in Nat /\ b(m) < b(m + 1) /\ b(m + 1) <= len
          /\ P(m) = b(m) + 1..b(m + 1) /\ Max(P(m)) = b(m + 1)
      BY <2>3, <2>5, <3>1
    <3>3. e \in 1..len /\ e \in P(m) /\ Max(P(m)) = e
      BY <2>2, <3>1, <3>2
    <3> HIDE DEF e
    <3>4. of(e) = m
      BY <2>3, <2>4, <3>1, <3>3
    <3>5. w[n] = inside(e)
      BY <3>3 DEF m
    <3>6. inside(e) \in Int /\ S(e) = S(b(m)) + inside(e)
      BY <2>7, <3>3, <3>4
    <3>7. S(e) \in Int
      <4>1. e \in 0..len
        BY <3>3
      <4> QED BY <2>6, <4>1
    <3> QED BY <3>5, <3>6, <3>7 DEF m, e
  <2>9. w \in Seq(Int) /\ Len(w) = chunks
    <3>1. w = [n \in 1..chunks |-> w[n]]
      OBVIOUS
    <3>2. \A n \in 1..chunks : w[n] \in Int
      BY <2>8
    <3> HIDE DEF w
    <3>3. w \in [1..chunks -> Int]
      BY <3>1, <3>2
    <3> QED BY <2>2, <3>3
  <2> HIDE DEF w
  <2> DEFINE U(n) == Summed(w, n)
  <2>10. /\ U(0) = 0 /\ \A n \in 0..chunks : U(n) \in Int
         /\ \A n \in 0..chunks - 1 : U(n + 1) = U(n) + w[n + 1]
    BY <2>9, SummedIs
  <2> HIDE DEF U, S
  <2> DEFINE Good == {n \in Nat : n <= chunks => U(n) = S(b(n))}
  <2>11. 0 \in Good
    BY <2>3, <2>6, <2>10
  <2>12. ASSUME NEW n \in Good PROVE n + 1 \in Good
    <3> SUFFICES ASSUME n + 1 <= chunks PROVE U(n + 1) = S(b(n + 1))
      OBVIOUS
    <3>1. n \in 0..chunks - 1 /\ n + 1 \in 1..chunks /\ (n + 1) - 1 = n /\ U(n) = S(b(n))
      BY <2>2
    <3>2. U(n + 1) = U(n) + w[n + 1]
      BY <2>10, <3>1
    <3>3. S(b(n + 1)) = S(b((n + 1) - 1)) + w[n + 1]
      BY <2>8, <3>1
    <3> QED BY <3>1, <3>2, <3>3
  <2>13. Good \in SUBSET Nat
    OBVIOUS
  <2> HIDE DEF Good
  <2>14. \A n \in 1..chunks : sums[n] = S(b(n))
    <3> TAKE n \in 1..chunks
    <3>1. n \in Nat /\ n <= chunks
      OBVIOUS
    <3>2. n \in Good
      BY <2>11, <2>12, <2>13, <3>1, FromPrevious
    <3>3. U(n) = S(b(n))
      BY <3>1, <3>2 DEF Good
    <3>4. sums = [k \in 1..chunks |-> U(k)]
      BY <2>9, StdPartialSumIs DEF U
    <3> HIDE DEF sums
    <3> QED BY <3>3, <3>4
  <2> HIDE DEF sums
  <2>15. ASSUME NEW i \in 1..len
         PROVE  inside(i) + (IF of(i) = 0 THEN 0 ELSE sums[of(i)]) = S(i)
    <3>1. inside(i) \in Int /\ S(i) = S(b(of(i))) + inside(i) /\ of(i) \in 0..chunks - 1
      BY <2>4, <2>7
    <3>2. CASE of(i) = 0
      BY <2>3, <2>6, <3>1, <3>2
    <3>3. CASE of(i) # 0
      <4>1. of(i) \in 1..chunks
        BY <2>2, <3>1, <3>3
      <4>2. sums[of(i)] = S(b(of(i))) /\ S(b(of(i))) \in Int
        BY <2>8, <2>14, <4>1
      <4> QED BY <3>1, <3>3, <4>2
    <3> QED BY <3>2, <3>3
  <2>16. StdPartialSum(s) = [i \in 1..len |-> S(i)]
    BY StdPartialSumIs DEF S, len
  <2> QED BY <2>1, <2>2, <2>15, <2>16
<1> QED BY <1>1, <1>2

(* parallel_count_if adds up the counts of the tasks.                      *)
LEMMA CountsAdd ==
    ASSUME NEW size \in Nat, NEW trues, NEW mine
    PROVE  parallel_count_if(1..size, trues, mine) = Cardinality(trues \cap (1..size))
<1> DEFINE all == 1..size
           A == (all \cap mine) \cap trues
           B == (all \ mine) \cap trues
<1>1. IsFiniteSet(all)
  BY FS_Interval
<1>2. IsFiniteSet(A) /\ IsFiniteSet(B)
  <2>1. A \subseteq all /\ B \subseteq all
    OBVIOUS
  <2> QED BY <1>1, <2>1, FS_Subset
<1>3. A \cap B = {} /\ A \cup B = trues \cap all
  OBVIOUS
<1> HIDE DEF all
<1>4. Cardinality(A) \in Nat /\ Cardinality(B) \in Nat
  BY <1>2, FS_CardinalityType
<1>5. Cardinality(A \cup B) = Cardinality(A) + Cardinality(B) - Cardinality(A \cap B)
  BY <1>2, FS_Union
<1>6. Cardinality(A \cap B) = 0
  BY <1>3, FS_EmptySet
<1>7. parallel_count_if(all, trues, mine) = Cardinality(A) + Cardinality(B)
  BY DEF parallel_count_if
<1> HIDE DEF A, B
<1>8. Cardinality(trues \cap all) = Cardinality(A) + Cardinality(B)
  <2> DEFINE ca == Cardinality(A)
             cb == Cardinality(B)
             cc == Cardinality(A \cap B)
             cu == Cardinality(A \cup B)
  <2>1. cu = ca + cb - cc /\ cc = 0 /\ ca \in Nat /\ cb \in Nat
    BY <1>4, <1>5, <1>6
  <2>2. Cardinality(trues \cap all) = cu
    BY <1>3, Zenon
  <2> HIDE DEF ca, cb, cc, cu
  <2>3. cu = ca + cb
    BY <2>1
  <2> QED BY <2>2, <2>3 DEF ca, cb
<1> QED BY <1>7, <1>8 DEF all

FoldOps == {"reduce", "partial_sum", "partial_sum_fixed", "count_if"}

(* A reduction applies its function to all elements in their order, both   *)
(* partial sums have the sum of what is before each place, and a count is  *)
(* the number of elements that satisfy the predicate: for all inputs, any  *)
(* number of cores and any way to divide the elements.                     *)
THEOREM EveryFoldIsInOrder == AlgorithmsSpec => []FoldsInOrder
<1> DEFINE Inv == call \in Calls /\ FoldsInOrder
<1>1. AlgorithmsInit => Inv
  BY DEF AlgorithmsInit, FoldsInOrder, Returned
<1>2. Inv /\ [AlgorithmsNext]_algorithmsVars => Inv'
  <2> SUFFICES ASSUME Inv, [AlgorithmsNext]_algorithmsVars PROVE Inv'
    OBVIOUS
  <2>1. CASE parallel_sort \/ parallel_buffered_sort \/ parallel_radixsort \/ Merge \/ Search
             \/ For \/ ForEach \/ parallel_transform \/ Predicates
    <3>1. call' = call /\ call.op \notin FoldOps
      BY <2>1 DEF parallel_sort, parallel_buffered_sort, parallel_radixsort, Merge, Search,
                  For, ForEach, parallel_transform, Predicates, Returns, FoldOps
    <3> QED BY <3>1 DEF FoldsInOrder, FoldOps
  <2>2. CASE Reduce
    <3>1. call' = call /\ call.op = "reduce"
          /\ value' = parallel_reduce(call.input, call.cores, call.forward, <<>>)
      BY <2>2 DEF Reduce, Returns, value
    <3>2. call.input \in Seq(Seq(Int)) /\ call.cores \in Nat \ {0}
      BY <3>1, CallsAssumption
    <3>3. parallel_reduce(call.input, call.cores, call.forward, <<>>) = FlattenSeq(call.input)
      BY <3>2, ReduceJoins
    <3> QED BY <3>1, <3>3 DEF FoldsInOrder
  <2>3. CASE Returns("partial_sum", parallel_partial_sum_impl_recursive(call.input))
    <3>1. call' = call /\ call.op = "partial_sum"
          /\ value' = parallel_partial_sum_impl_recursive(call.input)
      BY <2>3 DEF Returns, value
    <3>2. call.input \in Seq(Seq(Int))
      BY <3>1, CallsAssumption
    <3>3. parallel_partial_sum_impl_recursive(call.input)
             = [i \in DOMAIN call.input |-> FlattenSeq(Prefix(call.input, i))]
      BY <3>2, ScanJoins
    <3> QED BY <3>1, <3>3 DEF FoldsInOrder
  <2>4. CASE Returns("partial_sum_fixed", parallel_partial_sum_impl(call.input, call.cores))
    <3>1. call' = call /\ call.op = "partial_sum_fixed"
          /\ value' = parallel_partial_sum_impl(call.input, call.cores)
      BY <2>4 DEF Returns, value
    <3>2. call.input \in Seq(Int) /\ call.cores \in Nat \ {0}
      BY <3>1, CallsAssumption
    <3>3. parallel_partial_sum_impl(call.input, call.cores) = StdPartialSum(call.input)
      BY <3>2, SumFixedIs
    <3> QED BY <3>1, <3>3 DEF FoldsInOrder
  <2>5. CASE Count
    <3>1. PICK mine \in SUBSET (1..call.size) :
             Returns("count_if", parallel_count_if(1..call.size, call.trues, mine))
      BY <2>5 DEF Count
    <3>2. call' = call /\ call.op = "count_if"
          /\ value' = parallel_count_if(1..call.size, call.trues, mine)
      BY <3>1 DEF Returns, value
    <3>3. call.size \in Nat
      BY <3>2, CallsAssumption
    <3>4. parallel_count_if(1..call.size, call.trues, mine)
             = Cardinality(call.trues \cap (1..call.size))
      BY <3>3, CountsAdd
    <3> QED BY <3>2, <3>4 DEF FoldsInOrder
  <2>6. CASE UNCHANGED algorithmsVars
    BY <2>6 DEF algorithmsVars, FoldsInOrder, Returned, value
  <2> QED BY <2>1, <2>2, <2>3, <2>4, <2>5, <2>6 DEF AlgorithmsNext, PartialSum
<1>3. Inv => FoldsInOrder
  OBVIOUS
<1> QED BY <1>1, <1>2, <1>3, PTL DEF AlgorithmsSpec

-----------------------------------------------------------------------------
(* Sorting and merging: InOrder(s) is the one ascending sequence with the  *)
(* elements of s.                                                          *)

(* The places of s that hold at most x, and counting them.                 *)
LowPlaces(s, x) == {i \in DOMAIN s : s[i] <= x}

(* A set in a range is finite.                                             *)
LEMMA RangeCounts ==
    ASSUME NEW a \in Int, NEW b \in Int, NEW S \in SUBSET (a..b)
    PROVE  IsFiniteSet(S) /\ Cardinality(S) \in Nat
<1>1. IsFiniteSet(a..b)
  BY FS_Interval
<1>2. IsFiniteSet(S)
  BY <1>1, FS_Subset
<1> QED BY <1>2, FS_CardinalityType

(* Below counts, and grows with x.                                         *)
LEMMA BelowCounts ==
    ASSUME NEW s \in Seq(Int)
    PROVE  /\ \A x \in Int : /\ IsFiniteSet(LowPlaces(s, x)) /\ Below(s, x) = Cardinality(LowPlaces(s, x))
                             /\ Below(s, x) \in 0..Len(s)
           /\ \A x, y \in Int : x <= y => Below(s, x) <= Below(s, y)
<1>0. DOMAIN s = 1..Len(s) /\ Len(s) \in Nat /\ \A i \in 1..Len(s) : s[i] \in Int
  OBVIOUS
<1>1. IsFiniteSet(1..Len(s)) /\ Cardinality(1..Len(s)) = Len(s)
  BY <1>0, CardinalityOfRange
<1>2. ASSUME NEW x \in Int
      PROVE  /\ IsFiniteSet(LowPlaces(s, x)) /\ Below(s, x) = Cardinality(LowPlaces(s, x))
             /\ Below(s, x) \in 0..Len(s)
  <2>1. LowPlaces(s, x) \in SUBSET (1..Len(s))
    BY DEF LowPlaces
  <2>2. IsFiniteSet(LowPlaces(s, x)) /\ Cardinality(LowPlaces(s, x)) <= Len(s)
    BY <1>1, <2>1, FS_Subset
  <2>3. Cardinality(LowPlaces(s, x)) \in Nat
    BY <2>2, FS_CardinalityType
  <2>4. Below(s, x) = Cardinality(LowPlaces(s, x))
    BY DEF Below, LowPlaces
  <2> QED BY <1>0, <2>2, <2>3, <2>4
<1>3. ASSUME NEW x \in Int, NEW y \in Int, x <= y PROVE Below(s, x) <= Below(s, y)
  <2>1. LowPlaces(s, x) \in SUBSET LowPlaces(s, y)
    BY <1>0, <1>3 DEF LowPlaces
  <2>2. Cardinality(LowPlaces(s, x)) <= Cardinality(LowPlaces(s, y))
    BY <1>2, <2>1, FS_Subset
  <2> QED BY <1>2, <2>2
<1> QED BY <1>2, <1>3

(* The elements of s lie between two bounds.                               *)
LEMMA Bounded ==
    ASSUME NEW s \in Seq(Int)
    PROVE  \E b, c \in Int : \A i \in DOMAIN s : b <= s[i] /\ s[i] <= c
<1> DEFINE Ok(n) == \E b, c \in Int : \A i \in 1..n : b <= s[i] /\ s[i] <= c
           Good == {n \in Nat : n <= Len(s) => Ok(n)}
<1>1. 0 \in Good
  <2>1. Ok(0)
    <3>1. \A i \in 1..0 : FALSE
      OBVIOUS
    <3>2. 0 \in Int
      OBVIOUS
    <3> QED BY <3>1, <3>2
  <2> QED BY <2>1
<1>2. ASSUME NEW n \in Good PROVE n + 1 \in Good
  <2> SUFFICES ASSUME n + 1 <= Len(s) PROVE Ok(n + 1)
    OBVIOUS
  <2>1. PICK b, c \in Int : \A i \in 1..n : b <= s[i] /\ s[i] <= c
    BY <1>2
  <2>2. n + 1 \in 1..Len(s) /\ s[n + 1] \in Int
    BY <1>2
  <2> DEFINE e == s[n + 1]
             d == IF b <= e THEN b ELSE e
             f == IF e <= c THEN c ELSE e
  <2>3. \A i \in 1..n + 1 : i \in 1..n \/ i = n + 1
    BY <1>2
  <2>4. e \in Int
    BY <2>2
  <2>5. d \in Int /\ f \in Int /\ d <= b /\ d <= e /\ c <= f /\ e <= f
    <3> HIDE DEF e
    <3> QED BY <2>4
  <2>6. \A i \in 1..n : s[i] \in Int
    BY <1>2
  <2>7. \A i \in 1..n + 1 : d <= s[i] /\ s[i] <= f
    <3> TAKE i \in 1..n + 1
    <3>1. CASE i = n + 1
      BY <2>5, <3>1
    <3>2. CASE i \in 1..n
      <4>1. b <= s[i] /\ s[i] <= c /\ s[i] \in Int
        BY <2>1, <2>6, <3>2
      <4> HIDE DEF d, f
      <4> QED BY <2>5, <4>1
    <3> QED BY <2>3, <3>1, <3>2
  <2> QED BY <2>5, <2>7
<1>3. Good \in SUBSET Nat
  OBVIOUS
<1> HIDE DEF Good
<1>4. \A n \in Nat : n \in Good
  BY <1>1, <1>2, <1>3, FromPrevious
<1>5. Len(s) \in Nat /\ DOMAIN s = 1..Len(s)
  OBVIOUS
<1>6. Ok(Len(s))
  <2>1. Len(s) \in Good
    BY <1>4, <1>5
  <2> HIDE DEF Ok
  <2> QED BY <1>5, <2>1 DEF Good
<1> QED BY <1>5, <1>6

(* x is the k-th smallest element.                                         *)
IsRank(s, k, x) == Below(s, x - 1) < k /\ k <= Below(s, x)

(* An element is where the count jumps.                                    *)
LEMMA MemberIs ==
    ASSUME NEW s \in Seq(Int), NEW x \in Int
    PROVE  x \in ToSet(s) <=> Below(s, x - 1) < Below(s, x)
<1>0. DOMAIN s = 1..Len(s) /\ \A i \in DOMAIN s : s[i] \in Int
  OBVIOUS
<1>1. ASSUME x \in ToSet(s) PROVE Below(s, x - 1) < Below(s, x)
  <2>1. PICK i \in DOMAIN s : s[i] = x
    BY <1>1 DEF ToSet
  <2>2. LowPlaces(s, x - 1) \in SUBSET LowPlaces(s, x) /\ i \in LowPlaces(s, x) /\ i \notin LowPlaces(s, x - 1)
    BY <1>0, <2>1 DEF LowPlaces
  <2>3. IsFiniteSet(LowPlaces(s, x)) /\ Below(s, x) = Cardinality(LowPlaces(s, x)) /\ Below(s, x) \in Nat
        /\ Below(s, x - 1) = Cardinality(LowPlaces(s, x - 1)) /\ Below(s, x - 1) \in Nat
    <3> DEFINE y == x - 1
    <3>1. y \in Int
      OBVIOUS
    <3> HIDE DEF y
    <3>2. Below(s, y) = Cardinality(LowPlaces(s, y)) /\ Below(s, y) \in 0..Len(s)
      BY <3>1, BelowCounts
    <3>3. IsFiniteSet(LowPlaces(s, x)) /\ Below(s, x) = Cardinality(LowPlaces(s, x))
          /\ Below(s, x) \in 0..Len(s)
      BY BelowCounts
    <3>4. Below(s, x) \in Nat /\ Below(s, y) \in Nat
      BY <3>2, <3>3
    <3> QED BY <3>2, <3>3, <3>4 DEF y
  <2>4. Below(s, x - 1) <= Below(s, x) /\ Below(s, x - 1) # Below(s, x)
    BY <2>2, <2>3, FS_Subset
  <2> QED BY <2>3, <2>4
<1>2. ASSUME Below(s, x - 1) < Below(s, x) PROVE x \in ToSet(s)
  <2>1. x \in Int /\ x - 1 \in Int
    OBVIOUS
  <2>2. LowPlaces(s, x - 1) # LowPlaces(s, x)
    BY <1>2, <2>1, BelowCounts
  <2>3. PICK i \in DOMAIN s : (s[i] <= x /\ ~(s[i] <= x - 1)) \/ (s[i] <= x - 1 /\ ~(s[i] <= x))
    BY <2>2 DEF LowPlaces
  <2>4. s[i] = x
    BY <1>0, <2>3
  <2> QED BY <2>4 DEF ToSet
<1> QED BY <1>1, <1>2

(* There is a k-th smallest element,                                       *)
LEMMA RankExists ==
    ASSUME NEW s \in Seq(Int), NEW k \in 1..Len(s)
    PROVE  \E x \in Int : x \in ToSet(s) /\ IsRank(s, k, x)
<1>0. DOMAIN s = 1..Len(s) /\ Len(s) \in Nat /\ \A i \in DOMAIN s : s[i] \in Int
  OBVIOUS
<1>1. PICK b, c \in Int : \A i \in DOMAIN s : b <= s[i] /\ s[i] <= c
  BY Bounded
<1> DEFINE X == {x \in Int : b - 1 <= x /\ k <= Below(s, x)}
<1>2. c \in X
  <2>1. LowPlaces(s, c) = 1..Len(s)
    BY <1>0, <1>1 DEF LowPlaces
  <2>2. Below(s, c) = Len(s)
    BY <1>0, <2>1, BelowCounts, CardinalityOfRange
  <2>3. b <= c
    <3>1. k \in DOMAIN s
      BY <1>0
    <3> QED BY <1>0, <1>1, <3>1
  <2> QED BY <1>0, <2>2, <2>3
<1> DEFINE x == Min(X)
           y == b - 1
<1>3. X \in SUBSET Int /\ X # {} /\ y \in Int /\ \A z \in X : y <= z
  BY <1>2
<1>4. x \in X /\ \A z \in X : x <= z
  <2> HIDE DEF X, y
  <2> QED BY <1>3, MinIs
<1>5. x \in Int /\ b - 1 <= x /\ k <= Below(s, x)
  BY <1>4
<1>6. Below(s, b - 1) = 0
  <2>1. LowPlaces(s, b - 1) = {}
    BY <1>0, <1>1 DEF LowPlaces
  <2>2. b - 1 \in Int
    OBVIOUS
  <2> QED BY <2>1, <2>2, BelowCounts, FS_EmptySet
<1>7. b - 1 < x
  BY <1>5, <1>6
<1>8. Below(s, x - 1) < k
  <2> HIDE DEF x
  <2>1. x - 1 \in Int /\ b - 1 <= x - 1 /\ ~(x <= x - 1)
    BY <1>5, <1>7
  <2>2. x - 1 \notin X
    BY <1>4, <2>1 DEF x
  <2>3. ~(k <= Below(s, x - 1))
    BY <2>1, <2>2
  <2>4. Below(s, x - 1) \in 0..Len(s)
    BY <2>1, BelowCounts
  <2> QED BY <2>3, <2>4
<1> HIDE DEF x
<1>9. x \in ToSet(s)
  <2>1. Below(s, x - 1) \in 0..Len(s) /\ Below(s, x) \in 0..Len(s)
    <3>1. x - 1 \in Int
      BY <1>5
    <3> QED BY <1>5, <3>1, BelowCounts
  <2>2. Below(s, x - 1) < Below(s, x)
    BY <1>5, <1>8, <2>1
  <2> QED BY <1>5, <2>2, MemberIs
<1> QED BY <1>5, <1>8, <1>9 DEF IsRank

(* and only one.                                                           *)
LEMMA RankUnique ==
    ASSUME NEW s \in Seq(Int), NEW k \in 1..Len(s), NEW x \in Int, NEW y \in Int,
           IsRank(s, k, x), IsRank(s, k, y)
    PROVE  x = y
<1>1. ASSUME NEW v \in Int, NEW w \in Int, IsRank(s, k, v), IsRank(s, k, w) PROVE ~(v < w)
  <2> SUFFICES ASSUME v < w PROVE FALSE
    OBVIOUS
  <2>1. w - 1 \in Int /\ v <= w - 1
    OBVIOUS
  <2>2. Below(s, v) <= Below(s, w - 1) /\ Below(s, v) \in 0..Len(s) /\ Below(s, w - 1) \in 0..Len(s)
    BY <2>1, BelowCounts
  <2> QED BY <1>1, <2>2 DEF IsRank
<1>2. ~(x < y) /\ ~(y < x)
  BY <1>1
<1> QED BY <1>2

(* InOrder has the k-th smallest element in place k.                       *)
LEMMA InOrderIs ==
    ASSUME NEW s \in Seq(Int)
    PROVE  /\ InOrder(s) \in Seq(Int) /\ Len(InOrder(s)) = Len(s)
           /\ \A k \in 1..Len(s) : IsRank(s, k, InOrder(s)[k])
<1>0. DOMAIN s = 1..Len(s) /\ Len(s) \in Nat
  OBVIOUS
<1>1. ASSUME NEW k \in 1..Len(s) PROVE InOrder(s)[k] \in Int /\ IsRank(s, k, InOrder(s)[k])
  <2> DEFINE v == CHOOSE x \in ToSet(s) : Below(s, x - 1) < k /\ k <= Below(s, x)
  <2>1. \E x \in ToSet(s) : Below(s, x - 1) < k /\ k <= Below(s, x)
    BY RankExists DEF IsRank
  <2>2. v \in ToSet(s) /\ Below(s, v - 1) < k /\ k <= Below(s, v)
    <3> HIDE DEF v
    <3> QED BY <2>1 DEF v
  <2>3. ToSet(s) \in SUBSET Int
    BY <1>0 DEF ToSet
  <2>4. InOrder(s)[k] = v
    BY <1>0 DEF InOrder
  <2> HIDE DEF v
  <2> QED BY <2>2, <2>3, <2>4 DEF IsRank
<1>2. InOrder(s) = [k \in 1..Len(s) |-> InOrder(s)[k]]
  BY <1>0 DEF InOrder
<1>3. InOrder(s) \in [1..Len(s) -> Int]
  BY <1>1, <1>2
<1> QED BY <1>0, <1>1, <1>3

(* The same elements, each as often.                                       *)
Same(r, s) == Len(r) = Len(s) /\ \A x \in Int : Below(r, x) = Below(s, x)

(* In an ascending sequence the elements up to x are the first ones.       *)
LEMMA AscendingBelow ==
    ASSUME NEW r \in Seq(Int), Ascending(r), NEW k \in 1..Len(r), NEW x \in Int
    PROVE  r[k] <= x <=> k <= Below(r, x)
<1>0. DOMAIN r = 1..Len(r) /\ Len(r) \in Nat /\ \A i \in DOMAIN r : r[i] \in Int
  OBVIOUS
<1>1. ASSUME r[k] <= x PROVE k <= Below(r, x)
  <2>1. 1..k \in SUBSET LowPlaces(r, x)
    <3> SUFFICES ASSUME NEW i \in 1..k PROVE i \in LowPlaces(r, x)
      OBVIOUS
    <3>1. i \in DOMAIN r /\ k \in DOMAIN r /\ i <= k
      BY <1>0
    <3>2. r[i] <= r[k]
      BY <3>1 DEF Ascending
    <3>3. r[i] \in Int /\ r[k] \in Int
      BY <1>0, <3>1
    <3>4. r[i] <= x
      BY <1>1, <3>2, <3>3
    <3> QED BY <3>1, <3>4 DEF LowPlaces
  <2>2. Cardinality(1..k) = k
    BY CardinalityOfRange
  <2>3. IsFiniteSet(LowPlaces(r, x)) /\ Below(r, x) = Cardinality(LowPlaces(r, x))
    BY BelowCounts
  <2> QED BY <2>1, <2>2, <2>3, FS_Subset
<1>2. ASSUME ~(r[k] <= x) PROVE ~(k <= Below(r, x))
  <2>1. LowPlaces(r, x) \in SUBSET (1..k - 1)
    <3> SUFFICES ASSUME NEW i \in LowPlaces(r, x) PROVE i \in 1..k - 1
      OBVIOUS
    <3>1. i \in DOMAIN r /\ k \in DOMAIN r /\ r[i] <= x /\ r[i] \in Int /\ r[k] \in Int
      BY <1>0 DEF LowPlaces
    <3>2. ~(k <= i)
      BY <1>2, <3>1 DEF Ascending
    <3> QED BY <1>0, <3>1, <3>2
  <2>2. IsFiniteSet(1..k - 1) /\ Cardinality(1..k - 1) = k - 1
    BY CardinalityOfRange
  <2>3. Cardinality(LowPlaces(r, x)) <= k - 1
    BY <2>1, <2>2, FS_Subset
  <2>4. Below(r, x) = Cardinality(LowPlaces(r, x)) /\ Below(r, x) \in Nat
    BY BelowCounts
  <2> QED BY <2>3, <2>4
<1> QED BY <1>1, <1>2

(* Sequences with the same elements in the same places are equal.          *)
LEMMA SameSequence ==
    ASSUME NEW r \in Seq(Int), NEW s \in Seq(Int), NEW n \in Nat, Len(r) = n, Len(s) = n,
           \A i \in 1..n : r[i] = s[i]
    PROVE  r = s
<1>1. r \in [1..n -> Int] /\ s \in [1..n -> Int]
  OBVIOUS
<1> QED BY <1>1

(* An ascending sequence with the same elements is InOrder,                *)
LEMMA AscendingInOrder ==
    ASSUME NEW r \in Seq(Int), NEW s \in Seq(Int), Ascending(r), Same(r, s)
    PROVE  r = InOrder(s)
<1>1. ASSUME NEW k \in 1..Len(s) PROVE r[k] = InOrder(s)[k]
  <2> DEFINE x == r[k]
  <2>1. k \in 1..Len(r) /\ x \in Int /\ x - 1 \in Int /\ InOrder(s)[k] \in Int
    <3>1. Len(r) = Len(s)
      BY DEF Same
    <3>2. InOrder(s)[k] \in Int
      BY InOrderIs
    <3> QED BY <3>1, <3>2
  <2>2. k <= Below(r, x)
    BY <2>1, AscendingBelow
  <2>3. ~(k <= Below(r, x - 1))
    <3>1. ~(r[k] <= x - 1)
      BY <2>1
    <3> HIDE DEF x
    <3> QED BY <2>1, <3>1, AscendingBelow
  <2>4. Below(r, x) = Below(s, x) /\ Below(r, x - 1) = Below(s, x - 1) /\ Below(r, x - 1) \in 0..Len(r)
    BY <2>1, BelowCounts DEF Same
  <2> HIDE DEF x
  <2>5. IsRank(s, k, x)
    BY <2>2, <2>3, <2>4 DEF IsRank
  <2>6. IsRank(s, k, InOrder(s)[k])
    BY InOrderIs
  <2>7. x = InOrder(s)[k]
    BY <2>1, <2>5, <2>6, RankUnique
  <2> QED BY <2>7 DEF x
<1>2. Len(r) = Len(s) /\ InOrder(s) \in Seq(Int) /\ Len(InOrder(s)) = Len(s)
  BY InOrderIs DEF Same
<1> DEFINE o == InOrder(s)
           n == Len(s)
<1>3. \A k \in 1..n : r[k] = o[k]
  BY <1>1
<1>4. n \in Nat /\ Len(r) = n /\ Len(o) = n /\ o \in Seq(Int)
  BY <1>2
<1> HIDE DEF o, n
<1>5. r = o
  BY <1>3, <1>4, SameSequence
<1> QED BY <1>5 DEF o

(* and InOrder is one.                                                     *)
LEMMA InOrderAscends ==
    ASSUME NEW s \in Seq(Int)
    PROVE  Ascending(InOrder(s)) /\ Same(InOrder(s), s)
<1> DEFINE r == InOrder(s)
<1>1. r \in Seq(Int) /\ Len(r) = Len(s) /\ \A k \in 1..Len(s) : IsRank(s, k, r[k])
  BY InOrderIs
<1> HIDE DEF r
<1>2. Len(s) \in Nat /\ DOMAIN r = 1..Len(s) /\ \A k \in 1..Len(s) : r[k] \in Int
  BY <1>1
<1>3. ASSUME NEW k \in 1..Len(s), NEW x \in Int PROVE r[k] <= x <=> k <= Below(s, x)
  <2>1. r[k] \in Int /\ r[k] - 1 \in Int /\ IsRank(s, k, r[k])
    BY <1>1, <1>2
  <2>2. Below(s, x) \in 0..Len(s) /\ Below(s, r[k]) \in 0..Len(s) /\ Below(s, r[k] - 1) \in 0..Len(s)
    BY <2>1, BelowCounts
  <2>3. r[k] <= x => Below(s, r[k]) <= Below(s, x)
    BY <2>1, BelowCounts
  <2>4. x <= r[k] - 1 => Below(s, x) <= Below(s, r[k] - 1)
    BY <2>1, BelowCounts
  <2> QED BY <2>1, <2>2, <2>3, <2>4 DEF IsRank
<1>4. Ascending(r)
  <2> SUFFICES ASSUME NEW i \in DOMAIN r, NEW k \in DOMAIN r, i <= k PROVE r[i] <= r[k]
    BY DEF Ascending
  <2>1. i \in 1..Len(s) /\ k \in 1..Len(s) /\ r[k] \in Int
    BY <1>2
  <2>2. k <= Below(s, r[k]) /\ Below(s, r[k]) \in 0..Len(s)
    BY <1>1, <2>1, BelowCounts DEF IsRank
  <2>3. i <= Below(s, r[k])
    BY <2>1, <2>2
  <2> QED BY <1>3, <2>1, <2>3
<1>5. ASSUME NEW x \in Int PROVE Below(r, x) = Below(s, x)
  <2> DEFINE n == Below(s, x)
  <2>1. n \in 0..Len(s)
    BY BelowCounts
  <2>2. LowPlaces(r, x) = {k \in 1..Len(s) : k <= n}
    BY <1>2, <1>3 DEF LowPlaces
  <2> HIDE DEF n
  <2>3. {k \in 1..Len(s) : k <= n} = 1..n
    BY <1>2, <2>1
  <2>4. Cardinality(1..n) = n
    <3>1. n \in Int /\ 1 <= n + 1
      BY <2>1
    <3>2. n - 1 + 1 = n
      BY <2>1
    <3> QED BY <3>1, <3>2, CardinalityOfRange
  <2>5. Below(r, x) = Cardinality(LowPlaces(r, x))
    BY <1>1, BelowCounts
  <2> QED BY <2>2, <2>3, <2>4, <2>5 DEF n
<1> QED BY <1>1, <1>4, <1>5 DEF Same, r

ShiftedBy(S, m) == {i + m : i \in S}

(* A set shifted by m has as many elements.                                *)
LEMMA ShiftedCount ==
    ASSUME NEW S \in SUBSET Int, IsFiniteSet(S), NEW m \in Int
    PROVE  IsFiniteSet(ShiftedBy(S, m)) /\ Cardinality(ShiftedBy(S, m)) = Cardinality(S)
<1> DEFINE T == {i + m : i \in S}
           f == [i \in S |-> i + m]
<1>1. f \in [S -> T]
  OBVIOUS
<1>2. \A i, k \in S : f[i] = f[k] => i = k
  OBVIOUS
<1>3. \A t \in T : \E i \in S : f[i] = t
  OBVIOUS
<1>4. ExistsBijection(S, T)
  <2> HIDE DEF f, T
  <2>1. f \in Injection(S, T)
    BY <1>1, <1>2 DEF Injection, IsInjective
  <2>2. f \in Surjection(S, T)
    BY <1>1, <1>3 DEF Surjection
  <2>3. f \in Bijection(S, T)
    BY <2>1, <2>2 DEF Bijection
  <2> QED BY <2>3 DEF ExistsBijection
<1> HIDE DEF T
<1>5. IsFiniteSet(T) /\ Cardinality(T) = Cardinality(S)
  BY <1>4, FS_Bijection
<1> QED BY <1>5 DEF T, ShiftedBy

(* The places of a concatenation.                                          *)
LEMMA JoinIs ==
    ASSUME NEW r \in Seq(Int), NEW s \in Seq(Int)
    PROVE  /\ r \o s \in Seq(Int) /\ Len(r \o s) = Len(r) + Len(s)
           /\ DOMAIN (r \o s) = 1..Len(r) + Len(s) /\ Len(r) \in Nat /\ Len(s) \in Nat
           /\ \A i \in 1..Len(r) : (r \o s)[i] = r[i]
           /\ \A i \in 1..Len(s) : (r \o s)[Len(r) + i] = s[i]
<1>1. Len(r) \in Nat /\ Len(s) \in Nat /\ r \o s \in Seq(Int) /\ Len(r \o s) = Len(r) + Len(s)
  OBVIOUS
<1>2. DOMAIN (r \o s) = 1..Len(r) + Len(s)
  BY <1>1
<1>3. \A i \in 1..Len(r) : (r \o s)[i] = r[i]
  OBVIOUS
<1>4. \A i \in 1..Len(s) : (r \o s)[Len(r) + i] = s[i]
  <2> TAKE i \in 1..Len(s)
  <2>1. Len(r) + i \in 1..Len(r) + Len(s) /\ Len(r) + i > Len(r) /\ (Len(r) + i) - Len(r) = i
    BY <1>1
  <2> QED BY <1>1, <2>1
<1> QED BY <1>1, <1>2, <1>3, <1>4

(* The counts of a concatenation are added.                                *)
LEMMA BelowJoin ==
    ASSUME NEW r \in Seq(Int), NEW s \in Seq(Int), NEW x \in Int
    PROVE  Below(r \o s, x) = Below(r, x) + Below(s, x)
<1> DEFINE t == r \o s
           m == Len(r)
           A == LowPlaces(r, x)
           B == LowPlaces(s, x)
           C == {i + m : i \in B}
<1>1. /\ t \in Seq(Int) /\ DOMAIN t = 1..m + Len(s) /\ m \in Nat /\ Len(s) \in Nat
      /\ \A i \in 1..m : t[i] = r[i]
      /\ \A i \in 1..Len(s) : t[m + i] = s[i]
  BY JoinIs
<1>2. DOMAIN r = 1..m /\ DOMAIN s = 1..Len(s)
  OBVIOUS
<1> HIDE DEF t, m
<1>3. LowPlaces(t, x) = A \cup C /\ A \cap C = {}
  <2>1. ASSUME NEW i \in LowPlaces(t, x) PROVE i \in A \cup C
    <3>1. i \in 1..m + Len(s) /\ t[i] <= x
      BY <1>1 DEF LowPlaces
    <3>2. CASE i <= m
      <4>1. i \in 1..m
        BY <1>1, <3>1, <3>2
      <4> QED BY <1>1, <1>2, <3>1, <4>1 DEF LowPlaces
    <3>3. CASE i > m
      <4>1. i - m \in 1..Len(s) /\ m + (i - m) = i /\ (i - m) + m = i
        BY <1>1, <3>1, <3>3
      <4>2. s[i - m] = t[i]
        BY <1>1, <4>1
      <4>3. i - m \in B
        BY <1>2, <3>1, <4>1, <4>2 DEF LowPlaces
      <4> QED BY <4>1, <4>3
    <3> QED BY <1>1, <3>1, <3>2, <3>3
  <2>2. ASSUME NEW i \in A PROVE i \in LowPlaces(t, x) /\ i \in 1..m
    <3>1. i \in 1..m /\ r[i] <= x
      BY <1>2 DEF LowPlaces
    <3>2. i \in 1..m + Len(s) /\ t[i] = r[i]
      BY <1>1, <3>1
    <3> QED BY <1>1, <3>1, <3>2 DEF LowPlaces
  <2>3. ASSUME NEW i \in C PROVE i \in LowPlaces(t, x) /\ i \notin 1..m
    <3>1. PICK k \in B : i = k + m
      OBVIOUS
    <3>2. k \in 1..Len(s) /\ s[k] <= x
      BY <1>2 DEF LowPlaces
    <3>3. i \in 1..m + Len(s) /\ i = m + k /\ i > m
      BY <1>1, <3>1, <3>2
    <3>4. t[i] = s[k]
      BY <1>1, <3>2, <3>3
    <3> QED BY <1>1, <3>2, <3>3, <3>4 DEF LowPlaces
  <2> QED BY <2>1, <2>2, <2>3
<1>4. /\ IsFiniteSet(A) /\ Below(r, x) = Cardinality(A) /\ IsFiniteSet(B) /\ Below(s, x) = Cardinality(B)
      /\ Below(t, x) = Cardinality(LowPlaces(t, x))
  BY <1>1, BelowCounts
<1>5. B \in SUBSET Int
  BY <1>2 DEF LowPlaces
<1> HIDE DEF A, B
<1>6. IsFiniteSet(C) /\ Cardinality(C) = Cardinality(B)
  <2>1. m \in Int
    BY <1>1
  <2>2. IsFiniteSet(ShiftedBy(B, m)) /\ Cardinality(ShiftedBy(B, m)) = Cardinality(B)
    BY <1>4, <1>5, <2>1, ShiftedCount
  <2> QED BY <2>2 DEF ShiftedBy
<1> HIDE DEF C
<1>7. Cardinality(A \cup C) = Cardinality(A) + Cardinality(C)
  <2> DEFINE ca == Cardinality(A)
             cb == Cardinality(C)
             cc == Cardinality(A \cap C)
             cu == Cardinality(A \cup C)
  <2>1. cu = ca + cb - cc
    BY <1>4, <1>6, FS_Union
  <2>2. cc = 0
    BY <1>3, FS_EmptySet
  <2>3. ca \in Nat /\ cb \in Nat
    BY <1>4, <1>6, FS_CardinalityType
  <2> HIDE DEF ca, cb, cc, cu
  <2>4. cu = ca + cb
    BY <2>1, <2>2, <2>3
  <2> QED BY <2>4 DEF ca, cb, cu
<1>8. Below(t, x) = Cardinality(A \cup C)
  BY <1>3, <1>4
<1> QED BY <1>4, <1>6, <1>7, <1>8 DEF t

(* No element of r is greater than one of s.                               *)
NoneGreater(r, s) == \A i \in 1..Len(r) : \A k \in 1..Len(s) : r[i] <= s[k]

(* Two ascending sequences in order.                                       *)
LEMMA JoinAscends ==
    ASSUME NEW r \in Seq(Int), NEW s \in Seq(Int), Ascending(r), Ascending(s), NoneGreater(r, s)
    PROVE  Ascending(r \o s)
<1> DEFINE t == r \o s
           m == Len(r)
           n == Len(s)
<1>1. /\ t \in Seq(Int) /\ DOMAIN t = 1..m + n /\ m \in Nat /\ n \in Nat
      /\ \A i \in 1..m : t[i] = r[i]
      /\ \A i \in 1..n : t[m + i] = s[i]
  BY JoinIs
<1>2. DOMAIN r = 1..m /\ DOMAIN s = 1..n
  OBVIOUS
<1>2a. NoneGreater(r, s) <=> \A i \in 1..m : \A k \in 1..n : r[i] <= s[k]
  BY DEF NoneGreater
<1> HIDE DEF t, m, n
<1>3. ASSUME NEW i \in DOMAIN t
      PROVE  \/ i \in 1..m /\ t[i] = r[i]
             \/ i - m \in 1..n /\ t[i] = s[i - m] /\ i > m
  <2>1. CASE i <= m
    <3>1. i \in 1..m
      BY <1>1, <2>1
    <3> QED BY <1>1, <3>1
  <2>2. CASE ~(i <= m)
    <3>1. i - m \in 1..n /\ m + (i - m) = i /\ i > m
      BY <1>1, <2>2
    <3> QED BY <1>1, <3>1
  <2> QED BY <2>1, <2>2
<1>4. ASSUME NEW i \in DOMAIN t, NEW k \in DOMAIN t, i <= k PROVE t[i] <= t[k]
  <2>1. CASE i \in 1..m /\ t[i] = r[i] /\ k \in 1..m /\ t[k] = r[k]
    BY <1>2, <1>4, <2>1 DEF Ascending
  <2>2. CASE i \in 1..m /\ t[i] = r[i] /\ k - m \in 1..n /\ t[k] = s[k - m]
    BY <1>2a, <2>2
  <2>3. CASE i - m \in 1..n /\ t[i] = s[i - m] /\ k - m \in 1..n /\ t[k] = s[k - m]
    <3>1. i - m <= k - m
      BY <1>1, <1>4
    <3> QED BY <1>2, <2>3, <3>1 DEF Ascending
  <2>4. ~(i > m /\ k \in 1..m)
    BY <1>1, <1>4
  <2>5. /\ \/ i \in 1..m /\ t[i] = r[i]
           \/ i - m \in 1..n /\ t[i] = s[i - m] /\ i > m
        /\ \/ k \in 1..m /\ t[k] = r[k]
           \/ k - m \in 1..n /\ t[k] = s[k - m] /\ k > m
    BY <1>3
  <2> QED BY <2>1, <2>2, <2>3, <2>4, <2>5
<1>5. Ascending(t)
  BY <1>4 DEF Ascending
<1> QED BY <1>5 DEF t

(* A sequence split after n elements.                                      *)
LEMMA SplitIs ==
    ASSUME NEW s \in Seq(Int), NEW n \in 0..Len(s)
    PROVE  /\ Prefix(s, n) \in Seq(Int) /\ Len(Prefix(s, n)) = n
           /\ Suffix(s, n) \in Seq(Int) /\ Len(Suffix(s, n)) = Len(s) - n
           /\ \A i \in 1..n : Prefix(s, n)[i] = s[i]
           /\ \A i \in 1..Len(s) - n : Suffix(s, n)[i] = s[n + i]
           /\ Prefix(s, n) \o Suffix(s, n) = s
<1> DEFINE m == Len(s)
           p == Prefix(s, n)
           q == Suffix(s, n)
<1>1. s \in [1..m -> Int] /\ m \in Nat
  OBVIOUS
<1>2. p \in Seq(Int) /\ Len(p) = n /\ \A i \in 1..n : p[i] = s[i]
  <2>1. 1 \in Int /\ n \in Int /\ n - 1 + 1 = n /\ n <= m
    OBVIOUS
  <2>2. p = [i \in 1..n |-> s[i]]
    <3>1. p = [i \in 1..n |-> s[1 + i - 1]]
      BY <2>1 DEF Prefix
    <3>2. \A i \in 1..n : 1 + i - 1 = i
      OBVIOUS
    <3> QED BY <3>1, <3>2
  <2> HIDE DEF p, m
  <2>3. \A i \in 1..n : s[i] \in Int
    BY <1>1, <2>1
  <2>4. p \in [1..n -> Int]
    BY <2>2, <2>3
  <2> QED BY <2>1, <2>2, <2>4
<1>3. q \in Seq(Int) /\ Len(q) = m - n /\ \A i \in 1..m - n : q[i] = s[n + i]
  <2> DEFINE l == m - n
  <2>1. n \in Nat /\ l \in Nat /\ n <= m
    OBVIOUS
  <2>2. q = [i \in 1..l |-> s[n + i]]
    <3>1. q = [i \in 1..l |-> s[n + 1 + i - 1]]
      BY <2>1 DEF Suffix
    <3>2. \A i \in 1..l : n + 1 + i - 1 = n + i
      BY <2>1
    <3> QED BY <3>1, <3>2
  <2>3. \A i \in 1..l : s[n + i] \in Int
    <3> TAKE i \in 1..l
    <3>1. n + i \in 1..m
      BY <1>1, <2>1
    <3> QED BY <1>1, <3>1
  <2> HIDE DEF q, m, l
  <2>4. q \in [1..l -> Int]
    BY <2>2, <2>3
  <2>5. q \in Seq(Int) /\ Len(q) = l
    BY <2>1, <2>4
  <2>6. \A i \in 1..l : q[i] = s[n + i]
    BY <2>2
  <2> QED BY <2>5, <2>6 DEF l
<1> HIDE DEF p, q
<1>4. p \o q = s
  <2>1. /\ p \o q \in Seq(Int) /\ Len(p \o q) = n + (m - n)
        /\ \A i \in 1..n : (p \o q)[i] = p[i]
        /\ \A i \in 1..m - n : (p \o q)[n + i] = q[i]
    <3>1. /\ p \o q \in Seq(Int) /\ Len(p \o q) = Len(p) + Len(q)
          /\ \A i \in 1..Len(p) : (p \o q)[i] = p[i]
          /\ \A i \in 1..Len(q) : (p \o q)[Len(p) + i] = q[i]
      <4>1. p \in Seq(Int) /\ q \in Seq(Int)
        BY <1>2, <1>3
      <4> QED BY <4>1, JoinIs
    <3>2. Len(p) = n /\ Len(q) = m - n
      BY <1>2, <1>3
    <3> QED BY <3>1, <3>2
  <2>2. n + (m - n) = m /\ n \in Nat /\ n <= m
    BY <1>1
  <2>3. ASSUME NEW i \in 1..m PROVE (p \o q)[i] = s[i]
    <3>1. CASE i <= n
      <4>1. i \in 1..n
        BY <2>2, <3>1
      <4> QED BY <1>2, <2>1, <4>1
    <3>2. CASE ~(i <= n)
      <4>1. i - n \in 1..m - n /\ n + (i - n) = i
        BY <1>1, <2>2, <3>2
      <4>2. (p \o q)[n + (i - n)] = q[i - n] /\ q[i - n] = s[n + (i - n)]
        BY <1>3, <2>1, <4>1
      <4> QED BY <4>1, <4>2
    <3> QED BY <3>1, <3>2
  <2>4. Len(p \o q) = Len(s)
    BY <2>1, <2>2
  <2> DEFINE z == p \o q
  <2>5. z \in Seq(Int) /\ Len(z) = m /\ \A i \in 1..m : z[i] = s[i]
    BY <2>1, <2>3, <2>4
  <2> HIDE DEF z
  <2>6. z = s
    <3>1. z \in [1..m -> Int]
      BY <2>5
    <3> HIDE DEF m
    <3> QED BY <1>1, <2>5, <3>1
  <2> QED BY <2>6 DEF z
<1> QED BY <1>2, <1>3, <1>4 DEF p, q

(* Both parts of an ascending sequence ascend.                             *)
LEMMA SplitAscends ==
    ASSUME NEW s \in Seq(Int), NEW n \in 0..Len(s), Ascending(s)
    PROVE  Ascending(Prefix(s, n)) /\ Ascending(Suffix(s, n)) /\ NoneGreater(Prefix(s, n), Suffix(s, n))
<1> DEFINE m == Len(s)
           p == Prefix(s, n)
           q == Suffix(s, n)
<1>1. /\ p \in Seq(Int) /\ Len(p) = n /\ q \in Seq(Int) /\ Len(q) = m - n
      /\ \A i \in 1..n : p[i] = s[i]
      /\ \A i \in 1..m - n : q[i] = s[n + i]
  BY SplitIs
<1>2. DOMAIN p = 1..n /\ DOMAIN q = 1..m - n /\ DOMAIN s = 1..m /\ n \in Nat /\ m \in Nat /\ n <= m
  BY <1>1
<1> HIDE DEF p, q, m
<1>3. Ascending(p)
  <2> SUFFICES ASSUME NEW i \in 1..n, NEW k \in 1..n, i <= k PROVE p[i] <= p[k]
    BY <1>2 DEF Ascending
  <2>1. i \in 1..m /\ k \in 1..m
    BY <1>2
  <2> QED BY <1>1, <1>2, <2>1 DEF Ascending
<1>4. Ascending(q)
  <2> SUFFICES ASSUME NEW i \in 1..m - n, NEW k \in 1..m - n, i <= k PROVE q[i] <= q[k]
    BY <1>2 DEF Ascending
  <2>1. n + i \in 1..m /\ n + k \in 1..m /\ n + i <= n + k
    BY <1>2
  <2> QED BY <1>1, <1>2, <2>1 DEF Ascending
<1>5. NoneGreater(p, q)
  <2> SUFFICES ASSUME NEW i \in 1..n, NEW k \in 1..m - n PROVE p[i] <= q[k]
    BY <1>1 DEF NoneGreater
  <2>1. i \in 1..m /\ n + k \in 1..m /\ i <= n + k
    BY <1>2
  <2> QED BY <1>1, <1>2, <2>1 DEF Ascending
<1> QED BY <1>3, <1>4, <1>5 DEF p, q

(***************************************************************************)
(* The loops and the recursions of the algorithms: each is a function of   *)
(* the number of its turns, or of what decreases, and this is its equation *)
(* at m.  That there is such a function is one lemma for all of them.      *)
(***************************************************************************)
MovedRow(g, m, s, t) ==
    IF m = 0 THEN [i |-> 0, k |-> 0, out |-> <<>>] ELSE MoveOne(g[m - 1], s, t)

MidRow(g, m, s, t, half) ==
    IF m = 0 THEN [from1 |-> 0, to1 |-> Len(s), from2 |-> 0, to2 |-> Len(t)]
    ELSE MidPoint(g[m - 1], s, t, half)

MergeTasksRow(g, m) ==
    [p \in Seq(Int) \X Seq(Int) |->
        IF m <= 1 \/ (Len(p[1]) <= 1 /\ Len(p[2]) <= 1) THEN _Merge_chunks(p[1], p[2])
        ELSE g[m \div 2][<<Prefix(p[1], _Search_mid_point(p[1], p[2])[1]),
                            Prefix(p[2], _Search_mid_point(p[1], p[2])[2])>>]
               \o g[m \div 2][<<Suffix(p[1], _Search_mid_point(p[1], p[2])[1]),
                                 Suffix(p[2], _Search_mid_point(p[1], p[2])[2])>>]]

Middle(p) == Len(Longer(p[1], p[2])) \div 2
Lower(p) == LowerBound(Shorter(p[1], p[2]), Longer(p[1], p[2])[Middle(p) + 1])
MergeRow(g, m) ==
    [p \in PairsOf(m) |->
        IF Len(Shorter(p[1], p[2])) < MergeThreshold THEN StdMerge(p[1], p[2])
        ELSE g[Middle(p) + Lower(p)][<<Prefix(Longer(p[1], p[2]), Middle(p)),
                                        Prefix(Shorter(p[1], p[2]), Lower(p))>>]
               \o g[m - (Middle(p) + Lower(p))][<<Suffix(Longer(p[1], p[2]), Middle(p)),
                                                   Suffix(Shorter(p[1], p[2]), Lower(p))>>]]

TwoWayRow(g, m, a, base, size) ==
    IF m = 0 THEN [a |-> a, i |-> 1, j |-> size - 1, met |-> FALSE]
    ELSE ScanBoth(g[m - 1], base, size)

MoveRow(g, m, s, base) == IF m = 0 THEN s ELSE MoveRight(g[m - 1], base)

ThreeWayRow(g, m, a, base, size, j) ==
    IF m = 0 THEN [a |-> a, i |-> FromLeft(a, base, size, 1), j |-> j, k |-> j]
    ELSE ScanMiddle(g[m - 1], base)

SortsHere(m, size, div, chunk) == \/ m = 0 \/ size <= chunk \/ size <= 3
                                  \/ chunk >= _FINE_GRAIN_CHUNK_SIZE /\ div <= 1
UpperTasks(div, slow) ==
    IF slow /\ div < _MAX_NUM_TASKS_PER_CORE THEN (div \div 2) \div 2 ELSE div \div 2
SortBelow(h, split, base, size, div, slow) ==
    h[<<h[<<split[1], base, split[2], div \div 2>>], base + split[3], size - split[3],
        UpperTasks(div, slow)>>]
SortRow(g, m, chunk, slow) ==
    [p \in Seq(Int) \X Nat \X Nat \X Nat |->
        IF SortsHere(m, p[3], p[4], chunk) THEN StdSort(p[1], p[2], p[3])
        ELSE SortBelow(g[m - 1], Partition(p[1], p[2], p[3], p[4], chunk), p[2], p[3], p[4], slow)]

TurnsRow(g, m) == IF m \div 2 = 0 THEN 0 ELSE 1 + g[m \div 2]

AlignRow(g, m) == IF m = 0 THEN 0 ELSE (IF m % 4 = 0 THEN 0 ELSE 1) + 4 * g[m \div 4]

PowerRow(g, m) == IF m = 0 THEN 1 ELSE Base * g[m - 1]

Leaf(a, m, base, size, div) ==
    IF LeftTurns(div) % 2 = 1 THEN <<<<a, Put(m[2], base, Part(a, base, size))>>, TRUE>>
    ELSE <<<<a, m[2]>>, FALSE>>
MergedHalves(a, base, size, div) ==
    _Parallel_merge(Part(a, base, size \div 2), Part(a, base + size \div 2, size - size \div 2), div)
MergedInto(upper, base, size, div) ==
    IF upper[2] THEN <<<<Put(upper[1][1], base, MergedHalves(upper[1][2], base, size, div)), upper[1][2]>>, FALSE>>
    ELSE <<<<upper[1][1], Put(upper[1][2], base, MergedHalves(upper[1][1], base, size, div))>>, TRUE>>
HalvesOf(h, m, base, size) ==
    h[<<h[<<m, base, size \div 2>>][1], base + size \div 2, size - size \div 2>>]
BufferRow(g, m, chunk) ==
    [p \in (Seq(Int) \X Seq(Int)) \X Nat \X Nat |->
        IF m <= 1 \/ p[3] <= chunk
        THEN Leaf(_Parallel_quicksort_impl(p[1][1], p[2], p[3], _MAX_NUM_TASKS_PER_CORE, chunk, FALSE),
                  p[1], p[2], p[3], m)
        ELSE MergedInto(HalvesOf(g[m \div 2], p[1], p[2], p[3]), p[2], p[3], m)]

PassTurn(s, base, size, radix) ==
    [m |-> [s.m EXCEPT ![OtherBuffer(s.at)] =
                _Integer_radix_pass(s.m[s.at], s.m[OtherBuffer(s.at)], base, size, radix)],
     at |-> OtherBuffer(s.at)]
PassesRow(g, n, m, at, base, size) ==
    IF n = 0 THEN [m |-> m, at |-> at] ELSE PassTurn(g[n - 1], base, size, n - 1)

FirstPass(m, at, base, size, radix, threads) ==
    [m EXCEPT ![OtherBuffer(at)] = Pass(m[at], m[OtherBuffer(at)], base, size, radix, threads)]
NextChunk(h, c, a, at, base, size, radix, deep, n) ==
    h[<<c, OtherBuffer(at), base + ChunkBegin(a, base, size, radix, n - 1),
        ChunkBegin(a, base, size, radix, n) - ChunkBegin(a, base, size, radix, n - 1), deep + 1>>]
ChunksRow(g, n, h, m, at, base, size, radix, deep, threads) ==
    IF n = 0 THEN FirstPass(m, at, base, size, radix, threads)
    ELSE NextChunk(h, g[n - 1], m[at], at, base, size, radix, deep, n)
SortedChunks(h, m, at, base, size, radix, deep, threads) ==
    (CHOOSE g : g = [n \in 0..Base |-> ChunksRow(g, n, h, m, at, base, size, radix, deep, threads)])[Base]
Various(a, base, size, radix) == Cardinality({_Radix_key(a[base + i], radix) : i \in 0..size - 1}) > 1
RadixRow(g, n, threads, chunk) ==
    [p \in (Seq(Elements) \X Seq(Elements)) \X (1..2) \X Nat \X Nat \X Nat |->
        IF p[4] <= chunk \/ n < 1 THEN _Integer_radix_sort(p[1], p[2], p[3], p[4], n, p[5])
        ELSE IF Various(p[1][p[2]], p[3], p[4], n)
             THEN SortedChunks(g[n - 1], p[1], p[2], p[3], p[4], n, p[5], threads)
             ELSE g[n - 1][<<p[1], p[2], p[3], p[4], p[5]>>]]

DigitsRow(g, m) == IF m \div Base = 0 THEN 0 ELSE 1 + g[m \div Base]

Row(kind, g, m, arg) ==
    CASE kind = "moved"       -> MovedRow(g, m, arg[1], arg[2])
      [] kind = "mid"         -> MidRow(g, m, arg[1], arg[2], arg[3])
      [] kind = "merge_tasks" -> MergeTasksRow(g, m)
      [] kind = "merge"       -> MergeRow(g, m)
      [] kind = "two_way"     -> TwoWayRow(g, m, arg[1], arg[2], arg[3])
      [] kind = "move"        -> MoveRow(g, m, arg[1], arg[2])
      [] kind = "three_way"   -> ThreeWayRow(g, m, arg[1], arg[2], arg[3], arg[4])
      [] kind = "sort"        -> SortRow(g, m, arg[1], arg[2])
      [] kind = "turns"       -> TurnsRow(g, m)
      [] kind = "align"       -> AlignRow(g, m)
      [] kind = "buffered"    -> BufferRow(g, m, arg[1])
      [] kind = "power"       -> PowerRow(g, m)
      [] kind = "passes"      -> PassesRow(g, m, arg[1], arg[2], arg[3], arg[4])
      [] kind = "chunks"      -> ChunksRow(g, m, arg[1], arg[2], arg[3], arg[4], arg[5], arg[6],
                                           arg[7], arg[8])
      [] kind = "radix"       -> RadixRow(g, m, arg[1], arg[2])
      [] kind = "digits"      -> DigitsRow(g, m)

(* The equation at m says nothing of what is not below m.                  *)
Determined(kind, arg) ==
    \A f, g : \A m \in Nat :
        (\A j \in Nat : j < m => f[j] = g[j]) => Row(kind, f, m, arg) = Row(kind, g, m, arg)

HasRows(kind, arg, n) == \E g : g = [m \in 0..n |-> Row(kind, g, m, arg)]

(* By induction, whatever the recursion is.                                *)
LEMMA RowsExist ==
    ASSUME NEW kind, NEW arg, NEW n \in Nat, Determined(kind, arg)
    PROVE  HasRows(kind, arg, n)
<1> DEFINE S == {k \in Nat : \E g : g = [m \in 0..k |-> Row(kind, g, m, arg)]}
<1>1. 0 \in S
  <2> DEFINE g == [m \in 0..0 |-> Row(kind, {}, 0, arg)]
  <2>1. Row(kind, g, 0, arg) = Row(kind, {}, 0, arg)
    <3>1. \A j \in Nat : ~(j < 0)
      OBVIOUS
    <3> HIDE DEF g
    <3> QED BY <3>1 DEF Determined
  <2>2. \A m \in 0..0 : m = 0
    OBVIOUS
  <2>3. g = [m \in 0..0 |-> Row(kind, g, m, arg)]
    BY <2>1, <2>2
  <2> QED BY <2>3
<1>2. ASSUME NEW k \in S PROVE k + 1 \in S
  <2>1. PICK g : g = [m \in 0..k |-> Row(kind, g, m, arg)]
    BY <1>2
  <2> DEFINE f == [m \in 0..k + 1 |-> IF m = k + 1 THEN Row(kind, g, m, arg) ELSE g[m]]
  <2>2. ASSUME NEW m \in 0..k + 1 PROVE f[m] = Row(kind, f, m, arg)
    <3>1. ASSUME NEW j \in Nat, j < m PROVE f[j] = g[j]
      <4>1. j \in 0..k + 1 /\ j # k + 1
        BY <1>2, <3>1
      <4> QED BY <4>1
    <3>2. f[m] = Row(kind, g, m, arg)
      <4>1. CASE m = k + 1
        BY <4>1
      <4>2. CASE m # k + 1
        <5>1. m \in 0..k
          BY <1>2, <4>2
        <5> QED BY <2>1, <4>2, <5>1
      <4> QED BY <4>1, <4>2
    <3> HIDE DEF f
    <3>3. m \in Nat
      OBVIOUS
    <3>4. Row(kind, f, m, arg) = Row(kind, g, m, arg)
      BY <3>1, <3>3 DEF Determined
    <3> QED BY <3>2, <3>4
  <2> HIDE DEF f
  <2>3. f = [m \in 0..k + 1 |-> f[m]]
    BY DEF f
  <2>4. f = [m \in 0..k + 1 |-> Row(kind, f, m, arg)]
    BY <2>2, <2>3
  <2> QED BY <2>4
<1>3. S \in SUBSET Nat
  OBVIOUS
<1> HIDE DEF S
<1>4. n \in S
  BY <1>1, <1>2, <1>3, FromPrevious
<1> QED BY <1>4 DEF S, HasRows

(* The turn before.                                                        *)
LEMMA BelowIsBefore == ASSUME NEW m \in Nat, m # 0 PROVE m - 1 \in Nat /\ m - 1 < m
OBVIOUS

(* A loop, whose state at m depends on the one at m - 1 only.              *)
Stepwise(kind, arg) ==
    \A f, g : \A m \in Nat :
        (m # 0 => f[m - 1] = g[m - 1]) => Row(kind, f, m, arg) = Row(kind, g, m, arg)

(* So a loop has a function of its turns.                                  *)
LEMMA LoopExists ==
    ASSUME NEW kind, NEW arg, NEW n \in Nat, Stepwise(kind, arg)
    PROVE  HasRows(kind, arg, n)
<1>1. Determined(kind, arg)
  <2> SUFFICES ASSUME NEW f, NEW g, NEW m \in Nat, \A j \in Nat : j < m => f[j] = g[j]
               PROVE  Row(kind, f, m, arg) = Row(kind, g, m, arg)
    BY DEF Determined
  <2>1. m # 0 => f[m - 1] = g[m - 1]
    BY BelowIsBefore
  <2> QED BY <2>1 DEF Stepwise
<1> QED BY <1>1, RowsExist

(* What a number is divided by decreases it.                               *)
LEMMA QuotientIsLess ==
    ASSUME NEW m \in Nat, NEW b \in Nat, b >= 2, m \div b # 0
    PROVE  m \div b \in Nat /\ m \div b < m
<1> DEFINE q == m \div b
           r == m % b
<1>1. q \in Nat /\ r \in 0..(b - 1) /\ m = b * q + r
  BY DivModIs
<1> HIDE DEF q, r
<1>2. q > 0
  BY <1>1 DEF q
<1>3. q * 2 <= q * b /\ q * b = b * q /\ q * b \in Int
  <2>1. 2 \in Int /\ b \in Int /\ 2 <= b
    OBVIOUS
  <2> QED BY <1>1, <1>2, <2>1, ProductOrder
<1>4. q < m
  <2> DEFINE p == b * q
  <2>1. 2 * q <= p /\ p \in Int /\ m = p + r
    BY <1>1, <1>3
  <2> HIDE DEF p
  <2> QED BY <1>1, <1>2, <2>1
<1> QED BY <1>1, <1>4 DEF q

(* The loop of _Merge_chunks.                                              *)
LEMMA MovedExists ==
    ASSUME NEW s \in Seq(Int), NEW t \in Seq(Int), NEW n \in Nat
    PROVE  \E g : g = [m \in 0..n |-> MovedRow(g, m, s, t)]
<1> DEFINE arg == <<s, t>>
<1>1. \A g, m : Row("moved", g, m, arg) = MovedRow(g, m, s, t)
  BY DEF Row
<1> HIDE DEF arg
<1>2. Determined("moved", arg)
  <2> SUFFICES ASSUME NEW f, NEW g, NEW m \in Nat, \A j \in Nat : j < m => f[j] = g[j]
               PROVE  MovedRow(f, m, s, t) = MovedRow(g, m, s, t)
    BY <1>1 DEF Determined
  <2> QED BY BelowIsBefore DEF MovedRow
<1>3. HasRows("moved", arg, n)
  BY <1>2, RowsExist
<1>4. PICK g : g = [m \in 0..n |-> Row("moved", g, m, arg)]
  BY <1>3 DEF HasRows
<1> QED BY <1>1, <1>4

(* The loop of _Search_mid_point.                                          *)
LEMMA MidExists ==
    ASSUME NEW s \in Seq(Int), NEW t \in Seq(Int), NEW half \in Nat, NEW n \in Nat
    PROVE  \E g : g = [m \in 0..n |-> MidRow(g, m, s, t, half)]
<1> DEFINE arg == <<s, t, half>>
<1>1. \A g, m : Row("mid", g, m, arg) = MidRow(g, m, s, t, half)
  BY DEF Row
<1> HIDE DEF arg
<1>2. Determined("mid", arg)
  <2> SUFFICES ASSUME NEW f, NEW g, NEW m \in Nat, \A j \in Nat : j < m => f[j] = g[j]
               PROVE  MidRow(f, m, s, t, half) = MidRow(g, m, s, t, half)
    BY <1>1 DEF Determined
  <2> QED BY BelowIsBefore DEF MidRow
<1>3. HasRows("mid", arg, n)
  BY <1>2, RowsExist
<1>4. PICK g : g = [m \in 0..n |-> Row("mid", g, m, arg)]
  BY <1>3 DEF HasRows
<1> QED BY <1>1, <1>4

(* The recursion of _Parallel_merge.                                       *)
LEMMA MergeTasksExists ==
    ASSUME NEW n \in Nat
    PROVE  \E g : g = [m \in 0..n |-> MergeTasksRow(g, m)]
<1>1. \A g, m : Row("merge_tasks", g, m, 0) = MergeTasksRow(g, m)
  BY DEF Row
<1>2. Determined("merge_tasks", 0)
  <2> SUFFICES ASSUME NEW f, NEW g, NEW m \in Nat, \A j \in Nat : j < m => f[j] = g[j]
               PROVE  MergeTasksRow(f, m) = MergeTasksRow(g, m)
    BY <1>1 DEF Determined
  <2>1. CASE m <= 1
    <3> DEFINE D == Seq(Int) \X Seq(Int)
    <3> HIDE DEF D
    <3>1. \A h : MergeTasksRow(h, m) = [p \in D |-> _Merge_chunks(p[1], p[2])]
      BY <2>1 DEF MergeTasksRow, D
    <3> QED BY <3>1
  <2>2. CASE ~(m <= 1)
    <3>1. f[m \div 2] = g[m \div 2]
      BY <2>2, HalfIs
    <3> QED BY <3>1 DEF MergeTasksRow
  <2> QED BY <2>1, <2>2
<1>3. HasRows("merge_tasks", 0, n)
  BY <1>2, RowsExist
<1>4. PICK g : g = [m \in 0..n |-> Row("merge_tasks", g, m, 0)]
  BY <1>3 DEF HasRows
<1> QED BY <1>1, <1>4

HasTwoWay(n, a, base, size) == \E g : g = [m \in 0..n |-> TwoWayRow(g, m, a, base, size)]

(* The loop of the partition in two.                                       *)
LEMMA TwoWayExists ==
    ASSUME NEW a, NEW base, NEW size, NEW n \in Nat
    PROVE  HasTwoWay(n, a, base, size)
<1> DEFINE arg == <<a, base, size>>
<1>1. \A g, m : Row("two_way", g, m, arg) = TwoWayRow(g, m, a, base, size)
  BY DEF Row
<1> HIDE DEF arg
<1>2. Stepwise("two_way", arg)
  BY <1>1 DEF Stepwise, TwoWayRow
<1>3. HasRows("two_way", arg, n)
  BY <1>2, LoopExists
<1>4. PICK g : g = [m \in 0..n |-> Row("two_way", g, m, arg)]
  BY <1>3 DEF HasRows
<1>5. \E h : h = [m \in 0..n |-> TwoWayRow(h, m, a, base, size)]
  BY <1>1, <1>4
<1> QED BY <1>5 DEF HasTwoWay

HasMove(n, s, base) == \E g : g = [m \in 0..n |-> MoveRow(g, m, s, base)]

(* The loop that moves what is equal to the right.                         *)
LEMMA MoveExists ==
    ASSUME NEW s, NEW base, NEW n \in Nat
    PROVE  HasMove(n, s, base)
<1> DEFINE arg == <<s, base>>
<1>1. \A g, m : Row("move", g, m, arg) = MoveRow(g, m, s, base)
  BY DEF Row
<1> HIDE DEF arg
<1>2. Stepwise("move", arg)
  BY <1>1 DEF Stepwise, MoveRow
<1>3. HasRows("move", arg, n)
  BY <1>2, LoopExists
<1>4. PICK g : g = [m \in 0..n |-> Row("move", g, m, arg)]
  BY <1>3 DEF HasRows
<1>5. \E h : h = [m \in 0..n |-> MoveRow(h, m, s, base)]
  BY <1>1, <1>4
<1> QED BY <1>5 DEF HasMove

HasThreeWay(n, a, base, size, j) == \E g : g = [m \in 0..n |-> ThreeWayRow(g, m, a, base, size, j)]

(* The loop of the partition in three.                                     *)
LEMMA ThreeWayExists ==
    ASSUME NEW a, NEW base, NEW size, NEW j, NEW n \in Nat
    PROVE  HasThreeWay(n, a, base, size, j)
<1> DEFINE arg == <<a, base, size, j>>
<1>1. \A g, m : Row("three_way", g, m, arg) = ThreeWayRow(g, m, a, base, size, j)
  BY DEF Row
<1> HIDE DEF arg
<1>2. Stepwise("three_way", arg)
  BY <1>1 DEF Stepwise, ThreeWayRow
<1>3. HasRows("three_way", arg, n)
  BY <1>2, LoopExists
<1>4. PICK g : g = [m \in 0..n |-> Row("three_way", g, m, arg)]
  BY <1>3 DEF HasRows
<1>5. \E h : h = [m \in 0..n |-> ThreeWayRow(h, m, a, base, size, j)]
  BY <1>1, <1>4
<1> QED BY <1>5 DEF HasThreeWay

HasSort(n, chunk, slow) == \E g : g = [m \in 0..n |-> SortRow(g, m, chunk, slow)]

(* The recursion of quicksort.                                             *)
LEMMA SortExists ==
    ASSUME NEW chunk, NEW slow, NEW n \in Nat
    PROVE  HasSort(n, chunk, slow)
<1> DEFINE arg == <<chunk, slow>>
<1>1. \A g, m : Row("sort", g, m, arg) = SortRow(g, m, chunk, slow)
  BY DEF Row
<1> HIDE DEF arg
<1>2. Stepwise("sort", arg)
  <2> SUFFICES ASSUME NEW f, NEW g, NEW m \in Nat, m # 0 => f[m - 1] = g[m - 1]
               PROVE  SortRow(f, m, chunk, slow) = SortRow(g, m, chunk, slow)
    BY <1>1 DEF Stepwise
  <2>1. CASE m = 0
    <3> DEFINE D == Seq(Int) \X Nat \X Nat \X Nat
    <3> HIDE DEF D
    <3>1. \A p : SortsHere(m, p[3], p[4], chunk)
      BY <2>1 DEF SortsHere
    <3>2. \A h : SortRow(h, m, chunk, slow) = [p \in D |-> StdSort(p[1], p[2], p[3])]
      BY <3>1 DEF SortRow, D
    <3> QED BY <3>2
  <2>2. CASE m # 0
    BY <2>2 DEF SortRow
  <2> QED BY <2>1, <2>2
<1>3. HasRows("sort", arg, n)
  BY <1>2, LoopExists
<1>4. PICK g : g = [m \in 0..n |-> Row("sort", g, m, arg)]
  BY <1>3 DEF HasRows
<1>5. \E h : h = [m \in 0..n |-> SortRow(h, m, chunk, slow)]
  BY <1>1, <1>4
<1> QED BY <1>5 DEF HasSort

(* The equations determine the function: a longer one is the shorter one   *)
(* on its domain.                                                          *)
LEMMA RowsAgree ==
    ASSUME NEW kind, NEW arg, NEW n \in Nat, NEW k \in Nat, NEW f, NEW g, Determined(kind, arg),
           f = [m \in 0..n |-> Row(kind, f, m, arg)], g = [m \in 0..k |-> Row(kind, g, m, arg)]
    PROVE  \A m \in Nat : m <= n /\ m <= k => f[m] = g[m]
<1> DEFINE S == {m \in Nat : m <= n /\ m <= k => f[m] = g[m]}
<1>1. ASSUME NEW m \in Nat, \A j \in Nat : j < m => j \in S PROVE m \in S
  <2> SUFFICES ASSUME m <= n, m <= k PROVE f[m] = g[m]
    OBVIOUS
  <2>1. \A j \in Nat : j < m => f[j] = g[j]
    BY <1>1
  <2>2. Row(kind, f, m, arg) = Row(kind, g, m, arg)
    BY <2>1 DEF Determined
  <2>3. m \in 0..n /\ m \in 0..k
    OBVIOUS
  <2>4. f[m] = Row(kind, f, m, arg)
    BY <2>3
  <2>5. g[m] = Row(kind, g, m, arg)
    BY <2>3
  <2> QED BY <2>2, <2>4, <2>5
<1>2. S \in SUBSET Nat
  OBVIOUS
<1> HIDE DEF S
<1>3. \A m \in Nat : m \in S
  BY <1>1, <1>2, FromSmaller
<1> QED BY <1>3 DEF S

(* The halvings of the number of tasks: the equation at m needs what is at *)
(* m divided by 2,                                                         *)
LEMMA TurnsDetermined == Determined("turns", 0)
<1>1. \A g, m : Row("turns", g, m, 0) = TurnsRow(g, m)
  BY DEF Row
<1> SUFFICES ASSUME NEW f, NEW g, NEW m \in Nat, \A j \in Nat : j < m => f[j] = g[j]
             PROVE  TurnsRow(f, m) = TurnsRow(g, m)
  BY <1>1 DEF Determined
<1>2. CASE m \div 2 = 0
  BY <1>2 DEF TurnsRow
<1>3. CASE m \div 2 # 0
  <2>1. m \div 2 \in Nat /\ m \div 2 < m
    BY <1>3
  <2>2. f[m \div 2] = g[m \div 2]
    BY <2>1
  <2> QED BY <2>2 DEF TurnsRow
<1> QED BY <1>2, <1>3

HasTurns(n) == \E g : g = [m \in 0..n |-> TurnsRow(g, m)]

(* and there is such a function.                                           *)
LEMMA TurnsExist == ASSUME NEW n \in Nat PROVE HasTurns(n)
<1>1. \A g, m : Row("turns", g, m, 0) = TurnsRow(g, m)
  BY DEF Row
<1>3. HasRows("turns", 0, n)
  BY TurnsDetermined, RowsExist
<1>4. PICK g : g = [m \in 0..n |-> Row("turns", g, m, 0)]
  BY <1>3 DEF HasRows
<1>5. \E h : h = [m \in 0..n |-> TurnsRow(h, m)]
  BY <1>1, <1>4
<1> QED BY <1>5 DEF HasTurns

HasAlign(n) == \E g : g = [m \in 0..n |-> AlignRow(g, m)]

(* The recursion of Align.                                                 *)
LEMMA AlignExists == ASSUME NEW n \in Nat PROVE HasAlign(n)
<1>1. \A g, m : Row("align", g, m, 0) = AlignRow(g, m)
  BY DEF Row
<1>2. Determined("align", 0)
  <2> SUFFICES ASSUME NEW f, NEW g, NEW m \in Nat, \A j \in Nat : j < m => f[j] = g[j]
               PROVE  AlignRow(f, m) = AlignRow(g, m)
    BY <1>1 DEF Determined
  <2>1. CASE m = 0
    BY <2>1 DEF AlignRow
  <2>2. CASE m # 0
    <3>1. m \div 4 \in Nat /\ m \div 4 < m
      BY <2>2
    <3>2. f[m \div 4] = g[m \div 4]
      BY <3>1
    <3> QED BY <3>2 DEF AlignRow
  <2> QED BY <2>1, <2>2
<1>3. HasRows("align", 0, n)
  BY <1>2, RowsExist
<1>4. PICK g : g = [m \in 0..n |-> Row("align", g, m, 0)]
  BY <1>3 DEF HasRows
<1>5. \E h : h = [m \in 0..n |-> AlignRow(h, m)]
  BY <1>1, <1>4
<1> QED BY <1>5 DEF HasAlign

HasBuffer(n, chunk) == \E g : g = [m \in 0..n |-> BufferRow(g, m, chunk)]

(* The recursion of the buffered sort.                                     *)
LEMMA BufferExists == ASSUME NEW chunk, NEW n \in Nat PROVE HasBuffer(n, chunk)
<1> DEFINE arg == <<chunk>>
<1>1. \A g, m : Row("buffered", g, m, arg) = BufferRow(g, m, chunk)
  BY DEF Row
<1> HIDE DEF arg
<1>2. Determined("buffered", arg)
  <2> SUFFICES ASSUME NEW f, NEW g, NEW m \in Nat, \A j \in Nat : j < m => f[j] = g[j]
               PROVE  BufferRow(f, m, chunk) = BufferRow(g, m, chunk)
    BY <1>1 DEF Determined
  <2>1. CASE m <= 1
    <3> DEFINE D == (Seq(Int) \X Seq(Int)) \X Nat \X Nat
    <3> HIDE DEF D
    <3>1. \A h : BufferRow(h, m, chunk) =
                    [p \in D |-> Leaf(_Parallel_quicksort_impl(p[1][1], p[2], p[3],
                                         _MAX_NUM_TASKS_PER_CORE, chunk, FALSE),
                                       p[1], p[2], p[3], m)]
      BY <2>1 DEF BufferRow, D
    <3> QED BY <3>1
  <2>2. CASE ~(m <= 1)
    <3>1. f[m \div 2] = g[m \div 2]
      BY <2>2, HalfIs
    <3> QED BY <3>1 DEF BufferRow
  <2> QED BY <2>1, <2>2
<1>3. HasRows("buffered", arg, n)
  BY <1>2, RowsExist
<1>4. PICK g : g = [m \in 0..n |-> Row("buffered", g, m, arg)]
  BY <1>3 DEF HasRows
<1>5. \E h : h = [m \in 0..n |-> BufferRow(h, m, chunk)]
  BY <1>1, <1>4
<1> QED BY <1>5 DEF HasBuffer

HasPasses(n, m, at, base, size) == \E g : g = [k \in 0..n |-> PassesRow(g, k, m, at, base, size)]

(* The loop of the passes.                                                 *)
LEMMA PassesExist ==
    ASSUME NEW m, NEW at, NEW base, NEW size, NEW n \in Nat
    PROVE  HasPasses(n, m, at, base, size)
<1> DEFINE arg == <<m, at, base, size>>
<1>1. \A g, k : Row("passes", g, k, arg) = PassesRow(g, k, m, at, base, size)
  BY DEF Row
<1> HIDE DEF arg
<1>2. Stepwise("passes", arg)
  BY <1>1 DEF Stepwise, PassesRow
<1>3. HasRows("passes", arg, n)
  BY <1>2, LoopExists
<1>4. PICK g : g = [k \in 0..n |-> Row("passes", g, k, arg)]
  BY <1>3 DEF HasRows
<1>5. \E h : h = [k \in 0..n |-> PassesRow(h, k, m, at, base, size)]
  BY <1>1, <1>4
<1> QED BY <1>5 DEF HasPasses

HasChunks(n, h, m, at, base, size, radix, deep, threads) ==
    \E g : g = [k \in 0..n |-> ChunksRow(g, k, h, m, at, base, size, radix, deep, threads)]

(* The loop over the chunks of the digits.                                 *)
LEMMA ChunksExist ==
    ASSUME NEW h, NEW m, NEW at, NEW base, NEW size, NEW radix, NEW deep, NEW threads, NEW n \in Nat
    PROVE  HasChunks(n, h, m, at, base, size, radix, deep, threads)
<1> DEFINE arg == <<h, m, at, base, size, radix, deep, threads>>
<1>1. \A g, k : Row("chunks", g, k, arg) = ChunksRow(g, k, h, m, at, base, size, radix, deep, threads)
  BY DEF Row
<1> HIDE DEF arg
<1>2. Stepwise("chunks", arg)
  BY <1>1 DEF Stepwise, ChunksRow
<1>3. HasRows("chunks", arg, n)
  BY <1>2, LoopExists
<1>4. PICK g : g = [k \in 0..n |-> Row("chunks", g, k, arg)]
  BY <1>3 DEF HasRows
<1>5. \E f : f = [k \in 0..n |-> ChunksRow(f, k, h, m, at, base, size, radix, deep, threads)]
  BY <1>1, <1>4
<1> QED BY <1>5 DEF HasChunks

HasRadix(n, threads, chunk) == \E g : g = [k \in 0..n |-> RadixRow(g, k, threads, chunk)]

(* The recursion of the radix sort.                                        *)
LEMMA RadixExists ==
    ASSUME NEW threads, NEW chunk, NEW n \in Nat
    PROVE  HasRadix(n, threads, chunk)
<1> DEFINE arg == <<threads, chunk>>
<1>1. \A g, k : Row("radix", g, k, arg) = RadixRow(g, k, threads, chunk)
  BY DEF Row
<1> HIDE DEF arg
<1>2. Stepwise("radix", arg)
  <2> SUFFICES ASSUME NEW f, NEW g, NEW m \in Nat, m # 0 => f[m - 1] = g[m - 1]
               PROVE  RadixRow(f, m, threads, chunk) = RadixRow(g, m, threads, chunk)
    BY <1>1 DEF Stepwise
  <2>1. CASE m = 0
    <3> DEFINE D == (Seq(Elements) \X Seq(Elements)) \X (1..2) \X Nat \X Nat \X Nat
    <3> HIDE DEF D
    <3>1. m < 1
      BY <2>1
    <3>2. \A h : RadixRow(h, m, threads, chunk) =
                    [p \in D |-> _Integer_radix_sort(p[1], p[2], p[3], p[4], m, p[5])]
      BY <3>1 DEF RadixRow, D
    <3> QED BY <3>2
  <2>2. CASE m # 0
    BY <2>2 DEF RadixRow
  <2> QED BY <2>1, <2>2
<1>3. HasRows("radix", arg, n)
  BY <1>2, LoopExists
<1>4. PICK g : g = [k \in 0..n |-> Row("radix", g, k, arg)]
  BY <1>3 DEF HasRows
<1>5. \E h : h = [k \in 0..n |-> RadixRow(h, k, threads, chunk)]
  BY <1>1, <1>4
<1> QED BY <1>5 DEF HasRadix

(* The digits of a number: the equation at m needs what is at m divided by *)
(* Base,                                                                   *)
LEMMA DigitsDetermined == Determined("digits", 0)
<1>1. \A g, m : Row("digits", g, m, 0) = DigitsRow(g, m)
  BY DEF Row
<1> SUFFICES ASSUME NEW f, NEW g, NEW m \in Nat, \A j \in Nat : j < m => f[j] = g[j]
             PROVE  DigitsRow(f, m) = DigitsRow(g, m)
  BY <1>1 DEF Determined
<1>2. CASE m \div Base = 0
  BY <1>2 DEF DigitsRow
<1>3. CASE m \div Base # 0
  <2>1. m \div Base \in Nat /\ m \div Base < m
    BY <1>3, QuotientIsLess, AlgorithmsAssumption
  <2>2. f[m \div Base] = g[m \div Base]
    BY <2>1
  <2> QED BY <2>2 DEF DigitsRow
<1> QED BY <1>2, <1>3

HasDigits(n) == \E g : g = [m \in 0..n |-> DigitsRow(g, m)]

(* and there is such a function.                                           *)
LEMMA DigitsExist == ASSUME NEW n \in Nat PROVE HasDigits(n)
<1>1. \A g, m : Row("digits", g, m, 0) = DigitsRow(g, m)
  BY DEF Row
<1>3. HasRows("digits", 0, n)
  BY DigitsDetermined, RowsExist
<1>4. PICK g : g = [m \in 0..n |-> Row("digits", g, m, 0)]
  BY <1>3 DEF HasRows
<1>5. \E h : h = [m \in 0..n |-> DigitsRow(h, m)]
  BY <1>1, <1>4
<1> QED BY <1>5 DEF HasDigits

-----------------------------------------------------------------------------
(* The merge of two sorted chunks, one element at a time.                  *)

(* No element of out is greater than one of s after its first i.           *)
UpTo(out, s, i) == \A x \in 1..Len(out) : \A j \in 1..Len(s) : i < j => out[x] <= s[j]

(* The places of a sequence with one more element.                         *)
LEMMA AppendIs ==
    ASSUME NEW p \in Seq(Int), NEW e \in Int
    PROVE  /\ Append(p, e) \in Seq(Int) /\ Len(Append(p, e)) = Len(p) + 1 /\ Len(p) \in Nat
           /\ Append(p, e) = p \o <<e>> /\ <<e>> \in Seq(Int) /\ Len(<<e>>) = 1 /\ <<e>>[1] = e
           /\ Append(p, e)[Len(p) + 1] = e /\ \A i \in 1..Len(p) : Append(p, e)[i] = p[i]
<1>1. Append(p, e) \in Seq(Int) /\ Len(Append(p, e)) = Len(p) + 1 /\ Len(p) \in Nat
  OBVIOUS
<1>2. Append(p, e) = p \o <<e>> /\ <<e>> \in Seq(Int) /\ Len(<<e>>) = 1 /\ <<e>>[1] = e
  OBVIOUS
<1>3. Append(p, e)[Len(p) + 1] = e
  OBVIOUS
<1>4. \A i \in 1..Len(p) : Append(p, e)[i] = p[i]
  OBVIOUS
<1> QED BY <1>1, <1>2, <1>3, <1>4

(* Moving the lesser of two first elements keeps the output ascending and  *)
(* below what is left of both.                                             *)
LEMMA MoveKeeps ==
    ASSUME NEW s \in Seq(Int), NEW t \in Seq(Int), NEW out \in Seq(Int),
           Ascending(s), Ascending(t), Ascending(out),
           NEW i \in 0..Len(s) - 1, NEW k \in 0..Len(t) - 1,
           UpTo(out, s, i), UpTo(out, t, k), s[i + 1] <= t[k + 1]
    PROVE  /\ Append(out, s[i + 1]) \in Seq(Int) /\ Ascending(Append(out, s[i + 1]))
           /\ UpTo(Append(out, s[i + 1]), s, i + 1) /\ UpTo(Append(out, s[i + 1]), t, k)
           /\ \A x \in Int : Below(Append(out, s[i + 1]), x) + Below(Prefix(s, i), x)
                                = Below(out, x) + Below(Prefix(s, i + 1), x)
<1> DEFINE e == s[i + 1]
           n == Len(out)
           o == Append(out, e)
           p == Prefix(s, i)
           q == Prefix(s, i + 1)
<1>1. /\ i \in Nat /\ k \in Nat /\ n \in Nat /\ i + 1 \in 1..Len(s) /\ k + 1 \in 1..Len(t)
      /\ DOMAIN s = 1..Len(s) /\ DOMAIN t = 1..Len(t) /\ DOMAIN out = 1..n
      /\ (\A j \in 1..Len(s) : s[j] \in Int) /\ (\A j \in 1..Len(t) : t[j] \in Int)
  OBVIOUS
<1>2. e \in Int /\ <<e>> \in Seq(Int) /\ Len(<<e>>) = 1 /\ <<e>>[1] = e
  BY <1>1
<1>3. o = out \o <<e>>
  OBVIOUS
<1>4. /\ o \in Seq(Int) /\ Len(o) = n + 1 /\ DOMAIN o = 1..n + 1 /\ o[n + 1] = e
      /\ \A x \in 1..n : o[x] = out[x]
  BY <1>2
<1>4a. (\A x \in 1..n : out[x] \in Int) /\ \A x \in 1..n + 1 : x \in 1..n \/ x = n + 1
  BY <1>1
<1>5. e <= t[k + 1] /\ (\A j \in 1..Len(s) : i + 1 < j => e <= s[j])
      /\ (\A j \in 1..Len(t) : k < j => t[k + 1] <= t[j])
  <2>1. ASSUME NEW j \in 1..Len(s), i + 1 < j PROVE e <= s[j]
    <3> DEFINE l == i + 1
    <3>1. l \in DOMAIN s /\ j \in DOMAIN s /\ l <= j
      BY <1>1, <2>1
    <3> HIDE DEF l
    <3>2. s[l] <= s[j]
      BY <3>1 DEF Ascending
    <3> QED BY <3>2 DEF l
  <2>2. ASSUME NEW j \in 1..Len(t), k < j PROVE t[k + 1] <= t[j]
    <3>1. k + 1 <= j
      BY <1>1, <2>2
    <3> QED BY <1>1, <3>1 DEF Ascending
  <2> QED BY <2>1, <2>2
<1> HIDE DEF e, o, n
<1>6. UpTo(o, s, i + 1)
  <2> SUFFICES ASSUME NEW x \in 1..n + 1, NEW j \in 1..Len(s), i + 1 < j PROVE o[x] <= s[j]
    BY <1>4 DEF UpTo
  <2>1. CASE x \in 1..n
    <3>1. i < j
      BY <1>1
    <3> QED BY <1>4, <2>1, <3>1 DEF UpTo, n
  <2>2. CASE x = n + 1
    BY <1>4, <1>5, <2>2
  <2> QED BY <1>4a, <2>1, <2>2
<1>7. UpTo(o, t, k)
  <2> SUFFICES ASSUME NEW x \in 1..n + 1, NEW j \in 1..Len(t), k < j PROVE o[x] <= t[j]
    BY <1>4 DEF UpTo
  <2>1. CASE x \in 1..n
    BY <1>4, <2>1 DEF UpTo, n
  <2>2. CASE x = n + 1
    <3>1. e <= t[k + 1] /\ t[k + 1] <= t[j] /\ e \in Int /\ t[k + 1] \in Int /\ t[j] \in Int
      BY <1>1, <1>2, <1>5
    <3>2. e <= t[j]
      BY <3>1
    <3> QED BY <1>4, <2>2, <3>2
  <2> QED BY <1>4a, <2>1, <2>2
<1>8. Ascending(o)
  <2>1. NoneGreater(out, <<e>>)
    <3> SUFFICES ASSUME NEW x \in 1..n, NEW j \in 1..1 PROVE out[x] <= <<e>>[j]
      BY <1>2 DEF NoneGreater, n
    <3>1. i < i + 1
      BY <1>1
    <3>2. out[x] <= e
      BY <1>1, <3>1 DEF UpTo, e, n
    <3> QED BY <1>2, <3>2
  <2>2. Ascending(<<e>>)
    <3>1. DOMAIN <<e>> = {1}
      OBVIOUS
    <3> QED BY <1>2, <3>1 DEF Ascending
  <2>3. Ascending(out \o <<e>>)
    BY <1>2, <2>1, <2>2, JoinAscends
  <2> QED BY <1>3, <2>3
<1>9. q = p \o <<e>> /\ p \in Seq(Int)
  <2>1. i \in 0..Len(s) /\ i + 1 \in 0..Len(s)
    BY <1>1
  <2>2. p \in Seq(Int) /\ Len(p) = i /\ \A j \in 1..i : p[j] = s[j]
    BY <2>1, SplitIs
  <2>3. q \in Seq(Int) /\ Len(q) = i + 1 /\ \A j \in 1..i + 1 : q[j] = s[j]
    BY <2>1, SplitIs
  <2> HIDE DEF p, q
  <2>4. p \o <<e>> = Append(p, e)
    BY <1>2, <2>2
  <2> DEFINE w == Append(p, e)
  <2>5. w \in Seq(Int) /\ Len(w) = i + 1 /\ w[i + 1] = e /\ \A j \in 1..i : w[j] = p[j]
    BY <1>2, <2>2, AppendIs
  <2> HIDE DEF w
  <2>6. \A j \in 1..i + 1 : w[j] = q[j]
    <3> TAKE j \in 1..i + 1
    <3>1. j \in 1..i \/ j = i + 1
      BY <1>1
    <3>2. q[j] = s[j]
      BY <2>3
    <3>3. CASE j \in 1..i
      BY <2>2, <2>5, <3>2, <3>3
    <3>4. CASE j = i + 1
      BY <2>5, <3>2, <3>4 DEF e
    <3> QED BY <3>1, <3>3, <3>4
  <2>7. i + 1 \in Nat
    BY <1>1
  <2>8. w = q
    BY <2>3, <2>5, <2>6, <2>7, SameSequence
  <2> QED BY <2>2, <2>4, <2>8 DEF w
<1>10. ASSUME NEW x \in Int PROVE Below(o, x) + Below(p, x) = Below(out, x) + Below(q, x)
  <2> HIDE DEF p, q
  <2>1. Below(out \o <<e>>, x) = Below(out, x) + Below(<<e>>, x)
    BY <1>2, BelowJoin
  <2>2. Below(p \o <<e>>, x) = Below(p, x) + Below(<<e>>, x)
    BY <1>2, <1>9, BelowJoin
  <2>3. Below(out, x) \in 0..Len(out) /\ Below(p, x) \in 0..Len(p) /\ Below(<<e>>, x) \in 0..Len(<<e>>)
    BY <1>2, <1>9, BelowCounts
  <2>4. Below(o, x) = Below(out, x) + Below(<<e>>, x) /\ Below(q, x) = Below(p, x) + Below(<<e>>, x)
    BY <1>3, <1>9, <2>1, <2>2
  <2> DEFINE b1 == Below(out, x)
             b2 == Below(p, x)
             b3 == Below(<<e>>, x)
             b4 == Below(o, x)
             b5 == Below(q, x)
  <2>5. b1 \in Int /\ b2 \in Int /\ b3 \in Int /\ b4 = b1 + b3 /\ b5 = b2 + b3
    BY <2>3, <2>4
  <2> HIDE DEF b1, b2, b3, b4, b5
  <2>6. b4 + b2 = b1 + b5
    BY <2>5
  <2> QED BY <2>6 DEF b1, b2, b4, b5
<1> QED BY <1>4, <1>6, <1>7, <1>8, <1>10 DEF o, e

(* What is moved after some turns of _Merge_chunks.                        *)
IsMerged(m, s, t) ==
    /\ m.i \in 0..Len(s) /\ m.k \in 0..Len(t) /\ m.out \in Seq(Int)
    /\ Ascending(m.out) /\ UpTo(m.out, s, m.i) /\ UpTo(m.out, t, m.k)
    /\ Len(m.out) = m.i + m.k
    /\ \A x \in Int : Below(m.out, x) = Below(Prefix(s, m.i), x) + Below(Prefix(t, m.k), x)

(* One turn of _Merge_chunks, for either input.                            *)
LEMMA MoveOneKeeps ==
    ASSUME NEW s \in Seq(Int), NEW t \in Seq(Int), Ascending(s), Ascending(t),
           NEW m, IsMerged(m, s, t), m.i # Len(s), m.k # Len(t)
    PROVE  /\ IsMerged(MoveOne(m, s, t), s, t)
           /\ MoveOne(m, s, t).i + MoveOne(m, s, t).k = m.i + m.k + 1
<1> DEFINE i == m.i
           k == m.k
           out == m.out
           r == MoveOne(m, s, t)
<1>1. /\ i \in 0..Len(s) - 1 /\ k \in 0..Len(t) - 1 /\ out \in Seq(Int)
      /\ Ascending(out) /\ UpTo(out, s, i) /\ UpTo(out, t, k) /\ Len(out) = i + k
      /\ \A x \in Int : Below(out, x) = Below(Prefix(s, i), x) + Below(Prefix(t, k), x)
  BY DEF IsMerged
<1>2. s[i + 1] \in Int /\ t[k + 1] \in Int
  <2>0. Len(s) \in Nat /\ Len(t) \in Nat
    OBVIOUS
  <2> HIDE DEF i, k
  <2>1. i + 1 \in 1..Len(s) /\ k + 1 \in 1..Len(t)
    BY <1>1, <2>0
  <2> QED BY <2>1
<1>3. r = IF s[i + 1] < t[k + 1]
          THEN [i |-> i + 1, k |-> k, out |-> Append(out, s[i + 1])]
          ELSE [i |-> i, k |-> k + 1, out |-> Append(out, t[k + 1])]
  BY DEF MoveOne
<1> HIDE DEF i, k, out, r
<1>4. ASSUME NEW u \in Seq(Int), NEW n \in 0..Len(u), NEW x \in Int
      PROVE  Below(Prefix(u, n), x) \in Int
  <2>1. Prefix(u, n) \in Seq(Int)
    BY SplitIs
  <2>2. Below(Prefix(u, n), x) \in 0..Len(Prefix(u, n))
    BY <2>1, BelowCounts
  <2> QED BY <2>2
<1>5. \A x \in Int : Below(out, x) \in Int
  <2> TAKE x \in Int
  <2>1. Below(out, x) \in 0..Len(out)
    BY <1>1, BelowCounts
  <2> QED BY <2>1
<1>6. CASE s[i + 1] < t[k + 1]
  <2> DEFINE o == Append(out, s[i + 1])
  <2>1. s[i + 1] <= t[k + 1]
    BY <1>2, <1>6
  <2>2. /\ o \in Seq(Int) /\ Ascending(o) /\ UpTo(o, s, i + 1) /\ UpTo(o, t, k)
        /\ \A x \in Int : Below(o, x) + Below(Prefix(s, i), x) = Below(out, x) + Below(Prefix(s, i + 1), x)
    BY <1>1, <2>1, MoveKeeps
  <2>3. Len(o) = i + k + 1
    <3> DEFINE e == s[i + 1]
    <3>1. e \in Int
      BY <1>2
    <3> HIDE DEF e
    <3>2. Len(Append(out, e)) = Len(out) + 1
      BY <1>1, <3>1, AppendIs
    <3> QED BY <1>1, <3>2 DEF e
  <2>4. r.i = i + 1 /\ r.k = k /\ r.out = o
    BY <1>3, <1>6
  <2> HIDE DEF o
  <2>5. ASSUME NEW x \in Int PROVE Below(o, x) = Below(Prefix(s, i + 1), x) + Below(Prefix(t, k), x)
    <3> DEFINE b1 == Below(out, x)
               b2 == Below(Prefix(s, i), x)
               b3 == Below(Prefix(t, k), x)
               b4 == Below(o, x)
               b5 == Below(Prefix(s, i + 1), x)
    <3>1. i \in 0..Len(s) /\ k \in 0..Len(t) /\ i + 1 \in 0..Len(s)
      BY <1>1
    <3>2. b1 \in Int /\ b2 \in Int /\ b3 \in Int /\ b5 \in Int
      BY <1>4, <1>5, <3>1
    <3>3. Below(o, x) \in 0..Len(o)
      BY <2>2, BelowCounts
    <3>4. b4 \in Int
      BY <3>3
    <3>5. b1 = b2 + b3 /\ b4 + b2 = b1 + b5
      BY <1>1, <2>2
    <3> HIDE DEF b1, b2, b3, b4, b5
    <3>6. b4 = b5 + b3
      BY <3>2, <3>4, <3>5
    <3> QED BY <3>6 DEF b3, b4, b5
  <2>6. i + 1 \in 0..Len(s) /\ k \in 0..Len(t) /\ Len(o) = (i + 1) + k /\ (i + 1) + k = i + k + 1
    BY <1>1, <2>3
  <2>7. IsMerged(r, s, t)
    BY <2>2, <2>4, <2>5, <2>6 DEF IsMerged
  <2>8. r.i + r.k = i + k + 1
    BY <2>4, <2>6
  <2> QED BY <2>7, <2>8 DEF r, i, k
<1>7. CASE ~(s[i + 1] < t[k + 1])
  <2> DEFINE o == Append(out, t[k + 1])
  <2>1. t[k + 1] <= s[i + 1]
    BY <1>2, <1>7
  <2>2. /\ o \in Seq(Int) /\ Ascending(o) /\ UpTo(o, t, k + 1) /\ UpTo(o, s, i)
        /\ \A x \in Int : Below(o, x) + Below(Prefix(t, k), x) = Below(out, x) + Below(Prefix(t, k + 1), x)
    BY <1>1, <2>1, MoveKeeps
  <2>3. Len(o) = i + k + 1
    <3> DEFINE e == t[k + 1]
    <3>1. e \in Int
      BY <1>2
    <3> HIDE DEF e
    <3>2. Len(Append(out, e)) = Len(out) + 1
      BY <1>1, <3>1, AppendIs
    <3> QED BY <1>1, <3>2 DEF e
  <2>4. r.i = i /\ r.k = k + 1 /\ r.out = o
    BY <1>3, <1>7
  <2> HIDE DEF o
  <2>5. ASSUME NEW x \in Int PROVE Below(o, x) = Below(Prefix(s, i), x) + Below(Prefix(t, k + 1), x)
    <3> DEFINE b1 == Below(out, x)
               b2 == Below(Prefix(t, k), x)
               b3 == Below(Prefix(s, i), x)
               b4 == Below(o, x)
               b5 == Below(Prefix(t, k + 1), x)
    <3>1. i \in 0..Len(s) /\ k \in 0..Len(t) /\ k + 1 \in 0..Len(t)
      BY <1>1
    <3>2. b1 \in Int /\ b2 \in Int /\ b3 \in Int /\ b5 \in Int
      BY <1>4, <1>5, <3>1
    <3>3. Below(o, x) \in 0..Len(o)
      BY <2>2, BelowCounts
    <3>4. b4 \in Int
      BY <3>3
    <3>5. b1 = b3 + b2 /\ b4 + b2 = b1 + b5
      BY <1>1, <2>2
    <3> HIDE DEF b1, b2, b3, b4, b5
    <3>6. b4 = b3 + b5
      BY <3>2, <3>4, <3>5
    <3> QED BY <3>6 DEF b3, b4, b5
  <2>6. i \in 0..Len(s) /\ k + 1 \in 0..Len(t) /\ Len(o) = i + (k + 1) /\ i + (k + 1) = i + k + 1
    BY <1>1, <2>3
  <2>7. IsMerged(r, s, t)
    BY <2>2, <2>4, <2>5, <2>6 DEF IsMerged
  <2>8. r.i + r.k = i + k + 1
    BY <2>4, <2>6
  <2> QED BY <2>7, <2>8 DEF r, i, k
<1> QED BY <1>6, <1>7

(* When the loop ends, one input is exhausted.                             *)
LEMMA MovedIs ==
    ASSUME NEW s \in Seq(Int), NEW t \in Seq(Int), Ascending(s), Ascending(t)
    PROVE  /\ IsMerged(Moved(s, t), s, t)
           /\ (Moved(s, t).i = Len(s) \/ Moved(s, t).k = Len(t))
<1> DEFINE n == Len(s) + Len(t)
           T == CHOOSE g : g = [m \in 0..n |-> MovedRow(g, m, s, t)]
           Ended(m) == m.i = Len(s) \/ m.k = Len(t)
           S == {m \in Nat : m <= n => /\ IsMerged(T[m], s, t)
                                      /\ (Ended(T[m]) \/ T[m].i + T[m].k >= m)}
<1>1. n \in Nat /\ Len(s) \in Nat /\ Len(t) \in Nat
  OBVIOUS
<1>2. Moved(s, t) = T[n]
  BY DEF Moved, MovedRow
<1> HIDE DEF n
<1>3. T = [m \in 0..n |-> MovedRow(T, m, s, t)]
  <2>1. \E g : g = [m \in 0..n |-> MovedRow(g, m, s, t)]
    <3> HIDE DEF T
    <3> QED BY <1>1, MovedExists
  <2> QED BY <2>1
<1> HIDE DEF T
<1>4. 0 \in S
  <2> DEFINE e == <<>>
             z == T[0]
  <2>1. z.i = 0 /\ z.k = 0 /\ z.out = e
    BY <1>1, <1>3 DEF MovedRow
  <2>2. e \in Seq(Int) /\ Len(e) = 0 /\ DOMAIN e = {}
    OBVIOUS
  <2> HIDE DEF e, z
  <2>3. Ascending(e) /\ UpTo(e, s, 0) /\ UpTo(e, t, 0)
    BY <2>2 DEF Ascending, UpTo
  <2>4. ASSUME NEW x \in Int, NEW u \in Seq(Int) PROVE Below(Prefix(u, 0), x) = 0
    <3>1. 0 \in 0..Len(u)
      OBVIOUS
    <3>2. Prefix(u, 0) \in Seq(Int) /\ Len(Prefix(u, 0)) = 0
      BY <3>1, SplitIs
    <3>3. Below(Prefix(u, 0), x) \in 0..Len(Prefix(u, 0))
      BY <3>2, BelowCounts
    <3> QED BY <3>2, <3>3
  <2>5. ASSUME NEW x \in Int PROVE Below(e, x) = 0
    <3>1. Below(e, x) \in 0..Len(e)
      BY <2>2, BelowCounts
    <3> QED BY <2>2, <3>1
  <2>6. IsMerged(z, s, t)
    BY <1>1, <2>1, <2>2, <2>3, <2>4, <2>5 DEF IsMerged
  <2> QED BY <2>1, <2>6 DEF z
<1>5. ASSUME NEW m \in S PROVE m + 1 \in S
  <2> SUFFICES ASSUME m + 1 <= n
               PROVE  IsMerged(T[m + 1], s, t) /\ (Ended(T[m + 1]) \/ T[m + 1].i + T[m + 1].k >= m + 1)
    BY <1>5
  <2>1. m \in Nat /\ m <= n /\ m + 1 \in 0..n /\ m + 1 # 0 /\ (m + 1) - 1 = m
    BY <1>1, <1>5
  <2> DEFINE z == T[m]
  <2>2. IsMerged(z, s, t) /\ (Ended(z) \/ z.i + z.k >= m)
    <3> HIDE DEF Ended
    <3> QED BY <1>5, <2>1
  <2>3. T[m + 1] = MoveOne(z, s, t)
    <3>1. T[m + 1] = MovedRow(T, m + 1, s, t)
      BY <1>3, <2>1
    <3> QED BY <2>1, <3>1 DEF MovedRow
  <2> HIDE DEF z
  <2>4. CASE Ended(z)
    <3>1. MoveOne(z, s, t) = z
      BY <2>4 DEF MoveOne
    <3> QED BY <2>2, <2>3, <2>4, <3>1
  <2>5. CASE ~Ended(z)
    <3> DEFINE y == MoveOne(z, s, t)
    <3>1. IsMerged(y, s, t) /\ y.i + y.k = z.i + z.k + 1
      BY <2>2, <2>5, MoveOneKeeps
    <3>2. z.i \in Int /\ z.k \in Int
      BY <1>1, <2>2 DEF IsMerged
    <3>3. z.i + z.k >= m
      BY <2>2, <2>5
    <3> HIDE DEF y
    <3>4. y.i + y.k >= m + 1
      BY <2>1, <3>1, <3>2, <3>3
    <3> QED BY <2>3, <3>1, <3>4 DEF y
  <2> QED BY <2>4, <2>5
<1>6. S \in SUBSET Nat
  OBVIOUS
<1> HIDE DEF S
<1>7. n \in S
  BY <1>1, <1>4, <1>5, <1>6, FromPrevious
<1> DEFINE z == T[n]
<1>8. IsMerged(z, s, t) /\ (Ended(z) \/ z.i + z.k >= n)
  BY <1>1, <1>7 DEF S
<1> HIDE DEF z
<1>9. z.i \in 0..Len(s) /\ z.k \in 0..Len(t)
  BY <1>8 DEF IsMerged
<1>10. Ended(z)
  BY <1>1, <1>8, <1>9 DEF n
<1> QED BY <1>2, <1>8, <1>10 DEF z

(* Elements of two sorted sequences that are put one after the other.      *)
LEMMA SameJoin ==
    ASSUME NEW r \in Seq(Int), NEW s \in Seq(Int), Len(r) = Len(s),
           Ascending(r), \A x \in Int : Below(r, x) = Below(s, x)
    PROVE  r = InOrder(s)
BY AscendingInOrder DEF Same

(* The counts of the two parts of a sequence.                              *)
LEMMA JoinBelow ==
    ASSUME NEW s \in Seq(Int), NEW n \in 0..Len(s), NEW x \in Int
    PROVE  /\ Below(s, x) = Below(Prefix(s, n), x) + Below(Suffix(s, n), x)
           /\ Below(Prefix(s, n), x) \in Int /\ Below(Suffix(s, n), x) \in Int /\ Below(s, x) \in Int
<1> DEFINE p == Prefix(s, n)
           q == Suffix(s, n)
<1>1. p \in Seq(Int) /\ q \in Seq(Int) /\ p \o q = s
  BY SplitIs
<1> HIDE DEF p, q
<1>2. Below(p \o q, x) = Below(p, x) + Below(q, x)
  BY <1>1, BelowJoin
<1>3. Below(p, x) \in 0..Len(p) /\ Below(q, x) \in 0..Len(q) /\ Below(s, x) \in 0..Len(s)
  BY <1>1, BelowCounts
<1>4. Below(p, x) \in Int /\ Below(q, x) \in Int /\ Below(s, x) \in Int
  BY <1>3
<1> QED BY <1>1, <1>2, <1>4 DEF p, q

(* out is what was moved, u what is left of s, and nothing is left of t.   *)
HasMoved(out, s, i, t) ==
    \A x \in Int : Below(out, x) = Below(Prefix(s, i), x) + Below(t, x)
AllInOrder(r, s, t) ==
    /\ r \in Seq(Int) /\ Ascending(r) /\ Len(r) = Len(s) + Len(t)
    /\ \A x \in Int : Below(r, x) = Below(s, x) + Below(t, x)

(* What is left of the other input follows.                                *)
LEMMA RestFollows ==
    ASSUME NEW s \in Seq(Int), NEW t \in Seq(Int), Ascending(s), NEW out \in Seq(Int),
           NEW i \in 0..Len(s), Ascending(out), UpTo(out, s, i), Len(out) = i + Len(t),
           HasMoved(out, s, i, t)
    PROVE  AllInOrder(out \o Suffix(s, i), s, t)
<1> DEFINE q == Suffix(s, i)
<1>1. q \in Seq(Int) /\ Len(q) = Len(s) - i /\ Ascending(q) /\ \A j \in 1..Len(s) - i : q[j] = s[i + j]
  BY SplitIs, SplitAscends
<1>2. Len(s) \in Nat /\ Len(t) \in Nat /\ i \in Nat /\ i <= Len(s) /\ \A j \in 1..Len(s) : s[j] \in Int
  OBVIOUS
<1> HIDE DEF q
<1>3. NoneGreater(out, q)
  <2> SUFFICES ASSUME NEW x \in 1..Len(out), NEW j \in 1..Len(s) - i PROVE out[x] <= q[j]
    BY <1>1 DEF NoneGreater
  <2>1. i + j \in 1..Len(s) /\ i < i + j
    BY <1>2
  <2> QED BY <1>1, <2>1 DEF UpTo
<1>4. out \o q \in Seq(Int) /\ Ascending(out \o q)
  BY <1>1, <1>3, JoinAscends, JoinIs
<1>5. Len(out \o q) = Len(s) + Len(t)
  <2>1. Len(out \o q) = Len(out) + Len(q)
    BY <1>1, JoinIs
  <2> QED BY <1>1, <1>2, <2>1
<1>6. ASSUME NEW x \in Int PROVE Below(out \o q, x) = Below(s, x) + Below(t, x)
  <2> DEFINE b1 == Below(out, x)
             b2 == Below(Prefix(s, i), x)
             b3 == Below(q, x)
             b4 == Below(t, x)
             b5 == Below(s, x)
  <2>1. Below(out \o q, x) = b1 + b3
    BY <1>1, BelowJoin
  <2>2. b5 = b2 + b3 /\ b2 \in Int /\ b3 \in Int /\ b5 \in Int
    BY JoinBelow DEF q
  <2>3. Below(t, x) \in 0..Len(t)
    BY BelowCounts
  <2>4. b4 \in Int /\ b1 = b2 + b4
    BY <2>3 DEF HasMoved
  <2> HIDE DEF b1, b2, b3, b4, b5
  <2>5. b1 + b3 = b5 + b4
    BY <2>2, <2>4
  <2> QED BY <2>1, <2>5 DEF b4, b5
<1> QED BY <1>4, <1>5, <1>6 DEF q, AllInOrder

(* _Merge_chunks is std::merge.                                            *)
LEMMA MergeChunksIs ==
    ASSUME NEW s \in Seq(Int), NEW t \in Seq(Int), Ascending(s), Ascending(t)
    PROVE  _Merge_chunks(s, t) = InOrder(s \o t)
<1> DEFINE m == Moved(s, t)
           r == _Merge_chunks(s, t)
<1>1. IsMerged(m, s, t) /\ (m.i = Len(s) \/ m.k = Len(t))
  BY MovedIs
<1>2. r = m.out \o (IF m.i # Len(s) THEN Suffix(s, m.i) ELSE Suffix(t, m.k))
  BY DEF _Merge_chunks
<1> HIDE DEF m, r
<1>3. /\ m.i \in 0..Len(s) /\ m.k \in 0..Len(t) /\ m.out \in Seq(Int)
      /\ Ascending(m.out) /\ UpTo(m.out, s, m.i) /\ UpTo(m.out, t, m.k)
      /\ Len(m.out) = m.i + m.k
      /\ \A x \in Int : Below(m.out, x) = Below(Prefix(s, m.i), x) + Below(Prefix(t, m.k), x)
  BY <1>1 DEF IsMerged
<1>4. ASSUME NEW u \in Seq(Int) PROVE Prefix(u, Len(u)) = u
  <2>1. Prefix(u, Len(u)) \in Seq(Int) /\ Len(Prefix(u, Len(u))) = Len(u)
        /\ \A i \in 1..Len(u) : Prefix(u, Len(u))[i] = u[i]
    <3> DEFINE l == Len(u)
    <3>1. l \in 0..Len(u)
      OBVIOUS
    <3> HIDE DEF l
    <3>2. Prefix(u, l) \in Seq(Int) /\ Len(Prefix(u, l)) = l
          /\ \A i \in 1..l : Prefix(u, l)[i] = u[i]
      BY <3>1, SplitIs
    <3> QED BY <3>2 DEF l
  <2>2. Len(u) \in Nat
    OBVIOUS
  <2> QED BY <2>1, <2>2, SameSequence
<1>5. /\ r \in Seq(Int) /\ Ascending(r) /\ Len(r) = Len(s) + Len(t)
      /\ \A x \in Int : Below(r, x) = Below(s, x) + Below(t, x)
  <2>1. CASE m.i # Len(s)
    <3>1. m.k = Len(t) /\ Prefix(t, m.k) = t /\ r = m.out \o Suffix(s, m.i)
      BY <1>1, <1>2, <1>4, <2>1
    <3>2. HasMoved(m.out, s, m.i, t)
      BY <1>3, <3>1 DEF HasMoved
    <3>3. Len(m.out) = m.i + Len(t)
      BY <1>3, <3>1
    <3>4. AllInOrder(m.out \o Suffix(s, m.i), s, t)
      BY <1>3, <3>2, <3>3, RestFollows
    <3> QED BY <3>1, <3>4 DEF AllInOrder
  <2>2. CASE m.i = Len(s)
    <3>1. Prefix(s, m.i) = s /\ r = m.out \o Suffix(t, m.k)
      BY <1>2, <1>4, <2>2
    <3>2a. ASSUME NEW x \in Int PROVE Below(m.out, x) = Below(Prefix(t, m.k), x) + Below(s, x)
      <4>1. Below(m.out, x) = Below(s, x) + Below(Prefix(t, m.k), x)
        BY <1>3, <3>1
      <4>2. Below(s, x) \in 0..Len(s) /\ Below(Prefix(t, m.k), x) \in Int
        BY <1>3, BelowCounts, JoinBelow
      <4>3. Below(s, x) \in Int
        BY <4>2
      <4> QED BY <4>1, <4>2, <4>3
    <3>2. HasMoved(m.out, t, m.k, s)
      BY <3>2a DEF HasMoved
    <3>3. Len(m.out) = m.k + Len(s)
      BY <1>3, <2>2
    <3>4a. AllInOrder(m.out \o Suffix(t, m.k), t, s)
      BY <1>3, <3>2, <3>3, RestFollows
    <3>4. /\ r \in Seq(Int) /\ Ascending(r) /\ Len(r) = Len(t) + Len(s)
          /\ \A x \in Int : Below(r, x) = Below(t, x) + Below(s, x)
      BY <3>1, <3>4a DEF AllInOrder
    <3>5. ASSUME NEW x \in Int PROVE Below(r, x) = Below(s, x) + Below(t, x)
      <4>1. Below(s, x) \in 0..Len(s) /\ Below(t, x) \in 0..Len(t)
        BY BelowCounts
      <4>2. Below(s, x) \in Int /\ Below(t, x) \in Int
        BY <4>1
      <4> QED BY <3>4, <4>2
    <3>6. Len(t) + Len(s) = Len(s) + Len(t)
      OBVIOUS
    <3> QED BY <3>4, <3>5, <3>6
  <2> QED BY <2>1, <2>2
<1>6. s \o t \in Seq(Int) /\ Len(s \o t) = Len(s) + Len(t)
  BY JoinIs
<1>7. \A x \in Int : Below(r, x) = Below(s \o t, x)
  BY <1>5, BelowJoin
<1> DEFINE u == s \o t
<1>8. u \in Seq(Int) /\ Len(r) = Len(u) /\ \A x \in Int : Below(r, x) = Below(u, x)
  BY <1>5, <1>6, <1>7
<1> HIDE DEF u
<1>9. r = InOrder(u)
  BY <1>5, <1>8, SameJoin
<1> QED BY <1>9 DEF u, r

-----------------------------------------------------------------------------
(* The search for the middle of two sorted chunks.                         *)

(* If a elements of s are in the left half, the last of them belongs there *)
(* and the first of the others does not.                                   *)
BelongsLeft(s, t, half, a) == a > 0 /\ half - a < Len(t) => s[a] <= t[half - a + 1]
BelongsRight(s, t, half, a) == a < Len(s) /\ half - a > 0 => t[half - a] <= s[a + 1]

(* If the middle elements are fewer than half, the lesser belongs to the   *)
(* left half;                                                              *)
LEMMA MiddleLeft ==
    ASSUME NEW s \in Seq(Int), NEW t \in Seq(Int), Ascending(t), NEW half \in Nat,
           NEW m \in 0..Len(s) - 1, NEW n \in 0..Len(t) - 1, m + n < half, s[m + 1] <= t[n + 1]
    PROVE  BelongsLeft(s, t, half, m + 1)
<1>1. Len(s) \in Nat /\ Len(t) \in Nat /\ DOMAIN t = 1..Len(t)
  OBVIOUS
<1> SUFFICES ASSUME half - (m + 1) < Len(t) PROVE s[m + 1] <= t[half - (m + 1) + 1]
  BY DEF BelongsLeft
<1> DEFINE e == s[m + 1]
           k == n + 1
           l == half - (m + 1) + 1
<1>2. k \in DOMAIN t /\ l \in DOMAIN t /\ k <= l
  BY <1>1
<1>3. m + 1 \in 1..Len(s)
  BY <1>1
<1>4. e \in Int
  BY <1>3
<1>5. e <= t[k]
  OBVIOUS
<1> HIDE DEF e, k, l
<1>6. t[k] <= t[l] /\ t[k] \in Int /\ t[l] \in Int
  BY <1>1, <1>2 DEF Ascending
<1>7. e <= t[l]
  BY <1>4, <1>5, <1>6
<1> QED BY <1>7 DEF e, l

(* if not, the greater belongs to the right half.                          *)
LEMMA MiddleRight ==
    ASSUME NEW s \in Seq(Int), NEW t \in Seq(Int), Ascending(t), NEW half \in Nat,
           NEW m \in 0..Len(s) - 1, NEW n \in 0..Len(t) - 1, half <= m + n, t[n + 1] <= s[m + 1]
    PROVE  BelongsRight(s, t, half, m)
<1>1. Len(s) \in Nat /\ Len(t) \in Nat /\ DOMAIN t = 1..Len(t)
  OBVIOUS
<1> SUFFICES ASSUME half - m > 0 PROVE t[half - m] <= s[m + 1]
  BY DEF BelongsRight
<1> DEFINE e == s[m + 1]
           k == n + 1
           l == half - m
<1>2. k \in DOMAIN t /\ l \in DOMAIN t /\ l <= k
  BY <1>1
<1>3. m + 1 \in 1..Len(s)
  BY <1>1
<1>4. e \in Int
  BY <1>3
<1>5. t[k] <= e
  OBVIOUS
<1> HIDE DEF e, k, l
<1>6. t[l] <= t[k] /\ t[k] \in Int /\ t[l] \in Int
  BY <1>1, <1>2 DEF Ascending
<1>7. t[l] <= e
  BY <1>4, <1>5, <1>6
<1> QED BY <1>7 DEF e, l

(* Of one comparison at the cut follow all of them.                        *)
LEMMA SplitOrders ==
    ASSUME NEW s \in Seq(Int), NEW t \in Seq(Int), Ascending(s), Ascending(t),
           NEW a \in 0..Len(s), NEW b \in 0..Len(t),
           a > 0 /\ b < Len(t) => s[a] <= t[b + 1]
    PROVE  NoneGreater(Prefix(s, a), Suffix(t, b))
<1>1. /\ Len(s) \in Nat /\ Len(t) \in Nat /\ DOMAIN t = 1..Len(t) /\ DOMAIN s = 1..Len(s)
      /\ (\A i \in DOMAIN s : s[i] \in Int) /\ (\A i \in DOMAIN t : t[i] \in Int)
  OBVIOUS
<1> DEFINE p == Prefix(s, a)
           q == Suffix(t, b)
<1>2. Len(p) = a /\ \A i \in 1..a : p[i] = s[i]
  BY SplitIs
<1>3. Len(q) = Len(t) - b /\ \A i \in 1..Len(t) - b : q[i] = t[b + i]
  BY SplitIs
<1> HIDE DEF p, q
<1>4. ASSUME NEW i \in 1..a, NEW k \in 1..Len(t) - b PROVE p[i] <= q[k]
  <2> DEFINE j == b + 1
             l == b + k
  <2>1. i \in DOMAIN s /\ a \in DOMAIN s /\ i <= a /\ j \in DOMAIN t /\ l \in DOMAIN t /\ j <= l
    BY <1>1
  <2>2. s[a] <= t[j]
    BY <1>1
  <2>3. q[k] = t[l] /\ p[i] = s[i]
    BY <1>2, <1>3
  <2> HIDE DEF j, l
  <2>4. s[i] <= s[a] /\ t[j] <= t[l] /\ s[i] \in Int /\ s[a] \in Int /\ t[j] \in Int /\ t[l] \in Int
    BY <1>1, <2>1 DEF Ascending
  <2> QED BY <2>2, <2>3, <2>4
<1>5. NoneGreater(p, q)
  BY <1>2, <1>3, <1>4 DEF NoneGreater
<1> QED BY <1>5 DEF p, q

IsSearch(p, s, t, half) ==
    /\ p \in [from1 : Nat, to1 : Nat, from2 : Nat, to2 : Nat]
    /\ p.from1 <= p.to1 /\ p.to1 <= Len(s) /\ p.from2 <= p.to2 /\ p.to2 <= Len(t)
    /\ p.from1 + p.from2 <= half /\ half <= p.to1 + p.to2
    /\ BelongsLeft(s, t, half, p.from1) /\ BelongsRight(s, t, half, p.to1)
    /\ BelongsLeft(t, s, half, p.from2) /\ BelongsRight(t, s, half, p.to2)
Remaining(p) == (p.to1 - p.from1) + (p.to2 - p.from2)
Found(p) == ~(p.from1 < p.to1 /\ p.from2 < p.to2)

(* The middle of an interval.                                              *)
LEMMA BetweenIs == ASSUME NEW a \in Nat, NEW b \in Nat, a < b
                   PROVE  (a + b) \div 2 \in Nat /\ a <= (a + b) \div 2 /\ (a + b) \div 2 < b
OBVIOUS

(* The arithmetic of one turn of _Search_mid_point.                        *)
LEMMA SearchBounds ==
    ASSUME NEW a \in Nat, NEW b \in Nat, NEW c \in Nat, NEW d \in Nat,
           NEW m \in Nat, NEW n \in Nat, NEW half \in Nat, NEW i \in Nat, NEW k \in Nat,
           a <= m, m < b, b <= i, c <= n, n < d, d <= k
    PROVE  /\ m <= i /\ n <= k
           /\ m + n < half => /\ m + 1 <= b /\ m + 1 + c <= half
                              /\ n + 1 <= d /\ a + (n + 1) <= half
           /\ ~(m + n < half) => half <= b + n /\ half <= m + d
OBVIOUS

(* One turn keeps the invariant of the search and leaves less to search.   *)
LEMMA MidPointKeeps ==
    ASSUME NEW s \in Seq(Int), NEW t \in Seq(Int), Ascending(s), Ascending(t), NEW half \in Nat,
           NEW p, IsSearch(p, s, t, half), ~Found(p)
    PROVE  /\ IsSearch(MidPoint(p, s, t, half), s, t, half)
           /\ Remaining(MidPoint(p, s, t, half)) < Remaining(p)
<1> DEFINE r == MidPoint(p, s, t, half)
           m == (p.from1 + p.to1) \div 2
           n == (p.from2 + p.to2) \div 2
<1>1. /\ p \in [from1 : Nat, to1 : Nat, from2 : Nat, to2 : Nat]
      /\ p.from1 \in Nat /\ p.to1 \in Nat /\ p.from2 \in Nat /\ p.to2 \in Nat
      /\ p.from1 < p.to1 /\ p.to1 <= Len(s) /\ p.from2 < p.to2 /\ p.to2 <= Len(t)
      /\ p.from1 + p.from2 <= half /\ half <= p.to1 + p.to2
      /\ BelongsLeft(s, t, half, p.from1) /\ BelongsRight(s, t, half, p.to1)
      /\ BelongsLeft(t, s, half, p.from2) /\ BelongsRight(t, s, half, p.to2)
  BY DEF IsSearch, Found
<1>2. m \in Nat /\ p.from1 <= m /\ m < p.to1
  BY <1>1, BetweenIs
<1>3. n \in Nat /\ p.from2 <= n /\ n < p.to2
  BY <1>1, BetweenIs
<1>4. r = IF s[m + 1] < t[n + 1]
          THEN IF m + n < half THEN [p EXCEPT !.from1 = m + 1] ELSE [p EXCEPT !.to2 = n]
          ELSE IF m + n < half THEN [p EXCEPT !.from2 = n + 1] ELSE [p EXCEPT !.to1 = m]
  BY <1>1 DEF MidPoint
<1> HIDE DEF r, m, n
<1>5. m \in 0..Len(s) - 1 /\ n \in 0..Len(t) - 1 /\ s[m + 1] \in Int /\ t[n + 1] \in Int
  <2>0. Len(s) \in Nat /\ Len(t) \in Nat
    OBVIOUS
  <2>1. m \in 0..Len(s) - 1 /\ n \in 0..Len(t) - 1
    BY <1>1, <1>2, <1>3, <2>0
  <2>2. m + 1 \in 1..Len(s) /\ n + 1 \in 1..Len(t)
    BY <1>1, <1>2, <1>3, <2>0
  <2> QED BY <2>1, <2>2
<1>5a. /\ m <= Len(s) /\ n <= Len(t)
       /\ m + n < half => /\ m + 1 <= p.to1 /\ m + 1 + p.from2 <= half
                          /\ n + 1 <= p.to2 /\ p.from1 + (n + 1) <= half
       /\ ~(m + n < half) => half <= p.to1 + n /\ half <= m + p.to2
  <2> DEFINE a == p.from1
             b == p.to1
             c == p.from2
             d == p.to2
             i == Len(s)
             k == Len(t)
  <2>1. i \in Nat /\ k \in Nat
    OBVIOUS
  <2>2. /\ a \in Nat /\ b \in Nat /\ c \in Nat /\ d \in Nat /\ m \in Nat /\ n \in Nat
        /\ a <= m /\ m < b /\ b <= i /\ c <= n /\ n < d /\ d <= k
    BY <1>1, <1>2, <1>3
  <2> HIDE DEF a, b, c, d, i, k
  <2>3. /\ m <= i /\ n <= k
        /\ m + n < half => /\ m + 1 <= b /\ m + 1 + c <= half
                           /\ n + 1 <= d /\ a + (n + 1) <= half
        /\ ~(m + n < half) => half <= b + n /\ half <= m + d
    BY <2>1, <2>2, SearchBounds
  <2> QED BY <2>3 DEF a, b, c, d, i, k
<1>6. CASE s[m + 1] < t[n + 1] /\ m + n < half
  <2> DEFINE l == m + 1
  <2>1. r = [p EXCEPT !.from1 = l] /\ l \in Nat
    BY <1>2, <1>3, <1>4, <1>6
  <2> HIDE DEF l
  <2>2. r \in [from1 : Nat, to1 : Nat, from2 : Nat, to2 : Nat]
        /\ r.from1 = l /\ r.to1 = p.to1 /\ r.from2 = p.from2 /\ r.to2 = p.to2
    BY <1>1, <2>1
  <2>3. BelongsLeft(s, t, half, l)
    <3>1. s[m + 1] <= t[n + 1]
      BY <1>5, <1>6
    <3> QED BY <1>5, <1>6, <3>1, MiddleLeft DEF l
  <2>4. IsSearch(r, s, t, half)
    <3>1. l <= p.to1 /\ l + p.from2 <= half
      BY <1>2, <1>3, <1>5a, <1>6 DEF l
    <3> QED BY <1>1, <2>2, <2>3, <3>1 DEF IsSearch
  <2>5. Remaining(r) < Remaining(p)
    BY <1>1, <1>2, <1>3, <2>2 DEF Remaining, l
  <2> QED BY <2>4, <2>5 DEF r
<1>7. CASE s[m + 1] < t[n + 1] /\ ~(m + n < half)
  <2>1. r = [p EXCEPT !.to2 = n]
    BY <1>4, <1>7
  <2>2. r \in [from1 : Nat, to1 : Nat, from2 : Nat, to2 : Nat]
        /\ r.from1 = p.from1 /\ r.to1 = p.to1 /\ r.from2 = p.from2 /\ r.to2 = n
    BY <1>1, <1>3, <2>1
  <2>3. BelongsRight(t, s, half, n)
    <3>1. s[m + 1] <= t[n + 1] /\ half <= n + m
      BY <1>2, <1>3, <1>5, <1>7
    <3> QED BY <1>5, <3>1, MiddleRight
  <2>4. IsSearch(r, s, t, half)
    <3>1. p.from2 <= n /\ n <= Len(t) /\ half <= p.to1 + n
      BY <1>2, <1>3, <1>5a, <1>7
    <3> QED BY <1>1, <2>2, <2>3, <3>1 DEF IsSearch
  <2>5. Remaining(r) < Remaining(p)
    BY <1>1, <1>3, <2>2 DEF Remaining
  <2> QED BY <2>4, <2>5 DEF r
<1>8. CASE ~(s[m + 1] < t[n + 1]) /\ m + n < half
  <2> DEFINE l == n + 1
  <2>1. r = [p EXCEPT !.from2 = l] /\ l \in Nat
    BY <1>2, <1>3, <1>4, <1>8
  <2> HIDE DEF l
  <2>2. r \in [from1 : Nat, to1 : Nat, from2 : Nat, to2 : Nat]
        /\ r.from1 = p.from1 /\ r.to1 = p.to1 /\ r.from2 = l /\ r.to2 = p.to2
    BY <1>1, <2>1
  <2>3. BelongsLeft(t, s, half, l)
    <3>1. t[n + 1] <= s[m + 1] /\ n + m < half
      BY <1>2, <1>3, <1>5, <1>8
    <3> QED BY <1>5, <3>1, MiddleLeft DEF l
  <2>4. IsSearch(r, s, t, half)
    <3>1. l <= p.to2 /\ p.from1 + l <= half
      BY <1>2, <1>3, <1>5a, <1>8 DEF l
    <3> QED BY <1>1, <2>2, <2>3, <3>1 DEF IsSearch
  <2>5. Remaining(r) < Remaining(p)
    BY <1>1, <1>2, <1>3, <2>2 DEF Remaining, l
  <2> QED BY <2>4, <2>5 DEF r
<1>9. CASE ~(s[m + 1] < t[n + 1]) /\ ~(m + n < half)
  <2>1. r = [p EXCEPT !.to1 = m]
    BY <1>4, <1>9
  <2>2. r \in [from1 : Nat, to1 : Nat, from2 : Nat, to2 : Nat]
        /\ r.from1 = p.from1 /\ r.to1 = m /\ r.from2 = p.from2 /\ r.to2 = p.to2
    BY <1>1, <1>2, <2>1
  <2>3. BelongsRight(s, t, half, m)
    <3>1. t[n + 1] <= s[m + 1] /\ half <= m + n
      BY <1>2, <1>3, <1>5, <1>9
    <3> QED BY <1>5, <3>1, MiddleRight
  <2>4. IsSearch(r, s, t, half)
    <3>1. p.from1 <= m /\ m <= Len(s) /\ half <= m + p.to2
      BY <1>2, <1>3, <1>5a, <1>9
    <3> QED BY <1>1, <2>2, <2>3, <3>1 DEF IsSearch
  <2>5. Remaining(r) < Remaining(p)
    BY <1>1, <1>2, <2>2 DEF Remaining
  <2> QED BY <2>4, <2>5 DEF r
<1> QED BY <1>6, <1>7, <1>8, <1>9

(* What _Search_mid_point returns.                                         *)
IsMidPoint(a, b, s, t) ==
    /\ a \in 0..Len(s) /\ b \in 0..Len(t) /\ a + b = (Len(s) + Len(t)) \div 2
    /\ NoneGreater(Prefix(s, a), Suffix(t, b)) /\ NoneGreater(Prefix(t, b), Suffix(s, a))

(* _Search_mid_point cuts both inputs so that nothing on the left is       *)
(* greater than anything on the right.                                     *)
LEMMA MidIs ==
    ASSUME NEW s \in Seq(Int), NEW t \in Seq(Int), Ascending(s), Ascending(t)
    PROVE  IsMidPoint(_Search_mid_point(s, t)[1], _Search_mid_point(s, t)[2], s, t)
<1> DEFINE n == Len(s) + Len(t)
           half == n \div 2
           T == CHOOSE g : g = [m \in 0..n |-> MidRow(g, m, s, t, half)]
           v == _Search_mid_point(s, t)
           S == {m \in Nat : m <= n => /\ IsSearch(T[m], s, t, half)
                                      /\ (Found(T[m]) \/ Remaining(T[m]) <= n - m)}
<1>1. n \in Nat /\ half \in Nat /\ half <= n /\ Len(s) \in Nat /\ Len(t) \in Nat
  OBVIOUS
<1>2. v = IF T[n].from1 = T[n].to1 THEN <<T[n].to1, half - T[n].to1>>
          ELSE <<half - T[n].to2, T[n].to2>>
  BY DEF _Search_mid_point, MidRow
<1>2a. half = (Len(s) + Len(t)) \div 2 /\ n = Len(s) + Len(t)
  OBVIOUS
<1> HIDE DEF n, half, v
<1>3. T = [m \in 0..n |-> MidRow(T, m, s, t, half)]
  <2>1. \E g : g = [m \in 0..n |-> MidRow(g, m, s, t, half)]
    <3> HIDE DEF T
    <3> QED BY <1>1, MidExists
  <2> QED BY <2>1
<1> HIDE DEF T
<1>4. 0 \in S
  <2> DEFINE z == T[0]
  <2>1. z = [from1 |-> 0, to1 |-> Len(s), from2 |-> 0, to2 |-> Len(t)]
    BY <1>1, <1>3 DEF MidRow
  <2> HIDE DEF z
  <2>2. IsSearch(z, s, t, half)
    <3>1. BelongsLeft(s, t, half, 0) /\ BelongsLeft(t, s, half, 0)
      BY DEF BelongsLeft
    <3>2. BelongsRight(s, t, half, Len(s)) /\ BelongsRight(t, s, half, Len(t))
      BY <1>1 DEF BelongsRight
    <3> QED BY <1>1, <1>2a, <2>1, <3>1, <3>2 DEF IsSearch
  <2>3. Remaining(z) = n - 0
    BY <1>1, <1>2a, <2>1 DEF Remaining
  <2>4. Remaining(z) <= n - 0
    BY <1>1, <2>3
  <2> QED BY <2>2, <2>4 DEF z
<1>5. ASSUME NEW m \in S PROVE m + 1 \in S
  <2> SUFFICES ASSUME m + 1 <= n
               PROVE  /\ IsSearch(T[m + 1], s, t, half)
                      /\ (Found(T[m + 1]) \/ Remaining(T[m + 1]) <= n - (m + 1))
    BY <1>5
  <2>1. m \in Nat /\ m <= n /\ m + 1 \in 0..n /\ m + 1 # 0 /\ (m + 1) - 1 = m
    BY <1>1, <1>5
  <2> DEFINE z == T[m]
  <2>2. IsSearch(z, s, t, half) /\ (Found(z) \/ Remaining(z) <= n - m)
    BY <1>5, <2>1
  <2>3. T[m + 1] = MidPoint(z, s, t, half)
    <3>1. T[m + 1] = MidRow(T, m + 1, s, t, half)
      BY <1>3, <2>1
    <3> QED BY <2>1, <3>1 DEF MidRow
  <2> HIDE DEF z
  <2>4. CASE Found(z)
    <3>1. MidPoint(z, s, t, half) = z
      BY <2>4 DEF MidPoint, Found
    <3> QED BY <2>2, <2>3, <2>4, <3>1
  <2>5. CASE ~Found(z)
    <3> DEFINE y == MidPoint(z, s, t, half)
    <3>1. IsSearch(y, s, t, half) /\ Remaining(y) < Remaining(z)
      BY <1>1, <2>2, <2>5, MidPointKeeps
    <3>2. Remaining(z) <= n - m
      BY <2>2, <2>5
    <3> HIDE DEF y
    <3>3. Remaining(y) \in Int /\ Remaining(z) \in Int
      <4>1. y \in [from1 : Nat, to1 : Nat, from2 : Nat, to2 : Nat]
            /\ z \in [from1 : Nat, to1 : Nat, from2 : Nat, to2 : Nat]
        BY <2>2, <3>1 DEF IsSearch
      <4> QED BY <4>1 DEF Remaining
    <3>4. Remaining(y) <= n - (m + 1)
      BY <1>1, <2>1, <3>1, <3>2, <3>3
    <3> QED BY <2>3, <3>1, <3>4 DEF y
  <2> QED BY <2>4, <2>5
<1>6. S \in SUBSET Nat
  OBVIOUS
<1> HIDE DEF S
<1>7. n \in S
  BY <1>1, <1>4, <1>5, <1>6, FromPrevious
<1> DEFINE z == T[n]
<1>8. IsSearch(z, s, t, half) /\ (Found(z) \/ Remaining(z) <= n - n)
  BY <1>1, <1>7 DEF S
<1> HIDE DEF z
<1>9. /\ z.from1 \in Nat /\ z.to1 \in Nat /\ z.from2 \in Nat /\ z.to2 \in Nat
      /\ z.from1 <= z.to1 /\ z.to1 <= Len(s) /\ z.from2 <= z.to2 /\ z.to2 <= Len(t)
      /\ z.from1 + z.from2 <= half /\ half <= z.to1 + z.to2
      /\ BelongsLeft(s, t, half, z.from1) /\ BelongsRight(s, t, half, z.to1)
      /\ BelongsLeft(t, s, half, z.from2) /\ BelongsRight(t, s, half, z.to2)
  BY <1>8 DEF IsSearch
<1>10. z.from1 = z.to1 \/ z.from2 = z.to2
  BY <1>1, <1>8, <1>9 DEF Remaining, Found
<1>11. v = IF z.from1 = z.to1 THEN <<z.to1, half - z.to1>> ELSE <<half - z.to2, z.to2>>
  BY <1>2 DEF z
<1>12. ASSUME NEW a \in 0..Len(s), NEW b \in 0..Len(t), a + b = half,
              a > 0 /\ b < Len(t) => s[a] <= t[b + 1],
              b > 0 /\ a < Len(s) => t[b] <= s[a + 1]
       PROVE  IsMidPoint(a, b, s, t)
  <2>1. NoneGreater(Prefix(s, a), Suffix(t, b))
    BY <1>12, SplitOrders
  <2>2. NoneGreater(Prefix(t, b), Suffix(s, a))
    BY <1>12, SplitOrders
  <2> QED BY <1>2a, <1>12, <2>1, <2>2 DEF IsMidPoint
<1>13. CASE z.from1 = z.to1
  <2> DEFINE a == z.to1
             b == half - z.to1
  <2>1. v[1] = a /\ v[2] = b
    BY <1>11, <1>13
  <2>2. a \in 0..Len(s) /\ b \in 0..Len(t) /\ a + b = half
    BY <1>1, <1>9, <1>13
  <2>3. (a > 0 /\ b < Len(t) => s[a] <= t[b + 1]) /\ (b > 0 /\ a < Len(s) => t[b] <= s[a + 1])
    BY <1>9, <1>13 DEF BelongsLeft, BelongsRight
  <2> HIDE DEF a, b
  <2>4. IsMidPoint(a, b, s, t)
    BY <1>12, <2>2, <2>3
  <2> QED BY <2>1, <2>4 DEF v
<1>14. CASE z.from1 # z.to1
  <2> DEFINE a == half - z.to2
             b == z.to2
  <2>1. v[1] = a /\ v[2] = b
    BY <1>11, <1>14
  <2>2. a \in 0..Len(s) /\ b \in 0..Len(t) /\ a + b = half
    BY <1>1, <1>9, <1>10, <1>14
  <2>3. (a > 0 /\ b < Len(t) => s[a] <= t[b + 1]) /\ (b > 0 /\ a < Len(s) => t[b] <= s[a + 1])
    BY <1>9, <1>10, <1>14 DEF BelongsLeft, BelongsRight
  <2> HIDE DEF a, b
  <2>4. IsMidPoint(a, b, s, t)
    BY <1>12, <2>2, <2>3
  <2> QED BY <2>1, <2>4 DEF v
<1> QED BY <1>13, <1>14

-----------------------------------------------------------------------------
(* The two merges that split both inputs and merge the halves in parallel. *)

(* NoneGreater of the sets of elements.                                    *)
LEMMA NoneGreaterSets ==
    ASSUME NEW r \in Seq(Int), NEW s \in Seq(Int)
    PROVE  NoneGreater(r, s) <=> \A x \in ToSet(r) : \A y \in ToSet(s) : x <= y
<1>1. DOMAIN r = 1..Len(r) /\ DOMAIN s = 1..Len(s)
  OBVIOUS
<1> QED BY <1>1 DEF NoneGreater, ToSet

(* The elements of a concatenation.                                        *)
LEMMA JoinMembers ==
    ASSUME NEW r \in Seq(Int), NEW s \in Seq(Int)
    PROVE  ToSet(r \o s) = ToSet(r) \cup ToSet(s)
<1> DEFINE t == r \o s
           m == Len(r)
           n == Len(s)
<1>1. /\ t \in Seq(Int) /\ DOMAIN t = 1..m + n /\ m \in Nat /\ n \in Nat
      /\ \A i \in 1..m : t[i] = r[i]
      /\ \A i \in 1..n : t[m + i] = s[i]
  BY JoinIs
<1>2. DOMAIN r = 1..m /\ DOMAIN s = 1..n
  OBVIOUS
<1> HIDE DEF t, m, n
<1>3. ASSUME NEW i \in DOMAIN t PROVE t[i] \in ToSet(r) \cup ToSet(s)
  <2>1. CASE i <= m
    <3>1. i \in 1..m
      BY <1>1, <2>1
    <3> QED BY <1>1, <1>2, <3>1 DEF ToSet
  <2>2. CASE ~(i <= m)
    <3>1. i - m \in 1..n /\ m + (i - m) = i
      BY <1>1, <2>2
    <3>2. t[i] = s[i - m]
      BY <1>1, <3>1
    <3> QED BY <1>2, <3>1, <3>2 DEF ToSet
  <2> QED BY <2>1, <2>2
<1>4. ASSUME NEW i \in DOMAIN r PROVE r[i] \in ToSet(t)
  <2>1. i \in DOMAIN t /\ t[i] = r[i]
    BY <1>1, <1>2
  <2> QED BY <2>1 DEF ToSet
<1>5. ASSUME NEW i \in DOMAIN s PROVE s[i] \in ToSet(t)
  <2>1. m + i \in DOMAIN t /\ t[m + i] = s[i]
    BY <1>1, <1>2
  <2> QED BY <2>1 DEF ToSet
<1>6. ToSet(t) = ToSet(r) \cup ToSet(s)
  BY <1>3, <1>4, <1>5 DEF ToSet
<1> QED BY <1>6 DEF t

(* The elements of a sequence of integers are integers.                    *)
LEMMA MembersAre == ASSUME NEW s \in Seq(Int) PROVE ToSet(s) \in SUBSET Int
<1>1. \A i \in DOMAIN s : s[i] \in Int
  OBVIOUS
<1> QED BY <1>1 DEF ToSet

(* The elements are those with a count.                                    *)
LEMMA SameMembers ==
    ASSUME NEW r \in Seq(Int), NEW s \in Seq(Int), Same(r, s)
    PROVE  ToSet(r) = ToSet(s)
<1>1. ASSUME NEW x \in Int PROVE x \in ToSet(r) <=> x \in ToSet(s)
  <2> DEFINE y == x - 1
  <2>1. y \in Int
    OBVIOUS
  <2>2. x \in ToSet(r) <=> Below(r, y) < Below(r, x)
    BY MemberIs
  <2>3. x \in ToSet(s) <=> Below(s, y) < Below(s, x)
    BY MemberIs
  <2> HIDE DEF y
  <2> QED BY <2>1, <2>2, <2>3 DEF Same
<1> QED BY <1>1, MembersAre

(* The sorted left halves and then the sorted right halves are all         *)
(* elements sorted.                                                        *)
LEMMA JoinedHalves ==
    ASSUME NEW s \in Seq(Int), NEW t \in Seq(Int), NEW a \in 0..Len(s), NEW b \in 0..Len(t),
           Ascending(s), Ascending(t),
           NoneGreater(Prefix(s, a), Suffix(t, b)), NoneGreater(Prefix(t, b), Suffix(s, a))
    PROVE  InOrder(Prefix(s, a) \o Prefix(t, b)) \o InOrder(Suffix(s, a) \o Suffix(t, b))
              = InOrder(s \o t)
<1> DEFINE p1 == Prefix(s, a)
           p2 == Prefix(t, b)
           q1 == Suffix(s, a)
           q2 == Suffix(t, b)
           p == p1 \o p2
           q == q1 \o q2
           c == InOrder(p)
           d == InOrder(q)
           u == s \o t
<1>1. /\ p1 \in Seq(Int) /\ p2 \in Seq(Int) /\ q1 \in Seq(Int) /\ q2 \in Seq(Int)
      /\ Len(p1) = a /\ Len(p2) = b /\ Len(q1) = Len(s) - a /\ Len(q2) = Len(t) - b
  BY SplitIs
<1>2. NoneGreater(p1, q1) /\ NoneGreater(p2, q2) /\ NoneGreater(p1, q2) /\ NoneGreater(p2, q1)
  BY SplitAscends
<1>2a. \A x \in Int : /\ Below(s, x) = Below(p1, x) + Below(q1, x)
                      /\ Below(t, x) = Below(p2, x) + Below(q2, x)
  BY JoinBelow
<1> HIDE DEF p1, p2, q1, q2
<1>3. p \in Seq(Int) /\ q \in Seq(Int) /\ u \in Seq(Int)
      /\ Len(p) = a + b /\ Len(q) = (Len(s) - a) + (Len(t) - b) /\ Len(u) = Len(s) + Len(t)
  <2>1. p \in Seq(Int) /\ Len(p) = Len(p1) + Len(p2)
    BY <1>1, JoinIs
  <2>2. q \in Seq(Int) /\ Len(q) = Len(q1) + Len(q2)
    BY <1>1, JoinIs
  <2>3. u \in Seq(Int) /\ Len(u) = Len(s) + Len(t)
    BY JoinIs
  <2> HIDE DEF p, q, u
  <2> QED BY <1>1, <2>1, <2>2, <2>3
<1>4. ToSet(p) = ToSet(p1) \cup ToSet(p2) /\ ToSet(q) = ToSet(q1) \cup ToSet(q2)
  BY <1>1, JoinMembers
<1>5. ASSUME NEW x \in Int PROVE Below(p, x) + Below(q, x) = Below(u, x)
  <2> DEFINE b1 == Below(p1, x)
             b2 == Below(p2, x)
             b3 == Below(q1, x)
             b4 == Below(q2, x)
  <2>1. Below(p, x) = b1 + b2 /\ Below(q, x) = b3 + b4 /\ Below(u, x) = Below(s, x) + Below(t, x)
    BY <1>1, BelowJoin
  <2>2. Below(s, x) = b1 + b3 /\ Below(t, x) = b2 + b4
    BY <1>2a
  <2>3. b1 \in 0..Len(p1) /\ b2 \in 0..Len(p2) /\ b3 \in 0..Len(q1) /\ b4 \in 0..Len(q2)
    BY <1>1, BelowCounts
  <2>4. b1 \in Int /\ b2 \in Int /\ b3 \in Int /\ b4 \in Int
    BY <2>3
  <2> HIDE DEF b1, b2, b3, b4
  <2>5. (b1 + b2) + (b3 + b4) = (b1 + b3) + (b2 + b4)
    BY <2>4
  <2> QED BY <2>1, <2>2, <2>5
<1>6. \A x \in ToSet(p) : \A y \in ToSet(q) : x <= y
  <2> TAKE x \in ToSet(p)
  <2> TAKE y \in ToSet(q)
  <2>1. \/ x \in ToSet(p1) /\ y \in ToSet(q1)
        \/ x \in ToSet(p1) /\ y \in ToSet(q2)
        \/ x \in ToSet(p2) /\ y \in ToSet(q1)
        \/ x \in ToSet(p2) /\ y \in ToSet(q2)
    BY <1>4
  <2> QED BY <1>1, <1>2, <2>1, NoneGreaterSets
<1> HIDE DEF p, q, u
<1>7. /\ c \in Seq(Int) /\ Len(c) = Len(p) /\ Ascending(c) /\ Same(c, p)
      /\ d \in Seq(Int) /\ Len(d) = Len(q) /\ Ascending(d) /\ Same(d, q)
  BY <1>3, InOrderIs, InOrderAscends
<1> HIDE DEF c, d
<1>8. NoneGreater(c, d)
  <2>1. ToSet(c) = ToSet(p) /\ ToSet(d) = ToSet(q)
    BY <1>3, <1>7, SameMembers
  <2> QED BY <1>6, <1>7, <2>1, NoneGreaterSets
<1> DEFINE r == c \o d
<1>9. r \in Seq(Int) /\ Ascending(r) /\ Len(r) = Len(c) + Len(d)
      /\ \A x \in Int : Below(r, x) = Below(c, x) + Below(d, x)
  BY <1>7, <1>8, JoinIs, JoinAscends, BelowJoin
<1> HIDE DEF r
<1>10. \A x \in Int : Below(r, x) = Below(u, x)
  BY <1>5, <1>7, <1>9 DEF Same
<1>11. Len(r) = Len(u)
  <2>1. a \in Nat /\ b \in Nat /\ Len(s) \in Nat /\ Len(t) \in Nat
    OBVIOUS
  <2> QED BY <1>3, <1>7, <1>9, <2>1
<1>12. r = InOrder(u)
  BY <1>3, <1>9, <1>10, <1>11, SameJoin
<1> QED BY <1>12 DEF r, u, c, d, p, q, p1, p2, q1, q2

Merges(f) == \A s, t \in Seq(Int) :
                Ascending(s) /\ Ascending(t) => f[<<s, t>>] = InOrder(s \o t)

(* _Parallel_merge is std::merge, for any number of tasks.                 *)
LEMMA MergeTasksIs ==
    ASSUME NEW left \in Seq(Int), NEW right \in Seq(Int), Ascending(left), Ascending(right),
           NEW tasks \in Nat
    PROVE  _Parallel_merge(left, right, tasks) = InOrder(left \o right)
<1> DEFINE T == CHOOSE g : g = [m \in 0..tasks |-> MergeTasksRow(g, m)]
           S == {m \in Nat : m <= tasks => Merges(T[m])}
<1>1. _Parallel_merge(left, right, tasks) = T[tasks][<<left, right>>]
  BY DEF _Parallel_merge, MergeTasksRow
<1>2. T = [m \in 0..tasks |-> MergeTasksRow(T, m)]
  <2>1. \E g : g = [m \in 0..tasks |-> MergeTasksRow(g, m)]
    <3> HIDE DEF T
    <3> QED BY MergeTasksExists
  <2> QED BY <2>1
<1> HIDE DEF T
<1>3. ASSUME NEW m \in Nat, \A j \in Nat : j < m => j \in S PROVE m \in S
  <2> SUFFICES ASSUME m <= tasks, NEW s \in Seq(Int), NEW t \in Seq(Int), Ascending(s), Ascending(t)
               PROVE  T[m][<<s, t>>] = InOrder(s \o t)
    BY DEF Merges
  <2> DEFINE a == _Search_mid_point(s, t)[1]
             b == _Search_mid_point(s, t)[2]
             h == T[m \div 2]
  <2>1. IsMidPoint(a, b, s, t)
    BY MidIs
  <2>2. m \in 0..tasks
    OBVIOUS
  <2>3. T[m] = MergeTasksRow(T, m)
    BY <1>2, <2>2
  <2>4. T[m][<<s, t>>] = IF m <= 1 \/ (Len(s) <= 1 /\ Len(t) <= 1) THEN _Merge_chunks(s, t)
                         ELSE h[<<Prefix(s, a), Prefix(t, b)>>] \o h[<<Suffix(s, a), Suffix(t, b)>>]
    <3> DEFINE p == <<s, t>>
    <3>1. p \in Seq(Int) \X Seq(Int) /\ p[1] = s /\ p[2] = t
      OBVIOUS
    <3> HIDE DEF p, h
    <3>2. T[m][p] = IF m <= 1 \/ (Len(p[1]) <= 1 /\ Len(p[2]) <= 1) THEN _Merge_chunks(p[1], p[2])
                    ELSE h[<<Prefix(p[1], _Search_mid_point(p[1], p[2])[1]),
                             Prefix(p[2], _Search_mid_point(p[1], p[2])[2])>>]
                         \o h[<<Suffix(p[1], _Search_mid_point(p[1], p[2])[1]),
                                Suffix(p[2], _Search_mid_point(p[1], p[2])[2])>>]
      BY <2>3, <3>1 DEF MergeTasksRow, h
    <3> QED BY <3>1, <3>2 DEF p
  <2>5. CASE m <= 1 \/ (Len(s) <= 1 /\ Len(t) <= 1)
    BY <2>4, <2>5, MergeChunksIs
  <2>6. CASE ~(m <= 1 \/ (Len(s) <= 1 /\ Len(t) <= 1))
    <3>1. m \div 2 \in Nat /\ m \div 2 < m /\ m \div 2 <= tasks
      BY <2>6, HalfIs
    <3>2. Merges(h)
      BY <1>3, <3>1
    <3> HIDE DEF a, b, h
    <3>3. a \in 0..Len(s) /\ b \in 0..Len(t)
          /\ NoneGreater(Prefix(s, a), Suffix(t, b)) /\ NoneGreater(Prefix(t, b), Suffix(s, a))
      BY <2>1 DEF IsMidPoint
    <3>4. /\ Prefix(s, a) \in Seq(Int) /\ Prefix(t, b) \in Seq(Int)
          /\ Suffix(s, a) \in Seq(Int) /\ Suffix(t, b) \in Seq(Int)
          /\ Ascending(Prefix(s, a)) /\ Ascending(Prefix(t, b))
          /\ Ascending(Suffix(s, a)) /\ Ascending(Suffix(t, b))
      BY <3>3, SplitIs, SplitAscends
    <3>5. /\ h[<<Prefix(s, a), Prefix(t, b)>>] = InOrder(Prefix(s, a) \o Prefix(t, b))
          /\ h[<<Suffix(s, a), Suffix(t, b)>>] = InOrder(Suffix(s, a) \o Suffix(t, b))
      BY <3>2, <3>4 DEF Merges
    <3>6. InOrder(Prefix(s, a) \o Prefix(t, b)) \o InOrder(Suffix(s, a) \o Suffix(t, b)) = InOrder(s \o t)
      BY <3>3, JoinedHalves
    <3> QED BY <2>4, <2>6, <3>5, <3>6
  <2> QED BY <2>5, <2>6
<1>4. S \in SUBSET Nat
  OBVIOUS
<1> HIDE DEF S
<1>5. tasks \in S
  BY <1>3, <1>4, FromSmaller
<1>6. Merges(T[tasks])
  BY <1>5 DEF S
<1> QED BY <1>1, <1>6 DEF Merges

(* std::lower_bound is after all elements that are less.                   *)
LEMMA LowerBoundIs ==
    ASSUME NEW t \in Seq(Int), NEW x \in Int
    PROVE  LowerBound(t, x) = Below(t, x - 1) /\ LowerBound(t, x) \in 0..Len(t)
<1>1. \A i \in DOMAIN t : t[i] < x <=> t[i] <= x - 1
  OBVIOUS
<1>2. LowerBound(t, x) = Below(t, x - 1)
  BY <1>1 DEF LowerBound, Below
<1> DEFINE y == x - 1
<1>3. y \in Int
  OBVIOUS
<1> HIDE DEF y
<1>4. Below(t, y) \in 0..Len(t)
  BY <1>3, BelowCounts
<1> QED BY <1>2, <1>4 DEF y

(* Where the longer and the shorter are split leaves less on both sides.   *)
LEMMA MergeSplits ==
    ASSUME NEW m \in Nat, NEW p \in PairsOf(m), ~(Len(Shorter(p[1], p[2])) < MergeThreshold)
    PROVE  /\ Longer(p[1], p[2]) \in Seq(Int) /\ Shorter(p[1], p[2]) \in Seq(Int)
           /\ Len(Longer(p[1], p[2])) + Len(Shorter(p[1], p[2])) = m
           /\ Middle(p) \in Nat /\ Middle(p) < Len(Longer(p[1], p[2])) /\ Middle(p) >= 1
           /\ Longer(p[1], p[2])[Middle(p) + 1] \in Int
           /\ Lower(p) \in 0..Len(Shorter(p[1], p[2]))
           /\ Middle(p) + Lower(p) \in Nat /\ Middle(p) + Lower(p) < m
           /\ m - (Middle(p) + Lower(p)) \in Nat /\ m - (Middle(p) + Lower(p)) < m
<1> DEFINE s == Longer(p[1], p[2])
           t == Shorter(p[1], p[2])
           a == Middle(p)
           b == Lower(p)
           x == s[a + 1]
<1>1. p \in Seq(Int) \X Seq(Int) /\ Len(p[1]) + Len(p[2]) = m
  BY DEF PairsOf
<1>2. p[1] \in Seq(Int) /\ p[2] \in Seq(Int) /\ Len(p[1]) \in Nat /\ Len(p[2]) \in Nat
  BY <1>1
<1>3. s \in Seq(Int) /\ t \in Seq(Int) /\ Len(s) + Len(t) = m /\ Len(t) <= Len(s)
      /\ Len(s) \in Nat /\ Len(t) \in Nat
  <2>1. CASE Len(p[1]) < Len(p[2])
    BY <1>1, <1>2, <2>1 DEF Longer, Shorter
  <2>2. CASE ~(Len(p[1]) < Len(p[2]))
    BY <1>1, <1>2, <2>2 DEF Longer, Shorter
  <2> QED BY <2>1, <2>2
<1>4. a = Len(s) \div 2 /\ b = LowerBound(t, x)
  BY DEF Middle, Lower
<1> HIDE DEF s, t, a, b
<1>5. Len(s) > 1
  BY <1>3, AlgorithmsAssumption DEF t
<1>6. a \in Nat /\ a < Len(s) /\ a >= 1
  BY <1>3, <1>4, <1>5, HalfIs
<1>7. x \in Int
  <2>1. a + 1 \in 1..Len(s)
    BY <1>3, <1>6
  <2> HIDE DEF x
  <2> QED BY <1>3, <2>1 DEF x
<1>8. b \in 0..Len(t)
  <2> HIDE DEF x
  <2> QED BY <1>3, <1>4, <1>7, LowerBoundIs
<1>9. a + b \in Nat /\ a + b < m /\ m - (a + b) \in Nat /\ m - (a + b) < m
  BY <1>3, <1>6, <1>8
<1> QED BY <1>3, <1>6, <1>7, <1>8, <1>9 DEF s, t, a, b, x

(* The recursion of parallel_merge.                                        *)
LEMMA MergeExists ==
    ASSUME NEW n \in Nat
    PROVE  \E g : g = [m \in 0..n |-> MergeRow(g, m)]
<1>1. \A g, m : Row("merge", g, m, 0) = MergeRow(g, m)
  BY DEF Row
<1>2. Determined("merge", 0)
  <2> SUFFICES ASSUME NEW f, NEW g, NEW m \in Nat, \A j \in Nat : j < m => f[j] = g[j]
               PROVE  MergeRow(f, m) = MergeRow(g, m)
    BY <1>1 DEF Determined
  <2>1. ASSUME NEW p \in PairsOf(m), ~(Len(Shorter(p[1], p[2])) < MergeThreshold)
        PROVE  /\ f[Middle(p) + Lower(p)] = g[Middle(p) + Lower(p)]
               /\ f[m - (Middle(p) + Lower(p))] = g[m - (Middle(p) + Lower(p))]
    <3> DEFINE j == Middle(p) + Lower(p)
               k == m - j
    <3>1. j \in Nat /\ j < m /\ k \in Nat /\ k < m
      BY <2>1, MergeSplits
    <3> HIDE DEF j, k
    <3>2. f[j] = g[j] /\ f[k] = g[k]
      BY <3>1
    <3> QED BY <3>2 DEF j, k
  <2> QED BY <2>1 DEF MergeRow
<1>3. HasRows("merge", 0, n)
  BY <1>2, RowsExist
<1>4. PICK g : g = [m \in 0..n |-> Row("merge", g, m, 0)]
  BY <1>3 DEF HasRows
<1> QED BY <1>1, <1>4

(* Which of the two inputs is the longer makes no difference.              *)
LEMMA OrderOfJoin ==
    ASSUME NEW s \in Seq(Int), NEW t \in Seq(Int)
    PROVE  InOrder(t \o s) = InOrder(s \o t)
<1> DEFINE u == s \o t
           v == t \o s
           r == InOrder(v)
<1>1. /\ u \in Seq(Int) /\ v \in Seq(Int) /\ Len(u) = Len(s) + Len(t) /\ Len(v) = Len(t) + Len(s)
  <2>1. u \in Seq(Int) /\ Len(u) = Len(s) + Len(t)
    BY JoinIs
  <2>2. v \in Seq(Int) /\ Len(v) = Len(t) + Len(s)
    BY JoinIs
  <2> HIDE DEF u, v
  <2> QED BY <2>1, <2>2
<1>2. ASSUME NEW x \in Int PROVE Below(v, x) = Below(u, x)
  <2> DEFINE b1 == Below(s, x)
             b2 == Below(t, x)
  <2>1. Below(u, x) = b1 + b2 /\ Below(v, x) = b2 + b1
    BY BelowJoin
  <2>2. b1 \in 0..Len(s) /\ b2 \in 0..Len(t)
    BY BelowCounts
  <2>3. b1 \in Int /\ b2 \in Int
    BY <2>2
  <2> HIDE DEF b1, b2
  <2>4. b1 + b2 = b2 + b1
    BY <2>3
  <2> QED BY <2>1, <2>4
<1> HIDE DEF u, v
<1>3. r \in Seq(Int) /\ Len(r) = Len(v) /\ Ascending(r) /\ Same(r, v)
  BY <1>1, InOrderIs, InOrderAscends
<1> HIDE DEF r
<1>4. Len(r) = Len(u) /\ \A x \in Int : Below(r, x) = Below(u, x)
  <2>1. Len(s) + Len(t) = Len(t) + Len(s)
    OBVIOUS
  <2> QED BY <1>1, <1>2, <1>3, <2>1 DEF Same
<1>5. r = InOrder(u)
  BY <1>1, <1>3, <1>4, SameJoin
<1> QED BY <1>5 DEF r, u, v

(* What is less than x is what comes before its lower bound.               *)
LEMMA LowerBoundSplits ==
    ASSUME NEW s \in Seq(Int), NEW t \in Seq(Int), Ascending(s), Ascending(t), NEW a \in Nat,
           a < Len(s), NEW b, b = LowerBound(t, s[a + 1])
    PROVE  /\ b \in 0..Len(t)
           /\ NoneGreater(Prefix(s, a), Suffix(t, b)) /\ NoneGreater(Prefix(t, b), Suffix(s, a))
<1> DEFINE x == s[a + 1]
<1>1. Len(s) \in Nat /\ Len(t) \in Nat /\ a \in 0..Len(s) /\ a + 1 \in DOMAIN s
      /\ DOMAIN s = 1..Len(s) /\ \A i \in DOMAIN s : s[i] \in Int
  OBVIOUS
<1>2. x \in Int
  BY <1>1
<1>2a. b = LowerBound(t, x)
  OBVIOUS
<1>2b. \A i \in DOMAIN s : (i <= a => s[i] <= x) /\ (a < i => x <= s[i])
  <2> DEFINE l == a + 1
  <2> SUFFICES ASSUME NEW i \in DOMAIN s
               PROVE  (i <= a => s[i] <= s[l]) /\ (a < i => s[l] <= s[i])
    OBVIOUS
  <2>1. l \in DOMAIN s /\ (i <= a => i <= l) /\ (a < i => l <= i)
    BY <1>1
  <2> HIDE DEF l
  <2> QED BY <2>1 DEF Ascending
<1> HIDE DEF x
<1>3. b = Below(t, x - 1) /\ b \in 0..Len(t)
  BY <1>2, <1>2a, LowerBoundIs
<1>4. \A k \in 1..Len(t) : t[k] <= x - 1 <=> k <= b
  <2> DEFINE y == x - 1
  <2>1. y \in Int
    BY <1>2
  <2> HIDE DEF y
  <2>2. \A k \in 1..Len(t) : t[k] <= y <=> k <= Below(t, y)
    BY <2>1, AscendingBelow
  <2> QED BY <1>3, <2>2 DEF y
<1>5. \A k \in 1..Len(t) : t[k] \in Int
  OBVIOUS
<1>6. a > 0 /\ b < Len(t) => s[a] <= t[b + 1]
  <2> SUFFICES ASSUME a > 0, b < Len(t) PROVE s[a] <= t[b + 1]
    OBVIOUS
  <2> DEFINE l == b + 1
  <2>1. a \in DOMAIN s /\ a <= a /\ s[a] <= x /\ s[a] \in Int
    BY <1>1, <1>2b
  <2>2. l \in 1..Len(t) /\ ~(l <= b)
    <3>1. b \in Nat /\ Len(t) \in Nat
      BY <1>3
    <3> QED BY <3>1
  <2> HIDE DEF l
  <2>3. ~(t[l] <= x - 1) /\ t[l] \in Int
    BY <1>4, <1>5, <2>2
  <2>4. s[a] <= t[l]
    BY <1>2, <2>1, <2>3
  <2> QED BY <2>4 DEF l
<1>7. b > 0 /\ a < Len(s) => t[b] <= s[a + 1]
  <2> SUFFICES ASSUME b > 0 PROVE t[b] <= x
    BY DEF x
  <2>1. b \in 1..Len(t) /\ b <= b
    BY <1>1, <1>3
  <2>2. t[b] <= x - 1 /\ t[b] \in Int
    BY <1>4, <1>5, <2>1
  <2> QED BY <1>2, <2>2
<1>8. NoneGreater(Prefix(s, a), Suffix(t, b))
  BY <1>1, <1>3, <1>6, SplitOrders
<1>9. NoneGreater(Prefix(t, b), Suffix(s, a))
  BY <1>1, <1>3, <1>7, SplitOrders
<1> QED BY <1>3, <1>8, <1>9

MergesOf(f, m) == \A s, t \in Seq(Int) :
    Ascending(s) /\ Ascending(t) /\ Len(s) + Len(t) = m => f[<<s, t>>] = InOrder(s \o t)

(* parallel_merge is std::merge.                                           *)
LEMMA MergeIs ==
    ASSUME NEW left \in Seq(Int), NEW right \in Seq(Int), Ascending(left), Ascending(right)
    PROVE  parallel_merge(left, right) = InOrder(left \o right)
<1> DEFINE n == Len(left) + Len(right)
           T == CHOOSE g : g = [m \in 0..n |-> MergeRow(g, m)]
           S == {m \in Nat : m <= n => MergesOf(T[m], m)}
<1>1. parallel_merge(left, right) = T[n][<<left, right>>]
  BY DEF parallel_merge, MergeRow, Middle, Lower
<1>2. n \in Nat
  OBVIOUS
<1>3. T = [m \in 0..n |-> MergeRow(T, m)]
  <2> HIDE DEF n
  <2>1. \E g : g = [m \in 0..n |-> MergeRow(g, m)]
    <3> HIDE DEF T
    <3> QED BY <1>2, MergeExists
  <2> QED BY <2>1
<1> HIDE DEF T
<1>4. ASSUME NEW m \in Nat, \A j \in Nat : j < m => j \in S PROVE m \in S
  <2> SUFFICES ASSUME m <= n, NEW s0 \in Seq(Int), NEW t0 \in Seq(Int), Ascending(s0), Ascending(t0),
                      Len(s0) + Len(t0) = m
               PROVE  T[m][<<s0, t0>>] = InOrder(s0 \o t0)
    BY DEF MergesOf
  <2> DEFINE p == <<s0, t0>>
             s == Longer(s0, t0)
             t == Shorter(s0, t0)
             a == Middle(p)
             b == Lower(p)
  <2>1. p \in PairsOf(m) /\ p[1] = s0 /\ p[2] = t0
    BY DEF PairsOf
  <2>2. m \in 0..n
    BY <1>2
  <2>3. T[m] = MergeRow(T, m)
    BY <1>3, <2>2
  <2>4. a = Len(s) \div 2 /\ b = LowerBound(t, s[a + 1])
    BY DEF Middle, Lower
  <2>5. /\ s \in Seq(Int) /\ t \in Seq(Int) /\ Ascending(s) /\ Ascending(t)
        /\ InOrder(s \o t) = InOrder(s0 \o t0)
    <3>1. InOrder(t0 \o s0) = InOrder(s0 \o t0)
      BY OrderOfJoin
    <3> QED BY <3>1 DEF Longer, Shorter
  <2> HIDE DEF p, s, t, a, b, n
  <2>6. T[m][p] = IF Len(t) < MergeThreshold THEN InOrder(s0 \o t0)
                  ELSE T[a + b][<<Prefix(s, a), Prefix(t, b)>>]
                         \o T[m - (a + b)][<<Suffix(s, a), Suffix(t, b)>>]
    BY <2>1, <2>3 DEF MergeRow, StdMerge, s, t, a, b
  <2>7. CASE Len(t) < MergeThreshold
    BY <2>6, <2>7 DEF p
  <2>8. CASE ~(Len(t) < MergeThreshold)
    <3> DEFINE c == a + b
               d == m - c
    <3>1. /\ Len(s) + Len(t) = m /\ a \in Nat /\ a < Len(s) /\ b \in 0..Len(t)
          /\ c \in Nat /\ c < m /\ d \in Nat /\ d < m
      BY <2>1, <2>8, MergeSplits DEF s, t, a, b
    <3>2. NoneGreater(Prefix(s, a), Suffix(t, b)) /\ NoneGreater(Prefix(t, b), Suffix(s, a))
      BY <2>4, <2>5, <3>1, LowerBoundSplits
    <3>3. a \in 0..Len(s) /\ Len(s) \in Nat /\ Len(t) \in Nat
      <4>1. Len(s) \in Nat /\ Len(t) \in Nat
        BY <2>5
      <4> QED BY <3>1, <4>1
    <3>4. /\ Prefix(s, a) \in Seq(Int) /\ Prefix(t, b) \in Seq(Int)
          /\ Suffix(s, a) \in Seq(Int) /\ Suffix(t, b) \in Seq(Int)
          /\ Len(Prefix(s, a)) = a /\ Len(Prefix(t, b)) = b
          /\ Len(Suffix(s, a)) = Len(s) - a /\ Len(Suffix(t, b)) = Len(t) - b
          /\ Ascending(Prefix(s, a)) /\ Ascending(Prefix(t, b))
          /\ Ascending(Suffix(s, a)) /\ Ascending(Suffix(t, b))
      BY <2>5, <3>1, <3>3, SplitIs, SplitAscends
    <3>5. Len(Prefix(s, a)) + Len(Prefix(t, b)) = c /\ Len(Suffix(s, a)) + Len(Suffix(t, b)) = d
      BY <3>1, <3>3, <3>4
    <3>6. c \in S /\ d \in S /\ c <= n /\ d <= n
      BY <1>2, <1>4, <2>2, <3>1
    <3> HIDE DEF c, d
    <3>7. MergesOf(T[c], c) /\ MergesOf(T[d], d)
      BY <3>6
    <3>8. /\ T[c][<<Prefix(s, a), Prefix(t, b)>>] = InOrder(Prefix(s, a) \o Prefix(t, b))
          /\ T[d][<<Suffix(s, a), Suffix(t, b)>>] = InOrder(Suffix(s, a) \o Suffix(t, b))
      BY <3>4, <3>5, <3>7 DEF MergesOf
    <3>9. InOrder(Prefix(s, a) \o Prefix(t, b)) \o InOrder(Suffix(s, a) \o Suffix(t, b)) = InOrder(s \o t)
      BY <2>5, <3>1, <3>2, <3>3, JoinedHalves
    <3> QED BY <2>5, <2>6, <2>8, <3>8, <3>9 DEF c, d, p
  <2> QED BY <2>7, <2>8
<1>5. S \in SUBSET Nat
  OBVIOUS
<1> HIDE DEF S
<1>6. n \in S
  <2> HIDE DEF n
  <2> QED BY <1>2, <1>4, <1>5, FromSmaller
<1>7. MergesOf(T[n], n)
  BY <1>2, <1>6 DEF S
<1> QED BY <1>1, <1>7 DEF MergesOf

MergeOps == {"merge", "merge_tasks", "mid"}

(* What IsMidPoint says of elements.                                       *)
LEMMA MidSeparates ==
    ASSUME NEW s \in Seq(Int), NEW t \in Seq(Int), NEW a, NEW b, IsMidPoint(a, b, s, t),
           Ascending(s), Ascending(t)
    PROVE  \A x \in ToSet(Prefix(s, a) \o Prefix(t, b)) :
               \A y \in ToSet(Suffix(s, a) \o Suffix(t, b)) : x <= y
<1>1. a \in 0..Len(s) /\ b \in 0..Len(t)
      /\ NoneGreater(Prefix(s, a), Suffix(t, b)) /\ NoneGreater(Prefix(t, b), Suffix(s, a))
  BY DEF IsMidPoint
<1>2. /\ Prefix(s, a) \in Seq(Int) /\ Prefix(t, b) \in Seq(Int)
      /\ Suffix(s, a) \in Seq(Int) /\ Suffix(t, b) \in Seq(Int)
      /\ NoneGreater(Prefix(s, a), Suffix(s, a)) /\ NoneGreater(Prefix(t, b), Suffix(t, b))
  BY <1>1, SplitIs, SplitAscends
<1>3. /\ ToSet(Prefix(s, a) \o Prefix(t, b)) = ToSet(Prefix(s, a)) \cup ToSet(Prefix(t, b))
      /\ ToSet(Suffix(s, a) \o Suffix(t, b)) = ToSet(Suffix(s, a)) \cup ToSet(Suffix(t, b))
  BY <1>2, JoinMembers
<1> TAKE x \in ToSet(Prefix(s, a) \o Prefix(t, b))
<1> TAKE y \in ToSet(Suffix(s, a) \o Suffix(t, b))
<1>4. \/ x \in ToSet(Prefix(s, a)) /\ y \in ToSet(Suffix(s, a))
      \/ x \in ToSet(Prefix(s, a)) /\ y \in ToSet(Suffix(t, b))
      \/ x \in ToSet(Prefix(t, b)) /\ y \in ToSet(Suffix(s, a))
      \/ x \in ToSet(Prefix(t, b)) /\ y \in ToSet(Suffix(t, b))
  BY <1>3
<1> QED BY <1>1, <1>2, <1>4, NoneGreaterSets

(* Both parallel merges return what the merge of the standard library      *)
(* does, and the two middle points separate a lower half of all elements   *)
(* from the upper one: for all sorted inputs and any number of tasks.      *)
THEOREM EveryMergeMerges == AlgorithmsSpec => []MergesAll
<1> DEFINE Inv == call \in Calls /\ MergesAll
<1>1. AlgorithmsInit => Inv
  BY DEF AlgorithmsInit, MergesAll, Returned
<1>2. Inv /\ [AlgorithmsNext]_algorithmsVars => Inv'
  <2> SUFFICES ASSUME Inv, [AlgorithmsNext]_algorithmsVars PROVE Inv'
    OBVIOUS
  <2>1. CASE parallel_sort \/ parallel_buffered_sort \/ parallel_radixsort \/ Reduce \/ PartialSum
             \/ For \/ ForEach \/ parallel_transform \/ Predicates \/ Count
    <3>1. call' = call /\ call.op \notin MergeOps
      BY <2>1 DEF parallel_sort, parallel_buffered_sort, parallel_radixsort, Reduce, PartialSum,
                  For, ForEach, parallel_transform, Predicates, Count, Returns, MergeOps
    <3> QED BY <3>1 DEF MergesAll, MergeOps
  <2>2. CASE Returns("merge", parallel_merge(call.left, call.right))
    <3>1. call' = call /\ call.op = "merge" /\ value' = parallel_merge(call.left, call.right)
      BY <2>2 DEF Returns, value
    <3>2. /\ call.left \in Seq(Int) /\ call.right \in Seq(Int)
          /\ Ascending(call.left) /\ Ascending(call.right)
      BY <3>1, CallsAssumption
    <3>3. parallel_merge(call.left, call.right) = InOrder(call.left \o call.right)
      BY <3>2, MergeIs
    <3> QED BY <3>1, <3>3 DEF MergesAll
  <2>3. CASE Returns("merge_tasks", _Parallel_merge(call.left, call.right, call.div))
    <3>1. call' = call /\ call.op = "merge_tasks"
          /\ value' = _Parallel_merge(call.left, call.right, call.div)
      BY <2>3 DEF Returns, value
    <3>2. /\ call.left \in Seq(Int) /\ call.right \in Seq(Int) /\ call.div \in Nat
          /\ Ascending(call.left) /\ Ascending(call.right)
      BY <3>1, CallsAssumption
    <3>3. _Parallel_merge(call.left, call.right, call.div) = InOrder(call.left \o call.right)
      BY <3>2, MergeTasksIs
    <3> QED BY <3>1, <3>3 DEF MergesAll
  <2>4. CASE Search
    <3> DEFINE s == call.left
               t == call.right
               v == _Search_mid_point(s, t)
    <3>1. call' = call /\ call.op = "mid" /\ value' = v
      BY <2>4 DEF Search, Returns, value
    <3>2. s \in Seq(Int) /\ t \in Seq(Int) /\ Ascending(s) /\ Ascending(t)
      BY <3>1, CallsAssumption
    <3> HIDE DEF s, t
    <3>3. IsMidPoint(v[1], v[2], s, t)
      BY <3>2, MidIs
    <3> HIDE DEF v
    <3>4. \A x \in ToSet(Prefix(s, v[1]) \o Prefix(t, v[2])) :
             \A y \in ToSet(Suffix(s, v[1]) \o Suffix(t, v[2])) : x <= y
      BY <3>2, <3>3, MidSeparates
    <3>5. v[1] \in 0..Len(s) /\ v[2] \in 0..Len(t) /\ v[1] + v[2] = (Len(s) + Len(t)) \div 2
      BY <3>3 DEF IsMidPoint
    <3> QED BY <3>1, <3>4, <3>5 DEF MergesAll, s, t
  <2>5. CASE UNCHANGED algorithmsVars
    BY <2>5 DEF algorithmsVars, MergesAll, Returned, value
  <2> QED BY <2>1, <2>2, <2>3, <2>4, <2>5 DEF AlgorithmsNext, Merge
<1>3. Inv => MergesAll
  OBVIOUS
<1> QED BY <1>1, <1>2, <1>3, PTL DEF AlgorithmsSpec
=============================================================================

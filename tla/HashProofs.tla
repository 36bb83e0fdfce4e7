----------------------------- MODULE HashProofs -----------------------------
(***************************************************************************)
(* Theorems about SplitOrderedHash: in every container, for every width of *)
(* the hash, the list is well formed, what is there is found, and the      *)
(* insertions are atomic.                                                  *)
(***************************************************************************)
EXTENDS SplitOrderedHash, FiniteSetTheorems, SequenceTheorems, TLAPS

-----------------------------------------------------------------------------
(* What the order keys are good for, for every width: lemmas about the     *)
(* reversed bits of a number.                                              *)

LEMMA Smallest ==
    ASSUME NEW S \in SUBSET Nat, S # {}
    PROVE  \E m \in S : \A k \in S : m <= k
<1> DEFINE R == OpToRel(<, Nat)
<1>1. IsWellFoundedOn(R, Nat)
  BY NatLessThanWellFounded
<1>2. PICK m \in S : \A k \in S : ~(<<k, m>> \in R)
  <2> HIDE DEF R
  <2> QED BY <1>1, WFMin
<1>3. \A k \in S : m <= k
  <2> TAKE k \in S
  <2>1. ~(<<k, m>> \in R)
    BY <1>2
  <2>2. m \in Nat /\ k \in Nat
    OBVIOUS
  <2>3. ~(k < m)
    BY <2>1, <2>2 DEF OpToRel
  <2> QED BY <2>2, <2>3
<1> QED BY <1>3

LEMMA PowerZero == 2^0 = 1
<1>1. Cardinality(SUBSET {}) = 2^0
  BY FS_SUBSET, FS_EmptySet
<1>2. SUBSET {} = {{}}
  OBVIOUS
<1> QED BY <1>1, <1>2, FS_Singleton

LEMMA PowerNext == ASSUME NEW n \in Nat PROVE 2^n \in Nat /\ 2^(n + 1) = 2 * 2^n
<1> DEFINE S == 1..n
           T == S \cup {n + 1}
           W == {s \cup {n + 1} : s \in SUBSET S}
<1>1. IsFiniteSet(S) /\ Cardinality(S) = n
  BY FS_Interval
<1>2. IsFiniteSet(T) /\ Cardinality(T) = n + 1
  BY <1>1, FS_AddElement
<1>3. IsFiniteSet(SUBSET S) /\ Cardinality(SUBSET S) = 2^n /\ Cardinality(SUBSET S) \in Nat
  BY <1>1, FS_SUBSET, FS_CardinalityType
<1>4. Cardinality(SUBSET T) = 2^(n + 1)
  BY <1>2, FS_SUBSET
<1>5. n + 1 \notin S
  OBVIOUS
<1>6. SUBSET T = (SUBSET S) \cup W /\ (SUBSET S) \cap W = {}
  <2>1. ASSUME NEW s \in SUBSET T PROVE s \in (SUBSET S) \cup W
    <3>1. CASE n + 1 \in s
      <4>1. s = (s \ {n + 1}) \cup {n + 1} /\ s \ {n + 1} \in SUBSET S
        BY <3>1
      <4> QED BY <4>1
    <3>2. CASE n + 1 \notin s
      BY <3>2
    <3> QED BY <3>1, <3>2
  <2>2. \A s \in (SUBSET S) \cup W : s \in SUBSET T
    OBVIOUS
  <2>3. ASSUME NEW s \in SUBSET S, s \in W PROVE FALSE
    BY <2>3, <1>5
  <2> QED BY <2>1, <2>2, <2>3
<1>7. IsFiniteSet(W) /\ Cardinality(W) = Cardinality(SUBSET S)
  <2> DEFINE f == [s \in SUBSET S |-> s \cup {n + 1}]
  <2>1. f \in [SUBSET S -> W]
    OBVIOUS
  <2>2. \A w \in W : \E s \in SUBSET S : f[s] = w
    OBVIOUS
  <2>3. \A a, b \in SUBSET S : f[a] = f[b] => a = b
    BY <1>5
  <2>4. f \in Bijection(SUBSET S, W)
    BY <2>1, <2>2, <2>3 DEF Bijection, Injection, Surjection, IsInjective
  <2>5. ExistsBijection(SUBSET S, W)
    BY <2>4 DEF ExistsBijection
  <2> HIDE DEF S, W
  <2> QED BY <2>5, <1>3, FS_Bijection
<1>8. Cardinality(SUBSET T) = Cardinality(SUBSET S) + Cardinality(W) - Cardinality((SUBSET S) \cap W)
  <2> HIDE DEF S, W
  <2> QED BY <1>3, <1>6, <1>7, FS_Union
<1>9. Cardinality((SUBSET S) \cap W) = 0
  BY <1>6, FS_EmptySet
<1> HIDE DEF S, T, W
<1> QED BY <1>3, <1>4, <1>7, <1>8, <1>9

LEMMA DivModOf ==
    ASSUME NEW x \in Nat, NEW n \in Nat, n > 0
    PROVE  /\ x \div n \in Nat /\ x % n \in 0..(n - 1)
           /\ x = n * (x \div n) + (x % n)
<1>1. x % n \in 0..(n - 1)
  OBVIOUS
<1>2. x \div n \in Int
  OBVIOUS
<1>3. x = n * (x \div n) + (x % n)
  OBVIOUS
<1>4. x \div n >= 0
  BY <1>1, <1>2, <1>3, SMTT(30)
<1> QED BY <1>1, <1>2, <1>3, <1>4

LEMMA TwiceMod ==
    ASSUME NEW x \in Nat, NEW p \in Nat, p > 0
    PROVE  x % (2 * p) = (x % p) + p * ((x \div p) % 2)
<1> DEFINE q == x \div p
           r == x % p
           h == q \div 2
           b == q % 2
           pp == 2 * p
           rr == p * b + r
<1>1. q \in Nat /\ r \in 0..(p - 1) /\ x = p * q + r
  BY DivModOf
<1>2. h \in Nat /\ b \in 0..1 /\ q = 2 * h + b
  <2> HIDE DEF q, r
  <2> QED BY <1>1
<1> HIDE DEF q, r, h, b
<1>3. x = pp * h + rr
  BY <1>1, <1>2
<1>4. rr < pp /\ rr \in Nat /\ pp \in Nat /\ pp > 0
  BY <1>1, <1>2
<1> HIDE DEF pp, rr
<1>5. x % pp = rr
  BY <1>2, <1>3, <1>4
<1> QED BY <1>5 DEF pp, rr, b, q, r

LEMMA PowerPositive == ASSUME NEW n \in Nat PROVE 2^n \in Nat /\ 2^n > 0
<1>1. IsFiniteSet(1..n) /\ Cardinality(1..n) = n
  BY FS_Interval
<1>2. IsFiniteSet(SUBSET (1..n)) /\ Cardinality(SUBSET (1..n)) = 2^n
  BY <1>1, FS_SUBSET
<1>3. SUBSET (1..n) # {}
  OBVIOUS
<1> QED BY <1>2, <1>3, FS_CardinalityType, FS_EmptySet

LEMMA PowerGrows ==
    ASSUME NEW i \in Nat, NEW j \in Nat, i <= j
    PROVE  2^i <= 2^j
<1> DEFINE S == {k \in Nat : i <= k /\ ~(2^i <= 2^k)}
<1>1. SUFFICES S = {}
  BY PowerPositive
<1>2. SUFFICES ASSUME S # {} PROVE FALSE
  OBVIOUS
<1>3. PICK m \in S : \A k \in S : m <= k
  BY <1>2, Smallest
<1>4. m # i /\ m \in Nat /\ m - 1 \in Nat /\ i <= m - 1
  BY <1>3, PowerPositive
<1>5. 2^i <= 2^(m - 1)
  BY <1>3, <1>4
<1>6. 2^m = 2 * 2^(m - 1) /\ 2^(m - 1) \in Nat
  BY <1>4, PowerNext, m - 1 + 1 = m
<1> QED BY <1>3, <1>5, <1>6, PowerPositive

-----------------------------------------------------------------------------
(* The reversed bits.                                                      *)

(* Reversed has the value its definition gives it: a function on the       *)
(* widths up to any n can be continued to n + 1.                           *)
Row(g, w) == [x \in Slots |-> IF w = 0 THEN 0 ELSE 2 * g[w - 1][x] + Bit(x, w - 1)]

LEMMA RowsExist ==
    ASSUME NEW n \in Nat
    PROVE  \E g : g = [w \in 0..n |-> Row(g, w)]
<1> DEFINE S == {k \in Nat : ~ \E g : g = [w \in 0..k |-> Row(g, w)]}
<1>1. SUFFICES ASSUME S # {} PROVE FALSE
  OBVIOUS
<1>2. PICK m \in S : \A k \in S : m <= k
  BY <1>1, Smallest
<1>3. CASE m = 0
  <2> DEFINE g == [w \in 0..0 |-> [x \in Slots |-> 0]]
  <2>1. g = [w \in 0..0 |-> Row(g, w)]
    BY DEF Row
  <2> QED BY <1>2, <1>3, <2>1
<1>4. CASE m # 0
  <2>1. m \in Nat /\ m - 1 \in Nat /\ m - 1 \notin S
    BY <1>2, <1>4
  <2>2. PICK g : g = [w \in 0..(m - 1) |-> Row(g, w)]
    BY <2>1
  <2> DEFINE f == [w \in 0..m |-> IF w = m THEN Row(g, m) ELSE g[w]]
  <2>3. ASSUME NEW w \in 0..m PROVE f[w] = Row(f, w)
    <3>1. f[w] = Row(g, w)
      BY <2>1, <2>2
    <3>2. w # 0 => f[w - 1] = g[w - 1]
      BY <2>1
    <3> QED BY <3>1, <3>2 DEF Row
  <2> HIDE DEF f
  <2>4. f = [w \in 0..m |-> f[w]]
    BY DEF f
  <2>5. f = [w \in 0..m |-> Row(f, w)]
    BY <2>3, <2>4
  <2> QED BY <1>2, <2>5
<1> QED BY <1>3, <1>4

LEMMA ReversedIs ==
    /\ \A x \in Slots : Reversed[0][x] = 0
    /\ \A w \in Nat : w + 1 <= Bits =>
         \A x \in Slots : Reversed[w + 1][x] = 2 * Reversed[w][x] + Bit(x, w)
<1>1. Bits \in Nat
  BY HashAssumption
<1>2. PICK g : g = [w \in 0..Bits |-> Row(g, w)]
  BY <1>1, RowsExist
<1>3. Reversed = CHOOSE f : f = [w \in 0..Bits |-> Row(f, w)]
  BY DEF Reversed, Row
<1>4. Reversed = [w \in 0..Bits |-> Row(Reversed, w)]
  BY <1>2, <1>3
<1>5. \A w \in 0..Bits : Reversed[w] = Row(Reversed, w)
  BY <1>4
<1>6. ASSUME NEW x \in Slots PROVE Reversed[0][x] = 0
  <2>1. Reversed[0] = Row(Reversed, 0)
    BY <1>1, <1>5
  <2> QED BY <2>1 DEF Row
<1>7. ASSUME NEW w \in Nat, w + 1 <= Bits, NEW x \in Slots
      PROVE  Reversed[w + 1][x] = 2 * Reversed[w][x] + Bit(x, w)
  <2>1. w + 1 \in 0..Bits /\ w + 1 # 0 /\ w + 1 - 1 = w
    BY <1>1, <1>7
  <2>2. Reversed[w + 1] = Row(Reversed, w + 1)
    BY <1>5, <2>1
  <2> QED BY <2>1, <2>2 DEF Row
<1> QED BY <1>6, <1>7

LEMMA BitIs ==
    ASSUME NEW x \in Slots, NEW i \in Nat
    PROVE  /\ x \in Nat /\ x \div 2^i \in Nat /\ Bit(x, i) \in {0, 1}
           /\ x < 2^i => Bit(x, i) = 0
           /\ x % 2^(i + 1) = (x % 2^i) + 2^i * Bit(x, i)
<1>1. x \in Nat /\ 2^i \in Nat /\ 2^i > 0 /\ 2^(i + 1) = 2 * 2^i
  BY PowerPositive, PowerNext, HashAssumption DEF Slots
<1> DEFINE p == 2^i
<1>2. x \div p \in Nat /\ (x < p => x \div p = 0)
  <2> HIDE DEF p
  <2> QED BY <1>1 DEF p
<1>3. x % (2 * p) = (x % p) + p * ((x \div p) % 2)
  <2> HIDE DEF p
  <2> QED BY <1>1, TwiceMod DEF p
<1> QED BY <1>1, <1>2, <1>3 DEF Bit

LEMMA ReversedNat ==
    ASSUME NEW w \in 0..Bits, NEW x \in Slots
    PROVE  Reversed[w][x] \in Nat
<1> DEFINE S == {k \in Nat : k <= Bits /\ Reversed[k][x] \notin Nat}
<1>1. SUFFICES ASSUME S # {} PROVE FALSE
  BY HashAssumption
<1>2. PICK m \in S : \A k \in S : m <= k
  BY <1>1, Smallest
<1>3. m # 0 /\ m - 1 \in Nat /\ m - 1 + 1 = m
  BY <1>2, ReversedIs
<1>4. Reversed[m - 1][x] \in Nat
  BY <1>2, <1>3, HashAssumption
<1>5. Reversed[m][x] = 2 * Reversed[m - 1][x] + Bit(x, m - 1)
  BY <1>2, <1>3, ReversedIs
<1>6. Bit(x, m - 1) \in {0, 1}
  BY <1>3, BitIs
<1> QED BY <1>2, <1>4, <1>5, <1>6

(* The first k of w reversed bits are the reversal of the lowest k bits,   *)
(* and the rest are zero for a number of k bits.                           *)
LEMMA ReversedPrefix ==
    ASSUME NEW k \in Nat, NEW w \in Nat, k <= w, w <= Bits, NEW x \in Slots
    PROVE  \E s \in Nat : /\ s < 2^(w - k)
                          /\ Reversed[w][x] = Reversed[k][x] * 2^(w - k) + s
                          /\ x < 2^k => s = 0
<1> DEFINE P(m) == \E s \in Nat : /\ s < 2^(m - k)
                                  /\ Reversed[m][x] = Reversed[k][x] * 2^(m - k) + s
                                  /\ x < 2^k => s = 0
           S == {m \in Nat : k <= m /\ m <= Bits /\ ~P(m)}
<1>1. SUFFICES ASSUME S # {} PROVE FALSE
  BY Zenon
<1>2. PICK m \in S : \A j \in S : m <= j
  BY <1>1, Smallest
<1>3. Bits \in Nat /\ m \in Nat /\ k <= m /\ m <= Bits
  BY HashAssumption
<1>4. Reversed[k][x] \in Nat
  BY <1>3, ReversedNat
<1>5. P(k)
  <2>1. k - k = 0 /\ 0 < 2^(k - k) /\ Reversed[k][x] = Reversed[k][x] * 2^(k - k) + 0
    BY <1>4, PowerZero
  <2> QED BY <2>1
<1>6. m # k /\ m - 1 \in Nat /\ k <= m - 1 /\ m - 1 + 1 = m /\ m - 1 \notin S
  <2> HIDE DEF P
  <2>1. ~P(m)
    BY <1>2
  <2>2. m # k
    BY <2>1, <1>5
  <2>3. m - 1 \in Nat /\ k <= m - 1 /\ m - 1 + 1 = m /\ ~(m <= m - 1)
    BY <2>2, <1>3
  <2> QED BY <2>2, <2>3, <1>2
<1>7. P(m - 1)
  BY <1>3, <1>6
<1>8. PICK s \in Nat : /\ s < 2^(m - 1 - k)
                       /\ Reversed[m - 1][x] = Reversed[k][x] * 2^(m - 1 - k) + s
                       /\ x < 2^k => s = 0
  BY <1>7
<1> DEFINE b == Bit(x, m - 1)
           p == 2^(m - 1 - k)
<1>9. b \in {0, 1} /\ (x < 2^(m - 1) => b = 0) /\ x \in Nat
  BY <1>6, BitIs
<1>10. x < 2^k => b = 0
  BY <1>6, <1>9, PowerGrows, PowerPositive
<1>11. Reversed[m][x] = 2 * Reversed[m - 1][x] + b
  BY <1>3, <1>6, ReversedIs
<1>12. p \in Nat /\ 2^(m - k) = 2 * p
  <2>1. m - 1 - k \in Nat /\ m - 1 - k + 1 = m - k
    BY <1>3, <1>6
  <2> QED BY <2>1, PowerNext
<1>13. P(m)
  <2> DEFINE z == 2 * s + b
             c == Reversed[k][x]
  <2>1. z \in Nat /\ z < 2 * p
    <3> HIDE DEF p, b
    <3> QED BY <1>8, <1>9, <1>12 DEF p
  <2>2. Reversed[m][x] = c * (2 * p) + z
    <3>1. Reversed[m][x] = 2 * (c * p + s) + b
      BY <1>8, <1>11
    <3>2. c \in Nat
      BY <1>4
    <3> HIDE DEF c, p, b
    <3> QED BY <3>1, <3>2, <1>9, <1>12
  <2>3. x < 2^k => z = 0
    BY <1>8, <1>9, <1>10
  <2> HIDE DEF z, b
  <2> QED BY <2>1, <2>2, <2>3, <1>12
<1> QED BY <1>2, <1>13

(* As many reversed bits are the same as lowest bits are.                  *)
LEMMA ReversedSame ==
    ASSUME NEW k \in Nat, k <= Bits, NEW x \in Slots, NEW y \in Slots
    PROVE  Reversed[k][x] = Reversed[k][y] <=> x % 2^k = y % 2^k
<1> DEFINE P(m) == Reversed[m][x] = Reversed[m][y] <=> x % 2^m = y % 2^m
           S == {m \in Nat : m <= Bits /\ ~P(m)}
<1>1. SUFFICES ASSUME S # {} PROVE FALSE
  BY Zenon
<1>2. PICK m \in S : \A j \in S : m <= j
  BY <1>1, Smallest
<1>3. Bits \in Nat /\ m \in Nat /\ m <= Bits /\ x \in Nat /\ y \in Nat
  BY HashAssumption, BitIs
<1>4. P(0)
  <2>1. x % 1 = 0 /\ y % 1 = 0
    BY <1>3
  <2> QED BY <2>1, PowerZero, ReversedIs
<1>5. m # 0 /\ m - 1 \in Nat /\ m - 1 + 1 = m
  <2> HIDE DEF P
  <2>1. m # 0
    BY <1>2, <1>4
  <2> QED BY <2>1, <1>3
<1>6. P(m - 1)
  <2> HIDE DEF P
  <2>1. m - 1 \notin S
    BY <1>2, <1>3, <1>5
  <2> QED BY <2>1, <1>3, <1>5
<1> DEFINE p == 2^(m - 1)
           b == Bit(x, m - 1)
           c == Bit(y, m - 1)
<1>7. /\ b \in {0, 1} /\ c \in {0, 1}
      /\ x % 2^m = (x % p) + p * b /\ y % 2^m = (y % p) + p * c
  BY <1>5, BitIs
<1>8. p \in Nat /\ p > 0 /\ x % p \in 0..(p - 1) /\ y % p \in 0..(p - 1)
  <2>1. p \in Nat /\ p > 0
    BY <1>5, PowerPositive
  <2> HIDE DEF p
  <2> QED BY <2>1, <1>3, DivModOf
<1>9. /\ Reversed[m][x] = 2 * Reversed[m - 1][x] + b
      /\ Reversed[m][y] = 2 * Reversed[m - 1][y] + c
      /\ Reversed[m - 1][x] \in Nat /\ Reversed[m - 1][y] \in Nat
  BY <1>3, <1>5, ReversedIs, ReversedNat
<1>10. x % 2^m = y % 2^m <=> x % p = y % p /\ b = c
  <2> DEFINE u == x % p
             v == y % p
  <2>1. u \in 0..(p - 1) /\ v \in 0..(p - 1) /\ x % 2^m = u + p * b /\ y % 2^m = v + p * c
    BY <1>7, <1>8
  <2> HIDE DEF p, b, c, u, v
  <2>2. u + p * b = v + p * c <=> u = v /\ b = c
    BY <1>7, <1>8, <2>1
  <2> QED BY <2>1, <2>2 DEF u, v
<1>11. Reversed[m][x] = Reversed[m][y] <=> Reversed[m - 1][x] = Reversed[m - 1][y] /\ b = c
  <2> HIDE DEF b, c
  <2> QED BY <1>7, <1>9
<1> QED BY <1>2, <1>6, <1>10, <1>11

-----------------------------------------------------------------------------
(* Order keys.                                                             *)
Powers == {2^k : k \in 0..Bits - 1}

LEMMA OrderKeys ==
    ASSUME NEW x \in Slots
    PROVE  /\ x \in Nat
           /\ Regular(x) \in Nat /\ Regular(x) % 2 = 1
           /\ Dummy(x) \in Nat /\ Dummy(x) % 2 = 0
<1>1. BitReverse(x) \in Nat /\ x \in Nat
  BY HashAssumption, ReversedNat, BitIs DEF BitReverse
<1> QED BY <1>1 DEF Regular, Dummy

(* In a table of 2^k buckets: the order keys of all numbers with the same  *)
(* lowest k bits are between their dummy node's and the next.              *)
LEMMA Placed ==
    ASSUME NEW k \in Nat, k < Bits, NEW x \in Slots
    PROVE  LET c == Reversed[k][x]
               d == 2^(Bits - k)
           IN  /\ c \in Nat /\ d \in Nat /\ d > 1
               /\ c * d < Regular(x) /\ Regular(x) < c * d + d
               /\ x < 2^k => Dummy(x) = c * d
<1> DEFINE c == Reversed[k][x]
           e == 2^(Bits - 1 - k)
<1>1. Bits \in Nat /\ k <= Bits /\ Bits - 1 - k \in Nat /\ Bits - 1 - k + 1 = Bits - k
  BY HashAssumption
<1>2. 2^(Bits - k) = 2 * e /\ e \in Nat /\ e > 0
  BY <1>1, PowerNext, PowerPositive
<1>3. c \in Nat
  BY <1>1, ReversedNat
<1>4. PICK s \in Nat : /\ s < 2^(Bits - k)
                       /\ Reversed[Bits][x] = c * 2^(Bits - k) + s
                       /\ x < 2^k => s = 0
  <2>1. Bits \in Nat /\ k <= Bits /\ Bits <= Bits
    BY <1>1
  <2> HIDE DEF c
  <2> QED BY <2>1, ReversedPrefix DEF c
<1> HIDE DEF c, e
<1>5. /\ BitReverse(x) = 2 * (c * e) + s /\ c * e \in Nat /\ c * (2 * e) = 2 * (c * e)
      /\ s < 2 * e
  BY <1>2, <1>3, <1>4 DEF BitReverse
<1> DEFINE ce == c * e
<1> HIDE DEF ce
<1>6. BitReverse(x) \div 2 = ce + (s \div 2) /\ ce \in Nat
  BY <1>4, <1>5 DEF ce
<1>7. s \div 2 \in Nat /\ s \div 2 < e /\ (s = 0 => s \div 2 = 0)
  BY <1>2, <1>5
<1>8. Regular(x) = 2 * ce + 2 * (s \div 2) + 1 /\ Dummy(x) = 2 * ce + 2 * (s \div 2)
  BY <1>6, <1>7 DEF Regular, Dummy
<1>9. 2 * ce < Regular(x) /\ Regular(x) < 2 * ce + 2 * e /\ (x < 2^k => Dummy(x) = 2 * ce)
  BY <1>2, <1>4, <1>6, <1>7, <1>8
<1>10. 2 * ce = c * (2 * e)
  BY <1>5 DEF ce
<1> QED BY <1>2, <1>3, <1>9, <1>10 DEF c

LEMMA PowersAre ==
    ASSUME NEW n \in Powers
    PROVE  /\ n \in Nat /\ n > 0 /\ n <= 2^(Bits - 1) /\ 2^(Bits - 1) \in Nat
           /\ 2 * 2^(Bits - 1) = 2^Bits
           /\ \E k \in Nat : k < Bits /\ n = 2^k
           /\ \A b \in 0..n - 1 : b \in Slots /\ b \in Nat
           /\ n < 2^(Bits - 1) => 2 * n \in Powers
<1>1. PICK k \in 0..Bits - 1 : n = 2^k
  BY DEF Powers
<1>2. Bits \in Nat /\ k \in Nat /\ Bits - 1 \in Nat /\ Bits - 1 + 1 = Bits
  BY HashAssumption
<1>3. n \in Nat /\ n > 0 /\ n <= 2^(Bits - 1) /\ 2^(Bits - 1) \in Nat
  BY <1>1, <1>2, PowerPositive, PowerGrows
<1>4. 2 * 2^(Bits - 1) = 2^Bits
  BY <1>2, PowerNext
<1>5. \A b \in 0..n - 1 : b \in Slots /\ b \in Nat
  BY <1>3, <1>4 DEF Slots
<1>6. ASSUME n < 2^(Bits - 1) PROVE 2 * n \in Powers
  <2>1. k # Bits - 1
    BY <1>1, <1>3, <1>6
  <2>2. 2 * n = 2^(k + 1) /\ k + 1 \in 0..Bits - 1
    BY <1>1, <1>2, <2>1, PowerNext
  <2> QED BY <2>2 DEF Powers
<1> QED BY <1>1, <1>2, <1>3, <1>4, <1>5, <1>6

(* Whatever the width of the hash and the size n of the table, an element  *)
(* belongs to bucket b, by the remainder of its hash, exactly if its order *)
(* key lies between the dummy node of b and the next dummy node: so the    *)
(* bits that _Reverse swaps let _Find and unsafe_end start at one pointer, *)
(* and a table that doubles need not move anything.                        *)
THEOREM InBucket ==
    ASSUME NEW h \in Slots, NEW n \in Powers, NEW b \in 0..n - 1
    PROVE  /\ h % n \in 0..n - 1
           /\ h % n = b <=> /\ Dummy(b) < Regular(h)
                            /\ \A c \in 0..n - 1 : Dummy(b) < Dummy(c) => Regular(h) < Dummy(c)
<1>1. PICK k \in Nat : k < Bits /\ n = 2^k
  BY PowersAre
<1>2. n \in Nat /\ n > 0 /\ h \in Nat /\ h % n \in 0..n - 1 /\ \A c \in 0..n - 1 : c \in Slots /\ c \in Nat
  BY PowersAre, OrderKeys, DivModOf
<1> DEFINE r(x) == Reversed[k][x]
           d == 2^(Bits - k)
<1>3. d \in Nat /\ d > 1
  BY <1>1, Placed
<1>4. \A x \in Slots : r(x) \in Nat /\ r(x) * d < Regular(x) /\ Regular(x) < r(x) * d + d
  BY <1>1, Placed
<1>5. \A c \in 0..n - 1 : Dummy(c) = r(c) * d
  <2> TAKE c \in 0..n - 1
  <2>1. c \in Slots /\ c < 2^k
    BY <1>1, <1>2
  <2> QED BY <2>1, <1>1, Placed
<1>6. \A c \in 0..n - 1 : r(h) = r(c) <=> h % n = c
  <2> TAKE c \in 0..n - 1
  <2>1. c % n = c
    BY <1>2
  <2>2. r(h) = r(c) <=> h % n = c % n
    BY <1>1, <1>2, ReversedSame, HashAssumption
  <2> QED BY <2>1, <2>2
<1>7. \A a, c \in Nat : a < c <=> a * d < c * d
  BY <1>3
<1>8. \A a, c \in Nat : a < c => a * d + d <= c * d
  <2> TAKE a, c \in Nat
  <2> HAVE a < c
  <2>1. (a + 1) * d <= c * d
    BY <1>3
  <2> QED BY <2>1, <1>3
<1>9. Regular(h) \in Nat
  BY OrderKeys
<1> HIDE DEF r, d
<1>10. ASSUME h % n = b
       PROVE  /\ Dummy(b) < Regular(h)
              /\ \A c \in 0..n - 1 : Dummy(b) < Dummy(c) => Regular(h) < Dummy(c)
  <2>1. r(h) = r(b) /\ b \in Slots
    BY <1>2, <1>6, <1>10
  <2>2. Dummy(b) < Regular(h)
    BY <2>1, <1>4, <1>5
  <2>3. ASSUME NEW c \in 0..n - 1, Dummy(b) < Dummy(c) PROVE Regular(h) < Dummy(c)
    <3>1. r(b) \in Nat /\ r(c) \in Nat /\ c \in Slots
      BY <1>2, <1>4
    <3>2. r(b) < r(c)
      BY <3>1, <2>3, <1>5, <1>7
    <3>3. r(b) * d + d <= r(c) * d
      BY <3>1, <3>2, <1>8
    <3>4. Regular(h) < r(b) * d + d
      BY <2>1, <1>4
    <3>5. r(b) * d \in Nat /\ r(c) * d \in Nat
      BY <3>1, <1>3
    <3> QED BY <3>3, <3>4, <3>5, <1>3, <1>5, <1>9
  <2> QED BY <2>2, <2>3
<1>11. ASSUME Dummy(b) < Regular(h), h % n # b,
              \A c \in 0..n - 1 : Dummy(b) < Dummy(c) => Regular(h) < Dummy(c)
       PROVE  FALSE
  <2> DEFINE c == h % n
  <2>1. c \in 0..n - 1 /\ b \in Slots /\ c \in Slots /\ r(h) = r(c) /\ r(h) # r(b)
    BY <1>2, <1>6, <1>11
  <2> HIDE DEF c
  <2>2. r(b) \in Nat /\ r(c) \in Nat /\ r(b) * d \in Nat /\ r(c) * d \in Nat
    BY <2>1, <1>3, <1>4
  <2>3. Dummy(b) = r(b) * d /\ Dummy(c) = r(c) * d
    BY <2>1, <1>5
  <2>4. r(c) * d < Regular(h) /\ Regular(h) < r(c) * d + d
    BY <2>1, <1>4
  <2>5. ~(r(c) < r(b))
    <3>1. SUFFICES ASSUME r(c) < r(b) PROVE FALSE
      OBVIOUS
    <3>2. r(c) * d + d <= r(b) * d
      BY <3>1, <2>2, <1>8
    <3> QED BY <3>2, <2>2, <2>3, <2>4, <1>3, <1>9, <1>11
  <2>6. r(b) < r(c)
    BY <2>1, <2>2, <2>5
  <2>7. Dummy(b) < Dummy(c)
    BY <2>2, <2>3, <2>6, <1>7
  <2>8. Regular(h) < Dummy(c)
    BY <2>1, <2>7, <1>11
  <2> QED BY <2>2, <2>3, <2>4, <2>8, <1>9
<1> QED BY <1>2, <1>10, <1>11

LEMMA KeyBehindDummy ==
    ASSUME NEW h \in Slots, NEW n \in Powers
    PROVE  h % n \in 0..n - 1 /\ Dummy(h % n) < Regular(h)
<1>1. h \in Nat /\ n \in Nat /\ n > 0
  BY OrderKeys, PowersAre
<1>2. h % n \in 0..n - 1
  BY <1>1
<1> QED BY <1>2, InBucket

LEMMA DummyZero == 0 \in Slots /\ Dummy(0) = 0
<1>1. 0 \in Slots /\ 0 < 2^0 /\ Bits \in Nat /\ 0 < Bits
  BY HashAssumption, PowerZero, PowerPositive DEF Slots
<1>2. Reversed[0][0] = 0 /\ 2^(Bits - 0) \in Nat
  BY <1>1, ReversedIs, PowerPositive
<1>3. Dummy(0) = Reversed[0][0] * 2^(Bits - 0)
  BY <1>1, Placed
<1> QED BY <1>1, <1>2, <1>3

(* The dummy nodes of a table are as different as its buckets.             *)
LEMMA DummiesDiffer ==
    ASSUME NEW n \in Powers, NEW b \in 0..n - 1, NEW c \in 0..n - 1, Dummy(b) = Dummy(c)
    PROVE  b = c
<1>1. b \in Slots /\ c \in Slots /\ b \in Nat /\ c \in Nat /\ n \in Nat /\ n > 0
  BY PowersAre
<1>2. b % n = b /\ c % n = c
  BY <1>1
<1>3. /\ Dummy(b) < Regular(b)
      /\ \A a \in 0..n - 1 : Dummy(b) < Dummy(a) => Regular(b) < Dummy(a)
  BY <1>1, <1>2, InBucket
<1>4. b % n = c
  BY <1>1, <1>3, InBucket
<1> QED BY <1>2, <1>4

LEMMA MsbIs ==
    ASSUME NEW x \in Nat, x > 0, x < 2^(Bits + 1)
    PROVE  /\ Msb(x) \in 0..Bits /\ 2^Msb(x) <= x /\ x < 2^(Msb(x) + 1)
           /\ \A i \in Nat : 2^i <= x /\ x < 2^(i + 1) => Msb(x) = i
<1> DEFINE S == {j \in Nat : x < 2^(j + 1)}
           Fits(i) == 2^i <= x /\ x < 2^(i + 1)
<1>1. Bits \in Nat /\ Bits \in S
  BY HashAssumption
<1>2. PICK m \in S : \A j \in S : m <= j
  BY <1>1, Smallest
<1>3. m \in Nat /\ m <= Bits
  BY <1>1, <1>2
<1>4. 2^m <= x
  <2>1. CASE m = 0
    BY <2>1, PowerZero
  <2>2. CASE m # 0
    <3>1. m - 1 \in Nat /\ m - 1 + 1 = m
      BY <1>3, <2>2
    <3>2. m - 1 \notin S
      BY <1>2, <1>3, <3>1
    <3>3. ~(x < 2^m) /\ 2^m \in Nat
      BY <1>3, <3>1, <3>2, PowerPositive
    <3> QED BY <3>3
  <2> QED BY <2>1, <2>2
<1>5. m \in 0..Bits /\ Fits(m)
  BY <1>2, <1>3, <1>4
<1>6. ASSUME NEW i \in Nat, NEW j \in Nat, Fits(i), Fits(j) PROVE i = j
  <2>1. ASSUME NEW a \in Nat, NEW b \in Nat, Fits(a), Fits(b), a < b PROVE FALSE
    <3>1. 2^(a + 1) <= 2^b /\ 2^(a + 1) \in Nat /\ 2^b \in Nat
      BY <2>1, PowerGrows, PowerPositive
    <3> QED BY <3>1, <2>1
  <2> QED BY <2>1, <1>6
<1>7. Msb(x) = CHOOSE i \in 0..Bits : Fits(i)
  BY DEF Msb
<1>8. Msb(x) \in 0..Bits /\ Fits(Msb(x))
  <2> HIDE DEF Fits
  <2> QED BY <1>5, <1>7
<1> QED BY <1>1, <1>6, <1>8

(* The dummy node of a bucket is behind its parent's.                      *)
LEMMA ParentIs ==
    ASSUME NEW n \in Powers, NEW b \in 0..n - 1, b > 0
    PROVE  /\ Parent(b) \in 0..n - 1 /\ Parent(b) < b
           /\ Dummy(Parent(b)) < Dummy(b)
<1>1. b \in Slots /\ b \in Nat /\ n \in Nat /\ n <= 2^(Bits - 1) /\ 2^(Bits - 1) \in Nat
  BY PowersAre
<1>2. /\ Bits \in Nat /\ Bits - 1 \in Nat /\ b < 2^(Bits - 1) /\ 2^(Bits - 1) <= 2^(Bits + 1)
      /\ 2^(Bits + 1) \in Nat
  BY <1>1, HashAssumption, PowerGrows, PowerPositive
<1> DEFINE m == Msb(b)
           a == b - 2^m
<1>3. m \in 0..Bits /\ 2^m <= b /\ b < 2^(m + 1)
  BY <1>1, <1>2, MsbIs
<1>4. 2^m \in Nat /\ 2^m > 0 /\ 2^(m + 1) = 2 * 2^m
  BY <1>3, PowerPositive, PowerNext
<1>5. a \in Nat /\ a < b /\ a < 2^m /\ a \in 0..n - 1 /\ a \in Slots
  <2> HIDE DEF m
  <2>1. a \in Nat /\ a < b /\ a < 2^m /\ a \in 0..n - 1
    BY <1>1, <1>3, <1>4
  <2> QED BY <2>1, PowersAre
<1>6. m + 1 < Bits
  <2>1. SUFFICES ASSUME m + 1 >= Bits PROVE FALSE
    BY <1>2, <1>3
  <2>2. 2^(Bits - 1) <= 2^m
    BY <2>1, <1>2, <1>3, PowerGrows
  <2> QED BY <2>2, <1>1, <1>2, <1>3, <1>4
<1> DEFINE d == 2^(Bits - (m + 1))
<1>7. d \in Nat /\ d > 1 /\ 2^(Bits - m) = 2 * d
  <2>1. Bits - (m + 1) \in Nat /\ Bits - (m + 1) + 1 = Bits - m
    BY <1>2, <1>3, <1>6
  <2>2. d > 1
    BY <1>1, <1>3, <1>6, Placed
  <2> QED BY <2>1, <2>2, PowerNext
<1>8. Dummy(b) = Reversed[m + 1][b] * d
  BY <1>1, <1>3, <1>6, Placed
<1>9. Dummy(a) = Reversed[m][a] * (2 * d) /\ Reversed[m][a] \in Nat
  <2>1. m \in Nat /\ m < Bits
    BY <1>2, <1>3, <1>6
  <2> HIDE DEF a, m
  <2> QED BY <2>1, <1>5, <1>7, Placed
<1>10. Reversed[m][a] = Reversed[m][b]
  <2>1. b % 2^m = a /\ a % 2^m = a
    <3> DEFINE p == 2^m
    <3>1. b = p * 1 + a /\ a = p * 0 + a /\ p \in Nat /\ a < p
      BY <1>1, <1>4, <1>5
    <3> HIDE DEF p, a
    <3>2. b % p = a /\ a % p = a
      BY <3>1, <1>5
    <3> QED BY <3>2 DEF p
  <2> QED BY <2>1, <1>1, <1>2, <1>3, <1>5, ReversedSame
<1>11. Bit(b, m) = 1
  <2>1. b \div 2^m = 1
    BY <1>1, <1>3, <1>4
  <2> QED BY <2>1 DEF Bit
<1>12. Reversed[m + 1][b] = 2 * Reversed[m][a] + 1
  <2>1. m \in Nat /\ m + 1 <= Bits
    BY <1>2, <1>3, <1>6
  <2> HIDE DEF a, m
  <2>2. Reversed[m + 1][b] = 2 * Reversed[m][b] + Bit(b, m)
    BY <2>1, <1>1, ReversedIs
  <2> QED BY <2>2, <1>10, <1>11
<1>13. Dummy(a) < Dummy(b)
  <2> DEFINE c == Reversed[m][a]
  <2>1. c \in Nat /\ Dummy(a) = c * (2 * d) /\ Dummy(b) = (2 * c + 1) * d
    BY <1>8, <1>9, <1>12
  <2> HIDE DEF c, d, a
  <2> QED BY <2>1, <1>7
<1> QED BY <1>5, <1>13 DEF Parent

(* In a table of twice n buckets, b is the parent of the bucket b + n.     *)
LEMMA ChildIs ==
    ASSUME NEW n \in Nat, 2 * n \in Powers, NEW b \in 0..n - 1
    PROVE  b + n \in n..2 * n - 1 /\ Parent(b + n) = b
<1>1. PICK k \in Nat : k < Bits /\ 2 * n = 2^k
  BY PowersAre
<1>2. k # 0
  <2>1. SUFFICES ASSUME k = 0 PROVE FALSE
    OBVIOUS
  <2>2. 2 * n = 1
    BY <2>1, <1>1, PowerZero
  <2> QED BY <2>2
<1>3. k - 1 \in Nat /\ k - 1 + 1 = k /\ Bits \in Nat
  BY <1>1, <1>2, HashAssumption
<1>4. n = 2^(k - 1)
  BY <1>1, <1>3, PowerNext
<1>5. b + n \in Nat /\ b + n > 0 /\ n <= b + n /\ b + n < 2 * n
  BY <1>4, PowerPositive, <1>3
<1>6. b + n < 2^(Bits + 1)
  <2>1. 2^k <= 2^(Bits + 1) /\ 2^(Bits + 1) \in Nat
    BY <1>1, <1>3, PowerGrows, PowerPositive
  <2> QED BY <2>1, <1>1, <1>5
<1>7. Msb(b + n) = k - 1
  BY <1>1, <1>3, <1>4, <1>5, <1>6, MsbIs
<1> QED BY <1>4, <1>5, <1>7 DEF Parent

LEMMA RoundUpIs ==
    ASSUME NEW n \in 1..2^(Bits - 1)
    PROVE  RoundUp(n) \in Powers /\ n <= RoundUp(n)
<1>1. /\ Bits \in Nat /\ Bits - 1 \in Nat /\ 2^(Bits - 1) \in Nat /\ 2^Bits = 2 * 2^(Bits - 1)
      /\ 2^(Bits + 1) = 2 * 2^Bits
  BY HashAssumption, PowerPositive, PowerNext, Bits - 1 + 1 = Bits
<1> DEFINE x == 2 * n - 1
           m == Msb(x)
<1>2. x \in Nat /\ x > 0 /\ x < 2^Bits /\ x < 2^(Bits + 1)
  BY <1>1
<1>3. m \in 0..Bits /\ 2^m <= x /\ x < 2^(m + 1)
  <2> HIDE DEF x
  <2> QED BY <1>2, MsbIs
<1>4. 2^m \in Nat /\ 2^(m + 1) = 2 * 2^m
  BY <1>3, PowerNext
<1>5. m # Bits
  <2>1. SUFFICES ASSUME m = Bits PROVE FALSE
    OBVIOUS
  <2> HIDE DEF x, m
  <2> QED BY <2>1, <1>1, <1>2, <1>3
<1>6. m \in 0..Bits - 1
  BY <1>3, <1>5, <1>1
<1>7. n <= 2^m
  BY <1>3, <1>4
<1> QED BY <1>6, <1>7 DEF RoundUp, Powers

-----------------------------------------------------------------------------
(* The list: each node has a place in it, its pointer leads to the next    *)
(* place, and the places are in the order of the keys.                     *)
NodeType == [order : Nat, val : Keys \cup {NoKey}, no : Nat]
Pointer  == NodeType \cup {Null}

IsList(f, r) ==
    LET N == DOMAIN f
    IN  /\ MyhHead \in N /\ r \in [N -> Nat] /\ r[MyhHead] = 0
        /\ \A m, n \in N : r[m] = r[n] => m = n
        /\ \A m \in N : f[m] # Null => f[m] \in N /\ r[f[m]] = r[m] + 1
        /\ \A m \in N : f[m] = Null => \A n \in N : r[n] <= r[m]
        /\ \A n \in N : r[n] # 0 => \E m \in N : r[n] = r[m] + 1
        /\ \A m, n \in N : r[m] < r[n] =>
               m.order <= n.order /\ (IsDummy(n) => m.order < n.order)

Ops   == Safe \cup Unsafe
Keyed == Ops \ {"iterate", "unsafe_end"}
Found == {"find", "const_find", "equal_range"}
CallType == [op : Ops \cup {"none"}, no : Nat, key : Keys \cup {NoKey},
             bucket : Slots, chain : Seq(Slots), iter : Pointer, where : Pointer,
             found : SUBSET NodeType, size : Int, before : SUBSET NodeType]

Types == /\ Nodes \subseteq NodeType /\ IsFiniteSet(Nodes)
         /\ next \in [Nodes -> Pointer]
         /\ buckets \in [Slots -> Pointer] /\ segments \in SUBSET Nat
         /\ numberOfBuckets \in Powers
         /\ elementCount \in Int /\ multimapping \in BOOLEAN
         /\ at \in [Threads -> Places] /\ call \in [Threads -> CallType]
         /\ calls \in Nat

(* A bucket that is set has its dummy node and its parent; a dummy node is *)
(* that of a bucket of the table; an element is in the place of its key    *)
(* and known by the call that inserted it.                                 *)
Buckets == 0..numberOfBuckets - 1
TableInv ==
    /\ buckets[0] = MyhHead /\ 0 \in segments
    /\ \A b \in Slots : buckets[b] # Null =>
         /\ b \in Buckets /\ SegmentOf(b) \in segments
         /\ buckets[b] \in Nodes /\ IsDummy(buckets[b]) /\ buckets[b].order = Dummy(b)
         /\ b > 0 => buckets[Parent(b)] # Null
    /\ \A n \in Nodes : IsDummy(n) => \E b \in Buckets : n.order = Dummy(b)
ElementsInv ==
    /\ \A e \in Elements : /\ e.val \in Keys /\ e.order = Regular(Hash[e.val])
                           /\ e.no \in 1..MaxCalls /\ e.no <= calls
    /\ \A e, f \in Elements : e.no = f.no => e = f
    /\ ~multimapping => \A e, f \in Elements : e.val = f.val => e = f

(* Calls have numbers of their own, and some run alone.                    *)
CallsInv ==
    \A t, u \in Threads : t # u /\ at[t] # "idle" /\ at[u] # "idle" =>
        call[t].no # call[u].no /\ call[t].op \notin Unsafe

Making == {"bucket", "dummy", "set", "allocate", "write"}
Linked == {"count", "adjust", "grow", "return"}
Last(s) == s[Len(s)]

(* What a call knows wherever it is.                                       *)
CallInv(t) ==
    LET c == call[t]
    IN  /\ at[t] = "idle" <=> c.op = "none"
        /\ at[t] = "idle" => c = NoCall
        /\ c.iter \in Nodes \cup {Null}
        /\ c.op \in Keyed => c.key \in Keys
        /\ at[t] # "idle" => c.no \in 1..MaxCalls /\ c.no <= calls
        /\ at[t] \notin Linked => \A e \in Elements : e.no # c.no
        /\ c.before \subseteq Elements
        /\ c.op \in Found => \A e \in c.before : e.val = c.key
        /\ c.op \notin Found \cup {"iterate"} => c.before = {}
        /\ at[t] = "climb" => c.op = "const_find"
        /\ at[t] = "begin" => c.op = "iterate"
        /\ at[t] \in Making => c.op \notin {"const_find", "iterate"}
        /\ at[t] \in {"count", "adjust", "grow"} => c.op = "insert"
        /\ at[t] = "adjust" => c.size <= MaxCalls
        /\ at[t] = "grow" => c.size < 2^(Bits - 1)
        /\ at[t] \in Making \cup {"climb", "begin"} => c.found = {}

(* A call that makes buckets: each of the chain is the parent of the next, *)
(* and the key that is looked for is behind the last.                      *)
ChainInv(t) ==
    LET c == call[t]
        s == c.chain
        b == Head(s)
    IN  /\ at[t] \in Making =>
             /\ s # <<>>
             /\ \A i \in 1..Len(s) : s[i] \in Buckets
             /\ \A i \in 1..Len(s) - 1 : s[i + 1] > 0 /\ s[i] = Parent(s[i + 1])
             /\ c.op \in Keyed => Dummy(Last(s)) < Order(t)
             /\ c.op = "unsafe_end" =>
                  /\ c.bucket \in Buckets /\ Last(s) >= numberOfBuckets \div 2
                  /\ \A d \in numberOfBuckets \div 2..Last(s) - 1 : buckets[d] # Null
        /\ at[t] \in Making \ {"bucket"} => b > 0 /\ buckets[Parent(b)] # Null
        /\ at[t] \in {"set", "allocate", "write"} =>
             c.where \in Nodes /\ IsDummy(c.where) /\ c.where.order = Dummy(b)
        /\ at[t] = "write" => SegmentOf(b) \in segments
        /\ at[t] = "climb" => c.bucket \in Buckets /\ Dummy(c.bucket) < Order(t)

(* A call between two nodes: the first is before what it looks for, and    *)
(* the second was its successor.                                           *)
Ahead(t, r, n) == call[t].where # Null /\ r[call[t].where] <= r[n]
SearchInv(t, r) ==
    LET c == call[t]
    IN  /\ at[t] \in {"dummy", "search"} =>
             /\ c.iter \in Nodes
             /\ c.where # Null => c.where \in Nodes /\ r[c.iter] < r[c.where]
        /\ at[t] = "dummy"  => c.iter.order < Dummy(Head(c.chain))
        /\ at[t] = "search" =>
             /\ c.op \in Keyed => c.iter.order <= Order(t)
             /\ c.op = "insert" /\ ~multimapping =>
                  \A e \in OfKey(c.key) :
                      /\ r[c.iter] < r[e]
                      /\ c.where # Null /\ c.where.order <= Order(t) => r[c.where] <= r[e]
             /\ c.op \in Found \cup {"iterate"} =>
                  \A e \in c.before : e \in c.found \/ Ahead(t, r, e)
             /\ c.op = "equal_range" /\ c.found # {} => c.iter.order = Order(t)
             /\ c.op \in Unsafe => c.where = next[c.iter]
             /\ c.op = "erase" =>
                  /\ \A e \in OfKey(c.key) : Ahead(t, r, e)
                  /\ c.found # {} /\ c.where # Null => c.where.order >= Order(t)
             /\ c.op = "unsafe_end" =>
                  LET d == buckets[c.bucket]
                      In(n) == r[d] < r[n] /\ r[n] <= r[c.iter]
                  IN  /\ c.bucket \in Buckets /\ \A b \in Buckets : buckets[b] # Null
                      /\ r[d] <= r[c.iter]
                      /\ c.found = {e \in Elements : In(e)}
                      /\ \A n \in Nodes : In(n) => ~IsDummy(n)
ReturnInv(t) ==
    LET c == call[t]
    IN  at[t] = "return" =>
          /\ c.op \in {"find", "const_find"} /\ c.before # {} => c.found # {}
          /\ c.op = "equal_range" => Collides(c.key) \/ c.before \subseteq c.found
          /\ c.op = "iterate" => c.before \subseteq c.found
          /\ c.op = "unsafe_end" =>
                c.found = {n \in Elements : Hash[n.val] % numberOfBuckets = c.bucket}
          /\ c.op = "erase" => Collides(c.key) \/ OfKey(c.key) = {}

LocalInv(t, r) == CallInv(t) /\ ChainInv(t) /\ SearchInv(t, r) /\ ReturnInv(t)

HInv(r) == /\ IsList(next, r)
           /\ TableInv /\ ElementsInv /\ CallsInv /\ Counted
           /\ \A t \in Threads : LocalInv(t, r)
IInv == Types /\ \E r \in [Nodes -> Nat] : HInv(r)

-----------------------------------------------------------------------------
(* Lemmas about lists.                                                     *)
Shift(r, i, n) == [m \in DOMAIN r \cup {n} |->
                      IF m = n THEN r[i] + 1 ELSE IF r[m] <= r[i] THEN r[m] ELSE r[m] + 1]
Drop(r, n) == [m \in DOMAIN r \ {n} |-> IF r[m] <= r[n] THEN r[m] ELSE r[m] - 1]

(* A node that is put behind i, where its key belongs.                     *)
LEMMA LinkList ==
    ASSUME NEW f, NEW r, IsList(f, r), NEW i \in DOMAIN f, NEW n,
           n \notin DOMAIN f, n # Null,
           \A m \in DOMAIN f \cup {n} : m.order \in Nat,
           i.order <= n.order, IsDummy(n) => i.order < n.order,
           f[i] # Null => n.order < f[i].order,
           NEW g, g = [m \in DOMAIN f \cup {n} |->
                          IF m = n THEN f[i] ELSE IF m = i THEN n ELSE f[m]]
    PROVE  IsList(g, Shift(r, i, n))
<1> DEFINE N == DOMAIN f
           M == N \cup {n}
           q == Shift(r, i, n)
<1>1. /\ MyhHead \in N /\ r \in [N -> Nat] /\ r[MyhHead] = 0
      /\ \A m, k \in N : r[m] = r[k] => m = k
      /\ \A m \in N : f[m] # Null => f[m] \in N /\ r[f[m]] = r[m] + 1
      /\ \A m \in N : f[m] = Null => \A k \in N : r[k] <= r[m]
      /\ \A k \in N : r[k] # 0 => \E m \in N : r[k] = r[m] + 1
      /\ \A m, k \in N : r[m] < r[k] =>
             m.order <= k.order /\ (IsDummy(k) => m.order < k.order)
  BY DEF IsList
<1>2. DOMAIN g = M /\ g[n] = f[i] /\ g[i] = n /\ \A m \in N : m # i => g[m] = f[m]
  OBVIOUS
<1>3. /\ q \in [M -> Nat] /\ q[n] = r[i] + 1
      /\ \A m \in N : q[m] = IF r[m] <= r[i] THEN r[m] ELSE r[m] + 1
  BY <1>1 DEF Shift
<1> HIDE DEF N, M, q
<1>4. M = N \cup {n} /\ i \in N /\ n \notin N /\ n # Null
  BY DEF N, M
<1>5. MyhHead \in M /\ q[MyhHead] = 0
  BY <1>1, <1>3, <1>4
<1>6. \A m, k \in M : q[m] = q[k] => m = k
  BY <1>1, <1>3, <1>4
<1>7. \A m \in M : g[m] # Null => g[m] \in M /\ q[g[m]] = q[m] + 1
  <2> TAKE m \in M
  <2> HAVE g[m] # Null
  <2>1. CASE m = n
    BY <2>1, <1>1, <1>2, <1>3, <1>4
  <2>2. CASE m = i
    BY <2>2, <1>1, <1>2, <1>3, <1>4
  <2>3. CASE m \in N /\ m # i
    <3>1. g[m] = f[m] /\ f[m] \in N /\ r[f[m]] = r[m] + 1
      BY <2>3, <1>1, <1>2
    <3>2. r[m] # r[i] /\ r[m] \in Nat /\ r[i] \in Nat
      BY <2>3, <1>1, <1>4
    <3> QED BY <3>1, <3>2, <2>3, <1>3, <1>4
  <2> QED BY <2>1, <2>2, <2>3, <1>4
<1>8. \A m \in M : g[m] = Null => \A k \in M : q[k] <= q[m]
  <2> TAKE m \in M
  <2> HAVE g[m] = Null
  <2>1. CASE m = n
    BY <2>1, <1>1, <1>2, <1>3, <1>4
  <2>2. CASE m \in N /\ m # i
    <3>1. \A k \in N : r[k] <= r[m]
      BY <2>2, <1>1, <1>2
    <3>2. r[i] < r[m] /\ r[m] \in Nat /\ r[i] \in Nat
      BY <3>1, <2>2, <1>1, <1>4
    <3> QED BY <3>1, <3>2, <2>2, <1>1, <1>3, <1>4
  <2> QED BY <2>1, <2>2, <1>2, <1>4
<1>9. \A k \in M : q[k] # 0 => \E m \in M : q[k] = q[m] + 1
  <2> TAKE k \in M
  <2> HAVE q[k] # 0
  <2>1. CASE k = n
    BY <2>1, <1>1, <1>3, <1>4
  <2>2. CASE k \in N /\ r[k] = r[i] + 1
    BY <2>2, <1>1, <1>3, <1>4
  <2>3. CASE k \in N /\ r[k] # r[i] + 1
    <3>1. PICK m \in N : r[k] = r[m] + 1
      BY <2>3, <1>1, <1>3, <1>4
    <3> QED BY <3>1, <2>3, <1>1, <1>3, <1>4
  <2> QED BY <2>1, <2>2, <2>3, <1>4
<1>10. \A m, k \in M : q[m] < q[k] =>
             m.order <= k.order /\ (IsDummy(k) => m.order < k.order)
  <2> TAKE m, k \in M
  <2> HAVE q[m] < q[k]
  <2>1. CASE m = n
    <3>1. k \in N /\ r[i] < r[k]
      BY <2>1, <1>1, <1>3, <1>4
    <3>2. f[i] # Null /\ f[i] \in N /\ r[f[i]] <= r[k]
      BY <3>1, <1>1, <1>4
    <3>3. f[i].order <= k.order
      BY <3>1, <3>2, <1>1 DEF N
    <3> QED BY <2>1, <3>1, <3>2, <3>3 DEF N
  <2>2. CASE k = n
    <3>1. m \in N /\ r[m] <= r[i]
      BY <2>2, <1>1, <1>3, <1>4
    <3>2. m = i \/ m.order <= i.order
      BY <3>1, <1>1, <1>4
    <3> QED BY <2>2, <3>1, <3>2 DEF N
  <2>3. CASE m \in N /\ k \in N
    BY <2>3, <1>1, <1>3, <1>4
  <2> QED BY <2>1, <2>2, <2>3, <1>4
<1> QED BY <1>2, <1>3, <1>5, <1>6, <1>7, <1>8, <1>9, <1>10 DEF IsList, N, M, q

(* A node that is taken out from behind i.                                 *)
LEMMA UnlinkList ==
    ASSUME NEW f, NEW r, IsList(f, r), NEW i \in DOMAIN f, NEW n,
           f[i] = n, n # Null,
           NEW g, g = [m \in DOMAIN f \ {n} |-> IF m = i THEN f[n] ELSE f[m]]
    PROVE  IsList(g, Drop(r, n)) /\ n \in DOMAIN f /\ r[n] = r[i] + 1
<1> DEFINE N == DOMAIN f
           M == N \ {n}
           q == Drop(r, n)
<1>1. /\ MyhHead \in N /\ r \in [N -> Nat] /\ r[MyhHead] = 0
      /\ \A m, k \in N : r[m] = r[k] => m = k
      /\ \A m \in N : f[m] # Null => f[m] \in N /\ r[f[m]] = r[m] + 1
      /\ \A m \in N : f[m] = Null => \A k \in N : r[k] <= r[m]
      /\ \A k \in N : r[k] # 0 => \E m \in N : r[k] = r[m] + 1
      /\ \A m, k \in N : r[m] < r[k] =>
             m.order <= k.order /\ (IsDummy(k) => m.order < k.order)
  BY DEF IsList
<1>2. n \in N /\ i \in N /\ r[n] = r[i] + 1 /\ f[i] = n
  BY <1>1
<1>3. /\ q \in [M -> Int]
      /\ \A m \in M : q[m] = IF r[m] <= r[n] THEN r[m] ELSE r[m] - 1
  BY <1>1 DEF Drop
<1>4. DOMAIN g = M /\ \A m \in M : g[m] = IF m = i THEN f[n] ELSE f[m]
  OBVIOUS
<1>5. i \in M /\ n # i
  BY <1>1, <1>2
<1> HIDE DEF N, M, q
<1>6. M = N \ {n}
  BY DEF N, M
<1>7. \A m \in M : /\ m \in N /\ r[m] \in Nat /\ r[m] # r[n] /\ r[n] \in Nat /\ r[i] \in Nat
                   /\ q[m] = IF r[m] <= r[i] THEN r[m] ELSE r[m] - 1
                   /\ r[m] > r[i] => r[m] > r[i] + 1
  BY <1>1, <1>2, <1>3, <1>6
<1>8. q \in [M -> Nat] /\ MyhHead \in M /\ q[MyhHead] = 0
  BY <1>1, <1>2, <1>3, <1>6, <1>7
<1>9. \A m, k \in M : q[m] = q[k] => m = k
  BY <1>1, <1>7
<1>10. \A m \in M : g[m] # Null => g[m] \in M /\ q[g[m]] = q[m] + 1
  <2> TAKE m \in M
  <2> HAVE g[m] # Null
  <2>1. CASE m = i
    <3>1. g[m] = f[n] /\ f[n] \in N /\ r[f[n]] = r[n] + 1
      BY <2>1, <1>1, <1>2, <1>4
    <3>2. f[n] \in M
      BY <3>1, <1>1, <1>2, <1>6
    <3> QED BY <3>1, <3>2, <2>1, <1>2, <1>7
  <2>2. CASE m # i
    <3>1. g[m] = f[m] /\ f[m] \in N /\ r[f[m]] = r[m] + 1
      BY <2>2, <1>1, <1>4, <1>7
    <3>2. f[m] # n
      BY <3>1, <2>2, <1>1, <1>2, <1>7
    <3>3. f[m] \in M
      BY <3>1, <3>2, <1>6
    <3>4. r[m] # r[i]
      BY <2>2, <1>1, <1>2, <1>7
    <3> QED BY <3>1, <3>3, <3>4, <1>7
  <2> QED BY <2>1, <2>2
<1>11. \A m \in M : g[m] = Null => \A k \in M : q[k] <= q[m]
  <2> TAKE m \in M
  <2> HAVE g[m] = Null
  <2> TAKE k \in M
  <2>1. CASE m = i
    <3>1. r[k] <= r[n]
      BY <2>1, <1>1, <1>2, <1>4, <1>7
    <3> QED BY <3>1, <2>1, <1>2, <1>7
  <2>2. CASE m # i
    <3>1. r[k] <= r[m] /\ r[n] <= r[m]
      BY <2>2, <1>1, <1>2, <1>4, <1>7
    <3> QED BY <3>1, <1>2, <1>7
  <2> QED BY <2>1, <2>2
<1>12. \A k \in M : q[k] # 0 => \E m \in M : q[k] = q[m] + 1
  <2> TAKE k \in M
  <2> HAVE q[k] # 0
  <2>1. CASE r[k] <= r[i]
    <3>1. PICK m \in N : r[k] = r[m] + 1
      BY <2>1, <1>1, <1>7
    <3>2. m \in M
      BY <3>1, <2>1, <1>1, <1>2, <1>6
    <3> QED BY <3>1, <3>2, <2>1, <1>7
  <2>2. CASE r[k] > r[i]
    <3>1. PICK m \in N : r[k] = r[m] + 1
      BY <2>2, <1>1, <1>7
    <3>2. CASE m = n
      BY <3>1, <3>2, <2>2, <1>2, <1>5, <1>7
    <3>3. CASE m # n
      <4>1. m \in M /\ r[m] > r[i]
        BY <3>1, <3>3, <2>2, <1>2, <1>6, <1>7
      <4> QED BY <4>1, <3>1, <2>2, <1>7
    <3> QED BY <3>2, <3>3
  <2> QED BY <2>1, <2>2, <1>7, <1>5
<1>13. \A m, k \in M : q[m] < q[k] =>
             m.order <= k.order /\ (IsDummy(k) => m.order < k.order)
  BY <1>1, <1>7
<1> QED BY <1>2, <1>4, <1>8, <1>9, <1>10, <1>11, <1>12, <1>13 DEF IsList, N, M, q

-----------------------------------------------------------------------------
(* What the others know when thread t makes a step: the list, the table    *)
(* and the numbers of the calls have only grown.                           *)
Grown(t, r, q) ==
    /\ \A u \in Threads \ {t} : at'[u] = at[u] /\ call'[u] = call[u] /\ call[u].op \notin Unsafe
    /\ Nodes \subseteq Nodes'
    /\ \A m, n \in Nodes : r[m] < r[n] <=> q[m] < q[n]
    /\ \A b \in Slots : buckets[b] # Null => buckets'[b] # Null
    /\ segments \subseteq segments'
    /\ numberOfBuckets <= numberOfBuckets' /\ calls <= calls' /\ multimapping' = multimapping
    /\ \A e \in Nodes' \ Nodes : ~IsDummy(e) =>
          /\ at[t] # "idle" /\ e.no = call[t].no /\ e.order = Regular(Hash[e.val])
          /\ \A m \in Nodes : m.order <= e.order => q[m] < q[e]

LEMMA OthersKeep ==
    ASSUME Types, Types', NEW r, HInv(r), NEW t \in Threads,
           NEW q \in [Nodes' -> Nat], Grown(t, r, q)
    PROVE  \A u \in Threads \ {t} : LocalInv(u, q)'
<1> TAKE u \in Threads \ {t}
<1>1. LocalInv(u, r) /\ IsList(next, r) /\ TableInv /\ ElementsInv /\ CallsInv
  BY DEF HInv
<1>2. /\ at'[u] = at[u] /\ call'[u] = call[u] /\ call[u].op \notin Unsafe
      /\ Nodes \subseteq Nodes' /\ Elements \subseteq Elements'
      /\ Buckets \subseteq Buckets' /\ segments \subseteq segments'
      /\ multimapping' = multimapping /\ calls <= calls' /\ calls \in Nat /\ calls' \in Nat
      /\ numberOfBuckets \in Nat /\ numberOfBuckets' \in Nat
  BY PowersAre DEF Grown, Types, Elements, Buckets
<1>3. r \in [Nodes -> Nat] /\ q \in [Nodes' -> Nat]
  BY <1>1 DEF IsList, Nodes
<1>4. \A m, n \in Nodes : (r[m] < r[n] <=> q[m] < q[n]) /\ (r[m] <= r[n] <=> q[m] <= q[n])
  <2> TAKE m, n \in Nodes
  <2>1. r[m] \in Nat /\ r[n] \in Nat /\ q[m] \in Nat /\ q[n] \in Nat
    BY <1>2, <1>3
  <2>2. (r[m] < r[n] <=> q[m] < q[n]) /\ (r[n] < r[m] <=> q[n] < q[m])
    BY DEF Grown
  <2> QED BY <2>1, <2>2
<1>5. ASSUME NEW e \in Elements' \ Elements
      PROVE  /\ at[u] \notin Linked => e.no # call[u].no
             /\ e.order = Regular(Hash[e.val])
             /\ \A m \in Nodes : m.order <= e.order => q[m] < q[e]
  <2>1. e \in Nodes' \ Nodes /\ ~IsDummy(e)
    BY <1>2 DEF Elements
  <2>2. /\ at[t] # "idle" /\ e.no = call[t].no /\ e.order = Regular(Hash[e.val])
        /\ \A m \in Nodes : m.order <= e.order => q[m] < q[e]
    BY <2>1 DEF Grown
  <2>3. CASE at[u] = "idle"
    <3>1. call[u].no = 0 /\ call[t].no \in 1..MaxCalls
      BY <1>1, <2>2, <2>3 DEF LocalInv, CallInv, NoCall, HInv
    <3> QED BY <2>2, <3>1
  <2>4. CASE at[u] # "idle"
    BY <1>1, <2>2, <2>4 DEF CallsInv
  <2> QED BY <2>2, <2>3, <2>4
<1>6. CallInv(u)'
  BY <1>1, <1>2, <1>5 DEF LocalInv, CallInv
<1>7. ChainInv(u)'
  <2>1. ChainInv(u) /\ call[u] \in CallType
    BY <1>1 DEF LocalInv, Types
  <2>2. call[u].op # "unsafe_end"
    BY <1>2 DEF Unsafe
  <2>3. \A b \in Slots : buckets[b] # Null => buckets'[b] # Null
    BY DEF Grown
  <2>4. Order(u)' = Order(u)
    BY <1>2 DEF Order
  <2>5. at[u] \in Making \ {"bucket"} => buckets'[Parent(Head(call[u].chain))] # Null
    <3>1. SUFFICES ASSUME at[u] \in Making \ {"bucket"}
                   PROVE  buckets'[Parent(Head(call[u].chain))] # Null
      OBVIOUS
    <3> DEFINE b == Head(call[u].chain)
    <3>2. b \in Buckets /\ b > 0 /\ buckets[Parent(b)] # Null
      BY <2>1, <3>1 DEF ChainInv, CallType
    <3>3. Parent(b) \in Slots
      BY <3>2, ParentIs, PowersAre DEF Types, Buckets
    <3> QED BY <2>3, <3>2, <3>3
  <2> QED BY <1>2, <2>1, <2>2, <2>4, <2>5 DEF ChainInv
<1>8. SearchInv(u, q)'
  <2>1. SearchInv(u, r) /\ CallInv(u) /\ call[u] \in CallType
    BY <1>1 DEF LocalInv, Types
  <2>2. Order(u)' = Order(u)
    BY <1>2 DEF Order
  <2> DEFINE c == call[u]
  <2>3. at[u] \in {"dummy", "search"} =>
             /\ c.iter \in Nodes
             /\ c.where # Null => c.where \in Nodes /\ q[c.iter] < q[c.where]
    BY <2>1, <1>4 DEF SearchInv
  <2>4. at[u] = "search" /\ c.op = "insert" /\ ~multimapping =>
             \A e \in OfKey(c.key)' :
                 /\ q[c.iter] < q[e]
                 /\ c.where # Null /\ c.where.order <= Order(u) => q[c.where] <= q[e]
    <3>1. SUFFICES ASSUME at[u] = "search", c.op = "insert", ~multimapping,
                          NEW e \in OfKey(c.key)'
                   PROVE  /\ q[c.iter] < q[e]
                          /\ c.where # Null /\ c.where.order <= Order(u) => q[c.where] <= q[e]
      OBVIOUS
    <3>2. e \in Elements' /\ e.val = c.key
      BY <1>2 DEF OfKey
    <3>3. CASE e \in Elements
      BY <2>1, <3>1, <3>2, <3>3, <1>4 DEF SearchInv, OfKey, Elements
    <3>4. CASE e \notin Elements
      <4>1. e.order = Order(u) /\ c.iter.order <= Order(u) /\ c.iter \in Nodes
        BY <2>1, <3>1, <3>2, <3>4, <1>5 DEF Order, SearchInv, Keyed, Ops, Safe, Unsafe
      <4>2. e \in Nodes' /\ (c.where # Null => c.where \in Nodes)
        BY <2>3, <3>1, <3>2 DEF Elements
      <4> QED BY <4>1, <4>2, <3>2, <3>4, <1>2, <1>3, <1>5
    <3> QED BY <3>3, <3>4
  <2>5. at[u] = "search" /\ c.op \in Found \cup {"iterate"} =>
             \A e \in c.before : e \in c.found \/ (c.where # Null /\ q[c.where] <= q[e])
    <3>1. SUFFICES ASSUME at[u] = "search", c.op \in Found \cup {"iterate"}, NEW e \in c.before,
                          e \notin c.found
                   PROVE  c.where # Null /\ q[c.where] <= q[e]
      OBVIOUS
    <3>2. c.where # Null /\ r[c.where] <= r[e] /\ c.where \in Nodes /\ e \in Nodes
      BY <2>1, <3>1 DEF SearchInv, Ahead, CallInv, Elements
    <3> QED BY <3>2, <1>4
  <2>6. c.op \notin Unsafe /\ at'[u] = at[u] /\ c' = c /\ c = call[u] /\ c' = call'[u] /\ Nodes \subseteq Nodes'
        /\ multimapping' = multimapping
    BY <1>2
  <2> HIDE DEF c
  <2>7. /\ at[u] = "dummy" => c.iter.order < Dummy(Head(c.chain))
        /\ at[u] = "search" => /\ c.op \in Keyed => c.iter.order <= Order(u)
                               /\ c.op = "equal_range" /\ c.found # {} => c.iter.order = Order(u)
    BY <2>1 DEF SearchInv, c
  <2>8. c.op # "erase" /\ c.op # "unsafe_end"
    BY <2>6 DEF Unsafe
  <2>9. ASSUME at[u] = "search"
        PROVE  /\ c.op \in Keyed => c.iter.order <= Order(u)
               /\ c.op = "insert" /\ ~multimapping' =>
                     \A e \in OfKey(c.key)' :
                         /\ q[c.iter] < q[e]
                         /\ c.where # Null /\ c.where.order <= Order(u) => q[c.where] <= q[e]
               /\ c.op \in Found \cup {"iterate"} =>
                     \A e \in c.before : e \in c.found \/ (c.where # Null /\ q[c.where] <= q[e])
               /\ c.op = "equal_range" /\ c.found # {} => c.iter.order = Order(u)
    BY <2>4, <2>5, <2>6, <2>7, <2>9
  <2> QED BY <2>2, <2>3, <2>6, <2>7, <2>8, <2>9 DEF SearchInv, Ahead
<1>9. ReturnInv(u)'
  <2>1. ReturnInv(u) /\ call[u].op # "erase" /\ call[u].op # "unsafe_end"
    BY <1>1, <1>2 DEF LocalInv, Unsafe
  <2>2. Collides(call[u].key) => Collides(call[u].key)'
    BY <1>2 DEF Collides
  <2> QED BY <1>2, <2>1, <2>2 DEF ReturnInv
<1> QED BY <1>6, <1>7, <1>8, <1>9 DEF LocalInv

(* A step of thread t that changes only what t knows.                      *)
Private(t) ==
    /\ UNCHANGED <<list, table, multimapping, calls>>
    /\ \A u \in Threads \ {t} : at'[u] = at[u] /\ call'[u] = call[u]
    /\ at[t] \notin {"idle", "count"} /\ at'[t] # "count"
    /\ at'[t] # "idle" => /\ call'[t].no = call[t].no
                          /\ call'[t].op \in Unsafe => call[t].op \in Unsafe

LEMMA PrivateStep ==
    ASSUME Types, NEW r, HInv(r), NEW t \in Threads, Private(t),
           at' \in [Threads -> Places], call' \in [Threads -> CallType], LocalInv(t, r)'
    PROVE  Types' /\ HInv(r)'
<1>1. /\ next' = next /\ elementCount' = elementCount /\ buckets' = buckets /\ segments' = segments
      /\ numberOfBuckets' = numberOfBuckets /\ multimapping' = multimapping /\ calls' = calls
  BY DEF Private, list, table
<1>2. Nodes' = Nodes /\ Elements' = Elements /\ Buckets' = Buckets
  BY <1>1 DEF Nodes, Elements, Buckets
<1>3. Types'
  BY <1>1, <1>2 DEF Types
<1>4. r \in [Nodes -> Nat]
  BY DEF HInv, IsList, Nodes
<1>5. Grown(t, r, r)
  <2>1. \A u \in Threads \ {t} : at'[u] = at[u] /\ call'[u] = call[u] /\ call[u].op \notin Unsafe
    <3> TAKE u \in Threads \ {t}
    <3>1. CASE at[u] = "idle"
      BY <3>1 DEF HInv, LocalInv, CallInv, NoCall, Private, Unsafe
    <3>2. CASE at[u] # "idle"
      BY <3>2 DEF HInv, CallsInv, Private
    <3> QED BY <3>1, <3>2
  <2> QED BY <1>1, <1>2, <2>1, PowersAre DEF Grown, Types
<1>6. \A u \in Threads : LocalInv(u, r)'
  BY <1>2, <1>3, <1>4, <1>5, OthersKeep
<1>7. IsList(next', r)
  BY <1>1 DEF HInv
<1>8. TableInv'
  BY <1>1, <1>2 DEF HInv, TableInv
<1>9. ElementsInv'
  BY <1>1, <1>2 DEF HInv, ElementsInv
<1>10. CallsInv'
  BY DEF HInv, CallsInv, Private
<1>11. Counted'
  <2>1. {u \in Threads : at'[u] = "count"} = {u \in Threads : at[u] = "count"}
    BY DEF Private
  <2> QED BY <1>1, <1>2, <2>1 DEF HInv, Counted
<1> QED BY <1>3, <1>6, <1>7, <1>8, <1>9, <1>10, <1>11 DEF HInv

LEMMA NodeFacts ==
    ASSUME Types, NEW n \in Nodes
    PROVE  /\ n \in NodeType /\ n # Null /\ n.order \in Nat /\ n.no \in Nat
           /\ next[n] \in Pointer
BY NullAssumption DEF Types, NodeType, Pointer

LEMMA IterateDoes ==
    ASSUME Types, NEW t \in Threads, NEW n \in Nodes, Iterate(t, n)
    PROVE  /\ call' \in [Threads -> CallType]
           /\ \A u \in Threads \ {t} : call'[u] = call[u]
           /\ call'[t].iter = n /\ call'[t].where = next[n]
           /\ call'[t].op = call[t].op /\ call'[t].no = call[t].no /\ call'[t].key = call[t].key
           /\ call'[t].bucket = call[t].bucket /\ call'[t].chain = call[t].chain
           /\ call'[t].found = call[t].found /\ call'[t].size = call[t].size
           /\ call'[t].before = call[t].before
<1>1. n \in Pointer /\ next[n] \in Pointer /\ call \in [Threads -> CallType]
  BY NodeFacts DEF Pointer, Types
<1>2. call' = [call EXCEPT ![t] = [call[t] EXCEPT !.iter = n, !.where = next[n]]]
  BY <1>1 DEF Iterate
<1>3. [call[t] EXCEPT !.iter = n, !.where = next[n]] \in CallType
  BY <1>1 DEF CallType
<1> QED BY <1>1, <1>2, <1>3 DEF CallType

-----------------------------------------------------------------------------
(* Steps that only read.                                                   *)
LEMMA ListFacts ==
    ASSUME Types, NEW r, IsList(next, r)
    PROVE  /\ r \in [Nodes -> Nat] /\ MyhHead \in Nodes
           /\ \A m, n \in Nodes : m.order < n.order => r[m] < r[n]
           /\ \A m, n \in Nodes : r[m] < r[n] =>
                 /\ m.order <= n.order /\ (IsDummy(n) => m.order < n.order)
                 /\ next[m] # Null /\ next[m] \in Nodes /\ r[next[m]] <= r[n]
           /\ \A m \in Nodes : next[m] # Null => next[m] \in Nodes /\ r[next[m]] = r[m] + 1
           /\ \A m, n \in Nodes : r[m] = r[n] => m = n
<1>1. r \in [Nodes -> Nat] /\ MyhHead \in Nodes
  BY DEF IsList, Nodes
<1>2. \A m, n \in Nodes : r[m] < r[n] =>
                 /\ m.order <= n.order /\ (IsDummy(n) => m.order < n.order)
                 /\ next[m] # Null /\ next[m] \in Nodes /\ r[next[m]] <= r[n]
  <2> TAKE m, n \in Nodes
  <2> HAVE r[m] < r[n]
  <2>1. next[m] # Null
    BY <1>1 DEF IsList, Nodes
  <2> QED BY <1>1, <2>1 DEF IsList, Nodes
<1>3. \A m, n \in Nodes : m.order < n.order => r[m] < r[n]
  <2> TAKE m, n \in Nodes
  <2> HAVE m.order < n.order
  <2>1. m.order \in Nat /\ n.order \in Nat /\ r[m] \in Nat /\ r[n] \in Nat
    BY <1>1, NodeFacts
  <2>2. ~(r[n] < r[m])
    BY <1>2, <2>1
  <2>3. r[n] # r[m]
    BY <2>1 DEF IsList, Nodes
  <2> QED BY <2>1, <2>2, <2>3
<1> QED BY <1>1, <1>2, <1>3 DEF IsList, Nodes

LEMMA KeyFacts ==
    ASSUME Types, NEW r, HInv(r), NEW t \in Threads, call[t].op \in Keyed
    PROVE  /\ call[t].key \in Keys /\ Hash[call[t].key] \in Slots
           /\ Order(t) \in Nat /\ Order(t) % 2 = 1
           /\ \A e \in OfKey(call[t].key) : e \in Nodes /\ e.order = Order(t)
<1>1. call[t].key \in Keys
  BY DEF HInv, LocalInv, CallInv
<1>2. Hash[call[t].key] \in Slots
  BY <1>1, HashAssumption DEF Slots
<1>3. \A e \in OfKey(call[t].key) : e \in Nodes /\ e.order = Order(t)
  BY DEF HInv, ElementsInv, OfKey, Elements, Order
<1> QED BY <1>1, <1>2, <1>3, OrderKeys DEF Order

(* The search for a key, or the walk over all, begins.                     *)
LEMMA StartSearch ==
    ASSUME Types, NEW r, HInv(r), NEW t \in Threads, NEW d \in Nodes,
           UNCHANGED <<list, table, multimapping, calls>>,
           at' = [at EXCEPT ![t] = "search"], Iterate(t, d),
           at[t] \in Making \cup {"climb", "begin"},
           call[t].op \in Keyed => d.order < Order(t),
           call[t].op = "iterate" => d = MyhHead,
           call[t].op # "unsafe_end"
    PROVE  Types' /\ HInv(r)'
<1>1. /\ next' = next /\ elementCount' = elementCount /\ buckets' = buckets /\ segments' = segments
      /\ numberOfBuckets' = numberOfBuckets /\ multimapping' = multimapping /\ calls' = calls
      /\ Nodes' = Nodes /\ Elements' = Elements /\ Buckets' = Buckets
  BY DEF list, table, Nodes, Elements, Buckets
<1>2. at' \in [Threads -> Places] /\ at'[t] = "search" /\ \A u \in Threads \ {t} : at'[u] = at[u]
  BY DEF Types, Places
<1> DEFINE c == call[t]
           cc == call'[t]
<1>3. /\ call' \in [Threads -> CallType]
      /\ \A u \in Threads \ {t} : call'[u] = call[u]
      /\ cc.iter = d /\ cc.where = next[d]
      /\ cc.op = c.op /\ cc.no = c.no /\ cc.key = c.key
      /\ cc.found = c.found /\ cc.before = c.before /\ cc.bucket = c.bucket
  BY IterateDoes
<1>4. Private(t)
  BY <1>1, <1>2, <1>3 DEF Private, Making
<1>5. CallInv(t) /\ c.op \in Ops \cup {"none"}
  BY DEF HInv, LocalInv, Types, CallType
<1>6. CallInv(t)'
  BY <1>1, <1>2, <1>3, <1>5 DEF CallInv, Making, Linked
<1>7. ChainInv(t)' /\ ReturnInv(t)'
  BY <1>2 DEF ChainInv, ReturnInv, Making
<1>8. /\ r \in [Nodes -> Nat]
      /\ \A e \in Nodes : r[d] < r[e] => next[d] # Null /\ r[next[d]] <= r[e]
      /\ next[d] # Null => next[d] \in Nodes /\ r[d] < r[next[d]]
  BY ListFacts DEF HInv
<1>9. Order(t)' = Order(t)
  BY <1>3 DEF Order
<1>10. c.op \in Keyed => \A e \in OfKey(c.key) : r[d] < r[e]
  BY KeyFacts, ListFacts DEF HInv
<1>11. c.op = "iterate" => \A e \in Elements : r[d] < r[e]
  <2>1. SUFFICES ASSUME c.op = "iterate", NEW e \in Elements PROVE r[d] < r[e]
    OBVIOUS
  <2>2. d = MyhHead /\ e \in Nodes /\ e # d /\ MyhHead \in Nodes
    <3>1. IsDummy(MyhHead) /\ MyhHead \in Nodes
      BY ListFacts DEF HInv, IsDummy, MyhHead
    <3> QED BY <2>1, <3>1 DEF Elements
  <2>3. r[d] = 0 /\ r[e] \in Nat /\ r[e] # r[d]
    BY <2>2, ListFacts DEF HInv, IsList, Nodes
  <2> QED BY <2>3
<1>12. c.found = {}
  BY <1>5 DEF CallInv
<1>13. SearchInv(t, r)'
  <2>1. c.op \in Found => \A e \in c.before : r[d] < r[e] /\ e \in Nodes
    BY <1>5, <1>10 DEF CallInv, Found, Keyed, Ops, Safe, Unsafe, OfKey, Elements
  <2>2. c.op = "iterate" => \A e \in c.before : r[d] < r[e] /\ e \in Nodes
    BY <1>5, <1>11 DEF CallInv, Elements
  <2>3. c.op \in Found \cup {"iterate"} => \A e \in c.before : next[d] # Null /\ r[next[d]] <= r[e]
    BY <2>1, <2>2, <1>8
  <2>4. c.op \in {"insert", "erase"} => \A e \in OfKey(c.key) : r[d] < r[e] /\ e \in Nodes
    BY <1>10 DEF Keyed, Ops, Safe, Unsafe, OfKey, Elements
  <2>5. c.op \in {"insert", "erase"} => \A e \in OfKey(c.key) : next[d] # Null /\ r[next[d]] <= r[e]
    BY <2>4, <1>8
  <2>6. c.op \in Keyed => d.order <= Order(t)
    BY KeyFacts, NodeFacts
  <2>7. d \in Nodes' /\ (next[d] # Null => next[d] \in Nodes' /\ r[d] < r[next[d]])
    BY <1>1, <1>8
  <2> HIDE DEF c, cc
  <2>8. cc.op = c.op /\ cc.key = c.key /\ cc.found = {} /\ cc.before = c.before
        /\ cc.iter = d /\ cc.where = next[d] /\ call'[t] = cc /\ c.op # "unsafe_end"
    BY <1>3, <1>12 DEF c, cc
  <2>9. \A k : OfKey(k)' = OfKey(k)
    BY <1>1 DEF OfKey
  <2> QED BY <1>1, <1>2, <1>9, <2>3, <2>4, <2>5, <2>6, <2>7, <2>8, <2>9 DEF SearchInv, Ahead, OfKey
<1> QED BY <1>2, <1>3, <1>4, <1>6, <1>7, <1>13, PrivateStep DEF LocalInv

LEMMA BucketFacts ==
    ASSUME Types, NEW r, HInv(r), NEW b \in Buckets
    PROVE  /\ b \in Slots /\ b \in Nat
           /\ IsInitialized(b) <=> buckets[b] # Null
           /\ buckets[b] # Null =>
                 buckets[b] \in Nodes /\ IsDummy(buckets[b]) /\ buckets[b].order = Dummy(b)
           /\ Dummy(b) \in Nat /\ Dummy(b) % 2 = 0
           /\ b > 0 => /\ Parent(b) \in Buckets /\ Parent(b) < b /\ Parent(b) \in Slots
                       /\ Dummy(Parent(b)) < Dummy(b)
                       /\ buckets[b] # Null => buckets[Parent(b)] # Null
           /\ ~IsInitialized(b) => b > 0
<1>1. numberOfBuckets \in Powers /\ b \in 0..numberOfBuckets - 1
  BY DEF Types, Buckets
<1>2. b \in Slots /\ b \in Nat
  BY <1>1, PowersAre
<1>3. IsInitialized(b) <=> buckets[b] # Null
  BY <1>2 DEF IsInitialized, HInv, TableInv
<1>4. MyhHead # Null
  BY NodeFacts, ListFacts DEF HInv
<1>5. ~IsInitialized(b) => b > 0
  BY <1>2, <1>3, <1>4 DEF HInv, TableInv
<1>6. b > 0 => Parent(b) \in 0..numberOfBuckets - 1 /\ Parent(b) < b /\ Dummy(Parent(b)) < Dummy(b)
  BY <1>1, ParentIs
<1>7. b > 0 => Parent(b) \in Slots
  BY <1>1, <1>6, PowersAre
<1> QED BY <1>2, <1>3, <1>5, <1>6, <1>7, OrderKeys DEF HInv, TableInv, Buckets

LEMMA CallFacts ==
    ASSUME Types, NEW r, HInv(r), NEW t \in Threads
    PROVE  /\ CallInv(t) /\ ChainInv(t) /\ SearchInv(t, r) /\ ReturnInv(t)
           /\ call[t] \in CallType /\ at[t] \in Places
           /\ call[t].op \in Ops \cup {"none"} /\ call[t].chain \in Seq(Slots)
           /\ call[t].bucket \in Slots /\ call[t].no \in Nat
           /\ call[t].iter \in Pointer /\ call[t].where \in Pointer
BY DEF HInv, LocalInv, Types, CallType

LEMMA SameState ==
    ASSUME UNCHANGED <<list, table, multimapping, calls>>
    PROVE  /\ next' = next /\ elementCount' = elementCount /\ buckets' = buckets
           /\ segments' = segments /\ numberOfBuckets' = numberOfBuckets
           /\ multimapping' = multimapping /\ calls' = calls
           /\ Nodes' = Nodes /\ Elements' = Elements /\ Buckets' = Buckets
           /\ \A k : OfKey(k)' = OfKey(k)
           /\ \A k : Collides(k)' = Collides(k)
BY DEF list, table, Nodes, Elements, Buckets, OfKey, Collides

LEMMA ClimbNext ==
    ASSUME Types, NEW r, HInv(r), NEW t \in Threads, Climb(t)
    PROVE  Types' /\ HInv(r)'
<1> DEFINE b == call[t].bucket
<1>1. at[t] = "climb" /\ UNCHANGED <<list, table, multimapping, calls>>
  BY DEF Climb
<1>2. b \in Buckets /\ Dummy(b) < Order(t) /\ call[t].op = "const_find"
  BY <1>1, CallFacts DEF CallInv, ChainInv
<1>3. CASE IsInitialized(b)
  <2>1. buckets[b] \in Nodes /\ buckets[b].order = Dummy(b)
    BY <1>2, <1>3, BucketFacts
  <2>2. at' = [at EXCEPT ![t] = "search"] /\ Iterate(t, buckets[b])
    BY <1>3 DEF Climb
  <2> QED BY <1>1, <1>2, <2>1, <2>2, StartSearch
<1>4. CASE ~IsInitialized(b)
  <2>1. /\ Parent(b) \in Buckets /\ Parent(b) \in Slots
        /\ Dummy(Parent(b)) < Dummy(b) /\ Dummy(b) \in Nat
    BY <1>2, <1>4, BucketFacts
  <2>2. at' = at /\ call' = [call EXCEPT ![t].bucket = Parent(b)]
    BY <1>4 DEF Climb
  <2>3. /\ call' \in [Threads -> CallType] /\ \A u \in Threads \ {t} : call'[u] = call[u]
        /\ call'[t] = [call[t] EXCEPT !.bucket = Parent(b)]
    <3> DEFINE p == Parent(b)
    <3>1. call \in [Threads -> CallType]
      BY DEF Types
    <3>2. p \in Slots /\ call' = [call EXCEPT ![t].bucket = p]
      BY <2>1, <2>2
    <3> HIDE DEF p
    <3>3. [call[t] EXCEPT !.bucket = p] \in CallType
      BY <3>1, <3>2 DEF CallType
    <3> QED BY <3>1, <3>2, <3>3 DEF p
  <2>4. /\ call'[t].bucket = Parent(b) /\ call'[t].op = call[t].op /\ call'[t].no = call[t].no
        /\ call'[t].key = call[t].key /\ call'[t].iter = call[t].iter
        /\ call'[t].found = call[t].found /\ call'[t].before = call[t].before
    BY <2>3 DEF Types, CallType
  <2>5. Private(t) /\ at' \in [Threads -> Places]
    BY <1>1, <2>2, <2>3, <2>4 DEF Private, Types
  <2>6. CallInv(t)'
    BY <1>1, <2>2, <2>4, CallFacts, SameState DEF CallInv
  <2>7. Order(t)' = Order(t) /\ Order(t) \in Nat /\ Dummy(Parent(b)) \in Nat
    BY <1>2, <2>1, <2>4, KeyFacts, OrderKeys DEF Order, Keyed, Ops, Safe, Unsafe
  <2>8. ChainInv(t)'
    BY <1>1, <1>2, <2>1, <2>2, <2>4, <2>7, SameState DEF ChainInv, Making
  <2>9. SearchInv(t, r)' /\ ReturnInv(t)'
    BY <1>1, <2>2 DEF SearchInv, ReturnInv
  <2> QED BY <2>3, <2>5, <2>6, <2>8, <2>9, PrivateStep DEF LocalInv
<1> QED BY <1>3, <1>4

LEMMA BeginIterationNext ==
    ASSUME Types, NEW r, HInv(r), NEW t \in Threads, BeginIteration(t)
    PROVE  Types' /\ HInv(r)'
<1>1. /\ UNCHANGED <<list, table, multimapping, calls>> /\ at[t] = "begin"
      /\ at' = [at EXCEPT ![t] = "search"] /\ Iterate(t, MyhHead)
  BY DEF BeginIteration, Goto
<1>2. call[t].op = "iterate" /\ MyhHead \in Nodes
  BY <1>1, CallFacts, ListFacts DEF CallInv, HInv
<1> QED BY <1>1, <1>2, StartSearch DEF Keyed

LEMMA ChainFacts ==
    ASSUME Types, NEW r, HInv(r), NEW t \in Threads, at[t] \in Making
    PROVE  LET s == call[t].chain
           IN  /\ s \in Seq(Slots) /\ s # <<>> /\ Len(s) \in Nat /\ Len(s) > 0
               /\ Head(s) = s[1] /\ \A i \in 1..Len(s) : s[i] \in Buckets /\ s[i] \in Slots
               /\ Head(s) \in Buckets /\ Last(s) \in Buckets
               /\ \A i \in 1..Len(s) - 1 : s[i + 1] > 0 /\ s[i] = Parent(s[i + 1])
<1> DEFINE s == call[t].chain
<1>1. ChainInv(t) /\ s \in Seq(Slots)
  BY CallFacts
<1>2. s # <<>> /\ \A i \in 1..Len(s) : s[i] \in Buckets
  BY <1>1 DEF ChainInv
<1>3. Len(s) \in Nat /\ Len(s) > 0
  BY <1>1, <1>2, EmptySeq
<1>4. \A i \in 1..Len(s) - 1 : s[i + 1] > 0 /\ s[i] = Parent(s[i + 1])
  BY <1>1 DEF ChainInv
<1>5. Head(s) = s[1]
  BY <1>1, <1>2
<1>6. Head(s) \in Buckets /\ Last(s) \in Buckets
  BY <1>2, <1>3, <1>5 DEF Last
<1>7. \A i \in 1..Len(s) : s[i] \in Slots
  BY <1>1
<1> QED BY <1>1, <1>2, <1>3, <1>4, <1>5, <1>6, <1>7

(* Where a chain of buckets grows or shrinks at its first end.             *)
LEMMA ChainFront ==
    ASSUME Types, NEW r, HInv(r), NEW t \in Threads, at[t] = "bucket"
    PROVE  LET s == call[t].chain
               b == Head(s)
               u == <<Parent(b)>> \o s
               v == Tail(s)
           IN  /\ b > 0 => /\ u \in Seq(Slots) /\ u # <<>> /\ Last(u) = Last(s)
                           /\ \A i \in 1..Len(u) : u[i] \in Buckets
                           /\ \A i \in 1..Len(u) - 1 : u[i + 1] > 0 /\ u[i] = Parent(u[i + 1])
               /\ Len(s) > 1 => /\ v \in Seq(Slots) /\ v # <<>> /\ Last(v) = Last(s)
                                /\ \A i \in 1..Len(v) : v[i] \in Buckets
                                /\ \A i \in 1..Len(v) - 1 : v[i + 1] > 0 /\ v[i] = Parent(v[i + 1])
                                /\ Head(v) > 0 /\ b = Parent(Head(v))
<1> DEFINE s == call[t].chain
           b == Head(s)
           u == <<Parent(b)>> \o s
           v == Tail(s)
<1>1. /\ s \in Seq(Slots) /\ s # <<>> /\ Len(s) \in Nat /\ Len(s) > 0
      /\ b = s[1] /\ b \in Buckets /\ \A i \in 1..Len(s) : s[i] \in Buckets
      /\ \A i \in 1..Len(s) - 1 : s[i + 1] > 0 /\ s[i] = Parent(s[i + 1])
  BY ChainFacts DEF Making
<1>2. ASSUME b > 0
      PROVE  /\ u \in Seq(Slots) /\ u # <<>> /\ Last(u) = Last(s)
             /\ \A i \in 1..Len(u) : u[i] \in Buckets
             /\ \A i \in 1..Len(u) - 1 : u[i + 1] > 0 /\ u[i] = Parent(u[i + 1])
  <2>1. Parent(b) \in Buckets /\ Parent(b) \in Slots
    BY <1>1, <1>2, BucketFacts
  <2> DEFINE p == Parent(b)
  <2> HIDE DEF s, b, p
  <2>2. <<p>> \in Seq(Slots) /\ Len(<<p>>) = 1
    BY <2>1 DEF p
  <2>3. /\ <<p>> \o s \in Seq(Slots) /\ Len(<<p>> \o s) = 1 + Len(s)
        /\ \A i \in 1..Len(s) + 1 : (<<p>> \o s)[i] = IF i = 1 THEN p ELSE s[i - 1]
    BY <1>1, <2>2, ConcatProperties
  <2>4. u = <<p>> \o s
    BY DEF p
  <2> HIDE DEF u
  <2>5. u \in Seq(Slots) /\ u # <<>> /\ Len(u) = Len(s) + 1
    BY <1>1, <2>3, <2>4
  <2>6. \A i \in 1..Len(u) : u[i] = IF i = 1 THEN p ELSE s[i - 1]
    BY <2>3, <2>4, <2>5
  <2>7. Last(u) = Last(s)
    BY <1>1, <2>5, <2>6 DEF Last
  <2>8. \A i \in 1..Len(u) : u[i] \in Buckets
    BY <1>1, <2>1, <2>5, <2>6 DEF p
  <2>9. \A i \in 1..Len(u) - 1 : u[i + 1] > 0 /\ u[i] = Parent(u[i + 1])
    <3> TAKE i \in 1..Len(u) - 1
    <3>1. CASE i = 1
      BY <3>1, <1>1, <1>2, <2>5, <2>6 DEF p
    <3>2. CASE i # 1
      <4>1. i - 1 \in 1..Len(s) - 1 /\ i - 1 + 1 = i /\ i + 1 \in 1..Len(u) /\ i \in 1..Len(u)
        BY <3>2, <1>1, <2>5
      <4>2. u[i + 1] = s[i] /\ u[i] = s[i - 1]
        BY <3>2, <4>1, <2>6
      <4> QED BY <4>1, <4>2, <1>1
    <3> QED BY <3>1, <3>2
  <2> QED BY <2>5, <2>7, <2>8, <2>9
<1>3. ASSUME Len(s) > 1
      PROVE  /\ v \in Seq(Slots) /\ v # <<>> /\ Last(v) = Last(s)
             /\ \A i \in 1..Len(v) : v[i] \in Buckets
             /\ \A i \in 1..Len(v) - 1 : v[i + 1] > 0 /\ v[i] = Parent(v[i + 1])
             /\ Head(v) > 0 /\ b = Parent(Head(v))
  <2> HIDE DEF s
  <2>1. /\ v \in Seq(Slots) /\ Len(v) = Len(s) - 1
        /\ \A i \in 1..Len(v) : v[i] = s[i + 1]
    BY <1>1, HeadTailProperties
  <2> HIDE DEF v
  <2>2. v # <<>> /\ Last(v) = Last(s)
    BY <1>1, <1>3, <2>1 DEF Last
  <2>3. \A i \in 1..Len(v) : v[i] \in Buckets
    BY <1>1, <2>1
  <2>4. \A i \in 1..Len(v) - 1 : v[i + 1] > 0 /\ v[i] = Parent(v[i + 1])
    BY <1>1, <2>1
  <2>5. Head(v) = v[1] /\ v[1] = s[2]
    BY <1>1, <1>3, <2>1, <2>2
  <2>6. s[2] > 0 /\ s[1] = Parent(s[2])
    BY <1>1, <1>3
  <2> QED BY <1>1, <2>1, <2>2, <2>3, <2>4, <2>5, <2>6
<1> QED BY <1>2, <1>3

LEMMA ClimbChainNext ==
    ASSUME Types, NEW r, HInv(r), NEW t \in Threads, ClimbChain(t)
    PROVE  Types' /\ HInv(r)'
<1> DEFINE s == call[t].chain
           b == Head(s)
           u == <<Parent(b)>> \o s
<1>1. at[t] = "bucket" /\ ~IsInitialized(b) /\ UNCHANGED <<list, table, multimapping, calls>>
      /\ at' = at /\ call' = [call EXCEPT ![t].chain = u]
  BY DEF ClimbChain
<1>2. b > 0
  BY <1>1, ChainFacts, BucketFacts DEF Making
<1>3. /\ u \in Seq(Slots) /\ u # <<>> /\ Last(u) = Last(s)
      /\ \A i \in 1..Len(u) : u[i] \in Buckets
      /\ \A i \in 1..Len(u) - 1 : u[i + 1] > 0 /\ u[i] = Parent(u[i + 1])
  BY <1>1, <1>2, ChainFront
<1> HIDE DEF u
<1>4. /\ call' \in [Threads -> CallType] /\ \A w \in Threads \ {t} : call'[w] = call[w]
      /\ call'[t] = [call[t] EXCEPT !.chain = u]
  <2>1. call \in [Threads -> CallType]
    BY DEF Types
  <2>2. [call[t] EXCEPT !.chain = u] \in CallType
    BY <1>3, <2>1 DEF CallType
  <2> QED BY <1>1, <2>1, <2>2
<1>5. /\ call'[t].chain = u /\ call'[t].op = call[t].op /\ call'[t].no = call[t].no
      /\ call'[t].key = call[t].key /\ call'[t].iter = call[t].iter
      /\ call'[t].bucket = call[t].bucket
      /\ call'[t].found = call[t].found /\ call'[t].before = call[t].before
  BY <1>4 DEF Types, CallType
<1>6. Private(t) /\ at' \in [Threads -> Places]
  BY <1>1, <1>4, <1>5 DEF Private, Types
<1>7. CallInv(t)'
  BY <1>1, <1>5, CallFacts, SameState DEF CallInv
<1>8. Order(t)' = Order(t)
  BY <1>5 DEF Order
<1>9. ChainInv(t)'
  BY <1>1, <1>3, <1>5, <1>8, CallFacts, SameState DEF ChainInv, Making
<1>10. SearchInv(t, r)' /\ ReturnInv(t)'
  BY <1>1 DEF SearchInv, ReturnInv
<1> QED BY <1>4, <1>6, <1>7, <1>9, <1>10, PrivateStep DEF LocalInv

LEMMA BucketReadyNext ==
    ASSUME Types, NEW r, HInv(r), NEW t \in Threads, BucketReady(t)
    PROVE  Types' /\ HInv(r)'
<1> DEFINE s == call[t].chain
           b == Head(s)
           d == buckets[b]
           v == Tail(s)
<1>1. at[t] = "bucket" /\ IsInitialized(b) /\ UNCHANGED <<list, table, multimapping, calls>>
  BY DEF BucketReady
<1>2. /\ s \in Seq(Slots) /\ s # <<>> /\ Len(s) \in Nat /\ Len(s) > 0 /\ b = s[1]
      /\ b \in Buckets
  BY <1>1, ChainFacts DEF Making
<1>3. buckets[b] # Null /\ d \in Nodes /\ d.order = Dummy(b) /\ Dummy(b) \in Nat
  BY <1>1, <1>2, BucketFacts
<1>4. ChainInv(t) /\ CallInv(t)
  BY CallFacts
<1>5. CASE Len(s) > 1
  <2>1. /\ at' = [at EXCEPT ![t] = "dummy"]
        /\ call' = [call EXCEPT ![t].chain = v, ![t].iter = d, ![t].where = next[d]]
    BY <1>5 DEF BucketReady
  <2>2. /\ v \in Seq(Slots) /\ v # <<>> /\ Last(v) = Last(s)
        /\ \A i \in 1..Len(v) : v[i] \in Buckets
        /\ \A i \in 1..Len(v) - 1 : v[i + 1] > 0 /\ v[i] = Parent(v[i + 1])
        /\ Head(v) > 0 /\ b = Parent(Head(v))
    BY <1>1, <1>5, ChainFront
  <2>3. Head(v) \in Buckets
    <3>1. Len(v) \in Nat /\ Len(v) > 0 /\ Head(v) = v[1]
      BY <2>2, EmptySeq
    <3> QED BY <3>1, <2>2
  <2>4. d.order < Dummy(Head(v))
    BY <1>3, <2>2, <2>3, BucketFacts
  <2> DEFINE w == next[d]
  <2>5. d \in Pointer /\ w \in Pointer
    BY <1>3, NodeFacts DEF Pointer
  <2>6. r \in [Nodes -> Nat] /\ (w # Null => w \in Nodes /\ r[d] < r[w])
    <3>1. r \in [Nodes -> Nat] /\ (w # Null => w \in Nodes /\ r[w] = r[d] + 1)
      BY <1>3, ListFacts DEF HInv
    <3> HIDE DEF w, d
    <3> QED BY <3>1, <1>3
  <2>7. call' = [call EXCEPT ![t].chain = v, ![t].iter = d, ![t].where = w]
    BY <2>1
  <2>8. /\ s = call[t].chain /\ b = Parent(Head(v)) /\ buckets[Parent(Head(v))] # Null
    BY <1>3, <2>2
  <2>9. d \in Nodes
    BY <1>3
  <2> HIDE DEF v, d, w, b
  <2>10. /\ call' \in [Threads -> CallType] /\ \A z \in Threads \ {t} : call'[z] = call[z]
         /\ call'[t] = [call[t] EXCEPT !.chain = v, !.iter = d, !.where = w]
    <3>1. call \in [Threads -> CallType]
      BY DEF Types
    <3>2. [call[t] EXCEPT !.chain = v, !.iter = d, !.where = w] \in CallType
      BY <3>1, <2>2, <2>5 DEF CallType
    <3>3. call' = [call EXCEPT ![t] = [call[t] EXCEPT !.chain = v, !.iter = d, !.where = w]]
      BY <2>7, <3>1
    <3> QED BY <3>1, <3>2, <3>3
  <2>11. /\ call'[t].chain = v /\ call'[t].op = call[t].op /\ call'[t].no = call[t].no
         /\ call'[t].key = call[t].key /\ call'[t].iter = d /\ call'[t].where = w
         /\ call'[t].bucket = call[t].bucket
         /\ call'[t].found = call[t].found /\ call'[t].before = call[t].before
    BY <2>10 DEF Types, CallType
  <2>12. Private(t) /\ at' \in [Threads -> Places] /\ at'[t] = "dummy"
    BY <1>1, <2>1, <2>10, <2>11 DEF Private, Types, Places
  <2>13. CallInv(t)'
    BY <1>1, <1>4, <2>9, <2>11, <2>12, SameState DEF CallInv, Making, Linked
  <2>14. Order(t)' = Order(t)
    BY <2>11 DEF Order
  <2>15. ChainInv(t)'
    BY <1>1, <1>4, <2>2, <2>8, <2>11, <2>12, <2>14, SameState DEF ChainInv, Making
  <2>16. SearchInv(t, r)'
    BY <1>1, <2>4, <2>6, <2>9, <2>11, <2>12, SameState DEF SearchInv
  <2>17. ReturnInv(t)'
    BY <2>12 DEF ReturnInv
  <2> QED BY <2>10, <2>12, <2>13, <2>15, <2>16, <2>17, PrivateStep DEF LocalInv
<1>6. CASE ~(Len(s) > 1)
  <2>1. /\ call[t].op # "unsafe_end" /\ at' = [at EXCEPT ![t] = "search"]
        /\ Iterate(t, d)
    BY <1>6 DEF BucketReady
  <2>2. b = Last(s)
    BY <1>2, <1>6 DEF Last
  <2>3. call[t].op \in Keyed => d.order < Order(t)
    BY <1>1, <1>3, <1>4, <2>2 DEF ChainInv, Making
  <2>4. call[t].op # "iterate"
    BY <1>1, <1>4 DEF CallInv, Making
  <2> QED BY <1>1, <1>3, <2>1, <2>3, <2>4, StartSearch DEF Making
<1> QED BY <1>5, <1>6

LEMMA UnsafeEndNext ==
    ASSUME Types, NEW r, HInv(r), NEW t \in Threads, UnsafeEnd(t)
    PROVE  Types' /\ HInv(r)'
<1> DEFINE s == call[t].chain
           b == Head(s)
           n == numberOfBuckets
<1>1. at[t] = "bucket" /\ IsInitialized(b) /\ UNCHANGED <<list, table, multimapping, calls>>
      /\ Len(s) = 1 /\ call[t].op = "unsafe_end"
  BY DEF UnsafeEnd
<1>2. s \in Seq(Slots) /\ s # <<>> /\ b = s[1] /\ b \in Buckets /\ b = Last(s) /\ b \in Nat
  BY <1>1, ChainFacts, BucketFacts DEF Making, Last
<1>3. buckets[b] # Null
  BY <1>1, <1>2, BucketFacts
<1>4. ChainInv(t) /\ CallInv(t) /\ call[t] \in CallType
  BY CallFacts
<1>5. /\ call[t].bucket \in Buckets /\ b >= n \div 2 /\ n \in Nat /\ n > 0 /\ n \div 2 \in Nat
      /\ \A d \in n \div 2..b : buckets[d] # Null
  <2>1. n \in Nat /\ n > 0
    BY PowersAre DEF Types
  <2>2. /\ call[t].bucket \in Buckets /\ Last(s) >= n \div 2
        /\ \A d \in n \div 2..Last(s) - 1 : buckets[d] # Null
    BY <1>1, <1>4 DEF ChainInv, Making
  <2>3. n \div 2 \in Nat
    BY <2>1
  <2>4. \A d \in n \div 2..b : buckets[d] # Null
    BY <1>2, <1>3, <2>2, <2>3
  <2> QED BY <1>2, <2>1, <2>2, <2>3, <2>4
<1>6. CASE b + 1 < n
  <2>1. at' = at /\ call' = [call EXCEPT ![t].chain = <<b + 1>>]
    BY <1>6 DEF UnsafeEnd
  <2>2. b + 1 \in Buckets /\ b + 1 \in Slots
    <3>1. b + 1 \in Buckets
      BY <1>2, <1>5, <1>6 DEF Buckets
    <3> QED BY <3>1, BucketFacts
  <2> DEFINE u == <<b + 1>>
  <2>3. u \in Seq(Slots) /\ Len(u) = 1 /\ u[1] = b + 1 /\ u # <<>> /\ Last(u) = b + 1 /\ Head(u) = b + 1
    BY <2>2 DEF Last
  <2>4. call' = [call EXCEPT ![t].chain = u]
    BY <2>1
  <2>5. \A d \in n \div 2..Last(u) - 1 : buckets[d] # Null
    BY <1>2, <1>5, <2>3
  <2> HIDE DEF u, b, n
  <2>6. /\ call' \in [Threads -> CallType] /\ \A z \in Threads \ {t} : call'[z] = call[z]
        /\ call'[t] = [call[t] EXCEPT !.chain = u]
    <3>1. call \in [Threads -> CallType]
      BY DEF Types
    <3>2. [call[t] EXCEPT !.chain = u] \in CallType
      BY <2>3, <3>1 DEF CallType
    <3> QED BY <2>4, <3>1, <3>2
  <2>7. /\ call'[t].chain = u /\ call'[t].op = call[t].op /\ call'[t].no = call[t].no
        /\ call'[t].key = call[t].key /\ call'[t].iter = call[t].iter
        /\ call'[t].bucket = call[t].bucket
        /\ call'[t].found = call[t].found /\ call'[t].before = call[t].before
    BY <2>6 DEF Types, CallType
  <2>8. Private(t) /\ at' \in [Threads -> Places] /\ at'[t] = "bucket"
    BY <1>1, <2>1, <2>6, <2>7 DEF Private, Types, Places
  <2>9. CallInv(t)'
    BY <1>1, <1>4, <2>7, <2>8, SameState DEF CallInv
  <2>10. Last(u) >= n \div 2
    BY <1>2, <1>5, <2>3
  <2>11. \A i \in 1..Len(u) : u[i] \in Buckets
    BY <2>2, <2>3
  <2>12. \A i \in 1..Len(u) - 1 : u[i + 1] > 0 /\ u[i] = Parent(u[i + 1])
    BY <2>3
  <2>13. ChainInv(t)'
    BY <1>1, <1>5, <2>3, <2>5, <2>7, <2>8, <2>10, <2>11, <2>12, SameState DEF ChainInv, Making, n, Keyed
  <2>14. SearchInv(t, r)' /\ ReturnInv(t)'
    BY <2>8 DEF SearchInv, ReturnInv
  <2> QED BY <2>6, <2>8, <2>9, <2>13, <2>14, PrivateStep DEF LocalInv
<1>7. CASE ~(b + 1 < n)
  <2> DEFINE d == buckets[call[t].bucket]
  <2>1. at' = [at EXCEPT ![t] = "search"] /\ Iterate(t, d)
    BY <1>7 DEF UnsafeEnd
  <2>2. \A c \in n \div 2..n - 1 : buckets[c] # Null
    BY <1>2, <1>5, <1>7
  <2>3. \A c \in Buckets : buckets[c] # Null
    <3> TAKE c \in Buckets
    <3>1. CASE c >= n \div 2
      BY <3>1, <2>2, <1>5 DEF Buckets
    <3>2. CASE c < n \div 2
      <4> DEFINE h == n \div 2
      <4>1. n # 1
        BY <3>2 DEF Buckets
      <4>2. h \in Nat /\ 2 * h = n
        <5>1. PICK k \in Nat : k < Bits /\ n = 2^k
          BY PowersAre DEF Types
        <5>2. k # 0
          BY <4>1, <5>1, PowerZero
        <5>3. k - 1 \in Nat /\ k - 1 + 1 = k
          BY <5>1, <5>2
        <5>4. n = 2 * 2^(k - 1) /\ 2^(k - 1) \in Nat
          BY <5>1, <5>3, PowerNext
        <5> QED BY <5>4
      <4>3. c + h \in h..2 * h - 1 /\ Parent(c + h) = c
        <5>1. c \in 0..h - 1 /\ 2 * h \in Powers
          BY <3>2, <4>2 DEF Types, Buckets
        <5> HIDE DEF h
        <5> QED BY <5>1, <4>2, ChildIs
      <4>4. c + h \in Buckets /\ c + h > 0 /\ buckets[c + h] # Null
        <5>1. c + h \in n \div 2..n - 1
          BY <4>2, <4>3
        <5>2. h > 0 /\ c \in Nat
          BY <3>2, <4>2 DEF Buckets
        <5> QED BY <5>1, <5>2, <4>2, <2>2 DEF Buckets
      <4> QED BY <4>3, <4>4, BucketFacts
    <3> QED BY <3>1, <3>2, <1>5 DEF Buckets
  <2>4. d \in Nodes
    BY <2>3, <1>5, BucketFacts
  <2> DEFINE w == next[d]
             c == call[t]
             cc == call'[t]
  <2>5. /\ call' \in [Threads -> CallType]
        /\ \A u \in Threads \ {t} : call'[u] = call[u]
        /\ cc.iter = d /\ cc.where = w
        /\ cc.op = c.op /\ cc.no = c.no /\ cc.key = c.key
        /\ cc.found = c.found /\ cc.before = c.before /\ cc.bucket = c.bucket
    BY <2>1, <2>4, IterateDoes
  <2>6. Private(t) /\ at' \in [Threads -> Places] /\ at'[t] = "search"
    BY <1>1, <2>1, <2>5 DEF Private, Types, Places
  <2>7. CallInv(t)'
    BY <1>1, <1>4, <2>4, <2>5, <2>6, SameState DEF CallInv, Making, Linked
  <2>8. ChainInv(t)' /\ ReturnInv(t)'
    BY <2>6 DEF ChainInv, ReturnInv, Making
  <2>9. r \in [Nodes -> Nat] /\ (w # Null => w \in Nodes /\ r[d] < r[w])
    BY <2>4, ListFacts DEF HInv
  <2>10. c.found = {}
    BY <1>1, <1>4 DEF CallInv, Making
  <2>11. \A e \in Nodes : ~(r[d] < r[e] /\ r[e] <= r[d])
    BY <2>4, <2>9
  <2>12. \A e \in Elements : e \in Nodes
    BY DEF Elements
  <2>13. d = buckets[c.bucket] /\ c.bucket \in Buckets
    BY <1>5
  <2>14. r[d] <= r[d]
    BY <2>4, <2>9
  <2> HIDE DEF d, w, c, cc
  <2>15. c.op = "unsafe_end" /\ cc.op = "unsafe_end"
    BY <1>1, <2>5 DEF c
  <2>16. call'[t] = cc
    BY DEF cc
  <2>17. w = next[d]
    BY DEF w
  <2> DEFINE In(e) == r[d] < r[e] /\ r[e] <= r[cc.iter]
  <2>18. cc.found = {e \in Elements : In(e)} /\ \A e \in Nodes : In(e) => ~IsDummy(e)
    BY <2>5, <2>10, <2>11, <2>12
  <2>19. SearchInv(t, r)'
    BY <1>1, <2>3, <2>4, <2>5, <2>6, <2>9, <2>13, <2>14, <2>15, <2>16, <2>17, <2>18, SameState
       DEF SearchInv, Keyed, Found
  <2> QED BY <2>5, <2>6, <2>7, <2>8, <2>19, PrivateStep DEF LocalInv
<1> QED BY <1>6, <1>7

(* Steps that only lead elsewhere.                                         *)
LEMMA TestSegmentNext ==
    ASSUME Types, NEW r, HInv(r), NEW t \in Threads, TestSegment(t)
    PROVE  Types' /\ HInv(r)'
<1> DEFINE b == Head(call[t].chain)
<1>1. /\ UNCHANGED <<list, table, multimapping, calls>> /\ call' = call /\ at[t] = "set"
      /\ at' = [at EXCEPT ![t] = IF SegmentOf(b) \in segments THEN "write" ELSE "allocate"]
  BY DEF TestSegment, Goto
<1>2. /\ at' \in [Threads -> Places] /\ \A u \in Threads \ {t} : at'[u] = at[u]
      /\ at'[t] \in {"write", "allocate"} /\ (at'[t] = "write" => SegmentOf(b) \in segments)
  BY <1>1 DEF Types, Places
<1>3. Private(t) /\ call' \in [Threads -> CallType]
  BY <1>1, <1>2 DEF Private, Types
<1>4. CallInv(t)'
  BY <1>1, <1>2, CallFacts, SameState DEF CallInv, Making, Linked
<1>5. ChainInv(t)'
  <2>1. Order(t)' = Order(t)
    BY <1>1 DEF Order
  <2> QED BY <1>1, <1>2, <2>1, CallFacts, SameState DEF ChainInv, Making
<1>6. SearchInv(t, r)' /\ ReturnInv(t)'
  BY <1>2 DEF SearchInv, ReturnInv
<1> QED BY <1>2, <1>3, <1>4, <1>5, <1>6, PrivateStep DEF LocalInv

LEMMA ReturnNext ==
    ASSUME Types, NEW r, HInv(r), NEW t \in Threads, Return(t)
    PROVE  Types' /\ HInv(r)'
<1>1. /\ UNCHANGED <<list, table, multimapping, calls>> /\ at[t] = "return"
      /\ at' = [at EXCEPT ![t] = "idle"] /\ call' = [call EXCEPT ![t] = NoCall]
  BY DEF Return, Goto
<1>2. NoCall \in CallType
  BY DummyZero, EmptySeq DEF NoCall, CallType, Pointer
<1>3. /\ at' \in [Threads -> Places] /\ \A u \in Threads \ {t} : at'[u] = at[u] /\ call'[u] = call[u]
      /\ at'[t] = "idle" /\ call'[t] = NoCall /\ call' \in [Threads -> CallType]
  BY <1>1, <1>2 DEF Types, Places
<1>4. Private(t)
  BY <1>1, <1>3 DEF Private
<1>5. CallInv(t)'
  <2>1. \A e \in Elements : e.no # 0
    BY DEF HInv, ElementsInv
  <2> QED BY <1>1, <1>3, <2>1, SameState DEF CallInv, NoCall, Making, Linked, Keyed, Ops, Safe, Unsafe, Found
<1>6. ChainInv(t)' /\ SearchInv(t, r)' /\ ReturnInv(t)'
  BY <1>3 DEF ChainInv, SearchInv, ReturnInv, Making
<1> QED BY <1>3, <1>4, <1>5, <1>6, PrivateStep DEF LocalInv

LEMMA TestLoadNext ==
    ASSUME Types, NEW r, HInv(r), NEW t \in Threads, TestLoad(t)
    PROVE  Types' /\ HInv(r)'
<1> DEFINE n == numberOfBuckets
           z == call[t].size
<1>1. UNCHANGED <<list, table, multimapping, calls>> /\ at[t] = "adjust"
  BY DEF TestLoad, Goto
<1>2. z <= MaxCalls /\ z \in Int /\ call[t].op = "insert" /\ n \in Nat /\ n <= 2^(Bits - 1)
  BY <1>1, CallFacts, PowersAre DEF CallInv, CallType, Types
<1>3. CASE z > MaxBucketSize * n
  <2>1. /\ at' = [at EXCEPT ![t] = "grow"] /\ call' = [call EXCEPT ![t].size = n]
    BY <1>3 DEF TestLoad, Goto
  <2>2. n < 2^(Bits - 1)
    <3> DEFINE p == 2^(Bits - 1)
    <3>1. p \in Nat /\ MaxCalls <= MaxBucketSize * p /\ MaxCalls \in Nat /\ MaxBucketSize \in Nat
      BY PowersAre, WidthAssumption, SizesAssumption DEF Types
    <3>2. SUFFICES ASSUME n = p PROVE FALSE
      BY <1>2, <3>1
    <3> HIDE DEF p, n, z
    <3> QED BY <3>1, <3>2, <1>2, <1>3
  <2> HIDE DEF n
  <2>3. /\ call' \in [Threads -> CallType] /\ \A u \in Threads \ {t} : call'[u] = call[u]
        /\ call'[t] = [call[t] EXCEPT !.size = n]
    <3>1. call \in [Threads -> CallType]
      BY DEF Types
    <3>2. [call[t] EXCEPT !.size = n] \in CallType
      <4>1. call[t] \in CallType /\ n \in Int
        BY <3>1, <1>2
      <4> QED BY <4>1 DEF CallType
    <3>3. call' = [call EXCEPT ![t] = [call[t] EXCEPT !.size = n]]
      BY <2>1, <3>1
    <3> QED BY <3>1, <3>2, <3>3
  <2>4. /\ call'[t].op = call[t].op /\ call'[t].no = call[t].no /\ call'[t].size = n
        /\ call'[t].key = call[t].key /\ call'[t].iter = call[t].iter
        /\ call'[t].found = call[t].found /\ call'[t].before = call[t].before
    BY <2>3 DEF Types, CallType
  <2>5. Private(t) /\ at' \in [Threads -> Places] /\ at'[t] = "grow"
    BY <1>1, <2>1, <2>3, <2>4 DEF Private, Types, Places
  <2>6. CallInv(t)'
    BY <1>1, <1>2, <2>2, <2>4, <2>5, CallFacts, SameState DEF CallInv, Making, Linked
  <2>7. ChainInv(t)' /\ SearchInv(t, r)' /\ ReturnInv(t)'
    BY <2>5 DEF ChainInv, SearchInv, ReturnInv, Making
  <2> QED BY <2>3, <2>5, <2>6, <2>7, PrivateStep DEF LocalInv
<1>4. CASE ~(z > MaxBucketSize * n)
  <2>1. call' = call /\ at' = [at EXCEPT ![t] = "return"]
    BY <1>4 DEF TestLoad, Goto
  <2>2. /\ at' \in [Threads -> Places] /\ \A u \in Threads \ {t} : at'[u] = at[u]
        /\ at'[t] = "return"
    BY <2>1 DEF Types, Places
  <2>3. Private(t) /\ call' \in [Threads -> CallType]
    BY <1>1, <2>1, <2>2 DEF Private, Types
  <2>4. CallInv(t)'
    BY <1>1, <2>1, <2>2, CallFacts, SameState DEF CallInv, Making, Linked
  <2>5. ChainInv(t)' /\ SearchInv(t, r)' /\ ReturnInv(t)'
    BY <1>2, <2>1, <2>2 DEF ChainInv, SearchInv, ReturnInv, Making
  <2> QED BY <2>2, <2>3, <2>4, <2>5, PrivateStep DEF LocalInv
<1> QED BY <1>3, <1>4

(* A thread on its way to the place of a bucket goes to another node.      *)
LEMMA MoveToDummy ==
    ASSUME Types, NEW r, HInv(r), NEW t \in Threads, at[t] = "dummy", NEW n \in Nodes,
           UNCHANGED <<list, table, multimapping, calls>>, at' = at, Iterate(t, n),
           n.order < Dummy(Head(call[t].chain))
    PROVE  Types' /\ HInv(r)'
<1>1. /\ call' \in [Threads -> CallType]
      /\ \A u \in Threads \ {t} : call'[u] = call[u]
      /\ call'[t].iter = n /\ call'[t].where = next[n]
      /\ call'[t].op = call[t].op /\ call'[t].no = call[t].no /\ call'[t].key = call[t].key
      /\ call'[t].bucket = call[t].bucket /\ call'[t].chain = call[t].chain
      /\ call'[t].found = call[t].found /\ call'[t].size = call[t].size
      /\ call'[t].before = call[t].before
  BY IterateDoes
<1>2. Private(t) /\ at' \in [Threads -> Places] /\ at'[t] = "dummy"
  BY <1>1 DEF Private, Types
<1>3. CallInv(t)'
  BY <1>1, <1>2, CallFacts, SameState DEF CallInv, Making, Linked
<1>4. ChainInv(t)'
  <2>1. Order(t)' = Order(t)
    BY <1>1 DEF Order
  <2> QED BY <1>1, <1>2, <2>1, CallFacts, SameState DEF ChainInv, Making
<1>5. next[n] # Null => next[n] \in Nodes /\ r[n] < r[next[n]]
  BY ListFacts DEF HInv
<1>6. SearchInv(t, r)' /\ ReturnInv(t)'
  BY <1>1, <1>2, <1>5, SameState DEF SearchInv, ReturnInv
<1> QED BY <1>1, <1>2, <1>3, <1>4, <1>6, PrivateStep DEF LocalInv

(* A thread that searches goes to the node it has seen, or sees again what *)
(* is behind the node it is at.                                            *)
LEMMA MoveToSearch ==
    ASSUME Types, NEW r, HInv(r), NEW t \in Threads, at[t] = "search", NEW n \in Nodes,
           UNCHANGED <<list, table, multimapping, calls>>, at' = at, Iterate(t, n),
           call[t].op \in {"insert", "erase"},
           \/ n = call[t].iter /\ call[t].op = "insert"
           \/ /\ n = call[t].where /\ n.order <= Order(t)
              /\ (call[t].op = "insert" => multimapping \/ ~Is(t, n))
              /\ (call[t].op = "erase" => ~Is(t, n) /\ call[t].found = {})
    PROVE  Types' /\ HInv(r)'
<1> DEFINE c == call[t]
           cc == call'[t]
<1>1. /\ call' \in [Threads -> CallType]
      /\ \A u \in Threads \ {t} : call'[u] = call[u]
      /\ cc.iter = n /\ cc.where = next[n]
      /\ cc.op = c.op /\ cc.no = c.no /\ cc.key = c.key
      /\ cc.found = c.found /\ cc.before = c.before
  BY IterateDoes
<1>2. Private(t) /\ at' \in [Threads -> Places] /\ at'[t] = "search"
  BY <1>1 DEF Private, Types
<1>3. CallInv(t)'
  BY <1>1, <1>2, CallFacts, SameState DEF CallInv, Making, Linked
<1>4. ChainInv(t)' /\ ReturnInv(t)'
  BY <1>2 DEF ChainInv, ReturnInv, Making
<1>5. /\ next[n] # Null => next[n] \in Nodes /\ r[n] < r[next[n]]
      /\ \A e \in Nodes : r[n] < r[e] => next[n] # Null /\ r[next[n]] <= r[e]
      /\ r \in [Nodes -> Nat]
      /\ \A e \in Nodes : r[e] = r[n] => e = n
      /\ \A m, e \in Nodes : m.order < e.order => r[m] < r[e]
  BY ListFacts DEF HInv
<1>6. c.op \in Keyed /\ Order(t)' = Order(t) /\ Order(t) \in Nat
  BY <1>1, KeyFacts DEF Order, Keyed, Ops, Safe, Unsafe
<1>7. \A e \in OfKey(c.key) : e \in Nodes /\ e.order = Order(t) /\ e.val = c.key
  BY <1>6, KeyFacts DEF OfKey
<1>8. SearchInv(t, r) /\ n \in Nodes /\ n.order \in Nat /\ n # Null
  BY CallFacts, NodeFacts
<1>9. n.order <= Order(t)
  BY <1>6, <1>8 DEF SearchInv
<1>10. ASSUME c.op = "erase" \/ ~multimapping, NEW e \in OfKey(c.key)
       PROVE  r[n] < r[e]
  <2>1. CASE n = c.iter /\ c.op = "insert"
    BY <2>1, <1>8, <1>10 DEF SearchInv
  <2>2. CASE n = c.where /\ n.order <= Order(t) /\ ~Is(t, n)
    <3>1. r[n] <= r[e]
      BY <2>2, <1>8, <1>10 DEF SearchInv, Ahead
    <3>2. e # n
      BY <2>2, <1>7, <1>10 DEF Is
    <3> QED BY <3>1, <3>2, <1>5, <1>7, <1>8, <1>10
  <2> QED BY <2>1, <2>2, <1>10
<1>11. \A e \in OfKey(c.key) : c.op = "erase" \/ ~multimapping =>
           r[n] < r[e] /\ next[n] # Null /\ r[next[n]] <= r[e]
  BY <1>5, <1>7, <1>10
<1>12. c.op = "erase" => c.found = {}
  OBVIOUS
<1>13. SearchInv(t, r)'
  <2>1. c.op \in {"insert", "erase"} /\ call'[t] = cc
    OBVIOUS
  <2> HIDE DEF c, cc
  <2> QED BY <1>1, <1>2, <1>5, <1>6, <1>8, <1>9, <1>11, <1>12, <2>1, SameState
       DEF SearchInv, Ahead, Found, OfKey
<1> QED BY <1>1, <1>2, <1>3, <1>4, <1>13, PrivateStep DEF LocalInv

LEMMA WalkNext ==
    ASSUME Types, NEW r, HInv(r), NEW t \in Threads, Walk(t)
    PROVE  Types' /\ HInv(r)'
<1> DEFINE c == call[t]
           cc == call'[t]
           w == c.where
           n == next[w]
           fd == IF Wanted(t) THEN c.found \cup {w} ELSE c.found
<1>1. /\ UNCHANGED <<list, table, multimapping, calls>> /\ at' = at /\ at[t] = "search"
      /\ c.op \notin {"insert", "erase"} /\ ~Ended(t)
      /\ call' = [call EXCEPT ![t].iter = w, ![t].where = n, ![t].found = fd]
  BY DEF Walk
<1>2. CallInv(t) /\ SearchInv(t, r) /\ c \in CallType /\ c.op \in Ops
  <2>1. c.op # "none"
    BY <1>1, CallFacts DEF CallInv
  <2> QED BY <2>1, CallFacts
<1>3. w # Null
  <2>1. SUFFICES ASSUME w = Null PROVE FALSE
    OBVIOUS
  <2>2. c.op \in {"find", "const_find", "equal_range", "iterate", "subscript", "unsafe_end"}
    BY <1>1, <1>2 DEF Ops, Safe, Unsafe
  <2> QED BY <1>1, <2>1, <2>2 DEF Ended, Passed
<1>4. w \in Nodes /\ c.iter \in Nodes /\ r[c.iter] < r[w] /\ w \in NodeType
  BY <1>1, <1>2, <1>3, NodeFacts DEF SearchInv
<1>5. /\ r \in [Nodes -> Nat]
      /\ n # Null => n \in Nodes /\ r[n] = r[w] + 1
      /\ \A e \in Nodes : r[w] < r[e] => n # Null /\ r[n] <= r[e]
      /\ \A e \in Nodes : r[e] = r[w] => e = w
      /\ \A e \in Nodes : r[w] <= r[e] => e = w \/ (n # Null /\ r[n] <= r[e])
  <2>1. /\ r \in [Nodes -> Nat]
        /\ n # Null => n \in Nodes /\ r[n] = r[w] + 1
        /\ \A e \in Nodes : r[w] < r[e] => n # Null /\ r[n] <= r[e]
        /\ \A e \in Nodes : r[e] = r[w] => e = w
    BY <1>4, ListFacts DEF HInv
  <2> HIDE DEF n, w
  <2>2. ASSUME NEW e \in Nodes, r[w] <= r[e] PROVE e = w \/ (n # Null /\ r[n] <= r[e])
    <3>1. r[w] \in Nat /\ r[e] \in Nat
      BY <1>4, <2>1
    <3> QED BY <3>1, <2>1, <2>2
  <2> QED BY <2>1, <2>2
<1>6. n \in Pointer /\ w \in Pointer /\ fd \in SUBSET NodeType
  BY <1>2, <1>4, NodeFacts DEF CallType, Pointer
<1>7. c.op \in Keyed => /\ ~Passed(t, Order(t)) /\ w.order <= Order(t) /\ Order(t) \in Nat
                        /\ (Wanted(t) <=> Is(t, w))
                        /\ (c.op = "equal_range" => c.found = {} \/ Is(t, w))
                        /\ (c.op \in {"find", "const_find"} => c.found = {})
  <2>1. SUFFICES ASSUME c.op \in Keyed
                 PROVE  /\ ~Passed(t, Order(t)) /\ w.order <= Order(t) /\ Order(t) \in Nat
                        /\ (Wanted(t) <=> Is(t, w))
                        /\ (c.op = "equal_range" => c.found = {} \/ Is(t, w))
                        /\ (c.op \in {"find", "const_find"} => c.found = {})
    OBVIOUS
  <2>2. c.op \in {"find", "const_find", "subscript", "equal_range"}
    BY <1>1, <2>1 DEF Keyed, Ops, Safe, Unsafe
  <2>3. Wanted(t) <=> Is(t, w)
    BY <2>2 DEF Wanted
  <2>4. ~Passed(t, Order(t)) /\ (c.op = "equal_range" => c.found = {} \/ Is(t, w))
        /\ (c.op \in {"find", "const_find"} => c.found = {})
    BY <1>1, <2>2 DEF Ended
  <2>5. w.order \in Nat /\ Order(t) \in Nat
    BY <1>4, <2>1, NodeFacts, KeyFacts
  <2> QED BY <2>3, <2>4, <2>5 DEF Passed
<1>8. c.op \in {"iterate", "unsafe_end"} => (Wanted(t) <=> ~IsDummy(w))
  BY DEF Wanted
<1>9. c.op = "unsafe_end" => ~IsDummy(w)
  BY <1>1, <1>3 DEF Ended
<1> HIDE DEF fd, n
<1>10. /\ call' \in [Threads -> CallType] /\ \A z \in Threads \ {t} : call'[z] = call[z]
       /\ cc = [c EXCEPT !.iter = w, !.where = n, !.found = fd]
  <2>1. call \in [Threads -> CallType]
    BY DEF Types
  <2>2. [call[t] EXCEPT !.iter = w, !.where = n, !.found = fd] \in CallType
    BY <2>1, <1>6 DEF CallType
  <2>3. call' = [call EXCEPT ![t] = [call[t] EXCEPT !.iter = w, !.where = n, !.found = fd]]
    BY <1>1, <2>1
  <2> QED BY <2>1, <2>2, <2>3
<1>11. /\ cc.op = c.op /\ cc.no = c.no /\ cc.key = c.key /\ cc.iter = w /\ cc.where = n
       /\ cc.found = fd /\ cc.before = c.before /\ cc.bucket = c.bucket
  BY <1>2, <1>10 DEF CallType
<1>12. Private(t) /\ at' \in [Threads -> Places] /\ at'[t] = "search"
  BY <1>1, <1>10, <1>11 DEF Private, Types
<1>13. CallInv(t)'
  BY <1>1, <1>2, <1>4, <1>11, <1>12, SameState DEF CallInv, Making, Linked
<1>14. ChainInv(t)' /\ ReturnInv(t)'
  BY <1>12 DEF ChainInv, ReturnInv, Making
<1>15. Order(t)' = Order(t)
  BY <1>11 DEF Order
<1>16. c.op \in Found \cup {"iterate"} =>
           \A e \in c.before : e \in fd \/ (n # Null /\ r[n] <= r[e])
  <2>1. SUFFICES ASSUME c.op \in Found \cup {"iterate"}, NEW e \in c.before, e \notin fd
                 PROVE  n # Null /\ r[n] <= r[e]
    OBVIOUS
  <2>2. e \notin c.found /\ (Wanted(t) => e # w)
    BY <2>1 DEF fd
  <2>3. e \in Elements /\ e \in Nodes /\ r[w] <= r[e]
    BY <1>1, <1>2, <2>1, <2>2 DEF SearchInv, Ahead, CallInv, Elements
  <2>4. CASE c.op = "iterate"
    BY <1>5, <1>8, <2>2, <2>3, <2>4 DEF Elements
  <2>5. CASE c.op \in Found
    <3>1. c.op \in Keyed /\ e \in OfKey(c.key)
      BY <1>2, <2>1, <2>3, <2>5 DEF CallInv, OfKey, Keyed, Ops, Safe, Unsafe, Found
    <3>2. e.order = Order(t) /\ e.val = c.key
      BY <3>1, KeyFacts DEF OfKey
    <3>3. e # w
      BY <3>1, <3>2, <1>7, <2>2 DEF Is
    <3> QED BY <3>3, <2>3, <1>5
  <2> QED BY <2>1, <2>4, <2>5
<1>17. c.op = "equal_range" /\ fd # {} => w.order = Order(t)
  <2>1. SUFFICES ASSUME c.op = "equal_range", fd # {} PROVE w.order = Order(t)
    OBVIOUS
  <2>2. c.op \in Keyed
    BY <2>1 DEF Keyed, Ops, Safe, Unsafe
  <2>3. Is(t, w)
    BY <1>7, <2>1, <2>2 DEF fd
  <2> QED BY <2>3 DEF Is
<1>18. c.op \in Unsafe => c.op = "unsafe_end"
  BY <1>1 DEF Unsafe
<1> DEFINE d == buckets[c.bucket]
           In(e) == r[d] < r[e] /\ r[e] <= r[w]
<1>19. c.op = "unsafe_end" =>
           /\ c.bucket \in Buckets /\ \A b \in Buckets : buckets[b] # Null
           /\ r[d] <= r[w] /\ fd = {e \in Elements : In(e)}
           /\ \A e \in Nodes : In(e) => ~IsDummy(e)
  <2>1. SUFFICES ASSUME c.op = "unsafe_end"
                 PROVE  /\ c.bucket \in Buckets /\ \A b \in Buckets : buckets[b] # Null
                        /\ r[d] <= r[w] /\ fd = {e \in Elements : In(e)}
                        /\ \A e \in Nodes : In(e) => ~IsDummy(e)
    OBVIOUS
  <2> DEFINE Old(e) == r[d] < r[e] /\ r[e] <= r[c.iter]
  <2>2. /\ c.bucket \in Buckets /\ \A b \in Buckets : buckets[b] # Null
        /\ r[d] <= r[c.iter] /\ c.found = {e \in Elements : Old(e)}
        /\ \A e \in Nodes : Old(e) => ~IsDummy(e)
        /\ w = next[c.iter]
    BY <1>1, <1>2, <2>1 DEF SearchInv, Unsafe
  <2>3. d \in Nodes
    BY <2>2, BucketFacts
  <2>4. r[w] = r[c.iter] + 1
    BY <1>3, <1>4, <2>2, ListFacts DEF HInv
  <2>5. fd = c.found \cup {w} /\ w \in Elements
    BY <1>4, <1>8, <1>9, <2>1 DEF fd, Elements
  <2> HIDE DEF d, w, c
  <2>6. \A e \in Nodes : In(e) <=> Old(e) \/ e = w
    <3> TAKE e \in Nodes
    <3>1. r[e] \in Nat /\ r[c.iter] \in Nat /\ r[d] \in Nat /\ r[w] \in Nat
      BY <1>4, <1>5, <2>3
    <3> QED BY <3>1, <2>2, <2>4, <1>5
  <2>7. \A e \in Elements : e \in Nodes
    BY DEF Elements
  <2>8. fd = {e \in Elements : In(e)}
    BY <2>2, <2>5, <2>6, <2>7
  <2>9. \A e \in Nodes : In(e) => ~IsDummy(e)
    BY <1>9, <2>1, <2>2, <2>6
  <2>10. r[d] <= r[w]
    BY <1>4, <1>5, <2>2, <2>3, <2>4
  <2> QED BY <2>2, <2>8, <2>9, <2>10
<1>20. SearchInv(t, r)'
  <2>1. call'[t] = cc /\ c.op \notin {"insert", "erase"} /\ n = next[w]
        /\ (n # Null => n \in Nodes /\ r[w] < r[n])
    BY <1>1, <1>4, <1>5 DEF n
  <2>2. d = buckets[c.bucket]
    OBVIOUS
  <2> HIDE DEF c, cc, w, d
  <2> QED BY <1>1, <1>4, <1>7, <1>11, <1>12, <1>15, <1>16, <1>17, <1>18, <1>19, <2>1, <2>2, SameState
       DEF SearchInv, Ahead
<1> QED BY <1>10, <1>12, <1>13, <1>14, <1>20, PrivateStep DEF LocalInv

(* The elements of a bucket are those between its dummy node and the next. *)
LEMMA BucketFound ==
    ASSUME Types, NEW r, HInv(r), NEW t \in Threads, at[t] = "search",
           call[t].op = "unsafe_end", Ended(t)
    PROVE  call[t].found =
              {n \in Elements : Hash[n.val] % numberOfBuckets = call[t].bucket}
<1> DEFINE c == call[t]
           k == c.bucket
           d == buckets[k]
           In(e) == r[d] < r[e] /\ r[e] <= r[c.iter]
<1>1. /\ k \in Buckets /\ \A b \in Buckets : buckets[b] # Null
      /\ r[d] <= r[c.iter] /\ c.found = {e \in Elements : In(e)}
      /\ \A e \in Nodes : In(e) => ~IsDummy(e)
      /\ c.where = next[c.iter] /\ c.iter \in Nodes
  BY CallFacts DEF SearchInv, Unsafe
<1>2. c.where # Null => IsDummy(c.where)
  BY DEF Ended
<1>3. d \in Nodes /\ IsDummy(d) /\ d.order = Dummy(k) /\ Dummy(k) \in Nat /\ Dummy(k) % 2 = 0
  BY <1>1, BucketFacts
<1>4. /\ r \in [Nodes -> Nat]
      /\ \A m, n \in Nodes : m.order < n.order => r[m] < r[n]
      /\ \A m, n \in Nodes : r[m] < r[n] =>
                 /\ m.order <= n.order /\ (IsDummy(n) => m.order < n.order)
                 /\ next[m] # Null /\ next[m] \in Nodes /\ r[next[m]] <= r[n]
      /\ \A m \in Nodes : next[m] # Null => next[m] \in Nodes /\ r[next[m]] = r[m] + 1
  BY ListFacts DEF HInv
<1> SUFFICES ASSUME NEW e \in Elements
             PROVE  In(e) <=> Hash[e.val] % numberOfBuckets = k
  BY <1>1
<1>5. /\ e \in Nodes /\ ~IsDummy(e) /\ e.order \in Nat
      /\ Hash[e.val] \in Slots /\ e.order = Regular(Hash[e.val]) /\ e.order % 2 = 1
  <2>1. e \in Nodes /\ ~IsDummy(e) /\ e.val \in Keys /\ e.order = Regular(Hash[e.val])
    BY DEF HInv, ElementsInv, Elements
  <2>2. Hash[e.val] \in Slots
    BY <2>1, HashAssumption DEF Slots
  <2> QED BY <2>1, <2>2, OrderKeys
<1>6. Hash[e.val] % numberOfBuckets = k <=>
        /\ Dummy(k) < e.order
        /\ \A b \in Buckets : Dummy(k) < Dummy(b) => e.order < Dummy(b)
  BY <1>1, <1>5, InBucket DEF Types, Buckets
<1>7. ASSUME In(e)
      PROVE  /\ Dummy(k) < e.order
             /\ \A b \in Buckets : Dummy(k) < Dummy(b) => e.order < Dummy(b)
  <2>1. Dummy(k) < e.order
    <3>1. d.order <= e.order
      BY <1>3, <1>4, <1>5, <1>7
    <3> QED BY <3>1, <1>3, <1>5
  <2>2. ASSUME NEW b \in Buckets, Dummy(k) < Dummy(b) PROVE e.order < Dummy(b)
    <3> DEFINE x == buckets[b]
    <3>1. x \in Nodes /\ IsDummy(x) /\ x.order = Dummy(b)
      BY <1>1, BucketFacts
    <3> HIDE DEF x, d
    <3>2. r[d] < r[x]
      BY <3>1, <2>2, <1>3, <1>4
    <3>3. ~(r[x] <= r[c.iter])
      BY <3>1, <3>2, <1>1
    <3>4. r[e] < r[x]
      <4>1. r[x] \in Nat /\ r[e] \in Nat /\ r[c.iter] \in Nat
        BY <3>1, <1>1, <1>4, <1>5
      <4> QED BY <4>1, <3>3, <1>7
    <3> QED BY <3>1, <3>4, <1>4, <1>5
  <2> QED BY <2>1, <2>2
<1>8. ASSUME Dummy(k) < e.order,
             \A b \in Buckets : Dummy(k) < Dummy(b) => e.order < Dummy(b)
      PROVE  In(e)
  <2>1. r[d] < r[e]
    BY <1>3, <1>4, <1>5, <1>8
  <2>2. SUFFICES ASSUME ~(r[e] <= r[c.iter]) PROVE FALSE
    BY <2>1
  <2> DEFINE w == c.where
  <2>3. r[c.iter] < r[e] /\ r[c.iter] \in Nat /\ r[d] \in Nat
    BY <2>2, <1>1, <1>3, <1>4, <1>5
  <2>4. w # Null /\ w \in Nodes /\ r[w] <= r[e] /\ r[w] = r[c.iter] + 1
    BY <2>3, <1>1, <1>4, <1>5
  <2>5. IsDummy(w) /\ r[w] \in Nat
    BY <2>4, <1>2, <1>4
  <2>6. r[d] < r[w]
    BY <2>3, <2>4, <1>1
  <2>7. PICK b \in Buckets : w.order = Dummy(b)
    BY <2>4, <2>5 DEF HInv, TableInv
  <2>8. Dummy(k) < Dummy(b)
    BY <2>4, <2>5, <2>6, <2>7, <1>3, <1>4
  <2>9. e.order < w.order
    BY <2>7, <2>8, <1>8
  <2>10. w.order \in Nat
    BY <2>4, NodeFacts
  <2>11. e # w /\ r[w] <= r[e]
    BY <2>4, <2>5, <1>5
  <2>12. r[e] < r[w]
    BY <2>4, <2>9, <1>4, <1>5
  <2> QED BY <2>11, <2>12, <2>5, <1>4, <1>5
<1> QED BY <1>6, <1>7, <1>8

(* What ends is behind what it looks for.                                  *)
LEMMA SearchEnded ==
    ASSUME Types, NEW r, HInv(r), NEW t \in Threads, at[t] = "search",
           call[t].op # "insert", Ended(t)
    PROVE  LET c == call[t]
           IN  /\ c.op \in {"find", "const_find"} /\ c.before # {} => c.found # {}
               /\ c.op = "equal_range" => Collides(c.key) \/ c.before \subseteq c.found
               /\ c.op = "iterate" => c.before \subseteq c.found
               /\ c.op = "erase" => Collides(c.key) \/ OfKey(c.key) = {}
<1> DEFINE c == call[t]
           w == c.where
<1>1. CallInv(t) /\ SearchInv(t, r)
  BY CallFacts
<1>2. /\ r \in [Nodes -> Nat]
      /\ \A m, n \in Nodes : r[m] <= r[n] => m.order <= n.order
  <2>1. /\ r \in [Nodes -> Nat]
        /\ \A m, n \in Nodes : r[m] < r[n] => m.order <= n.order
        /\ \A m, n \in Nodes : r[m] = r[n] => m = n
    BY ListFacts DEF HInv
  <2>2. ASSUME NEW m \in Nodes, NEW n \in Nodes, r[m] <= r[n] PROVE m.order <= n.order
    <3>1. r[m] \in Nat /\ r[n] \in Nat /\ m.order \in Nat
      BY <2>1, NodeFacts
    <3> QED BY <3>1, <2>1, <2>2
  <2> QED BY <2>1, <2>2
<1>3. w # Null => w \in Nodes /\ c.iter \in Nodes /\ r[c.iter] < r[w] /\ w.order \in Nat
  BY <1>1, NodeFacts DEF SearchInv
<1>4. c.op \in Keyed => /\ Order(t) = Regular(Hash[c.key]) /\ Order(t) \in Nat /\ Order(t) % 2 = 1
                        /\ \A e \in OfKey(c.key) : e \in Nodes /\ e.order = Order(t)
  BY KeyFacts DEF Order
<1>5. ASSUME c.op \in Keyed, Passed(t, Order(t)), NEW e \in OfKey(c.key) PROVE ~Ahead(t, r, e)
  <2>1. SUFFICES ASSUME w # Null, r[w] <= r[e] PROVE FALSE
    BY DEF Ahead
  <2>2. w.order > Order(t)
    BY <2>1, <1>5 DEF Passed
  <2>3. w \in Nodes /\ e \in Nodes /\ e.order = Order(t) /\ Order(t) \in Nat /\ w.order \in Nat
    BY <2>1, <1>3, <1>4, <1>5
  <2>4. w.order <= e.order
    BY <2>1, <2>3, <1>2
  <2> QED BY <2>2, <2>3, <2>4
<1>6. ASSUME c.op \in Keyed, w # Null, w.order = Order(t), ~Is(t, w)
      PROVE  Collides(c.key)
  <2>1. w \in Elements /\ w.val # c.key
    BY <1>3, <1>4, <1>6 DEF Elements, IsDummy, Is
  <2> QED BY <2>1, <1>4, <1>6 DEF Collides
<1>7. c.op \in Found => \A e \in c.before : e \in OfKey(c.key)
  BY <1>1 DEF CallInv, OfKey
<1>8. ASSUME c.op \in {"find", "const_find"}, c.before # {} PROVE c.found # {}
  <2>1. SUFFICES ASSUME c.found = {} PROVE FALSE
    OBVIOUS
  <2>2. PICK e \in c.before : TRUE
    BY <1>8
  <2>3. c.op \in Found /\ c.op \in Keyed /\ Passed(t, Order(t)) /\ Ahead(t, r, e)
    BY <1>1, <1>8, <2>1, <2>2 DEF Ended, SearchInv, Found, Keyed, Ops, Safe, Unsafe
  <2> QED BY <1>5, <1>7, <2>2, <2>3
<1>9. ASSUME c.op = "equal_range" PROVE Collides(c.key) \/ c.before \subseteq c.found
  <2>1. c.op \in Found /\ c.op \in Keyed
    BY <1>9 DEF Found, Keyed, Ops, Safe, Unsafe
  <2>2. CASE Passed(t, Order(t))
    BY <1>1, <1>5, <1>7, <2>1, <2>2 DEF SearchInv
  <2>3. CASE ~Passed(t, Order(t))
    <3>1. c.found # {} /\ ~Is(t, w)
      BY <1>9, <2>3 DEF Ended
    <3>2. w # Null /\ ~(w.order > Order(t))
      BY <2>3 DEF Passed
    <3>3. c.iter.order = Order(t) /\ c.iter.order <= w.order
      BY <1>1, <1>2, <1>3, <1>9, <3>1, <3>2, ListFacts DEF SearchInv, HInv
    <3>4. w.order = Order(t)
      BY <1>3, <1>4, <2>1, <3>2, <3>3
    <3> QED BY <1>6, <2>1, <3>1, <3>2, <3>4
  <2> QED BY <2>2, <2>3
<1>10. ASSUME c.op = "iterate" PROVE c.before \subseteq c.found
  BY <1>1, <1>10 DEF Ended, SearchInv, Ahead
<1>11. ASSUME c.op = "erase" PROVE Collides(c.key) \/ OfKey(c.key) = {}
  <2>1. c.op \in Keyed
    BY <1>11 DEF Keyed, Ops, Safe, Unsafe
  <2>2. CASE Passed(t, Order(t))
    BY <1>1, <1>5, <1>11, <2>1, <2>2 DEF SearchInv
  <2>3. CASE ~Passed(t, Order(t))
    <3>1. c.found # {} /\ ~Is(t, w)
      BY <1>11, <2>3 DEF Ended
    <3>2. w # Null /\ ~(w.order > Order(t))
      BY <2>3 DEF Passed
    <3>3. w.order >= Order(t)
      BY <1>1, <1>11, <3>1, <3>2 DEF SearchInv
    <3>4. w.order = Order(t)
      BY <1>3, <1>4, <2>1, <3>2, <3>3
    <3> QED BY <1>6, <2>1, <3>1, <3>2, <3>4
  <2> QED BY <2>2, <2>3
<1> QED BY <1>8, <1>9, <1>10, <1>11

LEMMA EndSearchNext ==
    ASSUME Types, NEW r, HInv(r), NEW t \in Threads, EndSearch(t)
    PROVE  Types' /\ HInv(r)'
<1> DEFINE c == call[t]
           k == Hash[c.key] % numberOfBuckets
<1>1. /\ UNCHANGED <<list, table, multimapping, calls>> /\ at[t] = "search"
      /\ c.op # "insert" /\ Ended(t)
  BY DEF EndSearch
<1>2. CallInv(t) /\ c \in CallType
  BY CallFacts
<1>3. CASE c.op = "subscript" /\ c.found = {}
  <2>1. /\ at' = [at EXCEPT ![t] = "bucket"]
        /\ call' = [call EXCEPT ![t].op = "insert", ![t].chain = <<k>>]
    BY <1>3 DEF EndSearch
  <2>2. k \in Buckets /\ k \in Slots /\ Dummy(k) < Order(t)
    <3>1. Hash[c.key] \in Slots
      BY <1>3, KeyFacts DEF Keyed, Ops, Safe, Unsafe
    <3>2. k \in 0..numberOfBuckets - 1 /\ Dummy(k) < Regular(Hash[c.key])
      BY <3>1, KeyBehindDummy DEF Types
    <3> QED BY <3>2, BucketFacts DEF Buckets, Order
  <2> HIDE DEF k
  <2>3. <<k>> \in Seq(Slots) /\ Len(<<k>>) = 1 /\ Head(<<k>>) = k /\ <<k>>[1] = k /\ <<k>> # <<>>
    BY <2>2
  <2> DEFINE s == <<k>>
             cc == call'[t]
  <2> HIDE DEF s
  <2>4. /\ call' \in [Threads -> CallType] /\ \A u \in Threads \ {t} : call'[u] = call[u]
        /\ cc = [c EXCEPT !.op = "insert", !.chain = s]
    <3>1. call \in [Threads -> CallType]
      BY DEF Types
    <3>2. s \in Seq(Slots) /\ "insert" \in Ops \cup {"none"}
      BY <2>3 DEF Ops, Safe, s
    <3> HIDE DEF k, c
    <3>3. [call[t] EXCEPT !.op = "insert", !.chain = s] \in CallType
      BY <3>1, <3>2 DEF CallType
    <3>4. call' = [call EXCEPT ![t] = [call[t] EXCEPT !.op = "insert", !.chain = s]]
      BY <2>1, <3>1 DEF s
    <3> QED BY <3>1, <3>3, <3>4 DEF c
  <2>5. /\ cc.op = "insert" /\ cc.chain = s /\ cc.no = c.no /\ cc.key = c.key /\ cc.iter = c.iter
        /\ cc.found = c.found /\ cc.before = c.before
    BY <1>2, <2>4 DEF CallType
  <2>6. /\ at' \in [Threads -> Places] /\ at'[t] = "bucket"
        /\ \A u \in Threads \ {t} : at'[u] = at[u]
    BY <2>1 DEF Types, Places
  <2>7. Private(t)
    BY <1>1, <2>4, <2>5, <2>6 DEF Private, Unsafe
  <2>8. CallInv(t)'
    BY <1>1, <1>2, <1>3, <2>5, <2>6, SameState
    DEF CallInv, Making, Linked, Found, Keyed, Ops, Safe, Unsafe
  <2>9. Order(t)' = Order(t)
    BY <2>5 DEF Order
  <2>10. s # <<>> /\ Last(s) = k /\ Len(s) = 1 /\ \A i \in 1..Len(s) : s[i] = k
    BY <2>3 DEF s, Last
  <2>11. ChainInv(t)'
    BY <1>1, <2>2, <2>5, <2>6, <2>9, <2>10, SameState DEF ChainInv, Making
  <2>12. SearchInv(t, r)' /\ ReturnInv(t)'
    BY <2>6 DEF SearchInv, ReturnInv
  <2> QED BY <2>4, <2>6, <2>7, <2>8, <2>11, <2>12, PrivateStep DEF LocalInv
<1>4. CASE ~(c.op = "subscript" /\ c.found = {})
  <2>1. at' = [at EXCEPT ![t] = "return"] /\ call' = call
    BY <1>4 DEF EndSearch
  <2>2. /\ at' \in [Threads -> Places] /\ at'[t] = "return"
        /\ \A u \in Threads \ {t} : at'[u] = at[u]
    BY <2>1 DEF Types, Places
  <2>3. Private(t) /\ call' \in [Threads -> CallType]
    BY <1>1, <2>1, <2>2 DEF Private, Types
  <2>4. CallInv(t)'
    BY <1>1, <1>2, <2>1, <2>2, SameState DEF CallInv, Making, Linked
  <2>5. ChainInv(t)' /\ SearchInv(t, r)'
    BY <2>2 DEF ChainInv, SearchInv, Making
  <2>6. ReturnInv(t)'
    BY <1>1, <2>1, <2>2, SearchEnded, BucketFound, SameState DEF ReturnInv
  <2> QED BY <2>2, <2>3, <2>4, <2>5, <2>6, PrivateStep DEF LocalInv
<1> QED BY <1>3, <1>4

-----------------------------------------------------------------------------
(* Steps that put a node in the list, or take one out.                     *)
LEMMA OthersSafe ==
    ASSUME Types, NEW r, HInv(r), NEW t \in Threads, at[t] # "idle"
    PROVE  \A u \in Threads \ {t} : call[u].op \notin Unsafe
<1> TAKE u \in Threads \ {t}
<1>1. CASE at[u] = "idle"
  <2>1. call[u].op = "none"
    BY <1>1, CallFacts DEF CallInv
  <2> QED BY <2>1 DEF Unsafe
<1>2. CASE at[u] # "idle"
  BY <1>2 DEF HInv, CallsInv
<1> QED BY <1>1, <1>2

LEMMA LinkNext ==
    ASSUME Types, NEW r, HInv(r), NEW t \in Threads, at[t] # "idle",
           NEW n \in NodeType, n \notin Nodes, Link(t, n), CanLink(t),
           call[t].iter \in Nodes, call[t].iter.order <= n.order,
           IsDummy(n) => call[t].iter.order < n.order,
           call[t].where # Null => n.order < call[t].where.order,
           ~IsDummy(n) => n.no = call[t].no /\ n.order = Regular(Hash[n.val]),
           UNCHANGED <<table, multimapping, calls>>,
           at' \in [Threads -> Places], call' \in [Threads -> CallType],
           elementCount' = elementCount,
           \A u \in Threads \ {t} : at'[u] = at[u] /\ call'[u] = call[u]
    PROVE  /\ Types' /\ Nodes' = Nodes \cup {n}
           /\ \E q \in [Nodes' -> Nat] :
                 IsList(next', q) /\ \A u \in Threads \ {t} : LocalInv(u, q)'
<1> DEFINE i == call[t].iter
           w == call[t].where
           g == [m \in Nodes \cup {n} |-> IF m = n THEN next[i] ELSE IF m = i THEN n ELSE next[m]]
<1>1. next[i] = w /\ i \in Nodes /\ n # i
  BY DEF CanLink
<1>2. next' = g
  BY <1>1 DEF Link
<1>3. n # Null /\ \A m \in Nodes \cup {n} : m.order \in Nat
  BY NullAssumption, NodeFacts DEF NodeType
<1>4. IsList(next, r) /\ r \in [Nodes -> Nat]
  BY ListFacts DEF HInv
<1> PICK q : q = Shift(r, i, n)
  OBVIOUS
<1>5. IsList(g, q)
  BY <1>1, <1>3, <1>4, LinkList DEF Nodes
<1>6. Nodes' = Nodes \cup {n}
  BY <1>2 DEF Nodes
<1>7. q \in [Nodes' -> Nat] /\ IsList(next', q)
  <2>1. IsList(next', q)
    BY <1>2, <1>5
  <2> QED BY <2>1 DEF IsList, Nodes
<1>8. Types'
  <2>1. Nodes' \subseteq NodeType /\ IsFiniteSet(Nodes')
    BY <1>6, FS_AddElement DEF Types
  <2>2. next' \in [Nodes' -> Pointer]
    <3>1. \A m \in Nodes \cup {n} : g[m] \in Pointer
      BY <1>1, NodeFacts DEF Pointer
    <3> HIDE DEF g
    <3>2. DOMAIN next' = Nodes'
      BY DEF Nodes
    <3>3. next' = [m \in Nodes' |-> next'[m]]
      BY <1>2, <1>6 DEF g
    <3> QED BY <3>1, <3>3, <1>2, <1>6
  <2> QED BY <2>1, <2>2 DEF Types, table
<1>9. \A m \in Nodes : /\ r[m] \in Nat /\ q[m] = IF r[m] <= r[i] THEN r[m] ELSE r[m] + 1
                       /\ q[n] = r[i] + 1
  <2>1. DOMAIN r = Nodes /\ n \notin Nodes
    BY <1>4
  <2> QED BY <1>4, <2>1 DEF Shift
<1>10. \A m, k \in Nodes : r[m] < r[k] <=> q[m] < q[k]
  BY <1>1, <1>9
<1>11. \A m \in Nodes : m.order <= n.order => q[m] < q[n]
  <2> TAKE m \in Nodes
  <2> HAVE m.order <= n.order
  <2>1. SUFFICES ASSUME r[i] < r[m] PROVE FALSE
    BY <1>1, <1>9
  <2>2. w # Null /\ w \in Nodes /\ r[w] <= r[m]
    BY <1>1, <2>1, ListFacts DEF HInv
  <2>3. w.order <= m.order
    <3>1. r[w] \in Nat /\ r[m] \in Nat /\ w.order \in Nat /\ (r[w] = r[m] => w = m)
      BY <2>2, <1>9, ListFacts, NodeFacts DEF HInv
    <3>2. r[w] < r[m] => w.order <= m.order
      BY <2>2, ListFacts DEF HInv
    <3> QED BY <2>2, <3>1, <3>2
  <2> QED BY <2>2, <2>3, <1>3
<1>12. Grown(t, r, q)
  <2>1. \A u \in Threads \ {t} : at'[u] = at[u] /\ call'[u] = call[u] /\ call[u].op \notin Unsafe
    BY OthersSafe
  <2>2. buckets' = buckets /\ segments' = segments /\ numberOfBuckets' = numberOfBuckets
        /\ multimapping' = multimapping /\ calls' = calls
        /\ numberOfBuckets \in Nat /\ calls \in Nat
    BY PowersAre DEF table, Types
  <2>3. \A e \in Nodes' \ Nodes : e = n
    BY <1>6
  <2> QED BY <1>6, <1>10, <1>11, <2>1, <2>2, <2>3 DEF Grown
<1>13. \A u \in Threads \ {t} : LocalInv(u, q)'
  BY <1>7, <1>8, <1>12, OthersKeep
<1> QED BY <1>6, <1>7, <1>8, <1>13

LEMMA InsertDummyNext ==
    ASSUME Types, NEW r, HInv(r), NEW t \in Threads, InsertDummy(t)
    PROVE  Types' /\ \E q \in [Nodes' -> Nat] : HInv(q)'
<1> DEFINE c == call[t]
           b == Head(c.chain)
           o == Dummy(b)
           d == Node(o, NoKey, t)
           w == c.where
<1>1. at[t] = "dummy" /\ UNCHANGED <<elementCount, table, multimapping, calls>>
  BY DEF InsertDummy
<1>2. /\ CallInv(t) /\ ChainInv(t) /\ c \in CallType /\ c.iter \in Nodes /\ c.iter.order < o
      /\ w # Null => w \in Nodes /\ r[c.iter] < r[w] /\ w.order \in Nat
  BY <1>1, CallFacts, NodeFacts DEF SearchInv
<1>3. b \in Buckets /\ o \in Nat /\ o % 2 = 0 /\ b > 0
  BY <1>1, ChainFacts, BucketFacts DEF Making, ChainInv, HInv, LocalInv
<1>4. c.iter.order \in Nat /\ r \in [Nodes -> Nat]
  BY <1>2, NodeFacts, ListFacts DEF HInv
<1>5. ASSUME at' = at, UNCHANGED list, NEW n \in Nodes, Iterate(t, n), n.order < o
      PROVE  Types' /\ \E q \in [Nodes' -> Nat] : HInv(q)'
  <2>1. Types' /\ HInv(r)'
    BY <1>1, <1>5, MoveToDummy
  <2>2. Nodes' = Nodes
    BY <1>5 DEF Nodes, list
  <2> QED BY <1>4, <2>1, <2>2
<1>6. CASE Passed(t, o) /\ ~CanLink(t)
  <2>1. at' = at /\ UNCHANGED list /\ Iterate(t, c.iter)
    BY <1>1, <1>6 DEF InsertDummy, list, Retry
  <2> QED BY <2>1, <1>2, <1>5
<1>7. CASE ~Passed(t, o) /\ w.order # o
  <2>1. at' = at /\ UNCHANGED list /\ Iterate(t, w)
    BY <1>1, <1>7 DEF InsertDummy, list
  <2>2. w \in Nodes /\ w.order < o
    BY <1>2, <1>3, <1>7 DEF Passed
  <2> QED BY <2>1, <2>2, <1>5
<1>8. CASE ~Passed(t, o) /\ w.order = o
  <2>1. at' = [at EXCEPT ![t] = "set"] /\ call' = call
        /\ UNCHANGED <<list, table, multimapping, calls>>
    BY <1>1, <1>8 DEF InsertDummy, list
  <2>2. w \in Nodes /\ IsDummy(w)
    BY <1>2, <1>3, <1>8 DEF Passed, IsDummy
  <2>3. /\ at' \in [Threads -> Places] /\ at'[t] = "set"
        /\ \A u \in Threads \ {t} : at'[u] = at[u]
    BY <2>1 DEF Types, Places
  <2>4. Private(t) /\ call' \in [Threads -> CallType]
    BY <1>1, <2>1, <2>3 DEF Private, Types
  <2>5. CallInv(t)'
    BY <1>1, <1>2, <2>1, <2>3, SameState DEF CallInv, Making, Linked
  <2>6. ChainInv(t)'
    <3>1. Order(t)' = Order(t)
      BY <2>1 DEF Order
    <3> QED BY <1>1, <1>2, <1>8, <2>1, <2>2, <2>3, <3>1, SameState DEF ChainInv, Making
  <2>7. SearchInv(t, r)' /\ ReturnInv(t)'
    BY <2>3 DEF SearchInv, ReturnInv
  <2>8. Types' /\ HInv(r)'
    BY <2>3, <2>4, <2>5, <2>6, <2>7, PrivateStep DEF LocalInv
  <2> QED BY <1>4, <2>1, <2>8, SameState
<1>9. CASE Passed(t, o) /\ CanLink(t)
  <2> DEFINE cc == call'[t]
  <2>1. /\ Link(t, d) /\ at' = [at EXCEPT ![t] = "set"]
        /\ call' = [call EXCEPT ![t].where = d]
    BY <1>1, <1>9 DEF InsertDummy
  <2>2. d \in NodeType /\ d.order = o /\ IsDummy(d)
    BY <1>2, <1>3 DEF Node, NodeType, IsDummy, CallType
  <2>3. d \notin Nodes
    <3>1. SUFFICES ASSUME d \in Nodes PROVE FALSE
      OBVIOUS
    <3>2. r[c.iter] < r[d]
      BY <1>2, <2>2, <3>1, ListFacts DEF HInv
    <3>3. w = next[c.iter] /\ w # Null /\ r[w] <= r[d]
      BY <1>2, <1>9, <3>1, <3>2, ListFacts DEF HInv, CanLink
    <3>4. w.order > o
      BY <1>9, <3>3 DEF Passed
    <3>5. r[d] < r[w]
      BY <1>2, <1>3, <2>2, <3>1, <3>3, <3>4, ListFacts DEF HInv
    <3>6. r[d] \in Nat /\ r[w] \in Nat
      BY <1>2, <1>4, <3>1, <3>3
    <3> QED BY <3>3, <3>5, <3>6
  <2> HIDE DEF d
  <2>4. /\ at' \in [Threads -> Places] /\ at'[t] = "set"
        /\ \A u \in Threads \ {t} : at'[u] = at[u]
    BY <2>1 DEF Types, Places
  <2>5. /\ call' \in [Threads -> CallType] /\ \A u \in Threads \ {t} : call'[u] = call[u]
        /\ cc = [c EXCEPT !.where = d]
    <3>1. call \in [Threads -> CallType] /\ d \in Pointer
      BY <2>2 DEF Types, Pointer
    <3>2. [call[t] EXCEPT !.where = d] \in CallType
      BY <3>1 DEF CallType
    <3> QED BY <2>1, <3>1, <3>2
  <2>6. /\ cc.where = d /\ cc.op = c.op /\ cc.no = c.no /\ cc.key = c.key /\ cc.iter = c.iter
        /\ cc.found = c.found /\ cc.before = c.before /\ cc.chain = c.chain /\ cc.bucket = c.bucket
    BY <1>2, <2>5 DEF CallType
  <2>7. w # Null => o < w.order
    BY <1>9 DEF Passed
  <2>8. c.iter.order <= o
    BY <1>2, <1>3, <1>4
  <2>9. PICK q \in [Nodes' -> Nat] :
           /\ Types' /\ Nodes' = Nodes \cup {d}
           /\ IsList(next', q) /\ \A u \in Threads \ {t} : LocalInv(u, q)'
    <3>1. at[t] # "idle" /\ c.iter.order <= d.order /\ (w # Null => d.order < w.order)
      BY <1>1, <2>2, <2>7, <2>8
    <3> QED BY <1>1, <1>2, <1>9, <2>1, <2>2, <2>3, <2>4, <2>5, <3>1, LinkNext
  <2> HIDE DEF cc, c
  <2>10. /\ buckets' = buckets /\ segments' = segments /\ numberOfBuckets' = numberOfBuckets
         /\ multimapping' = multimapping /\ calls' = calls /\ elementCount' = elementCount
         /\ Elements' = Elements /\ Buckets' = Buckets
    BY <1>1, <2>2, <2>9 DEF table, Elements, Buckets
  <2>11. TableInv'
    <3>1. \A n \in Nodes' : IsDummy(n) => \E k \in Buckets : n.order = Dummy(k)
      BY <1>3, <2>2, <2>9 DEF HInv, TableInv
    <3>2. MyhHead \in Nodes'
      BY <2>9, ListFacts DEF HInv
    <3> QED BY <2>9, <2>10, <3>1 DEF HInv, TableInv
  <2>12. ElementsInv'
    BY <2>10 DEF HInv, ElementsInv
  <2>13. CallsInv'
    <3>1. \A u \in Threads : /\ at'[u] # "idle" <=> at[u] # "idle"
                             /\ call'[u].no = call[u].no /\ call'[u].op = call[u].op
      BY <1>1, <2>4, <2>5, <2>6 DEF cc, c
    <3> QED BY <3>1 DEF HInv, CallsInv
  <2>14. Counted'
    <3>1. {u \in Threads : at'[u] = "count"} = {u \in Threads : at[u] = "count"}
      BY <1>1, <2>4
    <3> QED BY <2>10, <3>1 DEF HInv, Counted
  <2>15. CallInv(t)'
    <3>1. cc = call'[t] /\ c = call[t]
      BY DEF cc, c
    <3> QED BY <1>1, <1>2, <2>4, <2>6, <2>9, <2>10, <3>1 DEF CallInv, Making, Linked
  <2>16. ChainInv(t)'
    <3>1. cc = call'[t] /\ c = call[t]
      BY DEF cc, c
    <3>2. Order(t)' = Order(t)
      BY <2>6, <3>1 DEF Order
    <3>3. d \in Nodes' /\ d.order = Dummy(Head(c.chain))
      BY <2>2, <2>9
    <3> QED BY <1>1, <1>2, <2>2, <2>4, <2>6, <2>10, <3>1, <3>2, <3>3 DEF ChainInv, Making
  <2>17. SearchInv(t, q)' /\ ReturnInv(t)'
    BY <2>4 DEF SearchInv, ReturnInv
  <2>18. HInv(q)'
    BY <2>9, <2>11, <2>12, <2>13, <2>14, <2>15, <2>16, <2>17 DEF HInv, LocalInv
  <2> QED BY <2>9, <2>18
<1> QED BY <1>1, <1>6, <1>7, <1>8, <1>9

LEMMA InsertNext ==
    ASSUME Types, NEW r, HInv(r), NEW t \in Threads, Insert(t)
    PROVE  Types' /\ \E q \in [Nodes' -> Nat] : HInv(q)'
<1> DEFINE c == call[t]
           o == Order(t)
           n == Node(o, c.key, t)
           w == c.where
           dup == ~multimapping /\ ~Passed(t, o) /\ Is(t, w)
<1>1. /\ at[t] = "search" /\ c.op = "insert" /\ c.op \in Keyed
      /\ UNCHANGED <<elementCount, table, multimapping, calls>>
  BY DEF Insert, Keyed, Ops, Safe, Unsafe
<1>2. /\ CallInv(t) /\ SearchInv(t, r) /\ c \in CallType /\ c.iter \in Nodes /\ c.iter.order <= o
      /\ w # Null => w \in Nodes /\ r[c.iter] < r[w] /\ w.order \in Nat
  BY <1>1, CallFacts, NodeFacts DEF SearchInv
<1>3. /\ c.key \in Keys /\ o \in Nat /\ o % 2 = 1 /\ o = Regular(Hash[c.key])
      /\ \A e \in OfKey(c.key) : e \in Nodes /\ e.order = o
  BY <1>1, KeyFacts DEF Order
<1>4. c.iter.order \in Nat /\ r \in [Nodes -> Nat]
  BY <1>2, NodeFacts, ListFacts DEF HInv
<1>5. ASSUME at' = at, UNCHANGED list, NEW k \in Nodes, Iterate(t, k),
             \/ k = c.iter
             \/ k = w /\ k.order <= o /\ (multimapping \/ ~Is(t, k))
      PROVE  Types' /\ \E q \in [Nodes' -> Nat] : HInv(q)'
  <2>1. Types' /\ HInv(r)'
    BY <1>1, <1>5, MoveToSearch
  <2>2. Nodes' = Nodes
    BY <1>5 DEF Nodes, list
  <2> QED BY <1>4, <2>1, <2>2
<1>6. CASE Passed(t, o) /\ ~CanLink(t)
  <2>1. at' = at /\ UNCHANGED list /\ Iterate(t, c.iter)
    BY <1>1, <1>6 DEF Insert, list, Retry
  <2> QED BY <2>1, <1>2, <1>5
<1>7. CASE ~Passed(t, o) /\ ~dup
  <2>1. at' = at /\ UNCHANGED list /\ Iterate(t, w)
    BY <1>1, <1>7 DEF Insert, list
  <2>2. w \in Nodes /\ w.order <= o /\ (multimapping \/ ~Is(t, w))
    BY <1>2, <1>3, <1>7 DEF Passed, Types
  <2> QED BY <2>1, <2>2, <1>5
<1>8. CASE dup
  <2>1. at' = [at EXCEPT ![t] = "return"] /\ call' = [call EXCEPT ![t].found = {w}]
        /\ UNCHANGED <<list, table, multimapping, calls>>
    BY <1>1, <1>8 DEF Insert, list
  <2>2. w \in Nodes /\ w \in NodeType
    BY <1>2, <1>8, NodeFacts DEF Passed
  <2> DEFINE cc == call'[t]
             f == {w}
  <2> HIDE DEF f
  <2>3. /\ at' \in [Threads -> Places] /\ at'[t] = "return"
        /\ \A u \in Threads \ {t} : at'[u] = at[u]
    BY <2>1 DEF Types, Places
  <2>4. /\ call' \in [Threads -> CallType] /\ \A u \in Threads \ {t} : call'[u] = call[u]
        /\ cc = [c EXCEPT !.found = f]
    <3>1. call \in [Threads -> CallType] /\ f \in SUBSET NodeType
      BY <2>2 DEF Types, f
    <3>2. [call[t] EXCEPT !.found = f] \in CallType
      BY <3>1 DEF CallType
    <3> QED BY <2>1, <3>1, <3>2 DEF f
  <2>5. /\ cc.op = c.op /\ cc.no = c.no /\ cc.key = c.key /\ cc.iter = c.iter
        /\ cc.before = c.before
    BY <1>2, <2>4 DEF CallType
  <2>6. Private(t)
    BY <1>1, <2>1, <2>3, <2>4, <2>5 DEF Private, Unsafe
  <2>7. CallInv(t)'
    BY <1>1, <1>2, <2>3, <2>5, <2>1, SameState DEF CallInv, Making, Linked
  <2>8. ChainInv(t)' /\ SearchInv(t, r)'
    BY <2>3 DEF ChainInv, SearchInv, Making
  <2>9. ReturnInv(t)'
    BY <1>1, <2>5 DEF ReturnInv
  <2>10. Types' /\ HInv(r)'
    BY <2>3, <2>4, <2>6, <2>7, <2>8, <2>9, PrivateStep DEF LocalInv
  <2> QED BY <1>4, <2>1, <2>10, SameState
<1>9. CASE Passed(t, o) /\ CanLink(t)
  <2>1. Link(t, n) /\ at' = [at EXCEPT ![t] = "count"] /\ call' = call
    BY <1>1, <1>9 DEF Insert
  <2>2. /\ n \in NodeType /\ n.order = o /\ n.val = c.key /\ n.no = c.no /\ ~IsDummy(n)
        /\ c.no \in 1..MaxCalls /\ c.no <= calls
    BY <1>1, <1>2, <1>3 DEF Node, NodeType, IsDummy, CallType, CallInv
  <2>3. n \notin Nodes
    BY <1>1, <1>2, <2>2 DEF CallInv, Elements, Linked
  <2>4. ~multimapping => OfKey(c.key) = {}
    <3>1. SUFFICES ASSUME ~multimapping, NEW e \in OfKey(c.key) PROVE FALSE
      OBVIOUS
    <3>2. r[c.iter] < r[e] /\ e \in Nodes /\ e.order = o
      BY <1>1, <1>2, <1>3, <3>1 DEF SearchInv
    <3>3. w # Null /\ r[w] <= r[e]
      BY <1>2, <1>9, <3>2, ListFacts DEF HInv, CanLink
    <3>4. w \in Nodes /\ w.order > o
      BY <1>2, <1>9, <3>3 DEF Passed
    <3>5. r[e] < r[w] /\ r[e] \in Nat /\ r[w] \in Nat
      BY <1>2, <1>3, <1>4, <3>2, <3>4, ListFacts DEF HInv
    <3> QED BY <3>3, <3>5
  <2> HIDE DEF n
  <2>5. /\ at' \in [Threads -> Places] /\ at'[t] = "count"
        /\ \A u \in Threads \ {t} : at'[u] = at[u]
    BY <2>1 DEF Types, Places
  <2>6. PICK q \in [Nodes' -> Nat] :
           /\ Types' /\ Nodes' = Nodes \cup {n}
           /\ IsList(next', q) /\ \A u \in Threads \ {t} : LocalInv(u, q)'
    <3>1. at[t] # "idle" /\ c.iter.order <= n.order /\ (w # Null => n.order < w.order)
      BY <1>1, <1>2, <1>9, <2>2 DEF Passed
    <3>2. n.order = Regular(Hash[n.val]) /\ call' \in [Threads -> CallType]
      BY <1>3, <2>1, <2>2 DEF Types
    <3> QED BY <1>1, <1>2, <1>9, <2>1, <2>2, <2>3, <2>5, <3>1, <3>2, LinkNext
  <2> HIDE DEF c
  <2>7. /\ buckets' = buckets /\ segments' = segments /\ numberOfBuckets' = numberOfBuckets
        /\ multimapping' = multimapping /\ calls' = calls /\ elementCount' = elementCount
        /\ Elements' = Elements \cup {n} /\ Buckets' = Buckets /\ n \notin Elements
    BY <1>1, <2>2, <2>3, <2>6 DEF table, Elements, Buckets
  <2>8. c = call[t] /\ c = call'[t]
    BY <2>1 DEF c
  <2>9. TableInv'
    BY <2>2, <2>6, <2>7 DEF HInv, TableInv
  <2>10. ElementsInv'
    <3>1. \A e \in Elements : e.no # n.no
      BY <1>1, <1>2, <2>2, <2>8 DEF CallInv, Linked
    <3>2. ~multimapping => \A e \in Elements : e.val # n.val
      BY <2>2, <2>4 DEF OfKey
    <3> QED BY <1>3, <2>2, <2>7, <3>1, <3>2 DEF HInv, ElementsInv
  <2>11. CallsInv'
    <3>1. \A u \in Threads : at'[u] # "idle" <=> at[u] # "idle"
      BY <1>1, <2>5
    <3> QED BY <2>1, <3>1 DEF HInv, CallsInv
  <2>12. Counted'
    <3> DEFINE C == {u \in Threads : at[u] = "count"}
    <3>1. {u \in Threads : at'[u] = "count"} = C \cup {t} /\ t \notin C
      BY <1>1, <2>5
    <3>2. IsFiniteSet(C) /\ IsFiniteSet(Elements)
      BY ThreadsAssumption, FS_Subset DEF Types, Elements
    <3>3. elementCount + Cardinality(C) = Cardinality(Elements) /\ elementCount \in Int
      BY DEF HInv, Counted, Types
    <3>4. Cardinality(C \cup {t}) = Cardinality(C) + 1 /\ Cardinality(C) \in Nat
      BY <3>1, <3>2, FS_AddElement, FS_CardinalityType
    <3>5. Cardinality(Elements \cup {n}) = Cardinality(Elements) + 1
          /\ Cardinality(Elements) \in Nat
      BY <2>7, <3>2, FS_AddElement, FS_CardinalityType
    <3> QED BY <2>7, <3>1, <3>3, <3>4, <3>5 DEF Counted
  <2>13. CallInv(t)'
    BY <1>1, <1>2, <2>5, <2>6, <2>7, <2>8 DEF CallInv, Making, Linked
  <2>14. ChainInv(t)' /\ SearchInv(t, q)' /\ ReturnInv(t)'
    BY <2>5 DEF ChainInv, SearchInv, ReturnInv, Making
  <2>15. HInv(q)'
    BY <2>6, <2>9, <2>10, <2>11, <2>12, <2>13, <2>14 DEF HInv, LocalInv
  <2> QED BY <2>6, <2>15
<1> QED BY <1>1, <1>6, <1>7, <1>8, <1>9

LEMMA IdleAfter ==
    ASSUME NEW u \in Threads, NEW q, at'[u] = "idle", call'[u] = NoCall, ElementsInv'
    PROVE  LocalInv(u, q)'
<1>1. \A e \in Elements' : e.no # 0
  BY DEF ElementsInv
<1>2. call'[u].op = "none" /\ call'[u].no = 0 /\ call'[u].iter = Null /\ call'[u].before = {}
  BY DEF NoCall
<1>3. CallInv(u)'
  BY <1>1, <1>2 DEF CallInv, Making, Linked, Found, Keyed, Ops, Safe, Unsafe
<1> QED BY <1>3 DEF LocalInv, ChainInv, SearchInv, ReturnInv, Making

LEMMA EraseNext ==
    ASSUME Types, NEW r, HInv(r), NEW t \in Threads, Erase(t)
    PROVE  Types' /\ \E q \in [Nodes' -> Nat] : HInv(q)'
<1> DEFINE c == call[t]
           i == c.iter
           w == c.where
           x == next[w]
           o == Order(t)
<1>1. /\ at[t] = "search" /\ c.op = "erase" /\ c.op \in Keyed /\ c.op \in Unsafe /\ ~Ended(t)
      /\ at' = at /\ UNCHANGED <<table, multimapping, calls>>
  BY DEF Erase, Keyed, Ops, Safe, Unsafe
<1>2. ~Passed(t, o) /\ (c.found = {} \/ Is(t, w))
  BY <1>1 DEF Ended
<1>3. /\ CallInv(t) /\ SearchInv(t, r) /\ c \in CallType /\ i \in Nodes /\ i.order <= o
      /\ w \in Nodes /\ w # Null /\ r[i] < r[w] /\ w.order \in Nat /\ w = next[i]
      /\ \A e \in OfKey(c.key) : Ahead(t, r, e)
  BY <1>1, <1>2, CallFacts, NodeFacts DEF SearchInv, Passed
<1>4. /\ o \in Nat /\ o % 2 = 1 /\ r \in [Nodes -> Nat]
      /\ \A e \in OfKey(c.key) : e \in Nodes /\ e.order = o
  BY <1>1, KeyFacts, ListFacts DEF HInv
<1>5. w.order <= o
  BY <1>2, <1>3, <1>4 DEF Passed
<1>6. CASE ~Is(t, w)
  <2>1. UNCHANGED list /\ Iterate(t, w)
    BY <1>6 DEF Erase
  <2>2. Types' /\ HInv(r)'
    BY <1>1, <1>2, <1>3, <1>5, <1>6, <2>1, MoveToSearch
  <2>3. Nodes' = Nodes
    BY <2>1 DEF Nodes, list
  <2> QED BY <1>4, <2>2, <2>3
<1>7. CASE Is(t, w)
  <2>1. /\ Unlink(t, w)
        /\ call' = [call EXCEPT ![t].where = x, ![t].found = c.found \cup {w}]
    BY <1>7 DEF Erase
  <2> DEFINE M == Nodes \ {w}
             g == [m \in M |-> IF m = i THEN x ELSE next[m]]
             cc == call'[t]
             fd == c.found \cup {w}
  <2>2. next' = g /\ Nodes' = M /\ elementCount' = elementCount - 1
    BY <2>1 DEF Unlink, Nodes
  <2> PICK q : q = Drop(r, w)
    OBVIOUS
  <2>3. IsList(next', q) /\ r[w] = r[i] + 1
    <3>1. IsList(next, r) /\ i \in DOMAIN next /\ next[i] = w
      BY <1>3 DEF HInv, Nodes
    <3>2. g = [m \in DOMAIN next \ {w} |-> IF m = i THEN next[w] ELSE next[m]]
      BY DEF Nodes
    <3> HIDE DEF g
    <3> QED BY <1>3, <2>2, <3>1, <3>2, UnlinkList
  <2>4. q \in [Nodes' -> Nat]
    BY <2>3 DEF IsList, Nodes
  <2>5. \A m \in M : q[m] = IF r[m] <= r[w] THEN r[m] ELSE r[m] - 1
    <3>1. DOMAIN r = Nodes
      BY <1>4
    <3> QED BY <3>1 DEF Drop
  <2>6. w \in Elements /\ w.order = o
    BY <1>3, <1>4, <1>7 DEF Elements, IsDummy, Is
  <2>7. Elements' = Elements \ {w}
    BY <2>2 DEF Elements
  <2>8. /\ x \in Pointer /\ (x # Null => x \in Nodes /\ r[x] = r[w] + 1 /\ w.order <= x.order)
        /\ \A e \in Nodes : r[w] < r[e] => x # Null /\ r[x] <= r[e]
    <3>1. x \in Pointer /\ (x # Null => x \in Nodes /\ r[x] = r[w] + 1)
      BY <1>3, NodeFacts, ListFacts DEF HInv
    <3>2. \A e \in Nodes : r[w] < r[e] => x # Null /\ r[x] <= r[e] /\ w.order <= e.order
      BY <1>3, ListFacts DEF HInv
    <3> HIDE DEF x, w
    <3>3. x # Null => w.order <= x.order
      BY <1>3, <1>4, <3>1, <3>2
    <3> QED BY <3>1, <3>2, <3>3
  <2>9. i \in M
    BY <1>3, <1>4, <2>3
  <2>10. x # Null => x \in M
    <3> HIDE DEF x, w
    <3> QED BY <1>3, <1>4, <2>8
  <2> HIDE DEF x, fd
  <2>11. /\ call' \in [Threads -> CallType] /\ \A u \in Threads \ {t} : call'[u] = call[u]
         /\ cc = [c EXCEPT !.where = x, !.found = fd]
    <3>1. call \in [Threads -> CallType]
      BY DEF Types
    <3>2. fd \in SUBSET NodeType
      BY <1>3, NodeFacts DEF fd, CallType
    <3>3. [call[t] EXCEPT !.where = x, !.found = fd] \in CallType
      BY <3>1, <3>2, <2>8 DEF CallType
    <3>4. call' = [call EXCEPT ![t] = [call[t] EXCEPT !.where = x, !.found = fd]]
      BY <2>1, <3>1 DEF fd
    <3> QED BY <3>1, <3>3, <3>4
  <2>12. /\ cc.where = x /\ cc.found = fd /\ cc.op = c.op /\ cc.no = c.no /\ cc.key = c.key
         /\ cc.iter = i /\ cc.before = c.before
    BY <1>3, <2>11 DEF CallType
  <2>13. /\ buckets' = buckets /\ segments' = segments /\ numberOfBuckets' = numberOfBuckets
         /\ multimapping' = multimapping /\ calls' = calls /\ Buckets' = Buckets
    BY <1>1 DEF table, Buckets
  <2>14. Types'
    <3>1. Nodes' \subseteq NodeType /\ IsFiniteSet(Nodes')
      BY <2>2, FS_RemoveElement DEF Types
    <3>2. next' \in [Nodes' -> Pointer]
      <4>1. \A m \in M : next[m] \in Pointer
        BY NodeFacts
      <4> QED BY <2>2, <2>8, <4>1
    <3> QED BY <1>1, <2>2, <2>11, <2>13, <3>1, <3>2 DEF Types
  <2>15. TableInv'
    <3>1. MyhHead \in Nodes' /\ \A n \in Nodes : IsDummy(n) => n \in Nodes'
      <4>1. ~IsDummy(w) /\ IsDummy(MyhHead) /\ MyhHead \in Nodes
        BY <2>6, ListFacts DEF HInv, Elements, IsDummy, MyhHead
      <4> QED BY <2>2, <4>1
    <3>2. \A n \in Nodes' : n \in Nodes
      BY <2>2
    <3> QED BY <2>13, <3>1, <3>2 DEF HInv, TableInv
  <2>16. ElementsInv'
    BY <2>7, <2>13 DEF HInv, ElementsInv
  <2>17. CallsInv'
    <3>1. \A u \in Threads : call'[u].no = call[u].no /\ call'[u].op = call[u].op
      BY <2>11, <2>12
    <3> QED BY <1>1, <3>1 DEF HInv, CallsInv
  <2>18. Counted'
    <3>1. IsFiniteSet(Elements)
      BY FS_Subset DEF Types, Elements
    <3>2. Cardinality(Elements \ {w}) = Cardinality(Elements) - 1 /\ Cardinality(Elements) \in Nat
      BY <2>6, <3>1, FS_RemoveElement, FS_CardinalityType
    <3>3. IsFiniteSet({u \in Threads : at[u] = "count"})
      BY ThreadsAssumption, FS_Subset
    <3>4. Cardinality({u \in Threads : at[u] = "count"}) \in Nat
      BY <3>3, FS_CardinalityType
    <3>5. /\ elementCount \in Int
          /\ elementCount + Cardinality({u \in Threads : at[u] = "count"}) = Cardinality(Elements)
      BY DEF HInv, Counted, Types
    <3> QED BY <1>1, <2>2, <2>7, <3>2, <3>4, <3>5 DEF Counted
  <2>19. \A u \in Threads \ {t} : LocalInv(u, q)'
    <3> TAKE u \in Threads \ {t}
    <3>1. at[u] = "idle"
      BY <1>1 DEF HInv, CallsInv
    <3>2. call[u] = NoCall
      BY <3>1, CallFacts DEF CallInv
    <3> QED BY <1>1, <2>11, <2>16, <3>1, <3>2, IdleAfter
  <2>20. CallInv(t)'
    <3> HIDE DEF cc, c, i
    <3>1. cc = call'[t] /\ c = call[t] /\ i = c.iter
      BY DEF cc, c, i
    <3>2. c.before = {} /\ i \in Nodes'
      BY <1>1, <1>3, <2>2, <2>9, <3>1 DEF CallInv, Found
    <3> QED BY <1>1, <1>3, <2>7, <2>12, <2>13, <3>1, <3>2 DEF CallInv, Making, Linked
  <2>21. ChainInv(t)' /\ ReturnInv(t)'
    BY <1>1 DEF ChainInv, ReturnInv, Making
  <2>22. \A e \in Elements' : e.val = c.key => x # Null /\ q[x] <= q[e]
    <3> TAKE e \in Elements'
    <3> HAVE e.val = c.key
    <3>1. e \in OfKey(c.key) /\ e # w /\ e \in M
      BY <1>4, <2>2, <2>7 DEF OfKey
    <3>2. r[w] <= r[e]
      BY <1>3, <3>1 DEF Ahead
    <3>3. r[w] \in Nat /\ r[e] \in Nat /\ r[e] # r[w]
      BY <1>3, <1>4, <3>1, ListFacts DEF HInv
    <3>4. x # Null /\ r[x] <= r[e] /\ x \in M /\ r[x] \in Nat /\ r[x] = r[w] + 1
      BY <1>4, <2>8, <2>10, <3>1, <3>2, <3>3
    <3> QED BY <2>5, <3>1, <3>3, <3>4
  <2>23. x # Null => x \in Nodes' /\ q[i] < q[x] /\ x.order >= o
    <3>1. SUFFICES ASSUME x # Null PROVE x \in Nodes' /\ q[i] < q[x] /\ x.order >= o
      OBVIOUS
    <3>2. r[x] \in Nat /\ r[w] \in Nat /\ r[i] \in Nat /\ r[x] = r[w] + 1 /\ x \in M /\ x \in Nodes
      BY <1>3, <1>4, <2>8, <2>10, <3>1
    <3>3. q[i] < q[x]
      BY <2>3, <2>5, <2>9, <3>2
    <3>4. x.order \in Nat
      <4> HIDE DEF x
      <4> QED BY <3>2, NodeFacts
    <3> QED BY <1>4, <2>2, <2>6, <2>8, <3>1, <3>2, <3>3, <3>4
  <2>24. SearchInv(t, q)'
    <3>1. Order(t)' = o
      BY <2>12 DEF Order
    <3>2. next'[i] = x /\ i \in Nodes'
      BY <2>2, <2>9
    <3> HIDE DEF cc, c, i, o
    <3>3. cc = call'[t] /\ c = call[t] /\ i = c.iter
      BY DEF cc, c, i
    <3> QED BY <1>1, <1>3, <2>12, <2>22, <2>23, <3>1, <3>2, <3>3
         DEF SearchInv, Ahead, Found, OfKey
  <2>25. HInv(q)'
    BY <2>3, <2>15, <2>16, <2>17, <2>18, <2>19, <2>20, <2>21, <2>24 DEF HInv, LocalInv
  <2> QED BY <2>4, <2>14, <2>25
<1> QED BY <1>6, <1>7

-----------------------------------------------------------------------------
(* Steps that change the table or the count.                               *)
LEMMA TableStep ==
    ASSUME Types, Types', NEW r, HInv(r), NEW t \in Threads, at[t] # "idle",
           next' = next, UNCHANGED <<multimapping, calls>>,
           \A u \in Threads \ {t} : at'[u] = at[u] /\ call'[u] = call[u],
           call'[t].no = call[t].no, call'[t].op = call[t].op,
           \A b \in Slots : buckets[b] # Null => buckets'[b] # Null,
           segments \subseteq segments', numberOfBuckets <= numberOfBuckets'
    PROVE  /\ r \in [Nodes -> Nat] /\ Nodes' = Nodes /\ Elements' = Elements
           /\ IsList(next', r) /\ ElementsInv' /\ CallsInv'
           /\ \A u \in Threads \ {t} : LocalInv(u, r)'
<1>1. Nodes' = Nodes /\ Elements' = Elements
  BY DEF Nodes, Elements
<1>2. r \in [Nodes' -> Nat] /\ IsList(next', r)
  BY <1>1, ListFacts DEF HInv
<1>3. Grown(t, r, r)
  <2>1. \A u \in Threads \ {t} : call[u].op \notin Unsafe
    BY OthersSafe
  <2>2. multimapping' = multimapping /\ calls' = calls /\ calls \in Nat
    BY DEF Types
  <2> QED BY <1>1, <2>1, <2>2 DEF Grown
<1>4. ElementsInv'
  BY <1>1 DEF HInv, ElementsInv
<1>5. CallsInv'
  BY DEF HInv, CallsInv
<1> QED BY <1>1, <1>2, <1>3, <1>4, <1>5, OthersKeep

LEMMA AllocateSegmentNext ==
    ASSUME Types, NEW r, HInv(r), NEW t \in Threads, AllocateSegment(t)
    PROVE  Types' /\ HInv(r)'
<1> DEFINE b == Head(call[t].chain)
<1>1. /\ at[t] = "allocate" /\ at' = [at EXCEPT ![t] = "write"]
      /\ segments' = segments \cup {SegmentOf(b)}
      /\ next' = next /\ elementCount' = elementCount /\ buckets' = buckets
      /\ numberOfBuckets' = numberOfBuckets /\ multimapping' = multimapping
      /\ call' = call /\ calls' = calls /\ Buckets' = Buckets
  BY DEF AllocateSegment, Goto, list, Buckets
<1>2. CallInv(t) /\ ChainInv(t) /\ b \in Buckets /\ b > 0
  BY <1>1, CallFacts, ChainFacts DEF ChainInv, Making
<1>3. SegmentOf(b) \in Nat
  <2>1. b \in Nat /\ b <= 2^(Bits - 1) /\ Bits \in Nat
    BY <1>2, BucketFacts, PowersAre, HashAssumption DEF Types, Buckets
  <2>2. 2^(Bits - 1) \in Nat /\ 2^Bits = 2 * 2^(Bits - 1) /\ 2^(Bits + 1) = 2 * 2^Bits
        /\ 2^(Bits - 1) > 0
    BY <2>1, PowerPositive, PowerNext, HashAssumption, Bits - 1 + 1 = Bits
  <2>3. b < 2^(Bits + 1)
    BY <2>1, <2>2
  <2>4. Msb(b) \in 0..Bits
    BY <1>2, <2>1, <2>3, MsbIs
  <2> QED BY <1>2, <2>1, <2>4 DEF SegmentOf
<1>4. /\ at' \in [Threads -> Places] /\ at'[t] = "write"
      /\ \A u \in Threads \ {t} : at'[u] = at[u]
  BY <1>1 DEF Types, Places
<1>5. Types' /\ Nodes' = Nodes
  BY <1>1, <1>3, <1>4 DEF Types, Nodes
<1>6. /\ r \in [Nodes -> Nat] /\ Nodes' = Nodes /\ Elements' = Elements
      /\ IsList(next', r) /\ ElementsInv' /\ CallsInv'
      /\ \A u \in Threads \ {t} : LocalInv(u, r)'
  <2>1. at[t] # "idle" /\ numberOfBuckets <= numberOfBuckets'
    BY <1>1, PowersAre DEF Types
  <2> QED BY <1>1, <1>4, <1>5, <2>1, TableStep
<1>7. TableInv'
  BY <1>1, <1>6 DEF HInv, TableInv
<1>8. Counted'
  <2>1. {u \in Threads : at'[u] = "count"} = {u \in Threads : at[u] = "count"}
    BY <1>1, <1>4
  <2> QED BY <1>1, <1>6, <2>1 DEF HInv, Counted
<1>9. CallInv(t)'
  BY <1>1, <1>2, <1>4, <1>6 DEF CallInv, Making, Linked
<1>10. ChainInv(t)'
  <2>1. Order(t)' = Order(t)
    BY <1>1 DEF Order
  <2> QED BY <1>1, <1>2, <1>4, <1>6, <2>1 DEF ChainInv, Making
<1>11. SearchInv(t, r)' /\ ReturnInv(t)'
  BY <1>4 DEF SearchInv, ReturnInv
<1> QED BY <1>5, <1>6, <1>7, <1>8, <1>9, <1>10, <1>11 DEF HInv, LocalInv

LEMMA WriteBucketNext ==
    ASSUME Types, NEW r, HInv(r), NEW t \in Threads, WriteBucket(t)
    PROVE  Types' /\ HInv(r)'
<1> DEFINE b == Head(call[t].chain)
           w == call[t].where
<1>1. /\ at[t] = "write" /\ at' = [at EXCEPT ![t] = "bucket"]
      /\ buckets' = [buckets EXCEPT ![b] = w]
      /\ next' = next /\ elementCount' = elementCount /\ segments' = segments
      /\ numberOfBuckets' = numberOfBuckets /\ multimapping' = multimapping
      /\ call' = call /\ calls' = calls /\ Buckets' = Buckets
  BY DEF WriteBucket, Goto, list, Buckets
<1>2. /\ CallInv(t) /\ ChainInv(t) /\ b \in Buckets /\ b \in Slots /\ b > 0
      /\ w \in Nodes /\ IsDummy(w) /\ w.order = Dummy(b) /\ w # Null /\ w \in Pointer
      /\ buckets[Parent(b)] # Null /\ SegmentOf(b) \in segments
  BY <1>1, CallFacts, ChainFacts, BucketFacts, NodeFacts DEF ChainInv, Making
<1>3. /\ buckets \in [Slots -> Pointer] /\ buckets' \in [Slots -> Pointer] /\ buckets'[b] = w
      /\ \A k \in Slots : buckets'[k] = IF k = b THEN w ELSE buckets[k]
  <2> HIDE DEF b, w
  <2> QED BY <1>1, <1>2 DEF Types
<1>4. /\ at' \in [Threads -> Places] /\ at'[t] = "bucket"
      /\ \A u \in Threads \ {t} : at'[u] = at[u]
  BY <1>1 DEF Types, Places
<1>5. Types' /\ Nodes' = Nodes
  BY <1>1, <1>3, <1>4 DEF Types, Nodes
<1>6. \A k \in Slots : buckets[k] # Null => buckets'[k] # Null
  BY <1>2, <1>3
<1>7. /\ r \in [Nodes -> Nat] /\ Nodes' = Nodes /\ Elements' = Elements
      /\ IsList(next', r) /\ ElementsInv' /\ CallsInv'
      /\ \A u \in Threads \ {t} : LocalInv(u, r)'
  <2>1. numberOfBuckets \in Nat
    BY PowersAre DEF Types
  <2>2. at[t] # "idle" /\ numberOfBuckets <= numberOfBuckets' /\ segments \subseteq segments'
    BY <1>1, <2>1
  <2> QED BY <1>1, <1>4, <1>5, <1>6, <2>2, TableStep
<1>8. TableInv'
  <2>1. buckets'[0] = MyhHead /\ 0 \in segments'
    BY <1>1, <1>2, <1>3, DummyZero DEF HInv, TableInv
  <2>2. ASSUME NEW k \in Slots, buckets'[k] # Null
        PROVE  /\ k \in Buckets' /\ SegmentOf(k) \in segments'
               /\ buckets'[k] \in Nodes' /\ IsDummy(buckets'[k]) /\ buckets'[k].order = Dummy(k)
               /\ k > 0 => buckets'[Parent(k)] # Null
    <3>1. /\ k \in Buckets /\ SegmentOf(k) \in segments
          /\ buckets'[k] \in Nodes /\ IsDummy(buckets'[k]) /\ buckets'[k].order = Dummy(k)
          /\ k > 0 => buckets[Parent(k)] # Null
      <4>1. CASE k = b
        BY <4>1, <1>2, <1>3
      <4>2. CASE k # b
        BY <4>2, <1>3, <2>2 DEF HInv, TableInv
      <4> QED BY <4>1, <4>2
    <3>2. k > 0 => Parent(k) \in Slots
      BY <3>1, BucketFacts
    <3> QED BY <1>1, <1>6, <1>7, <3>1, <3>2
  <2>3. \A n \in Nodes' : IsDummy(n) => \E k \in Buckets' : n.order = Dummy(k)
    BY <1>1, <1>7 DEF HInv, TableInv
  <2> QED BY <2>1, <2>2, <2>3 DEF TableInv
<1>9. Counted'
  <2>1. {u \in Threads : at'[u] = "count"} = {u \in Threads : at[u] = "count"}
    BY <1>1, <1>4
  <2> QED BY <1>1, <1>7, <2>1 DEF HInv, Counted
<1>10. CallInv(t)'
  BY <1>1, <1>2, <1>4, <1>7 DEF CallInv, Making, Linked
<1>11. ChainInv(t)'
  <2>1. Order(t)' = Order(t)
    BY <1>1 DEF Order
  <2>2. call[t].op = "unsafe_end" =>
          \A d \in numberOfBuckets \div 2..Last(call[t].chain) - 1 : buckets'[d] # Null
    <3>1. SUFFICES ASSUME call[t].op = "unsafe_end",
                          NEW d \in numberOfBuckets \div 2..Last(call[t].chain) - 1
                   PROVE  buckets'[d] # Null
      OBVIOUS
    <3>2. buckets[d] # Null
      BY <1>1, <1>2, <3>1 DEF ChainInv, Making
    <3>3. Last(call[t].chain) \in Buckets /\ numberOfBuckets \in Nat
      BY <1>1, ChainFacts, PowersAre DEF Making, Types
    <3>4. d \in Buckets
      <4>1. numberOfBuckets \div 2 \in Nat
        BY <3>3
      <4> QED BY <3>3, <4>1 DEF Buckets
    <3>5. d \in Slots
      BY <3>4, BucketFacts
    <3> QED BY <1>6, <3>2, <3>5
  <2> QED BY <1>1, <1>2, <1>4, <1>7, <2>1, <2>2 DEF ChainInv, Making
<1>12. SearchInv(t, r)' /\ ReturnInv(t)'
  BY <1>4 DEF SearchInv, ReturnInv
<1> QED BY <1>5, <1>7, <1>8, <1>9, <1>10, <1>11, <1>12 DEF HInv, LocalInv

LEMMA GrowNext ==
    ASSUME Types, NEW r, HInv(r), NEW t \in Threads, Grow(t)
    PROVE  Types' /\ HInv(r)'
<1> DEFINE n == numberOfBuckets
           z == call[t].size
<1>1. /\ at[t] = "grow" /\ at' = [at EXCEPT ![t] = "return"]
      /\ numberOfBuckets' = IF n = z THEN 2 * n ELSE n
      /\ next' = next /\ elementCount' = elementCount /\ buckets' = buckets
      /\ segments' = segments /\ multimapping' = multimapping
      /\ call' = call /\ calls' = calls
  BY DEF Grow, Goto, list
<1>2. CallInv(t) /\ call[t].op = "insert" /\ z < 2^(Bits - 1)
  BY <1>1, CallFacts DEF CallInv
<1>3. numberOfBuckets' \in Powers /\ n \in Nat /\ numberOfBuckets' \in Nat /\ n <= numberOfBuckets'
  <2>1. n \in Powers /\ n \in Nat /\ (n < 2^(Bits - 1) => 2 * n \in Powers)
    BY PowersAre DEF Types
  <2> HIDE DEF n, z
  <2> QED BY <1>1, <1>2, <2>1
<1>4. /\ at' \in [Threads -> Places] /\ at'[t] = "return"
      /\ \A u \in Threads \ {t} : at'[u] = at[u]
  BY <1>1 DEF Types, Places
<1>5. Types' /\ Nodes' = Nodes
  BY <1>1, <1>3, <1>4 DEF Types, Nodes
<1>6. /\ r \in [Nodes -> Nat] /\ Nodes' = Nodes /\ Elements' = Elements
      /\ IsList(next', r) /\ ElementsInv' /\ CallsInv'
      /\ \A u \in Threads \ {t} : LocalInv(u, r)'
  <2>1. at[t] # "idle"
    BY <1>1
  <2> QED BY <1>1, <1>3, <1>4, <1>5, <2>1, TableStep
<1>7. TableInv'
  <2>1. numberOfBuckets \in Nat /\ numberOfBuckets' \in Nat /\ numberOfBuckets <= numberOfBuckets'
    BY <1>3
  <2>2. Buckets \subseteq Buckets'
    <3>1. Buckets = 0..numberOfBuckets - 1 /\ Buckets' = 0..numberOfBuckets' - 1
      BY DEF Buckets
    <3>2. \A m, k \in Nat : m <= k => 0..m - 1 \subseteq 0..k - 1
      OBVIOUS
    <3> QED BY <2>1, <3>1, <3>2
  <2> QED BY <1>1, <1>6, <2>2 DEF HInv, TableInv
<1>8. Counted'
  <2>1. {u \in Threads : at'[u] = "count"} = {u \in Threads : at[u] = "count"}
    BY <1>1, <1>4
  <2> QED BY <1>1, <1>6, <2>1 DEF HInv, Counted
<1>9. CallInv(t)'
  BY <1>1, <1>2, <1>4, <1>6 DEF CallInv, Making, Linked
<1>10. ChainInv(t)' /\ SearchInv(t, r)'
  BY <1>4 DEF ChainInv, SearchInv, Making
<1>11. ReturnInv(t)'
  BY <1>1, <1>2 DEF ReturnInv
<1> QED BY <1>5, <1>6, <1>7, <1>8, <1>9, <1>10, <1>11 DEF HInv, LocalInv

(* There are no more elements than calls.                                  *)
LEMMA FewElements ==
    ASSUME Types, ElementsInv
    PROVE  IsFiniteSet(Elements) /\ Cardinality(Elements) \in Nat /\ Cardinality(Elements) <= MaxCalls
<1> DEFINE f == [e \in Elements |-> e.no]
<1>1. IsFiniteSet(1..MaxCalls) /\ Cardinality(1..MaxCalls) = MaxCalls
  BY FS_Interval, SizesAssumption
<1>2. IsFiniteSet(Elements)
  BY FS_Subset DEF Types, Elements
<1>3. f \in Injection(Elements, 1..MaxCalls)
  BY DEF ElementsInv, Injection, IsInjective
<1>4. Cardinality(Elements) <= Cardinality(1..MaxCalls)
  BY <1>1, <1>3, FS_Injection
<1> QED BY <1>1, <1>2, <1>4, FS_CardinalityType

LEMMA CountElementNext ==
    ASSUME Types, NEW r, HInv(r), NEW t \in Threads, CountElement(t)
    PROVE  Types' /\ HInv(r)'
<1> DEFINE c == call[t]
           cc == call'[t]
           z == elementCount + 1
           C == {u \in Threads : at[u] = "count"}
<1>1. /\ at[t] = "count" /\ at' = [at EXCEPT ![t] = "adjust"]
      /\ elementCount' = z /\ call' = [call EXCEPT ![t].size = z]
      /\ next' = next /\ buckets' = buckets /\ segments' = segments
      /\ numberOfBuckets' = numberOfBuckets /\ multimapping' = multimapping
      /\ calls' = calls /\ Buckets' = Buckets
  BY DEF CountElement, Goto, table, Buckets
<1>2. CallInv(t) /\ c \in CallType /\ c.op = "insert"
  BY <1>1, CallFacts DEF CallInv
<1>3. z \in Int /\ elementCount \in Int
  BY DEF Types
<1> HIDE DEF z
<1>4. /\ call' \in [Threads -> CallType] /\ \A u \in Threads \ {t} : call'[u] = call[u]
      /\ cc = [c EXCEPT !.size = z]
  <2>1. call \in [Threads -> CallType]
    BY DEF Types
  <2>2. [call[t] EXCEPT !.size = z] \in CallType
    BY <1>3, <2>1 DEF CallType
  <2> QED BY <1>1, <2>1, <2>2
<1>5. /\ cc.size = z /\ cc.op = c.op /\ cc.no = c.no /\ cc.key = c.key /\ cc.iter = c.iter
      /\ cc.found = c.found /\ cc.before = c.before
  BY <1>2, <1>4 DEF CallType
<1>6. /\ at' \in [Threads -> Places] /\ at'[t] = "adjust"
      /\ \A u \in Threads \ {t} : at'[u] = at[u]
  BY <1>1 DEF Types, Places
<1>7. Types' /\ Nodes' = Nodes
  BY <1>1, <1>3, <1>4, <1>6 DEF Types, Nodes
<1>8. /\ r \in [Nodes -> Nat] /\ Nodes' = Nodes /\ Elements' = Elements
      /\ IsList(next', r) /\ ElementsInv' /\ CallsInv'
      /\ \A u \in Threads \ {t} : LocalInv(u, r)'
  <2>1. at[t] # "idle" /\ numberOfBuckets <= numberOfBuckets' /\ segments \subseteq segments'
        /\ \A b \in Slots : buckets[b] # Null => buckets'[b] # Null
    BY <1>1, PowersAre DEF Types
  <2> QED BY <1>1, <1>4, <1>5, <1>6, <1>7, <2>1, TableStep
<1>9. TableInv'
  BY <1>1, <1>8 DEF HInv, TableInv
<1>10. /\ {u \in Threads : at'[u] = "count"} = C \ {t} /\ t \in C /\ IsFiniteSet(C)
       /\ elementCount + Cardinality(C) = Cardinality(Elements)
  BY <1>1, <1>6, ThreadsAssumption, FS_Subset DEF HInv, Counted
<1>11. /\ Cardinality(C \ {t}) = Cardinality(C) - 1 /\ Cardinality(C) \in Nat
       /\ Cardinality(C \ {t}) \in Nat
  BY <1>10, FS_RemoveElement, FS_CardinalityType
<1>12. Cardinality(Elements) \in Nat /\ Cardinality(Elements) <= MaxCalls /\ MaxCalls \in Nat
  BY FewElements, SizesAssumption DEF HInv
<1>13. z <= MaxCalls
  BY <1>3, <1>10, <1>11, <1>12 DEF z
<1>14. Counted'
  BY <1>1, <1>3, <1>8, <1>10, <1>11, <1>12 DEF Counted, z
<1>15. CallInv(t)'
  BY <1>1, <1>2, <1>5, <1>6, <1>8, <1>13 DEF CallInv, Making, Linked
<1>16. ChainInv(t)' /\ SearchInv(t, r)' /\ ReturnInv(t)'
  BY <1>6 DEF ChainInv, SearchInv, ReturnInv, Making
<1> QED BY <1>7, <1>8, <1>9, <1>14, <1>15, <1>16 DEF HInv, LocalInv

-----------------------------------------------------------------------------
(* Steps of nobody's call: the first state, a call that begins, clear and  *)
(* rehash.                                                                 *)
LEMMA FreshList ==
    /\ MyhHead # Null /\ MyhHead \in NodeType /\ IsDummy(MyhHead) /\ MyhHead.order = 0
    /\ IsList([n \in {MyhHead} |-> Null], [n \in {MyhHead} |-> 0])
<1>1. MyhHead # Null /\ MyhHead \in NodeType /\ IsDummy(MyhHead) /\ MyhHead.order = 0
  BY NullAssumption DEF MyhHead, NodeType, IsDummy
<1> DEFINE f == [n \in {MyhHead} |-> Null]
           r == [n \in {MyhHead} |-> 0]
<1>2. DOMAIN f = {MyhHead} /\ f[MyhHead] = Null /\ r[MyhHead] = 0 /\ r \in [{MyhHead} -> Nat]
  OBVIOUS
<1> HIDE DEF f, r
<1>3. IsList(f, r)
  BY <1>2 DEF IsList
<1> QED BY <1>1, <1>3 DEF f, r

LEMMA InitNext == ASSUME HashInit PROVE IInv
<1> DEFINE r == [n \in {MyhHead} |-> 0]
<1>1. /\ next = [n \in {MyhHead} |-> Null] /\ segments = {0}
      /\ buckets = [b \in Slots |-> IF b = 0 THEN MyhHead ELSE Null]
      /\ elementCount = 0 /\ multimapping \in BOOLEAN
      /\ at = [t \in Threads |-> "idle"] /\ call = [t \in Threads |-> NoCall]
      /\ calls \in {0, Len(Filling)}
  BY DEF HashInit
<1>2. Nodes = {MyhHead} /\ Elements = {}
  BY <1>1, FreshList DEF Nodes, Elements
<1>3. numberOfBuckets \in Powers
  BY RoundUpIs, SizesAssumption DEF HashInit
<1>4. calls \in Nat /\ NoCall \in CallType
  <2>1. Len(Filling) \in Nat
    BY SizesAssumption, LenProperties
  <2>2. NoCall \in CallType
    BY DummyZero, EmptySeq DEF NoCall, CallType, Pointer
  <2> QED BY <1>1, <2>1, <2>2
<1>5. Types
  <2>1. Nodes \subseteq NodeType /\ IsFiniteSet(Nodes)
    BY <1>2, FreshList, FS_Singleton
  <2>2. next \in [Nodes -> Pointer] /\ buckets \in [Slots -> Pointer]
    BY <1>1, <1>2, FreshList DEF Pointer
  <2>3. at \in [Threads -> Places] /\ call \in [Threads -> CallType]
    BY <1>1, <1>4 DEF Places
  <2> QED BY <1>1, <1>3, <1>4, <2>1, <2>2, <2>3 DEF Types
<1>6. r \in [Nodes -> Nat]
  BY <1>2
<1>7. IsList(next, r)
  BY <1>1, FreshList
<1> HIDE DEF r
<1>8. TableInv
  <2>1. buckets[0] = MyhHead /\ \A b \in Slots : buckets[b] # Null => b = 0
    BY <1>1, DummyZero
  <2>2. 0 \in Buckets
    BY <1>3, PowersAre DEF Buckets
  <2>3. SegmentOf(0) \in segments
    BY <1>1 DEF SegmentOf
  <2> QED BY <1>1, <1>2, <2>1, <2>2, <2>3, DummyZero, FreshList DEF TableInv
<1>9. ElementsInv /\ CallsInv
  BY <1>1, <1>2 DEF ElementsInv, CallsInv
<1>10. Counted
  <2>1. {t \in Threads : at[t] = "count"} = {}
    BY <1>1
  <2>2. Cardinality({}) = 0 /\ elementCount = 0 /\ 0 + 0 = 0
    BY <1>1, FS_EmptySet
  <2> QED BY <1>2, <2>1, <2>2 DEF Counted
<1>11. ASSUME NEW t \in Threads PROVE LocalInv(t, r)
  <2>1. at[t] = "idle" /\ call[t] = NoCall
    BY <1>1
  <2>2. /\ NoCall.op = "none" /\ NoCall.no = 0 /\ NoCall.iter = Null /\ NoCall.before = {}
    BY DEF NoCall
  <2>3. CallInv(t)
    BY <1>2, <2>1, <2>2 DEF CallInv, Making, Linked, Found, Keyed, Ops, Safe, Unsafe
  <2> QED BY <2>1, <2>3 DEF LocalInv, ChainInv, SearchInv, ReturnInv, Making
<1> QED BY <1>5, <1>6, <1>7, <1>8, <1>9, <1>10, <1>11 DEF IInv, HInv

LEMMA ClearNext ==
    ASSUME Types, NEW r, HInv(r), Clear
    PROVE  Types' /\ \E q \in [Nodes' -> Nat] : HInv(q)'
<1>1. /\ \A t \in Threads : at[t] = "idle"
      /\ next' = [n \in {MyhHead} |-> Null] /\ segments' = {0}
      /\ buckets' = [b \in Slots |-> IF b = 0 THEN MyhHead ELSE Null]
      /\ elementCount' = 0 /\ multimapping' = multimapping
      /\ at' = at /\ call' = call /\ numberOfBuckets' = numberOfBuckets
      /\ calls' = calls + 1 /\ Buckets' = Buckets
  BY DEF Clear, Idle, Buckets
<1>2. Nodes' = {MyhHead} /\ Elements' = {}
  BY <1>1, FreshList DEF Nodes, Elements
<1>3. Types'
  <2>1. Nodes' \subseteq NodeType /\ IsFiniteSet(Nodes')
    BY <1>2, FreshList, FS_Singleton
  <2>2. next' \in [Nodes' -> Pointer] /\ buckets' \in [Slots -> Pointer]
    BY <1>1, <1>2, FreshList DEF Pointer
  <2> QED BY <1>1, <2>1, <2>2 DEF Types
<1> PICK q : q = [n \in {MyhHead} |-> 0]
  OBVIOUS
<1>4. q \in [Nodes' -> Nat] /\ IsList(next', q)
  BY <1>1, <1>2, FreshList
<1>5. TableInv'
  <2>1. buckets'[0] = MyhHead /\ \A b \in Slots : buckets'[b] # Null => b = 0
    BY <1>1, DummyZero
  <2>2. 0 \in Buckets'
    BY <1>1, PowersAre DEF Buckets, Types
  <2>3. SegmentOf(0) \in segments'
    BY <1>1 DEF SegmentOf
  <2> QED BY <1>1, <1>2, <2>1, <2>2, <2>3, DummyZero, FreshList DEF TableInv
<1>6. ElementsInv' /\ CallsInv'
  BY <1>1, <1>2 DEF ElementsInv, CallsInv
<1>7. Counted'
  <2>1. {t \in Threads : at'[t] = "count"} = {}
    BY <1>1
  <2> QED BY <1>1, <1>2, <2>1, FS_EmptySet DEF Counted
<1>8. ASSUME NEW t \in Threads PROVE LocalInv(t, q)'
  <2>1. at'[t] = "idle" /\ call'[t] = NoCall
    BY <1>1, CallFacts DEF CallInv
  <2> QED BY <1>6, <2>1, IdleAfter
<1> QED BY <1>3, <1>4, <1>5, <1>6, <1>7, <1>8 DEF HInv

LEMMA RehashNext ==
    ASSUME Types, NEW r, HInv(r), NEW n \in 1..2^(Bits - 1), Rehash(n)
    PROVE  Types' /\ \E q \in [Nodes' -> Nat] : HInv(q)'
<1>1. /\ \A t \in Threads : at[t] = "idle"
      /\ numberOfBuckets <= n /\ numberOfBuckets' = RoundUp(n)
      /\ next' = next /\ segments' = segments /\ buckets' = buckets
      /\ elementCount' = elementCount /\ multimapping' = multimapping
      /\ at' = at /\ call' = call /\ calls' = calls + 1
      /\ Nodes' = Nodes /\ Elements' = Elements
  BY DEF Rehash, Idle, list, Nodes, Elements
<1>2. /\ RoundUp(n) \in Powers /\ n <= RoundUp(n) /\ n \in Nat
      /\ RoundUp(n) \in Nat /\ numberOfBuckets \in Nat
  BY RoundUpIs, PowersAre DEF Types
<1>3. Types'
  BY <1>1, <1>2 DEF Types
<1>4. r \in [Nodes' -> Nat] /\ IsList(next', r)
  BY <1>1, ListFacts DEF HInv
<1>5. TableInv'
  <2>1. numberOfBuckets <= RoundUp(n)
    BY <1>1, <1>2
  <2>2. \A m, k \in Nat : m <= k => 0..m - 1 \subseteq 0..k - 1
    OBVIOUS
  <2>3. Buckets = 0..numberOfBuckets - 1 /\ Buckets' = 0..RoundUp(n) - 1
    BY <1>1 DEF Buckets
  <2>4. Buckets \subseteq Buckets'
    BY <1>2, <2>1, <2>2, <2>3
  <2> QED BY <1>1, <2>4 DEF HInv, TableInv
<1>6. ElementsInv' /\ CallsInv'
  BY <1>1 DEF HInv, Types, ElementsInv, CallsInv
<1>7. Counted'
  BY <1>1 DEF HInv, Counted
<1>8. ASSUME NEW t \in Threads PROVE LocalInv(t, r)'
  <2>1. at'[t] = "idle" /\ call'[t] = NoCall
    BY <1>1, CallFacts DEF CallInv
  <2> QED BY <1>6, <2>1, IdleAfter
<1> QED BY <1>3, <1>4, <1>5, <1>6, <1>7, <1>8 DEF HInv

LEMMA BeginNext ==
    ASSUME Types, NEW r, HInv(r), NEW t \in Threads, NEW o \in Safe \cup Unsafe,
           NEW k \in Keys, Begin(t, o, k)
    PROVE  Types' /\ HInv(r)'
<1> DEFINE n == numberOfBuckets
           b == Hash[k] % n
           h == n \div 2
           kk == IF o \in {"iterate", "unsafe_end"} THEN NoKey ELSE k
           bb == IF o \in {"const_find", "unsafe_end"} THEN b ELSE 0
           ss == IF o \in {"const_find", "iterate"} THEN <<>>
                 ELSE IF o = "unsafe_end" THEN <<h>> ELSE <<b>>
           ff == IF o \in Found THEN OfKey(k) ELSE IF o = "iterate" THEN Elements ELSE {}
           v == [NoCall EXCEPT !.op = o, !.no = calls + 1, !.key = kk, !.bucket = bb,
                               !.chain = ss, !.before = ff]
           p == IF o = "const_find" THEN "climb" ELSE IF o = "iterate" THEN "begin" ELSE "bucket"
           cc == call'[t]
<1>1. /\ at[t] = "idle" /\ calls < MaxCalls /\ calls' = calls + 1 /\ Allowed(t, o, k)
      /\ at' = [at EXCEPT ![t] = p]
      /\ next' = next /\ segments' = segments /\ buckets' = buckets
      /\ elementCount' = elementCount /\ multimapping' = multimapping
      /\ numberOfBuckets' = numberOfBuckets
      /\ Nodes' = Nodes /\ Elements' = Elements /\ Buckets' = Buckets
  BY DEF Begin, Goto, list, table, Nodes, Elements, Buckets
<1>2. call' = [call EXCEPT ![t] = v]
  <2>1. (CASE o \in {"const_find", "iterate"} -> <<>>
           [] o = "unsafe_end" -> <<h>>
           [] OTHER            -> <<b>>) = ss
    OBVIOUS
  <2>2. (CASE o \in {"find", "const_find", "equal_range"} -> OfKey(k)
           [] o = "iterate" -> Elements
           [] OTHER         -> {}) = ff
    BY DEF Found
  <2>3. call' = [call EXCEPT ![t] = [NoCall EXCEPT
              !.op = o, !.no = calls + 1, !.key = kk, !.bucket = bb,
              !.chain = CASE o \in {"const_find", "iterate"} -> <<>>
                          [] o = "unsafe_end" -> <<h>>
                          [] OTHER            -> <<b>>,
              !.before = CASE o \in {"find", "const_find", "equal_range"} -> OfKey(k)
                           [] o = "iterate" -> Elements
                           [] OTHER         -> {}]]
    BY DEF Begin
  <2> QED BY <2>1, <2>2, <2>3
<1>3. /\ n \in Powers /\ n \in Nat /\ n > 0 /\ b \in Buckets /\ b \in Slots
      /\ Dummy(b) < Regular(Hash[k])
  <2>1. Hash[k] \in Slots /\ n \in Powers
    BY HashAssumption DEF Slots, Types
  <2>2. b \in 0..n - 1 /\ Dummy(b) < Regular(Hash[k])
    BY <2>1, KeyBehindDummy
  <2> QED BY <2>1, <2>2, BucketFacts, PowersAre DEF Buckets
<1>4. h \in Buckets /\ h \in Slots /\ h \in Nat
  <2>1. h \in 0..n - 1
    BY <1>3
  <2> QED BY <2>1, BucketFacts DEF Buckets
<1>5. ss \in Seq(Slots) /\ bb \in Slots /\ kk \in Keys \cup {NoKey} /\ ff \subseteq Elements
  <2>1. <<h>> \in Seq(Slots) /\ <<b>> \in Seq(Slots) /\ <<>> \in Seq(Slots)
    BY <1>3, <1>4
  <2>2. ff \subseteq Elements
    BY DEF OfKey
  <2> QED BY <1>3, <2>1, <2>2, DummyZero
<1>6. calls \in Nat /\ MaxCalls \in Nat /\ Elements \subseteq NodeType
  BY SizesAssumption DEF Types, Elements
<1> HIDE DEF h, b, n
<1>7. ss = <<h>> \/ ss = <<b>> \/ ss = <<>>
  OBVIOUS
<1>8. ASSUME NEW x PROVE /\ Len(<<x>>) = 1 /\ Last(<<x>>) = x /\ <<x>> # <<>> /\ Head(<<x>>) = x
                         /\ \A i \in 1..Len(<<x>>) : <<x>>[i] = x
  BY DEF Last
<1>9. /\ o \notin {"const_find", "iterate", "unsafe_end"} => ss = <<b>>
      /\ o = "unsafe_end" => ss = <<h>>
  OBVIOUS
<1> HIDE DEF ss
<1>10. v \in CallType /\ v.op = o /\ v.no = calls + 1 /\ v.key = kk /\ v.bucket = bb
       /\ v.chain = ss /\ v.iter = Null /\ v.found = {} /\ v.before = ff
  <2>1. NoCall \in CallType /\ NoCall.iter = Null /\ NoCall.found = {}
    BY DummyZero, EmptySeq DEF NoCall, CallType, Pointer
  <2>2. ff \in SUBSET NodeType /\ calls + 1 \in Nat
    BY <1>5, <1>6
  <2> HIDE DEF kk, bb, ff
  <2>3. v \in CallType
    BY <1>5, <2>1, <2>2 DEF CallType, Ops
  <2> QED BY <2>1, <2>3 DEF CallType
<1> HIDE DEF v
<1>11. /\ call' \in [Threads -> CallType] /\ cc = v
       /\ \A u \in Threads \ {t} : call'[u] = call[u]
  BY <1>2, <1>10 DEF Types
<1>12. p \in {"climb", "begin", "bucket"} /\ p \in Places
  BY DEF Places
<1>13. /\ p = "climb" <=> o = "const_find"
       /\ p = "begin" <=> o = "iterate"
       /\ p = "bucket" <=> o \notin {"const_find", "iterate"}
  OBVIOUS
<1> HIDE DEF p
<1>14. /\ at' \in [Threads -> Places] /\ at'[t] = p /\ \A u \in Threads \ {t} : at'[u] = at[u]
  BY <1>1, <1>12 DEF Types
<1>15. Types'
  BY <1>1, <1>6, <1>11, <1>14 DEF Types
<1>16. r \in [Nodes' -> Nat] /\ IsList(next', r)
  BY <1>1, ListFacts DEF HInv
<1>17. \A u \in Threads \ {t} : call[u].op \notin Unsafe
  <2> TAKE u \in Threads \ {t}
  <2>1. CASE at[u] = "idle"
    <3>1. call[u].op = "none"
      BY <2>1, CallFacts DEF CallInv
    <3> QED BY <3>1 DEF Unsafe
  <2>2. CASE at[u] # "idle"
    BY <1>1, <2>2 DEF Allowed
  <2> QED BY <2>1, <2>2
<1>18. \A u \in Threads \ {t} : LocalInv(u, r)'
  <2>1. n <= n /\ n = numberOfBuckets /\ calls <= calls'
    BY <1>1, <1>3, <1>6 DEF n
  <2>2. Grown(t, r, r)
    BY <1>1, <1>11, <1>14, <1>17, <2>1 DEF Grown
  <2> QED BY <1>15, <1>16, <2>2, OthersKeep
<1>19. TableInv'
  BY <1>1 DEF HInv, TableInv
<1>20. ElementsInv'
  BY <1>1, <1>6 DEF HInv, ElementsInv, Types, NodeType
<1>21. CallsInv'
  <2>1. SUFFICES ASSUME NEW x \in Threads, NEW y \in Threads, x # y, at'[x] # "idle", at'[y] # "idle"
                 PROVE  call'[x].no # call'[y].no /\ call'[x].op \notin Unsafe
    BY DEF CallsInv
  <2>2. \A u \in Threads \ {t} : at[u] # "idle" => call[u].no <= calls
    BY CallFacts DEF CallInv
  <2>3. CASE x = t
    <3>1. at[y] # "idle" /\ call'[y] = call[y] /\ o \notin Unsafe
      BY <1>1, <1>11, <1>14, <2>1, <2>3 DEF Allowed, Alone
    <3>2. call[y].no <= calls
      BY <2>1, <2>2, <2>3, <3>1
    <3>3. call[y].no \in Nat
      BY CallFacts
    <3> QED BY <1>6, <1>10, <1>11, <2>3, <3>1, <3>2, <3>3
  <2>4. CASE y = t
    <3>1. at[x] # "idle" /\ call'[x] = call[x]
      BY <1>11, <1>14, <2>1, <2>4
    <3>2. call[x].no <= calls /\ call[x].op \notin Unsafe
      BY <1>17, <2>1, <2>2, <2>4, <3>1
    <3>3. call[x].no \in Nat
      BY CallFacts
    <3> QED BY <1>6, <1>10, <1>11, <2>4, <3>1, <3>2, <3>3
  <2>5. CASE x # t /\ y # t
    BY <1>11, <1>14, <2>1, <2>5 DEF HInv, CallsInv
  <2> QED BY <2>3, <2>4, <2>5
<1>22. Counted'
  <2>1. {u \in Threads : at'[u] = "count"} = {u \in Threads : at[u] = "count"}
    BY <1>1, <1>12, <1>14
  <2> QED BY <1>1, <2>1 DEF HInv, Counted
<1>23. CallInv(t)'
  <2>1. \A e \in Elements : e.no # v.no
    BY <1>6, <1>10 DEF HInv, ElementsInv, NodeType
  <2>2. v.no \in 1..MaxCalls /\ v.no <= calls'
    BY <1>1, <1>6, <1>10
  <2>3. o \in Keyed => kk \in Keys /\ kk = k
    BY DEF Keyed, Ops
  <2>4. o \in Found => ff = OfKey(k) /\ kk = k
    BY DEF Found
  <2>5. o \notin Found \cup {"iterate"} => ff = {}
    OBVIOUS
  <2>6. \A e \in OfKey(k) : e.val = k
    BY DEF OfKey
  <2>7. o # "none"
    BY DEF Safe, Unsafe
  <2> HIDE DEF ff, kk, cc
  <2>8. cc = call'[t]
    BY DEF cc
  <2> QED BY <1>1, <1>5, <1>10, <1>11, <1>12, <1>13, <1>14, <2>1, <2>2, <2>3, <2>4, <2>5, <2>6, <2>7, <2>8
       DEF CallInv, Making, Linked
<1>24. ChainInv(t)'
  <2>1. o \in Keyed => Order(t)' = Regular(Hash[k])
    BY <1>10, <1>11 DEF Order, Keyed, Ops
  <2>2. o \in Keyed /\ o # "const_find" => ss = <<b>>
    BY <1>9 DEF Keyed
  <2>3. o \in {"const_find", "unsafe_end"} => bb = b
    OBVIOUS
  <2>4. o = "const_find" => o \in Keyed
    BY DEF Keyed, Ops, Safe
  <2>5. \A d \in h..h - 1 : FALSE
    BY <1>4
  <2>6. h >= h /\ h = numberOfBuckets \div 2
    BY <1>4 DEF h, n
  <2>7. o \notin {"const_find", "iterate"} => \E x \in Buckets : ss = <<x>>
    BY <1>3, <1>4, <1>9
  <2>8. cc = call'[t]
    OBVIOUS
  <2> HIDE DEF bb, cc
  <2>9. p = "climb" => v.bucket \in Buckets /\ Dummy(v.bucket) < Order(t)'
    BY <1>3, <1>10, <1>13, <2>1, <2>3, <2>4
  <2>10. p \notin {"dummy", "set", "allocate", "write"}
    BY <1>12
  <2>11. ASSUME p = "bucket"
         PROVE  /\ ss # <<>>
                /\ \A i \in 1..Len(ss) : ss[i] \in Buckets
                /\ \A i \in 1..Len(ss) - 1 : ss[i + 1] > 0 /\ ss[i] = Parent(ss[i + 1])
                /\ o \in Keyed => Dummy(Last(ss)) < Order(t)'
                /\ o = "unsafe_end" =>
                     /\ bb \in Buckets /\ Last(ss) >= numberOfBuckets \div 2
                     /\ \A d \in numberOfBuckets \div 2..Last(ss) - 1 : buckets[d] # Null
    <3>1. PICK x \in Buckets : ss = <<x>>
      BY <1>13, <2>7, <2>11
    <3>2. Len(ss) = 1 /\ Last(ss) = x /\ ss # <<>> /\ \A i \in 1..Len(ss) : ss[i] = x
      BY <1>8, <3>1
    <3>3. o \in Keyed => x = b
      BY <1>13, <2>2, <2>11, <3>1
    <3>4. o = "unsafe_end" => x = h
      BY <1>9, <3>1
    <3>5. o \in Keyed => Dummy(Last(ss)) < Order(t)'
      BY <1>3, <2>1, <3>2, <3>3
    <3>6. o = "unsafe_end" =>
                     /\ bb \in Buckets /\ Last(ss) >= numberOfBuckets \div 2
                     /\ \A d \in numberOfBuckets \div 2..Last(ss) - 1 : buckets[d] # Null
      BY <1>3, <2>3, <2>5, <2>6, <3>2, <3>4
    <3>7. \A i \in 1..Len(ss) - 1 : FALSE
      BY <3>2
    <3> QED BY <3>2, <3>5, <3>6, <3>7
  <2> QED BY <1>1, <1>10, <1>11, <1>12, <1>14, <2>8, <2>9, <2>10, <2>11 DEF ChainInv, Making
<1>25. SearchInv(t, r)' /\ ReturnInv(t)'
  BY <1>12, <1>14 DEF SearchInv, ReturnInv
<1> QED BY <1>15, <1>16, <1>18, <1>19, <1>20, <1>21, <1>22, <1>23, <1>24, <1>25 DEF HInv, LocalInv

-----------------------------------------------------------------------------
LEMMA StepNext ==
    ASSUME Types, NEW r, HInv(r), NEW t \in Threads, Step(t)
    PROVE  Types' /\ \E q \in [Nodes' -> Nat] : HInv(q)'
<1>1. ASSUME Types', HInv(r)' PROVE \E q \in [Nodes' -> Nat] : HInv(q)'
  <2>1. r \in [Nodes' -> Nat]
    BY <1>1 DEF HInv, IsList, Nodes
  <2> QED BY <1>1, <2>1
<1>2. CASE Climb(t)
  BY <1>1, <1>2, ClimbNext
<1>3. CASE BeginIteration(t)
  BY <1>1, <1>3, BeginIterationNext
<1>4. CASE ClimbChain(t)
  BY <1>1, <1>4, ClimbChainNext
<1>5. CASE BucketReady(t)
  BY <1>1, <1>5, BucketReadyNext
<1>6. CASE UnsafeEnd(t)
  BY <1>1, <1>6, UnsafeEndNext
<1>7. CASE InsertDummy(t)
  BY <1>7, InsertDummyNext
<1>8. CASE TestSegment(t)
  BY <1>1, <1>8, TestSegmentNext
<1>9. CASE AllocateSegment(t)
  BY <1>1, <1>9, AllocateSegmentNext
<1>10. CASE WriteBucket(t)
  BY <1>1, <1>10, WriteBucketNext
<1>11. CASE Insert(t)
  BY <1>11, InsertNext
<1>12. CASE CountElement(t)
  BY <1>1, <1>12, CountElementNext
<1>13. CASE TestLoad(t)
  BY <1>1, <1>13, TestLoadNext
<1>14. CASE Grow(t)
  BY <1>1, <1>14, GrowNext
<1>15. CASE Walk(t)
  BY <1>1, <1>15, WalkNext
<1>16. CASE Erase(t)
  BY <1>16, EraseNext
<1>17. CASE EndSearch(t)
  BY <1>1, <1>17, EndSearchNext
<1>18. CASE Return(t)
  BY <1>1, <1>18, ReturnNext
<1> QED BY <1>2, <1>3, <1>4, <1>5, <1>6, <1>7, <1>8, <1>9, <1>10, <1>11, <1>12, <1>13, <1>14,
           <1>15, <1>16, <1>17, <1>18 DEF Step

LEMMA SameStep ==
    ASSUME Types, NEW r, HInv(r), UNCHANGED hashVars
    PROVE  Types' /\ HInv(r)'
<1>1. /\ UNCHANGED <<list, table, multimapping, calls>> /\ at' = at /\ call' = call
      /\ \A t \in Threads : Order(t)' = Order(t)
  BY DEF hashVars, Order
<1>2. Types'
  BY <1>1, SameState DEF Types
<1>3. IsList(next', r) /\ TableInv' /\ ElementsInv' /\ CallsInv' /\ Counted'
  BY <1>1, SameState DEF HInv, TableInv, ElementsInv, CallsInv, Counted
<1>4. ASSUME NEW t \in Threads PROVE LocalInv(t, r)'
  <2>1. CallInv(t)'
    BY <1>1, SameState, CallFacts DEF CallInv
  <2>2. ChainInv(t)'
    BY <1>1, SameState, CallFacts DEF ChainInv
  <2>3. SearchInv(t, r)'
    BY <1>1, SameState, CallFacts DEF SearchInv, Ahead
  <2>4. ReturnInv(t)'
    BY <1>1, SameState, CallFacts DEF ReturnInv
  <2> QED BY <2>1, <2>2, <2>3, <2>4 DEF LocalInv
<1> QED BY <1>2, <1>3, <1>4 DEF HInv

LEMMA IInvNext ==
    ASSUME IInv, [HashNext]_hashVars
    PROVE  IInv'
<1>1. Types
  BY DEF IInv
<1>2. PICK r \in [Nodes -> Nat] : HInv(r)
  BY DEF IInv
<1>3. ASSUME Types', HInv(r)' PROVE IInv'
  <2>1. r \in [Nodes' -> Nat]
    BY <1>3 DEF HInv, IsList, Nodes
  <2> QED BY <1>3, <2>1 DEF IInv
<1>4. CASE UNCHANGED hashVars
  BY <1>1, <1>2, <1>3, <1>4, SameStep
<1>5. ASSUME NEW t \in Threads, NEW o \in Safe \cup Unsafe, NEW k \in Keys, Begin(t, o, k)
      PROVE  IInv'
  BY <1>1, <1>2, <1>3, <1>5, BeginNext
<1>6. ASSUME NEW t \in Threads, Step(t) PROVE IInv'
  BY <1>1, <1>2, <1>6, StepNext DEF IInv
<1>7. CASE Clear
  BY <1>1, <1>2, <1>7, ClearNext DEF IInv
<1>8. ASSUME NEW n \in 1..2^(Bits - 1), Rehash(n) PROVE IInv'
  BY <1>1, <1>2, <1>8, RehashNext DEF IInv
<1> QED BY <1>4, <1>5, <1>6, <1>7, <1>8 DEF HashNext

LEMMA IInvAlways == HashSpec => []IInv
<1>1. IInv /\ [HashNext]_hashVars => IInv'
  BY IInvNext
<1> QED BY <1>1, InitNext, PTL DEF HashSpec

-----------------------------------------------------------------------------
(* The list is in the order of its keys, one list of one predecessor each; *)
(* the buckets point to their dummy nodes; and size() counts the elements  *)
(* but for those just put in: _Check_range of the container, however many  *)
(* threads insert and make buckets at once.                                *)
THEOREM AlwaysWellFormed == HashSpec => []WellFormed
<1>1. ASSUME IInv PROVE WellFormed
  <2>1. Types
    BY <1>1 DEF IInv
  <2>2. PICK r \in [Nodes -> Nat] : HInv(r)
    BY <1>1 DEF IInv
  <2>3. /\ MyhHead \in Nodes /\ r[MyhHead] = 0
        /\ \A m \in Nodes : next[m] # Null => next[m] \in Nodes /\ r[next[m]] = r[m] + 1
        /\ \A m \in Nodes : next[m] = Null => \A n \in Nodes : r[n] <= r[m]
        /\ \A m, n \in Nodes : r[m] = r[n] => m = n
        /\ \A n \in Nodes : r[n] # 0 => \E m \in Nodes : r[n] = r[m] + 1
        /\ \A m, n \in Nodes : r[m] < r[n] =>
               m.order <= n.order /\ (IsDummy(n) => m.order < n.order)
    BY <2>2 DEF HInv, IsList, Nodes
  <2>4. SlotsAreDummies
    <3>1. \A t \in Threads : call[t].iter \in Nodes \cup {Null}
      BY <2>1, <2>2, CallFacts DEF CallInv
    <3>2. numberOfBuckets \in 1..2^(Bits - 1)
      <4>1. numberOfBuckets \in Powers
        BY <2>1 DEF Types
      <4>2. /\ numberOfBuckets \in Nat /\ numberOfBuckets > 0
            /\ numberOfBuckets <= 2^(Bits - 1) /\ 2^(Bits - 1) \in Nat
        BY <4>1, PowersAre
      <4> QED BY <4>2
    <3>3. \A b \in Slots : buckets[b] # Null =>
                         /\ buckets[b] \in Nodes /\ IsDummy(buckets[b])
                         /\ buckets[b].order = Dummy(b) /\ SegmentOf(b) \in segments
      BY <2>2 DEF HInv, TableInv
    <3> QED BY <2>1, <2>3, <3>1, <3>2, <3>3 DEF SlotsAreDummies, Types
  <2>5. SortedList
    <3> SUFFICES ASSUME NEW n \in Nodes
                 PROVE  /\ next[n] # Null => n.order <= next[n].order
                        /\ next[n] # Null /\ IsDummy(next[n]) => n.order < next[n].order
                        /\ n # MyhHead => Cardinality({m \in Nodes : next[m] = n}) = 1
      BY DEF SortedList
    <3>1. next[n] # Null => r[n] < r[next[n]] /\ next[n] \in Nodes
      BY <2>3
    <3>2. ASSUME n # MyhHead PROVE Cardinality({m \in Nodes : next[m] = n}) = 1
      <4>1. r[n] # 0
        BY <2>3, <3>2
      <4>2. PICK m \in Nodes : r[n] = r[m] + 1
        BY <2>3, <4>1
      <4>3. next[m] = n
        BY <2>3, <4>2
      <4>4. \A k \in Nodes : next[k] = n => k = m
        BY <2>1, <2>3, <4>2, NodeFacts
      <4>5. {k \in Nodes : next[k] = n} = {m}
        BY <4>3, <4>4
      <4> QED BY <4>5, FS_Singleton
    <3> QED BY <2>3, <3>1, <3>2
  <2> QED BY <2>2, <2>4, <2>5 DEF WellFormed, HInv
<1> QED BY <1>1, IInvAlways, PTL

(* A search that began when an element was there finds it, whatever is     *)
(* inserted and however often the table grows meanwhile; a walk meets all  *)
(* that was there; a bucket holds the elements of its number; and what was *)
(* erased is gone.                                                         *)
THEOREM AlwaysFinds == HashSpec => []FindsWhatIsThere
<1>1. ASSUME IInv PROVE FindsWhatIsThere
  <2>1. PICK r \in [Nodes -> Nat] : HInv(r)
    BY <1>1 DEF IInv
  <2>2. \A t \in Threads : ReturnInv(t)
    BY <2>1 DEF HInv, LocalInv
  <2> QED BY <2>2 DEF ReturnInv, FindsWhatIsThere
<1> QED BY <1>1, IInvAlways, PTL

LEMMA ElementsStep ==
    ASSUME IInv, IInv', [HashNext]_hashVars
    PROVE  Abstract!Next \/ UNCHANGED <<Elements, multimapping>>
<1> DEFINE Same == UNCHANGED <<Elements, multimapping>>
<1>1. Types /\ Types' /\ multimapping' = multimapping
  <2>1. ASSUME NEW t \in Threads, Step(t) PROVE multimapping' = multimapping
    BY <2>1 DEF Step, Climb, BeginIteration, ClimbChain, BucketReady, UnsafeEnd,
         InsertDummy, TestSegment, AllocateSegment, WriteBucket, Insert, CountElement,
         TestLoad, Grow, Walk, Erase, EndSearch, Return
  <2>2. ASSUME NEW t, NEW o, NEW k, Begin(t, o, k) PROVE multimapping' = multimapping
    BY <2>2 DEF Begin
  <2>3. Clear => multimapping' = multimapping
    BY DEF Clear
  <2>4. \A n : Rehash(n) => multimapping' = multimapping
    BY DEF Rehash
  <2>5. UNCHANGED hashVars => multimapping' = multimapping
    BY DEF hashVars
  <2>6. multimapping' = multimapping
    BY <2>1, <2>2, <2>3, <2>4, <2>5 DEF HashNext
  <2>7. Types /\ Types'
    <3>1. IInv => Types
      BY DEF IInv
    <3>2. IInv' => Types'
      BY DEF IInv
    <3> QED BY <3>1, <3>2
  <2> QED BY <2>6, <2>7, Zenon
<1>2. PICK r \in [Nodes -> Nat] : HInv(r)
  BY DEF IInv
<1>3. ElementsInv' /\ ElementsInv
  BY DEF IInv, HInv
<1>4. ASSUME next' = next PROVE Same
  BY <1>1, <1>4 DEF Elements, Nodes
<1>5. ASSUME NEW n, Nodes' = Nodes \cup {n}, n \notin Elements PROVE Abstract!Next \/ Same
  <2>1. CASE IsDummy(n)
    <3>1. Elements' = Elements
      BY <1>5, <2>1 DEF Elements
    <3> QED BY <1>1, <3>1
  <2>2. CASE ~IsDummy(n)
    <3>1. Elements' = Elements \cup {n}
      BY <1>5, <2>2 DEF Elements
    <3>2. n \in NodeType /\ n.val \in Keys /\ n.order = Regular(Hash[n.val]) /\ n.no \in 1..MaxCalls
      BY <1>1, <1>3, <3>1 DEF ElementsInv, Types, Elements
    <3>3. n \in [order : {Regular(Hash[k]) : k \in Keys}, val : Keys, no : 1..MaxCalls]
      BY <3>2 DEF NodeType
    <3>4. multimapping \/ \A f \in Elements : f.val # n.val
      BY <1>1, <1>3, <1>5, <3>1 DEF ElementsInv
    <3>5. Abstract!Insert(n)
      BY <1>1, <3>1, <3>4 DEF Abstract!Insert
    <3> QED BY <3>3, <3>5 DEF Abstract!Next
  <2> QED BY <2>1, <2>2
<1>6. ASSUME NEW t \in Threads, InsertDummy(t) PROVE Abstract!Next \/ Same
  <2>1. CASE next' = next
    BY <1>4, <2>1
  <2>2. CASE Link(t, Node(Dummy(Head(call[t].chain)), NoKey, t))
    <3> DEFINE d == Node(Dummy(Head(call[t].chain)), NoKey, t)
    <3>1. Nodes' = Nodes \cup {d}
      BY <2>2 DEF Link, Nodes
    <3>2. d.order = Dummy(Head(call[t].chain)) /\ Head(call[t].chain) \in Buckets
      BY <1>1, <1>2, <1>6, ChainFacts DEF Node, Making, InsertDummy
    <3>3. IsDummy(d)
      BY <1>1, <1>2, <3>2, BucketFacts DEF IsDummy
    <3>4. d \notin Elements
      BY <3>3 DEF Elements
    <3> QED BY <1>5, <3>1, <3>4
  <2> QED BY <1>6, <2>1, <2>2 DEF InsertDummy
<1>7. ASSUME NEW t \in Threads, Insert(t) PROVE Abstract!Next \/ Same
  <2>1. CASE next' = next
    BY <1>4, <2>1
  <2>2. CASE Link(t, Node(Order(t), call[t].key, t))
    <3> DEFINE n == Node(Order(t), call[t].key, t)
    <3>1. Nodes' = Nodes \cup {n}
      BY <2>2 DEF Link, Nodes
    <3>2. n.no = call[t].no
      BY DEF Node
    <3>3. n \notin Elements
      BY <1>1, <1>2, <1>7, <3>2, CallFacts DEF CallInv, Linked, Insert
    <3> QED BY <1>5, <3>1, <3>3
  <2> QED BY <1>7, <2>1, <2>2 DEF Insert
<1>8. ASSUME NEW t \in Threads, Erase(t) PROVE Abstract!Next \/ Same
  <2> DEFINE w == call[t].where
  <2>1. CASE ~Is(t, w)
    BY <1>4, <1>8, <2>1 DEF Erase, list
  <2>2. CASE Is(t, w)
    <3>1. Unlink(t, w)
      BY <1>8, <2>2 DEF Erase
    <3>2. Nodes' = Nodes \ {w}
      BY <3>1 DEF Unlink, Nodes
    <3>3. Elements' = Elements \ {w}
      BY <3>2 DEF Elements
    <3>4. CASE w \in Elements
      <4>1. Abstract!Remove({w})
        BY <1>1, <3>3, <3>4 DEF Abstract!Remove
      <4> QED BY <3>4, <4>1 DEF Abstract!Next
    <3>5. CASE w \notin Elements
      BY <1>1, <3>3, <3>5
    <3> QED BY <3>4, <3>5
  <2> QED BY <2>1, <2>2
<1>9. CASE Clear
  <2>1. Elements' = {}
    <3>1. Nodes' = {MyhHead}
      BY <1>9 DEF Clear, Nodes
    <3> QED BY <3>1, FreshList DEF Elements
  <2>2. CASE Elements = {}
    BY <1>1, <2>1, <2>2
  <2>3. CASE Elements # {}
    <3>1. Abstract!Remove(Elements)
      BY <1>1, <2>1, <2>3 DEF Abstract!Remove
    <3> QED BY <3>1 DEF Abstract!Next
  <2> QED BY <2>2, <2>3
<1>10. ASSUME NEW t \in Threads, Step(t) PROVE Abstract!Next \/ Same
  <2>1. next' = next \/ InsertDummy(t) \/ Insert(t) \/ Erase(t)
    BY <1>10 DEF Step, Climb, BeginIteration, ClimbChain, BucketReady, UnsafeEnd, TestSegment,
         AllocateSegment, WriteBucket, CountElement, TestLoad, Grow, Walk, EndSearch, Return, list
  <2> QED BY <1>4, <1>6, <1>7, <1>8, <2>1
<1>11. ASSUME NEW t \in Threads, NEW o, NEW k, Begin(t, o, k) PROVE Same
  BY <1>4, <1>11 DEF Begin, list
<1>12. ASSUME NEW n, Rehash(n) PROVE Same
  BY <1>4, <1>12 DEF Rehash, list
<1>13. CASE UNCHANGED hashVars
  BY <1>4, <1>13 DEF hashVars, list
<1>14. ASSUME HashNext PROVE Abstract!Next \/ Same
  <2>1. CASE Clear
    BY <1>9, <2>1
  <2>2. CASE \E n \in 1..2^(Bits - 1) : Rehash(n)
    BY <1>12, <2>2
  <2>3. CASE \E t \in Threads : \E o \in Safe \cup Unsafe, k \in Keys : Begin(t, o, k)
    BY <1>11, <2>3
  <2>4. CASE \E t \in Threads : Step(t)
    BY <1>10, <2>4
  <2> QED BY <1>14, <2>1, <2>2, <2>3, <2>4 DEF HashNext
<1> QED BY <1>13, <1>14

(* The container is a set with unique keys, or a bag, whose insertions are *)
(* atomic: each takes effect when its node goes into the list, and of the  *)
(* threads that insert one key at once into a map one succeeds.            *)
THEOREM HashImplementsSet == HashSpec => ImplementsSet
<1>1. HashInit => Abstract!Init
  <2>1. ASSUME HashInit PROVE Elements = {}
    <3>1. Nodes = {MyhHead}
      BY <2>1 DEF HashInit, Nodes
    <3> QED BY <3>1, FreshList DEF Elements
  <2> QED BY <2>1 DEF HashInit, Abstract!Init
<1>2. IInv /\ IInv' /\ [HashNext]_hashVars => [Abstract!Next]_(Abstract!vars)
  BY ElementsStep DEF Abstract!vars
<1> QED BY <1>1, <1>2, IInvAlways, PTL DEF HashSpec, ImplementsSet, Abstract!Spec
=============================================================================

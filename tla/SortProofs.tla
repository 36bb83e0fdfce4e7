----------------------------- MODULE SortProofs -----------------------------
(***************************************************************************)
(* Proofs about the sorts of PplAlgorithms, for any calls, any inputs and  *)
(* any values of its constants.                                            *)
(***************************************************************************)
EXTENDS PplProofs

-----------------------------------------------------------------------------
(* Parts of an array: what the sorts read from it and put back.            *)

InArray(a, base, size) == base \in Nat /\ size \in Nat /\ base >= 1 /\ base + size <= Len(a) + 1

(* The places of a part.                                                   *)
LEMMA PartIs ==
    ASSUME NEW S, NEW a \in Seq(S), NEW base \in Nat, NEW size \in Nat, InArray(a, base, size)
    PROVE  /\ Part(a, base, size) \in Seq(S) /\ Len(Part(a, base, size)) = size
           /\ \A i \in 1..size : Part(a, base, size)[i] = a[base + i - 1]
<1> DEFINE l == Len(a)
           p == Part(a, base, size)
<1>1. a \in [1..l -> S] /\ l \in Nat /\ base >= 1 /\ base + size <= l + 1
  BY DEF InArray
<1>2. p = [i \in 1..size |-> a[base + i - 1]]
  <2>1. p = [i \in 1..(base + size - 1) - base + 1 |-> a[base + i - 1]]
    BY <1>1 DEF Part
  <2>2. (base + size - 1) - base + 1 = size
    OBVIOUS
  <2> QED BY <2>1, <2>2
<1> HIDE DEF p, l
<1>3. \A i \in 1..size : a[base + i - 1] \in S
  <2> TAKE i \in 1..size
  <2>1. base + i - 1 \in 1..l
    BY <1>1
  <2> QED BY <1>1, <2>1
<1>4. p \in [1..size -> S]
  BY <1>2, <1>3
<1>5. p \in Seq(S) /\ Len(p) = size
  BY <1>4
<1>6. \A i \in 1..size : p[i] = a[base + i - 1]
  BY <1>2
<1> QED BY <1>5, <1>6 DEF p

(* The places of a concatenation, of any elements.                         *)
LEMMA JoinedIs ==
    ASSUME NEW S, NEW r \in Seq(S), NEW s \in Seq(S)
    PROVE  /\ r \o s \in Seq(S) /\ Len(r \o s) = Len(r) + Len(s) /\ Len(r) \in Nat /\ Len(s) \in Nat
           /\ \A i \in 1..Len(r) : (r \o s)[i] = r[i]
           /\ \A i \in 1..Len(s) : (r \o s)[Len(r) + i] = s[i]
<1>1. Len(r) \in Nat /\ Len(s) \in Nat /\ r \o s \in Seq(S) /\ Len(r \o s) = Len(r) + Len(s)
  OBVIOUS
<1>3. \A i \in 1..Len(r) : (r \o s)[i] = r[i]
  OBVIOUS
<1>4. \A i \in 1..Len(s) : (r \o s)[Len(r) + i] = s[i]
  <2> TAKE i \in 1..Len(s)
  <2>1. Len(r) + i \in 1..Len(r) + Len(s) /\ Len(r) + i > Len(r) /\ (Len(r) + i) - Len(r) = i
    BY <1>1
  <2> QED BY <1>1, <2>1
<1> QED BY <1>1, <1>3, <1>4

(* Sequences with the same elements in the same places are equal, of any   *)
(* elements.                                                               *)
LEMMA EqualSequences ==
    ASSUME NEW S, NEW r \in Seq(S), NEW s \in Seq(S), NEW n \in Nat, Len(r) = n, Len(s) = n,
           \A i \in 1..n : r[i] = s[i]
    PROVE  r = s
<1>1. r \in [1..n -> S] /\ s \in [1..n -> S]
  OBVIOUS
<1> QED BY <1>1

(* The places of an array with s put at base.                              *)
LEMMA PutIs ==
    ASSUME NEW S, NEW a \in Seq(S), NEW base \in Nat, NEW s \in Seq(S), InArray(a, base, Len(s))
    PROVE  /\ Put(a, base, s) \in Seq(S) /\ Len(Put(a, base, s)) = Len(a)
           /\ \A i \in 1..Len(a) :
                 Put(a, base, s)[i] = IF base <= i /\ i < base + Len(s) THEN s[i - base + 1] ELSE a[i]
<1> DEFINE l == Len(a)
           n == Len(s)
           h == SubSeq(a, 1, base - 1)
           z == SubSeq(a, base + n, l)
           k == base - 1
           j == l - (k + n)
<1>1. l \in Nat /\ n \in Nat /\ k \in Nat /\ j \in Nat /\ a \in [1..l -> S] /\ base = k + 1 /\ k + n + j = l
  BY DEF InArray
<1>2. h \in Seq(S) /\ Len(h) = k /\ \A i \in 1..k : h[i] = a[i]
  <2>1. h = [i \in 1..(base - 1) - 1 + 1 |-> a[1 + i - 1]]
    BY <1>1
  <2>2. (base - 1) - 1 + 1 = k /\ \A i \in 1..k : 1 + i - 1 = i /\ i \in 1..l
    BY <1>1
  <2> HIDE DEF h, k, l
  <2>3. h = [i \in 1..k |-> a[i]]
    BY <2>1, <2>2
  <2>4. h \in [1..k -> S]
    BY <1>1, <2>2, <2>3
  <2>5. h \in Seq(S) /\ Len(h) = k
    BY <1>1, <2>4
  <2> QED BY <2>3, <2>5
<1>3. z \in Seq(S) /\ Len(z) = j /\ \A i \in 1..j : z[i] = a[k + n + i]
  <2>1. z = [i \in 1..l - (base + n) + 1 |-> a[base + n + i - 1]]
    BY <1>1
  <2>2. l - (base + n) + 1 = j /\ \A i \in 1..j : base + n + i - 1 = k + n + i /\ k + n + i \in 1..l
    BY <1>1
  <2> HIDE DEF z, k, l, n, j
  <2>3. z = [i \in 1..j |-> a[k + n + i]]
    BY <2>1, <2>2
  <2>4. z \in [1..j -> S]
    BY <1>1, <2>2, <2>3
  <2>5. z \in Seq(S) /\ Len(z) = j
    BY <1>1, <2>4
  <2> QED BY <2>3, <2>5
<1>4. Put(a, base, s) = (h \o s) \o z
  BY DEF Put
<1> DEFINE hs == h \o s
           r == hs \o z
<1> HIDE DEF h, z, j, k, l, n
<1>5. hs \in Seq(S) /\ Len(hs) = k + n /\ (\A i \in 1..k : hs[i] = h[i])
      /\ \A i \in 1..n : hs[k + i] = s[i]
  <2>1. /\ hs \in Seq(S) /\ Len(hs) = Len(h) + Len(s)
        /\ \A i \in 1..Len(h) : hs[i] = h[i]
        /\ \A i \in 1..Len(s) : hs[Len(h) + i] = s[i]
    <3>1. h \in Seq(S)
      BY <1>2
    <3> QED BY <3>1, JoinedIs
  <2> QED BY <1>2, <2>1 DEF n
<1> HIDE DEF hs
<1>6. r \in Seq(S) /\ Len(r) = (k + n) + j /\ (\A i \in 1..k + n : r[i] = hs[i])
      /\ \A i \in 1..j : r[(k + n) + i] = z[i]
  <2>1. /\ r \in Seq(S) /\ Len(r) = Len(hs) + Len(z)
        /\ \A i \in 1..Len(hs) : r[i] = hs[i]
        /\ \A i \in 1..Len(z) : r[Len(hs) + i] = z[i]
    <3>1. hs \in Seq(S) /\ z \in Seq(S)
      BY <1>3, <1>5
    <3> QED BY <3>1, JoinedIs
  <2> QED BY <1>3, <1>5, <2>1
<1> HIDE DEF r
<1>7. ASSUME NEW i \in 1..l
      PROVE  r[i] = IF base <= i /\ i < base + n THEN s[i - base + 1] ELSE a[i]
  <2>1. CASE i <= k
    <3>1. i \in 1..k /\ i \in 1..k + n /\ ~(base <= i)
      BY <1>1, <2>1
    <3> QED BY <1>2, <1>5, <1>6, <3>1
  <2>2. CASE base <= i /\ i < base + n
    <3> DEFINE q == i - base + 1
    <3>1. q \in 1..n /\ k + q = i /\ i \in 1..k + n
      BY <1>1, <2>2
    <3> HIDE DEF q
    <3>2. r[i] = hs[k + q] /\ hs[k + q] = s[q]
      BY <1>5, <1>6, <3>1
    <3> QED BY <2>2, <3>2 DEF q
  <2>3. CASE i >= base + n
    <3> DEFINE q == i - (k + n)
    <3>1. q \in 1..j /\ (k + n) + q = i /\ k + n + q = i /\ ~(i < base + n)
      BY <1>1, <2>3
    <3> HIDE DEF q
    <3>2. r[i] = z[q] /\ z[q] = a[i]
      BY <1>3, <1>6, <3>1
    <3> QED BY <3>1, <3>2
  <2> QED BY <1>1, <2>1, <2>2, <2>3
<1>8. Len(r) = l
  BY <1>1, <1>6
<1>9. r \in Seq(S)
  BY <1>6
<1>10. Put(a, base, s) = r
  BY <1>4 DEF r, hs
<1> QED BY <1>7, <1>8, <1>9, <1>10 DEF l, n

(* Two parts that meet are one.                                            *)
LEMMA PartJoin ==
    ASSUME NEW S, NEW a \in Seq(S), NEW base \in Nat, NEW m \in Nat, NEW n \in Nat, base >= 1,
           base + m + n <= Len(a) + 1
    PROVE  Part(a, base, m) \o Part(a, base + m, n) = Part(a, base, m + n)
<1> DEFINE p == Part(a, base, m)
           c == base + m
           q == Part(a, c, n)
           u == m + n
           w == Part(a, base, u)
           r == p \o q
<1>1. c \in Nat /\ u \in Nat /\ Len(a) \in Nat
  OBVIOUS
<1>2. InArray(a, base, m) /\ InArray(a, c, n) /\ InArray(a, base, u)
  BY <1>1 DEF InArray
<1>3. p \in Seq(S) /\ Len(p) = m /\ \A i \in 1..m : p[i] = a[base + i - 1]
  BY <1>2, PartIs
<1>4. w \in Seq(S) /\ Len(w) = u /\ \A i \in 1..u : w[i] = a[base + i - 1]
  <2> HIDE DEF u
  <2> QED BY <1>1, <1>2, PartIs
<1>5. q \in Seq(S) /\ Len(q) = n /\ \A i \in 1..n : q[i] = a[c + i - 1]
  <2> HIDE DEF c
  <2> QED BY <1>1, <1>2, PartIs
<1> HIDE DEF p, q, w
<1>6. r \in Seq(S) /\ Len(r) = m + n /\ (\A i \in 1..m : r[i] = p[i]) /\ \A i \in 1..n : r[m + i] = q[i]
  <2>1. /\ r \in Seq(S) /\ Len(r) = Len(p) + Len(q)
        /\ \A i \in 1..Len(p) : r[i] = p[i]
        /\ \A i \in 1..Len(q) : r[Len(p) + i] = q[i]
    <3>1. p \in Seq(S) /\ q \in Seq(S)
      BY <1>3, <1>5
    <3> QED BY <3>1, JoinedIs
  <2> QED BY <1>3, <1>5, <2>1
<1> HIDE DEF r
<1>7. ASSUME NEW i \in 1..u PROVE r[i] = w[i]
  <2>1. CASE i <= m
    <3>1. i \in 1..m
      BY <1>1, <2>1
    <3> QED BY <1>3, <1>4, <1>6, <3>1
  <2>2. CASE ~(i <= m)
    <3> DEFINE k == i - m
    <3>1. k \in 1..n /\ m + k = i /\ c + k - 1 = base + i - 1
      BY <1>1, <2>2
    <3> HIDE DEF k, c
    <3>2. r[i] = q[k] /\ q[k] = a[c + k - 1]
      BY <1>5, <1>6, <3>1
    <3> QED BY <1>4, <3>1, <3>2
  <2> QED BY <2>1, <2>2
<1>8. r = w
  BY <1>1, <1>4, <1>6, <1>7, EqualSequences
<1> QED BY <1>8 DEF r, p, q, w

(* The range of a in which an operation works is all that it changes.      *)
SameOutside(a, b, base, size) ==
    \A i \in 1..Len(a) : ~(base <= i /\ i < base + size) => b[i] = a[i]

(* What is put is the part that is read back.                              *)
LEMMA PutParts ==
    ASSUME NEW S, NEW a \in Seq(S), NEW base \in Nat, NEW s \in Seq(S), InArray(a, base, Len(s))
    PROVE  /\ Part(Put(a, base, s), base, Len(s)) = s
           /\ SameOutside(a, Put(a, base, s), base, Len(s))
<1> DEFINE n == Len(s)
           b == Put(a, base, s)
           p == Part(b, base, n)
<1>1. n \in Nat /\ InArray(a, base, n) /\ Len(a) \in Nat /\ base >= 1 /\ base + n <= Len(a) + 1
  BY DEF InArray
<1>2. b \in Seq(S) /\ Len(b) = Len(a)
      /\ \A i \in 1..Len(a) : b[i] = IF base <= i /\ i < base + n THEN s[i - base + 1] ELSE a[i]
  BY PutIs
<1> HIDE DEF b, n
<1>3. InArray(b, base, n)
  BY <1>1, <1>2 DEF InArray
<1>4. p \in Seq(S) /\ Len(p) = n /\ \A i \in 1..n : p[i] = b[base + i - 1]
  BY <1>1, <1>2, <1>3, PartIs
<1> HIDE DEF p
<1>5. ASSUME NEW i \in 1..n PROVE p[i] = s[i]
  <2> DEFINE k == base + i - 1
  <2>1. k \in 1..Len(a) /\ base <= k /\ k < base + n /\ k - base + 1 = i
    BY <1>1
  <2> HIDE DEF k
  <2>2. b[k] = s[k - base + 1]
    BY <1>2, <2>1
  <2> QED BY <1>4, <2>1, <2>2 DEF k
<1>6. p = s
  BY <1>1, <1>4, <1>5, EqualSequences DEF n
<1>7. SameOutside(a, b, base, n)
  BY <1>2 DEF SameOutside
<1> QED BY <1>6, <1>7 DEF b, n, p

(* What lies outside is not changed, part by part.                         *)
LEMMA PartOutside ==
    ASSUME NEW S, NEW a \in Seq(S), NEW b \in Seq(S), Len(b) = Len(a), NEW base \in Nat, NEW size \in Nat,
           NEW c \in Nat, NEW n \in Nat, InArray(a, c, n),
           SameOutside(a, b, base, size), c + n <= base \/ base + size <= c
    PROVE  Part(b, c, n) = Part(a, c, n)
<1> DEFINE p == Part(a, c, n)
           q == Part(b, c, n)
<1>1. InArray(b, c, n) /\ c >= 1 /\ c + n <= Len(a) + 1 /\ Len(a) \in Nat
  BY DEF InArray
<1>2. p \in Seq(S) /\ Len(p) = n /\ \A i \in 1..n : p[i] = a[c + i - 1]
  BY PartIs
<1>3. q \in Seq(S) /\ Len(q) = n /\ \A i \in 1..n : q[i] = b[c + i - 1]
  BY <1>1, PartIs
<1> HIDE DEF p, q
<1>4. ASSUME NEW i \in 1..n PROVE q[i] = p[i]
  <2> DEFINE k == c + i - 1
  <2>1. k \in 1..Len(a) /\ ~(base <= k /\ k < base + size)
    BY <1>1
  <2> HIDE DEF k
  <2>2. b[k] = a[k]
    BY <2>1 DEF SameOutside
  <2> QED BY <1>2, <1>3, <2>2 DEF k
<1>5. q = p
  BY <1>2, <1>3, <1>4, EqualSequences
<1> QED BY <1>5 DEF p, q

(* An array is given by the part in the range and by what is outside.      *)
LEMMA PutOfPart ==
    ASSUME NEW S, NEW a \in Seq(S), NEW b \in Seq(S), Len(b) = Len(a), NEW base \in Nat,
           NEW size \in Nat, InArray(a, base, size), SameOutside(a, b, base, size)
    PROVE  b = Put(a, base, Part(b, base, size))
<1> DEFINE p == Part(b, base, size)
           r == Put(a, base, p)
<1>1. InArray(b, base, size) /\ base >= 1 /\ base + size <= Len(a) + 1 /\ Len(a) \in Nat
  BY DEF InArray
<1>2. p \in Seq(S) /\ Len(p) = size /\ \A i \in 1..size : p[i] = b[base + i - 1]
  BY <1>1, PartIs
<1> HIDE DEF p
<1>3. InArray(a, base, Len(p))
  BY <1>2
<1>4. r \in Seq(S) /\ Len(r) = Len(a)
      /\ \A i \in 1..Len(a) : r[i] = IF base <= i /\ i < base + Len(p) THEN p[i - base + 1] ELSE a[i]
  BY <1>2, <1>3, PutIs
<1> HIDE DEF r
<1>5. ASSUME NEW i \in 1..Len(a) PROVE b[i] = r[i]
  <2>1. CASE base <= i /\ i < base + size
    <3> DEFINE k == i - base + 1
    <3>1. k \in 1..size /\ base + k - 1 = i
      BY <1>1, <2>1
    <3> HIDE DEF k
    <3>2. p[k] = b[i]
      BY <1>2, <3>1
    <3>3. r[i] = p[k]
      BY <1>2, <1>4, <2>1 DEF k
    <3> QED BY <3>2, <3>3
  <2>2. CASE ~(base <= i /\ i < base + size)
    <3>1. b[i] = a[i]
      BY <2>2 DEF SameOutside
    <3>2. r[i] = a[i]
      BY <1>2, <1>4, <2>2
    <3> QED BY <3>1, <3>2
  <2> QED BY <2>1, <2>2
<1>6. b = r
  BY <1>1, <1>4, <1>5, EqualSequences
<1> QED BY <1>6 DEF r, p

-----------------------------------------------------------------------------
(* Exchanging two elements changes their order and nothing else.           *)

(* std::swap of two places,                                                *)
LEMMA SwapIs ==
    ASSUME NEW s \in Seq(Int), NEW i \in 1..Len(s), NEW k \in 1..Len(s)
    PROVE  /\ Swap(s, i, k) \in Seq(Int) /\ Len(Swap(s, i, k)) = Len(s)
           /\ Swap(s, i, k)[i] = s[k] /\ Swap(s, i, k)[k] = s[i]
           /\ \A j \in 1..Len(s) : j # i /\ j # k => Swap(s, i, k)[j] = s[j]
<1> DEFINE n == Len(s)
           z == Swap(s, i, k)
<1>1. n \in Nat /\ s \in [1..n -> Int] /\ s[i] \in Int /\ s[k] \in Int
  OBVIOUS
<1>2. z = [j \in 1..n |-> IF j = k THEN s[i] ELSE IF j = i THEN s[k] ELSE s[j]]
  <2>1. z = [s EXCEPT ![i] = s[k], ![k] = s[i]]
    BY DEF Swap
  <2> HIDE DEF z, n
  <2> QED BY <1>1, <2>1
<1> HIDE DEF z, n
<1>3. z \in [1..n -> Int]
  BY <1>1, <1>2
<1>4. z \in Seq(Int) /\ Len(z) = n
  BY <1>1, <1>3
<1>5. i \in 1..n /\ k \in 1..n
  BY DEF n
<1>6. z[i] = s[k] /\ z[k] = s[i] /\ \A j \in 1..n : j # i /\ j # k => z[j] = s[j]
  BY <1>2, <1>5
<1> QED BY <1>4, <1>6 DEF n, z

(* keeps the elements and their counts.                                    *)
LEMMA SwapSame ==
    ASSUME NEW s \in Seq(Int), NEW i \in 1..Len(s), NEW k \in 1..Len(s)
    PROVE  Same(Swap(s, i, k), s)
<1> DEFINE z == Swap(s, i, k)
           n == Len(s)
<1>1. /\ z \in Seq(Int) /\ Len(z) = n /\ n \in Nat
      /\ z[i] = s[k] /\ z[k] = s[i] /\ \A j \in 1..n : j # i /\ j # k => z[j] = s[j]
  BY SwapIs
<1>1a. i \in 1..n /\ k \in 1..n /\ DOMAIN s = 1..n /\ DOMAIN z = 1..n
  BY <1>1
<1> HIDE DEF z, n
<1>2. ASSUME NEW x \in Int PROVE Below(z, x) = Below(s, x)
  <2> DEFINE A == LowPlaces(z, x)
             B == LowPlaces(s, x)
             f == [j \in A |-> IF j = i THEN k ELSE IF j = k THEN i ELSE j]
  <2>1. A = {j \in 1..n : z[j] <= x} /\ B = {j \in 1..n : s[j] <= x}
    BY <1>1a DEF LowPlaces
  <2>2. ASSUME NEW j \in A PROVE f[j] \in B
    BY <1>1, <1>1a, <2>1
  <2>3. f \in [A -> B]
    BY <2>2
  <2>4. \A p, q \in A : f[p] = f[q] => p = q
    OBVIOUS
  <2>5. ASSUME NEW q \in B PROVE \E p \in A : f[p] = q
    <3> DEFINE p == IF q = i THEN k ELSE IF q = k THEN i ELSE q
    <3>1. p \in A
      BY <1>1, <1>1a, <2>1
    <3>2. f[p] = q
      BY <3>1
    <3> QED BY <3>1, <3>2
  <2>6. ExistsBijection(A, B)
    <3> HIDE DEF f, A, B
    <3>1. f \in Injection(A, B)
      BY <2>3, <2>4 DEF Injection, IsInjective
    <3>2. f \in Surjection(A, B)
      BY <2>3, <2>5 DEF Surjection
    <3>3. f \in Bijection(A, B)
      BY <3>1, <3>2 DEF Bijection
    <3> QED BY <3>3 DEF ExistsBijection
  <2>7. IsFiniteSet(A) /\ Below(z, x) = Cardinality(A) /\ Below(s, x) = Cardinality(B)
    BY <1>1, BelowCounts
  <2> HIDE DEF A, B
  <2>8. Cardinality(A) = Cardinality(B)
    BY <2>6, <2>7, FS_Bijection
  <2> QED BY <2>7, <2>8
<1> QED BY <1>1, <1>2 DEF Same, z, n

(* Sequences with the same counts have the same order.                     *)
LEMMA SameInOrder ==
    ASSUME NEW r \in Seq(Int), NEW s \in Seq(Int), Same(r, s)
    PROVE  InOrder(r) = InOrder(s)
<1> DEFINE o == InOrder(r)
<1>1. o \in Seq(Int) /\ Ascending(o) /\ Same(o, r)
  BY InOrderIs, InOrderAscends
<1> HIDE DEF o
<1>2. Same(o, s)
  BY <1>1 DEF Same
<1>3. o = InOrder(s)
  BY <1>1, <1>2, AscendingInOrder
<1> QED BY <1>3 DEF o

(* Two parts are sorted apart when none of one is greater than one of the  *)
(* other.                                                                  *)
LEMMA OrdersJoin ==
    ASSUME NEW r \in Seq(Int), NEW s \in Seq(Int), NoneGreater(r, s)
    PROVE  InOrder(r) \o InOrder(s) = InOrder(r \o s)
<1> DEFINE o == InOrder(r)
           p == InOrder(s)
           u == r \o s
           v == o \o p
<1>1. o \in Seq(Int) /\ Ascending(o) /\ Same(o, r) /\ p \in Seq(Int) /\ Ascending(p) /\ Same(p, s)
  BY InOrderIs, InOrderAscends
<1>2. ToSet(o) = ToSet(r) /\ ToSet(p) = ToSet(s)
  <2> HIDE DEF o, p
  <2> QED BY <1>1, SameMembers
<1> HIDE DEF o, p
<1>3. NoneGreater(o, p)
  <2>1. \A x \in ToSet(r) : \A y \in ToSet(s) : x <= y
    BY NoneGreaterSets
  <2>2. \A x \in ToSet(o) : \A y \in ToSet(p) : x <= y
    BY <1>2, <2>1
  <2> QED BY <1>1, <2>2, NoneGreaterSets
<1>4. Ascending(v) /\ v \in Seq(Int) /\ Len(v) = Len(o) + Len(p)
  BY <1>1, <1>3, JoinAscends, JoinIs
<1>5. u \in Seq(Int) /\ Len(u) = Len(r) + Len(s)
  BY JoinIs
<1>6. \A x \in Int : Below(v, x) = Below(o, x) + Below(p, x) /\ Below(u, x) = Below(r, x) + Below(s, x)
  BY <1>1, BelowJoin
<1> HIDE DEF u, v
<1>7. Same(v, u)
  BY <1>1, <1>4, <1>5, <1>6 DEF Same
<1>8. v = InOrder(u)
  BY <1>4, <1>5, <1>7, AscendingInOrder
<1> QED BY <1>8 DEF u, v, o, p

(* The k-th element of the range at base.                                  *)
Elem(a, base, k) == a[base + k]

(* The elements of a range are those of the part.                          *)
LEMMA ElemIs ==
    ASSUME NEW a \in Seq(Int), NEW base \in Nat, NEW size \in Nat, InArray(a, base, size)
    PROVE  /\ \A k \in 0..size - 1 : base + k \in 1..Len(a) /\ Elem(a, base, k) \in Int
           /\ \A k \in 1..size : Part(a, base, size)[k] = Elem(a, base, k - 1)
<1>1. Len(a) \in Nat /\ base >= 1 /\ base + size <= Len(a) + 1
  BY DEF InArray
<1>2. ASSUME NEW k \in 0..size - 1 PROVE base + k \in 1..Len(a) /\ Elem(a, base, k) \in Int
  <2>1. base + k \in 1..Len(a)
    BY <1>1
  <2> DEFINE i == base + k
  <2> HIDE DEF i
  <2>2. i \in 1..Len(a) => a[i] \in Int
    OBVIOUS
  <2> QED BY <2>1, <2>2 DEF i, Elem
<1>3. ASSUME NEW k \in 1..size PROVE Part(a, base, size)[k] = Elem(a, base, k - 1)
  <2>1. Part(a, base, size)[k] = a[base + k - 1]
    BY PartIs
  <2>2. base + k - 1 = base + (k - 1)
    OBVIOUS
  <2> QED BY <2>1, <2>2 DEF Elem
<1> QED BY <1>2, <1>3

(* b has in the range what a has there, in any order, and is a elsewhere.  *)
Rearranged(a, b, base, size) ==
    /\ b \in Seq(Int) /\ Len(b) = Len(a) /\ SameOutside(a, b, base, size)
    /\ Same(Part(b, base, size), Part(a, base, size))

(* Rearranged twice is rearranged,                                         *)
LEMMA RearrangedAgain ==
    ASSUME NEW a \in Seq(Int), NEW b, NEW c, NEW base \in Nat, NEW size \in Nat,
           Rearranged(a, b, base, size), Rearranged(b, c, base, size)
    PROVE  Rearranged(a, c, base, size)
BY DEF Rearranged, Same, SameOutside

(* and so is what was not touched.                                         *)
LEMMA RearrangedSelf ==
    ASSUME NEW a \in Seq(Int), NEW base \in Nat, NEW size \in Nat
    PROVE  Rearranged(a, a, base, size)
BY DEF Rearranged, Same, SameOutside

(* A swap in the array is one in the part,                                 *)
LEMMA SwapPart ==
    ASSUME NEW a \in Seq(Int), NEW base \in Nat, NEW size \in Nat, InArray(a, base, size),
           NEW i \in 0..size - 1, NEW k \in 0..size - 1
    PROVE  Part(Swap(a, base + i, base + k), base, size) = Swap(Part(a, base, size), i + 1, k + 1)
<1> DEFINE b == Swap(a, base + i, base + k)
           p == Part(a, base, size)
           q == Part(b, base, size)
           z == Swap(p, i + 1, k + 1)
           f == base + i
           g == base + k
<1>1. f \in 1..Len(a) /\ g \in 1..Len(a)
  BY ElemIs
<1>2. b \in Seq(Int) /\ Len(b) = Len(a) /\ b[f] = a[g] /\ b[g] = a[f]
      /\ \A j \in 1..Len(a) : j # f /\ j # g => b[j] = a[j]
  <2> HIDE DEF f, g
  <2> QED BY <1>1, SwapIs DEF f, g
<1>3. p \in Seq(Int) /\ Len(p) = size /\ \A j \in 1..size : p[j] = a[base + j - 1]
  BY PartIs
<1> HIDE DEF b, p
<1>4. q \in Seq(Int) /\ Len(q) = size /\ \A j \in 1..size : q[j] = b[base + j - 1]
  <2>1. InArray(b, base, size)
    BY <1>2 DEF InArray
  <2>2. b \in Seq(Int)
    BY <1>2
  <2> QED BY <2>1, <2>2, PartIs
<1> HIDE DEF q
<1>5. /\ z \in Seq(Int) /\ Len(z) = size /\ z[i + 1] = p[k + 1] /\ z[k + 1] = p[i + 1]
      /\ \A j \in 1..size : j # i + 1 /\ j # k + 1 => z[j] = p[j]
  <2> DEFINE u == i + 1
             v == k + 1
  <2>1. u \in 1..size /\ v \in 1..size
    OBVIOUS
  <2> HIDE DEF u, v
  <2>2. Swap(p, u, v) \in Seq(Int) /\ Len(Swap(p, u, v)) = size
        /\ Swap(p, u, v)[u] = p[v] /\ Swap(p, u, v)[v] = p[u]
        /\ \A j \in 1..size : j # u /\ j # v => Swap(p, u, v)[j] = p[j]
    BY <1>3, <2>1, SwapIs
  <2> QED BY <2>2 DEF u, v
<1> HIDE DEF z
<1>6. ASSUME NEW j \in 1..size PROVE q[j] = z[j]
  <2> DEFINE h == base + j - 1
  <2>1. h \in 1..Len(a)
    BY DEF InArray
  <2>2. q[j] = b[h]
    BY <1>4
  <2>3. CASE j = i + 1
    <3>1. h = f
      BY <2>3
    <3>2. k + 1 \in 1..size /\ base + (k + 1) - 1 = g
      OBVIOUS
    <3>3. p[k + 1] = a[g]
      BY <1>3, <3>2
    <3>4. z[j] = p[k + 1]
      BY <1>5, <2>3
    <3> HIDE DEF h, g, f
    <3>5. b[f] = a[g]
      BY <1>2
    <3> QED BY <2>2, <3>1, <3>3, <3>4, <3>5
  <2>4. CASE j = k + 1
    <3>1. h = g
      BY <2>4
    <3>2. i + 1 \in 1..size /\ base + (i + 1) - 1 = f
      OBVIOUS
    <3>3. p[i + 1] = a[f]
      BY <1>3, <3>2
    <3> HIDE DEF h, g, f
    <3> QED BY <1>2, <1>5, <2>2, <2>4, <3>1, <3>3
  <2>5. CASE j # i + 1 /\ j # k + 1
    <3>1. h # f /\ h # g
      BY <2>5
    <3>2. p[j] = a[h]
      BY <1>3
    <3> HIDE DEF h, g, f
    <3>3. b[h] = a[h]
      BY <1>2, <2>1, <3>1
    <3>4. z[j] = p[j]
      BY <1>5, <2>5
    <3> QED BY <2>2, <3>2, <3>3, <3>4
  <2> QED BY <2>3, <2>4, <2>5
<1>7. q = z
  BY <1>4, <1>5, <1>6, SameSequence
<1> QED BY <1>7 DEF b, p, q, z

(* b is a with the elements i and k of the range exchanged.                *)
IsSwap(a, b, base, size, i, k) ==
    /\ Rearranged(a, b, base, size) /\ InArray(b, base, size)
    /\ Elem(b, base, i) = Elem(a, base, k) /\ Elem(b, base, k) = Elem(a, base, i)
    /\ \A j \in 0..size - 1 : j # i /\ j # k => Elem(b, base, j) = Elem(a, base, j)

(* so it rearranges the range.                                             *)
LEMMA SwapRearranges ==
    ASSUME NEW a \in Seq(Int), NEW base \in Nat, NEW size \in Nat, InArray(a, base, size),
           NEW i \in 0..size - 1, NEW k \in 0..size - 1
    PROVE  IsSwap(a, Swap(a, base + i, base + k), base, size, i, k)
<1> DEFINE b == Swap(a, base + i, base + k)
           p == Part(a, base, size)
           f == base + i
           g == base + k
<1>1. f \in 1..Len(a) /\ g \in 1..Len(a)
  BY ElemIs
<1>2. b \in Seq(Int) /\ Len(b) = Len(a) /\ b[f] = a[g] /\ b[g] = a[f]
      /\ \A j \in 1..Len(a) : j # f /\ j # g => b[j] = a[j]
  <2> HIDE DEF f, g
  <2> QED BY <1>1, SwapIs DEF f, g
<1>3. p \in Seq(Int) /\ Len(p) = size
  BY PartIs
<1>4. Part(b, base, size) = Swap(p, i + 1, k + 1)
  BY SwapPart
<1> HIDE DEF b, p
<1>5. Same(Part(b, base, size), p)
  <2> DEFINE u == i + 1
             v == k + 1
  <2>1. u \in 1..size /\ v \in 1..size
    OBVIOUS
  <2> HIDE DEF u, v
  <2>2. Same(Swap(p, u, v), p)
    BY <1>3, <2>1, SwapSame
  <2> QED BY <1>4, <2>2 DEF u, v
<1>6. SameOutside(a, b, base, size)
  <2>1. \A j \in 1..Len(a) : ~(base <= j /\ j < base + size) => j # f /\ j # g
    OBVIOUS
  <2> HIDE DEF f, g
  <2> QED BY <1>2, <2>1 DEF SameOutside
<1>7. Rearranged(a, b, base, size)
  BY <1>2, <1>5, <1>6 DEF Rearranged, p
<1>8. InArray(b, base, size)
  BY <1>2 DEF InArray
<1>9. Elem(b, base, i) = Elem(a, base, k) /\ Elem(b, base, k) = Elem(a, base, i)
  BY <1>2 DEF Elem
<1>10. ASSUME NEW j \in 0..size - 1, j # i, j # k PROVE Elem(b, base, j) = Elem(a, base, j)
  <2>1. base + j \in 1..Len(a)
    BY ElemIs
  <2>2. base + j # f /\ base + j # g
    BY <1>10
  <2> DEFINE h == base + j
  <2> HIDE DEF h, f, g
  <2> QED BY <1>2, <2>1, <2>2 DEF Elem, h
<1> QED BY <1>7, <1>8, <1>9, <1>10 DEF b, IsSwap

-----------------------------------------------------------------------------
(* The pivots: every one is in the range and not its only greatest         *)
(* element, which stops the first scan.                                    *)

(* The median of three is one of them.                                     *)
LEMMA MedianIn ==
    ASSUME NEW a, NEW i, NEW j, NEW k
    PROVE  _Median_of_three(a, i, j, k)[1] \in {i, j, k}
BY DEF _Median_of_three

(* The median is not the only one that is greatest.                        *)
LEMMA MedianIs ==
    ASSUME NEW a, NEW i \in Int, NEW j \in Int, NEW k \in Int, a[i] \in Int, a[j] \in Int, a[k] \in Int,
           i # j, i # k, j # k
    PROVE  \E q \in {i, j, k} : /\ q # _Median_of_three(a, i, j, k)[1]
                                /\ a[q] >= a[_Median_of_three(a, i, j, k)[1]]
<1> DEFINE m == _Median_of_three(a, i, j, k)[1]
<1>1. CASE a[i] < a[j]
  <2>1. m = IF a[i] < a[k] THEN IF a[j] < a[k] THEN j ELSE k ELSE i
    BY <1>1 DEF _Median_of_three
  <2> HIDE DEF m
  <2>2. CASE a[i] < a[k] /\ a[j] < a[k]
    <3>1. m = j
      BY <2>1, <2>2
    <3>2. k # m /\ a[k] >= a[m]
      BY <2>2, <3>1
    <3> QED BY <3>2 DEF m
  <2>3. CASE a[i] < a[k] /\ ~(a[j] < a[k])
    <3>1. m = k
      BY <2>1, <2>3
    <3>2. j # m /\ a[j] >= a[m]
      BY <2>3, <3>1
    <3> QED BY <3>2 DEF m
  <2>4. CASE ~(a[i] < a[k])
    <3>1. m = i
      BY <2>1, <2>4
    <3>2. j # m /\ a[j] >= a[m]
      BY <1>1, <2>4, <3>1
    <3> QED BY <3>2 DEF m
  <2> QED BY <2>2, <2>3, <2>4
<1>2. CASE ~(a[i] < a[j])
  <2>1. m = IF a[j] < a[k] THEN IF a[i] < a[k] THEN i ELSE k ELSE j
    BY <1>2 DEF _Median_of_three
  <2> HIDE DEF m
  <2>2. CASE a[j] < a[k] /\ a[i] < a[k]
    <3>1. m = i
      BY <2>1, <2>2
    <3>2. k # m /\ a[k] >= a[m]
      BY <2>2, <3>1
    <3> QED BY <3>2 DEF m
  <2>3. CASE a[j] < a[k] /\ ~(a[i] < a[k])
    <3>1. m = k
      BY <2>1, <2>3
    <3>2. i # m /\ a[i] >= a[m]
      BY <2>3, <3>1
    <3> QED BY <3>2 DEF m
  <2>4. CASE ~(a[j] < a[k])
    <3>1. m = j
      BY <2>1, <2>4
    <3>2. i # m /\ a[i] >= a[m]
      BY <1>2, <2>4, <3>1
    <3> QED BY <3>2 DEF m
  <2> QED BY <2>2, <2>3, <2>4
<1> QED BY <1>1, <1>2

(* p is in the range, and another element there is at least as great.      *)
IsPivot(a, base, size, p) ==
    \E n, m \in 0..size - 1 : p = base + n /\ m # n /\ Elem(a, base, m) >= Elem(a, base, n)

(* So the median of three of the range is a pivot,                         *)
LEMMA MedianIsPivot ==
    ASSUME NEW a \in Seq(Int), NEW base \in Nat, NEW size \in Nat, InArray(a, base, size),
           NEW i \in 0..size - 1, NEW j \in 0..size - 1, NEW k \in 0..size - 1, i # j, i # k, j # k
    PROVE  IsPivot(a, base, size, _Median_of_three(a, base + i, base + j, base + k)[1])
<1> DEFINE u == base + i
           v == base + j
           w == base + k
           m == _Median_of_three(a, u, v, w)[1]
<1>1. /\ u \in Int /\ v \in Int /\ w \in Int /\ u # v /\ u # w /\ v # w
      /\ u - base \in 0..size - 1 /\ v - base \in 0..size - 1 /\ w - base \in 0..size - 1
  OBVIOUS
<1>2. a[u] \in Int /\ a[v] \in Int /\ a[w] \in Int
  BY ElemIs DEF Elem
<1> HIDE DEF u, v, w
<1>3. m \in {u, v, w}
  BY MedianIn
<1>4. PICK q \in {u, v, w} : q # m /\ a[q] >= a[m]
  BY <1>1, <1>2, MedianIs
<1> HIDE DEF m
<1>5. m - base \in 0..size - 1 /\ q - base \in 0..size - 1 /\ q - base # m - base
      /\ base + (m - base) = m /\ base + (q - base) = q
  BY <1>1, <1>3, <1>4
<1>6. Elem(a, base, q - base) = a[q] /\ Elem(a, base, m - base) = a[m]
  BY <1>5 DEF Elem
<1> DEFINE x == m - base
           y == q - base
<1>7. x \in 0..size - 1 /\ y \in 0..size - 1 /\ m = base + x /\ y # x /\ Elem(a, base, y) >= Elem(a, base, x)
  BY <1>4, <1>5, <1>6
<1> HIDE DEF x, y
<1>8. IsPivot(a, base, size, m)
  BY <1>7 DEF IsPivot
<1> QED BY <1>8 DEF m, u, v, w

(* The distance of the nine places.                                        *)
LEMMA NinePlaces ==
    ASSUME NEW size \in Nat, size >= 8
    PROVE  /\ size \div 8 \in Nat /\ size \div 8 >= 1 /\ 8 * (size \div 8) <= size
OBVIOUS

(* the median of nine is one,                                              *)
LEMMA NineIsPivot ==
    ASSUME NEW a \in Seq(Int), NEW base \in Nat, NEW size \in Nat, InArray(a, base, size), size >= 8
    PROVE  IsPivot(a, base, size, _Median_of_nine(a, base, size)[1])
<1> DEFINE o == size \div 8
           Of(f, g, h) == _Median_of_three(a, base + f, base + g, base + h)[1]
           i == Of(0, o, o * 2)
           j == Of(o * 3, o * 4, o * 5)
           k == Of(o * 6, o * 7, size - 1)
           m == _Median_of_three(a, i, j, k)
<1>1. _Median_of_nine(a, base, size)[1] = m[1]
  BY DEF _Median_of_nine
<1>2. o \in Nat /\ o >= 1 /\ 8 * o <= size
  BY NinePlaces
<1>3. /\ i \in {base + 0, base + o, base + o * 2}
      /\ j \in {base + o * 3, base + o * 4, base + o * 5}
      /\ k \in {base + o * 6, base + o * 7, base + (size - 1)}
  <2> HIDE DEF o
  <2>1. i \in {base + 0, base + o, base + o * 2}
    BY MedianIn
  <2>2. j \in {base + o * 3, base + o * 4, base + o * 5}
    BY MedianIn
  <2>3. k \in {base + o * 6, base + o * 7, base + (size - 1)}
    BY MedianIn
  <2> QED BY <2>1, <2>2, <2>3
<1> HIDE DEF o, i, j, k
<1> DEFINE x == i - base
           y == j - base
           z == k - base
<1>4. x \in 0..o * 2 /\ y \in o * 3..o * 5 /\ z \in o * 6..size - 1
      /\ i = base + x /\ j = base + y /\ k = base + z
  BY <1>2, <1>3
<1>5. x \in 0..size - 1 /\ y \in 0..size - 1 /\ z \in 0..size - 1 /\ x # y /\ x # z /\ y # z
  <2> HIDE DEF x, y, z
  <2> QED BY <1>2, <1>4
<1> HIDE DEF x, y, z
<1>6. IsPivot(a, base, size, _Median_of_three(a, base + x, base + y, base + z)[1])
  BY <1>5, MedianIsPivot
<1> QED BY <1>1, <1>4, <1>6

(* The middle is neither of the ends.                                      *)
LEMMA ThreePlaces ==
    ASSUME NEW size \in Nat, size > 3
    PROVE  size \div 2 \in 0..size - 1 /\ size \div 2 # 0 /\ size \div 2 # size - 1
OBVIOUS

(* and so is what _Select_median_pivot returns, whichever it takes.        *)
LEMMA SelectIsPivot ==
    ASSUME NEW a \in Seq(Int), NEW base \in Nat, NEW size \in Nat, InArray(a, base, size),
           NEW chunk \in Nat, size > chunk, size > 3
    PROVE  IsPivot(a, base, size, _Select_median_pivot(a, base, size, chunk)[1])
<1>1. CASE chunk < _FINE_GRAIN_CHUNK_SIZE /\ size <= Max({chunk * 4, SmallSize})
  <2> DEFINE h == size \div 2
             l == size - 1
             t == _Median_of_three(a, base, base + h, base + size - 1)[1]
  <2>1. _Select_median_pivot(a, base, size, chunk)[1] = t
    BY <1>1 DEF _Select_median_pivot
  <2>2. h \in 0..size - 1 /\ h # 0 /\ h # l
    BY ThreePlaces
  <2>3. 0 \in 0..size - 1 /\ l \in 0..size - 1 /\ l # 0 /\ base + 0 = base /\ base + l = base + size - 1
    OBVIOUS
  <2>4. IsPivot(a, base, size, _Median_of_three(a, base + 0, base + h, base + l)[1])
    <3> HIDE DEF h, l
    <3> QED BY <2>2, <2>3, MedianIsPivot
  <2> QED BY <2>1, <2>3, <2>4
<1>2. CASE ~(chunk < _FINE_GRAIN_CHUNK_SIZE /\ size <= Max({chunk * 4, SmallSize}))
  <2>1. _Select_median_pivot(a, base, size, chunk) = _Median_of_nine(a, base, size)
    BY <1>2 DEF _Select_median_pivot
  <2>2. size >= 8
    <3>1. SmallSize \in Nat /\ SmallSize >= 8 /\ _FINE_GRAIN_CHUNK_SIZE \in Nat /\ _FINE_GRAIN_CHUNK_SIZE >= 8
      BY AlgorithmsAssumption
    <3>2. CASE ~(chunk < _FINE_GRAIN_CHUNK_SIZE)
      BY <3>1, <3>2
    <3>3. CASE ~(size <= Max({chunk * 4, SmallSize}))
      <4> DEFINE c == chunk * 4
      <4>1. c \in Int /\ SmallSize \in Int
        BY <3>1
      <4>2. Max({c, SmallSize}) = IF c >= SmallSize THEN c ELSE SmallSize
        <5> HIDE DEF c
        <5> QED BY <4>1, MaxOfTwo
      <4> QED BY <3>1, <3>3, <4>2
    <3> QED BY <1>2, <3>2, <3>3
  <2> QED BY <2>1, <2>2, NineIsPivot
<1> QED BY <1>1, <1>2

-----------------------------------------------------------------------------
(* The partition in two.                                                   *)

AtMost(a, base, v, from, to) == \A k \in from..to : Elem(a, base, k) <= v
AtLeast(a, base, v, from, to) == \A k \in from..to : Elem(a, base, k) >= v
SomeAtLeast(a, base, v, from, to) == \E k \in from..to : Elem(a, base, k) >= v

(* The scan from the right stops at the pivot at the latest,               *)
LEMMA FromRightIs ==
    ASSUME NEW a \in Seq(Int), NEW base \in Nat, NEW size \in Nat, InArray(a, base, size),
           NEW j \in 0..size - 1
    PROVE  /\ FromRight(a, base, j) \in 0..j /\ Elem(a, base, FromRight(a, base, j)) <= Elem(a, base, 0)
           /\ \A k \in FromRight(a, base, j) + 1..j : Elem(a, base, k) > Elem(a, base, 0)
<1> DEFINE S == {k \in 0..j : ~(a[base] < a[base + k])}
           r == FromRight(a, base, j)
<1>1. r = Max(S)
  BY DEF FromRight
<1>2. base + 0 = base /\ Elem(a, base, 0) = a[base] /\ \A k : Elem(a, base, k) = a[base + k]
  BY DEF Elem
<1>3. \A k \in 0..j : Elem(a, base, k) \in Int
  BY ElemIs
<1>4. S = {k \in 0..j : Elem(a, base, k) <= Elem(a, base, 0)} /\ 0 \in 0..j
  BY <1>2, <1>3
<1>5. 0 \in S /\ S \in SUBSET Int /\ \A k \in S : k <= j
  BY <1>3, <1>4
<1> HIDE DEF S, r
<1>6. r \in S /\ \A k \in S : r >= k
  <2>1. j \in Int
    OBVIOUS
  <2> QED BY <1>1, <1>5, <2>1, MaxIs
<1>7. r \in 0..j /\ Elem(a, base, r) <= Elem(a, base, 0)
  BY <1>4, <1>6
<1>8. ASSUME NEW k \in r + 1..j PROVE Elem(a, base, k) > Elem(a, base, 0)
  <2>1. k \in 0..j /\ ~(r >= k)
    BY <1>7
  <2>2. k \notin S
    BY <1>6, <2>1
  <2> QED BY <1>3, <1>4, <2>1, <2>2
<1> QED BY <1>7, <1>8 DEF r

(* the one from the left at an element that is not less than the pivot.    *)
LEMMA FromLeftIs ==
    ASSUME NEW a \in Seq(Int), NEW base \in Nat, NEW size \in Nat, InArray(a, base, size),
           NEW i \in 0..size - 1, SomeAtLeast(a, base, Elem(a, base, 0), i, size - 1)
    PROVE  /\ FromLeft(a, base, size, i) \in i..size - 1
           /\ Elem(a, base, FromLeft(a, base, size, i)) >= Elem(a, base, 0)
           /\ \A k \in i..FromLeft(a, base, size, i) - 1 : Elem(a, base, k) < Elem(a, base, 0)
<1> DEFINE S == {k \in i..size - 1 : ~(a[base + k] < a[base])}
           r == FromLeft(a, base, size, i)
<1>1. r = Min(S)
  BY DEF FromLeft
<1>2. base + 0 = base /\ Elem(a, base, 0) = a[base] /\ \A k : Elem(a, base, k) = a[base + k]
  BY DEF Elem
<1>3. \A k \in 0..size - 1 : Elem(a, base, k) \in Int
  BY ElemIs
<1>4. S = {k \in i..size - 1 : Elem(a, base, k) >= Elem(a, base, 0)} /\ i..size - 1 \in SUBSET (0..size - 1)
  <2>1. i..size - 1 \in SUBSET (0..size - 1) /\ 0 \in 0..size - 1
    OBVIOUS
  <2> QED BY <1>2, <1>3, <2>1
<1>5. S # {} /\ S \in SUBSET Int /\ \A k \in S : i <= k
  <2>1. \E k \in i..size - 1 : Elem(a, base, k) >= Elem(a, base, 0)
    BY DEF SomeAtLeast
  <2> HIDE DEF S
  <2>2. S # {}
    BY <1>4, <2>1
  <2>3. \A k \in S : k \in i..size - 1
    BY <1>4
  <2> QED BY <2>2, <2>3
<1> HIDE DEF S, r
<1>6. r \in S /\ \A k \in S : r <= k
  <2>1. i \in Int
    OBVIOUS
  <2> QED BY <1>1, <1>5, <2>1, MinIs
<1>7. r \in i..size - 1 /\ Elem(a, base, r) >= Elem(a, base, 0)
  BY <1>4, <1>6
<1>8. ASSUME NEW k \in i..r - 1 PROVE Elem(a, base, k) < Elem(a, base, 0)
  <2>1. k \in i..size - 1 /\ ~(r <= k) /\ k \in 0..size - 1 /\ 0 \in 0..size - 1
    BY <1>7
  <2>2. k \notin S
    BY <1>6, <2>1
  <2> QED BY <1>3, <1>4, <2>1, <2>2
<1> QED BY <1>7, <1>8 DEF r

(* After n turns of the two scans, a being the array before them.          *)
InTwo(s, a, base, size, n) ==
    /\ Rearranged(a, s.a, base, size) /\ Elem(s.a, base, 0) = Elem(a, base, 0)
    /\ s.met \in BOOLEAN /\ s.i \in 1..size /\ s.j \in 0..size - 1
    /\ AtMost(s.a, base, Elem(a, base, 0), 1, s.i - 1)
    /\ AtLeast(s.a, base, Elem(a, base, 0), s.j + 1, size - 1)
    /\ s.met => AtMost(s.a, base, Elem(a, base, 0), 1, s.j)
    /\ ~s.met /\ s.i <= s.j =>
          SomeAtLeast(s.a, base, Elem(a, base, 0), s.i, size - 1) /\ s.j - s.i <= size - 2 - n

(* What is rearranged has a range as before.                               *)
LEMMA RearrangedIn ==
    ASSUME NEW a \in Seq(Int), NEW b, NEW base \in Nat, NEW size \in Nat, InArray(a, base, size),
           Rearranged(a, b, base, size)
    PROVE  b \in Seq(Int) /\ InArray(b, base, size)
BY DEF Rearranged, InArray

(* A turn of the two scans keeps the invariant.                            *)
LEMMA TwoTurn ==
    ASSUME NEW a \in Seq(Int), NEW base \in Nat, NEW size \in Nat, InArray(a, base, size),
           NEW n \in Nat, NEW s, InTwo(s, a, base, size, n)
    PROVE  InTwo(ScanBoth(s, base, size), a, base, size, n + 1)
<1> DEFINE v == Elem(a, base, 0)
           b == s.a
           j == FromRight(b, base, s.j)
           i == FromLeft(b, base, size, s.i)
           z == ScanBoth(s, base, size)
           I == s.i
           J == s.j
<1>1. /\ Rearranged(a, b, base, size) /\ Elem(b, base, 0) = v /\ s.met \in BOOLEAN
      /\ I \in 1..size /\ J \in 0..size - 1
      /\ AtMost(b, base, v, 1, I - 1) /\ AtLeast(b, base, v, J + 1, size - 1)
      /\ s.met => AtMost(b, base, v, 1, J)
      /\ ~s.met /\ I <= J => SomeAtLeast(b, base, v, I, size - 1) /\ J - I <= size - 2 - n
  BY DEF InTwo
<1>2. b \in Seq(Int) /\ InArray(b, base, size)
  BY <1>1, RearrangedIn
<1>3. CASE s.met \/ I > J
  <2>1. z = s
    BY <1>3 DEF ScanBoth
  <2>2. ~(~s.met /\ I <= J)
    BY <1>1, <1>3
  <2> QED BY <1>1, <2>1, <2>2 DEF InTwo
<1>4. CASE ~(s.met \/ I > J)
  <2>0. z = IF i < j
            THEN [a |-> Swap(b, base + i, base + j), i |-> i + 1, j |-> j - 1, met |-> FALSE]
            ELSE [a |-> b, i |-> i, j |-> j, met |-> TRUE]
    BY <1>4 DEF ScanBoth
  <2>1. ~s.met /\ I <= J /\ I \in 0..size - 1 /\ SomeAtLeast(b, base, v, I, size - 1) /\ J - I <= size - 2 - n
    BY <1>1, <1>4
  <2>2. /\ j \in 0..J /\ Elem(b, base, j) <= v
        /\ \A k \in j + 1..J : Elem(b, base, k) > v
    <3> HIDE DEF b, v, J
    <3>1. J \in 0..size - 1
      BY <1>1
    <3> QED BY <1>1, <1>2, <3>1, FromRightIs DEF J
  <2>3. /\ i \in I..size - 1 /\ Elem(b, base, i) >= v
        /\ \A k \in I..i - 1 : Elem(b, base, k) < v
    <3> HIDE DEF b, v, I
    <3> QED BY <1>1, <1>2, <2>1, FromLeftIs DEF I
  <2> HIDE DEF i, j, I, J, b, z
  <2>4. v \in Int /\ \A k \in 0..size - 1 : Elem(b, base, k) \in Int
    BY <1>1, <1>2, ElemIs
  <2>5. \A k \in 1..i - 1 : Elem(b, base, k) <= v
    <3> TAKE k \in 1..i - 1
    <3>1. CASE k <= I - 1
      <4>1. k \in 1..I - 1
        BY <1>1, <3>1
      <4> QED BY <1>1, <4>1 DEF AtMost
    <3>2. CASE ~(k <= I - 1)
      <4>1. k \in I..i - 1 /\ k \in 0..size - 1
        BY <1>1, <2>3, <3>2
      <4>2. Elem(b, base, k) < v /\ Elem(b, base, k) \in Int
        BY <2>3, <2>4, <4>1
      <4> HIDE DEF v
      <4> QED BY <2>4, <4>2
    <3> QED BY <3>1, <3>2
  <2>6. \A k \in j + 1..size - 1 : Elem(b, base, k) >= v
    <3> TAKE k \in j + 1..size - 1
    <3>1. CASE k >= J + 1
      <4>1. k \in J + 1..size - 1
        BY <1>1, <2>2, <3>1
      <4> QED BY <1>1, <4>1 DEF AtLeast
    <3>2. CASE ~(k >= J + 1)
      <4>1. k \in j + 1..J /\ k \in 0..size - 1
        BY <1>1, <2>2, <3>2
      <4>2. Elem(b, base, k) > v /\ Elem(b, base, k) \in Int
        BY <2>2, <2>4, <4>1
      <4> HIDE DEF v
      <4> QED BY <2>4, <4>2
    <3> QED BY <3>1, <3>2
  <2>7. CASE i < j
    <3> DEFINE c == Swap(b, base + i, base + j)
    <3>1. z.a = c /\ z.i = i + 1 /\ z.j = j - 1 /\ z.met = FALSE
      BY <2>0, <2>7
    <3>2. i \in 1..size - 1 /\ j \in 2..size - 1 /\ i \in 0..size - 1 /\ j \in 0..size - 1 /\ 0 \in 0..size - 1
      BY <1>1, <2>2, <2>3, <2>7
    <3>3. /\ Rearranged(b, c, base, size)
          /\ Elem(c, base, i) = Elem(b, base, j) /\ Elem(c, base, j) = Elem(b, base, i)
          /\ \A k \in 0..size - 1 : k # i /\ k # j => Elem(c, base, k) = Elem(b, base, k)
      <4>1. i \in 0..size - 1 /\ j \in 0..size - 1
        BY <3>2
      <4>2. IsSwap(b, c, base, size, i, j)
        BY <1>2, <4>1, SwapRearranges
      <4> QED BY <4>2 DEF IsSwap
    <3> HIDE DEF c
    <3>4. Rearranged(a, c, base, size)
      BY <1>1, <3>3, RearrangedAgain
    <3>5. Elem(c, base, 0) = v
      <4>1. 0 # i /\ 0 # j
        BY <3>2
      <4> QED BY <1>1, <3>2, <3>3, <4>1
    <3>6. \A k \in 1..(i + 1) - 1 : Elem(c, base, k) <= v
      <4> TAKE k \in 1..(i + 1) - 1
      <4>1. CASE k = i
        BY <2>2, <3>3, <4>1
      <4>2. CASE k # i
        <5>1. k \in 1..i - 1 /\ k \in 0..size - 1 /\ k # j
          BY <2>7, <3>2, <4>2
        <5> QED BY <2>5, <3>3, <4>2, <5>1
      <4> QED BY <4>1, <4>2
    <3>7. \A k \in (j - 1) + 1..size - 1 : Elem(c, base, k) >= v
      <4> TAKE k \in (j - 1) + 1..size - 1
      <4>1. CASE k = j
        BY <2>3, <3>3, <4>1
      <4>2. CASE k # j
        <5>1. k \in j + 1..size - 1 /\ k \in 0..size - 1 /\ k # i
          BY <2>7, <3>2, <4>2
        <5> QED BY <2>6, <3>3, <4>2, <5>1
      <4> QED BY <4>1, <4>2
    <3>8. ASSUME i + 1 <= j - 1
          PROVE  (\E k \in i + 1..size - 1 : Elem(c, base, k) >= v)
                 /\ (j - 1) - (i + 1) <= size - 2 - (n + 1)
      <4>1. j \in i + 1..size - 1
        BY <3>2, <3>8
      <4>2. Elem(c, base, j) >= v
        BY <2>3, <3>3
      <4>3. (j - 1) - (i + 1) <= size - 2 - (n + 1)
        BY <1>1, <2>1, <2>2, <2>3
      <4> QED BY <4>1, <4>2, <4>3
    <3>9. i + 1 \in 1..size /\ j - 1 \in 0..size - 1
      BY <3>2
    <3> DEFINE p == i + 1
               q == j - 1
    <3>10. AtMost(c, base, v, 1, p - 1) /\ AtLeast(c, base, v, q + 1, size - 1)
      BY <3>6, <3>7 DEF AtMost, AtLeast
    <3>11. p <= q => SomeAtLeast(c, base, v, p, size - 1) /\ q - p <= size - 2 - (n + 1)
      BY <3>8 DEF SomeAtLeast
    <3> HIDE DEF p, q, v
    <3>12. z.i = p /\ z.j = q /\ p \in 1..size /\ q \in 0..size - 1
      BY <3>1, <3>9 DEF p, q
    <3> QED BY <3>1, <3>4, <3>5, <3>10, <3>11, <3>12 DEF InTwo, v, z
  <2>8. CASE ~(i < j)
    <3>1. z.a = b /\ z.i = i /\ z.j = j /\ z.met = TRUE
      BY <2>0, <2>8
    <3>2. i \in 1..size /\ j \in 0..size - 1
      BY <1>1, <2>2, <2>3
    <3>3. \A k \in 1..j : Elem(b, base, k) <= v
      <4> TAKE k \in 1..j
      <4>1. k = j \/ k \in 1..i - 1
        BY <2>8, <3>2
      <4> QED BY <2>2, <2>5, <4>1
    <3>4. AtMost(b, base, v, 1, i - 1) /\ AtLeast(b, base, v, j + 1, size - 1) /\ AtMost(b, base, v, 1, j)
      BY <2>5, <2>6, <3>3 DEF AtMost, AtLeast
    <3> HIDE DEF v
    <3> QED BY <1>1, <3>1, <3>2, <3>4 DEF InTwo, v, z
  <2> QED BY <2>7, <2>8
<1> QED BY <1>3, <1>4

(* Both partitions leave the pivot at 0, with the left part, the elements  *)
(* that equal the pivot, and the right part after it.                      *)
IsSplit(a, base, size, r) ==
    /\ Rearranged(a, r[1], base, size) /\ Elem(r[1], base, 0) = Elem(a, base, 0)
    /\ r[2] \in 1..size /\ r[3] \in r[2]..size
    /\ AtMost(r[1], base, Elem(a, base, 0), 1, r[2] - 1)
    /\ AtMost(r[1], base, Elem(a, base, 0), r[2], r[3] - 1)
    /\ AtLeast(r[1], base, Elem(a, base, 0), r[2], r[3] - 1)
    /\ AtLeast(r[1], base, Elem(a, base, 0), r[3], size - 1)

(* After the partition in two the pivot is where it belongs.               *)
LEMMA TwoWayIs ==
    ASSUME NEW a \in Seq(Int), NEW base \in Nat, NEW size \in Nat, InArray(a, base, size), size >= 2,
           SomeAtLeast(a, base, Elem(a, base, 0), 1, size - 1)
    PROVE  IsSplit(a, base, size, TwoWay(a, base, size))
<1> DEFINE T == CHOOSE g : g = [m \in 0..size |-> TwoWayRow(g, m, a, base, size)]
           S == {m \in Nat : m <= size => InTwo(T[m], a, base, size, m)}
           l == T[size]
           v == Elem(a, base, 0)
           r == <<l.a, l.j + 1, l.j + 1>>
<1>1. TwoWay(a, base, size) = r
  BY DEF TwoWay, TwoWayRow
<1>2. T = [m \in 0..size |-> TwoWayRow(T, m, a, base, size)]
  <2>1. \E g : g = [m \in 0..size |-> TwoWayRow(g, m, a, base, size)]
    <3> HIDE DEF T
    <3>1. HasTwoWay(size, a, base, size)
      BY TwoWayExists
    <3> QED BY <3>1 DEF HasTwoWay
  <2> QED BY <2>1
<1> HIDE DEF T
<1>3. 0 \in S
  <2> DEFINE t == T[0]
  <2>1. t = [a |-> a, i |-> 1, j |-> size - 1, met |-> FALSE]
    BY <1>2 DEF TwoWayRow
  <2> HIDE DEF t
  <2>2. t.a = a /\ t.i = 1 /\ t.j = size - 1 /\ t.met = FALSE
    BY <2>1
  <2>3. AtMost(a, base, v, 1, 1 - 1) /\ AtLeast(a, base, v, (size - 1) + 1, size - 1)
    <3>1. \A k \in 1..1 - 1 : FALSE
      OBVIOUS
    <3>2. \A k \in (size - 1) + 1..size - 1 : FALSE
      OBVIOUS
    <3> QED BY <3>1, <3>2 DEF AtMost, AtLeast
  <2>4. 1 \in 1..size /\ size - 1 \in 0..size - 1 /\ (size - 1) - 1 <= size - 2 - 0
    OBVIOUS
  <2>5. Rearranged(a, a, base, size)
    BY RearrangedSelf
  <2> DEFINE j == size - 1
  <2> HIDE DEF j, v
  <2>6. InTwo(t, a, base, size, 0)
    BY <2>2, <2>3, <2>4, <2>5 DEF InTwo, j, v
  <2> QED BY <2>6 DEF t
<1>4. ASSUME NEW n \in S PROVE n + 1 \in S
  <2> SUFFICES ASSUME n + 1 <= size PROVE InTwo(T[n + 1], a, base, size, n + 1)
    OBVIOUS
  <2>1. InTwo(T[n], a, base, size, n) /\ n \in Nat
    BY <1>4
  <2>2. T[n + 1] = ScanBoth(T[n], base, size)
    <3>1. n + 1 \in 0..size /\ n + 1 # 0 /\ (n + 1) - 1 = n
      BY <1>4
    <3> HIDE DEF S
    <3> QED BY <1>2, <3>1 DEF TwoWayRow
  <2> QED BY <2>1, <2>2, TwoTurn
<1>5. S \in SUBSET Nat
  OBVIOUS
<1> HIDE DEF S
<1>6. size \in S
  BY <1>3, <1>4, <1>5, FromPrevious
<1>7. InTwo(l, a, base, size, size)
  BY <1>6 DEF S
<1> HIDE DEF l, v, r
<1>8. /\ Rearranged(a, l.a, base, size) /\ Elem(l.a, base, 0) = v
      /\ l.met \in BOOLEAN /\ l.i \in 1..size /\ l.j \in 0..size - 1
      /\ AtMost(l.a, base, v, 1, l.i - 1) /\ AtLeast(l.a, base, v, l.j + 1, size - 1)
      /\ l.met => AtMost(l.a, base, v, 1, l.j)
      /\ ~l.met /\ l.i <= l.j => l.j - l.i <= size - 2 - size
  BY <1>7 DEF InTwo, v
<1>9. AtMost(l.a, base, v, 1, l.j)
  <2>1. CASE l.met
    BY <1>8, <2>1
  <2>2. CASE ~l.met
    <3>1. ~(l.i <= l.j)
      BY <1>8, <2>2
    <3>2. \A k \in 1..l.j : k \in 1..l.i - 1
      BY <1>8, <3>1
    <3> QED BY <1>8, <3>2 DEF AtMost
  <2> QED BY <2>1, <2>2
<1>10. r[1] = l.a /\ r[2] = l.j + 1 /\ r[3] = l.j + 1
  BY DEF r
<1> DEFINE e == l.j + 1
<1>11. e \in 1..size /\ e \in e..size /\ e - 1 = l.j
  BY <1>8
<1>12. AtMost(l.a, base, v, e, e - 1) /\ AtLeast(l.a, base, v, e, e - 1)
  <2>1. \A k \in e..e - 1 : FALSE
    BY <1>11
  <2> HIDE DEF e
  <2> QED BY <2>1 DEF AtMost, AtLeast
<1>13. AtLeast(l.a, base, v, e, size - 1)
  BY <1>8
<1> HIDE DEF e
<1>14. r[2] = e /\ r[3] = e
  BY <1>10 DEF e
<1>15. IsSplit(a, base, size, r)
  BY <1>8, <1>9, <1>10, <1>11, <1>12, <1>13, <1>14 DEF IsSplit, v
<1> QED BY <1>1, <1>15

-----------------------------------------------------------------------------
(* The partition in three.                                                 *)

Less(a, base, v, from, to) == \A k \in from..to : Elem(a, base, k) < v
Equal(a, base, v, from, to) == \A k \in from..to : Elem(a, base, k) = v
Greater(a, base, v, from, to) == \A k \in from..to : Elem(a, base, k) > v

(* The parts of the three-way partition: before i, from i to k not yet     *)
(* known, up to j, and after j.                                            *)
InThree(s, a, base, size) ==
    /\ Rearranged(a, s.a, base, size) /\ Elem(s.a, base, 0) = Elem(a, base, 0)
    /\ s.i \in 1..size /\ s.j \in 0..size - 1 /\ s.k \in 0..s.j /\ s.i <= s.k + 1
    /\ Less(s.a, base, Elem(a, base, 0), 1, s.i - 1)
    /\ Equal(s.a, base, Elem(a, base, 0), s.k + 1, s.j)
    /\ Greater(s.a, base, Elem(a, base, 0), s.j + 1, size - 1)

(* An exchange of k and j, the latter of which is the pivot or k itself.   *)
LEMMA MoveRightKeeps ==
    ASSUME NEW a \in Seq(Int), NEW base \in Nat, NEW size \in Nat, InArray(a, base, size),
           NEW s, InThree(s, a, base, size), Elem(s.a, base, 0) < Elem(s.a, base, s.k)
    PROVE  /\ InThree(MoveRight(s, base), a, base, size)
           /\ MoveRight(s, base).i = s.i /\ MoveRight(s, base).k = s.k - 1
<1> DEFINE v == Elem(a, base, 0)
           b == s.a
           I == s.i
           J == s.j
           K == s.k
           c == Swap(b, base + K, base + J)
           z == MoveRight(s, base)
           p == J - 1
           q == K - 1
<1>1. /\ Rearranged(a, b, base, size) /\ Elem(b, base, 0) = v
      /\ I \in 1..size /\ J \in 0..size - 1 /\ K \in 0..J /\ I <= K + 1
      /\ Less(b, base, v, 1, I - 1) /\ Equal(b, base, v, K + 1, J) /\ Greater(b, base, v, J + 1, size - 1)
  BY DEF InThree
<1>2. b \in Seq(Int) /\ InArray(b, base, size)
  BY <1>1, RearrangedIn
<1>3. z = [a |-> c, i |-> I, j |-> p, k |-> q]
  <2>1. Elem(b, base, 0) = b[base] /\ Elem(b, base, K) = b[base + K]
    BY DEF Elem
  <2>2. b[base] < b[base + K]
    BY <2>1
  <2> QED BY <2>2 DEF MoveRight
<1> HIDE DEF b, I, J, K, z
<1>4. z.a = c /\ z.i = I /\ z.j = p /\ z.k = q
  BY <1>3
<1>5. v \in Int /\ \A k \in 0..size - 1 : Elem(b, base, k) \in Int
  BY <1>1, <1>2, ElemIs
<1>6. v < Elem(b, base, K)
  BY <1>1 DEF b, K
<1> HIDE DEF v
<1>7. K \in 1..size - 1 /\ J \in 1..size - 1 /\ K \in 0..size - 1 /\ J \in 0..size - 1 /\ 0 \in 0..size - 1
      /\ K <= J /\ I <= K
  <2>1. K \in 0..size - 1
    BY <1>1
  <2>2. K # 0
    BY <1>1, <1>5, <1>6, <2>1
  <2>3. I # K + 1
    <3> SUFFICES ASSUME I = K + 1 PROVE FALSE
      OBVIOUS
    <3>1. K \in 1..I - 1
      BY <1>1, <2>2
    <3>2. Elem(b, base, K) < v
      BY <1>1, <3>1 DEF Less
    <3>3. Elem(b, base, K) \in Int
      BY <1>5, <2>1
    <3> QED BY <1>5, <1>6, <3>2, <3>3
  <2> QED BY <1>1, <2>1, <2>2, <2>3
<1>8. /\ Rearranged(b, c, base, size)
      /\ Elem(c, base, K) = Elem(b, base, J) /\ Elem(c, base, J) = Elem(b, base, K)
      /\ \A k \in 0..size - 1 : k # K /\ k # J => Elem(c, base, k) = Elem(b, base, k)
  <2>1. K \in 0..size - 1 /\ J \in 0..size - 1
    BY <1>7
  <2>2. IsSwap(b, c, base, size, K, J)
    BY <1>2, <2>1, SwapRearranges
  <2> QED BY <2>2 DEF IsSwap
<1> HIDE DEF c
<1>9. Rearranged(a, c, base, size)
  BY <1>1, <1>8, RearrangedAgain
<1>10. Elem(c, base, 0) = v
  <2>1. 0 # K /\ 0 # J
    BY <1>7
  <2> QED BY <1>1, <1>7, <1>8, <2>1
<1>11. Less(c, base, v, 1, I - 1)
  <2> SUFFICES ASSUME NEW k \in 1..I - 1 PROVE Elem(c, base, k) < v
    BY DEF Less
  <2>1. k \in 0..size - 1 /\ k # K /\ k # J
    BY <1>1, <1>7
  <2>2. Elem(b, base, k) < v
    BY <1>1 DEF Less
  <2> QED BY <1>8, <2>1, <2>2
<1>12. ASSUME NEW k \in K..J - 1 PROVE Elem(c, base, k) = v
  <2>1. CASE k = K
    <3>1. J \in K + 1..J
      BY <1>7, <1>12, <2>1
    <3> QED BY <1>1, <1>8, <2>1, <3>1 DEF Equal
  <2>2. CASE k # K
    <3>1. k \in K + 1..J /\ k \in 0..size - 1 /\ k # J
      BY <1>7, <1>12, <2>2
    <3> QED BY <1>1, <1>8, <2>2, <3>1 DEF Equal
  <2> QED BY <2>1, <2>2
<1>13. ASSUME NEW k \in J..size - 1 PROVE Elem(c, base, k) > v
  <2>1. CASE k = J
    BY <1>5, <1>6, <1>7, <1>8, <2>1
  <2>2. CASE k # J
    <3>1. k \in J + 1..size - 1 /\ k \in 0..size - 1 /\ k # K
      BY <1>7, <1>13, <2>2
    <3> QED BY <1>1, <1>8, <2>2, <3>1 DEF Greater
  <2> QED BY <2>1, <2>2
<1>14. q + 1 = K /\ p + 1 = J /\ p \in 0..size - 1 /\ q \in 0..p /\ I <= q + 1 /\ J - 1 = p
  BY <1>1, <1>7
<1> HIDE DEF p, q
<1>15. Equal(c, base, v, q + 1, p) /\ Greater(c, base, v, p + 1, size - 1)
  BY <1>12, <1>13, <1>14 DEF Equal, Greater
<1>16. InThree(z, a, base, size)
  BY <1>1, <1>4, <1>9, <1>10, <1>11, <1>14, <1>15 DEF InThree, v
<1> QED BY <1>4, <1>16 DEF z, q, I, K

Settled(s, base) == ~(Elem(s.a, base, 0) < Elem(s.a, base, s.k))

(* Moving an element exchanges it with one further left,                   *)
LEMMA MoveStays ==
    ASSUME NEW s, NEW base \in Nat, Settled(s, base) PROVE MoveRight(s, base) = s
<1>1. base + 0 = base
  OBVIOUS
<1> QED BY <1>1 DEF Settled, Elem, MoveRight

Moving(z, s, a, base, size, n) ==
    /\ InThree(z, a, base, size) /\ z.i = s.i /\ z.k <= s.k
    /\ Settled(z, base) \/ z.k <= s.k - n

(* and keeps what has been moved.                                          *)
LEMMA MoveTurn ==
    ASSUME NEW a \in Seq(Int), NEW base \in Nat, NEW size \in Nat, InArray(a, base, size),
           NEW s, s.k \in Nat, NEW n \in Nat, NEW z, Moving(z, s, a, base, size, n)
    PROVE  Moving(MoveRight(z, base), s, a, base, size, n + 1)
<1>1. CASE Settled(z, base)
  BY <1>1, MoveStays DEF Moving
<1>2. CASE ~Settled(z, base)
  <2> DEFINE y == MoveRight(z, base)
  <2>1. InThree(z, a, base, size) /\ z.i = s.i /\ z.k <= s.k /\ z.k <= s.k - n /\ z.k \in Nat
    BY <1>2 DEF Moving, InThree
  <2>2. Elem(z.a, base, 0) < Elem(z.a, base, z.k)
    BY <1>2 DEF Settled
  <2>3. InThree(y, a, base, size) /\ y.i = z.i /\ y.k = z.k - 1
    BY <2>1, <2>2, MoveRightKeeps
  <2> HIDE DEF y
  <2>4. y.k <= s.k /\ y.k <= s.k - (n + 1)
    BY <2>1, <2>3
  <2>5. Moving(y, s, a, base, size, n + 1)
    BY <2>1, <2>3, <2>4 DEF Moving
  <2> QED BY <2>5 DEF y
<1> QED BY <1>1, <1>2

(* The elements that are greater go right, until the one at k is not.      *)
LEMMA MoveGreaterIs ==
    ASSUME NEW a \in Seq(Int), NEW base \in Nat, NEW size \in Nat, InArray(a, base, size),
           NEW s, InThree(s, a, base, size)
    PROVE  /\ InThree(MoveGreater(s, base), a, base, size) /\ Settled(MoveGreater(s, base), base)
           /\ MoveGreater(s, base).i = s.i /\ MoveGreater(s, base).k <= s.k
<1> DEFINE n == s.k
           T == CHOOSE g : g = [m \in 0..n |-> MoveRow(g, m, s, base)]
           S == {m \in Nat : m <= n => Moving(T[m], s, a, base, size, m)}
           l == T[n]
<1>0. n \in Nat
  BY DEF InThree, InArray
<1>1. MoveGreater(s, base) = l
  BY DEF MoveGreater, MoveRow
<1>2. T = [m \in 0..n |-> MoveRow(T, m, s, base)]
  <2>1. \E g : g = [m \in 0..n |-> MoveRow(g, m, s, base)]
    <3> HIDE DEF T
    <3> HIDE DEF n
    <3>1. HasMove(n, s, base)
      BY <1>0, MoveExists
    <3> QED BY <3>1 DEF HasMove
  <2> QED BY <2>1
<1> HIDE DEF T
<1>3. 0 \in S
  <2>1. T[0] = s
    BY <1>0, <1>2 DEF MoveRow
  <2>2. Moving(s, s, a, base, size, 0)
    BY <1>0 DEF Moving
  <2> QED BY <2>1, <2>2
<1>4. ASSUME NEW m \in S PROVE m + 1 \in S
  <2> SUFFICES ASSUME m + 1 <= n PROVE Moving(T[m + 1], s, a, base, size, m + 1)
    OBVIOUS
  <2>1. Moving(T[m], s, a, base, size, m) /\ m \in Nat
    BY <1>0, <1>4
  <2>2. T[m + 1] = MoveRight(T[m], base)
    <3>1. m + 1 \in 0..n /\ m + 1 # 0 /\ (m + 1) - 1 = m
      BY <1>0, <1>4
    <3> HIDE DEF S, n
    <3> QED BY <1>2, <3>1 DEF MoveRow
  <2> QED BY <1>0, <2>1, <2>2, MoveTurn
<1>5. S \in SUBSET Nat
  OBVIOUS
<1> HIDE DEF S
<1>6. n \in S
  BY <1>0, <1>3, <1>4, <1>5, FromPrevious
<1>7. Moving(l, s, a, base, size, n)
  BY <1>0, <1>6 DEF S
<1> HIDE DEF l
<1>8. Settled(l, base)
  <2> SUFFICES ASSUME ~Settled(l, base) PROVE FALSE
    OBVIOUS
  <2>1. l.k <= n - n /\ l.k \in Nat
    BY <1>7 DEF Moving, InThree
  <2>2. l.k = 0
    BY <1>0, <2>1
  <2>3. Elem(l.a, base, 0) < Elem(l.a, base, 0)
    BY <2>2 DEF Settled
  <2>4. l.a \in Seq(Int) /\ InArray(l.a, base, size)
    BY <1>7, RearrangedIn DEF Moving, InThree
  <2>5. 0 \in 0..size - 1
    BY <1>7 DEF Moving, InThree
  <2>6. Elem(l.a, base, 0) \in Int
    BY <2>4, <2>5, ElemIs
  <2> QED BY <2>3, <2>6
<1> QED BY <1>1, <1>7, <1>8 DEF Moving

(* The element at k goes to the left part.                                 *)
LEMMA LessGoesLeft ==
    ASSUME NEW a \in Seq(Int), NEW base \in Nat, NEW size \in Nat, InArray(a, base, size),
           NEW s, InThree(s, a, base, size), s.i <= s.k, Elem(s.a, base, s.k) < Elem(s.a, base, 0)
    PROVE  InThree([a |-> Swap(s.a, base + s.i, base + s.k), i |-> s.i + 1, j |-> s.j, k |-> s.k],
                   a, base, size)
<1> DEFINE v == Elem(a, base, 0)
           b == s.a
           I == s.i
           J == s.j
           K == s.k
           c == Swap(b, base + I, base + K)
           p == I + 1
           z == [a |-> c, i |-> p, j |-> J, k |-> K]
<1>1. /\ Rearranged(a, b, base, size) /\ Elem(b, base, 0) = v
      /\ I \in 1..size /\ J \in 0..size - 1 /\ K \in 0..J /\ I <= K + 1
      /\ Less(b, base, v, 1, I - 1) /\ Equal(b, base, v, K + 1, J) /\ Greater(b, base, v, J + 1, size - 1)
  BY DEF InThree
<1>2. b \in Seq(Int) /\ InArray(b, base, size)
  BY <1>1, RearrangedIn
<1>3. I <= K /\ Elem(b, base, K) < v
  BY <1>1
<1>4. z.a = c /\ z.i = p /\ z.j = J /\ z.k = K
  OBVIOUS
<1> HIDE DEF b, I, J, K, z, v
<1>7. K \in 1..size - 1 /\ I \in 1..size - 1 /\ I \in 0..size - 1 /\ K \in 0..size - 1 /\ 0 \in 0..size - 1
  BY <1>1, <1>3
<1>8. /\ Rearranged(b, c, base, size)
      /\ Elem(c, base, I) = Elem(b, base, K) /\ Elem(c, base, K) = Elem(b, base, I)
      /\ \A k \in 0..size - 1 : k # I /\ k # K => Elem(c, base, k) = Elem(b, base, k)
  <2>1. I \in 0..size - 1 /\ K \in 0..size - 1
    BY <1>7
  <2>2. IsSwap(b, c, base, size, I, K)
    BY <1>2, <2>1, SwapRearranges
  <2> QED BY <2>2 DEF IsSwap
<1> HIDE DEF c
<1>9. Rearranged(a, c, base, size)
  BY <1>1, <1>8, RearrangedAgain
<1>10. Elem(c, base, 0) = v
  <2>1. 0 # K /\ 0 # I
    BY <1>7
  <2> QED BY <1>1, <1>7, <1>8, <2>1
<1>11. ASSUME NEW k \in 1..I PROVE Elem(c, base, k) < v
  <2>1. CASE k = I
    BY <1>3, <1>8, <2>1
  <2>2. CASE k # I
    <3>1. k \in 1..I - 1 /\ k \in 0..size - 1 /\ k # K
      BY <1>3, <1>7, <1>11, <2>2
    <3> QED BY <1>1, <1>8, <2>2, <3>1 DEF Less
  <2> QED BY <2>1, <2>2
<1>12. Equal(c, base, v, K + 1, J)
  <2> SUFFICES ASSUME NEW k \in K + 1..J PROVE Elem(c, base, k) = v
    BY DEF Equal
  <2>1. k \in 0..size - 1 /\ k # I /\ k # K
    BY <1>1, <1>3, <1>7
  <2> QED BY <1>1, <1>8, <2>1 DEF Equal
<1>13. Greater(c, base, v, J + 1, size - 1)
  <2> SUFFICES ASSUME NEW k \in J + 1..size - 1 PROVE Elem(c, base, k) > v
    BY DEF Greater
  <2>1. k \in 0..size - 1 /\ k # I /\ k # K
    BY <1>1, <1>3, <1>7
  <2> QED BY <1>1, <1>8, <2>1 DEF Greater
<1>14. p - 1 = I /\ p \in 1..size /\ p <= K + 1
  BY <1>3, <1>7
<1> HIDE DEF p
<1>15. Less(c, base, v, 1, p - 1)
  BY <1>11, <1>14 DEF Less
<1>16. InThree(z, a, base, size)
  BY <1>1, <1>4, <1>9, <1>10, <1>12, <1>13, <1>14, <1>15 DEF InThree, v
<1> QED BY <1>16 DEF z, c, p, b, I, J, K

(* The element at k equals the pivot.                                      *)
LEMMA EqualStays ==
    ASSUME NEW a \in Seq(Int), NEW base \in Nat, NEW size \in Nat, InArray(a, base, size),
           NEW s, InThree(s, a, base, size), s.i <= s.k, Elem(s.a, base, s.k) = Elem(s.a, base, 0)
    PROVE  InThree([a |-> s.a, i |-> s.i, j |-> s.j, k |-> s.k - 1], a, base, size)
<1> DEFINE v == Elem(a, base, 0)
           b == s.a
           I == s.i
           J == s.j
           K == s.k
           q == K - 1
           z == [a |-> b, i |-> I, j |-> J, k |-> q]
<1>1. /\ Rearranged(a, b, base, size) /\ Elem(b, base, 0) = v
      /\ I \in 1..size /\ J \in 0..size - 1 /\ K \in 0..J /\ I <= K + 1
      /\ Less(b, base, v, 1, I - 1) /\ Equal(b, base, v, K + 1, J) /\ Greater(b, base, v, J + 1, size - 1)
  BY DEF InThree
<1>3. I <= K /\ Elem(b, base, K) = v
  BY <1>1
<1>4. z.a = b /\ z.i = I /\ z.j = J /\ z.k = q
  OBVIOUS
<1> HIDE DEF b, I, J, K, z, v
<1>5. \A k \in K..J : Elem(b, base, k) = v
  <2> TAKE k \in K..J
  <2>1. k = K \/ k \in K + 1..J
    BY <1>1
  <2> QED BY <1>1, <1>3, <2>1 DEF Equal
<1>6. q + 1 = K /\ q \in 0..J /\ I <= q + 1
  BY <1>1, <1>3
<1> HIDE DEF q
<1>7. Equal(b, base, v, q + 1, J)
  BY <1>5, <1>6 DEF Equal
<1>8. InThree(z, a, base, size)
  BY <1>1, <1>4, <1>6, <1>7 DEF InThree, v
<1> QED BY <1>8 DEF z, q, b, I, J, K

Looping(s, a, base, size, n) ==
    /\ InThree(s, a, base, size) /\ Settled(s, base)
    /\ s.i <= s.k => s.k - s.i <= size - 2 - n

(* A turn of the scan in the middle keeps the invariant.                   *)
LEMMA ThreeTurn ==
    ASSUME NEW a \in Seq(Int), NEW base \in Nat, NEW size \in Nat, InArray(a, base, size),
           NEW n \in Nat, NEW s, Looping(s, a, base, size, n)
    PROVE  Looping(ScanMiddle(s, base), a, base, size, n + 1)
<1>1. InThree(s, a, base, size) /\ Settled(s, base) /\ (s.i <= s.k => s.k - s.i <= size - 2 - n)
  BY DEF Looping
<1>2. s.i \in Nat /\ s.k \in Nat /\ s.k \in 0..size - 1 /\ 0 \in 0..size - 1
  BY <1>1 DEF InThree
<1>3. CASE s.i > s.k
  <2>1. ScanMiddle(s, base) = s /\ ~(s.i <= s.k)
    BY <1>2, <1>3 DEF ScanMiddle
  <2> QED BY <1>1, <2>1 DEF Looping
<1>4. CASE ~(s.i > s.k)
  <2> DEFINE y == [a |-> Swap(s.a, base + s.i, base + s.k), i |-> s.i + 1, j |-> s.j, k |-> s.k]
             x == [a |-> s.a, i |-> s.i, j |-> s.j, k |-> s.k - 1]
             z == ScanMiddle(s, base)
             w == IF Elem(s.a, base, s.k) < Elem(s.a, base, 0) THEN y ELSE x
  <2>1. z = MoveGreater(w, base)
    <3>1. base + 0 = base
      OBVIOUS
    <3> QED BY <1>4, <3>1 DEF ScanMiddle, Elem
  <2>2. s.i <= s.k /\ s.k - s.i <= size - 2 - n
    BY <1>1, <1>2, <1>4
  <2>3. w.k - w.i <= size - 2 - (n + 1) /\ w.k \in Int /\ w.i \in Int
    <3>1. s.k - (s.i + 1) <= size - 2 - (n + 1) /\ (s.k - 1) - s.i <= size - 2 - (n + 1)
      BY <1>2, <2>2
    <3>2. w = y \/ w = x
      OBVIOUS
    <3> HIDE DEF w
    <3>3. y.k = s.k /\ y.i = s.i + 1 /\ x.k = s.k - 1 /\ x.i = s.i
      OBVIOUS
    <3> HIDE DEF x, y
    <3> QED BY <1>2, <3>1, <3>2, <3>3
  <2>4. InThree(w, a, base, size)
    <3>1. CASE Elem(s.a, base, s.k) < Elem(s.a, base, 0)
      <4>1. InThree(y, a, base, size)
        BY <1>1, <2>2, <3>1, LessGoesLeft
      <4> QED BY <3>1, <4>1
    <3>2. CASE ~(Elem(s.a, base, s.k) < Elem(s.a, base, 0))
      <4>1. s.a \in Seq(Int) /\ InArray(s.a, base, size)
        BY <1>1, RearrangedIn DEF InThree
      <4>2. Elem(s.a, base, s.k) \in Int /\ Elem(s.a, base, 0) \in Int
        BY <1>2, <4>1, ElemIs
      <4>3. Elem(s.a, base, s.k) = Elem(s.a, base, 0)
        BY <1>1, <3>2, <4>2 DEF Settled
      <4>4. InThree(x, a, base, size)
        BY <1>1, <2>2, <4>3, EqualStays
      <4> QED BY <3>2, <4>4
    <3> QED BY <3>1, <3>2
  <2> HIDE DEF w, z
  <2>5. InThree(z, a, base, size) /\ Settled(z, base) /\ z.i = w.i /\ z.k <= w.k
    BY <2>1, <2>4, MoveGreaterIs
  <2>6. z.k - z.i <= size - 2 - (n + 1)
    <3>1. z.k \in Int
      BY <2>5 DEF InThree
    <3> QED BY <2>3, <2>5, <3>1
  <2>7. Looping(z, a, base, size, n + 1)
    BY <2>5, <2>6 DEF Looping
  <2> QED BY <2>7 DEF z
<1> QED BY <1>3, <1>4

(* After the partition in three what is equal to the pivot is between what *)
(* is less and what is greater.                                            *)
LEMMA ThreeWayIs ==
    ASSUME NEW a \in Seq(Int), NEW base \in Nat, NEW size \in Nat, InArray(a, base, size), size >= 2,
           SomeAtLeast(a, base, Elem(a, base, 0), 1, size - 1)
    PROVE  IsSplit(a, base, size, ThreeWay(a, base, size))
<1> DEFINE f == FromRight(a, base, size - 1)
           T == CHOOSE g : g = [m \in 0..size |-> ThreeWayRow(g, m, a, base, size, f)]
           S == {m \in Nat : m <= size => Looping(T[m], a, base, size, m)}
           l == T[size]
           v == Elem(a, base, 0)
           r == <<l.a, l.i, l.j + 1>>
<1>1. ThreeWay(a, base, size) = r
  BY DEF ThreeWay, ThreeWayRow
<1>2. T = [m \in 0..size |-> ThreeWayRow(T, m, a, base, size, f)]
  <2>1. \E g : g = [m \in 0..size |-> ThreeWayRow(g, m, a, base, size, f)]
    <3> HIDE DEF T, f
    <3>1. HasThreeWay(size, a, base, size, f)
      BY ThreeWayExists
    <3> QED BY <3>1 DEF HasThreeWay
  <2> QED BY <2>1
<1> HIDE DEF T
<1>3. 0 \in S
  <2> DEFINE t == T[0]
             e == FromLeft(a, base, size, 1)
             y == size - 1
  <2>1. t = [a |-> a, i |-> e, j |-> f, k |-> f]
    BY <1>2 DEF ThreeWayRow
  <2> HIDE DEF t
  <2>2. t.a = a /\ t.i = e /\ t.j = f /\ t.k = f
    BY <2>1
  <2>3. f \in 0..y /\ Elem(a, base, f) <= v /\ \A k \in f + 1..y : Elem(a, base, k) > v
    <3>1. y \in 0..size - 1
      OBVIOUS
    <3>2. FromRight(a, base, y) = f
      OBVIOUS
    <3> HIDE DEF y, f
    <3> QED BY <3>1, <3>2, FromRightIs
  <2>4. e \in 1..y /\ \A k \in 1..e - 1 : Elem(a, base, k) < v
    <3>1. 1 \in 0..size - 1
      OBVIOUS
    <3> QED BY <3>1, FromLeftIs
  <2> HIDE DEF e, f
  <2>5. \A k \in 0..y : Elem(a, base, k) \in Int
    BY ElemIs
  <2>6. e <= f + 1
    <3> SUFFICES ASSUME ~(e <= f + 1) PROVE FALSE
      OBVIOUS
    <3> DEFINE k == f + 1
    <3>1. k \in 1..e - 1 /\ k \in f + 1..y /\ k \in 0..y /\ 0 \in 0..y
      BY <2>3, <2>4
    <3> HIDE DEF k
    <3>2. Elem(a, base, k) < v /\ Elem(a, base, k) > v
      BY <2>3, <2>4, <3>1
    <3>3. Elem(a, base, k) \in Int /\ v \in Int
      BY <2>5, <3>1
    <3> QED BY <3>2, <3>3
  <2>7. Less(a, base, v, 1, e - 1) /\ Equal(a, base, v, f + 1, f) /\ Greater(a, base, v, f + 1, y)
    <3>1. \A k \in f + 1..f : FALSE
      BY <2>3
    <3> QED BY <2>3, <2>4, <3>1 DEF Less, Equal, Greater
  <2>8. e \in 1..size /\ f \in 0..f
    BY <2>3, <2>4
  <2>9. Rearranged(a, a, base, size)
    BY RearrangedSelf
  <2>10. Settled(t, base)
    <3>1. 0 \in 0..y /\ f \in 0..y
      BY <2>3
    <3>2. Elem(a, base, f) \in Int /\ v \in Int
      BY <2>5, <3>1
    <3>3. ~(Elem(a, base, 0) < Elem(a, base, f))
      BY <2>3, <3>2
    <3> QED BY <2>2, <3>3 DEF Settled
  <2>11. e <= f => f - e <= size - 2 - 0
    BY <2>3, <2>4
  <2>12. InThree(t, a, base, size)
    BY <2>2, <2>3, <2>6, <2>7, <2>8, <2>9 DEF InThree
  <2>13. Looping(t, a, base, size, 0)
    BY <2>2, <2>10, <2>11, <2>12 DEF Looping
  <2> QED BY <2>13 DEF t
<1>4. ASSUME NEW n \in S PROVE n + 1 \in S
  <2> SUFFICES ASSUME n + 1 <= size PROVE Looping(T[n + 1], a, base, size, n + 1)
    OBVIOUS
  <2>1. Looping(T[n], a, base, size, n) /\ n \in Nat
    BY <1>4
  <2>2. T[n + 1] = ScanMiddle(T[n], base)
    <3>1. n + 1 \in 0..size /\ n + 1 # 0 /\ (n + 1) - 1 = n
      BY <1>4
    <3> HIDE DEF S, f
    <3> QED BY <1>2, <3>1 DEF ThreeWayRow
  <2> QED BY <2>1, <2>2, ThreeTurn
<1>5. S \in SUBSET Nat
  OBVIOUS
<1> HIDE DEF S
<1>6. size \in S
  BY <1>3, <1>4, <1>5, FromPrevious
<1>7. Looping(l, a, base, size, size)
  BY <1>6 DEF S
<1> DEFINE b == l.a
           I == l.i
           J == l.j
           K == l.k
<1>8. /\ Rearranged(a, b, base, size) /\ Elem(b, base, 0) = v
      /\ I \in 1..size /\ J \in 0..size - 1 /\ K \in 0..J /\ I <= K + 1
      /\ Less(b, base, v, 1, I - 1) /\ Equal(b, base, v, K + 1, J) /\ Greater(b, base, v, J + 1, size - 1)
      /\ (I <= K => K - I <= size - 2 - size)
      /\ ~(Elem(b, base, 0) < Elem(b, base, K))
  <2> HIDE DEF v
  <2> QED BY <1>7 DEF Looping, InThree, Settled, v
<1>8a. r[1] = b /\ r[2] = I /\ r[3] = J + 1
  OBVIOUS
<1> HIDE DEF r, b, I, J, K, v
<1>9. I = K + 1
  BY <1>8
<1>10. b \in Seq(Int) /\ InArray(b, base, size)
  BY <1>8, RearrangedIn
<1>11. v \in Int /\ \A k \in 0..size - 1 : Elem(b, base, k) \in Int
  BY <1>8, <1>10, ElemIs
<1>12. \A k \in 1..I - 1 : Elem(b, base, k) <= v
  <2> TAKE k \in 1..I - 1
  <2>1. Elem(b, base, k) < v /\ k \in 0..size - 1
    BY <1>8 DEF Less
  <2> QED BY <1>11, <2>1
<1>13. \A k \in J + 1..size - 1 : Elem(b, base, k) >= v
  <2> TAKE k \in J + 1..size - 1
  <2>1. Elem(b, base, k) > v /\ k \in 0..size - 1
    BY <1>8 DEF Greater
  <2> QED BY <1>11, <2>1
<1>14. \A k \in I..J : Elem(b, base, k) = v
  BY <1>8, <1>9 DEF Equal
<1> DEFINE e == J + 1
<1>15. e \in I..size /\ e - 1 = J
  BY <1>8, <1>9
<1> HIDE DEF e
<1>16. AtMost(b, base, v, 1, I - 1) /\ AtMost(b, base, v, I, e - 1)
       /\ AtLeast(b, base, v, I, e - 1) /\ AtLeast(b, base, v, e, size - 1)
  <2>1. AtMost(b, base, v, 1, I - 1)
    BY <1>12 DEF AtMost
  <2>2. AtLeast(b, base, v, e, size - 1)
    BY <1>13 DEF AtLeast, e
  <2>3. AtMost(b, base, v, I, e - 1) /\ AtLeast(b, base, v, I, e - 1)
    <3>1. v <= v /\ v >= v
      BY <1>11
    <3>2. \A k \in I..J : Elem(b, base, k) <= v /\ Elem(b, base, k) >= v
      BY <1>14, <3>1
    <3> QED BY <1>15, <3>2 DEF AtMost, AtLeast
  <2> QED BY <2>1, <2>2, <2>3
<1>17. r[3] = e
  BY <1>8a DEF e
<1>18. IsSplit(a, base, size, r)
  BY <1>8, <1>8a, <1>15, <1>16, <1>17 DEF IsSplit, v
<1> QED BY <1>1, <1>18

-----------------------------------------------------------------------------
(* Both partitions, and the recursion of quicksort.                        *)

(* The pivot, or more elements that equal it, between the two parts.       *)
IsPartition(a, base, size, v, r) ==
    /\ Rearranged(a, r[1], base, size) /\ v \in Int
    /\ r[2] \in 0..size - 1 /\ r[3] \in r[2] + 1..size
    /\ AtMost(r[1], base, v, 0, r[2] - 1)
    /\ AtMost(r[1], base, v, r[2], r[3] - 1)
    /\ AtLeast(r[1], base, v, r[2], r[3] - 1)
    /\ AtLeast(r[1], base, v, r[3], size - 1)

(* The pivot goes to the first place.                                      *)
LEMMA PivotFirst ==
    ASSUME NEW a \in Seq(Int), NEW base \in Nat, NEW size \in Nat, InArray(a, base, size), size >= 2,
           NEW p, IsPivot(a, base, size, p)
    PROVE  LET b == Swap(a, base, p)
           IN /\ Rearranged(a, b, base, size)
              /\ SomeAtLeast(b, base, Elem(b, base, 0), 1, size - 1)
<1>1. PICK n, m \in 0..size - 1 : p = base + n /\ m # n /\ Elem(a, base, m) >= Elem(a, base, n)
  BY DEF IsPivot
<1> DEFINE b == Swap(a, base, p)
<1>2. b = Swap(a, base + 0, base + n) /\ 0 \in 0..size - 1
  BY <1>1
<1>3. IsSwap(a, b, base, size, 0, n)
  <2>1. IsSwap(a, Swap(a, base + 0, base + n), base, size, 0, n)
    BY <1>2, SwapRearranges
  <2> QED BY <1>2, <2>1
<1> HIDE DEF b
<1>4. /\ Rearranged(a, b, base, size) /\ Elem(b, base, 0) = Elem(a, base, n)
      /\ Elem(b, base, n) = Elem(a, base, 0)
      /\ \A j \in 0..size - 1 : j # 0 /\ j # n => Elem(b, base, j) = Elem(a, base, j)
  BY <1>3 DEF IsSwap
<1>5. \E k \in 1..size - 1 : Elem(b, base, k) >= Elem(b, base, 0)
  <2>1. CASE m = 0
    <3>1. n \in 1..size - 1
      BY <1>1, <2>1
    <3>2. Elem(b, base, n) >= Elem(b, base, 0)
      BY <1>1, <1>4, <2>1
    <3> QED BY <3>1, <3>2
  <2>2. CASE m # 0
    <3>1. m \in 1..size - 1
      BY <2>2
    <3>2. Elem(b, base, m) = Elem(a, base, m)
      BY <1>1, <1>4, <2>2
    <3> QED BY <1>1, <1>4, <3>1, <3>2
  <2> QED BY <2>1, <2>2
<1>6. SomeAtLeast(b, base, Elem(b, base, 0), 1, size - 1)
  BY <1>5 DEF SomeAtLeast
<1> QED BY <1>4, <1>6 DEF b

(* Then it goes between the two sides, which are sorted apart.             *)
LEMMA PivotBetween ==
    ASSUME NEW a \in Seq(Int), NEW base \in Nat, NEW size \in Nat, InArray(a, base, size), size >= 2,
           NEW r, IsSplit(a, base, size, r)
    PROVE  IsPartition(a, base, size, Elem(a, base, 0),
                       <<Swap(r[1], base, base + r[2] - 1), r[2] - 1, r[3]>>)
<1> DEFINE b == r[1]
           v == Elem(a, base, 0)
           d == r[2] - 1
           e == r[3]
           c == Swap(b, base, base + r[2] - 1)
           z == <<c, d, e>>
<1>1. /\ Rearranged(a, b, base, size) /\ Elem(b, base, 0) = v
      /\ d \in 0..size - 1 /\ e \in d + 1..size /\ r[2] = d + 1
      /\ AtMost(b, base, v, 1, d) /\ AtMost(b, base, v, d + 1, e - 1)
      /\ AtLeast(b, base, v, d + 1, e - 1) /\ AtLeast(b, base, v, e, size - 1)
  <2> DEFINE q == r[2]
  <2>1. /\ Rearranged(a, b, base, size) /\ Elem(b, base, 0) = v
        /\ q \in 1..size /\ e \in q..size
        /\ AtMost(b, base, v, 1, q - 1) /\ AtMost(b, base, v, q, e - 1)
        /\ AtLeast(b, base, v, q, e - 1) /\ AtLeast(b, base, v, e, size - 1)
    BY DEF IsSplit
  <2>2. q = d + 1 /\ q - 1 = d
    BY <2>1
  <2> HIDE DEF d, b, e, v
  <2> QED BY <2>1, <2>2
<1>2. b \in Seq(Int) /\ InArray(b, base, size)
  BY <1>1, RearrangedIn
<1>3. c = Swap(b, base + 0, base + d) /\ 0 \in 0..size - 1
  BY <1>1
<1>4. z[1] = c /\ z[2] = d /\ z[3] = e
  OBVIOUS
<1> HIDE DEF b, v, d, e, z
<1>5. IsSwap(b, c, base, size, 0, d)
  <2>1. IsSwap(b, Swap(b, base + 0, base + d), base, size, 0, d)
    BY <1>1, <1>2, <1>3, SwapRearranges
  <2> QED BY <1>3, <2>1
<1> HIDE DEF c
<1>6. /\ Rearranged(b, c, base, size) /\ Elem(c, base, 0) = Elem(b, base, d)
      /\ Elem(c, base, d) = v
      /\ \A j \in 0..size - 1 : j # 0 /\ j # d => Elem(c, base, j) = Elem(b, base, j)
  BY <1>1, <1>5 DEF IsSwap
<1>7. Rearranged(a, c, base, size)
  BY <1>1, <1>6, RearrangedAgain
<1>8. v \in Int
  BY <1>1, <1>2, <1>3, ElemIs
<1>9. AtMost(c, base, v, 0, d - 1)
  <2> SUFFICES ASSUME NEW k \in 0..d - 1 PROVE Elem(c, base, k) <= v
    BY DEF AtMost
  <2>1. CASE k = 0
    <3>1. d \in 1..d
      BY <1>1, <2>1
    <3> QED BY <1>1, <1>6, <2>1, <3>1 DEF AtMost
  <2>2. CASE k # 0
    <3>1. k \in 0..size - 1 /\ k # d /\ k \in 1..d
      BY <1>1, <2>2
    <3> QED BY <1>1, <1>6, <2>2, <3>1 DEF AtMost
  <2> QED BY <2>1, <2>2
<1>10. ASSUME NEW k \in d..e - 1 PROVE Elem(c, base, k) <= v /\ Elem(c, base, k) >= v
  <2>1. CASE k = d
    <3>1. v <= v /\ v >= v
      BY <1>8
    <3> QED BY <1>6, <2>1, <3>1
  <2>2. CASE k # d
    <3>1. k \in 0..size - 1 /\ k # 0 /\ k \in d + 1..e - 1
      BY <1>1, <2>2
    <3> QED BY <1>1, <1>6, <2>2, <3>1 DEF AtMost, AtLeast
  <2> QED BY <2>1, <2>2
<1>11. AtLeast(c, base, v, e, size - 1)
  <2> SUFFICES ASSUME NEW k \in e..size - 1 PROVE Elem(c, base, k) >= v
    BY DEF AtLeast
  <2>1. k \in 0..size - 1 /\ k # 0 /\ k # d
    BY <1>1
  <2> QED BY <1>1, <1>6, <2>1 DEF AtLeast
<1>12. AtMost(c, base, v, d, e - 1) /\ AtLeast(c, base, v, d, e - 1)
  BY <1>10 DEF AtMost, AtLeast
<1>13. IsPartition(a, base, size, v, z)
  BY <1>1, <1>4, <1>7, <1>8, <1>9, <1>11, <1>12 DEF IsPartition
<1> QED BY <1>13 DEF z, c, d, e, b, v

(* Both partitions divide the range in a left side, a middle and a right   *)
(* side, none of one greater than any of the next.                         *)
LEMMA PartitionIs ==
    ASSUME NEW a \in Seq(Int), NEW base \in Nat, NEW size \in Nat, InArray(a, base, size),
           NEW chunk \in Nat, size > chunk, size > 3, NEW div
    PROVE  \E v : IsPartition(a, base, size, v, Partition(a, base, size, div, chunk))
<1> DEFINE p == _Select_median_pivot(a, base, size, chunk)
           b == Swap(a, base, p[1])
           r == IF p[2] /\ div < _MAX_NUM_TASKS_PER_CORE THEN ThreeWay(b, base, size)
                ELSE TwoWay(b, base, size)
           z == <<Swap(r[1], base, base + r[2] - 1), r[2] - 1, r[3]>>
           v == Elem(b, base, 0)
<1>1. Partition(a, base, size, div, chunk) = z
  BY DEF Partition
<1>2. IsPivot(a, base, size, p[1]) /\ size >= 2
  BY SelectIsPivot
<1> HIDE DEF p
<1>3. Rearranged(a, b, base, size) /\ SomeAtLeast(b, base, v, 1, size - 1)
  BY <1>2, PivotFirst
<1> HIDE DEF b
<1>4. b \in Seq(Int) /\ InArray(b, base, size)
  BY <1>3, RearrangedIn
<1>5. IsSplit(b, base, size, r)
  <2>1. IsSplit(b, base, size, TwoWay(b, base, size))
    BY <1>2, <1>3, <1>4, TwoWayIs
  <2>2. IsSplit(b, base, size, ThreeWay(b, base, size))
    BY <1>2, <1>3, <1>4, ThreeWayIs
  <2> QED BY <2>1, <2>2
<1> HIDE DEF r
<1>6. IsPartition(b, base, size, v, z)
  BY <1>2, <1>4, <1>5, PivotBetween
<1> HIDE DEF z, v
<1>7. IsPartition(a, base, size, v, z)
  <2>1. Rearranged(b, z[1], base, size)
    BY <1>6 DEF IsPartition
  <2>2. Rearranged(a, z[1], base, size)
    BY <1>3, <2>1, RearrangedAgain
  <2> QED BY <1>6, <2>2 DEF IsPartition
<1> QED BY <1>1, <1>7

(* std::sort of a range.                                                   *)
LEMMA StdSortIs ==
    ASSUME NEW a \in Seq(Int), NEW base \in Nat, NEW size \in Nat, InArray(a, base, size)
    PROVE  /\ StdSort(a, base, size) \in Seq(Int) /\ Len(StdSort(a, base, size)) = Len(a)
           /\ Part(StdSort(a, base, size), base, size) = InOrder(Part(a, base, size))
           /\ SameOutside(a, StdSort(a, base, size), base, size)
<1> DEFINE p == Part(a, base, size)
           o == InOrder(p)
<1>1. p \in Seq(Int) /\ Len(p) = size
  BY PartIs
<1> HIDE DEF p
<1>2. o \in Seq(Int) /\ Len(o) = size
  BY <1>1, InOrderIs
<1>3. StdSort(a, base, size) = Put(a, base, o)
  BY DEF StdSort, p
<1> HIDE DEF o
<1>4. InArray(a, base, Len(o))
  BY <1>2
<1>5. Put(a, base, o) \in Seq(Int) /\ Len(Put(a, base, o)) = Len(a)
  BY <1>2, <1>4, PutIs
<1>6. Part(Put(a, base, o), base, Len(o)) = o /\ SameOutside(a, Put(a, base, o), base, Len(o))
  BY <1>2, <1>4, PutParts
<1> QED BY <1>2, <1>3, <1>5, <1>6 DEF o, p

Joins(r, s, t) == r \o s = t

(* A range is its left side, its middle and its right side.                *)
LEMMA JoinedParts ==
    ASSUME NEW a \in Seq(Int), NEW base \in Nat, NEW m \in Nat, NEW n \in Nat,
           NEW c \in Nat, NEW u \in Nat, base >= 1, c = base + m, u = m + n, InArray(a, base, u)
    PROVE  Joins(Part(a, base, m), Part(a, c, n), Part(a, base, u))
<1>1. base + m + n <= Len(a) + 1
  BY DEF InArray
<1>2. Part(a, base, m) \o Part(a, base + m, n) = Part(a, base, m + n)
  BY <1>1, PartJoin
<1> QED BY <1>2 DEF Joins

(* What is sorted on one side does not change the other.                   *)
LEMMA PartStays ==
    ASSUME NEW a \in Seq(Int), NEW b \in Seq(Int), Len(b) = Len(a), NEW base \in Nat, NEW size \in Nat,
           NEW c \in Nat, NEW n \in Nat, InArray(a, c, n),
           SameOutside(a, b, base, size), c + n <= base \/ base + size <= c
    PROVE  Part(b, c, n) = Part(a, c, n)
BY PartOutside

(* Elements that are all equal are in order.                               *)
LEMMA EqualInOrder ==
    ASSUME NEW s \in Seq(Int), NEW v, \A i \in 1..Len(s) : s[i] = v
    PROVE  InOrder(s) = s
<1>1. DOMAIN s = 1..Len(s) /\ \A i \in DOMAIN s : s[i] \in Int
  OBVIOUS
<1>2. \A i, k \in DOMAIN s : s[i] <= s[k]
  BY <1>1
<1>3. Ascending(s) /\ Same(s, s)
  BY <1>2 DEF Ascending, Same
<1> QED BY <1>3, AscendingInOrder

(* The sides lie in the array.                                             *)
LEMMA PartBounds ==
    ASSUME NEW a \in Seq(Int), NEW base \in Nat, NEW from \in Nat, NEW n \in Nat, InArray(a, base + from, n),
           NEW v
    PROVE  LET p == Part(a, base + from, n)
           IN /\ p \in Seq(Int) /\ Len(p) = n
              /\ AtMost(a, base, v, from, from + n - 1) => \A i \in 1..n : p[i] <= v
              /\ AtLeast(a, base, v, from, from + n - 1) => \A i \in 1..n : p[i] >= v
<1> DEFINE c == base + from
           p == Part(a, c, n)
<1>0. c \in Nat
  OBVIOUS
<1>1. p \in Seq(Int) /\ Len(p) = n /\ \A i \in 1..n : p[i] = a[c + i - 1]
  <2> HIDE DEF c
  <2> QED BY <1>0, PartIs DEF c
<1> HIDE DEF p
<1>2. ASSUME NEW i \in 1..n PROVE p[i] = Elem(a, base, from + i - 1) /\ from + i - 1 \in from..from + n - 1
  <2>1. c + i - 1 = base + (from + i - 1)
    OBVIOUS
  <2>2. p[i] = a[c + i - 1]
    BY <1>1
  <2> QED BY <2>1, <2>2 DEF Elem
<1>3. AtMost(a, base, v, from, from + n - 1) => \A i \in 1..n : p[i] <= v
  BY <1>2 DEF AtMost
<1>4. AtLeast(a, base, v, from, from + n - 1) => \A i \in 1..n : p[i] >= v
  BY <1>2 DEF AtLeast
<1> QED BY <1>1, <1>3, <1>4 DEF p, c

(* Sorting what is left and what is right of the pivot sorts the range.    *)
LEMMA PartsInOrder ==
    ASSUME NEW b \in Seq(Int), NEW base \in Nat, NEW size \in Nat, InArray(b, base, size),
           NEW v \in Int, NEW m \in 0..size - 1, NEW e \in m + 1..size,
           AtMost(b, base, v, 0, m - 1), AtMost(b, base, v, m, e - 1),
           AtLeast(b, base, v, m, e - 1), AtLeast(b, base, v, e, size - 1)
    PROVE  (InOrder(Part(b, base, m)) \o Part(b, base + m, e - m)) \o InOrder(Part(b, base + e, size - e))
              = InOrder(Part(b, base, size))
<1> DEFINE k == e - m
           l == size - e
           p1 == Part(b, base, m)
           p2 == Part(b, base + m, k)
           p3 == Part(b, base + e, l)
           u == p1 \o p2
<1>0. Len(b) \in Nat /\ base >= 1 /\ base + size <= Len(b) + 1 /\ m \in Nat /\ e \in Nat /\ k \in Nat /\ l \in Nat
      /\ m + k = e /\ e + l = size
  BY DEF InArray
<1>1. /\ p1 \in Seq(Int) /\ Len(p1) = m /\ \A i \in 1..m : p1[i] <= v
  <2> DEFINE z == 0
             c == base + z
  <2>1. InArray(b, c, m) /\ z \in Nat /\ c = base /\ z + m - 1 = m - 1
    BY <1>0 DEF InArray
  <2>2. AtMost(b, base, v, z, z + m - 1)
    BY <2>1
  <2>3. /\ Part(b, base + z, m) \in Seq(Int) /\ Len(Part(b, base + z, m)) = m
        /\ \A i \in 1..m : Part(b, base + z, m)[i] <= v
    <3> HIDE DEF z
    <3> QED BY <1>0, <2>1, <2>2, PartBounds
  <2> HIDE DEF z
  <2> QED BY <2>1, <2>3
<1>2. /\ p2 \in Seq(Int) /\ Len(p2) = k /\ (\A i \in 1..k : p2[i] <= v) /\ (\A i \in 1..k : p2[i] >= v)
  <2>1. InArray(b, base + m, k) /\ m + k - 1 = e - 1
    BY <1>0 DEF InArray
  <2>2. AtMost(b, base, v, m, m + k - 1) /\ AtLeast(b, base, v, m, m + k - 1)
    BY <2>1
  <2> HIDE DEF k
  <2> QED BY <1>0, <2>1, <2>2, PartBounds
<1>3. /\ p3 \in Seq(Int) /\ Len(p3) = l /\ \A i \in 1..l : p3[i] >= v
  <2>1. InArray(b, base + e, l) /\ e + l - 1 = size - 1
    BY <1>0 DEF InArray
  <2>2. AtLeast(b, base, v, e, e + l - 1)
    BY <2>1
  <2> HIDE DEF l
  <2> QED BY <1>0, <2>1, <2>2, PartBounds
<1>4. u = Part(b, base, e)
  <2> DEFINE c == base + m
  <2>1. InArray(b, base, e) /\ c \in Nat /\ c = base + m /\ e = m + k
    BY <1>0 DEF InArray
  <2> HIDE DEF k, c
  <2>2. Part(b, base, m) \o Part(b, c, k) = Part(b, base, e)
    <3>1. Joins(Part(b, base, m), Part(b, c, k), Part(b, base, e))
      BY <1>0, <2>1, JoinedParts
    <3> QED BY <3>1 DEF Joins
  <2> QED BY <2>2 DEF c, k
<1>5. u \o p3 = Part(b, base, size)
  <2> DEFINE c == base + e
  <2>1. InArray(b, base, size) /\ c \in Nat /\ c = base + e /\ size = e + l
    BY <1>0 DEF InArray
  <2> HIDE DEF l, c
  <2>2. Part(b, base, e) \o Part(b, c, l) = Part(b, base, size)
    <3>1. Joins(Part(b, base, e), Part(b, c, l), Part(b, base, size))
      BY <1>0, <2>1, JoinedParts
    <3> QED BY <3>1 DEF Joins
  <2> QED BY <1>4, <2>2 DEF c, l
<1>6. InOrder(p2) = p2
  <2> HIDE DEF p2, k
  <2>1. \A i \in 1..Len(p2) : p2[i] = v
    <3> TAKE i \in 1..Len(p2)
    <3>1. p2[i] \in Int /\ p2[i] <= v /\ p2[i] >= v
      BY <1>2
    <3> QED BY <3>1
  <2> QED BY <1>2, <2>1, EqualInOrder
<1> HIDE DEF p1, p2, p3, k, l
<1>7. NoneGreater(p1, p2)
  <2> SUFFICES ASSUME NEW i \in 1..m, NEW j \in 1..k PROVE p1[i] <= p2[j]
    BY <1>1, <1>2 DEF NoneGreater
  <2>1. p1[i] \in Int /\ p2[j] \in Int /\ p1[i] <= v /\ p2[j] >= v
    BY <1>1, <1>2
  <2> QED BY <2>1
<1>8. u \in Seq(Int) /\ InOrder(p1) \o InOrder(p2) = InOrder(u)
  <2>1. u \in Seq(Int)
    BY <1>1, <1>2, JoinIs
  <2> QED BY <1>1, <1>2, <1>7, <2>1, OrdersJoin
<1>9. /\ u \in Seq(Int) /\ Len(u) = m + k
      /\ (\A i \in 1..m : u[i] = p1[i]) /\ \A i \in 1..k : u[m + i] = p2[i]
  <2>1. /\ u \in Seq(Int) /\ Len(u) = Len(p1) + Len(p2)
        /\ (\A i \in 1..Len(p1) : u[i] = p1[i]) /\ \A i \in 1..Len(p2) : u[Len(p1) + i] = p2[i]
    <3>1. p1 \in Seq(Int) /\ p2 \in Seq(Int)
      BY <1>1, <1>2
    <3> QED BY <3>1, JoinIs
  <2> QED BY <1>1, <1>2, <2>1
<1> HIDE DEF u
<1>10. NoneGreater(u, p3)
  <2> SUFFICES ASSUME NEW i \in 1..m + k, NEW j \in 1..l PROVE u[i] <= p3[j]
    BY <1>3, <1>9 DEF NoneGreater
  <2>1. u[i] \in Int /\ p3[j] \in Int /\ p3[j] >= v
    BY <1>3, <1>9
  <2>2. u[i] <= v
    <3>1. CASE i <= m
      <4>1. i \in 1..m
        BY <1>0, <3>1
      <4> QED BY <1>1, <1>9, <4>1
    <3>2. CASE ~(i <= m)
      <4> DEFINE q == i - m
      <4>1. q \in 1..k /\ m + q = i
        BY <1>0, <3>2
      <4> HIDE DEF q
      <4>2. u[i] = p2[q]
        BY <1>9, <4>1
      <4> QED BY <1>2, <4>1, <4>2
    <3> QED BY <3>1, <3>2
  <2> QED BY <2>1, <2>2
<1>11. InOrder(u) \o InOrder(p3) = InOrder(u \o p3)
  BY <1>3, <1>9, <1>10, OrdersJoin
<1>12. (InOrder(p1) \o p2) \o InOrder(p3) = InOrder(u \o p3)
  BY <1>6, <1>8, <1>11
<1> QED BY <1>5, <1>12 DEF p1, p2, p3, k, l

(* When both sides are sorted, the range is.                               *)
LEMMA HalvesSort ==
    ASSUME NEW a \in Seq(Int), NEW base \in Nat, NEW size \in Nat, InArray(a, base, size),
           NEW v, NEW r, IsPartition(a, base, size, v, r)
    PROVE  StdSort(StdSort(r[1], base, r[2]), base + r[3], size - r[3]) = StdSort(a, base, size)
<1> DEFINE b == r[1]
           m == r[2]
           e == r[3]
           k == e - m
           l == size - e
           f == base + m
           g == base + e
           c == StdSort(b, base, m)
           d == StdSort(c, g, l)
<1>1. /\ Rearranged(a, b, base, size) /\ v \in Int /\ m \in 0..size - 1 /\ e \in m + 1..size
      /\ AtMost(b, base, v, 0, m - 1) /\ AtMost(b, base, v, m, e - 1)
      /\ AtLeast(b, base, v, m, e - 1) /\ AtLeast(b, base, v, e, size - 1)
  BY DEF IsPartition
<1>2. b \in Seq(Int) /\ InArray(b, base, size)
  BY <1>1, RearrangedIn
<1> HIDE DEF b, m, e
<1>3. /\ Len(b) \in Nat /\ base >= 1 /\ base + size <= Len(b) + 1 /\ m \in Nat /\ e \in Nat /\ k \in Nat /\ l \in Nat
      /\ f \in Nat /\ g \in Nat /\ m + k = e /\ e + l = size /\ base + m = f /\ f + k = g /\ base + e = g
  BY <1>1, <1>2 DEF InArray
<1>4. InArray(b, base, m) /\ InArray(b, f, k) /\ InArray(b, g, l)
  BY <1>3 DEF InArray
<1>5. (InOrder(Part(b, base, m)) \o Part(b, f, k)) \o InOrder(Part(b, g, l)) = InOrder(Part(b, base, size))
  BY <1>1, <1>2, PartsInOrder
<1> HIDE DEF k, l, f, g
<1>6. c \in Seq(Int) /\ Len(c) = Len(b) /\ Part(c, base, m) = InOrder(Part(b, base, m))
      /\ SameOutside(b, c, base, m)
  BY <1>2, <1>3, <1>4, StdSortIs
<1> HIDE DEF c
<1>7. Part(c, f, k) = Part(b, f, k) /\ Part(c, g, l) = Part(b, g, l)
  <2>1. base + m <= f /\ base + m <= g
    BY <1>3
  <2>2. Part(c, f, k) = Part(b, f, k)
    BY <1>2, <1>3, <1>4, <1>6, <2>1, PartStays
  <2>3. Part(c, g, l) = Part(b, g, l)
    BY <1>2, <1>3, <1>4, <1>6, <2>1, PartStays
  <2> QED BY <2>2, <2>3
<1>8. InArray(c, base, m) /\ InArray(c, f, k) /\ InArray(c, g, l)
  BY <1>4, <1>6 DEF InArray
<1>9. d \in Seq(Int) /\ Len(d) = Len(c) /\ Part(d, g, l) = InOrder(Part(c, g, l))
      /\ SameOutside(c, d, g, l)
  BY <1>3, <1>6, <1>8, StdSortIs
<1> HIDE DEF d
<1>10. Part(d, f, k) = Part(c, f, k) /\ Part(d, base, m) = Part(c, base, m)
  <2>1. f + k <= g /\ base + m <= g
    BY <1>3
  <2>2. Part(d, f, k) = Part(c, f, k)
    BY <1>3, <1>6, <1>8, <1>9, <2>1, PartStays
  <2>3. Part(d, base, m) = Part(c, base, m)
    BY <1>3, <1>6, <1>8, <1>9, <2>1, PartStays
  <2> QED BY <2>2, <2>3
<1>11. Part(d, base, size) = (Part(d, base, m) \o Part(d, f, k)) \o Part(d, g, l)
  <2>1. Len(d) = Len(b)
    BY <1>6, <1>9
  <2>2. Part(d, base, m) \o Part(d, f, k) = Part(d, base, e)
    <3>1. InArray(d, base, e)
      BY <1>3, <2>1 DEF InArray
    <3>2. Joins(Part(d, base, m), Part(d, f, k), Part(d, base, e))
      BY <1>3, <1>9, <3>1, JoinedParts
    <3> QED BY <3>2 DEF Joins
  <2>3. Part(d, base, e) \o Part(d, g, l) = Part(d, base, size)
    <3>1. InArray(d, base, size)
      BY <1>3, <2>1 DEF InArray
    <3>2. Joins(Part(d, base, e), Part(d, g, l), Part(d, base, size))
      BY <1>3, <1>9, <3>1, JoinedParts
    <3> QED BY <3>2 DEF Joins
  <2> QED BY <2>2, <2>3
<1>12. Part(d, base, size) = InOrder(Part(b, base, size))
  BY <1>5, <1>6, <1>7, <1>9, <1>10, <1>11
<1>13. InOrder(Part(b, base, size)) = InOrder(Part(a, base, size))
  <2>1. Same(Part(b, base, size), Part(a, base, size))
    BY <1>1 DEF Rearranged
  <2>2. Part(b, base, size) \in Seq(Int) /\ Part(a, base, size) \in Seq(Int)
    BY <1>2, PartIs
  <2> QED BY <2>1, <2>2, SameInOrder
<1>14. Len(b) = Len(a) /\ SameOutside(a, b, base, size)
  BY <1>1 DEF Rearranged
<1>15. ASSUME NEW i \in 1..Len(a), ~(base <= i /\ i < base + size) PROVE d[i] = a[i]
  <2>1. b[i] = a[i]
    BY <1>14, <1>15 DEF SameOutside
  <2>2. c[i] = b[i]
    <3>1. ~(base <= i /\ i < base + m)
      BY <1>3, <1>15
    <3> QED BY <1>6, <1>14, <3>1 DEF SameOutside
  <2>3. d[i] = c[i]
    <3>1. ~(g <= i /\ i < g + l)
      BY <1>3, <1>15
    <3> QED BY <1>6, <1>9, <1>14, <3>1 DEF SameOutside
  <2> QED BY <2>1, <2>2, <2>3
<1>16. SameOutside(a, d, base, size)
  BY <1>15 DEF SameOutside
<1>17. d = Put(a, base, Part(d, base, size))
  BY <1>6, <1>9, <1>14, <1>16, PutOfPart
<1>18. d = StdSort(a, base, size)
  BY <1>12, <1>13, <1>17 DEF StdSort
<1> QED BY <1>18 DEF d, c, g, l, b, m, e

Sorts(h) == \A a \in Seq(Int) : \A base, size, div \in Nat :
                InArray(a, base, size) => h[<<a, base, size, div>>] = StdSort(a, base, size)

(* A partition has the values the recursion is given.                      *)
LEMMA PartitionTyped ==
    ASSUME NEW a \in Seq(Int), NEW base \in Nat, NEW size \in Nat, InArray(a, base, size),
           NEW v, NEW r, IsPartition(a, base, size, v, r)
    PROVE  /\ r[1] \in Seq(Int) /\ r[2] \in Nat /\ r[3] \in Nat
           /\ base + r[3] \in Nat /\ size - r[3] \in Nat
           /\ InArray(r[1], base, r[2]) /\ InArray(r[1], base + r[3], size - r[3])
           /\ StdSort(r[1], base, r[2]) \in Seq(Int)
           /\ InArray(StdSort(r[1], base, r[2]), base + r[3], size - r[3])
<1>1. Rearranged(a, r[1], base, size) /\ r[2] \in 0..size - 1 /\ r[3] \in r[2] + 1..size
  BY DEF IsPartition
<1> DEFINE b == r[1]
           m == r[2]
           e == r[3]
           c == StdSort(b, base, m)
<1>2. b \in Seq(Int) /\ InArray(b, base, size)
  BY <1>1, RearrangedIn
<1> HIDE DEF b, m, e, c
<1>3. m \in Nat /\ e \in Nat /\ m < e /\ e <= size
  BY <1>1 DEF m, e
<1>4. base + e \in Nat /\ size - e \in Nat /\ InArray(b, base, m) /\ InArray(b, base + e, size - e)
  BY <1>2, <1>3 DEF InArray
<1>5. c \in Seq(Int) /\ Len(c) = Len(b)
  BY <1>2, <1>3, <1>4, StdSortIs DEF c
<1>6. InArray(c, base + e, size - e)
  BY <1>4, <1>5 DEF InArray
<1> QED BY <1>2, <1>3, <1>4, <1>5, <1>6 DEF b, m, e, c

(* The quicksort of the tasks does what the sort of the standard library   *)
(* does, however deep it goes and in whatever order its halves are sorted. *)
LEMMA QuicksortIs ==
    ASSUME NEW array \in Seq(Int), NEW first \in Nat, NEW length \in Nat, NEW tasks \in Nat,
           NEW chunk \in Nat, NEW slow, InArray(array, first, length)
    PROVE  _Parallel_quicksort_impl(array, first, length, tasks, chunk, slow)
              = StdSort(array, first, length)
<1> DEFINE D == _SORT_MAX_RECURSION_DEPTH
           T == CHOOSE g : g = [m \in 0..D |-> SortRow(g, m, chunk, slow)]
           S == {m \in Nat : m <= D => Sorts(T[m])}
<1>0. D \in Nat
  BY AlgorithmsAssumption
<1>1. _Parallel_quicksort_impl(array, first, length, tasks, chunk, slow)
         = T[D][<<array, first, length, tasks>>]
  BY DEF _Parallel_quicksort_impl, SortRow, SortsHere, SortBelow, UpperTasks
<1> HIDE DEF D
<1>2. T = [m \in 0..D |-> SortRow(T, m, chunk, slow)]
  <2>1. \E g : g = [m \in 0..D |-> SortRow(g, m, chunk, slow)]
    <3> HIDE DEF T
    <3>1. HasSort(D, chunk, slow)
      BY <1>0, SortExists
    <3> QED BY <3>1 DEF HasSort
  <2> QED BY <2>1
<1> HIDE DEF T
<1>3. ASSUME NEW m \in Nat, \A j \in Nat : j < m => j \in S PROVE m \in S
  <2> SUFFICES ASSUME m <= D, NEW a \in Seq(Int), NEW base \in Nat, NEW size \in Nat, NEW div \in Nat,
                      InArray(a, base, size)
               PROVE  T[m][<<a, base, size, div>>] = StdSort(a, base, size)
    BY DEF Sorts
  <2> DEFINE h == T[m - 1]
             r == Partition(a, base, size, div, chunk)
             p == <<a, base, size, div>>
  <2>1. T[m] = SortRow(T, m, chunk, slow)
    <3>1. m \in 0..D
      BY <1>0
    <3> QED BY <1>2, <3>1
  <2>2. T[m][p] = IF SortsHere(m, size, div, chunk) THEN StdSort(a, base, size)
                  ELSE SortBelow(h, r, base, size, div, slow)
    <3>1. p \in Seq(Int) \X Nat \X Nat \X Nat /\ p[1] = a /\ p[2] = base /\ p[3] = size /\ p[4] = div
      OBVIOUS
    <3> HIDE DEF p, h, r
    <3>2. T[m][p] = IF SortsHere(m, p[3], p[4], chunk) THEN StdSort(p[1], p[2], p[3])
                    ELSE SortBelow(h, Partition(p[1], p[2], p[3], p[4], chunk), p[2], p[3], p[4], slow)
      BY <2>1, <3>1 DEF SortRow, h
    <3> QED BY <3>1, <3>2 DEF r
  <2>3. CASE SortsHere(m, size, div, chunk)
    BY <2>2, <2>3
  <2>4. CASE ~SortsHere(m, size, div, chunk)
    <3>1. m # 0 /\ size > chunk /\ size > 3
      BY <2>4 DEF SortsHere
    <3>2. Sorts(h)
      <4>1. m - 1 \in Nat /\ m - 1 < m /\ m - 1 <= D
        BY <1>0, <3>1
      <4>2. m - 1 \in S
        BY <1>3, <4>1
      <4> QED BY <4>1, <4>2
    <3>3. PICK v : IsPartition(a, base, size, v, r)
      BY <3>1, PartitionIs
    <3> DEFINE n == div \div 2
               w == UpperTasks(div, slow)
               b == r[1]
               f == base + r[3]
               l == size - r[3]
               k == r[2]
    <3>4. n \in Nat /\ w \in Nat
      <4>1. n \in Nat
        OBVIOUS
      <4>2. n \div 2 \in Nat
        <5> HIDE DEF n
        <5> QED BY <4>1
      <4> QED BY <4>1, <4>2 DEF UpperTasks
    <3> HIDE DEF h, r, n, w, S
    <3>5. /\ b \in Seq(Int) /\ k \in Nat /\ f \in Nat /\ l \in Nat
          /\ InArray(b, base, k) /\ StdSort(b, base, k) \in Seq(Int) /\ InArray(StdSort(b, base, k), f, l)
      BY <3>3, PartitionTyped
    <3>6. StdSort(StdSort(b, base, k), f, l) = StdSort(a, base, size)
      BY <3>3, HalvesSort
    <3>7. SortBelow(h, r, base, size, div, slow) = h[<<h[<<b, base, k, n>>], f, l, w>>]
      BY DEF SortBelow, n, w
    <3> HIDE DEF b, f, l, k
    <3>8. h[<<b, base, k, n>>] = StdSort(b, base, k)
      BY <3>2, <3>4, <3>5 DEF Sorts
    <3> DEFINE c == StdSort(b, base, k)
    <3> HIDE DEF c
    <3>9. c \in Seq(Int) /\ InArray(c, f, l)
      BY <3>5 DEF c
    <3>10. h[<<c, f, l, w>>] = StdSort(c, f, l)
      BY <3>2, <3>4, <3>5, <3>9 DEF Sorts
    <3> QED BY <2>2, <2>4, <3>6, <3>7, <3>8, <3>10 DEF c
  <2> QED BY <2>3, <2>4
<1>4. S \in SUBSET Nat
  OBVIOUS
<1> HIDE DEF S
<1>5. D \in S
  BY <1>0, <1>3, <1>4, FromSmaller
<1>6. Sorts(T[D])
  BY <1>0, <1>5 DEF S
<1> QED BY <1>1, <1>6 DEF Sorts

-----------------------------------------------------------------------------
(* The buffered sort: in which buffer the halves end.                      *)

TurnsTo(n) == CHOOSE g : g = [m \in 0..n |-> TurnsRow(g, m)]

(* The function of the halvings,                                           *)
LEMMA TurnsToIs ==
    ASSUME NEW n \in Nat
    PROVE  /\ TurnsTo(n) = [m \in 0..n |-> TurnsRow(TurnsTo(n), m)]
           /\ LeftTurns(n) = TurnsTo(n)[n]
<1>1. HasTurns(n)
  BY TurnsExist
<1>2. \E g : g = [m \in 0..n |-> TurnsRow(g, m)]
  BY <1>1 DEF HasTurns
<1>3. TurnsTo(n) = [m \in 0..n |-> TurnsRow(TurnsTo(n), m)]
  BY <1>2 DEF TurnsTo
<1>4. LeftTurns(n) = TurnsTo(n)[n]
  BY DEF LeftTurns, TurnsTo, TurnsRow
<1> QED BY <1>3, <1>4

(* whose values do not depend on where it ends.                            *)
LEMMA TurnsAgree ==
    ASSUME NEW n \in Nat, NEW m \in Nat, m <= n
    PROVE  TurnsTo(n)[m] = LeftTurns(m)
<1> DEFINE f == TurnsTo(n)
           g == TurnsTo(m)
<1>1. f = [k \in 0..n |-> TurnsRow(f, k)] /\ g = [k \in 0..m |-> TurnsRow(g, k)] /\ LeftTurns(m) = g[m]
  BY TurnsToIs
<1> HIDE DEF f, g
<1>2. \A h, k : Row("turns", h, k, 0) = TurnsRow(h, k)
  BY DEF Row
<1>3. f = [k \in 0..n |-> Row("turns", f, k, 0)] /\ g = [k \in 0..m |-> Row("turns", g, k, 0)]
  BY <1>1, <1>2
<1>4. \A k \in Nat : k <= n /\ k <= m => f[k] = g[k]
  BY <1>3, TurnsDetermined, RowsAgree
<1>5. f[m] = g[m]
  BY <1>4
<1> QED BY <1>1, <1>5 DEF f

(* Every halving is a turn, until nothing is left to halve.                *)
LEMMA LeftTurnsIs ==
    ASSUME NEW n \in Nat
    PROVE  LeftTurns(n) = IF n \div 2 = 0 THEN 0 ELSE 1 + LeftTurns(n \div 2)
<1>1. TurnsTo(n) = [m \in 0..n |-> TurnsRow(TurnsTo(n), m)] /\ LeftTurns(n) = TurnsTo(n)[n]
  BY TurnsToIs
<1> DEFINE f == TurnsTo(n)
           h == n \div 2
<1> HIDE DEF f
<1>2. LeftTurns(n) = IF h = 0 THEN 0 ELSE 1 + f[h]
  <2>1. n \in 0..n
    OBVIOUS
  <2>2. f[n] = TurnsRow(f, n)
    BY <1>1, <2>1 DEF f
  <2> QED BY <1>1, <2>2 DEF f, TurnsRow
<1>3. h \in Nat /\ h <= n
  OBVIOUS
<1>4. f[h] = LeftTurns(h)
  <2> HIDE DEF h
  <2> QED BY <1>3, TurnsAgree DEF f
<1> QED BY <1>2, <1>4

(* It counts.                                                              *)
LEMMA TurnsAreNat == \A n \in Nat : LeftTurns(n) \in Nat
<1> DEFINE S == {n \in Nat : LeftTurns(n) \in Nat}
<1>1. ASSUME NEW m \in Nat, \A j \in Nat : j < m => j \in S PROVE m \in S
  <2> DEFINE h == m \div 2
  <2>1. LeftTurns(m) = IF h = 0 THEN 0 ELSE 1 + LeftTurns(h)
    BY LeftTurnsIs
  <2>2. h \in Nat /\ (h # 0 => h < m)
    OBVIOUS
  <2> HIDE DEF h
  <2> QED BY <1>1, <2>1, <2>2
<1>2. S \in SUBSET Nat
  OBVIOUS
<1> HIDE DEF S
<1>3. \A n \in Nat : n \in S
  BY <1>1, <1>2, FromSmaller
<1> QED BY <1>3 DEF S

(* A task has one turn more than its halves.                               *)
LEMMA HalfTurns ==
    ASSUME NEW n \in Nat, n > 1
    PROVE  /\ n \div 2 \in Nat /\ n \div 2 < n
           /\ (LeftTurns(n) % 2 = 1) <=> ~(LeftTurns(n \div 2) % 2 = 1)
<1> DEFINE h == n \div 2
<1>1. h \in Nat /\ h < n /\ h # 0
  BY HalfIs
<1>2. LeftTurns(n) = 1 + LeftTurns(h)
  BY <1>1, LeftTurnsIs
<1> HIDE DEF h
<1>3. LeftTurns(h) \in Nat
  BY <1>1, TurnsAreNat
<1> DEFINE x == LeftTurns(h)
<1>4. (1 + x) % 2 = 1 <=> ~(x % 2 = 1)
  <2> HIDE DEF x
  <2>1. \A y \in Nat : (1 + y) % 2 = 1 <=> ~(y % 2 = 1)
    OBVIOUS
  <2> QED BY <1>3, <2>1 DEF x
<1> QED BY <1>1, <1>2, <1>4 DEF h

(* Four times a number halves to twice that number.                        *)
LEMMA FourTimes ==
    ASSUME NEW w \in Nat, NEW b \in {0, 1}, w # 0
    PROVE  /\ (b + 4 * w) \div 2 = 2 * w /\ (2 * w) \div 2 = w /\ 2 * w # 0
OBVIOUS

(* Before its first bit, which is in an even place, a number that is       *)
(* aligned has an even number of bits.                                     *)
LEMMA AlignedIsEven ==
    ASSUME NEW cores \in Nat
    PROVE  Align(cores) \in Nat /\ ~(LeftTurns(Align(cores)) % 2 = 1)
<1> DEFINE n == 2 * cores
           T == CHOOSE g : g = [m \in 0..n |-> AlignRow(g, m)]
           Even(x) == x \in Nat /\ LeftTurns(x) % 2 = 0
           S == {m \in Nat : m <= n => Even(T[m])}
<1>0. n \in Nat
  OBVIOUS
<1>1. Align(cores) = T[n]
  BY DEF Align, AlignRow
<1> HIDE DEF n
<1>2. T = [m \in 0..n |-> AlignRow(T, m)]
  <2>1. \E g : g = [m \in 0..n |-> AlignRow(g, m)]
    <3> HIDE DEF T
    <3>1. HasAlign(n)
      BY <1>0, AlignExists
    <3> QED BY <3>1 DEF HasAlign
  <2> QED BY <2>1
<1> HIDE DEF T
<1>3. LeftTurns(0) = 0 /\ LeftTurns(1) = 0 /\ 0 % 2 = 0
  <2>1. 0 \div 2 = 0 /\ 1 \div 2 = 0 /\ 0 \in Nat /\ 1 \in Nat /\ 0 % 2 = 0
    OBVIOUS
  <2> QED BY <2>1, LeftTurnsIs
<1>4. ASSUME NEW m \in Nat, \A j \in Nat : j < m => j \in S PROVE m \in S
  <2> SUFFICES ASSUME m <= n PROVE Even(T[m])
    OBVIOUS
  <2>1. m \in 0..n
    BY <1>0
  <2>2. T[m] = AlignRow(T, m)
    BY <1>2, <2>1
  <2>3. CASE m = 0
    <3>1. T[m] = 0
      BY <2>2, <2>3 DEF AlignRow
    <3> QED BY <1>3, <3>1
  <2>4. CASE m # 0
    <3> DEFINE q == m \div 4
               b == IF m % 4 = 0 THEN 0 ELSE 1
               w == T[q]
    <3>1. T[m] = b + 4 * w /\ b \in {0, 1}
      BY <2>2, <2>4 DEF AlignRow
    <3>2. q \in Nat /\ q < m
      BY <2>4
    <3> HIDE DEF q, b
    <3>3. Even(w)
      <4>1. q \in S /\ q <= n
        BY <1>0, <1>4, <3>2
      <4> QED BY <4>1
    <3> HIDE DEF w
    <3>4. CASE w = 0
      <4>1. T[m] = b
        BY <3>1, <3>4
      <4>2. Even(0) /\ Even(1)
        BY <1>3
      <4> HIDE DEF Even
      <4> QED BY <3>1, <4>1, <4>2
    <3>5. CASE w # 0
      <4> DEFINE x == b + 4 * w
                 y == 2 * w
      <4>1. w \in Nat
        BY <3>3
      <4>2. x \div 2 = y /\ y \div 2 = w /\ y # 0 /\ x \in Nat /\ y \in Nat
        BY <3>1, <3>5, <4>1, FourTimes
      <4> HIDE DEF x, y
      <4>3. LeftTurns(x) = 1 + LeftTurns(y)
        BY <4>2, LeftTurnsIs
      <4>4. LeftTurns(y) = 1 + LeftTurns(w)
        BY <3>5, <4>2, LeftTurnsIs
      <4> DEFINE z == LeftTurns(w)
      <4>5. z \in Nat /\ z % 2 = 0
        BY <3>3, <4>1, TurnsAreNat
      <4>6. (1 + (1 + z)) % 2 = 0
        <5> HIDE DEF z
        <5> QED BY <4>5
      <4>7. LeftTurns(x) % 2 = 0
        BY <4>3, <4>4, <4>6
      <4> QED BY <3>1, <4>2, <4>7 DEF x
    <3> QED BY <3>4, <3>5
  <2> QED BY <2>3, <2>4
<1>5. S \in SUBSET Nat
  OBVIOUS
<1> HIDE DEF S
<1>6. n \in S
  BY <1>0, <1>4, <1>5, FromSmaller
<1>7. Even(T[n])
  BY <1>0, <1>6 DEF S
<1> QED BY <1>1, <1>7

TwoBuffers == Seq(Int) \X Seq(Int)

(* The range is in order in the buffer that the flag names.                *)
BufferSorted(m, r, base, size, flag) ==
    /\ r[1] \in TwoBuffers /\ Len(r[1][1]) = Len(m[1]) /\ Len(r[1][2]) = Len(m[2])
    /\ SameOutside(m[1], r[1][1], base, size) /\ SameOutside(m[2], r[1][2], base, size)
    /\ r[2] = flag
    /\ Part(IF flag THEN r[1][2] ELSE r[1][1], base, size) = InOrder(Part(m[1], base, size))

(* A chunk that is sorted by one task is in the buffer the merges above    *)
(* expect.                                                                 *)
LEMMA LeafIs ==
    ASSUME NEW m \in TwoBuffers, NEW base \in Nat, NEW size \in Nat, InArray(m[1], base, size),
           Len(m[2]) = Len(m[1]), NEW div
    PROVE  BufferSorted(m, Leaf(StdSort(m[1], base, size), m, base, size, div), base, size,
                        LeftTurns(div) % 2 = 1)
<1> DEFINE x == m[1]
           y == m[2]
           c == StdSort(x, base, size)
           p == Part(c, base, size)
           d == Put(y, base, p)
           odd == LeftTurns(div) % 2 = 1
           r == Leaf(c, m, base, size, div)
<1>1. x \in Seq(Int) /\ y \in Seq(Int)
  BY DEF TwoBuffers
<1>2. /\ c \in Seq(Int) /\ Len(c) = Len(x) /\ p = InOrder(Part(x, base, size)) /\ SameOutside(x, c, base, size)
  BY <1>1, StdSortIs
<1>3. r = IF odd THEN <<<<c, d>>, TRUE>> ELSE <<<<c, y>>, FALSE>>
  BY DEF Leaf
<1> HIDE DEF c, r
<1>4. p \in Seq(Int) /\ Len(p) = size
  <2>1. InArray(c, base, size)
    BY <1>2 DEF InArray
  <2> QED BY <1>2, <2>1, PartIs
<1> HIDE DEF p
<1>5. InArray(y, base, Len(p))
  BY <1>4 DEF InArray
<1>6. d \in Seq(Int) /\ Len(d) = Len(y)
  BY <1>1, <1>4, <1>5, PutIs
<1>7. Part(d, base, Len(p)) = p /\ SameOutside(y, d, base, Len(p))
  BY <1>1, <1>4, <1>5, PutParts
<1> HIDE DEF d
<1>8. SameOutside(y, y, base, size)
  BY DEF SameOutside
<1>9. BufferSorted(m, r, base, size, odd)
  <2>1. CASE odd
    <3>1. r[1][1] = c /\ r[1][2] = d /\ r[2] = TRUE /\ r[1] \in TwoBuffers
      BY <1>2, <1>3, <1>6, <2>1 DEF TwoBuffers
    <3> HIDE DEF odd, x, y
    <3> QED BY <1>2, <1>4, <1>6, <1>7, <2>1, <3>1 DEF BufferSorted, x, y, p
  <2>2. CASE ~odd
    <3>1. r[1][1] = c /\ r[1][2] = y /\ r[2] = FALSE /\ r[1] \in TwoBuffers
      BY <1>1, <1>2, <1>3, <2>2 DEF TwoBuffers
    <3>2. odd = FALSE
      BY <2>2
    <3> HIDE DEF odd, x, y
    <3> QED BY <1>2, <1>8, <3>1, <3>2 DEF BufferSorted, x, y, p
  <2> QED BY <2>1, <2>2
<1> QED BY <1>9 DEF r, c

Halved(base, size, c, n, k) == n = size \div 2 /\ c = base + n /\ k = size - n
HalvesSorted(x, z, f, g, base, size, c, n, k) ==
    /\ x \in Seq(Int) /\ z \in Seq(Int) /\ f \in Seq(Int) /\ g \in Seq(Int)
    /\ base \in Nat /\ size \in Nat /\ c \in Nat /\ n \in Nat /\ k \in Nat
    /\ Halved(base, size, c, n, k)
    /\ InArray(x, base, size) /\ Len(z) = Len(x) /\ Len(f) = Len(x) /\ Len(g) = Len(x)
    /\ SameOutside(x, z, base, n) /\ SameOutside(f, g, c, k)
    /\ Part(f, base, n) = InOrder(Part(x, base, n)) /\ Part(g, c, k) = InOrder(Part(z, c, k))

(* What is merged are the two halves in order, wherever they are.          *)
LEMMA HalvesMerge ==
    ASSUME NEW x, NEW z, NEW f, NEW g, NEW base, NEW size, NEW c, NEW n, NEW k, NEW div \in Nat,
           HalvesSorted(x, z, f, g, base, size, c, n, k)
    PROVE  MergedHalves(g, base, size, div) = InOrder(Part(x, base, size))
<1> SUFFICES
        ASSUME x \in Seq(Int), z \in Seq(Int), f \in Seq(Int), g \in Seq(Int),
               base \in Nat, size \in Nat, c \in Nat, n \in Nat, k \in Nat,
               Halved(base, size, c, n, k), InArray(x, base, size),
               Len(z) = Len(x), Len(f) = Len(x), Len(g) = Len(x),
               SameOutside(x, z, base, n), SameOutside(f, g, c, k),
               Part(f, base, n) = InOrder(Part(x, base, n)), Part(g, c, k) = InOrder(Part(z, c, k))
        PROVE  MergedHalves(g, base, size, div) = InOrder(Part(x, base, size))
  BY DEF HalvesSorted
<1> DEFINE p == Part(x, base, n)
           q == Part(x, c, k)
           s == InOrder(p)
           t == InOrder(q)
           u == s \o t
           v == p \o q
<1>0. n + k = size /\ Len(x) \in Nat /\ base >= 1 /\ base + size <= Len(x) + 1 /\ n <= size
      /\ n = size \div 2 /\ c = base + n /\ k = size - n
  BY DEF InArray, Halved
<1>1. /\ InArray(x, base, n) /\ InArray(x, c, k) /\ InArray(f, base, n) /\ InArray(g, c, k) /\ InArray(z, c, k)
  BY <1>0 DEF InArray
<1>2. Part(g, base, n) = s
  <2>1. base + n <= c
    BY <1>0
  <2>2. Part(g, base, n) = Part(f, base, n)
    BY <1>1, <2>1, PartStays
  <2> QED BY <2>2
<1>3. Part(g, c, k) = t
  <2>1. base + n <= c
    BY <1>0
  <2>2. Part(z, c, k) = Part(x, c, k)
    BY <1>1, <2>1, PartStays
  <2> QED BY <2>2
<1>4. p \in Seq(Int) /\ q \in Seq(Int)
  BY <1>1, PartIs
<1>5. v = Part(x, base, size)
  <2>1. size = n + k
    BY <1>0
  <2>2. Joins(Part(x, base, n), Part(x, c, k), Part(x, base, size))
    BY <1>0, <2>1, JoinedParts
  <2> QED BY <2>2 DEF Joins
<1> HIDE DEF p, q
<1>6. /\ s \in Seq(Int) /\ Ascending(s) /\ Same(s, p) /\ t \in Seq(Int) /\ Ascending(t) /\ Same(t, q)
  BY <1>4, InOrderIs, InOrderAscends
<1>7. MergedHalves(g, base, size, div) = _Parallel_merge(s, t, div)
  BY <1>0, <1>2, <1>3 DEF MergedHalves
<1> HIDE DEF s, t
<1>8. _Parallel_merge(s, t, div) = InOrder(u)
  BY <1>6, MergeTasksIs
<1>9. u \in Seq(Int) /\ v \in Seq(Int) /\ Len(u) = Len(s) + Len(t) /\ Len(v) = Len(p) + Len(q)
  BY <1>4, <1>6, JoinIs
<1>10. \A w \in Int : Below(u, w) = Below(s, w) + Below(t, w) /\ Below(v, w) = Below(p, w) + Below(q, w)
  BY <1>4, <1>6, BelowJoin
<1> HIDE DEF u, v
<1>11. Same(u, v)
  BY <1>6, <1>9, <1>10 DEF Same
<1>12. InOrder(u) = InOrder(v)
  BY <1>9, <1>11, SameInOrder
<1> QED BY <1>5, <1>7, <1>8, <1>12

(* What two halves change is in the range.                                 *)
LEMMA OutsideBoth ==
    ASSUME NEW x \in Seq(Int), NEW y \in Seq(Int), NEW z \in Seq(Int),
           NEW base \in Nat, NEW n \in Nat, NEW k \in Nat, NEW c \in Nat, NEW size \in Nat,
           c = base + n, size = n + k, Len(y) = Len(x),
           SameOutside(x, y, base, n), SameOutside(y, z, c, k)
    PROVE  SameOutside(x, z, base, size)
<1> SUFFICES ASSUME NEW i \in 1..Len(x), ~(base <= i /\ i < base + size) PROVE z[i] = x[i]
  BY DEF SameOutside
<1>1. ~(base <= i /\ i < base + n) /\ ~(c <= i /\ i < c + k)
  OBVIOUS
<1> QED BY <1>1 DEF SameOutside

(* What is outside stays outside.                                          *)
LEMMA OutsideAgain ==
    ASSUME NEW x \in Seq(Int), NEW y \in Seq(Int), NEW z \in Seq(Int),
           NEW base \in Nat, NEW size \in Nat, Len(y) = Len(x),
           SameOutside(x, y, base, size), SameOutside(y, z, base, size)
    PROVE  SameOutside(x, z, base, size)
BY DEF SameOutside

(* Merging two sorted halves from one buffer into the other sorts the      *)
(* range there.                                                            *)
LEMMA MergedIntoIs ==
    ASSUME NEW m \in TwoBuffers, NEW base \in Nat, NEW size \in Nat, InArray(m[1], base, size),
           Len(m[2]) = Len(m[1]), NEW div \in Nat, NEW lower, NEW upper, NEW flag \in BOOLEAN,
           NEW n \in Nat, NEW c \in Nat, NEW k \in Nat,
           n = size \div 2, c = base + n, k = size - n,
           BufferSorted(m, lower, base, n, flag), BufferSorted(lower[1], upper, c, k, flag)
    PROVE  BufferSorted(m, MergedInto(upper, base, size, div), base, size, ~flag)
<1> DEFINE x == m[1]
           y == m[2]
           x1 == lower[1][1]
           y1 == lower[1][2]
           x2 == upper[1][1]
           y2 == upper[1][2]
           f == IF flag THEN y1 ELSE x1
           g == IF flag THEN y2 ELSE x2
           s == MergedHalves(g, base, size, div)
           r == MergedInto(upper, base, size, div)
           l == Len(x)
<1>0. n \in Nat /\ k \in Nat /\ c \in Nat /\ size = n + k
  OBVIOUS
<1>1. /\ x \in Seq(Int) /\ y \in Seq(Int) /\ Len(y) = l /\ l \in Nat
  BY DEF TwoBuffers
<1>2. /\ x1 \in Seq(Int) /\ y1 \in Seq(Int) /\ Len(x1) = l /\ Len(y1) = l
      /\ SameOutside(x, x1, base, n) /\ SameOutside(y, y1, base, n)
      /\ Part(f, base, n) = InOrder(Part(x, base, n))
  BY DEF BufferSorted, TwoBuffers
<1>3. /\ x2 \in Seq(Int) /\ y2 \in Seq(Int) /\ Len(x2) = l /\ Len(y2) = l
      /\ SameOutside(x1, x2, c, k) /\ SameOutside(y1, y2, c, k)
      /\ Part(g, c, k) = InOrder(Part(x1, c, k)) /\ upper[2] = flag
  BY <1>2 DEF BufferSorted, TwoBuffers
<1>4. f \in Seq(Int) /\ g \in Seq(Int) /\ Len(f) = l /\ Len(g) = l /\ SameOutside(f, g, c, k)
  BY <1>2, <1>3
<1>4a. r = IF flag THEN <<<<Put(x2, base, s), y2>>, FALSE>> ELSE <<<<x2, Put(y2, base, s)>>, TRUE>>
  BY <1>3 DEF MergedInto
<1> HIDE DEF f, g, x1, y1, x2, y2, x, y, r
<1>5. s = InOrder(Part(x, base, size))
  <2>1. InArray(x, base, size)
    BY DEF x
  <2>2. Len(x1) = Len(x) /\ Len(f) = Len(x) /\ Len(g) = Len(x)
    BY <1>2, <1>4
  <2>3. x \in Seq(Int) /\ x1 \in Seq(Int) /\ f \in Seq(Int) /\ g \in Seq(Int)
    BY <1>1, <1>2, <1>4
  <2>4. SameOutside(x, x1, base, n) /\ SameOutside(f, g, c, k)
    BY <1>2, <1>4
  <2>5. Part(f, base, n) = InOrder(Part(x, base, n)) /\ Part(g, c, k) = InOrder(Part(x1, c, k))
    BY <1>2, <1>3
  <2> HIDE DEF l, s
  <2>6. Halved(base, size, c, n, k)
    BY DEF Halved
  <2>7. HalvesSorted(x, x1, f, g, base, size, c, n, k)
    BY <2>6, <2>1, <2>2, <2>3, <2>4, <2>5 DEF HalvesSorted
  <2>8. MergedHalves(g, base, size, div) = InOrder(Part(x, base, size))
    BY <2>7, HalvesMerge
  <2> QED BY <2>8 DEF s
<1>6. InArray(x, base, size) /\ InArray(x2, base, size) /\ InArray(y2, base, size)
  <2>1. InArray(x, base, size)
    BY DEF x
  <2> QED BY <1>3, <2>1 DEF InArray
<1>7. s \in Seq(Int) /\ Len(s) = size
  <2>1. Part(x, base, size) \in Seq(Int) /\ Len(Part(x, base, size)) = size
    BY <1>1, <1>6, PartIs
  <2> QED BY <1>5, <2>1, InOrderIs
<1> HIDE DEF s, l
<1>8. SameOutside(x, x2, base, size) /\ SameOutside(y, y2, base, size)
  <2>1. Len(x1) = Len(x) /\ Len(y1) = Len(y)
    BY <1>1, <1>2 DEF l
  <2>2. SameOutside(x, x2, base, size)
    BY <1>0, <1>1, <1>2, <1>3, <2>1, OutsideBoth
  <2>3. SameOutside(y, y2, base, size)
    BY <1>0, <1>1, <1>2, <1>3, <2>1, OutsideBoth
  <2> QED BY <2>2, <2>3
<1>9. ASSUME NEW w \in Seq(Int), NEW o \in Seq(Int), Len(w) = l, Len(o) = l, SameOutside(o, w, base, size),
             InArray(w, base, size)
      PROVE  /\ Put(w, base, s) \in Seq(Int) /\ Len(Put(w, base, s)) = l
             /\ Part(Put(w, base, s), base, size) = s /\ SameOutside(o, Put(w, base, s), base, size)
  <2> DEFINE e == Put(w, base, s)
  <2>0. s \in Seq(Int)
    BY <1>7
  <2>1. InArray(w, base, Len(s))
    BY <1>7, <1>9
  <2>2. e \in Seq(Int) /\ Len(e) = Len(w)
    BY <2>0, <2>1, PutIs
  <2>3. Part(e, base, Len(s)) = s /\ SameOutside(w, e, base, Len(s))
    BY <2>0, <2>1, PutParts
  <2> HIDE DEF e
  <2>4. SameOutside(w, e, base, size) /\ Len(w) = Len(o)
    BY <1>7, <1>9, <2>3
  <2>5. SameOutside(o, e, base, size)
    BY <1>9, <2>2, <2>4, OutsideAgain
  <2> QED BY <1>7, <1>9, <2>2, <2>3, <2>5 DEF e
<1>10. CASE flag
  <2> DEFINE e == Put(x2, base, s)
  <2>1. e \in Seq(Int) /\ Len(e) = l /\ Part(e, base, size) = s /\ SameOutside(x, e, base, size)
    <3>1. Len(x) = l
      BY DEF l
    <3> QED BY <1>1, <1>3, <1>6, <1>8, <1>9, <3>1
  <2>2. r = <<<<e, y2>>, FALSE>>
    BY <1>4a, <1>10
  <2> HIDE DEF e
  <2>3. r[1][1] = e /\ r[1][2] = y2 /\ r[2] = FALSE /\ r[1] \in TwoBuffers /\ (~flag) = FALSE
    BY <1>3, <1>10, <2>1, <2>2 DEF TwoBuffers
  <2>4. BufferSorted(m, r, base, size, FALSE)
    BY <1>1, <1>3, <1>5, <1>8, <2>1, <2>3 DEF BufferSorted, x, y, l
  <2> QED BY <1>10, <2>3, <2>4 DEF r
<1>11. CASE ~flag
  <2> DEFINE e == Put(y2, base, s)
  <2>1. e \in Seq(Int) /\ Len(e) = l /\ Part(e, base, size) = s /\ SameOutside(y, e, base, size)
    BY <1>1, <1>3, <1>6, <1>8, <1>9
  <2>2. r = <<<<x2, e>>, TRUE>>
    BY <1>4a, <1>11
  <2> HIDE DEF e
  <2>3. r[1][1] = x2 /\ r[1][2] = e /\ r[2] = TRUE /\ r[1] \in TwoBuffers /\ (~flag) = TRUE
    BY <1>3, <1>11, <2>1, <2>2 DEF TwoBuffers
  <2>4. BufferSorted(m, r, base, size, TRUE)
    BY <1>1, <1>3, <1>5, <1>8, <2>1, <2>3 DEF BufferSorted, x, y, l
  <2> QED BY <1>11, <2>3, <2>4 DEF r
<1> QED BY <1>10, <1>11

Odd(div) == LeftTurns(div) % 2 = 1

BufferSorts(h, flag) ==
    \A m \in TwoBuffers : \A base, size \in Nat :
        InArray(m[1], base, size) /\ Len(m[2]) = Len(m[1]) =>
            BufferSorted(m, h[<<m, base, size>>], base, size, flag)

(* Both halves end in the same buffer.                                     *)
LEMMA BufferHalves ==
    ASSUME NEW m \in TwoBuffers, NEW base \in Nat, NEW size \in Nat, InArray(m[1], base, size),
           Len(m[2]) = Len(m[1]), NEW div \in Nat, NEW h, NEW flag \in BOOLEAN, BufferSorts(h, flag)
    PROVE  BufferSorted(m, MergedInto(HalvesOf(h, m, base, size), base, size, div), base, size, ~flag)
<1> DEFINE n == size \div 2
           c == base + n
           k == size - n
           lower == h[<<m, base, n>>]
           o == lower[1]
           upper == h[<<o, c, k>>]
<1>1. n \in Nat /\ c \in Nat /\ k \in Nat /\ n + k = size
  OBVIOUS
<1>2. HalvesOf(h, m, base, size) = upper
  BY DEF HalvesOf
<1> HIDE DEF upper, lower
<1>3. InArray(m[1], base, n)
  BY <1>1 DEF InArray
<1>4. BufferSorted(m, lower, base, n, flag)
  BY <1>1, <1>3 DEF BufferSorts, lower
<1>5. o \in TwoBuffers /\ Len(o[1]) = Len(m[1]) /\ Len(o[2]) = Len(o[1])
  BY <1>4 DEF BufferSorted
<1>6. InArray(o[1], c, k)
  <2>1. Len(m[1]) \in Nat /\ base >= 1 /\ base + size <= Len(m[1]) + 1
    BY DEF TwoBuffers, InArray
  <2>2. c >= 1 /\ c + k = base + size
    BY <1>1, <2>1
  <2>3. c + k <= Len(o[1]) + 1
    BY <1>5, <2>1, <2>2
  <2> HIDE DEF c, k, o
  <2> QED BY <1>1, <2>2, <2>3 DEF InArray
<1>7. BufferSorted(o, upper, c, k, flag)
  <2> HIDE DEF c, k, o
  <2> QED BY <1>1, <1>5, <1>6 DEF BufferSorts, upper
<1>8. n = size \div 2 /\ c = base + n /\ k = size - n
  OBVIOUS
<1>9. BufferSorted(m, MergedInto(upper, base, size, div), base, size, ~flag)
  <2>1. BufferSorted(lower[1], upper, c, k, flag)
    BY <1>7
  <2>2. n \in Nat /\ c \in Nat /\ k \in Nat
    BY <1>1
  <2> HIDE DEF n, c, k, o
  <2> DEFINE goal == BufferSorted(m, MergedInto(upper, base, size, div), base, size, ~flag)
  <2>3. goal
    BY <1>4, <1>8, <2>1, <2>2, MergedIntoIs
  <2> QED BY <2>3
<1> QED BY <1>2, <1>9

(* The buffered sort ends in the buffer that its turns name.               *)
LEMMA BufferedIs ==
    ASSUME NEW m \in TwoBuffers, NEW first \in Nat, NEW length \in Nat, NEW tasks \in Nat,
           NEW chunk \in Nat, InArray(m[1], first, length), Len(m[2]) = Len(m[1])
    PROVE  BufferSorted(m, _Parallel_buffered_sort_impl(m, first, length, tasks, chunk),
                        first, length, Odd(tasks))
<1> DEFINE T == CHOOSE g : g = [k \in 0..tasks |-> BufferRow(g, k, chunk)]
           S == {k \in Nat : k <= tasks => BufferSorts(T[k], Odd(k))}
<1>1. _Parallel_buffered_sort_impl(m, first, length, tasks, chunk) = T[tasks][<<m, first, length>>]
  BY DEF _Parallel_buffered_sort_impl, BufferRow, Leaf, MergedInto, MergedHalves, HalvesOf
<1>2. T = [k \in 0..tasks |-> BufferRow(T, k, chunk)]
  <2>1. \E g : g = [k \in 0..tasks |-> BufferRow(g, k, chunk)]
    <3> HIDE DEF T
    <3>1. HasBuffer(tasks, chunk)
      BY BufferExists
    <3> QED BY <3>1 DEF HasBuffer
  <2> QED BY <2>1
<1> HIDE DEF T
<1>3. ASSUME NEW d \in Nat, \A j \in Nat : j < d => j \in S PROVE d \in S
  <2> SUFFICES ASSUME d <= tasks, NEW x \in TwoBuffers, NEW base \in Nat, NEW size \in Nat,
                      InArray(x[1], base, size), Len(x[2]) = Len(x[1])
               PROVE  BufferSorted(x, T[d][<<x, base, size>>], base, size, Odd(d))
    BY DEF BufferSorts
  <2> DEFINE e == d \div 2
             h == T[e]
             p == <<x, base, size>>
             s == _Parallel_quicksort_impl(x[1], base, size, _MAX_NUM_TASKS_PER_CORE, chunk, FALSE)
             leaf == Leaf(s, x, base, size, d)
             whole == MergedInto(HalvesOf(h, x, base, size), base, size, d)
  <2>1. T[d] = BufferRow(T, d, chunk)
    <3>1. d \in 0..tasks
      OBVIOUS
    <3> QED BY <1>2, <3>1
  <2>2. T[d][p] = IF d <= 1 \/ size <= chunk THEN leaf ELSE whole
    <3>1. p \in (Seq(Int) \X Seq(Int)) \X Nat \X Nat /\ p[1] = x /\ p[2] = base /\ p[3] = size
      BY DEF TwoBuffers
    <3> HIDE DEF p, h, s, leaf, whole
    <3>2. T[d][p] = IF d <= 1 \/ p[3] <= chunk
                    THEN Leaf(_Parallel_quicksort_impl(p[1][1], p[2], p[3], _MAX_NUM_TASKS_PER_CORE,
                                                       chunk, FALSE), p[1], p[2], p[3], d)
                    ELSE MergedInto(HalvesOf(h, p[1], p[2], p[3]), p[2], p[3], d)
      BY <2>1, <3>1 DEF BufferRow, h
    <3> QED BY <3>1, <3>2 DEF leaf, whole, s
  <2> HIDE DEF p, leaf, whole, h
  <2>3. CASE d <= 1 \/ size <= chunk
    <3>1. s = StdSort(x[1], base, size)
      <4> DEFINE y == x[1]
                 t == _MAX_NUM_TASKS_PER_CORE
                 w == FALSE
      <4>1. y \in Seq(Int) /\ t \in Nat /\ InArray(y, base, size)
        BY AlgorithmsAssumption DEF TwoBuffers
      <4> HIDE DEF y, t, w
      <4>2. _Parallel_quicksort_impl(y, base, size, t, chunk, w) = StdSort(y, base, size)
        BY <4>1, QuicksortIs
      <4> QED BY <4>2 DEF y, t, w
    <3> HIDE DEF s
    <3>2. BufferSorted(x, Leaf(StdSort(x[1], base, size), x, base, size, d), base, size,
                       LeftTurns(d) % 2 = 1)
      BY LeafIs
    <3> QED BY <2>2, <2>3, <3>1, <3>2 DEF Odd, p, leaf
  <2>4. CASE ~(d <= 1 \/ size <= chunk)
    <3>1. d > 1
      BY <2>4
    <3>2. e \in Nat /\ e < d /\ (Odd(d) <=> ~Odd(e))
      BY <3>1, HalfTurns DEF Odd
    <3>3. BufferSorts(h, Odd(e))
      <4>1. e <= tasks
        BY <3>2
      <4>2. e \in S
        BY <1>3, <3>2
      <4> HIDE DEF e
      <4> QED BY <3>2, <4>1, <4>2 DEF h
    <3>4. Odd(e) \in BOOLEAN /\ Odd(d) = ~Odd(e)
      BY <3>2 DEF Odd
    <3> DEFINE flag == Odd(e)
    <3> HIDE DEF e, flag
    <3>5. flag \in BOOLEAN /\ BufferSorts(h, flag)
      BY <3>3, <3>4 DEF flag
    <3>6. BufferSorted(x, whole, base, size, ~flag)
      BY <3>5, BufferHalves DEF whole
    <3> QED BY <2>2, <2>4, <3>4, <3>6 DEF p, flag
  <2> QED BY <2>3, <2>4
<1>4. S \in SUBSET Nat
  OBVIOUS
<1> HIDE DEF S
<1>5. tasks \in S
  BY <1>3, <1>4, FromSmaller
<1>6. BufferSorts(T[tasks], Odd(tasks))
  BY <1>5 DEF S
<1> QED BY <1>1, <1>6 DEF BufferSorts

(* All of an array is a part of it.                                        *)
LEMMA PartOfAll ==
    ASSUME NEW a \in Seq(Int)
    PROVE  /\ Len(a) \in Nat /\ InArray(a, 1, Len(a)) /\ Part(a, 1, Len(a)) = a
<1> DEFINE l == Len(a)
           p == Part(a, 1, l)
<1>1. l \in Nat /\ InArray(a, 1, l) /\ 1 \in Nat
  BY DEF InArray
<1>2. p \in Seq(Int) /\ Len(p) = l /\ \A i \in 1..l : p[i] = a[1 + i - 1]
  BY <1>1, PartIs
<1>3. \A i \in 1..l : p[i] = a[i]
  <2> TAKE i \in 1..l
  <2>1. 1 + i - 1 = i
    BY <1>1
  <2> HIDE DEF p
  <2> QED BY <1>2, <2>1
<1> HIDE DEF p
<1>4. p = a
  <2>1. p \in Seq(Int) /\ l \in Nat /\ Len(p) = l /\ Len(a) = l
    BY <1>1, <1>2
  <2> HIDE DEF l
  <2> QED BY <1>3, <2>1, EqualSequences
<1> QED BY <1>1, <1>4 DEF p

(* std::sort of all of an array.                                           *)
LEMMA SortOfAll == ASSUME NEW a \in Seq(Int) PROVE StdSort(a, 1, Len(a)) = InOrder(a)
<1> DEFINE l == Len(a)
           c == StdSort(a, 1, l)
<1>1. l \in Nat /\ 1 \in Nat /\ InArray(a, 1, l) /\ Part(a, 1, l) = a
  BY PartOfAll
<1> HIDE DEF l
<1>2. c \in Seq(Int) /\ Len(c) = Len(a) /\ Part(c, 1, l) = InOrder(Part(a, 1, l))
  BY <1>1, StdSortIs
<1> HIDE DEF c
<1>3. Part(c, 1, Len(c)) = c
  BY <1>2, PartOfAll
<1> QED BY <1>1, <1>2, <1>3 DEF c, l

(* It returns what is in order in the array of the caller.                 *)
LEMMA BufferedSortIs ==
    ASSUME NEW a \in Seq(Int), NEW cores \in Nat, NEW chunk \in Nat
    PROVE  _Parallel_buffered_sort_impl(<<a, a>>, 1, Len(a), Align(cores), chunk)[1][1] = InOrder(a)
<1> DEFINE m == <<a, a>>
           l == Len(a)
           d == Align(cores)
           r == _Parallel_buffered_sort_impl(m, 1, l, d, chunk)
<1>1. l \in Nat /\ 1 \in Nat /\ InArray(a, 1, l) /\ Part(a, 1, l) = a
  BY PartOfAll
<1>2. d \in Nat /\ ~Odd(d)
  BY AlignedIsEven DEF Odd
<1>3. m \in TwoBuffers /\ m[1] = a /\ m[2] = a
  BY DEF TwoBuffers
<1> HIDE DEF m, l, d
<1>4. BufferSorted(m, r, 1, l, Odd(d))
  BY <1>1, <1>2, <1>3, BufferedIs
<1> HIDE DEF r
<1> DEFINE x == r[1][1]
<1>5. x \in Seq(Int) /\ Len(x) = Len(a) /\ Part(x, 1, l) = InOrder(a)
  BY <1>1, <1>2, <1>3, <1>4 DEF BufferSorted, TwoBuffers
<1> HIDE DEF x
<1>6. Part(x, 1, Len(x)) = x
  BY <1>5, PartOfAll
<1>7. x = InOrder(a)
  BY <1>5, <1>6 DEF l
<1> QED BY <1>7 DEF x, r, m, l, d

-----------------------------------------------------------------------------
(* The radix sort. First the digits: what is below a digit, and that the   *)
(* digit decides.                                                          *)

(* The powers: each needs the one before it only.                          *)
LEMMA PowerStepwise == Stepwise("power", 0)
<1>1. \A g, m : Row("power", g, m, 0) = PowerRow(g, m)
  BY DEF Row
<1> QED BY <1>1 DEF Stepwise, PowerRow

(* So they are determined,                                                 *)
LEMMA PowerDetermined == Determined("power", 0)
<1> SUFFICES ASSUME NEW f, NEW g, NEW m \in Nat, \A j \in Nat : j < m => f[j] = g[j]
             PROVE  Row("power", f, m, 0) = Row("power", g, m, 0)
  BY DEF Determined
<1>1. m # 0 => f[m - 1] = g[m - 1]
  BY BelowIsBefore
<1> QED BY <1>1, PowerStepwise DEF Stepwise

PowersTo(n) == CHOOSE g : g = [m \in 0..n |-> PowerRow(g, m)]

(* they exist,                                                             *)
LEMMA PowersToIs ==
    ASSUME NEW n \in Nat
    PROVE  /\ PowersTo(n) = [m \in 0..n |-> PowerRow(PowersTo(n), m)]
           /\ Power(n) = PowersTo(n)[n]
<1>1. \A g, m : Row("power", g, m, 0) = PowerRow(g, m)
  BY DEF Row
<1>2. HasRows("power", 0, n)
  BY PowerStepwise, LoopExists
<1>3. PICK g : g = [m \in 0..n |-> Row("power", g, m, 0)]
  BY <1>2 DEF HasRows
<1>4. \E h : h = [m \in 0..n |-> PowerRow(h, m)]
  BY <1>1, <1>3
<1>5. PowersTo(n) = [m \in 0..n |-> PowerRow(PowersTo(n), m)]
  BY <1>4 DEF PowersTo
<1>6. Power(n) = PowersTo(n)[n]
  BY DEF Power, PowersTo, PowerRow
<1> QED BY <1>5, <1>6

(* and do not depend on where the function ends.                           *)
LEMMA PowersAgree ==
    ASSUME NEW n \in Nat, NEW m \in Nat, m <= n
    PROVE  PowersTo(n)[m] = Power(m)
<1> DEFINE f == PowersTo(n)
           g == PowersTo(m)
<1>1. f = [k \in 0..n |-> PowerRow(f, k)] /\ g = [k \in 0..m |-> PowerRow(g, k)] /\ Power(m) = g[m]
  BY PowersToIs
<1> HIDE DEF f, g
<1>2. \A h, k : Row("power", h, k, 0) = PowerRow(h, k)
  BY DEF Row
<1>3. f = [k \in 0..n |-> Row("power", f, k, 0)] /\ g = [k \in 0..m |-> Row("power", g, k, 0)]
  BY <1>1, <1>2
<1>4. \A k \in Nat : k <= n /\ k <= m => f[k] = g[k]
  BY <1>3, PowerDetermined, RowsAgree
<1>5. f[m] = g[m]
  BY <1>4
<1> QED BY <1>1, <1>5 DEF f

(* The power 0 is 1,                                                       *)
LEMMA PowerOfNone == Power(0) = 1
<1>1. PowersTo(0) = [m \in 0..0 |-> PowerRow(PowersTo(0), m)] /\ Power(0) = PowersTo(0)[0]
  BY PowersToIs
<1> QED BY <1>1 DEF PowerRow

(* the next power is Base times as much.                                   *)
LEMMA PowerOfNext == ASSUME NEW n \in Nat PROVE Power(n + 1) = Base * Power(n)
<1> DEFINE k == n + 1
           f == PowersTo(k)
<1>1. k \in Nat /\ k # 0 /\ k - 1 = n /\ n <= k /\ k \in 0..k
  OBVIOUS
<1> HIDE DEF k
<1>2. f = [m \in 0..k |-> PowerRow(f, m)] /\ Power(k) = f[k]
  BY <1>1, PowersToIs
<1>3. f[n] = Power(n)
  BY <1>1, PowersAgree
<1> HIDE DEF f
<1>4. f[k] = PowerRow(f, k)
  BY <1>1, <1>2
<1> QED BY <1>1, <1>2, <1>3, <1>4 DEF PowerRow, k

(* A product of positive numbers is positive.                              *)
LEMMA ProductIsNat == ASSUME NEW x \in Nat, NEW y \in Nat, x > 0, y > 0 PROVE x * y \in Nat /\ x * y > 0
<1>1. 0 < y /\ x * 0 = 0 /\ 0 \in Int /\ y \in Int
  OBVIOUS
<1>2. x * 0 < x * y /\ x * y \in Int
  BY <1>1, ProductOrder
<1> QED BY <1>1, <1>2

(* A power is a positive number.                                           *)
LEMMA PowerIs == \A n \in Nat : Power(n) \in Nat /\ Power(n) > 0
<1> DEFINE S == {n \in Nat : Power(n) \in Nat /\ Power(n) > 0}
<1>1. 0 \in S
  BY PowerOfNone
<1>2. ASSUME NEW n \in S PROVE n + 1 \in S
  <2>1. Base \in Nat /\ Base > 0 /\ Power(n) \in Nat /\ Power(n) > 0
    BY AlgorithmsAssumption
  <2> DEFINE p == Power(n)
             q == Power(n + 1)
  <2>2. q = Base * p
    BY PowerOfNext
  <2> HIDE DEF p, q
  <2>3. q \in Nat /\ q > 0
    BY <2>1, <2>2, ProductIsNat DEF p
  <2> QED BY <2>3 DEF q
<1>3. S \in SUBSET Nat
  OBVIOUS
<1> HIDE DEF S
<1>4. \A n \in Nat : n \in S
  BY <1>1, <1>2, <1>3, FromPrevious
<1> QED BY <1>4 DEF S

(* A number below p * b is a remainder below p and a digit below b.        *)
LEMMA SplitRemainder ==
    ASSUME NEW x \in Nat, NEW p \in Nat, NEW b \in Nat, p > 0, b > 0
    PROVE  /\ x % p \in 0..(p - 1) /\ (x \div p) % b \in 0..(b - 1)
           /\ x % (b * p) = p * ((x \div p) % b) + (x % p)
<1> DEFINE q == x \div p
           s == x % p
           d == q % b
           e == q \div b
           n == b * p
           y == p * d
<1>1. q \in Nat /\ s \in 0..(p - 1) /\ x = p * q + s
  BY DivModIs
<1> HIDE DEF q, s
<1>2. e \in Nat /\ d \in 0..(b - 1) /\ q = b * e + d
  BY <1>1, DivModIs
<1> HIDE DEF d, e
<1>3. n \in Nat /\ n > 0
  BY ProductIsNat
<1>4. p * q = n * e + y
  <2>1. p * q = p * (b * e) + p * d
    BY <1>2
  <2>2. p * (b * e) = (b * p) * e
    BY <1>2
  <2> QED BY <2>1, <2>2
<1>5. y \in Nat /\ y <= n - p
  <2>1. d \in Int /\ b - 1 \in Int /\ 0 \in Int /\ 0 <= d /\ d <= b - 1
    BY <1>2
  <2>2. p * 0 <= p * d /\ p * d <= p * (b - 1) /\ p * d \in Int
    BY <2>1, ProductOrder
  <2>3. p * 0 = 0 /\ p * (b - 1) = n - p
    OBVIOUS
  <2> QED BY <2>2, <2>3
<1> HIDE DEF n, y
<1>6. y + s \in 0..(n - 1)
  BY <1>1, <1>3, <1>5
<1>7. x = n * e + (y + s)
  <2>1. n * e \in Int
    BY <1>2, <1>3
  <2> QED BY <1>1, <1>4, <1>5, <2>1
<1> DEFINE r == y + s
<1> HIDE DEF r
<1>8. x % n = r
  <2>1. e \in Int /\ r \in 0..(n - 1) /\ x = n * e + r
    BY <1>2, <1>6, <1>7 DEF r
  <2> QED BY <1>3, <2>1, QuotientIs
<1>9. x % n = y + s /\ s \in 0..(p - 1) /\ d \in 0..(b - 1)
  BY <1>1, <1>2, <1>8 DEF r
<1> QED BY <1>9 DEF n, y, d, s, q

Low(x, r) == x[1] % Power(r)

(* The digit decides, and where it is the same what is below it.           *)
LEMMA DigitOrder ==
    ASSUME NEW x \in Elements, NEW y \in Elements, NEW r \in Nat
    PROVE  /\ _Radix_key(x, r) \in 0..(Base - 1) /\ Low(x, r) \in Nat /\ Low(y, r) \in Nat
           /\ Low(x, r + 1) \in Nat /\ Low(y, r + 1) \in Nat
           /\ _Radix_key(x, r) < _Radix_key(y, r) => Low(x, r + 1) < Low(y, r + 1)
           /\ _Radix_key(x, r) = _Radix_key(y, r) =>
                 Low(x, r + 1) - Low(y, r + 1) = Low(x, r) - Low(y, r)
<1> DEFINE p == Power(r)
           P == Power(r + 1)
           u == x[1]
           v == y[1]
           d == _Radix_key(x, r)
           e == _Radix_key(y, r)
           s == u % p
           t == v % p
           f == u % P
           g == v % P
<1>1. u \in Nat /\ v \in Nat /\ Base \in Nat /\ Base > 0
  BY AlgorithmsAssumption DEF Elements
<1>2. p \in Nat /\ p > 0 /\ P = Base * p
  BY PowerIs, PowerOfNext
<1>3. d = (u \div p) % Base /\ e = (v \div p) % Base
  BY DEF _Radix_key
<1> HIDE DEF p, P, u, v, d, e
<1>4. s \in 0..(p - 1) /\ d \in 0..(Base - 1) /\ f = p * d + s
  BY <1>1, <1>2, <1>3, SplitRemainder
<1>5. t \in 0..(p - 1) /\ e \in 0..(Base - 1) /\ g = p * e + t
  BY <1>1, <1>2, <1>3, SplitRemainder
<1> DEFINE a == p * d
           b == p * e
<1>6. a \in Nat /\ b \in Nat
  BY <1>2, <1>4, <1>5
<1>7. d < e => a + p <= b
  <2> SUFFICES ASSUME d < e PROVE a + p <= b
    OBVIOUS
  <2>1. d + 1 <= e /\ d + 1 \in Int /\ e \in Int
    BY <1>4, <1>5
  <2>2. p * (d + 1) <= p * e
    BY <1>2, <2>1, ProductOrder
  <2>3. p * (d + 1) = p * d + p
    BY <1>2, <1>4
  <2> QED BY <2>2, <2>3
<1>8. d = e => a = b
  OBVIOUS
<1> HIDE DEF s, t, a, b, f, g
<1>9. f = a + s /\ g = b + t
  BY <1>4, <1>5 DEF a, b
<1>10. Low(x, r) = s /\ Low(y, r) = t /\ Low(x, r + 1) = f /\ Low(y, r + 1) = g
  BY DEF Low, s, t, u, v, p, P, f, g
<1>11. /\ d \in 0..(Base - 1) /\ s \in Nat /\ t \in Nat /\ f \in Nat /\ g \in Nat
       /\ d < e => f < g
       /\ d = e => f - g = s - t
  BY <1>2, <1>4, <1>5, <1>6, <1>7, <1>8, <1>9
<1> QED BY <1>10, <1>11 DEF d, e

-----------------------------------------------------------------------------
(* The segments of the threads, which count and move the elements of a     *)
(* pass.                                                                   *)

Shares(size, threads, q, r) == q = size \div threads /\ r = size % threads

(* Where the segment n begins, for a size of q * threads + r.              *)
SegmentStart(q, r, n) == q * n + (IF n <= r THEN n ELSE r)

(* A segment is an interval of the range.                                  *)
LEMMA SegmentIs ==
    ASSUME NEW size \in Nat, NEW threads \in Nat, threads > 0, NEW n \in Nat,
           NEW q, NEW r, Shares(size, threads, q, r)
    PROVE  /\ q \in Nat /\ r \in 0..(threads - 1) /\ size = threads * q + r
           /\ SegmentStart(q, r, n) \in Nat /\ SegmentStart(q, r, n) <= SegmentStart(q, r, n + 1)
           /\ Segment(size, threads, n) = SegmentStart(q, r, n)..(SegmentStart(q, r, n + 1) - 1)
<1>0. q = size \div threads /\ r = size % threads
  BY DEF Shares
<1>1. q \in Nat /\ r \in 0..(threads - 1) /\ size = threads * q + r
  BY <1>0, DivModIs
<1> DEFINE first == IF n < r THEN n * (q + 1) ELSE r * (q + 1) + (n - r) * q
           long == IF n < r THEN q + 1 ELSE q
           a == q * n
           b == q * (n + 1)
<1>2. Segment(size, threads, n) = first..(first + long) - 1
  BY <1>0 DEF Segment
<1>3. a \in Nat /\ b = a + q /\ r \in Nat
  BY <1>1
<1>4. CASE n < r
  <2>1. n * (q + 1) = a + n
    BY <1>1
  <2>2. first = a + n /\ long = q + 1
    BY <1>4, <2>1
  <2> HIDE DEF first, long, a, b
  <2>3. SegmentStart(q, r, n) = a + n /\ SegmentStart(q, r, n + 1) = b + (n + 1)
    BY <1>1, <1>4 DEF SegmentStart, a, b
  <2>4. first + long = b + (n + 1) /\ a + n <= b + (n + 1)
    BY <1>1, <1>3, <2>2
  <2> QED BY <1>1, <1>2, <1>3, <2>2, <2>3, <2>4
<1>5. CASE ~(n < r)
  <2>1. r * (q + 1) + (n - r) * q = a + r
    <3>1. (n - r) * q = n * q - r * q /\ r * (q + 1) = r * q + r /\ n * q = a /\ r * q \in Int /\ n * q \in Int
      BY <1>1
    <3> HIDE DEF a
    <3> QED BY <1>1, <1>3, <3>1
  <2>2. first = a + r /\ long = q
    BY <1>5, <2>1
  <2> HIDE DEF first, long, a, b
  <2>3. (IF n <= r THEN n ELSE r) = r /\ (IF n + 1 <= r THEN n + 1 ELSE r) = r
    BY <1>1, <1>5
  <2>4. SegmentStart(q, r, n) = a + r /\ SegmentStart(q, r, n + 1) = b + r
    BY <2>3 DEF SegmentStart, a, b
  <2>5. first + long = b + r /\ a + r <= b + r
    BY <1>1, <1>3, <2>2
  <2> QED BY <1>1, <1>2, <1>3, <2>2, <2>4, <2>5
<1> QED BY <1>4, <1>5

(* Each begins where the one before it ends.                               *)
LEMMA SegmentStarts ==
    ASSUME NEW size \in Nat, NEW threads \in Nat, threads > 0,
           NEW q, NEW r, Shares(size, threads, q, r)
    PROVE  /\ SegmentStart(q, r, 0) = 0 /\ SegmentStart(q, r, threads) = size
           /\ \A m, n \in Nat : m <= n => SegmentStart(q, r, m) <= SegmentStart(q, r, n)
<1>0. q = size \div threads /\ r = size % threads
  BY DEF Shares
<1>1. q \in Nat /\ r \in 0..(threads - 1) /\ size = threads * q + r
  BY <1>0, DivModIs
<1>2. SegmentStart(q, r, 0) = 0
  <2>1. q * 0 = 0 /\ 0 <= r
    BY <1>1
  <2> QED BY <2>1 DEF SegmentStart
<1>3. SegmentStart(q, r, threads) = size
  <2>1. q * threads = threads * q /\ ~(threads <= r)
    BY <1>1
  <2> QED BY <1>1, <2>1 DEF SegmentStart
<1>4. ASSUME NEW m \in Nat, NEW n \in Nat, m <= n PROVE SegmentStart(q, r, m) <= SegmentStart(q, r, n)
  <2> DEFINE a == q * m
             b == q * n
  <2>1. a \in Nat /\ b \in Nat /\ a <= b
    <3>1. CASE q = 0
      BY <3>1
    <3>2. CASE q # 0
      BY <1>1, <1>4, <3>2, ProductOrder
    <3> QED BY <3>1, <3>2
  <2> HIDE DEF a, b
  <2>2. SegmentStart(q, r, m) = a + (IF m <= r THEN m ELSE r) /\ SegmentStart(q, r, n) = b + (IF n <= r THEN n ELSE r)
    BY DEF SegmentStart, a, b
  <2> QED BY <1>1, <1>4, <2>1, <2>2
<1> QED BY <1>2, <1>3, <1>4

(* Thread n of the threads works on i, between lo and hi; the ones before  *)
(* it and itself work on what is below hi.                                 *)
WorksOn(size, threads, n, i, lo, hi) ==
    /\ n \in 0..threads - 1 /\ lo \in Nat /\ hi \in Nat /\ lo <= i /\ i < hi
    /\ Segment(size, threads, n) = lo..(hi - 1)
    /\ hi <= size
    /\ \A k \in 0..size - 1 : (\E m \in 0..n : k \in Segment(size, threads, m)) <=> k < hi
IsOwn(size, threads, n, i) == \E lo, hi : WorksOn(size, threads, n, i, lo, hi)

(* Every place is in one of them,                                          *)
LEMMA SegmentFound ==
    ASSUME NEW size \in Nat, NEW threads \in Nat, threads > 0, NEW n \in Nat,
           NEW q, NEW r, Shares(size, threads, q, r),
           NEW k \in Nat, k < SegmentStart(q, r, n + 1)
    PROVE  \E m \in 0..n : k \in Segment(size, threads, m)
<1> DEFINE f(m) == SegmentStart(q, r, m)
           S == {m \in Nat : k < f(m)}
<1>0. f(0) = 0 /\ \A m \in Nat :
        f(m) \in Nat /\ f(m + 1) \in Nat /\ Segment(size, threads, m) = f(m)..(f(m + 1) - 1)
  <2>1. f(0) = 0
    BY SegmentStarts
  <2>2. \A m \in Nat : SegmentStart(q, r, m) \in Nat
    BY SegmentIs
  <2>3. \A m \in Nat : Segment(size, threads, m) = SegmentStart(q, r, m)..(SegmentStart(q, r, m + 1) - 1)
    BY SegmentIs
  <2>4. \A m \in Nat : m + 1 \in Nat
    OBVIOUS
  <2> QED BY <2>1, <2>2, <2>3, <2>4
<1>1. n + 1 \in S
  OBVIOUS
<1>2. PICK l \in S : \A m \in S : l <= m
  <2> HIDE DEF S
  <2>1. S \in SUBSET Nat
    BY DEF S
  <2> QED BY <1>1, <2>1, LeastOf
<1>3. l # 0
  <2> HIDE DEF f
  <2> QED BY <1>0
<1> DEFINE m == l - 1
<1>4. m \in 0..n /\ m + 1 = l /\ m \in Nat
  BY <1>1, <1>2, <1>3
<1>5. ~(m \in S)
  BY <1>2, <1>4
<1> HIDE DEF m
<1> HIDE DEF f
<1>6. f(m) <= k /\ k < f(m + 1)
  <2>1. f(m) \in Nat
    BY <1>0, <1>4
  <2> QED BY <1>2, <1>4, <1>5, <2>1
<1>7. f(m) \in Nat /\ f(m + 1) \in Nat /\ Segment(size, threads, m) = f(m)..(f(m + 1) - 1)
  BY <1>0, <1>4
<1> HIDE DEF S
<1>8. k \in Segment(size, threads, m)
  BY <1>6, <1>7
<1> QED BY <1>4, <1>8

(* and in one only.                                                        *)
LEMMA SegmentOwns ==
    ASSUME NEW size \in Nat, NEW threads \in Nat, threads > 0, NEW n \in 0..threads - 1,
           NEW i \in Segment(size, threads, n)
    PROVE  IsOwn(size, threads, n, i)
<1> DEFINE q == size \div threads
           r == size % threads
           f(m) == SegmentStart(q, r, m)
           N == n + 1
<1>1. n \in Nat /\ N \in Nat /\ N <= threads
  OBVIOUS
<1>1a. Shares(size, threads, q, r)
  BY DEF Shares
<1> HIDE DEF q, r, N
<1>2. \A m \in Nat : /\ f(m) \in Nat /\ Segment(size, threads, m) = f(m)..(f(m + 1) - 1)
  <2>1. \A m \in Nat : SegmentStart(q, r, m) \in Nat
    BY <1>1a, SegmentIs
  <2>2. \A m \in Nat : Segment(size, threads, m) = SegmentStart(q, r, m)..(SegmentStart(q, r, m + 1) - 1)
    BY <1>1a, SegmentIs
  <2> QED BY <2>1, <2>2
<1>3. f(threads) = size /\ \A m, l \in Nat : m <= l => f(m) <= f(l)
  BY <1>1a, SegmentStarts
<1> HIDE DEF f
<1>4. /\ f(n) \in Nat /\ f(N) \in Nat /\ f(N) <= size
      /\ Segment(size, threads, n) = f(n)..(f(N) - 1)
  <2>1. Segment(size, threads, n) = f(n)..(f(n + 1) - 1)
    BY <1>1, <1>2
  <2>2. f(N) <= f(threads)
    BY <1>1, <1>3
  <2> QED BY <1>1, <1>2, <1>3, <2>1, <2>2 DEF N
<1>5. f(n) <= i /\ i < f(N)
  BY <1>4
<1>6. ASSUME NEW k \in 0..size - 1 PROVE (\E m \in 0..n : k \in Segment(size, threads, m)) <=> k < f(N)
  <2>1. ASSUME NEW m \in 0..n, k \in Segment(size, threads, m) PROVE k < f(N)
    <3> DEFINE M == m + 1
    <3>1. m \in Nat /\ M \in Nat /\ M <= N
      BY <1>1 DEF N
    <3>2. Segment(size, threads, m) = f(m)..(f(M) - 1) /\ f(m) \in Nat /\ f(M) \in Nat
      BY <1>2, <3>1
    <3> HIDE DEF M
    <3>3. f(M) <= f(N)
      BY <1>1, <1>3, <3>1
    <3> QED BY <1>4, <2>1, <3>2, <3>3
  <2>2. ASSUME k < f(N) PROVE \E m \in 0..n : k \in Segment(size, threads, m)
    <3>1. k < SegmentStart(q, r, n + 1)
      BY <2>2 DEF f, N
    <3>2. k \in Nat
      OBVIOUS
    <3> QED BY <1>1, <1>1a, <3>1, <3>2, SegmentFound
  <2> QED BY <2>1, <2>2
<1>7. WorksOn(size, threads, n, i, f(n), f(N))
  BY <1>4, <1>5, <1>6 DEF WorksOn
<1> QED BY <1>7 DEF IsOwn

OwnSegment(size, threads, i) == CHOOSE n \in 0..threads - 1 : i \in Segment(size, threads, n)

(* So a place has its thread.                                              *)
LEMMA OwnIs ==
    ASSUME NEW size \in Nat, NEW threads \in Nat, threads > 0, NEW i \in 0..size - 1
    PROVE  IsOwn(size, threads, OwnSegment(size, threads, i), i)
<1> DEFINE q == size \div threads
           r == size % threads
           n == threads - 1
<1>1. n \in Nat /\ n + 1 = threads /\ i \in Nat /\ i < size
  OBVIOUS
<1>1a. Shares(size, threads, q, r)
  BY DEF Shares
<1> HIDE DEF n, q, r
<1>2. SegmentStart(q, r, threads) = size
  BY <1>1a, SegmentStarts
<1>3. i < SegmentStart(q, r, n + 1)
  BY <1>1, <1>2
<1>4. \E m \in 0..n : i \in Segment(size, threads, m)
  BY <1>1, <1>1a, <1>3, SegmentFound
<1>5. OwnSegment(size, threads, i) \in 0..threads - 1 /\ i \in Segment(size, threads, OwnSegment(size, threads, i))
  BY <1>4 DEF OwnSegment, n
<1> QED BY <1>5, SegmentOwns

-----------------------------------------------------------------------------
(* The places of the elements after a pass: how many come before each.     *)

(* The digits of the range, and what comes before the place i.             *)
Keys(a, base, size, radix) == [k \in 0..size - 1 |-> _Radix_key(a[base + k], radix)]
Earlier(K, i, j) == K[i] < K[j] \/ (K[i] = K[j] /\ i < j)
Before(K, size, i) == {k \in 0..size - 1 : Earlier(K, k, i)}

(* What is in the range can be counted.                                    *)
LEMMA CountsAre ==
    ASSUME NEW size \in Nat, NEW S \in SUBSET (0..size - 1)
    PROVE  IsFiniteSet(S) /\ Cardinality(S) \in 0..size
<1>1. IsFiniteSet(0..size - 1) /\ Cardinality(0..size - 1) = size
  <2>1. 0 \in Int /\ size - 1 \in Int /\ 0 <= (size - 1) + 1 /\ (size - 1) - 0 + 1 = size
    OBVIOUS
  <2> QED BY <2>1, CardinalityOfRange
<1>2. IsFiniteSet(S) /\ Cardinality(S) <= Cardinality(0..size - 1)
  BY <1>1, FS_Subset
<1>3. Cardinality(S) \in Nat
  BY <1>2, FS_CardinalityType
<1> QED BY <1>1, <1>2, <1>3

(* The sums of the counters, less what the thread itself moves before, are *)
(* the number of elements that come before.                                *)
LEMMA PlaceIs ==
    ASSUME NEW a, NEW base, NEW size \in Nat, NEW radix, NEW threads \in Nat, NEW n,
           NEW i \in 0..size - 1, IsOwn(size, threads, n, i),
           Keys(a, base, size, radix) \in [0..size - 1 -> Nat]
    PROVE  Place(a, base, size, radix, threads, n, i)
              = Cardinality(Before(Keys(a, base, size, radix), size, i))
<1> DEFINE K == Keys(a, base, size, radix)
           d == _Radix_key(a[base + i], radix)
           Upto(j) == \E m \in 0..n : j \in Segment(size, threads, m)
           A == {j \in 0..size - 1 : _Radix_key(a[base + j], radix) < d
                                     \/ (_Radix_key(a[base + j], radix) = d /\ Upto(j))}
           C == {k \in Segment(size, threads, n) : k > i /\ _Radix_key(a[base + k], radix) = d}
           B == Before(K, size, i)
           D == B \cup {i}
<1>1. Place(a, base, size, radix, threads, n, i) = Cardinality(A) - 1 - Cardinality(C)
  BY DEF Place, ChunkEnd
<1>2. PICK lo, hi : WorksOn(size, threads, n, i, lo, hi)
  BY DEF IsOwn
<1>3. \A k \in 0..size - 1 : _Radix_key(a[base + k], radix) = K[k] /\ K[k] \in Nat
  BY DEF Keys
<1>4. d = K[i] /\ K[i] \in Nat
  BY <1>3
<1>5. \A j \in 0..size - 1 : Upto(j) <=> j < hi
  BY <1>2 DEF WorksOn
<1>6. /\ lo \in Nat /\ hi \in Nat /\ lo <= i /\ i < hi /\ hi <= size
      /\ Segment(size, threads, n) = lo..(hi - 1)
  BY <1>2 DEF WorksOn
<1> HIDE DEF Upto, K, d
<1>7. A = {j \in 0..size - 1 : K[j] < K[i] \/ (K[j] = K[i] /\ j < hi)}
  BY <1>3, <1>4, <1>5
<1>8. C = {j \in 0..size - 1 : j > i /\ j < hi /\ K[j] = K[i]}
  <2>1. \A k \in lo..(hi - 1) : k \in 0..size - 1
    BY <1>6
  <2>2. ASSUME NEW k \in 0..size - 1, k > i, k < hi PROVE k \in lo..(hi - 1)
    BY <1>6, <2>2
  <2>3. \A k \in lo..(hi - 1) : k < hi
    BY <1>6
  <2> QED BY <1>3, <1>4, <1>6, <2>1, <2>2, <2>3
<1>9. B = {k \in 0..size - 1 : K[k] < K[i] \/ (K[k] = K[i] /\ k < i)}
  BY DEF Before, Earlier
<1> HIDE DEF A, B, C
<1>10. A = D \cup C /\ D \cap C = {} /\ i \notin B
  <2>1. ASSUME NEW k \in 0..size - 1 PROVE k \in A <=> k \in D \/ k \in C
    <3>1. K[k] \in Nat /\ K[i] \in Nat
      BY <1>3
    <3> QED BY <1>6, <1>7, <1>8, <1>9, <3>1
  <2>2. ASSUME NEW k \in 0..size - 1 PROVE ~(k \in D /\ k \in C)
    <3>1. K[k] \in Nat /\ K[i] \in Nat
      BY <1>3
    <3> QED BY <1>8, <1>9, <3>1
  <2>3. i \notin B
    BY <1>4, <1>9
  <2>4. A \subseteq 0..size - 1 /\ D \subseteq 0..size - 1 /\ C \subseteq 0..size - 1
    BY <1>7, <1>8, <1>9
  <2> HIDE DEF D
  <2>5. A = D \cup C
    BY <2>1, <2>4
  <2>6. D \cap C = {}
    BY <2>2, <2>4
  <2> QED BY <2>3, <2>5, <2>6
<1>11. IsFiniteSet(B) /\ Cardinality(B) \in Nat /\ IsFiniteSet(C) /\ Cardinality(C) \in Nat
  <2>1. B \in SUBSET (0..size - 1) /\ C \in SUBSET (0..size - 1)
    BY <1>8, <1>9
  <2>2. IsFiniteSet(B) /\ Cardinality(B) \in 0..size
    BY <2>1, CountsAre
  <2>3. IsFiniteSet(C) /\ Cardinality(C) \in 0..size
    BY <2>1, CountsAre
  <2> QED BY <2>2, <2>3
<1>12. IsFiniteSet(D) /\ Cardinality(D) = Cardinality(B) + 1
  BY <1>10, <1>11, FS_AddElement
<1> HIDE DEF D
<1>13. Cardinality(D \cup C) = Cardinality(D) + Cardinality(C) - Cardinality(D \cap C)
  BY <1>11, <1>12, FS_Union
<1>14. Cardinality(D \cap C) = 0
  BY <1>10, FS_EmptySet
<1>15. Cardinality(A) - 1 - Cardinality(C) = Cardinality(B)
  BY <1>10, <1>11, <1>12, <1>13, <1>14
<1> QED BY <1>1, <1>15 DEF B, K

(* The places are all different, in the order of the digits and then of    *)
(* the elements themselves.                                                *)
Rank(K, size, i) == Cardinality(Before(K, size, i))

(* An earlier element has a lower rank.                                    *)
LEMMA RankOrder ==
    ASSUME NEW size \in Nat, NEW K \in [0..size - 1 -> Nat],
           NEW i \in 0..size - 1, NEW j \in 0..size - 1, Earlier(K, i, j)
    PROVE  Rank(K, size, i) \in 0..size - 1 /\ Rank(K, size, j) \in Nat /\ Rank(K, size, i) < Rank(K, size, j)
<1> DEFINE B == Before(K, size, i)
           C == Before(K, size, j)
           D == B \cup {i}
<1>1. B \in SUBSET (0..size - 1) /\ C \in SUBSET (0..size - 1)
  BY DEF Before
<1>2. IsFiniteSet(B) /\ Cardinality(B) \in 0..size
  BY <1>1, CountsAre
<1>3. IsFiniteSet(C) /\ Cardinality(C) \in 0..size
  BY <1>1, CountsAre
<1>4. i \notin B
  BY DEF Before, Earlier
<1>5. D \subseteq C
  <2>1. i \in C
    BY DEF Before
  <2>2. ASSUME NEW k \in B PROVE k \in C
    <3>1. k \in 0..size - 1 /\ Earlier(K, k, i)
      BY <2>2 DEF Before
    <3>2. Earlier(K, k, j)
      <4>1. K[k] \in Nat /\ K[i] \in Nat /\ K[j] \in Nat /\ k \in Int /\ i \in Int /\ j \in Int
        BY <3>1
      <4> QED BY <3>1, <4>1 DEF Earlier
    <3> QED BY <3>1, <3>2 DEF Before
  <2> QED BY <2>1, <2>2
<1> HIDE DEF B, C
<1>6. IsFiniteSet(D) /\ Cardinality(D) = Cardinality(B) + 1
  BY <1>2, <1>4, FS_AddElement
<1> HIDE DEF D
<1>7. Cardinality(D) <= Cardinality(C)
  BY <1>3, <1>5, FS_Subset
<1>8. Cardinality(B) \in 0..size - 1 /\ Cardinality(C) \in Nat /\ Cardinality(B) < Cardinality(C)
  BY <1>2, <1>3, <1>6, <1>7
<1> QED BY <1>8 DEF Rank, B, C

(* A rank is a place of the range,                                         *)
LEMMA RankIn ==
    ASSUME NEW size \in Nat, NEW K \in [0..size - 1 -> Nat], NEW i \in 0..size - 1
    PROVE  Rank(K, size, i) \in 0..size - 1
<1> DEFINE B == Before(K, size, i)
           S == (0..size - 1) \ {i}
<1>1. B \in SUBSET S
  BY DEF Before, Earlier
<1>2. S \in SUBSET (0..size - 1) /\ IsFiniteSet(0..size - 1) /\ Cardinality(0..size - 1) = size
  <2>1. 0 \in Int /\ size - 1 \in Int /\ 0 <= (size - 1) + 1 /\ (size - 1) - 0 + 1 = size
    OBVIOUS
  <2> QED BY <2>1, CardinalityOfRange
<1> HIDE DEF B
<1>3. IsFiniteSet(S) /\ Cardinality(S) = size - 1
  <2>1. IsFiniteSet(S) /\ Cardinality(S) = IF i \in 0..size - 1 THEN Cardinality(0..size - 1) - 1
                                                           ELSE Cardinality(0..size - 1)
    BY <1>2, FS_RemoveElement
  <2> QED BY <1>2, <2>1
<1> HIDE DEF S
<1>4. IsFiniteSet(B) /\ Cardinality(B) <= Cardinality(S)
  BY <1>1, <1>3, FS_Subset
<1>5. Cardinality(B) \in Nat
  BY <1>4, FS_CardinalityType
<1>6. Cardinality(B) \in 0..size - 1
  BY <1>3, <1>4, <1>5
<1> QED BY <1>6 DEF Rank, B

(* and every place is the rank of an element: they are as many.            *)
LEMMA RankIsOnto ==
    ASSUME NEW size \in Nat, NEW K \in [0..size - 1 -> Nat], NEW k \in 0..size - 1
    PROVE  \E i \in 0..size - 1 : Rank(K, size, i) = k
<1> DEFINE S == 0..size - 1
           f == [i \in S |-> Rank(K, size, i)]
<1>1. f \in [S -> S]
  BY RankIn
<1>2. \A i, j \in S : i # j => f[i] # f[j]
  <2> SUFFICES ASSUME NEW i \in S, NEW j \in S, i # j PROVE Rank(K, size, i) # Rank(K, size, j)
    OBVIOUS
  <2>1. Earlier(K, i, j) \/ Earlier(K, j, i)
    <3>1. K[i] \in Nat /\ K[j] \in Nat /\ i \in Int /\ j \in Int
      OBVIOUS
    <3> QED BY <3>1 DEF Earlier
  <2>2. CASE Earlier(K, i, j)
    <3>1. Rank(K, size, i) \in 0..size - 1 /\ Rank(K, size, j) \in Nat /\ Rank(K, size, i) < Rank(K, size, j)
      BY <2>2, RankOrder
    <3> QED BY <3>1
  <2>3. CASE Earlier(K, j, i)
    <3>1. Rank(K, size, j) \in 0..size - 1 /\ Rank(K, size, i) \in Nat /\ Rank(K, size, j) < Rank(K, size, i)
      BY <2>3, RankOrder
    <3> QED BY <3>1
  <2> QED BY <2>1, <2>2, <2>3
<1>3. IsFiniteSet(S)
  BY FS_Interval
<1>4. \A i \in S : f[i] = Rank(K, size, i)
  OBVIOUS
<1> HIDE DEF f, S
<1>5. f \in Injection(S, S)
  BY <1>1, <1>2 DEF Injection, IsInjective
<1>6. f \in Surjection(S, S)
  BY <1>3, <1>5, FS_Injection
<1>7. \E i \in S : f[i] = k
  BY <1>6 DEF Surjection, S
<1> QED BY <1>4, <1>7 DEF S

(* The elements of an array.                                               *)
LEMMA ElementIs == ASSUME NEW a \in Seq(Elements), NEW i \in 1..Len(a) PROVE a[i] \in Elements
OBVIOUS

(* The digits of a range.                                                  *)
LEMMA KeysAre ==
    ASSUME NEW a \in Seq(Elements), NEW base \in Nat, NEW size \in Nat, InArray(a, base, size), NEW radix \in Nat
    PROVE  /\ Keys(a, base, size, radix) \in [0..size - 1 -> Nat]
           /\ \A k \in 0..size - 1 : /\ base + k \in 1..Len(a) /\ a[base + k] \in Elements
                                     /\ Keys(a, base, size, radix)[k] = _Radix_key(a[base + k], radix)
                                     /\ Keys(a, base, size, radix)[k] \in 0..(Base - 1)
<1> DEFINE K == Keys(a, base, size, radix)
<1>1. ASSUME NEW k \in 0..size - 1
      PROVE  base + k \in 1..Len(a) /\ a[base + k] \in Elements /\ _Radix_key(a[base + k], radix) \in 0..(Base - 1)
  <2>1. base + k \in 1..Len(a)
    <3>1. base >= 1 /\ base + size <= Len(a) + 1 /\ Len(a) \in Nat
      BY DEF InArray
    <3> QED BY <3>1
  <2> DEFINE x == a[base + k]
  <2>2. x \in Elements
    BY <2>1, ElementIs
  <2> HIDE DEF x
  <2>3. _Radix_key(x, radix) \in 0..(Base - 1)
    BY <2>2, DigitOrder
  <2> QED BY <2>1, <2>2, <2>3 DEF x
<1>2. \A k \in 0..size - 1 : K[k] = _Radix_key(a[base + k], radix)
  BY DEF Keys
<1>3. K = [k \in 0..size - 1 |-> K[k]]
  BY DEF Keys
<1>4. Base - 1 \in Int /\ \A d \in 0..(Base - 1) : d \in Nat
  BY AlgorithmsAssumption
<1> HIDE DEF K
<1>5. \A k \in 0..size - 1 : K[k] \in 0..(Base - 1) /\ K[k] \in Nat
  BY <1>1, <1>2, <1>4
<1>6. K \in [0..size - 1 -> Nat]
  BY <1>3, <1>5
<1> QED BY <1>1, <1>2, <1>5, <1>6 DEF K

(* f says where an element of the range comes from.                        *)
Comes(f, a, r, base, size, radix) ==
    /\ f \in [0..size - 1 -> 0..size - 1]
    /\ \A k \in 0..size - 1 : r[base + k] = a[base + f[k]] /\ Rank(Keys(a, base, size, radix), size, f[k]) = k
IsPass(a, b, r, base, size, radix) ==
    /\ r \in Seq(Elements) /\ Len(r) = Len(b) /\ SameOutside(b, r, base, size)
    /\ \E f : Comes(f, a, r, base, size, radix)

IsPut(b, r, base, s, size) ==
    /\ r \in Seq(Elements) /\ Len(r) = Len(b) /\ SameOutside(b, r, base, size)
    /\ \A k \in 0..size - 1 : r[base + k] = s[k + 1]

(* What is put into a range of a buffer.                                   *)
LEMMA PutAt ==
    ASSUME NEW b \in Seq(Elements), NEW base \in Nat, NEW size \in Nat, NEW s \in Seq(Elements),
           InArray(b, base, size), Len(s) = size
    PROVE  IsPut(b, Put(b, base, s), base, s, size)
<1> DEFINE S == Elements
           r == Put(b, base, s)
<1> HIDE DEF S
<1>0. b \in Seq(S) /\ s \in Seq(S) /\ InArray(b, base, Len(s))
  BY DEF S
<1>1. /\ r \in Seq(S) /\ Len(r) = Len(b)
      /\ \A i \in 1..Len(b) : r[i] = IF base <= i /\ i < base + Len(s) THEN s[i - base + 1] ELSE b[i]
  BY <1>0, PutIs
<1> HIDE DEF r
<1>2. SameOutside(b, r, base, size)
  BY <1>1 DEF SameOutside
<1>3. ASSUME NEW k \in 0..size - 1 PROVE r[base + k] = s[k + 1]
  <2> DEFINE i == base + k
  <2>1. i \in 1..Len(b) /\ base <= i /\ i < base + size /\ i - base + 1 = k + 1
    <3>1. base >= 1 /\ base + size <= Len(b) + 1 /\ Len(b) \in Nat
      BY DEF InArray
    <3> QED BY <3>1
  <2> HIDE DEF i
  <2>2. r[i] = s[i - base + 1]
    BY <1>1, <2>1
  <2> QED BY <2>1, <2>2 DEF i
<1>4. IsPut(b, r, base, s, size)
  BY <1>1, <1>2, <1>3 DEF IsPut, S
<1> QED BY <1>4 DEF r

(* A pass, by any number of threads, puts every element at its rank.       *)
LEMMA PassIs ==
    ASSUME NEW a \in Seq(Elements), NEW b \in Seq(Elements), NEW base \in Nat, NEW size \in Nat,
           InArray(a, base, size), Len(b) = Len(a), NEW radix \in Nat, NEW threads \in Nat, threads > 0
    PROVE  IsPass(a, b, Pass(a, b, base, size, radix, threads), base, size, radix)
<1> DEFINE K == Keys(a, base, size, radix)
           N(i) == OwnSegment(size, threads, i)
           from(k) == CHOOSE i \in 0..size - 1 : Place(a, base, size, radix, threads, N(i), i) = k
           s == [k \in 1..size |-> a[base + from(k - 1)]]
           r == Pass(a, b, base, size, radix, threads)
           f == [k \in 0..size - 1 |-> from(k)]
<1>1. r = Put(b, base, s)
  BY DEF Pass, OwnSegment
<1>2. /\ K \in [0..size - 1 -> Nat]
      /\ \A k \in 0..size - 1 : base + k \in 1..Len(a) /\ a[base + k] \in Elements
  BY KeysAre
<1> HIDE DEF K, r
<1>3. ASSUME NEW i \in 0..size - 1
      PROVE  Place(a, base, size, radix, threads, N(i), i) = Rank(K, size, i)
  <2> DEFINE n == N(i)
  <2>1. IsOwn(size, threads, n, i)
    BY OwnIs
  <2> HIDE DEF n
  <2>2. Place(a, base, size, radix, threads, n, i) = Cardinality(Before(Keys(a, base, size, radix), size, i))
    BY <1>2, <2>1, PlaceIs DEF K
  <2> QED BY <2>2 DEF Rank, K, n
<1>4. ASSUME NEW k \in 0..size - 1 PROVE from(k) \in 0..size - 1 /\ Rank(K, size, from(k)) = k
  <2>1. \E i \in 0..size - 1 : Rank(K, size, i) = k
    BY <1>2, RankIsOnto
  <2>2. \E i \in 0..size - 1 : Place(a, base, size, radix, threads, N(i), i) = k
    <3> HIDE DEF N
    <3> QED BY <1>3, <2>1
  <2>3. from(k) \in 0..size - 1 /\ Place(a, base, size, radix, threads, N(from(k)), from(k)) = k
    <3> HIDE DEF N
    <3> QED BY <2>2
  <2> DEFINE j == from(k)
  <2> HIDE DEF from, N
  <2> QED BY <1>3, <2>3
<1> HIDE DEF from, N
<1>5. s \in Seq(Elements) /\ Len(s) = size /\ \A k \in 0..size - 1 : s[k + 1] = a[base + from(k)]
  <2>1. ASSUME NEW k \in 1..size PROVE a[base + from(k - 1)] \in Elements
    <3>1. k - 1 \in 0..size - 1
      OBVIOUS
    <3>2. from(k - 1) \in 0..size - 1
      BY <1>4, <3>1
    <3> QED BY <1>2, <3>2
  <2> HIDE DEF Elements
  <2>2. s \in [1..size -> Elements]
    BY <2>1
  <2>3. s \in Seq(Elements) /\ Len(s) = size
    BY <2>2
  <2>4. \A k \in 0..size - 1 : k + 1 \in 1..size /\ (k + 1) - 1 = k
    OBVIOUS
  <2> QED BY <2>3, <2>4
<1> HIDE DEF s
<1>6. InArray(b, base, size)
  BY DEF InArray
<1>7. /\ r \in Seq(Elements) /\ Len(r) = Len(b) /\ SameOutside(b, r, base, size)
      /\ \A k \in 0..size - 1 : r[base + k] = s[k + 1]
  <2>1. s \in Seq(Elements) /\ Len(s) = size
    BY <1>5
  <2>2. IsPut(b, Put(b, base, s), base, s, size)
    BY <1>6, <2>1, PutAt
  <2> QED BY <1>1, <2>2 DEF IsPut
<1>8. Comes(f, a, r, base, size, radix)
  <2>1. f \in [0..size - 1 -> 0..size - 1] /\ \A k \in 0..size - 1 : f[k] = from(k)
    BY <1>4
  <2> HIDE DEF f
  <2> QED BY <1>4, <1>5, <1>7, <2>1 DEF Comes, K
<1> QED BY <1>7, <1>8 DEF IsPass, r

(* No two elements are each before the other.                              *)
LEMMA EarlierOnce ==
    ASSUME NEW size \in Nat, NEW K \in [0..size - 1 -> Nat], NEW i \in 0..size - 1, NEW j \in 0..size - 1
    PROVE  ~(Earlier(K, i, j) /\ Earlier(K, j, i))
<1>1. K[i] \in Nat /\ K[j] \in Nat /\ i \in Int /\ j \in Int
  OBVIOUS
<1> QED BY <1>1 DEF Earlier

(* Every element has come, and they have come in their order.              *)
LEMMA ComesAll ==
    ASSUME NEW size \in Nat, NEW K \in [0..size - 1 -> Nat], NEW f \in [0..size - 1 -> 0..size - 1],
           \A k \in 0..size - 1 : Rank(K, size, f[k]) = k
    PROVE  /\ \A i \in 0..size - 1 : f[Rank(K, size, i)] = i
           /\ \A k, l \in 0..size - 1 : k < l => Earlier(K, f[k], f[l])
<1>1. ASSUME NEW i \in 0..size - 1, NEW j \in 0..size - 1, Rank(K, size, i) <= Rank(K, size, j)
      PROVE  i = j \/ Earlier(K, i, j)
  <2> SUFFICES ASSUME i # j, ~Earlier(K, i, j) PROVE FALSE
    OBVIOUS
  <2>1. Earlier(K, j, i)
    <3>1. K[i] \in Nat /\ K[j] \in Nat /\ i \in Int /\ j \in Int
      OBVIOUS
    <3> QED BY <3>1 DEF Earlier
  <2>2. Rank(K, size, j) \in 0..size - 1 /\ Rank(K, size, i) \in Nat /\ Rank(K, size, j) < Rank(K, size, i)
    BY <2>1, RankOrder
  <2> QED BY <1>1, <2>2
<1>2. ASSUME NEW i \in 0..size - 1 PROVE f[Rank(K, size, i)] = i
  <2> DEFINE k == Rank(K, size, i)
             j == f[k]
  <2>1. k \in 0..size - 1
    BY RankIn
  <2>2. j \in 0..size - 1 /\ Rank(K, size, j) = k
    BY <2>1
  <2> HIDE DEF j
  <2>3. j = i \/ Earlier(K, j, i)
    BY <1>1, <2>1, <2>2
  <2>4. j = i \/ Earlier(K, i, j)
    BY <1>1, <2>1, <2>2
  <2>5. ~(Earlier(K, i, j) /\ Earlier(K, j, i))
    BY <2>2, EarlierOnce
  <2> QED BY <2>3, <2>4, <2>5 DEF j
<1>3. ASSUME NEW k \in 0..size - 1, NEW l \in 0..size - 1, k < l PROVE Earlier(K, f[k], f[l])
  <2>1. f[k] \in 0..size - 1 /\ f[l] \in 0..size - 1 /\ Rank(K, size, f[k]) <= Rank(K, size, f[l])
    BY <1>3
  <2>2. f[k] # f[l]
    BY <1>3
  <2> QED BY <1>1, <2>1, <2>2
<1> QED BY <1>2, <1>3

-----------------------------------------------------------------------------
(* Orders by the digits below r: every pass adds a digit, and the highest  *)
(* one divides the range into chunks.                                      *)

(* The order of the keys below the digit r, and then of the identities.    *)
Lex(x, y, r) == Low(x, r) < Low(y, r) \/ (Low(x, r) = Low(y, r) /\ x[2] < y[2])
Ordered(s, base, size, r) == \A i, k \in 0..size - 1 : i < k => Lex(s[base + i], s[base + k], r)
Elems(s, base, size) == {s[base + i] : i \in 0..size - 1}

(* The order by one more digit.                                            *)
LEMMA LexNext ==
    ASSUME NEW x \in Elements, NEW y \in Elements, NEW r \in Nat,
           \/ _Radix_key(x, r) < _Radix_key(y, r)
           \/ _Radix_key(x, r) = _Radix_key(y, r) /\ Lex(x, y, r)
    PROVE  Lex(x, y, r + 1)
<1> DEFINE d == _Radix_key(x, r)
           e == _Radix_key(y, r)
           s == Low(x, r)
           t == Low(y, r)
           u == Low(x, r + 1)
           v == Low(y, r + 1)
<1>1. /\ s \in Nat /\ t \in Nat /\ u \in Nat /\ v \in Nat
      /\ d < e => u < v
      /\ d = e => u - v = s - t
  BY DigitOrder
<1>2. d < e \/ (d = e /\ (s < t \/ (s = t /\ x[2] < y[2])))
  BY DEF Lex
<1> HIDE DEF d, e, s, t, u, v
<1>3. u < v \/ (u = v /\ x[2] < y[2])
  BY <1>1, <1>2
<1> QED BY <1>3 DEF Lex, u, v

(* The places of a range are places of the array.                          *)
LEMMA ElemsAre ==
    ASSUME NEW a \in Seq(Elements), NEW base \in Nat, NEW size \in Nat, InArray(a, base, size)
    PROVE  \A k \in 0..size - 1 : base + k \in 1..Len(a) /\ a[base + k] \in Elements
BY KeysAre, 0 \in Nat

(* A pass by a digit keeps what is in order below it.                      *)
LEMMA PassOrders ==
    ASSUME NEW a \in Seq(Elements), NEW base \in Nat, NEW size \in Nat, NEW radix \in Nat,
           InArray(a, base, size), NEW b, NEW r, IsPass(a, b, r, base, size, radix)
    PROVE  /\ Ordered(a, base, size, radix) => Ordered(r, base, size, radix + 1)
           /\ Elems(r, base, size) = Elems(a, base, size)
<1> DEFINE K == Keys(a, base, size, radix)
<1>1. PICK f : Comes(f, a, r, base, size, radix)
  BY DEF IsPass
<1>2. /\ K \in [0..size - 1 -> Nat]
      /\ \A k \in 0..size - 1 : a[base + k] \in Elements /\ K[k] = _Radix_key(a[base + k], radix)
  BY KeysAre
<1>3. /\ f \in [0..size - 1 -> 0..size - 1]
      /\ \A k \in 0..size - 1 : r[base + k] = a[base + f[k]] /\ Rank(K, size, f[k]) = k
  BY <1>1 DEF Comes
<1> HIDE DEF K
<1>4. /\ \A i \in 0..size - 1 : f[Rank(K, size, i)] = i
      /\ \A k, l \in 0..size - 1 : k < l => Earlier(K, f[k], f[l])
  BY <1>2, <1>3, ComesAll
<1>5. ASSUME Ordered(a, base, size, radix), NEW k \in 0..size - 1, NEW l \in 0..size - 1, k < l
      PROVE  Lex(r[base + k], r[base + l], radix + 1)
  <2> DEFINE i == f[k]
             j == f[l]
             x == a[base + i]
             y == a[base + j]
  <2>1. i \in 0..size - 1 /\ j \in 0..size - 1 /\ Earlier(K, i, j)
    BY <1>3, <1>4, <1>5
  <2>2. r[base + k] = x /\ r[base + l] = y
    BY <1>3
  <2> HIDE DEF i, j
  <2>3. x \in Elements /\ y \in Elements /\ K[i] = _Radix_key(x, radix) /\ K[j] = _Radix_key(y, radix)
    BY <1>2, <2>1
  <2>4. i < j => Lex(x, y, radix)
    BY <1>5, <2>1 DEF Ordered
  <2> HIDE DEF x, y
  <2>5. \/ _Radix_key(x, radix) < _Radix_key(y, radix)
        \/ _Radix_key(x, radix) = _Radix_key(y, radix) /\ Lex(x, y, radix)
    BY <2>1, <2>3, <2>4 DEF Earlier
  <2>6. Lex(x, y, radix + 1)
    BY <2>3, <2>5, LexNext
  <2> QED BY <2>2, <2>6
<1>6. Elems(r, base, size) = Elems(a, base, size)
  <2>1. ASSUME NEW k \in 0..size - 1 PROVE r[base + k] \in Elems(a, base, size)
    <3>1. f[k] \in 0..size - 1 /\ r[base + k] = a[base + f[k]]
      BY <1>3
    <3> QED BY <3>1 DEF Elems
  <2>2. ASSUME NEW i \in 0..size - 1 PROVE a[base + i] \in Elems(r, base, size)
    <3> DEFINE k == Rank(K, size, i)
    <3>1. k \in 0..size - 1
      BY <1>2, RankIn
    <3>2. f[k] = i
      BY <1>4
    <3> HIDE DEF k
    <3>3. r[base + k] = a[base + i]
      BY <1>3, <3>1, <3>2
    <3> QED BY <3>1, <3>3 DEF Elems
  <2>3. Elems(r, base, size) \subseteq Elems(a, base, size)
    BY <2>1 DEF Elems
  <2>4. Elems(a, base, size) \subseteq Elems(r, base, size)
    BY <2>2 DEF Elems
  <2> QED BY <2>3, <2>4
<1> QED BY <1>5, <1>6 DEF Ordered

(* The chunks of the digits, in the order of the digits; in each what it   *)
(* has is in the order it was in.                                          *)
Chunked(a, r, base, size, radix) ==
    LET start(d) == ChunkBegin(a, base, size, radix, d)
    IN /\ start(0) = 0 /\ start(Base) = size
       /\ \A d \in 0..Base : start(d) \in 0..size
       /\ \A d, e \in 0..Base : d <= e => start(d) <= start(e)
       /\ \A d \in 0..(Base - 1) : \A k \in 0..size - 1 :
              start(d) <= k /\ k < start(d + 1) => _Radix_key(r[base + k], radix) = d
       /\ \A k \in 0..size - 1 : \E d \in 0..(Base - 1) : start(d) <= k /\ k < start(d + 1)

(* The chunks begin one after the other, from the first place to the last. *)
LEMMA BeginIs ==
    ASSUME NEW a \in Seq(Elements), NEW base \in Nat, NEW size \in Nat, NEW radix \in Nat,
           InArray(a, base, size)
    PROVE  /\ ChunkBegin(a, base, size, radix, 0) = 0 /\ ChunkBegin(a, base, size, radix, Base) = size
           /\ \A d : ChunkBegin(a, base, size, radix, d) \in 0..size
           /\ \A d, e \in Nat : d <= e =>
                 ChunkBegin(a, base, size, radix, d) <= ChunkBegin(a, base, size, radix, e)
<1> DEFINE K == Keys(a, base, size, radix)
           L(d) == {i \in 0..size - 1 : K[i] < d}
<1>1. \A k \in 0..size - 1 : K[k] = _Radix_key(a[base + k], radix) /\ K[k] \in 0..(Base - 1) /\ K[k] \in Nat
  BY KeysAre
<1>2. Base \in Nat
  BY AlgorithmsAssumption
<1> HIDE DEF K
<1>3. \A d : ChunkBegin(a, base, size, radix, d) = Cardinality(L(d))
  BY <1>1 DEF ChunkBegin
<1>4. \A d : L(d) \in SUBSET (0..size - 1)
  OBVIOUS
<1>5. L(0) = {} /\ L(Base) = 0..size - 1
  BY <1>1, <1>2
<1>6. \A d, e \in Nat : d <= e => L(d) \subseteq L(e)
  BY <1>1
<1> HIDE DEF L
<1>7. \A d : IsFiniteSet(L(d)) /\ Cardinality(L(d)) \in 0..size
  BY <1>4, CountsAre
<1>8. Cardinality(L(0)) = 0
  BY <1>5, FS_EmptySet
<1>9. Cardinality(L(Base)) = size
  <2>1. 0 \in Int /\ size - 1 \in Int /\ 0 <= (size - 1) + 1 /\ (size - 1) - 0 + 1 = size
    OBVIOUS
  <2>2. Cardinality(0..size - 1) = size
    BY <2>1, CardinalityOfRange
  <2> QED BY <1>5, <2>2
<1>10. ASSUME NEW d \in Nat, NEW e \in Nat, d <= e PROVE Cardinality(L(d)) <= Cardinality(L(e))
  BY <1>6, <1>7, <1>10, FS_Subset
<1> QED BY <1>3, <1>7, <1>8, <1>9, <1>10

(* The rank of an element is in the chunk of its digit.                    *)
LEMMA RankInChunk ==
    ASSUME NEW a \in Seq(Elements), NEW base \in Nat, NEW size \in Nat, NEW radix \in Nat,
           InArray(a, base, size), NEW i \in 0..size - 1, NEW d, NEW k,
           d = Keys(a, base, size, radix)[i], k = Rank(Keys(a, base, size, radix), size, i)
    PROVE  /\ d \in 0..(Base - 1) /\ k \in 0..size - 1
           /\ ChunkBegin(a, base, size, radix, d) <= k /\ k < ChunkBegin(a, base, size, radix, d + 1)
<1> DEFINE K == Keys(a, base, size, radix)
           L(c) == {j \in 0..size - 1 : K[j] < c}
           B == Before(K, size, i)
           D == B \cup {i}
<1>1. /\ K \in [0..size - 1 -> Nat]
      /\ \A j \in 0..size - 1 : K[j] = _Radix_key(a[base + j], radix) /\ K[j] \in 0..(Base - 1)
  BY KeysAre
<1>2. \A c : ChunkBegin(a, base, size, radix, c) = Cardinality(L(c))
  BY <1>1 DEF ChunkBegin
<1>3. d = K[i] /\ k = Cardinality(B)
  BY DEF Rank
<1> HIDE DEF K
<1>4. k \in 0..size - 1
  BY <1>1, RankIn DEF K
<1>5. \A j \in 0..size - 1 : K[j] \in Nat
  BY <1>1
<1>6. L(d) \subseteq B
  BY <1>3 DEF Before, Earlier
<1>7. D \subseteq L(d + 1)
  <2> SUFFICES ASSUME NEW j \in D PROVE j \in 0..size - 1 /\ K[j] < d + 1
    OBVIOUS
  <2>1. j \in 0..size - 1 /\ (K[j] < K[i] \/ K[j] = K[i])
    BY DEF Before, Earlier
  <2>2. K[j] \in Nat /\ K[i] \in Nat
    BY <1>5, <2>1
  <2> HIDE DEF D
  <2> QED BY <1>3, <2>1, <2>2
<1>8. i \notin B /\ B \in SUBSET (0..size - 1) /\ L(d + 1) \in SUBSET (0..size - 1)
  <2>1. ~(K[i] < K[i]) /\ ~(i < i)
    BY <1>5
  <2> QED BY <2>1 DEF Before, Earlier
<1> HIDE DEF B, L
<1>9. IsFiniteSet(B) /\ Cardinality(B) \in 0..size
  BY <1>8, CountsAre
<1>10. IsFiniteSet(L(d + 1)) /\ Cardinality(L(d + 1)) \in 0..size
  BY <1>8, CountsAre
<1>11. Cardinality(L(d)) <= Cardinality(B)
  BY <1>6, <1>9, FS_Subset
<1>12. IsFiniteSet(D) /\ Cardinality(D) = Cardinality(B) + 1
  BY <1>8, <1>9, FS_AddElement
<1> HIDE DEF D
<1>13. Cardinality(D) <= Cardinality(L(d + 1))
  BY <1>7, <1>10, FS_Subset
<1>14. k < Cardinality(L(d + 1))
  BY <1>3, <1>4, <1>10, <1>12, <1>13
<1>15. d \in 0..(Base - 1)
  BY <1>1, <1>3
<1> QED BY <1>2, <1>3, <1>4, <1>11, <1>14, <1>15

(* A pass puts every element into the chunk of its digit.                  *)
LEMMA PassChunks ==
    ASSUME NEW a \in Seq(Elements), NEW base \in Nat, NEW size \in Nat, NEW radix \in Nat,
           InArray(a, base, size), NEW b, NEW r, IsPass(a, b, r, base, size, radix)
    PROVE  Chunked(a, r, base, size, radix)
<1> DEFINE K == Keys(a, base, size, radix)
           start(d) == ChunkBegin(a, base, size, radix, d)
<1>1. PICK f : Comes(f, a, r, base, size, radix)
  BY DEF IsPass
<1>2. \A k \in 0..size - 1 : K[k] = _Radix_key(a[base + k], radix)
  BY KeysAre
<1>3. /\ f \in [0..size - 1 -> 0..size - 1]
      /\ \A k \in 0..size - 1 : r[base + k] = a[base + f[k]] /\ Rank(K, size, f[k]) = k
  BY <1>1 DEF Comes
<1>4. /\ start(0) = 0 /\ start(Base) = size /\ \A d : start(d) \in 0..size
      /\ \A d, e \in Nat : d <= e => start(d) <= start(e)
  <2>1. ChunkBegin(a, base, size, radix, 0) = 0 /\ ChunkBegin(a, base, size, radix, Base) = size
    BY BeginIs
  <2>2. \A d : ChunkBegin(a, base, size, radix, d) \in 0..size
    BY BeginIs
  <2>3. \A d, e \in Nat : d <= e =>
           ChunkBegin(a, base, size, radix, d) <= ChunkBegin(a, base, size, radix, e)
    BY BeginIs
  <2> QED BY <2>1, <2>2, <2>3
<1>5. Base \in Nat
  BY AlgorithmsAssumption
<1>6. ASSUME NEW k \in 0..size - 1, NEW d, d = _Radix_key(r[base + k], radix)
      PROVE  d \in 0..(Base - 1) /\ start(d) <= k /\ k < start(d + 1)
  <2> DEFINE i == f[k]
  <2>1. i \in 0..size - 1 /\ r[base + k] = a[base + i] /\ k = Rank(K, size, i)
    BY <1>3
  <2> HIDE DEF i
  <2>2. d = K[i]
    BY <1>2, <1>6, <2>1
  <2> QED BY <2>1, <2>2, RankInChunk
<1> HIDE DEF start, K
<1>7. ASSUME NEW d \in 0..(Base - 1), NEW k \in 0..size - 1, start(d) <= k, k < start(d + 1)
      PROVE  _Radix_key(r[base + k], radix) = d
  <2> DEFINE e == _Radix_key(r[base + k], radix)
             d1 == d + 1
             e1 == e + 1
  <2>1. e \in 0..(Base - 1) /\ start(e) <= k /\ k < start(e1)
    BY <1>6
  <2> HIDE DEF e
  <2>2. d \in Nat /\ e \in Nat /\ d1 \in Nat /\ e1 \in Nat
    BY <1>5, <2>1
  <2>3. start(d) \in Nat /\ start(d1) \in Nat /\ start(e) \in Nat /\ start(e1) \in Nat
    BY <1>4
  <2>4. k < start(d1)
    BY <1>7
  <2> DEFINE D1 == d1
             E1 == e1
  <2>5. ~(d < e)
    <3> SUFFICES ASSUME d < e PROVE FALSE
      OBVIOUS
    <3>1. d1 <= e
      BY <2>2
    <3> HIDE DEF d1, e1
    <3>2. start(d1) <= start(e)
      BY <1>4, <2>2, <3>1
    <3> QED BY <2>1, <2>3, <2>4, <3>2
  <2>6. ~(e < d)
    <3> SUFFICES ASSUME e < d PROVE FALSE
      OBVIOUS
    <3>1. e1 <= d
      BY <2>2
    <3> HIDE DEF d1, e1
    <3>2. start(e1) <= start(d)
      BY <1>4, <2>2, <3>1
    <3> QED BY <1>7, <2>1, <2>3, <3>2
  <2>7. d = e
    BY <2>2, <2>5, <2>6
  <2> QED BY <2>7 DEF e
<1>8. ASSUME NEW k \in 0..size - 1 PROVE \E d \in 0..(Base - 1) : start(d) <= k /\ k < start(d + 1)
  BY <1>6
<1>9. \A d \in 0..Base : d \in Nat
  BY <1>5
<1> QED BY <1>4, <1>7, <1>8, <1>9 DEF Chunked, start

(* In a chunk the order is the one before the pass.                        *)
LEMMA ChunkOrders ==
    ASSUME NEW a \in Seq(Elements), NEW base \in Nat, NEW size \in Nat, NEW radix \in Nat,
           InArray(a, base, size), NEW b, NEW r, IsPass(a, b, r, base, size, radix),
           NEW q \in Nat, Ordered(a, base, size, q)
    PROVE  \A k, l \in 0..size - 1 :
              k < l /\ _Radix_key(r[base + k], radix) = _Radix_key(r[base + l], radix) =>
                 Lex(r[base + k], r[base + l], q)
<1> DEFINE K == Keys(a, base, size, radix)
<1>1. PICK f : Comes(f, a, r, base, size, radix)
  BY DEF IsPass
<1>2. /\ K \in [0..size - 1 -> Nat]
      /\ \A k \in 0..size - 1 : K[k] \in Nat
  <2>1. K \in [0..size - 1 -> Nat]
    BY KeysAre
  <2> HIDE DEF K
  <2> QED BY <2>1
<1>2a. \A k \in 0..size - 1 : K[k] = _Radix_key(a[base + k], radix)
  BY KeysAre
<1>3. /\ f \in [0..size - 1 -> 0..size - 1]
      /\ \A k \in 0..size - 1 : r[base + k] = a[base + f[k]] /\ Rank(K, size, f[k]) = k
  BY <1>1 DEF Comes
<1> HIDE DEF K
<1>4. \A k, l \in 0..size - 1 : k < l => Earlier(K, f[k], f[l])
  BY <1>2, <1>3, ComesAll
<1> SUFFICES ASSUME NEW k \in 0..size - 1, NEW l \in 0..size - 1, k < l,
                    _Radix_key(r[base + k], radix) = _Radix_key(r[base + l], radix)
             PROVE  Lex(r[base + k], r[base + l], q)
  OBVIOUS
<1> DEFINE i == f[k]
           j == f[l]
<1>5. /\ i \in 0..size - 1 /\ j \in 0..size - 1 /\ Earlier(K, i, j)
      /\ r[base + k] = a[base + i] /\ r[base + l] = a[base + j]
  BY <1>3, <1>4
<1> HIDE DEF i, j
<1>6. K[i] = K[j] /\ K[i] \in Nat
  BY <1>2, <1>2a, <1>5
<1>7. i < j
  BY <1>5, <1>6 DEF Earlier
<1> QED BY <1>5, <1>7 DEF Ordered

(* If there is only one digit, it is the digit of all.                     *)
LEMMA OneDigit ==
    ASSUME NEW a, NEW base \in Nat, NEW size \in Nat, NEW radix \in Nat,
           NEW i \in 0..size - 1, NEW k \in 0..size - 1,
           ~Various(a, base, size, radix)
    PROVE  _Radix_key(a[base + i], radix) = _Radix_key(a[base + k], radix)
<1> DEFINE f == [j \in 0..size - 1 |-> _Radix_key(a[base + j], radix)]
           S == {_Radix_key(a[base + j], radix) : j \in 0..size - 1}
<1> SUFFICES ASSUME f[i] # f[k] PROVE FALSE
  OBVIOUS
<1> DEFINE T == {f[i], f[k]}
<1>1. f \in Surjection(0..size - 1, S)
  BY DEF Surjection
<1>2. IsFiniteSet(0..size - 1)
  BY FS_Interval
<1>3. f[i] \in S /\ f[k] \in S
  OBVIOUS
<1>3a. ~(Cardinality(S) > 1)
  BY DEF Various
<1> HIDE DEF f, S
<1>4. IsFiniteSet(S)
  BY <1>1, <1>2, FS_Surjection
<1>5. IsFiniteSet({f[i]}) /\ Cardinality({f[i]}) = 1
  BY FS_Singleton
<1>6. f[k] \notin {f[i]} /\ T = {f[i]} \cup {f[k]}
  OBVIOUS
<1>7. Cardinality({f[i]} \cup {f[k]}) = 1 + 1
  BY <1>5, <1>6, FS_AddElement
<1>8. Cardinality(T) = 2
  BY <1>6, <1>7
<1>9. T \subseteq S
  BY <1>3
<1> HIDE DEF T
<1>10. Cardinality(T) <= Cardinality(S) /\ Cardinality(S) \in Nat
  BY <1>4, <1>9, FS_Subset, FS_CardinalityType
<1> QED BY <1>3a, <1>8, <1>10

-----------------------------------------------------------------------------
(* The two buffers, and the passes between them from the lowest digit to   *)
(* the highest.                                                            *)

Buffers == Seq(Elements) \X Seq(Elements)

IsSet(m, z, i, v) ==
    /\ z \in Buffers /\ z[i] = v /\ OtherBuffer(i) \in 1..2 /\ OtherBuffer(i) # i
    /\ z[OtherBuffer(i)] = m[OtherBuffer(i)]
    /\ \A j \in 1..2 : j = i \/ j = OtherBuffer(i)

(* Writing one of the two buffers leaves the other,                        *)
LEMMA BufferSet ==
    ASSUME NEW m \in Buffers, NEW i \in 1..2, NEW v \in Seq(Elements)
    PROVE  IsSet(m, [m EXCEPT ![i] = v], i, v)
<1> DEFINE S == Seq(Elements)
           z == [m EXCEPT ![i] = v]
<1>1. m \in S \X S /\ v \in S
  BY DEF Buffers
<1> HIDE DEF S
<1>2. z \in S \X S /\ z[i] = v
  BY <1>1
<1>3. CASE i = 1
  <2>1. OtherBuffer(i) = 2
    BY <1>3 DEF OtherBuffer
  <2>2. z[2] = m[2]
    BY <1>1, <1>3
  <2> HIDE DEF z
  <2>3. IsSet(m, z, i, v)
    BY <1>2, <1>3, <2>1, <2>2 DEF Buffers, S, IsSet
  <2> QED BY <2>3 DEF z
<1>4. CASE i = 2
  <2>1. OtherBuffer(i) = 1
    BY <1>4 DEF OtherBuffer
  <2>2. z[1] = m[1]
    BY <1>1, <1>4
  <2> HIDE DEF z
  <2>3. IsSet(m, z, i, v)
    BY <1>2, <1>4, <2>1, <2>2 DEF Buffers, S, IsSet
  <2> QED BY <2>3 DEF z
<1> QED BY <1>3, <1>4

(* Both buffers are as before but in the range.                            *)
Kept(m, z, base, size) ==
    /\ m \in Buffers /\ z \in Buffers
    /\ \A j \in 1..2 : Len(z[j]) = Len(m[j]) /\ SameOutside(m[j], z[j], base, size)
Roomy(m, base, size) == m \in Buffers /\ \A j \in 1..2 : m[j] \in Seq(Elements) /\ Len(m[j]) = Len(m[1])
                                                       /\ InArray(m[j], base, size)

(* Nothing is changed outside the range when nothing is changed,           *)
LEMMA KeptSelf == ASSUME NEW m \in Buffers, NEW base, NEW size PROVE Kept(m, m, base, size)
BY DEF Kept, SameOutside

(* or when it is changed twice.                                            *)
LEMMA KeptAgain ==
    ASSUME NEW m, NEW y, NEW z, NEW base, NEW size, Kept(m, y, base, size), Kept(y, z, base, size)
    PROVE  Kept(m, z, base, size)
BY DEF Kept, SameOutside

(* The range stays within the buffers.                                     *)
LEMMA RoomStays ==
    ASSUME NEW m, NEW z, NEW base, NEW size, Roomy(m, base, size), Kept(m, z, base, size)
    PROVE  Roomy(z, base, size)
<1>1. m \in Buffers /\ z \in Buffers /\ \A j \in 1..2 : Len(z[j]) = Len(m[j])
  BY DEF Kept
<1>2. \A j \in 1..2 : Len(m[j]) = Len(m[1]) /\ InArray(m[j], base, size)
  BY DEF Roomy
<1>3. \A j \in 1..2 : z[j] \in Seq(Elements)
  <2> DEFINE S == Seq(Elements)
  <2>1. z \in S \X S
    BY <1>1 DEF Buffers
  <2> HIDE DEF S
  <2>2. \A j \in 1..2 : z[j] \in S
    BY <2>1
  <2> QED BY <2>2 DEF S
<1>4. \A j \in 1..2 : InArray(z[j], base, size)
  BY <1>1, <1>2 DEF InArray
<1>5. 1 \in 1..2
  OBVIOUS
<1>6. \A j \in 1..2 : Len(z[j]) = Len(z[1])
  BY <1>1, <1>2, <1>5
<1> QED BY <1>1, <1>3, <1>4, <1>6 DEF Roomy

(* What is written into the range of one of the buffers.                   *)
BufferWith(m, i, v) == [m EXCEPT ![i] = v]
KeptBut(m, z, i, v, base, size) ==
    Kept(m, z, base, size) /\ z[i] = v /\ z[OtherBuffer(i)] = m[OtherBuffer(i)]

(* and what is outside the range.                                          *)
LEMMA SetKeeps ==
    ASSUME NEW m, NEW base, NEW size, NEW i \in 1..2, NEW v \in Seq(Elements), Roomy(m, base, size),
           Len(v) = Len(m[i]), SameOutside(m[i], v, base, size)
    PROVE  KeptBut(m, BufferWith(m, i, v), i, v, base, size)
<1> DEFINE z == BufferWith(m, i, v)
<1>1. m \in Buffers
  BY DEF Roomy
<1>2. /\ z \in Buffers /\ z[i] = v /\ OtherBuffer(i) \in 1..2
      /\ z[OtherBuffer(i)] = m[OtherBuffer(i)]
      /\ \A j \in 1..2 : j = i \/ j = OtherBuffer(i)
  <2>1. IsSet(m, [m EXCEPT ![i] = v], i, v)
    BY <1>1, BufferSet
  <2>2. IsSet(m, z, i, v)
    BY <2>1 DEF BufferWith
  <2> HIDE DEF z
  <2> QED BY <2>2 DEF IsSet
<1> HIDE DEF z
<1>3. ASSUME NEW j \in 1..2 PROVE Len(z[j]) = Len(m[j]) /\ SameOutside(m[j], z[j], base, size)
  <2>1. CASE j = i
    BY <1>2, <2>1
  <2>2. CASE j # i
    <3>1. z[j] = m[j]
      BY <1>2, <2>2
    <3> QED BY <3>1 DEF SameOutside
  <2> QED BY <2>1, <2>2
<1>4. KeptBut(m, z, i, v, base, size)
  BY <1>1, <1>2, <1>3 DEF Kept, KeptBut
<1> QED BY <1>4 DEF z

(* The buffer that holds the range after n passes from the first one.      *)
Side(n) == 1 + (n % 2)

(* The buffers take turns.                                                 *)
LEMMA Sides == \A n \in Nat : /\ Side(n) \in 1..2 /\ OtherBuffer(Side(n)) = Side(n + 1)
                              /\ Side(n) = 1 <=> n % 2 = 0
                              /\ Side(n) = 2 <=> n % 2 = 1
<1> TAKE n \in Nat
<1>1. CASE n % 2 = 0
  <2>1. (n + 1) % 2 = 1
    BY <1>1
  <2> QED BY <1>1, <2>1 DEF Side, OtherBuffer
<1>2. CASE n % 2 = 1
  <2>1. (n + 1) % 2 = 0
    BY <1>2
  <2> QED BY <1>2, <2>1 DEF Side, OtherBuffer
<1> QED BY <1>1, <1>2

(* The range is in order below the digit r, in the buffer i of z, and has  *)
(* what it had in the buffer at of m.                                      *)
Arranged(m, at, z, i, base, size, r) ==
    /\ Kept(m, z, base, size)
    /\ Ordered(z[i], base, size, r) /\ Elems(z[i], base, size) = Elems(m[at], base, size)

Passed(y, i, base, size, r) ==
    BufferWith(y, OtherBuffer(i), _Integer_radix_pass(y[i], y[OtherBuffer(i)], base, size, r))

(* A pass from one buffer to the other adds a digit.                       *)
LEMMA PassArranges ==
    ASSUME NEW m, NEW at \in 1..2, NEW y, NEW i \in 1..2, NEW base \in Nat, NEW size \in Nat, NEW r \in Nat,
           Roomy(m, base, size), Arranged(m, at, y, i, base, size, r)
    PROVE  Arranged(m, at, Passed(y, i, base, size, r), OtherBuffer(i), base, size, r + 1)
<1> DEFINE k == OtherBuffer(i)
           a == y[i]
           b == y[k]
           v == Pass(a, b, base, size, r, 1)
           z == Passed(y, i, base, size, r)
<1>1. Roomy(y, base, size) /\ Kept(m, y, base, size)
  BY RoomStays DEF Arranged
<1>2. k \in 1..2
  BY DEF OtherBuffer
<1>3. z = BufferWith(y, k, v)
  BY DEF _Integer_radix_pass, Passed
<1> HIDE DEF k, v, z
<1>4. a \in Seq(Elements) /\ b \in Seq(Elements) /\ Len(b) = Len(a) /\ InArray(a, base, size)
  BY <1>1, <1>2 DEF Roomy
<1>5. Ordered(a, base, size, r) /\ Elems(a, base, size) = Elems(m[at], base, size)
  BY DEF Arranged
<1> HIDE DEF a, b
<1>6. IsPass(a, b, v, base, size, r)
  <2>1. 1 \in Nat /\ 1 > 0
    OBVIOUS
  <2> QED BY <1>4, <2>1, PassIs DEF v
<1>7. Ordered(v, base, size, r + 1) /\ Elems(v, base, size) = Elems(a, base, size)
  BY <1>4, <1>5, <1>6, PassOrders
<1>8. v \in Seq(Elements) /\ Len(v) = Len(y[k]) /\ SameOutside(y[k], v, base, size)
  BY <1>6 DEF IsPass, b
<1>9. Kept(y, z, base, size) /\ z[k] = v
  BY <1>1, <1>2, <1>3, <1>8, SetKeeps DEF KeptBut
<1>10. Kept(m, z, base, size)
  BY <1>1, <1>9, KeptAgain
<1>11. Arranged(m, at, z, k, base, size, r + 1)
  BY <1>5, <1>7, <1>9, <1>10 DEF Arranged
<1> QED BY <1>11 DEF k, z

(* What is equal place by place is equal as a range.                       *)
LEMMA SameRange ==
    ASSUME NEW u, NEW v, NEW base, NEW size, \A k \in 0..size - 1 : u[base + k] = v[base + k]
    PROVE  /\ Elems(u, base, size) = Elems(v, base, size)
           /\ \A r : Ordered(u, base, size, r) => Ordered(v, base, size, r)
BY DEF Elems, Ordered

(* Moving the range from one buffer to the other changes nothing else.     *)
LEMMA MoveArranges ==
    ASSUME NEW m, NEW at, NEW y, NEW i \in 1..2, NEW k \in 1..2, NEW base \in Nat, NEW size \in Nat, NEW r,
           Roomy(m, base, size), Arranged(m, at, y, i, base, size, r)
    PROVE  Arranged(m, at, BufferWith(y, k, Put(y[k], base, Part(y[i], base, size))), k, base, size, r)
<1> DEFINE a == y[i]
           b == y[k]
           p == Part(a, base, size)
           v == Put(b, base, p)
           z == BufferWith(y, k, v)
<1>1. Roomy(y, base, size) /\ Kept(m, y, base, size)
  BY RoomStays DEF Arranged
<1>2. /\ a \in Seq(Elements) /\ b \in Seq(Elements) /\ Len(b) = Len(a)
      /\ InArray(a, base, size) /\ InArray(b, base, size)
  BY <1>1 DEF Roomy
<1>3. Ordered(a, base, size, r) /\ Elems(a, base, size) = Elems(m[at], base, size)
  BY DEF Arranged
<1> HIDE DEF a, b, z
<1>4. p \in Seq(Elements) /\ Len(p) = size /\ \A j \in 1..size : p[j] = a[base + j - 1]
  <2> DEFINE S == Elements
  <2> HIDE DEF S
  <2>1. a \in Seq(S)
    BY <1>2 DEF S
  <2>2. p \in Seq(S) /\ Len(p) = size /\ \A j \in 1..size : p[j] = a[base + j - 1]
    BY <1>2, <2>1, PartIs
  <2> QED BY <2>2 DEF S
<1> HIDE DEF p
<1>5. IsPut(b, v, base, p, size)
  BY <1>2, <1>4, PutAt
<1> HIDE DEF v
<1>6. /\ v \in Seq(Elements) /\ Len(v) = Len(b) /\ SameOutside(b, v, base, size)
      /\ \A j \in 0..size - 1 : v[base + j] = p[j + 1]
  BY <1>5 DEF IsPut
<1>7. \A j \in 0..size - 1 : a[base + j] = v[base + j]
  <2> TAKE j \in 0..size - 1
  <2>1. j + 1 \in 1..size /\ base + (j + 1) - 1 = base + j
    OBVIOUS
  <2>2. p[j + 1] = a[base + (j + 1) - 1]
    BY <1>4, <2>1
  <2> QED BY <1>6, <2>1, <2>2
<1>8. Ordered(v, base, size, r) /\ Elems(v, base, size) = Elems(a, base, size)
  BY <1>3, <1>7, SameRange
<1>9. Len(v) = Len(y[k]) /\ SameOutside(y[k], v, base, size)
  BY <1>6 DEF b
<1>10. Kept(y, z, base, size) /\ z[k] = v
  BY <1>1, <1>6, <1>9, SetKeeps DEF KeptBut, z
<1>11. Kept(m, z, base, size)
  BY <1>1, <1>10, KeptAgain
<1>12. Arranged(m, at, z, k, base, size, r)
  BY <1>3, <1>8, <1>10, <1>11 DEF Arranged
<1> QED BY <1>12 DEF z, v, p, a, b

TurnArranged(m, at, s, base, size, side, r) ==
    s.at = side /\ side \in 1..2 /\ Arranged(m, at, s.m, side, base, size, r)

(* A turn of the loop of the passes,                                       *)
LEMMA PassTurnIs ==
    ASSUME NEW m, NEW at \in 1..2, NEW base \in Nat, NEW size \in Nat, NEW r \in Nat, NEW n \in Nat,
           Roomy(m, base, size), NEW s, TurnArranged(m, at, s, base, size, Side(n), r)
    PROVE  TurnArranged(m, at, PassTurn(s, base, size, r), base, size, Side(n + 1), r + 1)
<1> DEFINE i == Side(n)
           y == s.m
           t == PassTurn(s, base, size, r)
<1>1. s.at = i /\ i \in 1..2 /\ Arranged(m, at, y, i, base, size, r)
  BY DEF TurnArranged
<1>2. OtherBuffer(i) = Side(n + 1) /\ Side(n + 1) \in 1..2
  BY Sides
<1> HIDE DEF i
<1>3. t.m = Passed(y, i, base, size, r) /\ t.at = OtherBuffer(i)
  BY <1>1 DEF PassTurn, Passed, BufferWith
<1> HIDE DEF y, t
<1>4. Arranged(m, at, Passed(y, i, base, size, r), OtherBuffer(i), base, size, r + 1)
  BY <1>1, PassArranges
<1>5. TurnArranged(m, at, t, base, size, Side(n + 1), r + 1)
  BY <1>2, <1>3, <1>4 DEF TurnArranged
<1> QED BY <1>5 DEF t

(* and all of them.                                                        *)
LEMMA PassesAre ==
    ASSUME NEW m, NEW at, NEW base \in Nat, NEW size \in Nat, NEW radix \in Nat, NEW deep \in Nat,
           Roomy(m, base, size), at = Side(deep), Ordered(m[at], base, size, 0)
    PROVE  TurnArranged(m, at, Passes(m, at, base, size, radix), base, size, Side(deep + (radix + 1)), radix + 1)
<1> DEFINE e == radix + 1
           T == CHOOSE g : g = [n \in 0..e |-> PassesRow(g, n, m, at, base, size)]
           S == {n \in Nat : n <= e => TurnArranged(m, at, T[n], base, size, Side(deep + n), n)}
<1>1. Passes(m, at, base, size, radix) = T[e]
  BY DEF Passes, PassesRow, PassTurn
<1>2. e \in Nat
  OBVIOUS
<1> HIDE DEF e
<1>3. T = [n \in 0..e |-> PassesRow(T, n, m, at, base, size)]
  <2>1. \E g : g = [n \in 0..e |-> PassesRow(g, n, m, at, base, size)]
    <3> HIDE DEF T
    <3>1. HasPasses(e, m, at, base, size)
      BY <1>2, PassesExist
    <3> QED BY <3>1 DEF HasPasses
  <2> QED BY <2>1
<1> HIDE DEF T
<1>4. at \in 1..2 /\ deep + 0 = deep
  BY Sides
<1>5. 0 \in S
  <2>1. T[0] = [m |-> m, at |-> at]
    <3>1. 0 \in 0..e
      BY <1>2
    <3>2. T[0] = PassesRow(T, 0, m, at, base, size)
      BY <1>3, <3>1
    <3> QED BY <3>2 DEF PassesRow
  <2>2. T[0].m = m /\ T[0].at = at
    BY <2>1
  <2>3. Kept(m, m, base, size)
    <3>1. m \in Buffers
      BY DEF Roomy
    <3> QED BY <3>1, KeptSelf
  <2>4. Arranged(m, at, m, at, base, size, 0)
    BY <2>3 DEF Arranged
  <2> QED BY <1>4, <2>2, <2>4 DEF TurnArranged
<1>6. ASSUME NEW n \in S PROVE n + 1 \in S
  <2> SUFFICES ASSUME n + 1 <= e
               PROVE  TurnArranged(m, at, T[n + 1], base, size, Side(deep + (n + 1)), n + 1)
    OBVIOUS
  <2> DEFINE k == n + 1
             l == deep + n
  <2>1. n \in Nat /\ n <= e /\ k \in 0..e /\ k # 0 /\ k - 1 = n /\ l \in Nat /\ deep + k = l + 1
    BY <1>2
  <2>2. TurnArranged(m, at, T[n], base, size, Side(l), n)
    BY <1>6, <2>1
  <2> HIDE DEF k, l
  <2>3. T[k] = PassTurn(T[n], base, size, n)
    <3>1. T[k] = PassesRow(T, k, m, at, base, size)
      BY <1>3, <2>1
    <3> QED BY <2>1, <3>1 DEF PassesRow
  <2> DEFINE s == T[n]
  <2> HIDE DEF s
  <2>4. TurnArranged(m, at, s, base, size, Side(l), n)
    BY <2>2 DEF s
  <2>5. TurnArranged(m, at, PassTurn(s, base, size, n), base, size, Side(l + 1), n + 1)
    BY <1>4, <2>1, <2>4, PassTurnIs
  <2> QED BY <2>1, <2>3, <2>5 DEF s, k
<1>7. S \in SUBSET Nat
  OBVIOUS
<1> HIDE DEF S
<1>8. e \in S
  BY <1>2, <1>5, <1>6, <1>7, FromPrevious
<1>9. TurnArranged(m, at, T[e], base, size, Side(deep + e), e)
  BY <1>2, <1>8 DEF S
<1> QED BY <1>1, <1>9 DEF e

(* The passes from the lowest digit to the highest leave the range in the  *)
(* first buffer, in order.                                                 *)
LEMMA IntegerSortIs ==
    ASSUME NEW m, NEW at, NEW base \in Nat, NEW size \in Nat, NEW radix \in Nat, NEW deep \in Nat,
           Roomy(m, base, size), at = Side(deep), Ordered(m[at], base, size, 0)
    PROVE  Arranged(m, at, _Integer_radix_sort(m, at, base, size, radix, deep), 1, base, size, radix + 1)
<1> DEFINE s == Passes(m, at, base, size, radix)
           y == s.m
           r == radix + 1
           n == deep + r
           i == Side(n)
           z == _Integer_radix_sort(m, at, base, size, radix, deep)
           w == BufferWith(y, 1, Put(y[1], base, Part(y[2], base, size)))
<1>1. TurnArranged(m, at, s, base, size, i, r)
  BY PassesAre
<1> HIDE DEF s
<1>2. s.at = i /\ Arranged(m, at, y, i, base, size, r)
  BY <1>1 DEF TurnArranged
<1>3. n \in Nat /\ (IsMoved(radix, deep) <=> n % 2 = 1)
  <2>1. deep + radix + 1 = n
    OBVIOUS
  <2>2. IsMoved(radix, deep) <=> (deep + radix + 1) % 2 = 1
    BY DEF IsMoved
  <2> QED BY <2>1, <2>2
<1> HIDE DEF n, r
<1>4. i \in 1..2 /\ (i = 1 <=> n % 2 = 0) /\ (i = 2 <=> n % 2 = 1)
  BY <1>3, Sides
<1> HIDE DEF i
<1>5. CASE size = 0
  <2>1. z = m
    BY <1>5 DEF _Integer_radix_sort
  <2>2. Kept(m, m, base, size)
    <3>1. m \in Buffers
      BY DEF Roomy
    <3> QED BY <3>1, KeptSelf
  <2>3. 0..size - 1 = {}
    BY <1>5
  <2>4. Ordered(m[1], base, size, r) /\ Elems(m[1], base, size) = Elems(m[at], base, size)
    BY <2>3 DEF Ordered, Elems
  <2>5. Arranged(m, at, m, 1, base, size, r)
    BY <2>2, <2>4 DEF Arranged
  <2> QED BY <2>1, <2>5 DEF r
<1>6. CASE size # 0 /\ IsMoved(radix, deep)
  <2>1. i = 2 /\ OtherBuffer(i) = 1
    BY <1>3, <1>4, <1>6 DEF OtherBuffer
  <2>2. z = w
    BY <1>2, <1>6, <2>1 DEF _Integer_radix_sort, BufferWith, s
  <2>3. Arranged(m, at, w, 1, base, size, r)
    <3>1. Arranged(m, at, y, 2, base, size, r)
      BY <1>2, <2>1
    <3>2. 1 \in 1..2 /\ 2 \in 1..2
      OBVIOUS
    <3> DEFINE one == 1
               two == 2
    <3> HIDE DEF y, one, two
    <3>3. Arranged(m, at, BufferWith(y, one, Put(y[one], base, Part(y[two], base, size))), one, base, size, r)
      BY <3>1, <3>2, MoveArranges DEF one, two
    <3> QED BY <3>3 DEF one, two
  <2> HIDE DEF w, z
  <2> QED BY <2>2, <2>3 DEF z, r
<1>7. CASE size # 0 /\ ~IsMoved(radix, deep)
  <2>1. i = 1
    BY <1>3, <1>4, <1>7
  <2>2. z = y
    BY <1>7 DEF _Integer_radix_sort, s
  <2> HIDE DEF z, y
  <2> QED BY <1>2, <2>1, <2>2 DEF z, r
<1> QED BY <1>5, <1>6, <1>7

-----------------------------------------------------------------------------
(* The chunks of the highest digit, sorted one after the other by the      *)
(* digits below.                                                           *)

(* st says where the chunk of each digit starts in the range of r; in a    *)
(* chunk the identities are in order.                                      *)
IsChunking(st, r, base, size, radix) ==
    /\ st \in [0..Base -> 0..size] /\ st[0] = 0 /\ st[Base] = size
    /\ \A d, e \in 0..Base : d <= e => st[d] <= st[e]
    /\ \A d \in 0..(Base - 1) : \A k \in 0..size - 1 :
           st[d] <= k /\ k < st[d + 1] => _Radix_key(r[base + k], radix) = d
    /\ \A k \in 0..size - 1 : \E d \in 0..(Base - 1) : st[d] <= k /\ k < st[d + 1]
    /\ \A k, l \in 0..size - 1 :
           k < l /\ _Radix_key(r[base + k], radix) = _Radix_key(r[base + l], radix) =>
              Lex(r[base + k], r[base + l], 0)
ChunkFrom(st, base, d) == base + st[d]
ChunkSize(st, d) == st[d + 1] - st[d]

(* A chunk lies in the range.                                              *)
LEMMA ChunkLies ==
    ASSUME NEW st, NEW r, NEW base \in Nat, NEW size \in Nat, NEW radix, IsChunking(st, r, base, size, radix),
           NEW d \in 0..(Base - 1)
    PROVE  /\ ChunkFrom(st, base, d) \in Nat /\ ChunkSize(st, d) \in Nat
           /\ st[d] \in Nat /\ st[d + 1] \in Nat /\ st[d] <= st[d + 1] /\ st[d + 1] <= size
           /\ ChunkFrom(st, base, d) = base + st[d]
           /\ ChunkFrom(st, base, d) + ChunkSize(st, d) = base + st[d + 1]
           /\ \A j \in 0..ChunkSize(st, d) - 1 : /\ st[d] + j \in 0..size - 1 /\ st[d] + j < st[d + 1]
                                                 /\ ChunkFrom(st, base, d) + j = base + (st[d] + j)
<1> DEFINE x == st[d]
           e == d + 1
           y == st[e]
<1>1. d \in 0..Base /\ e \in 0..Base /\ d <= e
  BY AlgorithmsAssumption
<1> HIDE DEF e
<1>2. x \in 0..size /\ y \in 0..size /\ x <= y
  BY <1>1 DEF IsChunking
<1>3. ChunkFrom(st, base, d) = base + x /\ ChunkSize(st, d) = y - x
  BY DEF ChunkFrom, ChunkSize, e
<1> HIDE DEF x, y
<1>4. base + x \in Nat /\ y - x \in Nat /\ x \in Nat /\ y \in Nat /\ (base + x) + (y - x) = base + y
  BY <1>2
<1>5. \A j \in 0..(y - x) - 1 : x + j \in 0..size - 1 /\ x + j < y /\ (base + x) + j = base + (x + j)
  BY <1>2
<1>6. x = st[d] /\ y = st[d + 1]
  BY DEF x, y, e
<1> HIDE DEF IsChunking
<1> QED BY <1>2, <1>3, <1>4, <1>5, <1>6

(* Also its order.                                                         *)
LEMMA SameOrder ==
    ASSUME NEW u, NEW v, NEW base, NEW size, NEW r, \A k \in 0..size - 1 : u[base + k] = v[base + k],
           Ordered(u, base, size, r)
    PROVE  Ordered(v, base, size, r)
BY SameRange

ChunksDone(m, y, r, to, st, base, size, radix, n) ==
    /\ Kept(m, y, base, size)
    /\ \A k \in 0..size - 1 : st[n] <= k => y[to][base + k] = r[base + k]
    /\ \A d \in 0..n - 1 :
          /\ Ordered(y[1], ChunkFrom(st, base, d), ChunkSize(st, d), radix)
          /\ Elems(y[1], ChunkFrom(st, base, d), ChunkSize(st, d))
                = Elems(r, ChunkFrom(st, base, d), ChunkSize(st, d))

RadixSorts(h, q) ==
    \A m \in Buffers : \A base, size, deep \in Nat :
        Roomy(m, base, size) /\ Ordered(m[Side(deep)], base, size, 0) =>
            Arranged(m, Side(deep), h[<<m, Side(deep), base, size, deep>>], 1, base, size, q)

(* What is kept outside a chunk is kept outside the range.                 *)
LEMMA KeptWider ==
    ASSUME NEW m, NEW z, NEW base \in Nat, NEW size \in Nat, NEW b \in Nat, NEW s \in Nat,
           Roomy(m, base, size), Kept(m, z, b, s), base <= b, b + s <= base + size
    PROVE  Kept(m, z, base, size)
<1>1. \A j \in 1..2 : Len(m[j]) \in Nat
  BY DEF Roomy
<1>2. \A i \in Nat : ~(base <= i /\ i < base + size) => ~(b <= i /\ i < b + s)
  OBVIOUS
<1>3. ASSUME NEW j \in 1..2, SameOutside(m[j], z[j], b, s) PROVE SameOutside(m[j], z[j], base, size)
  <2> DEFINE x == m[j]
             w == z[j]
             n == Len(x)
  <2> HIDE DEF x, w
  <2>1. \A i \in 1..n : i \in Nat
    BY <1>1 DEF x
  <2>2. SameOutside(x, w, b, s)
    BY <1>3 DEF x, w
  <2>3. SameOutside(x, w, base, size)
    BY <1>2, <2>1, <2>2 DEF SameOutside
  <2> QED BY <2>3 DEF x, w
<1> QED BY <1>3 DEF Kept

(* A chunk has room where its range has.                                   *)
LEMMA RoomIn ==
    ASSUME NEW m, NEW base \in Nat, NEW size \in Nat, NEW b \in Nat, NEW s \in Nat,
           Roomy(m, base, size), base <= b, b + s <= base + size
    PROVE  Roomy(m, b, s)
<1>1. \A j \in 1..2 : m[j] \in Seq(Elements) /\ Len(m[j]) \in Nat /\ Len(m[j]) = Len(m[1]) /\ InArray(m[j], base, size)
  BY DEF Roomy
<1>2. ASSUME NEW j \in 1..2 PROVE InArray(m[j], b, s)
  <2> DEFINE l == Len(m[j])
  <2>1. l \in Nat /\ base >= 1 /\ base + size <= l + 1
    BY <1>1 DEF InArray
  <2> HIDE DEF l
  <2>2. b >= 1 /\ b + s <= l + 1
    BY <2>1
  <2> QED BY <2>2 DEF InArray, l
<1> QED BY <1>1, <1>2 DEF Roomy

(* The task of a chunk, or the thread itself, sorts it by the digits below *)
(* and leaves the other chunks as they are.                                *)
LEMMA ChunkStep ==
    ASSUME NEW m, NEW y, NEW r, NEW st, NEW base \in Nat, NEW size \in Nat, NEW radix \in Nat,
           NEW deep \in Nat, NEW to, NEW n \in 0..(Base - 1), NEW h,
           Roomy(m, base, size), IsChunking(st, r, base, size, radix), to = Side(deep),
           ChunksDone(m, y, r, to, st, base, size, radix, n), RadixSorts(h, radix)
    PROVE  ChunksDone(m, h[<<y, to, ChunkFrom(st, base, n), ChunkSize(st, n), deep>>],
                      r, to, st, base, size, radix, n + 1)
<1> DEFINE b == ChunkFrom(st, base, n)
           s == ChunkSize(st, n)
           z == h[<<y, to, b, s, deep>>]
           x == st[n]
           w == st[n + 1]
<1>1. /\ b \in Nat /\ s \in Nat /\ x \in Nat /\ w \in Nat /\ x <= w /\ w <= size
      /\ b = base + x /\ b + s = base + w
      /\ \A j \in 0..s - 1 : x + j \in 0..size - 1 /\ x + j < w /\ b + j = base + (x + j)
  BY ChunkLies
<1>2. Kept(m, y, base, size) /\ Roomy(y, base, size)
  BY RoomStays DEF ChunksDone
<1>3. to \in 1..2
  BY Sides
<1>4. \A k \in 0..size - 1 : x <= k => y[to][base + k] = r[base + k]
  BY DEF ChunksDone
<1>5. \A k \in 0..size - 1 : x <= k /\ k < w => _Radix_key(r[base + k], radix) = n
  BY DEF IsChunking
<1> HIDE DEF b, s, z, x, w
<1>6. Roomy(y, b, s) /\ y \in Buffers
  <2>1. base <= b /\ b + s <= base + size
    BY <1>1
  <2> QED BY <1>1, <1>2, <2>1, RoomIn DEF Roomy
<1>7. \A j \in 0..s - 1 : y[to][b + j] = r[b + j]
  <2> TAKE j \in 0..s - 1
  <2> DEFINE k == x + j
  <2>1. k \in 0..size - 1 /\ x <= k /\ b + j = base + k
    BY <1>1
  <2> HIDE DEF k
  <2> QED BY <1>4, <2>1
<1>8. Ordered(r, b, s, 0)
  <2> SUFFICES ASSUME NEW i \in 0..s - 1, NEW j \in 0..s - 1, i < j PROVE Lex(r[b + i], r[b + j], 0)
    BY DEF Ordered
  <2> DEFINE k == x + i
             l == x + j
  <2>1. /\ k \in 0..size - 1 /\ x <= k /\ k < w /\ b + i = base + k
        /\ l \in 0..size - 1 /\ x <= l /\ l < w /\ b + j = base + l /\ k < l
    BY <1>1
  <2> HIDE DEF k, l
  <2>2. _Radix_key(r[base + k], radix) = n /\ _Radix_key(r[base + l], radix) = n
    BY <1>5, <2>1
  <2>3. Lex(r[base + k], r[base + l], 0)
    BY <2>1, <2>2 DEF IsChunking
  <2> QED BY <2>1, <2>3
<1>9. Ordered(y[to], b, s, 0) /\ Elems(y[to], b, s) = Elems(r, b, s)
  <2> DEFINE u == y[to]
  <2>1. \A j \in 0..s - 1 : r[b + j] = u[b + j]
    BY <1>7
  <2> HIDE DEF u
  <2>2. Ordered(u, b, s, 0)
    BY <1>8, <2>1, SameOrder
  <2>3. Elems(r, b, s) = Elems(u, b, s)
    BY <2>1, SameRange
  <2> QED BY <2>2, <2>3 DEF u
<1>10. Arranged(y, to, z, 1, b, s, radix)
  BY <1>1, <1>6, <1>9 DEF RadixSorts, z
<1>11. /\ Kept(y, z, b, s) /\ Ordered(z[1], b, s, radix) /\ Elems(z[1], b, s) = Elems(r, b, s)
  BY <1>9, <1>10 DEF Arranged
<1>12. Kept(m, z, base, size)
  <2>1. base <= b /\ b + s <= base + size
    BY <1>1
  <2>2. Kept(y, z, base, size)
    BY <1>1, <1>2, <1>11, <2>1, KeptWider
  <2> QED BY <1>2, <2>2, KeptAgain
<1>13. ASSUME NEW j \in 1..2, NEW i \in 0..size - 1, i < x \/ w <= i PROVE z[j][base + i] = y[j][base + i]
  <2> DEFINE u == y[j]
             v == z[j]
             g == base + i
  <2>1. SameOutside(u, v, b, s) /\ InArray(u, base, size) /\ Len(u) \in Nat
    BY <1>2, <1>11 DEF Kept, Roomy
  <2> HIDE DEF u, v
  <2>2. g \in 1..Len(u)
    BY <2>1 DEF InArray
  <2>3. ~(b <= g /\ g < b + s)
    BY <1>1, <1>13
  <2> HIDE DEF g
  <2>4. v[g] = u[g]
    BY <2>1, <2>2, <2>3 DEF SameOutside
  <2> QED BY <2>4 DEF u, v, g
<1>14. ASSUME NEW k \in 0..size - 1, w <= k PROVE z[to][base + k] = r[base + k]
  <2>1. z[to][base + k] = y[to][base + k]
    BY <1>3, <1>13, <1>14
  <2>2. y[to][base + k] = r[base + k]
    BY <1>1, <1>4, <1>14
  <2> QED BY <2>1, <2>2
<1>15. ASSUME NEW d \in 0..n - 1
       PROVE  /\ Ordered(z[1], ChunkFrom(st, base, d), ChunkSize(st, d), radix)
              /\ Elems(z[1], ChunkFrom(st, base, d), ChunkSize(st, d))
                    = Elems(r, ChunkFrom(st, base, d), ChunkSize(st, d))
  <2> DEFINE f == ChunkFrom(st, base, d)
             g == ChunkSize(st, d)
  <2>1. /\ Ordered(y[1], f, g, radix) /\ Elems(y[1], f, g) = Elems(r, f, g)
    BY DEF ChunksDone
  <2>2. d \in 0..(Base - 1) /\ d + 1 \in 0..Base /\ n \in 0..Base /\ d + 1 <= n
    BY AlgorithmsAssumption
  <2>3. st[d + 1] <= x
    BY <2>2 DEF IsChunking, x
  <2>4. st[d + 1] \in Nat
    BY <2>2, ChunkLies
  <2>4a. \A j \in 0..g - 1 : /\ st[d] + j \in 0..size - 1 /\ st[d] + j < st[d + 1]
                             /\ f + j = base + (st[d] + j)
    BY <2>2, ChunkLies
  <2> HIDE DEF f, g
  <2>5. \A j \in 0..g - 1 : y[1][f + j] = z[1][f + j]
    <3> TAKE j \in 0..g - 1
    <3> DEFINE k == st[d] + j
               c == st[d + 1]
    <3>1. k \in 0..size - 1 /\ k < c /\ f + j = base + k /\ c <= x /\ c \in Nat
      BY <2>3, <2>4, <2>4a
    <3> HIDE DEF k, c
    <3>2. k < x /\ 1 \in 1..2
      BY <1>1, <3>1
    <3>3. z[1][base + k] = y[1][base + k]
      BY <1>13, <3>1, <3>2
    <3> QED BY <3>1, <3>3
  <2> DEFINE u == y[1]
             v == z[1]
  <2>6. \A j \in 0..g - 1 : u[f + j] = v[f + j]
    BY <2>5
  <2>7. Ordered(u, f, g, radix) /\ Elems(u, f, g) = Elems(r, f, g)
    BY <2>1
  <2> HIDE DEF u, v
  <2>8. Ordered(v, f, g, radix)
    BY <2>6, <2>7, SameOrder
  <2>9. Elems(u, f, g) = Elems(v, f, g)
    BY <2>6, SameRange
  <2> QED BY <2>7, <2>8, <2>9 DEF f, g, v
<1>16. ASSUME NEW d \in 0..(n + 1) - 1
       PROVE  /\ Ordered(z[1], ChunkFrom(st, base, d), ChunkSize(st, d), radix)
              /\ Elems(z[1], ChunkFrom(st, base, d), ChunkSize(st, d))
                    = Elems(r, ChunkFrom(st, base, d), ChunkSize(st, d))
  <2>1. d = n \/ d \in 0..n - 1
    OBVIOUS
  <2>2. CASE d = n
    BY <1>11, <2>2 DEF b, s
  <2>3. CASE d \in 0..n - 1
    BY <1>15, <2>3
  <2> QED BY <2>1, <2>2, <2>3
<1>17. ChunksDone(m, z, r, to, st, base, size, radix, n + 1)
  BY <1>12, <1>14, <1>16 DEF ChunksDone, w
<1> QED BY <1>17 DEF z, b, s

(* The offsets in the range of the chunk of the digit d.                   *)
OfChunk(st, d, size) == {k \in 0..size - 1 : st[d] <= k /\ k < st[d + 1]}

ChunkFits(base, size, x, b, s, C) ==
    /\ x \in Nat /\ s \in Nat
    /\ \A k \in C : k \in 0..size - 1 /\ k - x \in 0..s - 1 /\ b + (k - x) = base + k
    /\ \A j \in 0..s - 1 : x + j \in C /\ b + j = base + (x + j)

(* The offsets in the chunk and in the range.                              *)
LEMMA ChunkOffsets ==
    ASSUME NEW st, NEW r, NEW base \in Nat, NEW size \in Nat, NEW radix, IsChunking(st, r, base, size, radix),
           NEW d \in 0..(Base - 1)
    PROVE  ChunkFits(base, size, st[d], ChunkFrom(st, base, d), ChunkSize(st, d), OfChunk(st, d, size))
<1> DEFINE x == st[d]
           y == st[d + 1]
           b == ChunkFrom(st, base, d)
           s == ChunkSize(st, d)
<1>1. x \in Nat /\ y \in Nat /\ x <= y /\ b = base + x /\ b + s = base + y /\ s \in Nat
  BY ChunkLies
<1>2. \A j \in 0..s - 1 : x + j \in 0..size - 1 /\ x + j < y /\ b + j = base + (x + j)
  BY ChunkLies
<1>3. OfChunk(st, d, size) = {k \in 0..size - 1 : x <= k /\ k < y}
  BY DEF OfChunk
<1> DEFINE C == OfChunk(st, d, size)
<1> HIDE DEF x, y, b, s, C
<1>4. C = {k \in 0..size - 1 : x <= k /\ k < y}
  BY <1>3 DEF C
<1>5. \A k \in C : k \in 0..size - 1 /\ k - x \in 0..s - 1 /\ b + (k - x) = base + k
  BY <1>1, <1>4
<1>6. \A j \in 0..s - 1 : x + j \in C /\ b + j = base + (x + j)
  BY <1>1, <1>2, <1>4
<1>7. ChunkFits(base, size, x, b, s, C)
  BY <1>1, <1>5, <1>6 DEF ChunkFits
<1> QED BY <1>7 DEF C, x, b, s

(* The elements of a chunk, by their offsets in the range,                 *)
LEMMA ElemsOfChunk ==
    ASSUME NEW st, NEW r, NEW base \in Nat, NEW size \in Nat, NEW radix, IsChunking(st, r, base, size, radix),
           NEW d \in 0..(Base - 1), NEW u
    PROVE  Elems(u, ChunkFrom(st, base, d), ChunkSize(st, d)) = {u[base + k] : k \in OfChunk(st, d, size)}
<1> DEFINE x == st[d]
           b == ChunkFrom(st, base, d)
           s == ChunkSize(st, d)
           C == OfChunk(st, d, size)
<1>0. ChunkFits(base, size, x, b, s, C)
  BY ChunkOffsets
<1> HIDE DEF x, b, s, C
<1>1. \A k \in C : k - x \in 0..s - 1 /\ b + (k - x) = base + k
  BY <1>0 DEF ChunkFits
<1>2. \A j \in 0..s - 1 : x + j \in C /\ b + j = base + (x + j)
  BY <1>0 DEF ChunkFits
<1>3. Elems(u, b, s) = {u[base + k] : k \in C}
  <2>1. ASSUME NEW j \in 0..s - 1 PROVE u[b + j] \in {u[base + k] : k \in C}
    BY <1>2
  <2>2. ASSUME NEW k \in C PROVE u[base + k] \in {u[b + j] : j \in 0..s - 1}
    <3> DEFINE j == k - x
    <3>1. j \in 0..s - 1 /\ b + j = base + k
      BY <1>1
    <3> HIDE DEF j
    <3> QED BY <3>1
  <2> QED BY <2>1, <2>2 DEF Elems
<1> QED BY <1>3 DEF b, s, C

(* and their order.                                                        *)
LEMMA OrderOfChunk ==
    ASSUME NEW st, NEW r, NEW base \in Nat, NEW size \in Nat, NEW radix, IsChunking(st, r, base, size, radix),
           NEW d \in 0..(Base - 1), NEW u, NEW q, Ordered(u, ChunkFrom(st, base, d), ChunkSize(st, d), q),
           NEW k \in OfChunk(st, d, size), NEW l \in OfChunk(st, d, size), k < l
    PROVE  Lex(u[base + k], u[base + l], q)
<1> DEFINE x == st[d]
           b == ChunkFrom(st, base, d)
           s == ChunkSize(st, d)
           C == OfChunk(st, d, size)
           i == k - x
           j == l - x
<1>0. ChunkFits(base, size, x, b, s, C) /\ k \in C /\ l \in C
  BY ChunkOffsets
<1>4. Ordered(u, b, s, q)
  OBVIOUS
<1> HIDE DEF x, b, s, C
<1>1. x \in Nat
  BY <1>0 DEF ChunkFits
<1>2. k \in 0..size - 1 /\ i \in 0..s - 1 /\ b + i = base + k
  BY <1>0 DEF ChunkFits
<1>3. l \in 0..size - 1 /\ j \in 0..s - 1 /\ b + j = base + l
  BY <1>0 DEF ChunkFits
<1>5. i < j
  BY <1>1, <1>2, <1>3
<1> HIDE DEF i, j
<1>6. Lex(u[b + i], u[b + j], q)
  BY <1>2, <1>3, <1>4, <1>5 DEF Ordered
<1> QED BY <1>2, <1>3, <1>6

(* The chunks, each sorted by the digits below, are the range sorted.      *)
LEMMA ChunksJoin ==
    ASSUME NEW m, NEW y, NEW r, NEW st, NEW base \in Nat, NEW size \in Nat, NEW radix \in Nat, NEW to,
           IsChunking(st, r, base, size, radix), ChunksDone(m, y, r, to, st, base, size, radix, Base),
           \A k \in 0..size - 1 : r[base + k] \in Elements
    PROVE  Ordered(y[1], base, size, radix + 1) /\ Elems(y[1], base, size) = Elems(r, base, size)
<1> DEFINE v == y[1]
           C(d) == OfChunk(st, d, size)
           D == 0..(Base - 1)
<1>1. ASSUME NEW d \in D
      PROVE  /\ Ordered(v, ChunkFrom(st, base, d), ChunkSize(st, d), radix)
             /\ {v[base + k] : k \in C(d)} = {r[base + k] : k \in C(d)}
  <2>1. /\ Ordered(v, ChunkFrom(st, base, d), ChunkSize(st, d), radix)
        /\ Elems(v, ChunkFrom(st, base, d), ChunkSize(st, d))
              = Elems(r, ChunkFrom(st, base, d), ChunkSize(st, d))
    BY DEF ChunksDone
  <2> HIDE DEF v
  <2>2. Elems(v, ChunkFrom(st, base, d), ChunkSize(st, d)) = {v[base + k] : k \in C(d)}
    BY ElemsOfChunk
  <2>3. Elems(r, ChunkFrom(st, base, d), ChunkSize(st, d)) = {r[base + k] : k \in C(d)}
    BY ElemsOfChunk
  <2> QED BY <2>1, <2>2, <2>3
<1> HIDE DEF v
<1>2. \A d \in D : \A k \in C(d) : k \in 0..size - 1 /\ _Radix_key(r[base + k], radix) = d
  BY DEF IsChunking, OfChunk
<1>3. \A k \in 0..size - 1 : \E d \in D : k \in C(d)
  BY DEF IsChunking, OfChunk
<1>4. ASSUME NEW d \in D, NEW e \in D, NEW k \in C(d), NEW l \in C(e), k < l PROVE d <= e
  <2> SUFFICES ASSUME e < d PROVE FALSE
    BY AlgorithmsAssumption
  <2> DEFINE e1 == e + 1
             x == st[d]
             w == st[e1]
  <2>1. e1 <= d /\ d \in 0..Base /\ e1 \in 0..Base
    BY AlgorithmsAssumption
  <2>2. x <= k /\ l < w /\ k \in Int /\ l \in Int
    BY DEF OfChunk
  <2> HIDE DEF e1
  <2>3. w <= x /\ w \in Int /\ x \in Int
    BY <2>1 DEF IsChunking
  <2> HIDE DEF x, w
  <2> QED BY <1>4, <2>2, <2>3
<1> HIDE DEF C
<1>5. ASSUME NEW d \in D, NEW k \in C(d)
      PROVE  v[base + k] \in Elements /\ _Radix_key(v[base + k], radix) = d
  <2>1. v[base + k] \in {r[base + l] : l \in C(d)}
    BY <1>1
  <2>2. PICK l \in C(d) : v[base + k] = r[base + l]
    BY <2>1
  <2>3. l \in 0..size - 1 /\ _Radix_key(r[base + l], radix) = d
    BY <1>2
  <2>4. r[base + l] \in Elements
    BY <2>3
  <2> QED BY <2>2, <2>3, <2>4
<1>6. ASSUME NEW k \in 0..size - 1, NEW l \in 0..size - 1, k < l
      PROVE  Lex(v[base + k], v[base + l], radix + 1)
  <2>1. PICK d \in D : k \in C(d)
    BY <1>3
  <2>2. PICK e \in D : l \in C(e)
    BY <1>3
  <2>3. d <= e
    BY <1>4, <1>6, <2>1, <2>2
  <2> DEFINE a == v[base + k]
             b == v[base + l]
  <2>4. a \in Elements /\ b \in Elements /\ _Radix_key(a, radix) = d /\ _Radix_key(b, radix) = e
    BY <1>5, <2>1, <2>2
  <2>5. d = e => Lex(a, b, radix)
    <3> SUFFICES ASSUME d = e PROVE Lex(v[base + k], v[base + l], radix)
      OBVIOUS
    <3>1. k \in OfChunk(st, d, size) /\ l \in OfChunk(st, d, size)
      BY <2>1, <2>2 DEF C
    <3>2. Ordered(v, ChunkFrom(st, base, d), ChunkSize(st, d), radix)
      BY <1>1
    <3> QED BY <1>6, <3>1, <3>2, OrderOfChunk
  <2> HIDE DEF a, b
  <2>6. d < e \/ d = e
    BY <2>3, AlgorithmsAssumption
  <2>7. \/ _Radix_key(a, radix) < _Radix_key(b, radix)
        \/ _Radix_key(a, radix) = _Radix_key(b, radix) /\ Lex(a, b, radix)
    BY <2>4, <2>5, <2>6
  <2>8. Lex(a, b, radix + 1)
    BY <2>4, <2>7, LexNext
  <2> QED BY <2>8 DEF a, b
<1>7. ASSUME NEW k \in 0..size - 1 PROVE v[base + k] \in Elems(r, base, size)
  <2>1. PICK d \in D : k \in C(d)
    BY <1>3
  <2>2. v[base + k] \in {r[base + l] : l \in C(d)}
    BY <1>1, <2>1
  <2>3. PICK l \in C(d) : v[base + k] = r[base + l]
    BY <2>2
  <2>4. l \in 0..size - 1
    BY <1>2
  <2> QED BY <2>3, <2>4 DEF Elems
<1>8. ASSUME NEW k \in 0..size - 1 PROVE r[base + k] \in Elems(v, base, size)
  <2>1. PICK d \in D : k \in C(d)
    BY <1>3
  <2>2. r[base + k] \in {v[base + l] : l \in C(d)}
    BY <1>1, <2>1
  <2>3. PICK l \in C(d) : r[base + k] = v[base + l]
    BY <2>2
  <2>4. l \in 0..size - 1
    BY <1>2
  <2> QED BY <2>3, <2>4 DEF Elems
<1>9. Elems(v, base, size) = Elems(r, base, size)
  <2>1. Elems(v, base, size) \subseteq Elems(r, base, size)
    BY <1>7 DEF Elems
  <2>2. Elems(r, base, size) \subseteq Elems(v, base, size)
    BY <1>8 DEF Elems
  <2> QED BY <2>1, <2>2
<1>10. Ordered(v, base, size, radix + 1)
  BY <1>6 DEF Ordered
<1> QED BY <1>9, <1>10 DEF v

Starts(a, base, size, radix) == [d \in 0..Base |-> ChunkBegin(a, base, size, radix, d)]

(* The chunks a pass leaves, each in the order of the identities.          *)
LEMMA ChunkingIs ==
    ASSUME NEW a \in Seq(Elements), NEW base \in Nat, NEW size \in Nat, NEW radix \in Nat, NEW b, NEW r,
           InArray(a, base, size), IsPass(a, b, r, base, size, radix), Ordered(a, base, size, 0)
    PROVE  IsChunking(Starts(a, base, size, radix), r, base, size, radix)
<1> DEFINE st == Starts(a, base, size, radix)
           start(d) == ChunkBegin(a, base, size, radix, d)
<1>1. Chunked(a, r, base, size, radix)
  BY PassChunks
<1>2. /\ start(0) = 0 /\ start(Base) = size
      /\ \A d \in 0..Base : start(d) \in 0..size
      /\ \A d, e \in 0..Base : d <= e => start(d) <= start(e)
      /\ \A d \in 0..(Base - 1) : \A k \in 0..size - 1 :
             start(d) <= k /\ k < start(d + 1) => _Radix_key(r[base + k], radix) = d
      /\ \A k \in 0..size - 1 : \E d \in 0..(Base - 1) : start(d) <= k /\ k < start(d + 1)
  BY <1>1 DEF Chunked
<1>3. st = [d \in 0..Base |-> start(d)]
  BY DEF Starts
<1>4. 0 \in 0..Base /\ Base \in 0..Base /\ \A d \in 0..(Base - 1) : d \in 0..Base /\ d + 1 \in 0..Base
  BY AlgorithmsAssumption
<1> HIDE DEF st, start
<1>5. st \in [0..Base -> 0..size] /\ \A d \in 0..Base : st[d] = start(d)
  BY <1>2, <1>3
<1>6. st[0] = 0 /\ st[Base] = size /\ \A d, e \in 0..Base : d <= e => st[d] <= st[e]
  BY <1>2, <1>4, <1>5
<1>7. \A d \in 0..(Base - 1) : st[d] = start(d) /\ st[d + 1] = start(d + 1)
  BY <1>4, <1>5
<1>8. \A d \in 0..(Base - 1) : \A k \in 0..size - 1 :
           st[d] <= k /\ k < st[d + 1] => _Radix_key(r[base + k], radix) = d
  BY <1>2, <1>7
<1>9. \A k \in 0..size - 1 : \E d \in 0..(Base - 1) : st[d] <= k /\ k < st[d + 1]
  <2> TAKE k \in 0..size - 1
  <2>1. \E d \in 0..(Base - 1) : start(d) <= k /\ k < start(d + 1)
    BY <1>2
  <2>2. PICK d \in 0..(Base - 1) : start(d) <= k /\ k < start(d + 1)
    BY <2>1
  <2>3. st[d] <= k /\ k < st[d + 1]
    BY <1>7, <2>2
  <2> QED BY <2>3
<1>10. \A k, l \in 0..size - 1 :
           k < l /\ _Radix_key(r[base + k], radix) = _Radix_key(r[base + l], radix) =>
              Lex(r[base + k], r[base + l], 0)
  <2> DEFINE q == 0
  <2>1. q \in Nat /\ Ordered(a, base, size, q)
    OBVIOUS
  <2> HIDE DEF q
  <2>2. \A k, l \in 0..size - 1 :
           k < l /\ _Radix_key(r[base + k], radix) = _Radix_key(r[base + l], radix) =>
              Lex(r[base + k], r[base + l], q)
    BY <2>1, ChunkOrders
  <2> QED BY <2>2 DEF q
<1>11. IsChunking(st, r, base, size, radix)
  BY <1>5, <1>6, <1>8, <1>9, <1>10 DEF IsChunking
<1> QED BY <1>11 DEF st

(* What the first pass leaves.                                             *)
FirstRange(m, at, base, size, radix, threads) ==
    Pass(m[at], m[OtherBuffer(at)], base, size, radix, threads)

(* The pass by the highest digit.                                          *)
LEMMA FirstPassIs ==
    ASSUME NEW m, NEW at \in 1..2, NEW base \in Nat, NEW size \in Nat, NEW radix \in Nat, NEW threads \in Nat,
           threads > 0, Roomy(m, base, size)
    PROVE  /\ IsPass(m[at], m[OtherBuffer(at)], FirstRange(m, at, base, size, radix, threads), base, size, radix)
           /\ KeptBut(m, FirstPass(m, at, base, size, radix, threads), OtherBuffer(at),
                      FirstRange(m, at, base, size, radix, threads), base, size)
<1> DEFINE k == OtherBuffer(at)
           a == m[at]
           b == m[k]
           v == FirstRange(m, at, base, size, radix, threads)
           z == FirstPass(m, at, base, size, radix, threads)
<1>1. k \in 1..2
  BY DEF OtherBuffer
<1>2. v = Pass(a, b, base, size, radix, threads) /\ z = BufferWith(m, k, v)
  BY DEF FirstPass, FirstRange, BufferWith
<1> HIDE DEF k, v, z
<1>3. a \in Seq(Elements) /\ b \in Seq(Elements) /\ Len(b) = Len(a) /\ InArray(a, base, size)
  BY <1>1 DEF Roomy
<1> HIDE DEF a, b
<1>4. IsPass(a, b, v, base, size, radix)
  BY <1>2, <1>3, PassIs
<1>5. v \in Seq(Elements) /\ Len(v) = Len(m[k]) /\ SameOutside(m[k], v, base, size)
  BY <1>4 DEF IsPass, b
<1>6. KeptBut(m, z, k, v, base, size)
  BY <1>1, <1>2, <1>5, SetKeeps
<1> QED BY <1>4, <1>6 DEF k, v, z, a, b

(* That pass and the tasks of the chunks sort the range, back in the first *)
(* buffer.                                                                 *)
LEMMA ChunksSort ==
    ASSUME NEW m, NEW at, NEW base \in Nat, NEW size \in Nat, NEW radix \in Nat, NEW deep \in Nat,
           NEW threads \in Nat, NEW h, threads > 0, Roomy(m, base, size), at = Side(deep),
           Ordered(m[at], base, size, 0), RadixSorts(h, radix)
    PROVE  Arranged(m, at, SortedChunks(h, m, at, base, size, radix, deep, threads), 1, base, size, radix + 1)
<1> DEFINE T == CHOOSE g : g = [n \in 0..Base |-> ChunksRow(g, n, h, m, at, base, size, radix, deep, threads)]
           to == OtherBuffer(at)
           a == m[at]
           r == FirstRange(m, at, base, size, radix, threads)
           z == FirstPass(m, at, base, size, radix, threads)
           st == Starts(a, base, size, radix)
           S == {n \in Nat : n <= Base => ChunksDone(m, T[n], r, to, st, base, size, radix, n)}
<1>1. SortedChunks(h, m, at, base, size, radix, deep, threads) = T[Base]
  BY DEF SortedChunks
<1>2. Base \in Nat
  BY AlgorithmsAssumption
<1>3. T = [n \in 0..Base |-> ChunksRow(T, n, h, m, at, base, size, radix, deep, threads)]
  <2>1. \E g : g = [n \in 0..Base |-> ChunksRow(g, n, h, m, at, base, size, radix, deep, threads)]
    <3> HIDE DEF T
    <3>1. HasChunks(Base, h, m, at, base, size, radix, deep, threads)
      BY <1>2, ChunksExist
    <3> QED BY <3>1 DEF HasChunks
  <2> QED BY <2>1
<1> HIDE DEF T
<1>4. at \in 1..2 /\ to = Side(deep + 1) /\ to \in 1..2
  BY Sides DEF OtherBuffer
<1>5. IsPass(a, m[to], r, base, size, radix) /\ KeptBut(m, z, to, r, base, size)
  BY <1>4, FirstPassIs
<1>6. a \in Seq(Elements) /\ InArray(a, base, size) /\ InArray(m[to], base, size) /\ Ordered(a, base, size, 0)
  BY <1>4 DEF Roomy
<1>7. \A n \in Nat : n + 1 <= Base => st[n] = ChunkBegin(a, base, size, radix, n)
                                      /\ st[n + 1] = ChunkBegin(a, base, size, radix, n + 1)
  BY <1>2 DEF Starts
<1> HIDE DEF to, a, r, z, st
<1>8. IsChunking(st, r, base, size, radix)
  BY <1>5, <1>6, ChunkingIs DEF st
<1>9. 0 \in S
  <2>1. T[0] = z
    <3>1. 0 \in 0..Base
      BY <1>2
    <3>2. T[0] = ChunksRow(T, 0, h, m, at, base, size, radix, deep, threads)
      BY <1>3, <3>1
    <3> QED BY <3>2 DEF ChunksRow, z
  <2>2. Kept(m, z, base, size) /\ z[to] = r
    BY <1>5 DEF KeptBut
  <2>3. 0..0 - 1 = {}
    OBVIOUS
  <2>4. ChunksDone(m, z, r, to, st, base, size, radix, 0)
    BY <2>2, <2>3 DEF ChunksDone
  <2> QED BY <2>1, <2>4
<1>10. ASSUME NEW n \in S PROVE n + 1 \in S
  <2> SUFFICES ASSUME n + 1 <= Base PROVE ChunksDone(m, T[n + 1], r, to, st, base, size, radix, n + 1)
    OBVIOUS
  <2> DEFINE k == n + 1
             y == T[n]
             l == deep + 1
             w == h[<<y, to, ChunkFrom(st, base, n), ChunkSize(st, n), l>>]
  <2>1. n \in Nat /\ n <= Base /\ n \in 0..(Base - 1) /\ k \in 0..Base /\ k # 0 /\ k - 1 = n /\ l \in Nat
    BY <1>2
  <2>2. ChunksDone(m, y, r, to, st, base, size, radix, n)
    BY <1>10, <2>1
  <2>3. T[k] = w
    <3>1. st[n] = ChunkBegin(a, base, size, radix, n) /\ st[k] = ChunkBegin(a, base, size, radix, k)
      BY <1>7, <2>1
    <3>1a. ChunkFrom(st, base, n) = base + st[n] /\ ChunkSize(st, n) = st[k] - st[n]
      BY DEF ChunkFrom, ChunkSize
    <3> HIDE DEF k, l
    <3>2. T[k] = ChunksRow(T, k, h, m, at, base, size, radix, deep, threads)
      BY <1>3, <2>1
    <3>3. T[k] = NextChunk(h, y, a, at, base, size, radix, deep, k)
      BY <2>1, <3>2 DEF ChunksRow, a
    <3> HIDE DEF y
    <3>4. NextChunk(h, y, a, at, base, size, radix, deep, k) = w
      BY <2>1, <3>1, <3>1a DEF NextChunk, l, to
    <3> QED BY <3>3, <3>4
  <2> HIDE DEF y, l, k
  <2>4. to = Side(l)
    BY <1>4 DEF l
  <2>5. ChunksDone(m, w, r, to, st, base, size, radix, n + 1)
    BY <1>8, <2>1, <2>2, <2>4, ChunkStep
  <2> QED BY <2>3, <2>5 DEF k
<1>11. S \in SUBSET Nat
  OBVIOUS
<1> HIDE DEF S
<1>12. Base \in S
  BY <1>2, <1>9, <1>10, <1>11, FromPrevious
<1> DEFINE y == T[Base]
<1>13. ChunksDone(m, y, r, to, st, base, size, radix, Base)
  BY <1>2, <1>12 DEF S
<1> HIDE DEF y
<1>14. \A k \in 0..size - 1 : r[base + k] \in Elements
  <2>1. r \in Seq(Elements) /\ InArray(r, base, size)
    BY <1>5, <1>6 DEF IsPass, InArray
  <2> QED BY <2>1, ElemsAre
<1>15. Ordered(y[1], base, size, radix + 1) /\ Elems(y[1], base, size) = Elems(r, base, size)
  BY <1>8, <1>13, <1>14, ChunksJoin
<1>16. Elems(r, base, size) = Elems(a, base, size)
  BY <1>5, <1>6, PassOrders
<1>17. Kept(m, y, base, size)
  BY <1>13 DEF ChunksDone
<1>18. Arranged(m, at, y, 1, base, size, radix + 1)
  BY <1>15, <1>16, <1>17 DEF Arranged, a
<1> QED BY <1>1, <1>18 DEF y

-----------------------------------------------------------------------------
(* The recursion over the digits.                                          *)

(* A range whose elements have the same digit is in order by the digits    *)
(* below.                                                                  *)
LEMMA SameDigit ==
    ASSUME NEW m, NEW at \in 1..2, NEW z, NEW base \in Nat, NEW size \in Nat, NEW radix \in Nat,
           Roomy(m, base, size), Arranged(m, at, z, 1, base, size, radix),
           ~Various(m[at], base, size, radix)
    PROVE  Arranged(m, at, z, 1, base, size, radix + 1)
<1> DEFINE a == m[at]
           v == z[1]
<1>1. Kept(m, z, base, size) /\ Ordered(v, base, size, radix) /\ Elems(v, base, size) = Elems(a, base, size)
  BY DEF Arranged
<1>2. a \in Seq(Elements) /\ InArray(a, base, size)
  BY DEF Roomy
<1>3. ~Various(a, base, size, radix)
  OBVIOUS
<1> HIDE DEF a, v
<1>4. \A i, k \in 0..size - 1 : _Radix_key(a[base + i], radix) = _Radix_key(a[base + k], radix)
  <2> TAKE i, k \in 0..size - 1
  <2> QED BY <1>3, OneDigit
<1>5. \A k \in 0..size - 1 : a[base + k] \in Elements
  BY <1>2, ElemsAre
<1>6. ASSUME NEW k \in 0..size - 1 PROVE \E i \in 0..size - 1 : v[base + k] = a[base + i]
  <2>1. v[base + k] \in Elems(v, base, size)
    BY DEF Elems
  <2>2. v[base + k] \in Elems(a, base, size)
    BY <1>1, <2>1
  <2> QED BY <2>2 DEF Elems
<1>7. ASSUME NEW k \in 0..size - 1, NEW l \in 0..size - 1, k < l
      PROVE  Lex(v[base + k], v[base + l], radix + 1)
  <2> DEFINE x == v[base + k]
             y == v[base + l]
  <2>1. PICK i \in 0..size - 1 : x = a[base + i]
    BY <1>6
  <2>2. PICK j \in 0..size - 1 : y = a[base + j]
    BY <1>6
  <2>3. Lex(x, y, radix)
    BY <1>1, <1>7 DEF Ordered
  <2> HIDE DEF x, y
  <2>4. x \in Elements /\ y \in Elements /\ _Radix_key(x, radix) = _Radix_key(y, radix)
    BY <1>4, <1>5, <2>1, <2>2
  <2>5. Lex(x, y, radix + 1)
    BY <2>3, <2>4, LexNext
  <2> QED BY <2>5 DEF x, y
<1>8. Ordered(v, base, size, radix + 1)
  BY <1>7 DEF Ordered
<1> QED BY <1>1, <1>8 DEF Arranged, a, v

RadixDomain == (Seq(Elements) \X Seq(Elements)) \X (1..2) \X Nat \X Nat \X Nat

(* The three ways the recursion takes,                                     *)
LEMMA RadixRowAt ==
    ASSUME NEW g, NEW n, NEW threads, NEW chunk, NEW m \in Buffers, NEW at \in 1..2,
           NEW base \in Nat, NEW size \in Nat, NEW deep \in Nat
    PROVE  /\ size <= chunk \/ n < 1 =>
                 RadixRow(g, n, threads, chunk)[<<m, at, base, size, deep>>]
                    = _Integer_radix_sort(m, at, base, size, n, deep)
           /\ ~(size <= chunk \/ n < 1) /\ Various(m[at], base, size, n) =>
                 RadixRow(g, n, threads, chunk)[<<m, at, base, size, deep>>]
                    = SortedChunks(g[n - 1], m, at, base, size, n, deep, threads)
           /\ ~(size <= chunk \/ n < 1) /\ ~Various(m[at], base, size, n) =>
                 RadixRow(g, n, threads, chunk)[<<m, at, base, size, deep>>]
                    = g[n - 1][<<m, at, base, size, deep>>]
<1> DEFINE p == <<m, at, base, size, deep>>
<1>1. p \in RadixDomain
  BY DEF RadixDomain, Buffers
<1>2. p[1] = m /\ p[2] = at /\ p[3] = base /\ p[4] = size /\ p[5] = deep
  OBVIOUS
<1> HIDE DEF p
<1>3. RadixRow(g, n, threads, chunk)[p] =
        IF p[4] <= chunk \/ n < 1 THEN _Integer_radix_sort(p[1], p[2], p[3], p[4], n, p[5])
        ELSE IF Various(p[1][p[2]], p[3], p[4], n)
             THEN SortedChunks(g[n - 1], p[1], p[2], p[3], p[4], n, p[5], threads)
             ELSE g[n - 1][<<p[1], p[2], p[3], p[4], p[5]>>]
  BY <1>1 DEF RadixRow, RadixDomain
<1>4. RadixRow(g, n, threads, chunk)[p] =
        IF size <= chunk \/ n < 1 THEN _Integer_radix_sort(m, at, base, size, n, deep)
        ELSE IF Various(m[at], base, size, n)
             THEN SortedChunks(g[n - 1], m, at, base, size, n, deep, threads)
             ELSE g[n - 1][p]
  BY <1>2, <1>3 DEF p
<1> QED BY <1>4 DEF p

(* and each of them sorts.                                                 *)
LEMMA RadixRowSorts ==
    ASSUME NEW g, NEW n \in Nat, NEW threads \in Nat, NEW chunk, threads > 0,
           n # 0 => RadixSorts(g[n - 1], n)
    PROVE  RadixSorts(RadixRow(g, n, threads, chunk), n + 1)
<1> SUFFICES ASSUME NEW m \in Buffers, NEW base \in Nat, NEW size \in Nat, NEW deep \in Nat,
                    Roomy(m, base, size), Ordered(m[Side(deep)], base, size, 0)
             PROVE  Arranged(m, Side(deep), RadixRow(g, n, threads, chunk)[<<m, Side(deep), base, size, deep>>],
                             1, base, size, n + 1)
  BY DEF RadixSorts
<1> DEFINE at == Side(deep)
           z == RadixRow(g, n, threads, chunk)[<<m, at, base, size, deep>>]
<1>1. at \in 1..2 /\ at = Side(deep)
  BY Sides
<1>2. Ordered(m[at], base, size, 0)
  OBVIOUS
<1> HIDE DEF at
<1>3. CASE size <= chunk \/ n < 1
  <2> DEFINE w == _Integer_radix_sort(m, at, base, size, n, deep)
  <2>1. z = w
    BY <1>1, <1>3, RadixRowAt
  <2>2. Arranged(m, at, w, 1, base, size, n + 1)
    BY <1>1, <1>2, IntegerSortIs
  <2> QED BY <2>1, <2>2 DEF at
<1>4. CASE ~(size <= chunk \/ n < 1) /\ Various(m[at], base, size, n)
  <2> DEFINE h == g[n - 1]
             w == SortedChunks(h, m, at, base, size, n, deep, threads)
  <2>1. z = w
    <3>1. ~(size <= chunk \/ n < 1) /\ Various(m[at], base, size, n) => z = w
      BY <1>1, RadixRowAt
    <3> HIDE DEF z, w
    <3> QED BY <1>4, <3>1
  <2>2. RadixSorts(h, n)
    BY <1>4
  <2> HIDE DEF h
  <2>3. Arranged(m, at, w, 1, base, size, n + 1)
    BY <1>1, <1>2, <2>2, ChunksSort
  <2> QED BY <2>1, <2>3 DEF at
<1>5. CASE ~(size <= chunk \/ n < 1) /\ ~Various(m[at], base, size, n)
  <2> DEFINE h == g[n - 1]
             w == h[<<m, at, base, size, deep>>]
  <2>1. z = w
    BY <1>1, <1>5, RadixRowAt
  <2>2. RadixSorts(h, n)
    BY <1>5
  <2> HIDE DEF h
  <2>3. Arranged(m, at, w, 1, base, size, n)
    BY <1>1, <1>2, <2>2 DEF RadixSorts
  <2> HIDE DEF w
  <2>4. Arranged(m, at, w, 1, base, size, n + 1)
    BY <1>1, <1>5, <2>3, SameDigit
  <2> QED BY <2>1, <2>4 DEF at
<1> QED BY <1>3, <1>4, <1>5

(* The sort by the highest digit first.                                    *)
LEMMA RadixSortIs ==
    ASSUME NEW m \in Buffers, NEW length \in Nat, NEW highest \in Nat, NEW threads \in Nat, NEW chunk, threads > 0,
           Roomy(m, 1, length), Ordered(m[1], 1, length, 0)
    PROVE  Arranged(m, 1, _Parallel_integer_radix_sort(m, length, highest, threads, chunk), 1, 1, length, highest + 1)
<1> DEFINE T == CHOOSE g : g = [n \in 0..highest |-> RadixRow(g, n, threads, chunk)]
           S == {n \in Nat : n <= highest => RadixSorts(T[n], n + 1)}
<1>1. _Parallel_integer_radix_sort(m, length, highest, threads, chunk) = T[highest][<<m, 1, 1, length, 0>>]
  BY DEF _Parallel_integer_radix_sort, RadixRow, SortedChunks, ChunksRow, FirstPass, NextChunk, Various
<1>2. T = [n \in 0..highest |-> RadixRow(T, n, threads, chunk)]
  <2>1. \E g : g = [n \in 0..highest |-> RadixRow(g, n, threads, chunk)]
    <3> HIDE DEF T
    <3>1. HasRadix(highest, threads, chunk)
      BY RadixExists
    <3> QED BY <3>1 DEF HasRadix
  <2> QED BY <2>1
<1> HIDE DEF T
<1>3. 0 \in S
  <2>1. 0 \in 0..highest
    OBVIOUS
  <2>2. T[0] = RadixRow(T, 0, threads, chunk)
    BY <1>2, <2>1
  <2> DEFINE n == 0
  <2>3. n \in Nat /\ ~(n # 0)
    OBVIOUS
  <2> HIDE DEF n
  <2>4. RadixSorts(RadixRow(T, n, threads, chunk), n + 1)
    BY <2>3, RadixRowSorts
  <2> QED BY <2>2, <2>4 DEF n
<1>4. ASSUME NEW n \in S PROVE n + 1 \in S
  <2> SUFFICES ASSUME n + 1 <= highest PROVE RadixSorts(T[n + 1], n + 1 + 1)
    OBVIOUS
  <2> DEFINE k == n + 1
  <2>1. n \in Nat /\ n <= highest /\ k \in 0..highest /\ k \in Nat /\ k - 1 = n
    OBVIOUS
  <2>2. RadixSorts(T[n], k)
    BY <1>4, <2>1
  <2> HIDE DEF k
  <2>3. T[k] = RadixRow(T, k, threads, chunk)
    BY <1>2, <2>1
  <2>4. RadixSorts(T[k - 1], k)
    BY <2>1, <2>2
  <2>5. RadixSorts(RadixRow(T, k, threads, chunk), k + 1)
    BY <2>1, <2>4, RadixRowSorts
  <2> QED BY <2>3, <2>5 DEF k
<1>5. S \in SUBSET Nat
  OBVIOUS
<1> HIDE DEF S
<1>6. highest \in S
  BY <1>3, <1>4, <1>5, FromPrevious
<1> DEFINE h == T[highest]
<1>7. RadixSorts(h, highest + 1)
  BY <1>6 DEF S
<1> HIDE DEF h
<1>8. Side(0) = 1
  BY DEF Side
<1> DEFINE one == 1
           z == h[<<m, one, one, length, 0>>]
<1>9. one \in Nat /\ one = Side(0) /\ Roomy(m, one, length) /\ Ordered(m[Side(0)], one, length, 0)
  BY <1>8
<1> HIDE DEF one
<1>10. Arranged(m, one, z, 1, one, length, highest + 1)
  BY <1>7, <1>9 DEF RadixSorts
<1> QED BY <1>1, <1>10 DEF one, h

-----------------------------------------------------------------------------
(* The highest digit of the greatest element.                              *)

DigitsTo(n) == CHOOSE g : g = [m \in 0..n |-> DigitsRow(g, m)]

(* The function of the digits,                                             *)
LEMMA DigitsToIs ==
    ASSUME NEW n \in Nat
    PROVE  /\ DigitsTo(n) = [m \in 0..n |-> DigitsRow(DigitsTo(n), m)]
           /\ HighestDigit(n) = DigitsTo(n)[n]
<1>1. HasDigits(n)
  BY DigitsExist
<1>2. \E h : h = [m \in 0..n |-> DigitsRow(h, m)]
  BY <1>1 DEF HasDigits
<1>3. DigitsTo(n) = [m \in 0..n |-> DigitsRow(DigitsTo(n), m)]
  BY <1>2 DEF DigitsTo
<1>4. HighestDigit(n) = DigitsTo(n)[n]
  BY DEF HighestDigit, DigitsTo, DigitsRow
<1> QED BY <1>3, <1>4

(* whose values do not depend on where it ends.                            *)
LEMMA DigitsAgree ==
    ASSUME NEW n \in Nat, NEW m \in Nat, m <= n
    PROVE  DigitsTo(n)[m] = HighestDigit(m)
<1> DEFINE f == DigitsTo(n)
           g == DigitsTo(m)
<1>1. f = [k \in 0..n |-> DigitsRow(f, k)] /\ g = [k \in 0..m |-> DigitsRow(g, k)] /\ HighestDigit(m) = g[m]
  BY DigitsToIs
<1> HIDE DEF f, g
<1>2. \A h, k : Row("digits", h, k, 0) = DigitsRow(h, k)
  BY DEF Row
<1>3. f = [k \in 0..n |-> Row("digits", f, k, 0)] /\ g = [k \in 0..m |-> Row("digits", g, k, 0)]
  BY <1>1, <1>2
<1>4. \A k \in Nat : k <= n /\ k <= m => f[k] = g[k]
  BY <1>3, DigitsDetermined, RowsAgree
<1>5. f[m] = g[m]
  BY <1>4
<1> QED BY <1>1, <1>5 DEF f

(* The equation of HighestDigit.                                           *)
LEMMA HighestOf ==
    ASSUME NEW x \in Nat
    PROVE  HighestDigit(x) = IF x \div Base = 0 THEN 0 ELSE 1 + HighestDigit(x \div Base)
<1> DEFINE f == DigitsTo(x)
           q == x \div Base
<1>1. f = [k \in 0..x |-> DigitsRow(f, k)] /\ HighestDigit(x) = f[x]
  BY DigitsToIs
<1>2. q # 0 => f[q] = HighestDigit(q)
  BY QuotientIsLess, AlgorithmsAssumption, DigitsAgree
<1> HIDE DEF f
<1>3. f[x] = DigitsRow(f, x)
  BY <1>1
<1>4. f[x] = IF q = 0 THEN 0 ELSE 1 + f[q]
  BY <1>3 DEF DigitsRow
<1> HIDE DEF q
<1>5. HighestDigit(x) = IF q = 0 THEN 0 ELSE 1 + HighestDigit(q)
  BY <1>1, <1>2, <1>4
<1> QED BY <1>5 DEF q

(* No digit of a number is above its highest.                              *)
LEMMA HighestIs == \A x \in Nat : HighestDigit(x) \in Nat /\ x < Power(HighestDigit(x) + 1)
<1> DEFINE S == {x \in Nat : HighestDigit(x) \in Nat /\ x < Power(HighestDigit(x) + 1)}
<1>0. Base \in Nat /\ Base >= 2
  BY AlgorithmsAssumption
<1>1. ASSUME NEW x \in Nat, \A y \in Nat : y < x => y \in S PROVE x \in S
  <2> DEFINE q == x \div Base
             r == x % Base
             h == HighestDigit(x)
             e == HighestDigit(q)
  <2>1. q \in Nat /\ r \in 0..(Base - 1) /\ x = Base * q + r
    BY <1>0, DivModIs
  <2>2. h = IF q = 0 THEN 0 ELSE 1 + e
    BY HighestOf
  <2>3. q # 0 => q < x
    BY <1>0, QuotientIsLess
  <2> HIDE DEF r, h
  <2>4. CASE q = 0
    <3>1. h = 0 /\ x = r
      BY <1>0, <2>1, <2>2, <2>4
    <3>2. Power(0 + 1) = Base * Power(0)
      <4> DEFINE n == 0
      <4>1. n \in Nat
        OBVIOUS
      <4> HIDE DEF n
      <4>2. Power(n + 1) = Base * Power(n)
        BY <4>1, PowerOfNext
      <4> QED BY <4>2 DEF n
    <3>3. Power(h + 1) = Base
      BY <1>0, <3>1, <3>2, PowerOfNone
    <3>4. h \in Nat /\ x < Power(h + 1)
      BY <1>0, <2>1, <3>1, <3>3
    <3> QED BY <3>4 DEF h
  <2>5. CASE q # 0
    <3> HIDE DEF q
    <3>1. q \in S
      BY <1>1, <2>1, <2>3, <2>5
    <3> DEFINE n == e + 1
               p == Power(n)
               b == Power(n + 1)
    <3>2. e \in Nat /\ q < p
      BY <3>1
    <3>3. n \in Nat /\ h = n
      BY <2>2, <2>5, <3>2
    <3>4. b = Base * p /\ p \in Nat
      BY <3>3, PowerOfNext, PowerIs
    <3> HIDE DEF e, n, p, b
    <3>5. q + 1 <= p /\ q + 1 \in Int
      BY <2>1, <3>2, <3>4
    <3>6. Base * (q + 1) <= Base * p
      BY <1>0, <3>4, <3>5, ProductOrder
    <3>7. Base * (q + 1) = Base * q + Base /\ Base * q \in Nat
      BY <1>0, <2>1
    <3>8. x < b
      <4> DEFINE u == Base * q
                 v == Base * p
                 w == Base * (q + 1)
      <4>1. w <= v /\ w = u + Base /\ u \in Nat /\ x = u + r /\ b = v /\ v \in Int
        BY <1>0, <2>1, <3>4, <3>6, <3>7
      <4> HIDE DEF u, v, w
      <4> QED BY <1>0, <2>1, <4>1
    <3>9. h \in Nat /\ x < Power(h + 1)
      BY <3>3, <3>8 DEF b
    <3> QED BY <3>9 DEF h
  <2> QED BY <2>4, <2>5
<1>2. S \in SUBSET Nat
  OBVIOUS
<1> HIDE DEF S
<1>3. \A x \in Nat : x \in S
  BY <1>1, <1>2, FromSmaller
<1> QED BY <1>3 DEF S

(* The highest digit of the greatest is enough for all.                    *)
LEMMA AllDigits ==
    ASSUME NEW K \in SUBSET Nat, NEW b \in Nat, \A x \in K : x <= b, K # {}
    PROVE  /\ HighestDigit(Max(K)) \in Nat
           /\ \A x \in K : x % Power(HighestDigit(Max(K)) + 1) = x
<1> DEFINE g == Max(K)
           h == HighestDigit(g)
           p == Power(h + 1)
<1>1. g \in K /\ \A x \in K : g >= x
  <2>1. K \in SUBSET Int /\ b \in Int
    OBVIOUS
  <2> QED BY <2>1, MaxIs
<1> HIDE DEF g
<1>2. h \in Nat /\ g < p
  BY <1>1, HighestIs
<1>3. p \in Nat /\ p > 0
  BY <1>2, PowerIs
<1> HIDE DEF h, p
<1>4. ASSUME NEW x \in K PROVE x % p = x
  <2>1. x \in 0..(p - 1) /\ x = p * 0 + x /\ 0 \in Int
    BY <1>1, <1>2, <1>3
  <2> QED BY <1>3, <2>1, QuotientIs
<1> QED BY <1>2, <1>4 DEF p, h, g

-----------------------------------------------------------------------------
(* What the radix sort returns, and the theorem of all sorts.              *)

(* The elements of the radix sort: the integers, shifted to be natural     *)
(* numbers, and their places in the input.                                 *)
Numbered(s, width) == [i \in DOMAIN s |-> <<Unsigned(s[i], width), i>>]
Fits(s, width) ==
    /\ s \in Seq(Int) /\ width \in Nat
    /\ \A x \in ToSet(s) : Power(width) \div 2 + x \in 0..Power(width) - 1

(* An integer of the width, shifted to be natural, keeps its value         *)
(* relative to the others.                                                 *)
LEMMA UnsignedIs ==
    ASSUME NEW x \in Int, NEW width \in Nat, Power(width) \div 2 + x \in 0..Power(width) - 1
    PROVE  Unsigned(x, width) = Power(width) \div 2 + x
<1> DEFINE p == Power(width)
           c == p \div 2
           y == c + x
<1>1. p \in Nat /\ p > 0 /\ y \in 0..p - 1 /\ Unsigned(x, width) = y % p
  BY PowerIs DEF Unsigned
<1> HIDE DEF p, y
<1>2. y \in 0..(p - 1) /\ y = p * 0 + y /\ 0 \in Int /\ y \in Nat
  BY <1>1
<1>3. y % p = y
  BY <1>1, <1>2, QuotientIs
<1> QED BY <1>1, <1>3 DEF y, p

(* The elements of the radix sort.                                         *)
LEMMA NumberedIs ==
    ASSUME NEW s, NEW width, Fits(s, width)
    PROVE  /\ Numbered(s, width) \in Seq(Elements) /\ Len(Numbered(s, width)) = Len(s) /\ Len(s) \in Nat
           /\ \A i \in 1..Len(s) :
                 /\ Numbered(s, width)[i] = <<Power(width) \div 2 + s[i], i>>
                 /\ Power(width) \div 2 + s[i] \in 0..Power(width) - 1
                 /\ s[i] \in Int
           /\ Power(width) \div 2 \in Nat /\ Power(width) \in Nat
<1> DEFINE a == Numbered(s, width)
           n == Len(s)
           p == Power(width)
           c == p \div 2
           u(i) == c + s[i]
<1>1. s \in Seq(Int) /\ width \in Nat /\ n \in Nat /\ DOMAIN s = 1..n
  BY DEF Fits
<1>2. p \in Nat /\ p > 0
  BY <1>1, PowerIs
<1>3. c \in Nat
  <2> HIDE DEF p
  <2> QED BY <1>2
<1>4. ASSUME NEW i \in 1..n PROVE s[i] \in Int /\ u(i) \in 0..p - 1 /\ Unsigned(s[i], width) = u(i)
  <2>1. s[i] \in ToSet(s) /\ s[i] \in Int
    BY <1>1 DEF ToSet
  <2>2. u(i) \in 0..p - 1
    BY <2>1 DEF Fits
  <2> QED BY <1>1, <2>1, <2>2, UnsignedIs
<1>5. a = [i \in 1..n |-> <<Unsigned(s[i], width), i>>]
  BY <1>1 DEF Numbered
<1> HIDE DEF a, u, p, c
<1>6. \A i \in 1..n : a[i] = <<u(i), i>>
  BY <1>4, <1>5
<1>7. \A i \in 1..n : u(i) \in Nat
  BY <1>2, <1>4
<1>8. a = [i \in 1..n |-> <<u(i), i>>]
  BY <1>4, <1>5
<1>9. \A i \in 1..n : <<u(i), i>> \in Elements
  BY <1>7 DEF Elements
<1>10. a \in Seq(Elements) /\ Len(a) = n
  <2> HIDE DEF n
  <2> DEFINE S == Elements
  <2>1. \A i \in 1..n : <<u(i), i>> \in S
    BY <1>9
  <2> HIDE DEF S
  <2> QED BY <1>1, <1>8, <2>1 DEF S
<1> QED BY <1>1, <1>2, <1>3, <1>4, <1>6, <1>10 DEF a, u, p, c, n

(* What the sort returns: every place once, ascending, and stable.         *)
RadixSorted(s, v) ==
    /\ {v[i][2] : i \in DOMAIN v} = DOMAIN v
    /\ \A i \in DOMAIN v : i + 1 \in DOMAIN v =>
          LET x == s[v[i][2]]
              y == s[v[i + 1][2]]
          IN x < y \/ (x = y /\ v[i][2] < v[i + 1][2])

(* Before the sort they are in the order of the identities.                *)
LEMMA NumberedOrdered ==
    ASSUME NEW s, NEW width, Fits(s, width), NEW a, a = Numbered(s, width)
    PROVE  Ordered(a, 1, Len(s), 0) /\ (Len(s) <= 1 => RadixSorted(s, a))
<1> DEFINE n == Len(s)
           p == Power(width)
           c == p \div 2
<1>1. /\ a \in Seq(Elements) /\ Len(a) = n /\ n \in Nat
      /\ \A i \in 1..n : a[i] = <<c + s[i], i>> /\ s[i] \in Int
      /\ c \in Nat
  BY NumberedIs
<1> HIDE DEF n, c
<1>2. DOMAIN a = 1..n
  BY <1>1
<1>3. \A i \in 1..n : a[i][1] = c + s[i] /\ a[i][2] = i
  BY <1>1
<1>4. ASSUME NEW i \in 0..n - 1, NEW k \in 0..n - 1, i < k PROVE Lex(a[1 + i], a[1 + k], 0)
  <2> DEFINE f == 1 + i
             g == 1 + k
  <2>1. f \in 1..n /\ g \in 1..n /\ f < g
    BY <1>1, <1>4
  <2> HIDE DEF f, g
  <2>2. a[f][2] < a[g][2] /\ a[f][1] \in Int /\ a[g][1] \in Int
    <3>1. s[f] \in Int /\ s[g] \in Int /\ c \in Nat
      BY <1>1, <2>1
    <3>2. a[f][1] = c + s[f] /\ a[g][1] = c + s[g] /\ a[f][2] = f /\ a[g][2] = g
      BY <1>3, <2>1
    <3> DEFINE sf == s[f]
               sg == s[g]
    <3>3. c + sf \in Int /\ c + sg \in Int
      <4>1. sf \in Int /\ sg \in Int
        BY <3>1
      <4> HIDE DEF sf, sg
      <4> QED BY <3>1, <4>1
    <3> QED BY <2>1, <3>2, <3>3
  <2> DEFINE u == a[f][1]
             v == a[g][1]
  <2>3. Low(a[f], 0) = u % 1 /\ Low(a[g], 0) = v % 1
    BY PowerOfNone DEF Low
  <2>4. u \in Int /\ v \in Int
    BY <2>2
  <2> HIDE DEF u, v
  <2>5. u % 1 = 0 /\ v % 1 = 0
    BY <2>4
  <2> QED BY <2>2, <2>3, <2>5 DEF Lex, f, g
<1>5. Ordered(a, 1, n, 0)
  BY <1>4 DEF Ordered
<1>6. ASSUME n <= 1 PROVE RadixSorted(s, a)
  <2>1. {a[i][2] : i \in 1..n} = 1..n
    BY <1>3
  <2>2. \A i \in 1..n : ~(i + 1 \in 1..n)
    BY <1>1, <1>6
  <2> QED BY <1>2, <2>1, <2>2 DEF RadixSorted
<1> QED BY <1>5, <1>6 DEF n

(* In order by all their digits they are in the order of the integers.     *)
LEMMA ArrangedIsSorted ==
    ASSUME NEW s, NEW width, Fits(s, width), NEW a, a = Numbered(s, width), NEW v \in Seq(Elements), NEW h \in Nat,
           Len(v) = Len(a), Elems(v, 1, Len(a)) = Elems(a, 1, Len(a)), Ordered(v, 1, Len(a), h + 1),
           \A i \in 1..Len(a) : a[i][1] % Power(h + 1) = a[i][1]
    PROVE  RadixSorted(s, v)
<1> DEFINE n == Len(s)
           p == Power(h + 1)
           c == Power(width) \div 2
<1>1. /\ a \in Seq(Elements) /\ Len(a) = n /\ n \in Nat
      /\ \A i \in 1..n : a[i] = <<c + s[i], i>> /\ s[i] \in Int
      /\ c \in Nat
  BY NumberedIs
<1>2. \A x : Low(x, h + 1) = x[1] % p
  BY DEF Low
<1> HIDE DEF n, c, p
<1>3. DOMAIN v = 1..n
  BY <1>1
<1>4. \A i \in 1..n : a[i][1] = c + s[i] /\ a[i][2] = i
  BY <1>1
<1>5. \A w : Elems(w, 1, n) = {w[i] : i \in 1..n}
  <2> TAKE w
  <2>1. \A i \in 0..n - 1 : 1 + i \in 1..n
    BY <1>1
  <2>2. \A i \in 1..n : i - 1 \in 0..n - 1 /\ 1 + (i - 1) = i
    BY <1>1
  <2>3. ASSUME NEW i \in 1..n PROVE w[i] \in Elems(w, 1, n)
    <3> DEFINE j == i - 1
    <3>1. j \in 0..n - 1 /\ 1 + j = i
      BY <2>2
    <3> HIDE DEF j
    <3> QED BY <3>1 DEF Elems
  <2>4. Elems(w, 1, n) \subseteq {w[i] : i \in 1..n}
    BY <2>1 DEF Elems
  <2> QED BY <2>3, <2>4
<1>6. {v[i] : i \in 1..n} = {a[i] : i \in 1..n}
  <2>1. Elems(v, 1, n) = Elems(a, 1, n)
    BY <1>1
  <2>2. Elems(v, 1, n) = {v[i] : i \in 1..n}
    BY <1>5
  <2>3. Elems(a, 1, n) = {a[i] : i \in 1..n}
    BY <1>5
  <2> QED BY <2>1, <2>2, <2>3
<1>7. ASSUME NEW i \in 1..n
      PROVE  \E j \in 1..n : v[i][2] = j /\ v[i][1] = c + s[j] /\ v[i][1] % p = v[i][1]
  <2>1. PICK j \in 1..n : v[i] = a[j]
    BY <1>6
  <2>2. a[j][1] % p = a[j][1]
    BY <1>1 DEF p
  <2> QED BY <1>4, <2>1, <2>2
<1>8. ASSUME NEW j \in 1..n PROVE \E i \in 1..n : v[i][2] = j
  <2>1. PICK i \in 1..n : v[i] = a[j]
    BY <1>6
  <2> QED BY <1>4, <2>1
<1>9. {v[i][2] : i \in 1..n} = 1..n
  <2>1. \A i \in 1..n : v[i][2] \in 1..n
    BY <1>7
  <2> QED BY <1>8, <2>1
<1>10. ASSUME NEW i \in 1..n, i + 1 \in 1..n
       PROVE  \/ s[v[i][2]] < s[v[i + 1][2]]
              \/ s[v[i][2]] = s[v[i + 1][2]] /\ v[i][2] < v[i + 1][2]
  <2> DEFINE k == i + 1
             x == v[i]
             y == v[k]
  <2>1. k \in 1..n
    BY <1>10
  <2>2. Lex(x, y, h + 1)
    <3> DEFINE f == i - 1
    <3>1. f \in 0..n - 1 /\ i \in 0..n - 1 /\ f < i /\ 1 + f = i /\ 1 + i = k
      BY <1>1, <1>10
    <3>2. Ordered(v, 1, n, h + 1)
      BY <1>1
    <3> HIDE DEF f, k
    <3>3. Lex(v[1 + f], v[1 + i], h + 1)
      BY <3>1, <3>2 DEF Ordered
    <3> QED BY <3>1, <3>3
  <2> HIDE DEF k
  <2>3. PICK j \in 1..n : x[2] = j /\ x[1] = c + s[j] /\ x[1] % p = x[1]
    BY <1>7
  <2>4. PICK l \in 1..n : y[2] = l /\ y[1] = c + s[l] /\ y[1] % p = y[1]
    BY <1>7, <2>1
  <2> HIDE DEF x, y
  <2>5. x[1] < y[1] \/ (x[1] = y[1] /\ x[2] < y[2])
    BY <1>2, <2>2, <2>3, <2>4 DEF Lex
  <2> DEFINE sj == s[j]
             sl == s[l]
  <2>6. sj \in Int /\ sl \in Int /\ (c + sj < c + sl \/ (c + sj = c + sl /\ x[2] < y[2]))
    BY <1>1, <2>3, <2>4, <2>5
  <2> HIDE DEF sj, sl
  <2>7. sj < sl \/ (sj = sl /\ x[2] < y[2])
    BY <1>1, <2>6
  <2>8. s[x[2]] = sj /\ s[y[2]] = sl
    BY <2>3, <2>4 DEF sj, sl
  <2>9. s[x[2]] < s[y[2]] \/ (s[x[2]] = s[y[2]] /\ x[2] < y[2])
    BY <2>7, <2>8
  <2> QED BY <2>9 DEF x, y, k
<1> QED BY <1>3, <1>9, <1>10 DEF RadixSorted

(* _Parallel_integer_sort_asc sorts what has more than one element.        *)
LEMMA AscendingSortIs ==
    ASSUME NEW s, NEW width, Fits(s, width), NEW a, a = Numbered(s, width), Len(s) > 1,
           NEW threads \in Nat, threads > 0, NEW chunk
    PROVE  RadixSorted(s, _Parallel_integer_sort_asc(<<a, a>>, Len(a), threads, chunk)[1])
<1> DEFINE n == Len(s)
           p == Power(width)
           c == p \div 2
           m == <<a, a>>
           K == {m[1][i][1] : i \in DOMAIN m[1]}
           h == HighestDigit(Max(K))
           z == _Parallel_integer_radix_sort(m, n, h, threads, chunk)
           v == z[1]
<1>1. /\ a \in Seq(Elements) /\ Len(a) = n /\ n \in Nat
      /\ \A i \in 1..n : a[i] = <<c + s[i], i>> /\ c + s[i] \in 0..p - 1
      /\ p \in Nat
  BY NumberedIs
<1>2. _Parallel_integer_sort_asc(m, Len(a), threads, chunk) = z
  BY <1>1 DEF _Parallel_integer_sort_asc
<1>3. m \in Buffers /\ m[1] = a /\ m[2] = a
  <2>1. m \in Buffers
    <3> DEFINE S == Seq(Elements)
    <3>1. a \in S
      BY <1>1
    <3> HIDE DEF S
    <3>2. m \in S \X S
      BY <3>1
    <3> QED BY <3>2 DEF Buffers, S
  <2> QED BY <2>1
<1>4. \A i \in 1..n : a[i][1] \in 0..p - 1
  BY <1>1
<1> HIDE DEF n, p, m
<1>5. K = {a[i][1] : i \in 1..n}
  <2>1. DOMAIN a = 1..n
    BY <1>1
  <2>2. K = {a[i][1] : i \in DOMAIN a}
    BY <1>3
  <2> QED BY <2>1, <2>2
<1> HIDE DEF K
<1>6. h \in Nat /\ \A x \in K : x % Power(h + 1) = x
  <2>1. K \in SUBSET Nat /\ \A x \in K : x <= p
    BY <1>1, <1>4, <1>5
  <2>2. K # {}
    <3>1. 1 \in 1..n
      BY <1>1 DEF n
    <3> QED BY <1>5, <3>1
  <2> QED BY <1>1, <2>1, <2>2, AllDigits
<1> HIDE DEF h
<1>7. \A i \in 1..n : a[i][1] % Power(h + 1) = a[i][1]
  BY <1>5, <1>6
<1>8. Ordered(a, 1, n, 0)
  BY NumberedOrdered DEF n
<1>9. Roomy(m, 1, n) /\ Ordered(m[1], 1, n, 0)
  <2>1. InArray(a, 1, n)
    BY <1>1 DEF InArray
  <2>2. \A j \in 1..2 : m[j] = a
    BY <1>3
  <2>3. \A j \in 1..2 : m[j] \in Seq(Elements) /\ Len(m[j]) = Len(m[1]) /\ InArray(m[j], 1, n)
    BY <1>1, <1>3, <2>1, <2>2
  <2> QED BY <1>3, <1>8, <2>3 DEF Roomy
<1>10. Arranged(m, 1, z, 1, 1, n, h + 1)
  BY <1>1, <1>3, <1>6, <1>9, RadixSortIs
<1> HIDE DEF z
<1>11. /\ Kept(m, z, 1, n) /\ Ordered(v, 1, n, h + 1) /\ Elems(v, 1, n) = Elems(a, 1, n)
  BY <1>3, <1>10 DEF Arranged
<1>12. Roomy(z, 1, n)
  BY <1>9, <1>11, RoomStays
<1>13. v \in Seq(Elements) /\ Len(v) = n
  <2>1. 1 \in 1..2
    OBVIOUS
  <2>2. z[1] \in Seq(Elements)
    BY <1>12, <2>1 DEF Roomy
  <2>3. Len(z[1]) = Len(m[1])
    BY <1>11, <2>1 DEF Kept
  <2> QED BY <1>1, <1>3, <2>2, <2>3
<1> HIDE DEF v
<1>14. RadixSorted(s, v)
  BY <1>1, <1>6, <1>7, <1>11, <1>13, ArrangedIsSorted
<1> QED BY <1>2, <1>14 DEF v, m

(* The sorts sort, in place, for any number of cores and however their     *)
(* tasks are divided, and the radix sort is stable, whatever the number of *)
(* digits: for all inputs.                                                 *)
THEOREM EverySortSorts == AlgorithmsSpec => []SortsInput
<1> DEFINE Inv == call \in Calls /\ SortsInput
<1>1. AlgorithmsInit => Inv
  BY DEF AlgorithmsInit, SortsInput, Returned
<1>2. Inv /\ [AlgorithmsNext]_algorithmsVars => Inv'
  <2> SUFFICES ASSUME Inv, [AlgorithmsNext]_algorithmsVars PROVE Inv'
    OBVIOUS
  <2>1. CASE Merge \/ Search \/ Reduce \/ PartialSum \/ For \/ ForEach \/ parallel_transform \/ Predicates \/ Count
    <3>1. call' = call /\ call.op \notin {"sort", "buffered_sort", "radixsort"}
      BY <2>1 DEF Merge, Search, Reduce, PartialSum, For, ForEach, parallel_transform, Predicates, Count, Returns
    <3> QED BY <3>1 DEF SortsInput
  <2>2. CASE parallel_sort
    <3> DEFINE a == call.input
               big == ~(Len(a) <= call.chunk \/ call.cores < 2)
               tasks == call.cores * _MAX_NUM_TASKS_PER_CORE
               q == _Parallel_quicksort_impl(a, 1, Len(a), tasks, call.chunk, call.slow)
               w == StdSort(a, 1, Len(a))
    <3>1. /\ call' = call /\ call.op = "sort"
          /\ value' = IF call.canceling THEN a ELSE IF big THEN q ELSE w
      BY <2>2 DEF parallel_sort, Returns, value
    <3>2. a \in Seq(Int) /\ call.cores \in Nat /\ call.chunk \in Nat
      BY <3>1, CallsAssumption
    <3>3. tasks \in Nat
      BY <3>2, AlgorithmsAssumption
    <3> HIDE DEF a, tasks
    <3>4. w = InOrder(a)
      BY <3>2, SortOfAll
    <3>5. q = w
      <4> DEFINE l == Len(a)
                 one == 1
                 chunk == call.chunk
                 slow == call.slow
      <4>1. l \in Nat /\ InArray(a, one, l) /\ one \in Nat /\ chunk \in Nat
        BY <3>2, PartOfAll
      <4> HIDE DEF l, one, chunk, slow
      <4>2. _Parallel_quicksort_impl(a, one, l, tasks, chunk, slow) = StdSort(a, one, l)
        BY <3>2, <3>3, <4>1, QuicksortIs
      <4> QED BY <4>2 DEF l, one, chunk, slow
    <3> HIDE DEF q, w, big
    <3>6. ~call.canceling => value' = InOrder(a)
      BY <3>1, <3>4, <3>5
    <3> QED BY <3>1, <3>6 DEF SortsInput, a
  <2>3. CASE parallel_buffered_sort
    <3> DEFINE a == call.input
               big == ~(Len(a) <= call.chunk \/ call.cores < 2)
               q == _Parallel_buffered_sort_impl(<<a, a>>, 1, Len(a), Align(call.cores), call.chunk)[1][1]
               w == StdSort(a, 1, Len(a))
    <3>1. /\ call' = call /\ call.op = "buffered_sort"
          /\ value' = IF call.canceling THEN a ELSE IF big THEN q ELSE w
      BY <2>3 DEF parallel_buffered_sort, Returns, value
    <3>2. a \in Seq(Int) /\ call.cores \in Nat /\ call.chunk \in Nat
      BY <3>1, CallsAssumption
    <3> HIDE DEF a
    <3>3. w = InOrder(a)
      BY <3>2, SortOfAll
    <3>4. q = InOrder(a)
      <4> DEFINE cores == call.cores
                 chunk == call.chunk
      <4>1. cores \in Nat /\ chunk \in Nat
        BY <3>2
      <4> HIDE DEF cores, chunk
      <4>2. _Parallel_buffered_sort_impl(<<a, a>>, 1, Len(a), Align(cores), chunk)[1][1] = InOrder(a)
        BY <3>2, <4>1, BufferedSortIs
      <4> QED BY <4>2 DEF cores, chunk
    <3> HIDE DEF q, w, big
    <3>5. ~call.canceling => value' = InOrder(a)
      BY <3>1, <3>3, <3>4
    <3> QED BY <3>1, <3>5 DEF SortsInput, a
  <2>4. CASE parallel_radixsort
    <3> DEFINE s == call.input
               width == call.width
               threads == call.cores
               chunk == call.chunk
               a == Numbered(s, width)
               q == _Parallel_integer_sort_asc(<<a, a>>, Len(a), threads, chunk)[1]
    <3>1. /\ call' = call /\ call.op = "radixsort"
          /\ value' = IF call.canceling \/ Len(a) <= 1 THEN a ELSE q
      BY <2>4 DEF parallel_radixsort, Returns, value, Numbered
    <3>2. Fits(s, width) /\ threads \in Nat /\ threads > 0
      <4>1. call \in Calls /\ call.op = "radixsort"
        BY <3>1
      <4>2. s \in Seq(Int) /\ threads \in Nat \ {0}
        BY <4>1, CallsAssumption
      <4>3. width \in Nat /\ \A x \in ToSet(s) : Power(width) \div 2 + x \in 0..Power(width) - 1
        BY <4>1, CallsAssumption
      <4> HIDE DEF s, width, threads
      <4> QED BY <4>2, <4>3 DEF Fits
    <3> HIDE DEF s, width, threads, chunk, a
    <3>3. Len(a) = Len(s) /\ Len(s) \in Nat
      BY <3>2, NumberedIs DEF a
    <3>4. Len(a) <= 1 => RadixSorted(s, a)
      BY <3>2, <3>3, NumberedOrdered DEF a
    <3>5. ~(Len(a) <= 1) => RadixSorted(s, q)
      <4> SUFFICES ASSUME ~(Len(a) <= 1) PROVE RadixSorted(s, q)
        OBVIOUS
      <4>1. Len(s) > 1 /\ a = Numbered(s, width)
        BY <3>3 DEF a
      <4> QED BY <3>2, <4>1, AscendingSortIs
    <3> HIDE DEF q
    <3>6. ~call.canceling => RadixSorted(s, value')
      BY <3>1, <3>4, <3>5
    <3> DEFINE w == value'
    <3>7. call.op = "radixsort" /\ call' = call /\ (~call.canceling => RadixSorted(call.input, w))
      BY <3>1, <3>6 DEF s
    <3>8. SortsInput' <=>
            (/\ Returned' /\ call'.op \in {"sort", "buffered_sort"} /\ ~call'.canceling => w = InOrder(call'.input)
             /\ Returned' /\ call'.op = "radixsort" /\ ~call'.canceling => RadixSorted(call'.input, w))
      BY DEF SortsInput, RadixSorted
    <3> HIDE DEF w
    <3> QED BY <3>7, <3>8
  <2>5. CASE UNCHANGED algorithmsVars
    BY <2>5 DEF algorithmsVars, SortsInput, Returned, value
  <2> QED BY <2>1, <2>2, <2>3, <2>4, <2>5 DEF AlgorithmsNext
<1>3. Inv => SortsInput
  OBVIOUS
<1> QED BY <1>1, <1>2, <1>3, PTL DEF AlgorithmsSpec
=============================================================================

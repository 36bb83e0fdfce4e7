--------------------------- MODULE PplAlgorithms ----------------------------
(***************************************************************************)
(* Include/ConcRTExtras/ppl_extras.h: the parallel algorithms.             *)
(*                                                                         *)
(* The tasks of one algorithm work on disjoint parts of the data, so each  *)
(* algorithm is an operator, which does the parts one after the other;     *)
(* where the outcome may depend on the order, the choice is an argument.   *)
(* Arrays are sequences: where the code has begin[i], i from 0, this has   *)
(* a[base + i], base being the place of begin.  The constants of the code  *)
(* that are too large for exhaustive inputs (512, 1024, 256, 2048) are     *)
(* CONSTANTS here.                                                         *)
(*                                                                         *)
(* A loop is a function of the number of its turns, to its state after so  *)
(* many; a turn that finds the loop ended changes nothing.  A recursion is *)
(* a function of what decreases with every call.                           *)
(***************************************************************************)
EXTENDS Integers, FiniteSets, Sequences, SequencesExt, FiniteSetsExt

CONSTANTS _MAX_NUM_TASKS_PER_CORE,
          _FINE_GRAIN_CHUNK_SIZE,
          _SORT_MAX_RECURSION_DEPTH,
          SmallSize,          \* the 15 of _Select_median_pivot
          MergeThreshold,     \* the 512 of parallel_merge
          Base,               \* the 256 of a radix pass: digits, not bytes
          BatchSize,          \* the 1024 or 512 elements of one task
          Calls               \* the calls that are examined

ASSUME AlgorithmsAssumption ==
    /\ _MAX_NUM_TASKS_PER_CORE \in Nat /\ _SORT_MAX_RECURSION_DEPTH \in Nat
    /\ MergeThreshold \in Nat /\ Base \in Nat /\ BatchSize \in Nat
    /\ MergeThreshold >= 2 /\ Base >= 2 /\ BatchSize >= 1
    \* The nine samples of a pivot are nine elements.
    /\ SmallSize \in Nat /\ _FINE_GRAIN_CHUNK_SIZE \in Nat
    /\ SmallSize >= 8 /\ _FINE_GRAIN_CHUNK_SIZE >= 8

VARIABLES call,      \* the algorithm, its input, the cores and the chunk size
          result     \* <<>>, or <<what the call returned>>
algorithmsVars == <<call, result>>

Part(a, base, size) == SubSeq(a, base, base + size - 1)
Put(a, base, s) == SubSeq(a, 1, base - 1) \o s \o SubSeq(a, base + Len(s), Len(a))
Swap(a, i, j) == [a EXCEPT ![i] = a[j], ![j] = a[i]]

(* How many elements are at most x, and the sequence that has the k-th     *)
(* smallest element in place k.                                            *)
Below(s, x) == Cardinality({i \in DOMAIN s : s[i] <= x})
InOrder(s) == [k \in DOMAIN s |->
                  CHOOSE x \in ToSet(s) : Below(s, x - 1) < k /\ k <= Below(s, x)]

(* std::sort, std::merge and std::partial_sum of the standard library.     *)
StdSort(a, base, size) == Put(a, base, InOrder(Part(a, base, size)))
StdMerge(s, t) == InOrder(s \o t)
StdPartialSum(s) == [i \in DOMAIN s |-> FoldLeft(+, 0, SubSeq(s, 1, i))]

-----------------------------------------------------------------------------
(* The quicksort.                                                          *)
_Median_of_three(a, i, j, k) ==
    IF a[i] < a[j]
    THEN <<IF a[i] < a[k] THEN IF a[j] < a[k] THEN j ELSE k ELSE i, FALSE>>
    ELSE IF a[j] < a[k] THEN <<IF a[i] < a[k] THEN i ELSE k, FALSE>>
         ELSE <<j, TRUE>>

_Median_of_nine(a, base, size) ==
    LET offset == size \div 8
        Of(i, j, k) == _Median_of_three(a, base + i, base + j, base + k)[1]
        i == Of(0, offset, offset * 2)
        j == Of(offset * 3, offset * 4, offset * 5)
        k == Of(offset * 6, offset * 7, size - 1)
        m == _Median_of_three(a, i, j, k)
    IN <<m[1], m[2] /\ ~(a[k] < a[i])>>

(* The index of the pivot, and whether all values may be equal to it.      *)
_Select_median_pivot(a, base, size, chunk) ==
    IF chunk < _FINE_GRAIN_CHUNK_SIZE /\ size <= Max({chunk * 4, SmallSize})
    THEN <<_Median_of_three(a, base, base + size \div 2, base + size - 1)[1], FALSE>>
    ELSE _Median_of_nine(a, base, size)

(* The next element from the right that is not greater than the pivot, and *)
(* from the left that is not less; both scans must end inside the range.   *)
FromRight(a, base, j) == Max({k \in 0..j : ~(a[base] < a[base + k])})
FromLeft(a, base, size, i) == Min({k \in i..size - 1 : ~(a[base + k] < a[base])})

(* The partitions: the array, the end of the left part, the begin of the   *)
(* right part.                                                             *)
ScanBoth(s, base, size) ==
    LET j == FromRight(s.a, base, s.j)
        i == FromLeft(s.a, base, size, s.i)
    IN IF s.met \/ s.i > s.j THEN s
       ELSE IF i < j
            THEN [a |-> Swap(s.a, base + i, base + j), i |-> i + 1, j |-> j - 1, met |-> FALSE]
            ELSE [a |-> s.a, i |-> i, j |-> j, met |-> TRUE]
TwoWay(a, base, size) ==
    LET turn[n \in 0..size] ==
            IF n = 0 THEN [a |-> a, i |-> 1, j |-> size - 1, met |-> FALSE]
            ELSE ScanBoth(turn[n - 1], base, size)
        last == turn[size]
    IN <<last.a, last.j + 1, last.j + 1>>

MoveRight(s, base) ==
    IF s.a[base] < s.a[base + s.k]
    THEN [a |-> Swap(s.a, base + s.k, base + s.j), i |-> s.i, j |-> s.j - 1, k |-> s.k - 1]
    ELSE s
MoveGreater(s, base) ==
    LET turn[n \in 0..s.k] == IF n = 0 THEN s ELSE MoveRight(turn[n - 1], base)
    IN turn[s.k]

ScanMiddle(s, base) ==
    IF s.i > s.k THEN s
    ELSE MoveGreater(
            IF s.a[base + s.k] < s.a[base]
            THEN [a |-> Swap(s.a, base + s.i, base + s.k), i |-> s.i + 1, j |-> s.j, k |-> s.k]
            ELSE [a |-> s.a, i |-> s.i, j |-> s.j, k |-> s.k - 1], base)
ThreeWay(a, base, size) ==
    LET j == FromRight(a, base, size - 1)
        turn[n \in 0..size] ==
            IF n = 0 THEN [a |-> a, i |-> FromLeft(a, base, size, 1), j |-> j, k |-> j]
            ELSE ScanMiddle(turn[n - 1], base)
        last == turn[size]
    IN <<last.a, last.i, last.j + 1>>

(* The array with the pivot in place, the size of the left part, and the   *)
(* begin of the right one.                                                 *)
Partition(a, base, size, div, chunk) ==
    LET Split(b, three) == IF three /\ div < _MAX_NUM_TASKS_PER_CORE
                           THEN ThreeWay(b, base, size) ELSE TwoWay(b, base, size)
        Around(pivot) == Split(Swap(a, base, pivot[1]), pivot[2])
        Placed(split) == <<Swap(split[1], base, base + split[2] - 1), split[2] - 1, split[3]>>
    IN Placed(Around(_Select_median_pivot(a, base, size, chunk)))

(* left is how much deeper the recursion may go.  slow: the left part is   *)
(* sorted before the right one starts, which then finds its number of      *)
(* tasks halved once more.                                                 *)
_Parallel_quicksort_impl(array, first, length, tasks, chunk, slow) ==
    LET sort[left \in 0.._SORT_MAX_RECURSION_DEPTH] ==
          [p \in Seq(Int) \X Nat \X Nat \X Nat |->
            LET a == p[1] base == p[2] size == p[3] div == p[4]
                next == div \div 2
                Lower(part) == sort[left - 1][<<part[1], base, part[2], next>>]
                Both(part) == sort[left - 1][<<Lower(part), base + part[3], size - part[3],
                    IF slow /\ div < _MAX_NUM_TASKS_PER_CORE THEN next \div 2 ELSE next>>]
            IN IF \/ left = 0 \/ size <= chunk \/ size <= 3
                  \/ chunk >= _FINE_GRAIN_CHUNK_SIZE /\ div <= 1
               THEN StdSort(a, base, size)
               ELSE Both(Partition(a, base, size, div, chunk))]
    IN sort[_SORT_MAX_RECURSION_DEPTH][<<array, first, length, tasks>>]

-----------------------------------------------------------------------------
(* The merges.                                                             *)
Prefix(s, n) == SubSeq(s, 1, n)
Suffix(s, n) == SubSeq(s, n + 1, Len(s))

(* The places that are left in the two, from and below to.                 *)
MidPoint(p, s, t, half) ==
    LET m == (p.from1 + p.to1) \div 2
        n == (p.from2 + p.to2) \div 2
    IN IF ~(p.from1 < p.to1 /\ p.from2 < p.to2) THEN p
       ELSE IF s[m + 1] < t[n + 1]
            THEN IF m + n < half THEN [p EXCEPT !.from1 = m + 1] ELSE [p EXCEPT !.to2 = n]
            ELSE IF m + n < half THEN [p EXCEPT !.from2 = n + 1] ELSE [p EXCEPT !.to1 = m]
_Search_mid_point(s, t) ==
    LET half == (Len(s) + Len(t)) \div 2
        turn[n \in 0..Len(s) + Len(t)] ==
            IF n = 0 THEN [from1 |-> 0, to1 |-> Len(s), from2 |-> 0, to2 |-> Len(t)]
            ELSE MidPoint(turn[n - 1], s, t, half)
        last == turn[Len(s) + Len(t)]
    IN IF last.from1 = last.to1 THEN <<last.to1, half - last.to1>>
       ELSE <<half - last.to2, last.to2>>

(* One element of one of the two is moved; i and k are moved already.      *)
MoveOne(m, s, t) ==
    IF m.i = Len(s) \/ m.k = Len(t) THEN m
    ELSE IF s[m.i + 1] < t[m.k + 1]
         THEN [i |-> m.i + 1, k |-> m.k, out |-> Append(m.out, s[m.i + 1])]
         ELSE [i |-> m.i, k |-> m.k + 1, out |-> Append(m.out, t[m.k + 1])]
Moved(s, t) ==
    LET turn[n \in 0..Len(s) + Len(t)] ==
            IF n = 0 THEN [i |-> 0, k |-> 0, out |-> <<>>] ELSE MoveOne(turn[n - 1], s, t)
    IN turn[Len(s) + Len(t)]

(* Mutant: what is left of the second is not copied.                       *)
MutMergeChunks(s, t) == LET last == Moved(s, t) IN last.out \o Suffix(s, last.i)

_Merge_chunks(s, t) ==
    LET last == Moved(s, t)
    IN last.out \o IF last.i # Len(s) THEN Suffix(s, last.i) ELSE Suffix(t, last.k)

_Parallel_merge(left, right, tasks) ==
    LET merge[div \in 0..tasks] ==
          [p \in Seq(Int) \X Seq(Int) |->
            LET s == p[1] t == p[2] mid == _Search_mid_point(s, t)
            IN IF div <= 1 \/ (Len(s) <= 1 /\ Len(t) <= 1) THEN _Merge_chunks(s, t)
               ELSE merge[div \div 2][<<Prefix(s, mid[1]), Prefix(t, mid[2])>>]
                      \o merge[div \div 2][<<Suffix(s, mid[1]), Suffix(t, mid[2])>>]]
    IN merge[tasks][<<left, right>>]

(* The longer one is split in its middle, the other by std::lower_bound.   *)
Longer(s, t) == IF Len(s) < Len(t) THEN t ELSE s
Shorter(s, t) == IF Len(s) < Len(t) THEN s ELSE t
LowerBound(s, x) == Cardinality({i \in DOMAIN s : s[i] < x})
PairsOf(size) == {p \in Seq(Int) \X Seq(Int) : Len(p[1]) + Len(p[2]) = size}
parallel_merge(left, right) ==
    LET merge[size \in 0..Len(left) + Len(right)] ==
          [p \in PairsOf(size) |->
            LET s == Longer(p[1], p[2])
                t == Shorter(p[1], p[2])
                mid == Len(s) \div 2
                m2 == LowerBound(t, s[mid + 1])
            IN IF Len(t) < MergeThreshold THEN StdMerge(p[1], p[2])
               ELSE merge[mid + m2][<<Prefix(s, mid), Prefix(t, m2)>>]
                      \o merge[size - (mid + m2)][<<Suffix(s, mid), Suffix(t, m2)>>]]
    IN merge[Len(left) + Len(right)][<<left, right>>]

-----------------------------------------------------------------------------
(* The buffered sort.  m is <<the array, the buffer>>; the second value is *)
(* TRUE when the sorted range is in the buffer (the comment at :2115 has   *)
(* it the other way round).                                                *)
(* In the places that are even the mask of the code keeps a bit of cores   *)
(* or of its double: of every two bits of the double one, whether any is.  *)
Align(cores) ==
    LET masked[x \in 0..2 * cores] ==
            IF x = 0 THEN 0 ELSE (IF x % 4 = 0 THEN 0 ELSE 1) + 4 * masked[x \div 4]
    IN masked[2 * cores]

(* Mutant: the turns that are left are not counted.                        *)
MutTurns(div) == 0

LeftTurns(div) ==
    LET turns[d \in 0..div] == IF d \div 2 = 0 THEN 0 ELSE 1 + turns[d \div 2]
    IN turns[div]

_Parallel_buffered_sort_impl(buffers, first, length, tasks, chunk) ==
    LET sort[div \in 0..tasks] ==
          [p \in (Seq(Int) \X Seq(Int)) \X Nat \X Nat |->
            LET m == p[1] base == p[2] size == p[3]
                mid == size \div 2
                Left(a) == IF LeftTurns(div) % 2 = 1
                           THEN <<<<a, Put(m[2], base, Part(a, base, size))>>, TRUE>>
                           ELSE <<<<a, m[2]>>, FALSE>>
                Merged(from) == _Parallel_merge(Part(from, base, mid),
                                                Part(from, base + mid, size - mid), div)
                Halves(lower) == sort[div \div 2][<<lower[1], base + mid, size - mid>>]
                Whole(upper) ==
                    LET b == upper[1]
                    IN IF upper[2] THEN <<<<Put(b[1], base, Merged(b[2])), b[2]>>, FALSE>>
                       ELSE <<<<b[1], Put(b[2], base, Merged(b[1]))>>, TRUE>>
            IN IF div <= 1 \/ size <= chunk
               THEN Left(_Parallel_quicksort_impl(m[1], base, size, _MAX_NUM_TASKS_PER_CORE,
                                                  chunk, FALSE))
               ELSE Whole(Halves(sort[div \div 2][<<m, base, mid>>]))]
    IN sort[tasks][<<buffers, first, length>>]

-----------------------------------------------------------------------------
(* The radix sort.  Its elements are pairs of a key and an identity.       *)
(* A shift by n digits divides by Power(n).                                *)
Power(n) == LET power[k \in 0..n] == IF k = 0 THEN 1 ELSE Base * power[k - 1] IN power[n]
_Radix_key(x, radix) == (x[1] \div Power(radix)) % Base

(* Thread n of the threads works on this segment of the range.             *)
Segment(size, threads, n) ==
    LET step == size \div threads
        remain == size % threads
        first == IF n < remain THEN n * (step + 1)
                 ELSE remain * (step + 1) + (n - remain) * step
    IN first..(first + (IF n < remain THEN step + 1 ELSE step)) - 1

(* Where the counters of thread n end for digit d, after the sums across   *)
(* all digits and threads; moving the elements from the last to the first  *)
(* gives an element its place.                                             *)
ChunkEnd(a, base, size, radix, threads, n, d) ==
    Cardinality({i \in 0..size - 1 :
        LET e == _Radix_key(a[base + i], radix)
        IN e < d \/ (e = d /\ \E m \in 0..n : i \in Segment(size, threads, m))})

Place(a, base, size, radix, threads, n, i) ==
    LET d == _Radix_key(a[base + i], radix)
    IN ChunkEnd(a, base, size, radix, threads, n, d) - 1
         - Cardinality({k \in Segment(size, threads, n) :
                            k > i /\ _Radix_key(a[base + k], radix) = d})

(* One pass: what is at base in b, the other buffer, afterwards.           *)
Pass(a, b, base, size, radix, threads) ==
    LET n(i) == CHOOSE n \in 0..threads - 1 : i \in Segment(size, threads, n)
        from(k) == CHOOSE i \in 0..size - 1 :
                      Place(a, base, size, radix, threads, n(i), i) = k
    IN Put(b, base, [k \in 1..size |-> a[base + from(k - 1)]])
_Integer_radix_pass(a, b, base, size, radix) == Pass(a, b, base, size, radix, 1)

(* m is the two buffers, at is the one that holds the range.               *)
OtherBuffer(at) == 3 - at
Passes(m, at, base, size, radix) ==
    LET turn[n \in 0..radix + 1] ==
            IF n = 0 THEN [m |-> m, at |-> at]
            ELSE LET s == turn[n - 1] to == OtherBuffer(s.at)
                 IN [m |-> [s.m EXCEPT ![to] = _Integer_radix_pass(s.m[s.at], @, base, size,
                                                                   n - 1)],
                     at |-> to]
    IN turn[radix + 1]

IsMoved(radix, deep) == (deep + radix + 1) % 2 = 1
_Integer_radix_sort(m, at, base, size, radix, deep) ==
    LET sorted == Passes(m, at, base, size, radix)
        from == sorted.at
    IN IF size = 0 THEN m
       ELSE IF IsMoved(radix, deep)
            THEN [sorted.m EXCEPT ![OtherBuffer(from)] = Put(@, base, Part(sorted.m[from], base, size))]
            ELSE sorted.m

(* The places of the range whose digit is less than d, in the sums of the  *)
(* counters: where the chunk of d begins.                                  *)
ChunkBegin(a, base, size, radix, d) ==
    Cardinality({i \in 0..size - 1 : _Radix_key(a[base + i], radix) < d})

Elements == Nat \X Nat
_Parallel_integer_radix_sort(buffers, length, highest, threads, chunk) ==
    LET sort[radix \in 0..highest] ==
          [p \in (Seq(Elements) \X Seq(Elements)) \X (1..2) \X Nat \X Nat \X Nat |->
            LET m == p[1] at == p[2] base == p[3] size == p[4] deep == p[5]
                a == m[at]
                to == OtherBuffer(at)
                start(d) == ChunkBegin(a, base, size, radix, d)
                chunks[n \in 0..Base] ==
                    IF n = 0 THEN [m EXCEPT ![to] = Pass(a, @, base, size, radix, threads)]
                    ELSE sort[radix - 1][<<chunks[n - 1], to, base + start(n - 1),
                                           start(n) - start(n - 1), deep + 1>>]
            IN IF size <= chunk \/ radix < 1
               THEN _Integer_radix_sort(m, at, base, size, radix, deep)
               ELSE IF Cardinality({_Radix_key(a[base + i], radix) : i \in 0..size - 1}) > 1
                    THEN chunks[Base]
                    ELSE sort[radix - 1][<<m, at, base, size, deep>>]]
    IN sort[highest][<<buffers, 1, 1, length, 0>>]

HighestDigit(max) ==
    LET digits[x \in 0..max] == IF x \div Base = 0 THEN 0 ELSE 1 + digits[x \div Base]
    IN digits[max]
_Parallel_integer_sort_asc(m, size, threads, chunk) ==
    LET max == Max({m[1][i][1] : i \in DOMAIN m[1]})
    IN _Parallel_integer_radix_sort(m, size, HighestDigit(max), threads, chunk)

(* _Radix_sort_default_function, with digits of Base and a given width.    *)
Unsigned(x, width) == (Power(width) \div 2 + x) % Power(width)

-----------------------------------------------------------------------------
(* Reductions and partial sums.                                            *)
(* The chunks of _Parallel_reduce_random_executor: every core one, the     *)
(* first ones longer; and of the forward iterators: one after the other.   *)
ChunkStart(size, cores, n) == (size \div cores) * n + Min({n, size % cores})

(* Mutant: the remainder is not in the start of a chunk.                   *)
MutChunkOf(size, cores, n) == (size \div cores) * n + 1..
                              IF n = cores - 1 THEN size ELSE ChunkStart(size, cores, n + 1)

ChunkOf(size, cores, n) == ChunkStart(size, cores, n) + 1..
                           IF n = cores - 1 THEN size ELSE ChunkStart(size, cores, n + 1)
ForwardChunk(size, n) == n * BatchSize + 1..Min({(n + 1) * BatchSize, size})
_Parallel_reduce_random_executor(size, cores) ==
    [n \in 1..cores |-> ChunkOf(size, cores, n - 1)]
_Parallel_reduce_forward_executor(size) ==
    [n \in 1..(size + BatchSize - 1) \div BatchSize |-> ForwardChunk(size, n - 1)]

(* The function is concatenation, which is associative and no more.        *)
_Parallel_reduce_fixed_worker(s, places, id) ==
    FoldLeft(\o, id, SubSeq(s, Min(places \cup {Len(s) + 1}), Max(places \cup {0})))

_Serial_combine_release(buckets) ==
    FoldLeft(LAMBDA ret, cur : cur \o ret, buckets[1], Tail(buckets))

(* A worker's bucket is pushed to the front of the list when it is made.   *)
_Parallel_reduce_impl(s, chunks, id) ==
    _Serial_combine_release(
        Reverse([n \in DOMAIN chunks |->
                    _Parallel_reduce_fixed_worker(s, chunks[n], id)]))
parallel_reduce(s, cores, forward, id) ==
    LET chunks == CASE forward                  -> _Parallel_reduce_forward_executor(Len(s))
                    [] ~forward /\ Len(s) = 1 -> <<{1}>>
                    [] OTHER                    -> _Parallel_reduce_random_executor(Len(s), cores)
    IN  IF s = <<>> THEN id ELSE _Parallel_reduce_impl(s, chunks, id)

(* Those at begin + k * 2 * skip + after, for the first n of the k, get    *)
(* what is skip before them.                                               *)
PairsSummed(a, begin, skip, after, n) ==
    [i \in DOMAIN a |-> IF \E k \in 0..n - 1 : i = begin + k * 2 * skip + after
                        THEN a[i - skip] \o a[i] ELSE a[i]]
parallel_partial_sum_impl_recursive(s) ==
    LET scan[size \in 0..Len(s)] ==
          [p \in Seq(Seq(Int)) \X Nat \X Nat |->
            LET a == p[1] begin == p[2] skip == p[3]
                half == size \div 2
                pairs == PairsSummed(a, begin, skip, skip, half)
                inner == scan[half][<<pairs, begin + skip, skip * 2>>]
            IN IF size <= 1 THEN a
               ELSE PairsSummed(inner, begin, skip, 2 * skip,
                             IF size % 2 = 0 THEN half - 1 ELSE half)]
    IN scan[Len(s)][<<s, 1, 1>>]

(* The function is applied to the element first and then to the sum of the *)
(* chunks before it: right when it commutes, as + does.                    *)
parallel_partial_sum_impl(s, cores) ==
    LET chunks == 2 * cores
        size == Len(s) \div chunks
        places(n) == n * size + 1..IF n = chunks - 1 THEN Len(s) ELSE (n + 1) * size
        of(i) == CHOOSE n \in 0..chunks - 1 : i \in places(n)
        inside(i) == FoldLeft(+, 0, SubSeq(s, Min(places(of(i))), i))
        sums == StdPartialSum([n \in 1..chunks |-> inside(Max(places(n - 1)))])
    IN IF Len(s) < chunks THEN StdPartialSum(s)
       ELSE [i \in DOMAIN s |-> inside(i) + (IF of(i) = 0 THEN 0 ELSE sums[of(i)])]

-----------------------------------------------------------------------------
(* Loops and predicates.                                                   *)
(* The iterations of parallel_for_fixed, divided at cut; the loop index of *)
(* a chunk is scaled by the step.                                          *)
Iterations(range, step) == IF step # 1 THEN (range - 1) \div step + 1 ELSE range

fixed_chunk(first, step, from, to) == {first + i * step : i \in from..to - 1}
parallel_for_impl(first, last, step, cut) ==
    LET n == Iterations(last - first, step)
    IN IF first >= last THEN {}
       ELSE IF last - first <= step THEN {first}
       ELSE fixed_chunk(first, step, 0, Min({cut, n}))
              \cup fixed_chunk(first, step, Min({cut, n}), n)

(* Over iterators that only go forward: a batch of elements, which a task  *)
(* takes, and a task that does the same with what is left.                 *)
Batch(first, last) == first..Min({first + BatchSize, last}) - 1

parallel_for_each_forward_impl(first, last) ==
    LET tasks[left \in 1..last - first] ==
            LET batch == Batch(last - left, last)
                next == left - Cardinality(batch)
            IN <<batch>> \o IF next = 0 THEN <<>> ELSE tasks[next]
    IN tasks[last - first]

(* The inputs at firsts, one or two, go to the output at result.  The      *)
(* value is the places that are read and written, and where the output     *)
(* ends.                                                                   *)
Stores(firsts, result_, len) ==
    {[from |-> [k \in DOMAIN firsts |-> firsts[k] + i], to |-> result_ + i] : i \in 0..len - 1}
_Parallel_transform_impl(firsts, last, result_) ==
    <<Stores(firsts, result_, last - firsts[1]), result_ + last - firsts[1]>>

(* Mutant: only the first input is advanced.                               *)
MutPopulate(firsts, len) == [firsts EXCEPT ![1] = @ + len]

(* _Populate advances an iterator, of either kind, by the batch.           *)
_Populate(firsts, len) == [k \in DOMAIN firsts |-> firsts[k] + len]
TransformBatch(s, last) ==
    LET len == Cardinality(Batch(s.firsts[1], last))
    IN IF s.firsts[1] = last THEN s
       ELSE [firsts |-> _Populate(s.firsts, len), result |-> s.result + len,
             stores |-> s.stores \cup Stores(s.firsts, s.result, len)]
_Parallel_transform_impl2(firsts, last, result_) ==
    LET turn[n \in 0..last - firsts[1]] ==
            IF n = 0 THEN [firsts |-> firsts, result |-> result_, stores |-> {}]
            ELSE TransformBatch(turn[n - 1], last)
        end == turn[last - firsts[1]]
    IN <<end.stores, end.result>>

(* ran are the elements whose predicate was called before the tasks were   *)
(* canceled, or all of them; trues are those for which it holds.           *)
parallel_all_of(ran, trues) == ran \subseteq trues
parallel_any_of(ran, trues) == ran \cap trues # {}
parallel_none_of(ran, trues) == ran \cap trues = {}

(* The counters of the threads, each of which ran a part.                  *)
parallel_count_if(all, trues, mine) ==
    Cardinality((all \cap mine) \cap trues) + Cardinality((all \ mine) \cap trues)

-----------------------------------------------------------------------------
(* What the callers have to bring: inputs that are sorted where they are   *)
(* merged, a step that is not 0, and integers that fit their width.        *)
Ascending(s) == \A i, k \in DOMAIN s : i <= k => s[i] <= s[k]

ASSUME CallsAssumption == \A c \in Calls :
    /\ c.op \in {"sort", "buffered_sort", "radixsort"} =>
           c.input \in Seq(Int) /\ c.cores \in Nat \ {0} /\ c.chunk \in Nat
    /\ c.op = "radixsort" =>
           /\ c.width \in Nat
           /\ \A x \in ToSet(c.input) : Power(c.width) \div 2 + x \in 0..Power(c.width) - 1
    /\ c.op \in {"merge", "merge_tasks", "mid"} =>
           /\ c.left \in Seq(Int) /\ c.right \in Seq(Int)
           /\ Ascending(c.left) /\ Ascending(c.right)
    /\ c.op = "merge_tasks" => c.div \in Nat
    /\ c.op \in {"reduce", "partial_sum"} => c.input \in Seq(Seq(Int))
    /\ c.op = "partial_sum_fixed" => c.input \in Seq(Int)
    /\ c.op \in {"reduce", "partial_sum_fixed"} => c.cores \in Nat \ {0}
    /\ c.op \in {"for", "for_each"} => c.first \in Int /\ c.last \in Int
    /\ c.op = "for" => c.step \in Nat \ {0} /\ c.cut \in Nat
    /\ c.op = "for_each" => c.first <= c.last
    /\ c.op = "transform" =>
           /\ c.firsts \in Seq(Int) /\ Len(c.firsts) \in 1..2 /\ c.last \in Int
           /\ c.firsts[1] <= c.last
    /\ c.op \in {"predicates", "count_if"} => c.size \in Nat
    /\ c.op = "predicates" => c.pred \in {"all", "any", "none"}

-----------------------------------------------------------------------------
(* A call is examined: it returns.                                         *)
AlgorithmsInit == /\ call \in Calls
                  /\ result = <<>>

Returns(op, value) == /\ call.op = op
                      /\ result = <<>>
                      /\ result' = <<value>>
                      /\ UNCHANGED call

(* A sort in a group of tasks that is being canceled does not begin.       *)
parallel_sort ==
    LET a == call.input
    IN Returns("sort",
         IF call.canceling THEN a
         ELSE IF Len(a) <= call.chunk \/ call.cores < 2 THEN StdSort(a, 1, Len(a))
         ELSE _Parallel_quicksort_impl(a, 1, Len(a),
                call.cores * _MAX_NUM_TASKS_PER_CORE, call.chunk, call.slow))

parallel_buffered_sort ==
    LET a == call.input
    IN Returns("buffered_sort",
         IF call.canceling THEN a
         ELSE IF Len(a) <= call.chunk \/ call.cores < 2 THEN StdSort(a, 1, Len(a))
         ELSE _Parallel_buffered_sort_impl(<<a, a>>, 1, Len(a),
                                           Align(call.cores), call.chunk)[1][1])

parallel_radixsort ==
    LET a == [i \in DOMAIN call.input |-> <<Unsigned(call.input[i], call.width), i>>]
    IN Returns("radixsort",
         IF call.canceling \/ Len(a) <= 1 THEN a
         ELSE _Parallel_integer_sort_asc(<<a, a>>, Len(a),
                                         call.cores, call.chunk)[1])

Merge == \/ Returns("merge", parallel_merge(call.left, call.right))
         \/ Returns("merge_tasks", _Parallel_merge(call.left, call.right, call.div))
Search == Returns("mid", _Search_mid_point(call.left, call.right))

Reduce == Returns("reduce",
    parallel_reduce(call.input, call.cores, call.forward, <<>>))
PartialSum ==
    \/ Returns("partial_sum", parallel_partial_sum_impl_recursive(call.input))
    \/ Returns("partial_sum_fixed", parallel_partial_sum_impl(call.input, call.cores))

For == Returns("for", parallel_for_impl(call.first, call.last, call.step, call.cut))
ForEach == Returns("for_each",
    IF call.first = call.last THEN <<>>
    ELSE parallel_for_each_forward_impl(call.first, call.last))
parallel_transform == Returns("transform",
    IF call.firsts[1] = call.last THEN <<{}, 0>>
    ELSE IF call.random THEN _Parallel_transform_impl(call.firsts, call.last, 0)
         ELSE _Parallel_transform_impl2(call.firsts, call.last, 0))

Predicates ==
    /\ call.op = "predicates"
    /\ \E ran \in SUBSET (1..call.size) :
           /\ ran # 1..call.size =>
                 CASE call.pred = "all" -> ~(ran \subseteq call.trues)
                   [] OTHER             -> ran \cap call.trues # {}
           /\ Returns("predicates",
                 CASE call.pred = "all"   -> parallel_all_of(ran, call.trues)
                   [] call.pred = "any"   -> parallel_any_of(ran, call.trues)
                   [] call.pred = "none"  -> parallel_none_of(ran, call.trues))
Count == /\ call.op = "count_if"
         /\ \E mine \in SUBSET (1..call.size) :
               Returns("count_if", parallel_count_if(1..call.size, call.trues, mine))

AlgorithmsNext == \/ parallel_sort \/ parallel_buffered_sort \/ parallel_radixsort
        \/ Merge \/ Search \/ Reduce \/ PartialSum \/ For \/ ForEach
        \/ parallel_transform
        \/ Predicates \/ Count

AlgorithmsSpec == AlgorithmsInit /\ [][AlgorithmsNext]_algorithmsVars

-----------------------------------------------------------------------------
Returned == result # <<>>
value == result[1]

(* The sorts sort, in place, for any number of cores and however their     *)
(* tasks are divided; no scan of a partition leaves its range.  The radix  *)
(* sort is stable, which its comment promises, ends in the caller's array  *)
(* whatever the number of digits, and negative numbers come first.         *)
SortsInput ==
    /\ Returned /\ call.op \in {"sort", "buffered_sort"} /\ ~call.canceling =>
        value = InOrder(call.input)
    /\ Returned /\ call.op = "radixsort" /\ ~call.canceling =>
        /\ {value[i][2] : i \in DOMAIN value} = DOMAIN value
        /\ \A i \in DOMAIN value : i + 1 \in DOMAIN value =>
              LET x == call.input[value[i][2]]
                  y == call.input[value[i + 1][2]]
              IN x < y \/ (x = y /\ value[i][2] < value[i + 1][2])

(* Both parallel merges merge, wherever they split.  The two middle points *)
(* where they split: half of all elements are to their left, and none of   *)
(* these is greater than one to their right.                               *)
MergesAll ==
    /\ Returned /\ call.op \in {"merge", "merge_tasks"} =>
        value = InOrder(call.left \o call.right)
    /\ Returned /\ call.op = "mid" =>
        /\ value[1] \in 0..Len(call.left) /\ value[2] \in 0..Len(call.right)
        /\ value[1] + value[2] = (Len(call.left) + Len(call.right)) \div 2
        /\ \A x \in ToSet(Prefix(call.left, value[1]) \o Prefix(call.right, value[2])) :
               \A y \in ToSet(Suffix(call.left, value[1]) \o Suffix(call.right, value[2])) :
                   x <= y

(* A reduction applies the function to all elements in their order, with   *)
(* any number of cores, and so does the recursive partial sum.  The fixed  *)
(* one does for a function that commutes.  A count is the sum of what the  *)
(* threads have counted, whoever counts an element.                        *)
FoldsInOrder ==
    /\ Returned /\ call.op = "reduce" => value = FlattenSeq(call.input)
    /\ Returned /\ call.op = "partial_sum" => value = [i \in DOMAIN call.input |->
                                                        FlattenSeq(Prefix(call.input, i))]
    /\ Returned /\ call.op = "partial_sum_fixed" => value = StdPartialSum(call.input)
    /\ Returned /\ call.op = "count_if" =>
           value = Cardinality(call.trues \cap (1..call.size))

(* A parallel loop runs its body for first, first + step, ... before last; *)
(* over batches, for each element once, and each input, of one sequence or *)
(* of two, goes to the output of its place.  The elements that all_of,     *)
(* any_of and none_of leave out when they cancel the loop do not change    *)
(* the answer.                                                             *)
VisitsAll ==
    /\ Returned /\ call.op = "for" =>
           value = {x \in call.first..call.last - 1 : (x - call.first) % call.step = 0}
    /\ Returned /\ call.op = "for_each" =>
           /\ UNION ToSet(value) = call.first..call.last - 1
           /\ \A i, j \in DOMAIN value : i # j => value[i] \cap value[j] = {}
    /\ Returned /\ call.op = "transform" =>
           LET size == call.last - call.firsts[1]
           IN value = <<Stores(call.firsts, 0, size), size>>
    /\ Returned /\ call.op = "predicates" =>
           value = CASE call.pred = "all"  -> \A i \in 1..call.size : i \in call.trues
                      [] call.pred = "any"  -> \E i \in 1..call.size : i \in call.trues
                      [] call.pred = "none" -> \A i \in 1..call.size : i \notin call.trues

=============================================================================

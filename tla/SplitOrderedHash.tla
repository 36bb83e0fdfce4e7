--------------------------- MODULE SplitOrderedHash ---------------------------
(***************************************************************************)
(* Include/ConcRTExtras/internal_concurrent_hash.h over the lock-free list *)
(* of internal_split_ordered_list.h: concurrent_unordered_map, _multimap,  *)
(* _set and _multiset.  All elements are in one list, ordered by the       *)
(* reversed bits of their hash; a bucket is a pointer to a dummy node in   *)
(* it, made when the bucket is first needed.                               *)
(*                                                                         *)
(* One action is one access to a shared field: a next pointer, a bucket, a *)
(* segment, the number of buckets, the number of elements.  A node is      *)
(* known by its order key, its value and the call that made it.  Calls     *)
(* that are not safe for concurrent use are made when no other runs.       *)
(***************************************************************************)
EXTENDS Integers, Sequences, FiniteSets

CONSTANTS Threads, Keys,
          Hash,              \* the hash function, of Bits bits
          Bits,              \* width of _Map_key and of _Split_order_key
          InitialBuckets,    \* what the constructors are given
          MaxBucketSize,     \* max_load_factor
          Filling,           \* bound: the keys that are inserted first, in order
          MaxCalls,          \* bound: calls in a behaviour, those included
          NoKey, Null

ASSUME ThreadsAssumption == IsFiniteSet(Threads)
ASSUME HashAssumption == Bits \in Nat \ {0, 1} /\ Hash \in [Keys -> 0..2^Bits - 1]
ASSUME SizesAssumption ==
    /\ InitialBuckets # {} /\ InitialBuckets \subseteq 1..2^(Bits - 1)
    /\ MaxBucketSize \in Nat /\ MaxCalls \in Nat /\ Filling \in Seq(Keys)
    /\ NoKey \notin Keys

ASSUME NullAssumption == Null \notin [order : Nat, val : Keys \cup {NoKey}, no : Nat]

(* The order keys are wide enough for all the elements: otherwise the      *)
(* table would double until its buckets have no keys of their own left.    *)
ASSUME WidthAssumption == MaxCalls <= MaxBucketSize * 2^(Bits - 1)

VARIABLES next,              \* _M_next of the nodes in the list
          buckets, segments, \* _M_buckets: the slots, and what is allocated
          numberOfBuckets, elementCount,
          multimapping,      \* _M_allow_multimapping: map or multimap
          at, call,          \* per thread: where it is, and its locals
          calls              \* how many calls have been made (or left out)
list   == <<next, elementCount>>
table  == <<buckets, segments, numberOfBuckets>>
hashVars   == <<list, table, multimapping, at, call, calls>>

-----------------------------------------------------------------------------
(* Keys and buckets.                                                       *)
Bit(x, i)  == (x \div 2^i) % 2
Slots      == 0..2^Bits - 1

(* The lowest w bits of a number, in reverse.                              *)
Reversed[w \in 0..Bits] ==
    [x \in Slots |-> IF w = 0 THEN 0 ELSE 2 * Reversed[w - 1][x] + Bit(x, w - 1)]
BitReverse(x) == Reversed[Bits][x]
Regular(h) == (BitReverse(h) \div 2) * 2 + 1
Dummy(b)   == (BitReverse(b) \div 2) * 2

(* The number of buckets is taken as it is.                                *)
MutNoRounding(n) == n

Msb(x)       == CHOOSE i \in 0..Bits : 2^i <= x /\ x < 2^(i + 1)
Parent(b)    == b - 2^Msb(b)
RoundUp(n)   == 2^Msb(2 * n - 1)          \* what rehash makes of a number
SegmentOf(b) == IF b = 0 THEN 0 ELSE Msb(b)

Node(o, v, t) == [order |-> o, val |-> v, no |-> call[t].no]
MyhHead       == [order |-> 0, val |-> NoKey, no |-> 0]
IsDummy(n)    == n.order % 2 = 0

Nodes     == DOMAIN next
Elements  == {n \in Nodes : ~IsDummy(n)}
OfKey(k)  == {n \in Elements : n.val = k}
IsInitialized(b) == SegmentOf(b) \in segments /\ buckets[b] # Null

(* The locals of a call: the key, its bucket, the chain of buckets to make *)
(* ready, the last of which is bucket; the two iterators; what was found;  *)
(* and, as history, what was in the container when the call began.         *)
NoCall == [op |-> "none", no |-> 0, key |-> NoKey, bucket |-> 0, chain |-> <<>>,
           iter |-> Null, where |-> Null, found |-> {}, size |-> 0,
           before |-> {}]

HashInit == /\ next = [n \in {MyhHead} |-> Null]
            /\ segments = {0}
            /\ buckets = [b \in Slots |-> IF b = 0 THEN MyhHead ELSE Null]
            /\ numberOfBuckets \in {RoundUp(n) : n \in InitialBuckets}
            /\ elementCount = 0
            /\ multimapping \in BOOLEAN
            /\ at = [t \in Threads |-> "idle"]
            /\ call = [t \in Threads |-> NoCall]
            /\ calls \in {0, Len(Filling)}

Goto(t, from, to) == at[t] = from /\ at' = [at EXCEPT ![t] = to]
Iterate(t, n)     == call' = [call EXCEPT ![t].iter = n, ![t].where = next[n]]

-----------------------------------------------------------------------------
(* Mutants: plausible mistakes in the code, for the model to detect.       *)

(* The search goes on behind what another thread has put in.               *)
MutRetryBehind(t) ==
    LET n == next[call[t].iter]
    IN  call' = [call EXCEPT ![t].iter = n, ![t].where = next[n]]

(* A failed insertion is tried again as it was.                            *)
MutRetryAsIs(t) == UNCHANGED call

(* A bucket that is not there is taken for empty.                          *)
MutClimbNothing(t) ==
    LET b == call[t].bucket
    IN  /\ at[t] = "climb"
        /\ at' = [at EXCEPT ![t] = "search"]
        /\ IF IsInitialized(b) THEN Iterate(t, buckets[b])
                               ELSE call' = [call EXCEPT ![t].where = Null]
        /\ UNCHANGED <<list, table, multimapping, calls>>

-----------------------------------------------------------------------------
(* Calls begin.  Finding through a const container does not make buckets.  *)
Safe   == {"insert", "find", "const_find", "equal_range", "iterate", "subscript"}
Unsafe == {"erase", "unsafe_end"}
Alone(t) == \A u \in Threads \ {t} : at[u] = "idle"
Allowed(t, o, k) ==
    /\ o = "subscript" => ~multimapping
    /\ o \in Unsafe => Alone(t)
    /\ \A u \in Threads : at[u] # "idle" => call[u].op \notin Unsafe
    /\ calls <= Len(Filling) => Alone(t)
    /\ calls < Len(Filling) => o = "insert" /\ k = Filling[calls + 1]

Begin(t, o, k) ==
    LET b == Hash[k] % numberOfBuckets
    IN  /\ calls < MaxCalls /\ Allowed(t, o, k)
        /\ calls' = calls + 1
        /\ Goto(t, "idle", CASE o = "const_find" -> "climb"
                             [] o = "iterate"    -> "begin"
                             [] OTHER            -> "bucket")
        /\ call' = [call EXCEPT ![t] = [NoCall EXCEPT
              !.op = o, !.no = calls + 1,
              !.key = IF o \in {"iterate", "unsafe_end"} THEN NoKey ELSE k,
              !.bucket = IF o \in {"const_find", "unsafe_end"} THEN b ELSE 0,
              !.chain = CASE o \in {"const_find", "iterate"} -> <<>>
                          [] o = "unsafe_end" -> <<numberOfBuckets \div 2>>
                          [] OTHER            -> <<b>>,
              !.before = CASE o \in {"find", "const_find", "equal_range"} -> OfKey(k)
                           [] o = "iterate" -> Elements
                           [] OTHER         -> {}]]
        /\ UNCHANGED <<list, table, multimapping>>

(* _Find const: up to the next bucket that is there.                       *)
Climb(t) ==
    LET b == call[t].bucket
    IN  /\ at[t] = "climb"
        /\ IF IsInitialized(b)
           THEN at' = [at EXCEPT ![t] = "search"] /\ Iterate(t, buckets[b])
           ELSE /\ call' = [call EXCEPT ![t].bucket = Parent(b)]
                /\ UNCHANGED at
        /\ UNCHANGED <<list, table, multimapping, calls>>

BeginIteration(t) == /\ Goto(t, "begin", "search")
                     /\ Iterate(t, MyhHead)
                     /\ UNCHANGED <<list, table, multimapping, calls>>

-----------------------------------------------------------------------------
(* _Initialize_bucket: the parent first, then a dummy node behind its, and *)
(* a pointer to it.                                                        *)
ClimbChain(t) ==
    LET b == Head(call[t].chain)
    IN  /\ at[t] = "bucket" /\ ~IsInitialized(b)
        /\ call' = [call EXCEPT ![t].chain = <<Parent(b)>> \o @]
        /\ UNCHANGED <<list, table, multimapping, at, calls>>

(* The bucket is there: its child follows, or the search the call is for.  *)
BucketReady(t) ==
    LET chain == call[t].chain
        b == Head(chain)
    IN  /\ at[t] = "bucket" /\ IsInitialized(b)
        /\ IF Len(chain) > 1
           THEN /\ at' = [at EXCEPT ![t] = "dummy"]
                /\ call' = [call EXCEPT ![t].chain = Tail(@), ![t].iter = buckets[b],
                                        ![t].where = next[buckets[b]]]
           ELSE /\ call[t].op # "unsafe_end"
                /\ at' = [at EXCEPT ![t] = "search"]
                /\ Iterate(t, buckets[b])
        /\ UNCHANGED <<list, table, multimapping, calls>>

(* unsafe_end: every bucket of the second half of the table, and with them *)
(* all, then the one it is asked for.                                      *)
UnsafeEnd(t) ==
    LET b == Head(call[t].chain)
    IN  /\ at[t] = "bucket" /\ IsInitialized(b)
        /\ Len(call[t].chain) = 1 /\ call[t].op = "unsafe_end"
        /\ IF b + 1 < numberOfBuckets
           THEN /\ call' = [call EXCEPT ![t].chain = <<b + 1>>]
                /\ UNCHANGED at
           ELSE /\ at' = [at EXCEPT ![t] = "search"]
                /\ Iterate(t, buckets[call[t].bucket])
        /\ UNCHANGED <<list, table, multimapping, calls>>

(* _Insert of the list: the new node points to where, and goes in if iter  *)
(* still does.                                                             *)
Link(t, n) ==
    next' = [m \in Nodes \cup {n} |->
                CASE m = n            -> call[t].where
                  [] m = call[t].iter -> n
                  [] OTHER            -> next[m]]
Passed(t, o) == call[t].where # Null => call[t].where.order > o
CanLink(t)   == next[call[t].iter] = call[t].where
Retry(t)     == Iterate(t, call[t].iter)

InsertDummy(t) ==
    LET b == Head(call[t].chain)
        o == Dummy(b)
        d == Node(o, NoKey, t)
    IN  /\ at[t] = "dummy"
        /\ \/ /\ Passed(t, o) /\ CanLink(t)
              /\ Link(t, d)
              /\ at' = [at EXCEPT ![t] = "set"]
              /\ call' = [call EXCEPT ![t].where = d]
           \/ /\ Passed(t, o) /\ ~CanLink(t)
              /\ Retry(t)
              /\ UNCHANGED <<next, at>>
           \/ /\ ~Passed(t, o) /\ call[t].where.order = o
              /\ at' = [at EXCEPT ![t] = "set"]
              /\ UNCHANGED <<next, call>>
           \/ /\ ~Passed(t, o) /\ call[t].where.order # o
              /\ Iterate(t, call[t].where)
              /\ UNCHANGED <<next, at>>
        /\ UNCHANGED <<elementCount, table, multimapping, calls>>

(* _Set_bucket: a new segment is thrown away when another was faster.      *)
TestSegment(t) ==
    /\ Goto(t, "set", IF SegmentOf(Head(call[t].chain)) \in segments
                      THEN "write" ELSE "allocate")
    /\ UNCHANGED <<list, table, multimapping, call, calls>>

AllocateSegment(t) ==
    /\ Goto(t, "allocate", "write")
    /\ segments' = segments \cup {SegmentOf(Head(call[t].chain))}
    /\ UNCHANGED <<list, buckets, numberOfBuckets, multimapping, call, calls>>

WriteBucket(t) ==
    /\ Goto(t, "write", "bucket")
    /\ buckets' = [buckets EXCEPT ![Head(call[t].chain)] = call[t].where]
    /\ UNCHANGED <<list, segments, numberOfBuckets, multimapping, call, calls>>

-----------------------------------------------------------------------------
(* _Insert.                                                                *)
Order(t) == Regular(Hash[call[t].key])
Is(t, n) == n.order = Order(t) /\ n.val = call[t].key

Insert(t) ==
    LET n == Node(Order(t), call[t].key, t)
        dup == ~multimapping /\ ~Passed(t, Order(t)) /\ Is(t, call[t].where)
    IN  /\ at[t] = "search" /\ call[t].op = "insert"
        /\ \/ /\ Passed(t, Order(t)) /\ CanLink(t)
              /\ Link(t, n)
              /\ at' = [at EXCEPT ![t] = "count"]
              /\ UNCHANGED call
           \/ /\ Passed(t, Order(t)) /\ ~CanLink(t)
              /\ Retry(t)
              /\ UNCHANGED <<next, at>>
           \/ /\ dup
              /\ at' = [at EXCEPT ![t] = "return"]
              /\ call' = [call EXCEPT ![t].found = {call[t].where}]
              /\ UNCHANGED next
           \/ /\ ~Passed(t, Order(t)) /\ ~dup
              /\ Iterate(t, call[t].where)
              /\ UNCHANGED <<next, at>>
        /\ UNCHANGED <<elementCount, table, multimapping, calls>>

CountElement(t) == /\ Goto(t, "count", "adjust")
                   /\ elementCount' = elementCount + 1
                   /\ call' = [call EXCEPT ![t].size = elementCount + 1]
                   /\ UNCHANGED <<next, table, multimapping, calls>>

(* _Adjust_table_size: size holds the count, and then the number of        *)
(* buckets that was too small for it.                                      *)
TestLoad(t) ==
    /\ IF call[t].size > MaxBucketSize * numberOfBuckets
       THEN Goto(t, "adjust", "grow") /\ call' = [call EXCEPT ![t].size = numberOfBuckets]
       ELSE Goto(t, "adjust", "return") /\ UNCHANGED call
    /\ UNCHANGED <<list, table, multimapping, calls>>

Grow(t) ==
    /\ Goto(t, "grow", "return")
    /\ numberOfBuckets' = IF numberOfBuckets = call[t].size THEN 2 * numberOfBuckets
                                                            ELSE numberOfBuckets
    /\ UNCHANGED <<list, buckets, segments, multimapping, call, calls>>

-----------------------------------------------------------------------------
(* _Find and _Equal_range, a walk from begin() to end(), unsafe_end, and   *)
(* unsafe_erase of a key.  A bucket ends where the next dummy node is.     *)
Wanted(t) == CASE call[t].op = "iterate"    -> ~IsDummy(call[t].where)
               [] call[t].op = "unsafe_end" -> ~IsDummy(call[t].where)
               [] OTHER                     -> Is(t, call[t].where)

Ended(t) ==
    LET c == call[t]
    IN  CASE c.op = "iterate"    -> c.where = Null
          [] c.op = "unsafe_end" -> c.where # Null => IsDummy(c.where)
          [] c.op \in {"find", "const_find", "subscript"} -> c.found = {} => Passed(t, Order(t))
          [] OTHER -> ~Passed(t, Order(t)) => c.found # {} /\ ~Is(t, c.where)

Walk(t) ==
    LET w == call[t].where
    IN  /\ at[t] = "search" /\ call[t].op \notin {"insert", "erase"} /\ ~Ended(t)
        /\ call' = [call EXCEPT ![t].iter = w, ![t].where = next[w],
                                ![t].found = IF Wanted(t) THEN @ \cup {w} ELSE @]
        /\ UNCHANGED <<list, table, multimapping, at, calls>>

Unlink(t, n) == /\ next' = [m \in Nodes \ {n} |->
                               IF m = call[t].iter THEN next[n] ELSE next[m]]
                /\ elementCount' = elementCount - 1

Erase(t) ==
    LET w == call[t].where
    IN  /\ at[t] = "search" /\ call[t].op = "erase" /\ ~Ended(t)
        /\ \/ /\ Is(t, w)
              /\ Unlink(t, w)
              /\ call' = [call EXCEPT ![t].where = next[w], ![t].found = @ \cup {w}]
           \/ /\ ~Is(t, w)
              /\ Iterate(t, w)
              /\ UNCHANGED list
        /\ UNCHANGED <<table, multimapping, at, calls>>

(* operator[] of a map inserts what it has not found.                      *)
EndSearch(t) ==
    /\ call[t].op # "insert" /\ at[t] = "search" /\ Ended(t)
    /\ IF call[t].op = "subscript" /\ call[t].found = {}
       THEN /\ at' = [at EXCEPT ![t] = "bucket"]
            /\ call' = [call EXCEPT ![t].op = "insert",
                             ![t].chain = <<Hash[call[t].key] % numberOfBuckets>>]
       ELSE /\ at' = [at EXCEPT ![t] = "return"]
            /\ UNCHANGED call
    /\ UNCHANGED <<list, table, multimapping, calls>>

Return(t) == /\ Goto(t, "return", "idle")
             /\ call' = [call EXCEPT ![t] = NoCall]
             /\ UNCHANGED <<list, table, multimapping, calls>>

-----------------------------------------------------------------------------
Idle == \A t \in Threads : at[t] = "idle"

(* clear: the list, then the buckets, all but the first; not their number. *)
Clear == /\ Idle /\ Len(Filling) <= calls /\ calls < MaxCalls
         /\ calls' = calls + 1
         /\ next' = [n \in {MyhHead} |-> Null]
         /\ elementCount' = 0
         /\ segments' = {0}
         /\ buckets' = [b \in Slots |-> IF b = 0 THEN MyhHead ELSE Null]
         /\ UNCHANGED <<numberOfBuckets, multimapping, at, call>>

Rehash(n) == /\ Idle /\ Len(Filling) <= calls /\ calls < MaxCalls
             /\ calls' = calls + 1
             /\ n > 0 /\ numberOfBuckets <= n
             /\ numberOfBuckets' = RoundUp(n)
             /\ UNCHANGED <<list, buckets, segments, multimapping, at, call>>

Step(t) == \/ Climb(t) \/ BeginIteration(t)
           \/ ClimbChain(t) \/ BucketReady(t) \/ UnsafeEnd(t) \/ InsertDummy(t)
           \/ TestSegment(t) \/ AllocateSegment(t) \/ WriteBucket(t)
           \/ Insert(t) \/ CountElement(t) \/ TestLoad(t) \/ Grow(t)
           \/ Walk(t) \/ Erase(t) \/ EndSearch(t) \/ Return(t)

HashNext == \/ \E t \in Threads : \/ \E o \in Safe \cup Unsafe, k \in Keys : Begin(t, o, k)
                                  \/ Step(t)
            \/ Clear
            \/ \E n \in 1..2^(Bits - 1) : Rehash(n)

(* A call that has begun is scheduled; nobody is made to call.             *)
HashSpec == HashInit /\ [][HashNext]_hashVars
HashFairSpec == HashSpec /\ \A t \in Threads : WF_hashVars(Step(t))

-----------------------------------------------------------------------------
Places == {"idle", "climb", "begin", "bucket", "dummy", "set", "allocate", "write",
           "search", "count", "adjust", "grow", "return"}

(* Values of the state; a slot is a dummy node of the list, in a segment   *)
(* that is there, and with the order of its bucket.                        *)
SlotsAreDummies == /\ \A n \in Nodes : next[n] \in Nodes \cup {Null}
                   /\ \A b \in Slots : buckets[b] # Null =>
                         /\ buckets[b] \in Nodes /\ IsDummy(buckets[b])
                         /\ buckets[b].order = Dummy(b) /\ SegmentOf(b) \in segments
                   /\ numberOfBuckets \in 1..2^(Bits - 1)
                   /\ at \in [Threads -> Places]
                   /\ \A t \in Threads : call[t].iter \in Nodes \cup {Null}

(* _Check_range: the list is in the order of its keys, and one list, with  *)
(* one dummy node for a bucket, however many threads insert and make       *)
(* buckets at once.                                                        *)
SortedList ==
    \A n \in Nodes :
        /\ next[n] # Null => n.order <= next[n].order
        /\ next[n] # Null /\ IsDummy(next[n]) => n.order < next[n].order
        /\ n # MyhHead => Cardinality({m \in Nodes : next[m] = n}) = 1

(* size() is the number of elements, but for those just put in.            *)
Counted == elementCount + Cardinality({t \in Threads : at[t] = "count"})
             = Cardinality(Elements)

(* Elements of other keys may have the same order key: then _Equal_range,  *)
(* count and unsafe_erase stop at the first of them.                       *)
Collides(k) == \E n \in Elements : n.val # k /\ n.order = Regular(Hash[k])

(* _Check_range, for the whole container.                                  *)
WellFormed == SlotsAreDummies /\ SortedList /\ Counted

(* A search that began when an element was there finds it, whatever is     *)
(* inserted and however often the table grows meanwhile; a walk from       *)
(* begin() meets everything that was there.  Between a bucket's dummy node *)
(* and the next are the elements of the bucket, when all buckets are there,*)
(* after however many doublings; and an erased key is gone.                *)
FindsWhatIsThere ==
    \A t \in Threads : at[t] = "return" =>
        LET c == call[t]
        IN  /\ c.op \in {"find", "const_find"} /\ c.before # {} => c.found # {}
            /\ c.op = "equal_range" /\ ~Collides(c.key) => c.before \subseteq c.found
            /\ c.op = "iterate" => c.before \subseteq c.found
            /\ c.op = "unsafe_end" =>
                  c.found = {n \in Elements : Hash[n.val] % numberOfBuckets = c.bucket}
            /\ c.op = "erase" /\ ~Collides(c.key) => OfKey(c.key) = {}

(* The container is a set with unique keys, or a bag, whose insertions are *)
(* atomic.                                                                 *)
Abstract == INSTANCE ConcurrentSet WITH
    contents <- Elements,
    Names <- [order : {Regular(Hash[k]) : k \in Keys}, val : Keys,
              no : 1..MaxCalls]
ImplementsSet == Abstract!Spec

(* Every call returns, for an insertion is tried again only when another   *)
(* has succeeded.                                                          *)
CallsReturn == \A t \in Threads : at[t] # "idle" ~> at[t] = "idle"
=============================================================================

------------------------------ MODULE MCConcRT ------------------------------
(* TLC instances of BoundedQueue, Barrier, Tasks and PplAlgorithms, which  *)
(* have nothing to do with each other: a behaviour uses one of them, and   *)
(* the others rest.                                                        *)
EXTENDS BoundedQueue, Barrier, Tasks, PplAlgorithms

VARIABLE used

UseQueue ==
    used = "queue" /\ UNCHANGED <<barrierVars, tasksVars, algorithmsVars, used>>
UseBarrier ==
    used = "barrier" /\ UNCHANGED <<vars, tasksVars, algorithmsVars, used>>
UseTasks ==
    used = "tasks" /\ UNCHANGED <<vars, barrierVars, algorithmsVars, used>>
UseAlgorithms ==
    used = "algorithms" /\ UNCHANGED <<vars, barrierVars, tasksVars, used>>

NoCall == [op |-> "none"]

MCInit == /\ used \in {"queue", "barrier", "tasks", "algorithms"}
          /\ Init /\ BarrierInit /\ TasksInit
          /\ used # "tasks" => kind = "event" /\ watched = Ret
          /\ used = "tasks" => watched \in IF kind = "event" THEN {In(1), Ret} ELSE {Clean}
          /\ IF used = "algorithms" THEN AlgorithmsInit
                                    ELSE call = NoCall /\ result = <<>>
MCNext == \/ UseQueue /\ Next
          \/ UseBarrier /\ BarrierNext
          \/ UseTasks /\ TasksNext
          \/ UseAlgorithms /\ AlgorithmsNext

MCSpec ==
    /\ MCInit /\ [][MCNext]_<<vars, barrierVars, tasksVars, algorithmsVars, used>>
    /\ \A t \in Threads : WF_<<vars, used>>(UseQueue /\ Call(t))
    /\ WF_<<barrierVars, used>>(UseBarrier /\ SomeoneWaiting)
    /\ WF_<<tasksVars, used>>(UseTasks /\ Scheduled)

-----------------------------------------------------------------------------
(* The calls of the algorithms, with all small inputs.                     *)
Lists(values, lengths) == UNION {[1..n -> values] : n \in lengths}
Sorted(values, lengths) ==
    {s \in Lists(values, lengths) : \A i \in 1..Len(s) - 1 : s[i] <= s[i + 1]}

(* Three values, so that there are many equal ones, in as many places as   *)
(* the median of nine samples; and permutations.                           *)
SortInputs == Lists(0..2, 0..5) \cup Lists(0..1, {10})
                \cup {<<1>> \o s \o <<0>> : s \in [1..7 -> 0..2]}
                \cup {s \in Lists(1..5, {5}) : Cardinality(ToSet(s)) = 5}
(* Enough equal values for the split in three, which needs nine samples    *)
(* after two splits in two.                                                *)
LongInputs == {[k \in 1..40 |-> IF k = i THEN x ELSE IF k = j THEN y ELSE 1] :
                  i \in 1..40, j \in {1, 5, 10, 11, 20, 23, 39}, x \in {0, 2}, y \in {0, 2}}
SortCalls == [op : {"sort"}, input : SortInputs, cores : {2}, chunk : {1},
              slow : BOOLEAN, canceling : {FALSE}]
          \cup [op : {"sort"}, input : Lists(0..2, {5}), cores : {1, 2}, chunk : {8},
              slow : {FALSE}, canceling : {FALSE}]
          \cup [op : {"sort"}, input : LongInputs, cores : {2}, chunk : {1},
              slow : BOOLEAN, canceling : {FALSE}]
          \cup [op : {"buffered_sort"}, input : Lists(0..2, 0..6), cores : {2, 3, 8},
                chunk : {1, 2}, slow : {FALSE}, canceling : {FALSE}]
          \cup [op : {"sort", "buffered_sort"}, input : Lists({0, 1}, {3}), cores : {2},
                chunk : {1}, slow : {FALSE}, canceling : {TRUE}]
RadixCalls == [op : {"radixsort"}, input : Lists({-4, -1, 0, 3}, 0..4),
               cores : {1, 2, 3}, chunk : {1, 2}, width : {3}, canceling : {FALSE}]
          \cup [op : {"radixsort"}, input : Lists({1, 0}, {3}), cores : {1},
                chunk : {1}, width : {3}, canceling : {TRUE}]
MergeCalls == [op : {"merge", "mid", "merge_tasks"}, left : Sorted(0..2, 0..4),
               right : Sorted(0..2, 0..4), div : {2, 4}]
FoldCalls ==
    LET singles(n) == [i \in 1..n |-> <<i>>]
        powers(n) == [i \in 1..n |-> 2^i]
    IN [op : {"reduce"}, input : {singles(n) : n \in 0..8}, cores : 1..5,
        forward : BOOLEAN]
       \cup [op : {"partial_sum"}, input : {singles(n) : n \in 0..12}]
       \cup [op : {"partial_sum_fixed"}, input : {powers(n) : n \in 0..12}, cores : 1..4]
LoopCalls == [op : {"for"}, first : {-1, 0, 2}, last : -1..9, step : 1..4, cut : 0..5]
          \cup {c \in [op : {"for_each"}, first : {0, 1}, last : 1..7] : c.first <= c.last}
          \cup [op : {"transform"}, firsts : {<<1>>, <<1, 0>>, <<0, 2>>}, last : 1..7,
               random : BOOLEAN]
PredicateCalls == [op : {"predicates"}, size : 0..4, trues : SUBSET (1..4),
                   pred : {"all", "any", "none"}]
               \cup [op : {"count_if"}, size : 0..4, trues : SUBSET (1..4)]

AllCalls == UNION {SortCalls, RadixCalls, MergeCalls, FoldCalls, LoopCalls, PredicateCalls}
=============================================================================

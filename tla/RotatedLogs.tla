----------------------------- MODULE RotatedLogs -----------------------------
(***************************************************************************)
(* What numbered log files promise: at every path up to Capacity logs are  *)
(* kept.  A new log is added to those, and the oldest is given up only     *)
(* when there is no room for another.  Logs are numbered as created.       *)
(***************************************************************************)
EXTENDS Naturals, FiniteSets

CONSTANTS Paths, Capacity
VARIABLES kept, created

Init == kept = [p \in Paths |-> {}] /\ created = 0

New(p) == /\ Cardinality(kept[p]) < Capacity
          /\ created' = created + 1
          /\ kept' = [kept EXCEPT ![p] = @ \cup {created + 1}]

DropOldest(p) ==
    /\ Cardinality(kept[p]) = Capacity
    /\ \E oldest \in kept[p] :
          /\ \A log \in kept[p] : oldest <= log
          /\ kept' = [kept EXCEPT ![p] = @ \ {oldest}]
    /\ UNCHANGED created

Next == \E p \in Paths : New(p) \/ DropOldest(p)

Spec == Init /\ [][Next]_<<kept, created>>
=============================================================================

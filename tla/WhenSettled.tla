---------------------------- MODULE WhenSettled -----------------------------
(***************************************************************************)
(* What when_all, when_any and the operators && and || promise about the   *)
(* task they return: a task settles once, and the returned task has the    *)
(* outcome of all the given tasks, or of the first of them to complete.    *)
(***************************************************************************)
CONSTANT Inputs
VARIABLES needs,      \* "all", "any", or "none" of the given tasks
          given,      \* the outcome of each given task
          returned,   \* the outcome of the returned task
          asked       \* somebody canceled the returned task
vars == <<needs, given, returned, asked>>

Outcomes == {"pending", "completed", "canceled"}

Init == /\ needs \in {"all", "any", "none"}
        /\ given = [i \in Inputs |-> "pending"]
        /\ returned = "pending"
        /\ asked = FALSE

Settle(i) == /\ given[i] = "pending"
             /\ \E o \in Outcomes \ {"pending"} : given' = [given EXCEPT ![i] = o]
             /\ UNCHANGED <<needs, returned, asked>>

Complete == /\ returned = "pending"
            /\ needs = "all" => \A i \in Inputs : given[i] = "completed"
            /\ needs = "any" => \E i \in Inputs : given[i] = "completed"
            /\ returned' = "completed"
            /\ UNCHANGED <<needs, given, asked>>

CancelReturned == /\ returned = "pending"
                  /\ \/ needs = "all" /\ \E i \in Inputs : given[i] = "canceled"
                     \/ needs = "any" /\ \A i \in Inputs : given[i] = "canceled"
                     \/ needs = "none"
                  /\ returned' = "canceled"
                  /\ UNCHANGED <<needs, given, asked>>

Ask == /\ returned # "completed"
       /\ returned' = "canceled"
       /\ asked' = TRUE
       /\ UNCHANGED <<needs, given>>

Next == (\E i \in Inputs : Settle(i)) \/ Complete \/ CancelReturned \/ Ask

Spec == Init /\ [][Next]_vars
=============================================================================

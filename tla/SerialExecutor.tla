--------------------------- MODULE SerialExecutor ---------------------------
(***************************************************************************)
(* What an active object promises: jobs are accepted from any thread, each *)
(* is executed once, one at a time, in the order of acceptance, and it     *)
(* stops for good after executing the quit token.                          *)
(***************************************************************************)
EXTENDS Naturals, Sequences

CONSTANTS Jobs, Quit
VARIABLES accepted, executed

Stopped == \E n \in 1..Len(executed) : executed[n] = Quit

Accept == \E j \in Jobs \cup {Quit} : /\ accepted' = Append(accepted, j)
                                      /\ UNCHANGED executed

Execute == /\ ~Stopped
           /\ Len(executed) < Len(accepted)
           /\ executed' = Append(executed, accepted[Len(executed) + 1])
           /\ UNCHANGED accepted

Init == accepted = <<>> /\ executed = <<>>

Spec == Init /\ [][Accept \/ Execute]_<<accepted, executed>>

FairSpec == Spec /\ WF_<<accepted, executed>>(Execute)
=============================================================================

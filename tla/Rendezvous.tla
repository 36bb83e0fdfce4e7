----------------------------- MODULE Rendezvous -----------------------------
(***************************************************************************)
(* What a barrier promises: tasks come in one by one, and all go out       *)
(* together, when the last of them is in.                                  *)
(***************************************************************************)
CONSTANT Participants
VARIABLE inside
vars == inside

Init == inside = {}

ComeIn(t) == /\ t \in Participants \ inside
             /\ inside' = inside \cup {t}

GoOut == /\ inside = Participants
         /\ inside' = {}

Next == (\E t \in Participants : ComeIn(t)) \/ GoOut

Spec == Init /\ [][Next]_vars

(* Nobody is made to come, but who is in is let out once all are in.       *)
FairSpec == Spec /\ WF_vars(GoOut)
=============================================================================

----------------------------- MODULE BoundedFifo -----------------------------
(***************************************************************************)
(* What a bounded queue promises: items come out in the order they went    *)
(* in, and there are never more than Capacity inside.                      *)
(***************************************************************************)
EXTENDS Naturals, Sequences

CONSTANTS Items, Capacity
VARIABLE contents

Init == contents = <<>>

Put(x) == /\ Len(contents) < Capacity
          /\ contents' = Append(contents, x)

Take == /\ contents # <<>>
        /\ contents' = Tail(contents)

Next == (\E x \in Items : Put(x)) \/ Take

Spec == Init /\ [][Next]_contents

(* Somebody always comes for the oldest item.                              *)
FairSpec == Spec /\ WF_contents(Take)
=============================================================================

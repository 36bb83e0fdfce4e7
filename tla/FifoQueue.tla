------------------------------ MODULE FifoQueue ------------------------------
(***************************************************************************)
(* What shared_queue promises its users: a multiple producer, multiple     *)
(* consumer FIFO whose operations are atomic, and from which an item that  *)
(* is present is eventually taken.  SharedQueue is shown to implement it,  *)
(* and Active is written with its operations.                              *)
(***************************************************************************)
EXTENDS Sequences

CONSTANT Items       \* what is queued: the callbacks of active.h
VARIABLE contents

Put(x) == contents' = Append(contents, x)

Take == /\ contents # <<>>
        /\ contents' = Tail(contents)

DiscardAll == /\ contents # <<>>
              /\ contents' = <<>>

Init == contents = <<>>

Next == (\E x \in Items : Put(x)) \/ Take \/ DiscardAll

Spec == Init /\ [][Next]_contents

Fairness == WF_contents(Take)
FairSpec == Spec /\ Fairness
=============================================================================

------------------------------ MODULE MCShared ------------------------------
(* TLC instances of SharedQueue, of Active with the calls of Futures, and  *)
(* of SplitOrderedHash, which here have nothing to do with each other: a   *)
(* behaviour uses one of them, and the others rest.                        *)
EXTENDS SharedQueue, Futures, SplitOrderedHash

VARIABLE used

UseQueue  == used = "queue" /\ UNCHANGED <<futuresVars, hashVars, used>>
UseActive == used = "active" /\ UNCHANGED <<queueVars, hashVars, used>>
UseHash   == used = "hash" /\ UNCHANGED <<queueVars, futuresVars, used>>

MCInit == /\ used \in {"queue", "active", "hash"}
          /\ QueueInit /\ FuturesInit /\ HashInit
          /\ used # "hash" => calls = 0 /\ numberOfBuckets = 1 /\ ~multimapping

MCNext == \/ UseQueue /\ QueueNext
          \/ UseActive /\ FuturesNext
          \/ UseHash /\ HashNext

(* The fairness of QueueFairSpec, FuturesFairSpec and HashFairSpec.        *)
MCSpec ==
    /\ MCInit /\ [][MCNext]_<<queueVars, futuresVars, hashVars, used>>
    /\ \A p \in Producers : WF_<<queueVars, used>>(UseQueue /\ NotifyOne(p))
    /\ \A c \in Consumers : WF_<<queueVars, used>>(UseQueue /\ WaitInfiniteAndPop(c))
    /\ \A t \in TimedConsumers : WF_<<queueVars, used>>(UseQueue /\ TimedCall(t))
    /\ WF_<<futuresVars, used>>(UseActive /\ RunTasks)
    /\ WF_<<futuresVars, used>>(UseActive /\ ResetBg)
    /\ WF_<<futuresVars, used>>(UseActive /\ DestroyActive)
    /\ \A t \in Threads : WF_<<hashVars, used>>(UseHash /\ Step(t))

-----------------------------------------------------------------------------
CONSTANTS k1, k2, k3

(* k1 and k2 are in one bucket of a table of two and in two of a table of  *)
(* four.  k3 differs from k1 only in the bit that marks regular nodes, so  *)
(* their order keys collide.                                               *)
MCHashOf == k1 :> 1 @@ k2 :> 3 @@ k3 :> 9

(* Three elements make a table of four of which no bucket of the second    *)
(* half is there yet.                                                      *)
MCFilling == <<k1, k2, k3>>
=============================================================================

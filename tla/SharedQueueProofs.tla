-------------------------- MODULE SharedQueueProofs --------------------------
(***************************************************************************)
(* Proofs about SharedQueue for any set of items and any finite sets of    *)
(* producers and consumers.                                                *)
(***************************************************************************)
EXTENDS SharedQueue, FiniteSetTheorems, SequenceTheorems, TLAPS

(* The state has the values QueueTypeOK gives it: push, the waits and the  *)
(* notifications keep the queue a queue of items and every thread at a     *)
(* point of its own calls.                                                 *)
THEOREM TypeCorrect == QueueSpec => []QueueTypeOK
<1>1. QueueInit => QueueTypeOK
  <2> SUFFICES ASSUME QueueInit PROVE QueueTypeOK
    OBVIOUS
  <2>1. wasted \in BOOLEAN
    BY DEF QueueInit
  <2> QED BY <2>1, QueueThreadsAssumption, MaxPushesAssumption DEF QueueInit, QueueTypeOK, QueueThreads
<1>2. QueueTypeOK /\ [QueueNext]_queueVars => QueueTypeOK'
  <2> SUFFICES ASSUME QueueTypeOK, [QueueNext]_queueVars PROVE QueueTypeOK'
    OBVIOUS
  <2> USE QueueThreadsAssumption, MaxPushesAssumption DEF QueueTypeOK, QueueThreads
  <2>1. ASSUME NEW p \in Producers, Push(p) PROVE QueueTypeOK'
    BY <2>1 DEF Push
  <2>2. ASSUME NEW p \in Producers, NotifyOne(p) PROVE QueueTypeOK'
    <3>1. CASE stage' = [stage EXCEPT ![p] = "idle"] /\ UNCHANGED wasted
      BY <2>2, <3>1 DEF NotifyOne
    <3>2. ASSUME NEW t \in Blocked, stage' = [stage EXCEPT ![p] = "idle", ![t] = "woken"],
                 wasted' \in BOOLEAN
          PROVE QueueTypeOK'
      <4>1. t \in QueueThreads /\ t \notin Producers
        BY DEF Blocked
      <4> QED BY <2>2, <3>2, <4>1 DEF NotifyOne
    <3> QED BY <2>2, <3>1, <3>2 DEF NotifyOne
  <2>3. ASSUME NEW c \in Consumers, WaitInfiniteAndPop(c) PROVE QueueTypeOK'
    BY <2>3 DEF WaitInfiniteAndPop
  <2>4. ASSUME NEW t \in Consumers \cup TimedConsumers, SpuriousWakeup(t)
        PROVE QueueTypeOK'
    BY <2>4 DEF SpuriousWakeup
  <2>5. ASSUME NEW t \in TimedConsumers, TimedEnter(t) PROVE QueueTypeOK'
    BY <2>5 DEF TimedEnter
  <2>6. ASSUME NEW t \in TimedConsumers, Timeout(t) PROVE QueueTypeOK'
    BY <2>6 DEF Timeout
  <2>7. ASSUME NEW t \in TimedConsumers, TimedOutReturn(t) PROVE QueueTypeOK'
    BY <2>7 DEF TimedOutReturn
  <2>8. ASSUME NEW t \in TimedConsumers, TimedWokenReturn(t) PROVE QueueTypeOK'
    BY <2>8 DEF TimedWokenReturn
  <2>9. CASE TryAndPop
    BY <2>9 DEF TryAndPop
  <2>10. CASE ClearQueue
    BY <2>10 DEF ClearQueue
  <2>11. CASE ReleaseAllLocks
    BY <2>11 DEF ReleaseAllLocks, Blocked
  <2>12. CASE UNCHANGED queueVars
    BY <2>12 DEF queueVars
  <2> QED
    BY <2>1, <2>2, <2>3, <2>4, <2>5, <2>6, <2>7, <2>8, <2>9, <2>10, <2>11, <2>12
    DEF QueueNext
<1> QED BY <1>1, <1>2, PTL DEF QueueSpec

-----------------------------------------------------------------------------

LEMMA WakeupSetsFinite ==
  /\ IsFiniteSet(Notifying) /\ Cardinality(Notifying) \in Nat
  /\ IsFiniteSet(Woken) /\ Cardinality(Woken) \in Nat
<1>1. Notifying \in SUBSET Producers /\ Woken \in SUBSET Consumers
  BY DEF Notifying, Woken
<1> QED BY <1>1, QueueThreadsAssumption, FS_Subset, FS_CardinalityType

LEMMA WakeupSetsFiniteAfter ==
  /\ IsFiniteSet(Notifying') /\ Cardinality(Notifying') \in Nat
  /\ IsFiniteSet(Woken') /\ Cardinality(Woken') \in Nat
<1>1. Notifying' \in SUBSET Producers /\ Woken' \in SUBSET Consumers
  BY DEF Notifying, Woken
<1> QED BY <1>1, QueueThreadsAssumption, FS_Subset, FS_CardinalityType

(* A consumer that enters wait() does so with the queue empty, a push adds *)
(* a notification with the item, a notification handed over becomes a      *)
(* woken consumer, and a consumer that leaves the count takes an item.     *)
(* A notification that a timed consumer gets is dropped, and recorded.     *)
LEMMA WakeupsCoverItemsInductive ==
  ASSUME QueueTypeOK, QueueTypeOK', WakeupsCoverItems, [QueueNext]_queueVars
  PROVE  WakeupsCoverItems'
<1> USE QueueThreadsAssumption, WakeupSetsFinite, WakeupSetsFiniteAfter
<1>0. Len(queue_) \in Nat /\ Len(queue_') \in Nat
  BY LenProperties DEF QueueTypeOK
<1>w. wasted => WakeupsCoverItems'
  BY DEF QueueNext, queueVars, Push, NotifyOne, WaitInfiniteAndPop, SpuriousWakeup, TimedEnter,
         Timeout, TimedOutReturn, TimedWokenReturn, TryAndPop, ClearQueue,
         ReleaseAllLocks, WakeupsCoverItems
<1> SUFFICES ASSUME ~wasted PROVE WakeupsCoverItems'
  BY <1>w
<1>1. ASSUME NEW p \in Producers, Push(p) PROVE WakeupsCoverItems'
  <2>1. Notifying' = Notifying \cup {p} /\ p \notin Notifying
    BY <1>1 DEF Push, Notifying, QueueTypeOK, QueueThreads
  <2>2. Woken' = Woken /\ Waiting' = Waiting
    BY <1>1 DEF Push, Woken, Waiting, QueueTypeOK, QueueThreads
  <2>3. Len(queue_') = Len(queue_) + 1
    BY <1>1 DEF Push, QueueTypeOK
  <2>4. Cardinality(Notifying') = Cardinality(Notifying) + 1
    BY <2>1, FS_AddElement
  <2> QED BY <1>0, <2>2, <2>3, <2>4 DEF WakeupsCoverItems
<1>2. ASSUME NEW p \in Producers, NotifyOne(p) PROVE WakeupsCoverItems'
  <2>1. CASE Blocked = {} /\ stage' = [stage EXCEPT ![p] = "idle"]
    <3>1. Waiting' = {}
      BY <2>1 DEF Blocked, Waiting, QueueTypeOK, QueueThreads
    <3> QED BY <3>1 DEF WakeupsCoverItems
  <2>2. ASSUME NEW t \in Blocked, stage' = [stage EXCEPT ![p] = "idle", ![t] = "woken"],
               wasted' = (wasted \/ t \in TimedConsumers)
        PROVE WakeupsCoverItems'
    <3>0. CASE t \in TimedConsumers
      BY <1>2, <2>2, <3>0 DEF WakeupsCoverItems
    <3> SUFFICES ASSUME t \notin TimedConsumers PROVE WakeupsCoverItems'
      BY <3>0
    <3>1. t \in Consumers /\ t # p /\ stage[t] = "waiting" /\ stage[p] = "notify"
      BY <1>2 DEF Blocked, QueueTypeOK, QueueThreads, NotifyOne
    <3>2. Notifying' = Notifying \ {p} /\ p \in Notifying
      BY <2>2, <3>1 DEF Notifying, QueueTypeOK, QueueThreads
    <3>3. Woken' = Woken \cup {t} /\ t \notin Woken
      BY <2>2, <3>1 DEF Woken, QueueTypeOK, QueueThreads
    <3>4. Waiting' = Waiting \ {t} /\ t \in Waiting
      BY <2>2, <3>1 DEF Waiting, QueueTypeOK, QueueThreads
    <3>5. Cardinality(Notifying') = Cardinality(Notifying) - 1
      BY <3>2, FS_RemoveElement
    <3>6. Cardinality(Woken') = Cardinality(Woken) + 1
      BY <3>3, FS_AddElement
    <3>7. queue_' = queue_
      BY <1>2 DEF NotifyOne
    <3> QED BY <1>0, <3>4, <3>5, <3>6, <3>7 DEF WakeupsCoverItems
  <2> QED BY <1>2, <2>1, <2>2 DEF NotifyOne
<1>3. ASSUME NEW c \in Consumers, WaitInfiniteAndPop(c) PROVE WakeupsCoverItems'
  <2>1. CASE queue_ = <<>> /\ UNCHANGED queue_
    BY <2>1, <1>0 DEF WakeupsCoverItems
  <2>2. CASE /\ queue_ # <<>> /\ queue_' = Tail(queue_)
             /\ stage' = [stage EXCEPT ![c] = "idle"]
    <3>1. Len(queue_') = Len(queue_) - 1
      BY <2>2, HeadTailProperties DEF QueueTypeOK
    <3>2. Notifying' = Notifying
      BY <2>2, <1>3 DEF Notifying, QueueTypeOK, QueueThreads, WaitInfiniteAndPop
    <3>3. Waiting' = Waiting
      BY <2>2, <1>3 DEF Waiting, QueueTypeOK, QueueThreads, WaitInfiniteAndPop
    <3>4. Woken' = Woken \ {c}
      BY <2>2, <1>3 DEF Woken, QueueTypeOK, QueueThreads, WaitInfiniteAndPop
    <3>5. Cardinality(Woken') >= Cardinality(Woken) - 1
      BY <3>4, FS_RemoveElement
    <3> QED BY <1>0, <3>1, <3>2, <3>3, <3>5 DEF WakeupsCoverItems
  <2> QED BY <1>3, <2>1, <2>2 DEF WaitInfiniteAndPop
<1>4. ASSUME NEW c \in Consumers, SpuriousWakeup(c) PROVE WakeupsCoverItems'
  <2>1. Woken' = Woken \cup {c} /\ c \notin Woken
    BY <1>4 DEF SpuriousWakeup, Woken, QueueTypeOK, QueueThreads
  <2>2. Waiting' = Waiting \ {c} /\ c \in Waiting
    BY <1>4 DEF SpuriousWakeup, Waiting, QueueTypeOK, QueueThreads
  <2>3. Notifying' = Notifying /\ queue_' = queue_
    BY <1>4 DEF SpuriousWakeup, Notifying, QueueTypeOK, QueueThreads
  <2>4. Cardinality(Woken') = Cardinality(Woken) + 1
    BY <2>1, FS_AddElement
  <2> QED BY <1>0, <2>2, <2>3, <2>4 DEF WakeupsCoverItems
<1>5. CASE TryAndPop
  <2>1. Len(queue_') = Len(queue_) - 1
    BY <1>5, HeadTailProperties DEF TryAndPop, QueueTypeOK
  <2>2. stage' = stage
    BY <1>5 DEF TryAndPop
  <2>3. Notifying' = Notifying /\ Woken' = Woken /\ Waiting' = Waiting
    BY <2>2 DEF Notifying, Woken, Waiting
  <2> QED BY <1>0, <2>1, <2>3 DEF WakeupsCoverItems
<1>6. CASE ClearQueue
  <2>1. Len(queue_') = 0
    BY <1>6 DEF ClearQueue
  <2> QED BY <2>1 DEF WakeupsCoverItems
<1>7. CASE ReleaseAllLocks
  <2>1. Waiting' = {}
    BY <1>7 DEF ReleaseAllLocks, Waiting, Blocked, QueueTypeOK, QueueThreads
  <2> QED BY <2>1 DEF WakeupsCoverItems
<1>8. CASE UNCHANGED queueVars
  BY <1>8 DEF queueVars, WakeupsCoverItems, Waiting, Notifying, Woken
<1>9. ASSUME NEW t \in TimedConsumers,
             TimedEnter(t) \/ SpuriousWakeup(t) \/ Timeout(t)
               \/ TimedOutReturn(t) \/ TimedWokenReturn(t)
      PROVE WakeupsCoverItems'
  <2> USE DEF TimedEnter, SpuriousWakeup, Timeout, TimedOutReturn, TimedWokenReturn
  <2>1. \A u \in QueueThreads : u # t => stage'[u] = stage[u]
    BY <1>9 DEF QueueTypeOK, QueueThreads
  <2>2. Notifying' = Notifying /\ Woken' = Woken /\ Waiting' = Waiting
    BY <2>1 DEF Notifying, Woken, Waiting, QueueThreads
  <2>3. queue_' = queue_ \/ (queue_ # <<>> /\ queue_' = Tail(queue_))
    BY <1>9
  <2>4. Len(queue_') <= Len(queue_)
    BY <1>0, <2>3, HeadTailProperties DEF QueueTypeOK
  <2> QED BY <1>0, <2>2, <2>4 DEF WakeupsCoverItems
<1> QED BY <1>1, <1>2, <1>3, <1>4, <1>5, <1>6, <1>7, <1>8, <1>9 DEF QueueNext

(* Until a notification goes to a timed call, notifications and woken      *)
(* consumers never run short of items while a consumer is blocked: push    *)
(* may unlock before it notifies.  Active makes no timed calls.            *)
THEOREM WakeupsAlwaysCoverItems == QueueSpec => []WakeupsCoverItems
<1>1. QueueInit => WakeupsCoverItems
  BY QueueThreadsAssumption DEF QueueInit, WakeupsCoverItems, Waiting, QueueThreads
<1>2. QueueTypeOK /\ QueueTypeOK' /\ WakeupsCoverItems /\ [QueueNext]_queueVars => WakeupsCoverItems'
  BY WakeupsCoverItemsInductive
<1> QED BY <1>1, <1>2, TypeCorrect, PTL DEF QueueSpec

(* No item is stranded: while one is queued and a consumer is blocked,     *)
(* somebody is about to notify or about to look.                           *)
THEOREM NeverStranded == QueueSpec => []NoStrandedItem
<1>1. QueueTypeOK /\ WakeupsCoverItems => NoStrandedItem
  <2> SUFFICES ASSUME QueueTypeOK, WakeupsCoverItems, queue_ # <<>>, Waiting # {},
                      ~wasted, Notifying = {}, Woken = {}
               PROVE  FALSE
    BY DEF NoStrandedItem
  <2>1. Len(queue_) \in Nat \ {0}
    BY EmptySeq DEF QueueTypeOK
  <2>2. Cardinality(Notifying) = 0 /\ Cardinality(Woken) = 0
    BY FS_EmptySet
  <2> QED BY <2>1, <2>2 DEF WakeupsCoverItems
<1> QED BY <1>1, WakeupsAlwaysCoverItems, TypeCorrect, PTL

(* Every step of the queue, whoever takes it and whatever the interleaving *)
(* of locks, waits and notifications, is an operation of the FIFO or       *)
(* leaves its contents alone.                                              *)
THEOREM ImplementsFifoSafety == QueueSpec => Fifo!Spec
<1>1. QueueInit => Fifo!Init
  BY DEF QueueInit, Fifo!Init
<1>2. [QueueNext]_queueVars => [Fifo!Next]_queue_
  <2> SUFFICES ASSUME [QueueNext]_queueVars PROVE [Fifo!Next]_queue_
    OBVIOUS
  <2> USE DEF Fifo!Next, Fifo!Put, Fifo!Take, Fifo!DiscardAll
  <2>1. ASSUME NEW p \in Producers, Push(p) PROVE \E x \in Items : Fifo!Put(x)
    BY <2>1 DEF Push
  <2>2. ASSUME NEW c \in Consumers, WaitInfiniteAndPop(c)
        PROVE Fifo!Take \/ UNCHANGED queue_
    BY <2>2 DEF WaitInfiniteAndPop
  <2>3. ASSUME NEW t \in TimedConsumers, TimedEnter(t) \/ TimedOutReturn(t)
        PROVE Fifo!Take \/ UNCHANGED queue_
    BY <2>3 DEF TimedEnter, TimedOutReturn
  <2>4. CASE TryAndPop
    BY <2>4 DEF TryAndPop
  <2>5. CASE ClearQueue
    BY <2>5 DEF ClearQueue
  <2>6. CASE UNCHANGED queue_
    BY <2>6
  <2> QED
    BY <2>1, <2>2, <2>3, <2>4, <2>5, <2>6
    DEF QueueNext, NotifyOne, SpuriousWakeup, Timeout, TimedWokenReturn,
        ReleaseAllLocks, queueVars
<1> QED BY <1>1, <1>2, PTL DEF QueueSpec, Fifo!Spec
=============================================================================

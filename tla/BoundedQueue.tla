---------------------------- MODULE BoundedQueue ----------------------------
(***************************************************************************)
(* Include/ConcRTExtras/bounded_queue.h: a queue between two semaphores,   *)
(* one counting its free places, the other its items.  The queue itself is *)
(* a LockedQueue or a concurrent_queue, whose push and try_pop are atomic. *)
(*                                                                         *)
(* Producers call enqueue; Consumers call dequeue without a timeout,       *)
(* TimedConsumers dequeue with one or try_dequeue, whose timeout is zero:  *)
(* both may time out at once.                                              *)
(***************************************************************************)
EXTENDS Naturals, Sequences, FiniteSets

CONSTANTS Items, Producers, Consumers, TimedConsumers, maxItems

ASSUME QueueThreadsAssumption ==
    /\ IsFiniteSet(Producers)
    /\ IsFiniteSet(Consumers) /\ IsFiniteSet(TimedConsumers)
    /\ Producers \cap (Consumers \cup TimedConsumers) = {}
    /\ Consumers \cap TimedConsumers = {}

ASSUME maxItemsAssumption == maxItems \in Nat \ {0}

VARIABLES m_queue,
          fullVal, fullQueue,      \* m_fullSemaphore: places that are free
          emptyVal, emptyQueue,    \* m_emptySemaphore: items
          signalled, pNode,        \* of both: m_event and pNode
          pc
semaphores == <<fullVal, fullQueue, emptyVal, emptyQueue, signalled, pNode>>
vars == <<m_queue, semaphores, pc>>

Full  == INSTANCE Semaphore WITH m_semVal <- fullVal, m_waitQueue <- fullQueue,
                                m_event <- signalled
Empty == INSTANCE Semaphore WITH m_semVal <- emptyVal, m_waitQueue <- emptyQueue,
                                m_event <- signalled

Takers == Consumers \cup TimedConsumers
Threads == Producers \cup Takers

Init == /\ m_queue = <<>>
        /\ fullVal = maxItems /\ emptyVal = 0
        /\ fullQueue = <<>> /\ emptyQueue = <<>>
        /\ signalled = {}
        /\ pNode = [t \in Threads |-> <<>>]
        /\ pc = [t \in Threads |-> "idle"]

Goto(t, from, to) == /\ pc[t] = from
                     /\ pc' = [pc EXCEPT ![t] = to]

FullOnly  == UNCHANGED <<m_queue, emptyVal, emptyQueue>>
EmptyOnly == UNCHANGED <<m_queue, fullVal, fullQueue>>

-----------------------------------------------------------------------------
(* Mutants: plausible mistakes in the code, for the model to detect.       *)

(* A dequeue that timed out gives up although a release chose it.          *)
MutGiveUp(t) == /\ Goto(t, "timedout", "idle")
                /\ Empty!Withdraw(t) \/ Empty!TooLate(t)
                /\ EmptyOnly

(* enqueue does not wait for a place.                                      *)
MutPushUnasked(p) == /\ Goto(p, "idle", "push")
                     /\ UNCHANGED <<m_queue, semaphores>>

-----------------------------------------------------------------------------
(* enqueue.                                                                *)
WaitFull(p) ==
    /\ \/ Goto(p, "idle", "push") /\ Full!Acquire(p)
       \/ Goto(p, "idle", "waiting") /\ Full!Enqueue(p)
       \/ Goto(p, "waiting", "push") /\ Full!Granted(p)
    /\ FullOnly

PushAndCount(p) ==
    \/ /\ Goto(p, "push", "count")
       /\ \E x \in Items : m_queue' = Append(m_queue, x)
       /\ UNCHANGED semaphores
    \/ Goto(p, "count", "signal") /\ Empty!Increment(p, 1) /\ EmptyOnly

(* dequeue and try_dequeue.                                                *)
WaitEmpty(c) ==
    /\ \/ Goto(c, "idle", "pop") /\ Empty!Acquire(c)
       \/ Goto(c, "idle", "waiting") /\ Empty!Enqueue(c)
       \/ Goto(c, "waiting", "pop") /\ Empty!Granted(c)
    /\ EmptyOnly

(* The result of try_pop is not looked at: without an item, what dequeue   *)
(* returns is not initialized.                                             *)
PopAndCount(c) ==
    \/ /\ Goto(c, "pop", "count")
       /\ m_queue' = IF m_queue = <<>> THEN <<>> ELSE Tail(m_queue)
       /\ UNCHANGED semaphores
    \/ Goto(c, "count", "signal") /\ Full!Increment(c, 1) /\ FullOnly

(* The release that ends a call: the waiter it chose, if any, is woken.    *)
SignalWaiter(t) ==
    \/ /\ pc[t] = "signal"
       /\ Full!Signal(t)
       /\ UNCHANGED <<m_queue, emptyVal, emptyQueue, pc>>
    \/ /\ pNode[t] = <<>>
       /\ Goto(t, "signal", "idle")
       /\ UNCHANGED <<m_queue, semaphores>>

(* wait with a timeout: a node that a release has dequeued by then is      *)
(* waited for once more, for the permit is already its own.                *)
Timeout(t) == /\ Goto(t, "waiting", "timedout")
              /\ UNCHANGED <<m_queue, semaphores>>

TimedOut(t) ==
    /\ \/ Goto(t, "timedout", "idle") /\ Empty!Withdraw(t)
       \/ Goto(t, "timedout", "waitagain") /\ Empty!TooLate(t)
       \/ Goto(t, "waitagain", "pop") /\ Empty!Granted(t)
    /\ EmptyOnly

-----------------------------------------------------------------------------
Call(t) == \/ t \in Producers /\ (WaitFull(t) \/ PushAndCount(t))
           \/ t \in Takers /\ (WaitEmpty(t) \/ PopAndCount(t))
           \/ t \in TimedConsumers /\ TimedOut(t)
           \/ SignalWaiter(t)

Next == (\E t \in Threads : Call(t)) \/ (\E t \in TimedConsumers : Timeout(t))

Spec == Init /\ [][Next]_vars

(* Threads are scheduled, and producers and consumers come again and       *)
(* again.  No timeout is relied on.                                        *)
Fairness == \A t \in Threads : WF_vars(Call(t))
FairSpec == Spec /\ Fairness

-----------------------------------------------------------------------------
InWait == {t \in Threads : pc[t] \in {"waiting", "timedout", "waitagain"}}
QueueOf(t) == IF t \in Producers THEN fullQueue ELSE emptyQueue
At(ts, place) == {t \in ts : pc[t] = place}

(* The waiters a release has chosen, woken or not.                         *)
Chosen(ts) == {t \in ts \cap InWait : \A i \in DOMAIN QueueOf(t) : QueueOf(t)[i] # t}

(* Values of the state.                                                    *)
TypeOK == /\ m_queue \in Seq(Items)
          /\ fullVal \in 0..maxItems /\ emptyVal \in 0..maxItems
          /\ fullQueue \in Seq(Producers) /\ emptyQueue \in Seq(Takers)
          /\ signalled \subseteq Threads
          /\ pNode \in [Threads -> Seq(Threads)]
          /\ pc \in [Threads -> {"idle", "waiting", "timedout", "waitagain",
                                 "push", "pop", "count", "signal"}]

(* Each free place is in m_fullSemaphore or has been given to one producer,*)
(* each item in m_emptySemaphore or to one consumer.                       *)
PlacesConserved ==
    fullVal + Cardinality(Chosen(Producers)) + Cardinality(At(Producers, "push"))
      + Len(m_queue) + Cardinality(At(Takers, "count")) = maxItems

ItemsConserved ==
    Len(m_queue) = emptyVal + Cardinality(Chosen(Takers))
      + Cardinality(At(Takers, "pop")) + Cardinality(At(Producers, "count"))

(* No place and no item is lost or counted twice, whoever waits, gives up  *)
(* or is being woken; so a consumer that got its permit finds an item,     *)
(* although push and pop are not under one lock with the permits.          *)
PermitsConserved == PlacesConserved /\ ItemsConserved

(* Nobody overtakes: while a thread waits, there is no permit that another *)
(* could take.                                                             *)
NoBarging == /\ fullQueue # <<>> => fullVal = 0
             /\ emptyQueue # <<>> => emptyVal = 0

(* A release signals only nodes that still exist: their threads are in     *)
(* wait(), and nobody else signals them.                                   *)
NodesAlive ==
    \A t \in Threads : \A i \in DOMAIN pNode[t] :
        /\ pNode[t][i] \in Chosen(Threads) \ signalled
        /\ \A u \in Threads : \A j \in DOMAIN pNode[u] :
              pNode[u][j] = pNode[t][i] => u = t /\ j = i

(* The queue implements a bounded FIFO.                                    *)
Fifo == INSTANCE BoundedFifo WITH contents <- m_queue, Capacity <- maxItems
ImplementsBoundedFifo == Fifo!FairSpec

(* Nobody is passed over for ever: a call without a timeout returns.       *)
CallsReturn == \A t \in Producers \cup Consumers : pc[t] = "waiting" ~> pc[t] = "idle"
=============================================================================

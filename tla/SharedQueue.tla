----------------------------- MODULE SharedQueue -----------------------------
(***************************************************************************)
(* Include/shared_queue.h: a std::queue under a critical section with a    *)
(* condition variable.  Each action is one critical section of m_, or one  *)
(* call on the condition variable made outside it; between two actions of  *)
(* a thread any other thread may run.                                      *)
(*                                                                         *)
(* A consumer thread calls wait_infitine_and_pop again and again, as       *)
(* Active::run does.  A timed consumer calls wait_and_pop or               *)
(* wait_for_and_pop, which differ only in the duration they wait.  A call  *)
(* of try_and_pop, clear or ReleaseAllLocks keeps nothing between steps,   *)
(* so its caller is not modelled.                                          *)
(***************************************************************************)
EXTENDS Naturals, Sequences, FiniteSets

CONSTANTS Items, Producers, Consumers, TimedConsumers,
          MaxPushes      \* bound: calls of push in a behaviour

ASSUME QueueThreadsAssumption ==
    /\ IsFiniteSet(Producers) /\ IsFiniteSet(Consumers)
    /\ Producers \cap (Consumers \cup TimedConsumers) = {}
    /\ Consumers \cap TimedConsumers = {}

ASSUME MaxPushesAssumption == MaxPushes \in Nat

VARIABLES queue_,   \* the items, oldest first
          stage,    \* where each thread stands in the call it makes
          pushes,   \* how many items have been pushed
          wasted    \* history: has a notify_one gone to a timed call?
queueVars == <<queue_, stage, pushes, wasted>>

QueueThreads == Producers \cup Consumers \cup TimedConsumers

Notifying == {p \in Producers : stage[p] = "notify"}   \* unlocked, not notified
Waiting   == {c \in Consumers : stage[c] = "waiting"}  \* blocked in wait()
Woken     == {c \in Consumers : stage[c] = "woken"}    \* to re-test the loop
Blocked   == {t \in QueueThreads : stage[t] = "waiting"}

QueueInit == /\ queue_ = <<>>
             /\ stage = [t \in QueueThreads |-> "idle"]
             /\ pushes = 0
             /\ wasted = FALSE

-----------------------------------------------------------------------------
(* Mutants: plausible mistakes in the code, for the model to detect.       *)

(* push notifies only when the queue was empty.                            *)
MutNotifyIfEmpty(p) ==
    /\ stage[p] = "idle"
    /\ pushes < MaxPushes
    /\ \E x \in Items : queue_' = Append(queue_, x)
    /\ pushes' = pushes + 1
    /\ stage' = [stage EXCEPT ![p] = IF queue_ = <<>> THEN "notify" ELSE "idle"]
    /\ UNCHANGED wasted

(* notify_one before the item is in, as good as no notify_one: a waiting   *)
(* consumer re-tests the loop too early and is not woken again.            *)
MutNotifyNobody(p) == /\ stage[p] = "notify"
                      /\ stage' = [stage EXCEPT ![p] = "idle"]
                      /\ UNCHANGED <<queue_, pushes, wasted>>

(* A timed call that timed out takes an item without testing again.        *)
MutTakeUntested(t) ==
    /\ stage[t] = "timedout"
    /\ queue_' = IF queue_ = <<>> THEN <<"undefined">> ELSE Tail(queue_)
    /\ stage' = [stage EXCEPT ![t] = "idle"]
    /\ UNCHANGED <<pushes, wasted>>

-----------------------------------------------------------------------------
(* push: the item goes in under the lock; notify_one comes after unlock.   *)
Push(p) == /\ stage[p] = "idle"
           /\ pushes < MaxPushes
           /\ \E x \in Items : queue_' = Append(queue_, x)
           /\ pushes' = pushes + 1
           /\ stage' = [stage EXCEPT ![p] = "notify"]
           /\ UNCHANGED wasted

NotifyOne(p) == /\ stage[p] = "notify"
                /\ \/ /\ Blocked = {}
                      /\ stage' = [stage EXCEPT ![p] = "idle"]
                      /\ UNCHANGED wasted
                   \/ \E t \in Blocked :
                        /\ stage' = [stage EXCEPT ![p] = "idle", ![t] = "woken"]
                        /\ wasted' = (wasted \/ t \in TimedConsumers)
                /\ UNCHANGED <<queue_, pushes>>

(* Both entry and re-test after a wake-up: the loop `while (empty) wait'.  *)
WaitInfiniteAndPop(c) ==
    /\ stage[c] \in {"idle", "woken"}
    /\ \/ /\ queue_ = <<>>
          /\ stage' = [stage EXCEPT ![c] = "waiting"]
          /\ UNCHANGED queue_
       \/ /\ queue_ # <<>>
          /\ queue_' = Tail(queue_)
          /\ stage' = [stage EXCEPT ![c] = "idle"]
    /\ UNCHANGED <<pushes, wasted>>

(* std::condition_variable_any may return from wait without a notify.      *)
SpuriousWakeup(t) == /\ stage[t] = "waiting"
                     /\ stage' = [stage EXCEPT ![t] = "woken"]
                     /\ UNCHANGED <<queue_, pushes, wasted>>

(* wait_and_pop, wait_for_and_pop.                                         *)
TimedEnter(t) ==
    /\ stage[t] = "idle"
    /\ \/ /\ queue_ = <<>>
          /\ stage' = [stage EXCEPT ![t] = "waiting"]
          /\ UNCHANGED queue_
       \/ /\ queue_ # <<>>
          /\ queue_' = Tail(queue_)
          /\ UNCHANGED stage
    /\ UNCHANGED <<pushes, wasted>>

Timeout(t) == /\ stage[t] = "waiting"
              /\ stage' = [stage EXCEPT ![t] = "timedout"]
              /\ UNCHANGED <<queue_, pushes, wasted>>

(* After cv_status::timeout the queue is looked at again.                  *)
TimedOutReturn(t) ==
    /\ stage[t] = "timedout"
    /\ queue_' = IF queue_ = <<>> THEN queue_ ELSE Tail(queue_)
    /\ stage' = [stage EXCEPT ![t] = "idle"]
    /\ UNCHANGED <<pushes, wasted>>

(* After cv_status::no_timeout the call returns false without looking.     *)
TimedWokenReturn(t) == /\ stage[t] = "woken"
                       /\ stage' = [stage EXCEPT ![t] = "idle"]
                       /\ UNCHANGED <<queue_, pushes, wasted>>

TryAndPop == /\ queue_ # <<>>
             /\ queue_' = Tail(queue_)
             /\ UNCHANGED <<stage, pushes, wasted>>

ClearQueue == /\ queue_' = <<>>
              /\ UNCHANGED <<stage, pushes, wasted>>

(* notify_all.                                                             *)
ReleaseAllLocks ==
    /\ stage' = [t \in QueueThreads |-> IF t \in Blocked THEN "woken" ELSE stage[t]]
    /\ UNCHANGED <<queue_, pushes, wasted>>

-----------------------------------------------------------------------------
QueueNext == \/ \E p \in Producers : Push(p) \/ NotifyOne(p)
             \/ \E c \in Consumers : WaitInfiniteAndPop(c) \/ SpuriousWakeup(c)
             \/ \E t \in TimedConsumers :
                   \/ TimedEnter(t) \/ SpuriousWakeup(t) \/ Timeout(t)
                   \/ TimedOutReturn(t) \/ TimedWokenReturn(t)
             \/ TryAndPop \/ ClearQueue \/ ReleaseAllLocks

QueueSpec == QueueInit /\ [][QueueNext]_queueVars

(* Threads are scheduled: a push that has unlocked goes on to notify, and  *)
(* a consumer that is not blocked goes on with its loop.  Nobody is made   *)
(* to push, nor to make a timed call, and no spurious wake-up is relied    *)
(* on.  A timed call that has begun ends.                                  *)
TimedCall(t) == Timeout(t) \/ TimedOutReturn(t) \/ TimedWokenReturn(t)

QueueFairness == /\ \A p \in Producers : WF_queueVars(NotifyOne(p))
                 /\ \A c \in Consumers : WF_queueVars(WaitInfiniteAndPop(c))
                 /\ \A t \in TimedConsumers : WF_queueVars(TimedCall(t))

QueueFairSpec == QueueSpec /\ QueueFairness

-----------------------------------------------------------------------------
(* Values of the state: items are queued, and each thread stands at a      *)
(* point that its own calls have.                                          *)
QueueTypeOK ==
    /\ queue_ \in Seq(Items)
    /\ pushes \in 0..MaxPushes
    /\ wasted \in BOOLEAN
    /\ stage \in [QueueThreads -> {"idle", "notify", "waiting", "woken", "timedout"}]
    /\ \A p \in Producers : stage[p] \in {"idle", "notify"}
    /\ \A c \in Consumers : stage[c] \in {"idle", "waiting", "woken"}

(* No wake-up is lost: while an item is queued and a consumer is blocked   *)
(* in wait_infitine_and_pop, some producer has still to call notify_one or *)
(* some consumer is on its way back to the queue.  (notify_one is called   *)
(* after the lock is released, and idle consumers may take the item first, *)
(* so the notify need not reach the thread that gets the item.)  The one   *)
(* thing that can strand an item is a notify_one used up by a timed call,  *)
(* which returns without a look at the queue.                              *)
NoStrandedItem ==
    queue_ # <<>> /\ Waiting # {} /\ ~wasted => Notifying # {} \/ Woken # {}

(* Why it is true: unless nobody is blocked, there are at least as many    *)
(* pending notifications and woken consumers as items.                     *)
WakeupsCoverItems ==
    \/ wasted
    \/ Waiting = {}
    \/ Len(queue_) <= Cardinality(Notifying) + Cardinality(Woken)

(* The queue implements the FIFO.                                          *)
Fifo == INSTANCE FifoQueue WITH contents <- queue_
ImplementsFifo == Fifo!Spec

(* It does so with the liveness of the FIFO, an item does not stay queued  *)
(* for ever, unless a notify_one goes to a timed call.                     *)
ItemsAreTaken == Fifo!Fairness \/ <>wasted
=============================================================================

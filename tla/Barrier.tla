------------------------------- MODULE Barrier -------------------------------
(***************************************************************************)
(* Include/ConcRTExtras/barrier.h: a barrier that the same tasks reach     *)
(* again and again.  Two EventWrappers take turns, so that a task slow to  *)
(* leave one round does not meet those that reach the next.                *)
(*                                                                         *)
(* One action is one access to a shared field.  spinWait only delays the   *)
(* test that follows it, so it is left out.  The definitions that other    *)
(* modules have too begin with Barrier, to be used beside them.            *)
(***************************************************************************)
EXTENDS Naturals, FiniteSets

CONSTANTS Participants,    \* the tasks
          MaxRounds      \* bound: calls of wait of each task

ASSUME TasksAssumption == IsFiniteSet(Participants) /\ Participants # {}
ASSUME MaxRoundsAssumption == MaxRounds \in Nat

VARIABLES m_blockedState, m_event,   \* of the EventWrappers 0 and 1
          m_eventIndex, m_numWaiters, m_version,
          place,                     \* where each task is in wait()
          pEvent,                    \* the event it took there
          rounds                     \* history: calls of wait that returned
events == <<m_blockedState, m_event>>
counts == <<m_eventIndex, m_numWaiters, m_version>>
barrierVars == <<events, counts, place, pEvent, rounds>>

m_numTasks == Cardinality(Participants)
Other(e) == 1 - e

BarrierInit == /\ m_blockedState = [e \in 0..1 |-> "None"]
               /\ m_event = [e \in 0..1 |-> FALSE]
               /\ m_eventIndex = 0 /\ m_numWaiters = 0 /\ m_version = 0
               /\ place = [t \in Participants |-> "outside"]
               /\ pEvent = [t \in Participants |-> 0]
               /\ rounds = [t \in Participants |-> 0]

(* Task t goes from one place in wait() to another, or all of ts return.   *)
Step(t, from, to) == /\ place[t] = from
                     /\ place' = [place EXCEPT ![t] = to]
                     /\ UNCHANGED rounds
Return(ts) ==
    /\ place' = [u \in Participants |-> IF u \in ts THEN "outside" ELSE place[u]]
    /\ rounds' = [u \in Participants |-> IF u \in ts THEN rounds[u] + 1 ELSE rounds[u]]

Asleep(e) == {u \in Participants : place[u] = "asleep" /\ pEvent[u] = e}

-----------------------------------------------------------------------------
(* Mutants: plausible mistakes in the code, for the model to detect.       *)

(* One event instead of two.                                               *)
MutSwitchNothing(t) == /\ Step(t, "switch", "zero")
                       /\ UNCHANGED <<events, m_eventIndex, m_numWaiters,
                                      m_version, pEvent>>

(* Unblocked is written without a look at what was there.                  *)
MutNoWake(t) == /\ place[t] = "set"
                /\ m_blockedState' = [m_blockedState EXCEPT ![pEvent[t]] = "Unblocked"]
                /\ Return({t})
                /\ UNCHANGED <<m_event, counts, pEvent>>

(* The task does not count itself among those to wait for.                 *)
MutOneShort(t) ==
    /\ m_numWaiters' = m_numWaiters + 1
    /\ Step(t, "increment", IF m_numWaiters + 1 = m_numTasks - 1 THEN "call" ELSE "test")
    /\ UNCHANGED <<events, m_eventIndex, m_version, pEvent>>

-----------------------------------------------------------------------------
(* barrier::wait: the event is taken before the task counts itself.        *)
TakeEvent(t) == /\ rounds[t] < MaxRounds
                /\ Step(t, "outside", "increment")
                /\ pEvent' = [pEvent EXCEPT ![t] = m_eventIndex]
                /\ UNCHANGED <<events, counts>>

Increment(t) ==
    /\ m_numWaiters' = m_numWaiters + 1
    /\ Step(t, "increment", IF m_numWaiters + 1 = m_numTasks THEN "call" ELSE "test")
    /\ UNCHANGED <<events, m_eventIndex, m_version, pEvent>>

(* The last to come: the version, the callback, then the other event is    *)
(* made ready (EventWrapper::reset) and becomes the current one.           *)
CallBarrierMethod(t) == /\ Step(t, "call", "reset")
                        /\ m_version' = m_version + 1
                        /\ UNCHANGED <<events, m_eventIndex, m_numWaiters, pEvent>>

Reset(t) ==
    /\ \/ /\ Step(t, "reset", "clear")
          /\ m_event' = [m_event EXCEPT ![Other(m_eventIndex)] = FALSE]
          /\ UNCHANGED m_blockedState
       \/ /\ Step(t, "clear", "switch")
          /\ m_blockedState' = [m_blockedState EXCEPT ![Other(m_eventIndex)] = "None"]
          /\ UNCHANGED m_event
    /\ UNCHANGED <<counts, pEvent>>

Switch(t) == /\ Step(t, "switch", "zero")
             /\ m_eventIndex' = Other(m_eventIndex)
             /\ UNCHANGED <<events, m_numWaiters, m_version, pEvent>>

ZeroWaiters(t) == /\ Step(t, "zero", "set")
                  /\ m_numWaiters' = 0
                  /\ UNCHANGED <<events, m_eventIndex, m_version, pEvent>>

(* EventWrapper::set: the exchange, and event::set if somebody may sleep.  *)
SetUnblocked(t) ==
    /\ m_blockedState' = [m_blockedState EXCEPT ![pEvent[t]] = "Unblocked"]
    /\ \/ /\ m_blockedState[pEvent[t]] = "Blocked"
          /\ Step(t, "set", "wake")
       \/ /\ m_blockedState[pEvent[t]] # "Blocked"
          /\ place[t] = "set"
          /\ Return({t})
    /\ UNCHANGED <<m_event, counts, pEvent>>

WakeAll(t) == /\ place[t] = "wake"
              /\ m_event' = [m_event EXCEPT ![pEvent[t]] = TRUE]
              /\ Return(Asleep(pEvent[t]) \cup {t})
              /\ UNCHANGED <<m_blockedState, counts, pEvent>>

(* EventWrapper::wait: the test after spinning, the compare-and-exchange,  *)
(* and event::wait.                                                        *)
TestUnblocked(t) ==
    /\ \/ /\ m_blockedState[pEvent[t]] # "Unblocked"
          /\ Step(t, "test", "exchange")
       \/ /\ m_blockedState[pEvent[t]] = "Unblocked"
          /\ place[t] = "test"
          /\ Return({t})
    /\ UNCHANGED <<events, counts, pEvent>>

CompareExchange(t) ==
    /\ \/ /\ m_blockedState[pEvent[t]] # "Unblocked"
          /\ m_blockedState' = [m_blockedState EXCEPT ![pEvent[t]] = "Blocked"]
          /\ Step(t, "exchange", "sleep")
       \/ /\ m_blockedState[pEvent[t]] = "Unblocked"
          /\ place[t] = "exchange"
          /\ Return({t})
          /\ UNCHANGED m_blockedState
    /\ UNCHANGED <<m_event, counts, pEvent>>

Sleep(t) ==
    /\ \/ /\ ~m_event[pEvent[t]]
          /\ Step(t, "sleep", "asleep")
       \/ /\ m_event[pEvent[t]]
          /\ place[t] = "sleep"
          /\ Return({t})
    /\ UNCHANGED <<events, counts, pEvent>>

-----------------------------------------------------------------------------
Waiting(t) == \/ Increment(t) \/ CallBarrierMethod(t) \/ Reset(t) \/ Switch(t)
             \/ ZeroWaiters(t) \/ SetUnblocked(t) \/ WakeAll(t)
             \/ TestUnblocked(t) \/ CompareExchange(t) \/ Sleep(t)

BarrierNext == \E t \in Participants : TakeEvent(t) \/ Waiting(t)

BarrierSpec == BarrierInit /\ [][BarrierNext]_barrierVars

(* While tasks can go on inside wait, one of them does; none is made to    *)
(* call it.                                                                *)
SomeoneWaiting == \E t \in Participants : Waiting(t)
BarrierFairness == WF_barrierVars(SomeoneWaiting)

-----------------------------------------------------------------------------
Places == {"outside", "increment", "call", "reset", "clear", "switch", "zero",
           "set", "wake", "test", "exchange", "sleep", "asleep"}

(* Values of the state.                                                    *)
BarrierTypeOK ==
    /\ m_blockedState \in [0..1 -> {"None", "Blocked", "Unblocked"}]
    /\ m_event \in [0..1 -> BOOLEAN]
    /\ m_eventIndex \in 0..1
    /\ m_numWaiters \in 0..m_numTasks
    /\ m_version \in Nat
    /\ place \in [Participants -> Places]
    /\ pEvent \in [Participants -> 0..1]
    /\ rounds \in [Participants -> Nat]

(* Nobody returns from round k of wait before the callback of round k has  *)
(* run, and it does not run twice, whatever is in between: the barrier's   *)
(* version is the number of rounds, and no task is a round behind.         *)
InStep == \A t \in Participants : rounds[t] <= m_version /\ m_version <= rounds[t] + 1

(* The callback runs while every task is in wait and nobody is about to    *)
(* leave it: what the tasks did before the barrier is over.                *)
AloneInCallback ==
    \A t \in Participants : place[t] = "call" =>
        \A u \in Participants \ {t} : /\ place[u] \in {"test", "exchange", "sleep", "asleep"}
                               /\ pEvent[u] = pEvent[t]
                               /\ m_blockedState[pEvent[u]] # "Unblocked"

(* The tasks stay in step, and the callback has the barrier for itself.    *)
RoundsInStep == InStep /\ AloneInCallback

(* The tasks inside: those that have counted themselves and whose event    *)
(* has not been set.                                                       *)
Inside == {t \in Participants : /\ place[t] \notin {"outside", "increment"}
                         /\ m_blockedState[pEvent[t]] # "Unblocked"}

(* The barrier is a rendezvous, and lets everybody out when all are in.    *)
Meeting == INSTANCE Rendezvous WITH inside <- Inside
ImplementsRendezvous == Meeting!FairSpec

(* A task whose event has been set comes out, asleep or not.               *)
Leaving == {t \in Participants \ Inside : place[t] \notin {"outside", "increment"}}
EverybodyLeaves == []<>(Leaving = {})
=============================================================================

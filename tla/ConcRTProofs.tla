---------------------------- MODULE ConcRTProofs ----------------------------
(***************************************************************************)
(* Proofs about Barrier, for any finite set of tasks, about BoundedQueue,  *)
(* for any finite sets of threads, any items and any maxItems of at least  *)
(* one, and about Tasks, for any finite set of given tasks and every way   *)
(* of combining them. Like the instances in MCConcRT they share a module   *)
(* and nothing else.                                                       *)
(***************************************************************************)
EXTENDS Barrier, BoundedQueue, Tasks, FiniteSetTheorems, SequenceTheorems, TLAPS

-----------------------------------------------------------------------------
(* The barrier.                                                            *)

(* The inductive invariant.  While the last task to come does its part,    *)
(* from the callback to the set of the event, every other task waits for   *)
(* it.                                                                     *)
Stops == {"test", "exchange", "sleep", "asleep"}
Leads == {"call", "reset", "clear", "switch", "zero", "set"}

LeaderInv(t) ==
    /\ m_numWaiters = IF place[t] = "set" THEN 0 ELSE m_numTasks
    /\ pEvent[t] = IF place[t] \in {"zero", "set"} THEN Other(m_eventIndex) ELSE m_eventIndex
    /\ m_blockedState[pEvent[t]] # "Unblocked"
    /\ place[t] \in {"switch", "zero", "set"}
         => m_blockedState[Other(pEvent[t])] # "Unblocked"
    /\ place[t] = "clear" => ~m_event[Other(pEvent[t])]
    /\ m_version = IF place[t] = "call" THEN rounds[t] ELSE rounds[t] + 1
    /\ \A u \in Participants \ {t} : /\ place[u] \in Stops
                                     /\ pEvent[u] = pEvent[t]
                                     /\ rounds[u] = rounds[t]

(* At other times a task is outside, or in wait with the current event,    *)
(* or still leaves the last round with the other one.                      *)
Comes(t) == /\ place[t] \in {"outside", "increment"} \cup Stops
            /\ place[t] # "outside" => pEvent[t] = m_eventIndex
            /\ rounds[t] = m_version
Leaves(t) == /\ place[t] \in {"wake"} \cup Stops
             /\ pEvent[t] = Other(m_eventIndex)
             /\ m_blockedState[pEvent[t]] = "Unblocked"
             /\ rounds[t] + 1 = m_version

FreeInv == /\ m_numWaiters = Cardinality(Inside)
           /\ m_numWaiters < m_numTasks
           /\ m_blockedState[m_eventIndex] # "Unblocked"
           /\ \A t \in Participants : Comes(t) \/ Leaves(t)

Led == \E t \in Participants : place[t] \in Leads

EventsInv == \A e \in 0..1 : m_event[e] => m_blockedState[e] = "Unblocked"

BInv == /\ EventsInv
        /\ \A t \in Participants : place[t] \in Leads => LeaderInv(t)
        /\ ~Led => FreeInv

-----------------------------------------------------------------------------
LEMMA Counts == /\ m_numTasks \in Nat \ {0}
                /\ IsFiniteSet(Inside) /\ Cardinality(Inside) \in Nat
                /\ Cardinality(Inside) <= m_numTasks
                /\ Cardinality(Inside) = m_numTasks => Inside = Participants
<1>1. Cardinality(Participants) \in Nat /\ Cardinality(Participants) # 0
  BY TasksAssumption, FS_CardinalityType, FS_EmptySet
<1>2. Inside \in SUBSET Participants
  BY DEF Inside
<1> QED BY <1>1, <1>2, TasksAssumption, FS_Subset, FS_CardinalityType DEF m_numTasks

LEMMA BarrierInvInit == BarrierInit => BarrierTypeOK /\ BInv
<1> SUFFICES ASSUME BarrierInit PROVE BarrierTypeOK /\ BInv
  OBVIOUS
<1>1. BarrierTypeOK
  BY Counts DEF BarrierInit, BarrierTypeOK, Places
<1>2. Inside = {}
  BY DEF BarrierInit, Inside
<1>3. m_numWaiters = Cardinality(Inside) /\ m_numWaiters < m_numTasks
  BY <1>2, Counts, FS_EmptySet DEF BarrierInit
<1> QED
  BY <1>1, <1>3 DEF BarrierInit, BInv, EventsInv, Leads, FreeInv, Comes

(* Whoever is outside, or about to count itself, or leaves, proves that    *)
(* nobody leads.                                                           *)
LEMMA NobodyLeads ==
    ASSUME BInv, NEW t \in Participants, place[t] \notin Leads \cup Stops
    PROVE  ~Led /\ FreeInv
BY DEF BInv, Led, LeaderInv

LEMMA OneLeads ==
    ASSUME BInv, NEW t \in Participants, place[t] \in Leads,
           NEW u \in Participants, place[u] \in Leads
    PROVE  u = t
BY DEF BInv, LeaderInv, Stops, Leads

LEMMA TakeEventKeeps ==
    ASSUME BarrierTypeOK, BInv, NEW t \in Participants, TakeEvent(t)
    PROVE  BarrierTypeOK' /\ BInv'
<1>1. place[t] = "outside" /\ ~Led /\ FreeInv
  BY NobodyLeads DEF TakeEvent, Step, Leads, Stops
<1>2. BarrierTypeOK'
  BY DEF TakeEvent, Step, BarrierTypeOK, Places, events, counts, Other
<1>3. Inside' = Inside
  BY <1>1 DEF TakeEvent, Step, Inside, events, BarrierTypeOK
<1>4. FreeInv'
  BY <1>1, <1>3 DEF TakeEvent, Step, FreeInv, Comes, Leaves, BarrierTypeOK, events,
                    counts, Stops, m_numTasks
<1>5. ~Led'
  BY <1>1 DEF TakeEvent, Step, Led, Leads, BarrierTypeOK
<1> QED BY <1>2, <1>4, <1>5 DEF BInv, EventsInv, TakeEvent, events, Led

LEMMA IncrementKeeps ==
    ASSUME BarrierTypeOK, BInv, NEW t \in Participants, Increment(t)
    PROVE  BarrierTypeOK' /\ BInv'
<1>1. place[t] = "increment" /\ ~Led /\ FreeInv
  BY NobodyLeads DEF Increment, Step, Leads, Stops
<1>2. /\ place' = [place EXCEPT ![t] = IF m_numWaiters + 1 = m_numTasks
                                       THEN "call" ELSE "test"]
      /\ m_numWaiters' = m_numWaiters + 1
      /\ UNCHANGED <<events, m_eventIndex, m_version, pEvent, rounds>>
  BY DEF Increment, Step
<1>3. pEvent[t] = m_eventIndex /\ rounds[t] = m_version
  BY <1>1 DEF FreeInv, Comes, Leaves, Stops
<1>4. Inside' = Inside \cup {t} /\ t \notin Inside
  BY <1>1, <1>2, <1>3 DEF Inside, BarrierTypeOK, events, FreeInv
<1>5. m_numWaiters' = Cardinality(Inside')
  BY <1>1, <1>2, <1>4, Counts, FS_AddElement DEF FreeInv
<1>6. BarrierTypeOK'
  BY <1>1, <1>2, Counts DEF BarrierTypeOK, Places, events, FreeInv
<1>7. EventsInv'
  BY <1>2 DEF BInv, EventsInv, events
<1>8. CASE m_numWaiters + 1 = m_numTasks
  <2>1. Inside' = Participants
    <3>1. Inside' \in SUBSET Participants
      BY DEF Inside
    <3> QED BY <1>2, <1>5, <1>8, <3>1, TasksAssumption, FS_Subset DEF m_numTasks
  <2>2. ASSUME NEW u \in Participants \ {t}
        PROVE  place'[u] \in Stops /\ pEvent[u] = m_eventIndex /\ rounds[u] = m_version
    <3>1. /\ place'[u] = place[u] /\ u \in Inside
      BY <1>2, <1>4, <2>1 DEF BarrierTypeOK
    <3> QED BY <1>1, <3>1 DEF Inside, FreeInv, Comes, Leaves
  <2>3. LeaderInv(t)'
    BY <1>1, <1>2, <1>3, <1>8, <2>2
    DEF LeaderInv, BarrierTypeOK, FreeInv, events, m_numTasks
  <2>4. \A u \in Participants : place'[u] \in Leads => u = t
    BY <2>2 DEF Stops, Leads
  <2>5. Led'
    BY <1>2, <1>8 DEF Led, Leads, BarrierTypeOK
  <2> QED BY <1>6, <1>7, <2>3, <2>4, <2>5 DEF BInv
<1>9. CASE m_numWaiters + 1 # m_numTasks
  <2>1. m_numWaiters' < m_numTasks
    BY <1>1, <1>2, <1>9, Counts DEF FreeInv, BarrierTypeOK
  <2>2. ~Led'
    BY <1>1, <1>2, <1>9 DEF Led, Leads, BarrierTypeOK
  <2>3. \A u \in Participants : Comes(u)' \/ Leaves(u)'
    BY <1>1, <1>2, <1>3, <1>9 DEF FreeInv, Comes, Leaves, BarrierTypeOK, events, Stops
  <2>4. FreeInv'
    BY <1>1, <1>2, <1>5, <2>1, <2>3 DEF FreeInv, events, m_numTasks
  <2> QED BY <1>6, <1>7, <2>2, <2>4 DEF BInv, Led
<1> QED BY <1>8, <1>9

(* The part of the last task: callback, reset, switch, zero.               *)
LEMMA LeaderKeeps ==
    ASSUME BarrierTypeOK, BInv, NEW t \in Participants,
           CallBarrierMethod(t) \/ Reset(t) \/ Switch(t) \/ ZeroWaiters(t)
    PROVE  BarrierTypeOK' /\ BInv'
<1> USE DEF Step
<1>1. /\ place[t] \in {"call", "reset", "clear", "switch", "zero"}
      /\ place'[t] \in {"reset", "clear", "switch", "zero", "set"}
      /\ place' = [place EXCEPT ![t] = place'[t]]
      /\ UNCHANGED <<pEvent, rounds>>
  BY DEF CallBarrierMethod, Reset, Switch, ZeroWaiters, BarrierTypeOK
<1>2. LeaderInv(t) /\ \A u \in Participants : place'[u] \in Leads => u = t
  BY <1>1, OneLeads DEF BInv, Leads, BarrierTypeOK
<1>3. BarrierTypeOK'
  <2>1. CASE CallBarrierMethod(t)
    BY <2>1 DEF CallBarrierMethod, BarrierTypeOK, Places, events
  <2>2. CASE Reset(t)
    BY <2>2 DEF Reset, BarrierTypeOK, Places, counts
  <2>3. CASE Switch(t)
    BY <2>3 DEF Switch, BarrierTypeOK, Places, events, Other
  <2>4. CASE ZeroWaiters(t)
    BY <2>4, Counts DEF ZeroWaiters, BarrierTypeOK, Places, events
  <2> QED BY <2>1, <2>2, <2>3, <2>4
<1>4. EventsInv' /\ LeaderInv(t)'
  <2>1. CASE CallBarrierMethod(t)
    BY <1>2, <2>1 DEF CallBarrierMethod, LeaderInv, BInv, EventsInv, BarrierTypeOK,
                      events, m_numTasks
  <2>2. CASE Reset(t)
    BY <1>2, <2>2 DEF Reset, LeaderInv, BInv, EventsInv, BarrierTypeOK, counts, Other,
                      m_numTasks
  <2>3. CASE Switch(t)
    BY <1>2, <2>3 DEF Switch, LeaderInv, BInv, EventsInv, BarrierTypeOK, events, Other,
                      m_numTasks
  <2>4. CASE ZeroWaiters(t)
    BY <1>2, <2>4 DEF ZeroWaiters, LeaderInv, BInv, EventsInv, BarrierTypeOK, events,
                      Other, m_numTasks
  <2> QED BY <2>1, <2>2, <2>3, <2>4
<1>5. Led'
  BY <1>1 DEF Led, Leads
<1> QED BY <1>2, <1>3, <1>4, <1>5 DEF BInv

(* The event is set: all the others leave now.                             *)
LEMMA SetUnblockedKeeps ==
    ASSUME BarrierTypeOK, BInv, NEW t \in Participants, SetUnblocked(t)
    PROVE  BarrierTypeOK' /\ BInv'
<1>1. /\ place[t] = "set"
      /\ m_blockedState' = [m_blockedState EXCEPT ![pEvent[t]] = "Unblocked"]
      /\ UNCHANGED <<m_event, counts, pEvent>>
  BY DEF SetUnblocked, Step
<1>2. LeaderInv(t)
  BY <1>1 DEF BInv, Leads
<1>3. \/ /\ place' = [place EXCEPT ![t] = "wake"] /\ UNCHANGED rounds
      \/ /\ place' = [u \in Participants |-> IF u \in {t} THEN "outside" ELSE place[u]]
         /\ rounds' = [u \in Participants |-> IF u \in {t} THEN rounds[u] + 1
                                              ELSE rounds[u]]
  BY DEF SetUnblocked, Step, Return
<1>4. BarrierTypeOK'
  BY <1>1, <1>3 DEF BarrierTypeOK, Places, counts
<1>5. EventsInv'
  BY <1>1 DEF BInv, EventsInv, BarrierTypeOK
<1>6. \A u \in Participants \ {t} : Leaves(u)'
  BY <1>1, <1>2, <1>3 DEF LeaderInv, Leaves, BarrierTypeOK, counts, Stops
<1>7. Comes(t)' \/ Leaves(t)'
  BY <1>1, <1>2, <1>3 DEF LeaderInv, Comes, Leaves, BarrierTypeOK, counts
<1>8. Inside' = {}
  <2>1. \A u \in Participants : place'[u] = "outside" \/ m_blockedState'[pEvent'[u]] = "Unblocked"
    BY <1>1, <1>3, <1>6 DEF Leaves, BarrierTypeOK
  <2> QED BY <2>1 DEF Inside
<1>9. ~Led'
  BY <1>6, <1>7 DEF Led, Leads, Leaves, Comes, Stops
<1>10. FreeInv'
  <2>1. m_numWaiters' = 0 /\ Cardinality(Inside') = 0 /\ 0 < m_numTasks
    BY <1>1, <1>2, <1>8, Counts, FS_EmptySet DEF LeaderInv, counts
  <2>2. m_blockedState'[m_eventIndex'] # "Unblocked"
    BY <1>1, <1>2 DEF LeaderInv, counts, BarrierTypeOK, Other
  <2> QED BY <1>6, <1>7, <2>1, <2>2 DEF FreeInv, m_numTasks
<1> QED BY <1>4, <1>5, <1>9, <1>10 DEF BInv, Led

(* Tasks that leave go outside.                                            *)
LEMMA ReturnKeeps ==
    ASSUME BarrierTypeOK, BInv, NEW ts \in SUBSET Participants, Return(ts),
           \A u \in ts : Leaves(u), ts # {},
           UNCHANGED <<m_blockedState, counts, pEvent>>,
           m_event' \in [0..1 -> BOOLEAN], EventsInv'
    PROVE  BarrierTypeOK' /\ BInv'
<1>1. ~Led /\ FreeInv
  <2>1. PICK u \in ts : Leaves(u)
    OBVIOUS
  <2>2. ASSUME NEW t \in Participants, place[t] \in Leads PROVE FALSE
    <3>1. LeaderInv(t) /\ u # t
      BY <2>1, <2>2 DEF BInv, Leaves, Leads, Stops
    <3> QED BY <2>1, <3>1 DEF LeaderInv, Leaves
  <2> QED BY <2>2 DEF BInv, Led
<1>2. BarrierTypeOK'
  BY DEF Return, BarrierTypeOK, Places, counts
<1>3. Inside' = Inside
  BY DEF Inside, Return, Leaves
<1>4. \A u \in Participants : Comes(u)' \/ Leaves(u)'
  BY <1>1 DEF FreeInv, Return, Comes, Leaves, BarrierTypeOK, counts
<1>5. ~Led'
  BY <1>1 DEF Led, Leads, Return
<1> QED BY <1>1, <1>2, <1>3, <1>4, <1>5 DEF BInv, FreeInv, Led, counts, m_numTasks

LEMMA WakeAllKeeps ==
    ASSUME BarrierTypeOK, BInv, NEW t \in Participants, WakeAll(t)
    PROVE  BarrierTypeOK' /\ BInv'
<1>1. place[t] = "wake" /\ FreeInv
  BY NobodyLeads DEF WakeAll, Leads, Stops
<1>2. Leaves(t)
  BY <1>1 DEF FreeInv, Comes, Stops
<1>3. \A u \in Asleep(pEvent[t]) : Leaves(u)
  BY <1>1, <1>2 DEF FreeInv, Comes, Leaves, Asleep, Other, BarrierTypeOK
<1>4. m_event' \in [0..1 -> BOOLEAN] /\ EventsInv'
  BY <1>2 DEF WakeAll, Leaves, BInv, EventsInv, BarrierTypeOK
<1>5. Asleep(pEvent[t]) \cup {t} \in SUBSET Participants
  BY DEF Asleep
<1> QED BY <1>2, <1>3, <1>4, <1>5, ReturnKeeps DEF WakeAll

(* A task that waits goes on, and may say that it does.                    *)
LEMMA WaitingKeeps ==
    ASSUME BarrierTypeOK, BInv, NEW t \in Participants,
           TestUnblocked(t) \/ CompareExchange(t) \/ Sleep(t)
    PROVE  BarrierTypeOK' /\ BInv'
<1>1. /\ place[t] \in Stops
      /\ UNCHANGED <<m_event, counts, pEvent>>
  BY DEF TestUnblocked, CompareExchange, Sleep, Step, Stops, events
<1>2. CASE /\ Return({t}) /\ m_blockedState[pEvent[t]] = "Unblocked"
           /\ UNCHANGED m_blockedState
  <2>1. Leaves(t)
    <3>1. ~Led
      BY <1>1, <1>2 DEF BInv, Led, LeaderInv, Leads, Stops
    <3> QED BY <1>1, <1>2, <3>1 DEF BInv, FreeInv, Comes, Stops
  <2>2. EventsInv' /\ m_event' \in [0..1 -> BOOLEAN]
    BY <1>1, <1>2 DEF BInv, EventsInv, BarrierTypeOK
  <2> QED BY <1>1, <1>2, <2>1, <2>2, ReturnKeeps
<1>3. ASSUME NEW to \in Stops, place' = [place EXCEPT ![t] = to], UNCHANGED rounds,
             \/ UNCHANGED m_blockedState
             \/ /\ m_blockedState[pEvent[t]] # "Unblocked"
                /\ m_blockedState' = [m_blockedState EXCEPT ![pEvent[t]] = "Blocked"]
      PROVE  BarrierTypeOK' /\ BInv'
  <2>1. BarrierTypeOK'
    BY <1>1, <1>3 DEF BarrierTypeOK, Places, counts, Stops
  <2>2. \A e \in 0..1 : m_blockedState'[e] = "Unblocked" <=> m_blockedState[e] = "Unblocked"
    BY <1>3 DEF BarrierTypeOK
  <2>3. \A u \in Participants : /\ place'[u] \in Leads <=> place[u] \in Leads
                                /\ place'[u] \in Leads => place'[u] = place[u]
    BY <1>1, <1>3 DEF BarrierTypeOK, Leads, Stops
  <2>4. EventsInv'
    BY <1>1, <2>2 DEF BInv, EventsInv
  <2>5. ASSUME NEW u \in Participants, place'[u] \in Leads PROVE LeaderInv(u)'
    <3>1. LeaderInv(u) /\ place'[u] = place[u] /\ u # t
      BY <1>1, <2>3, <2>5 DEF BInv, Leads, Stops
    <3>2. pEvent[u] \in 0..1 /\ Other(pEvent[u]) \in 0..1
      BY DEF BarrierTypeOK, Other
    <3>3. \A v \in Participants \ {u} : place'[v] \in Stops
      BY <1>3, <3>1 DEF LeaderInv, BarrierTypeOK
    <3> QED BY <1>1, <1>3, <2>2, <3>1, <3>2, <3>3 DEF LeaderInv, counts, m_numTasks
  <2>6. ASSUME ~Led' PROVE FreeInv'
    <3>1. FreeInv
      BY <2>3, <2>6 DEF BInv, Led
    <3>2. \A u \in Participants :
             /\ place'[u] \in {"outside", "increment"} <=> place[u] \in {"outside", "increment"}
             /\ place'[u] # place[u] => u = t /\ place[u] \in Stops /\ place'[u] \in Stops
             /\ pEvent[u] \in 0..1
      BY <1>1, <1>3 DEF BarrierTypeOK, Stops
    <3>3. Inside' = Inside
      BY <1>1, <2>2, <3>2 DEF Inside
    <3>4. \A u \in Participants : Comes(u) => Comes(u)'
      BY <1>1, <1>3, <3>2 DEF Comes, counts, Stops
    <3>5. \A u \in Participants : Leaves(u) => Leaves(u)'
      BY <1>1, <1>3, <2>2, <3>2 DEF Leaves, counts, Stops
    <3>6. m_eventIndex \in 0..1
      BY DEF BarrierTypeOK
    <3> QED BY <1>1, <2>2, <3>1, <3>3, <3>4, <3>5, <3>6 DEF FreeInv, counts, m_numTasks
  <2> QED BY <2>1, <2>4, <2>5, <2>6 DEF BInv
<1>4. CASE TestUnblocked(t)
  BY <1>2, <1>3, <1>4 DEF TestUnblocked, Step, events, Stops
<1>5. CASE CompareExchange(t)
  BY <1>2, <1>3, <1>5 DEF CompareExchange, Step, Stops
<1>6. CASE Sleep(t)
  <2>1. m_event[pEvent[t]] => m_blockedState[pEvent[t]] = "Unblocked"
    BY DEF BInv, EventsInv, BarrierTypeOK
  <2> QED BY <1>2, <1>3, <1>6, <2>1 DEF Sleep, Step, events, Stops
<1> QED BY <1>4, <1>5, <1>6

LEMMA BarrierInvAlways == BarrierSpec => [](BarrierTypeOK /\ BInv)
<1>1. BarrierTypeOK /\ BInv /\ [BarrierNext]_barrierVars => BarrierTypeOK' /\ BInv'
  <2> SUFFICES ASSUME BarrierTypeOK, BInv, [BarrierNext]_barrierVars
               PROVE  BarrierTypeOK' /\ BInv'
    OBVIOUS
  <2>1. CASE BarrierNext
    BY <2>1, TakeEventKeeps, IncrementKeeps, LeaderKeeps, SetUnblockedKeeps,
       WakeAllKeeps, WaitingKeeps DEF BarrierNext, Waiting
  <2>2. CASE UNCHANGED barrierVars
    BY <2>2 DEF barrierVars, events, counts, BarrierTypeOK, BInv, EventsInv, Led,
                LeaderInv, FreeInv, Comes, Leaves, Inside, m_numTasks
  <2> QED BY <2>1, <2>2
<1> QED BY <1>1, BarrierInvInit, PTL DEF BarrierSpec

-----------------------------------------------------------------------------
(* The state has the values BarrierTypeOK gives it; in particular no more  *)
(* tasks are counted than there are.                                       *)
THEOREM BarrierTypeCorrect == BarrierSpec => []BarrierTypeOK
BY BarrierInvAlways, PTL

(* The tasks stay in step, and the callback has the barrier for itself,    *)
(* for any number of tasks and rounds.                                     *)
THEOREM RoundsAlwaysInStep == BarrierSpec => []RoundsInStep
<1>1. BarrierTypeOK /\ BInv => RoundsInStep
  <2> SUFFICES ASSUME BarrierTypeOK, BInv PROVE RoundsInStep
    OBVIOUS
  <2>1. InStep
    <3>1. CASE Led
      <4>1. PICK t \in Participants : place[t] \in Leads /\ LeaderInv(t)
        BY <3>1 DEF Led, BInv
      <4> QED BY <4>1 DEF InStep, LeaderInv, BarrierTypeOK
    <3>2. CASE ~Led
      BY <3>2 DEF BInv, FreeInv, Comes, Leaves, InStep, BarrierTypeOK
    <3> QED BY <3>1, <3>2
  <2>2. AloneInCallback
    BY DEF BInv, AloneInCallback, LeaderInv, Leads, Stops
  <2> QED BY <2>1, <2>2 DEF RoundsInStep
<1> QED BY <1>1, BarrierInvAlways, PTL

(* Tasks come in one by one, and go out together when all are in: the      *)
(* barrier is a rendezvous.                                                *)
THEOREM ImplementsRendezvousSafety == BarrierSpec => Meeting!Spec
<1>1. BarrierInit => Meeting!Init
  BY DEF BarrierInit, Meeting!Init, Inside
<1>2. BarrierTypeOK /\ BInv /\ [BarrierNext]_barrierVars => [Meeting!Next]_Inside
  <2> SUFFICES ASSUME BarrierTypeOK, BInv, [BarrierNext]_barrierVars
               PROVE  Meeting!Next \/ Inside' = Inside
    OBVIOUS
  <2>1. ASSUME NEW t \in Participants, TakeEvent(t) PROVE Inside' = Inside
    BY <2>1 DEF TakeEvent, Step, Inside, events, BarrierTypeOK
  <2>2. ASSUME NEW t \in Participants, Increment(t) PROVE Meeting!Next
    <3>1. FreeInv /\ place[t] = "increment"
      BY <2>2, NobodyLeads DEF Increment, Step, Leads, Stops
    <3>2. Inside' = Inside \cup {t} /\ t \notin Inside
      BY <2>2, <3>1 DEF Increment, Step, Inside, BarrierTypeOK, events, FreeInv, Comes,
                        Leaves, Stops
    <3> QED BY <3>2 DEF Meeting!Next, Meeting!ComeIn
  <2>3. ASSUME NEW t \in Participants,
               CallBarrierMethod(t) \/ Reset(t) \/ Switch(t) \/ ZeroWaiters(t)
        PROVE  Inside' = Inside
    <3>1. place[t] \in Leads /\ LeaderInv(t)
      BY <2>3 DEF CallBarrierMethod, Reset, Switch, ZeroWaiters, Step, Leads, BInv
    <3>2. \A u \in Participants : pEvent[u] = pEvent[t]
      BY <3>1 DEF LeaderInv
    <3>3. m_blockedState'[pEvent[t]] = m_blockedState[pEvent[t]] /\ pEvent' = pEvent
      BY <2>3, <3>1 DEF CallBarrierMethod, Reset, Switch, ZeroWaiters, Step, events,
                        counts, LeaderInv, Other, BarrierTypeOK
    <3>4. \A u \in Participants : place'[u] \in {"outside", "increment"}
                                   <=> place[u] \in {"outside", "increment"}
      BY <2>3 DEF CallBarrierMethod, Reset, Switch, ZeroWaiters, Step, BarrierTypeOK
    <3> QED BY <3>2, <3>3, <3>4 DEF Inside
  <2>4. ASSUME NEW t \in Participants, SetUnblocked(t) PROVE Meeting!Next
    <3>1. place[t] = "set" /\ LeaderInv(t)
      BY <2>4 DEF SetUnblocked, Step, Leads, BInv
    <3>2. Inside = Participants
      BY <3>1 DEF Inside, LeaderInv, Stops
    <3>3. \A u \in Participants : pEvent'[u] = pEvent[t] /\ pEvent[u] = pEvent[t]
      BY <2>4, <3>1 DEF SetUnblocked, LeaderInv
    <3>4. m_blockedState'[pEvent[t]] = "Unblocked"
      BY <2>4 DEF SetUnblocked, BarrierTypeOK
    <3>5. Inside' = {}
      BY <3>3, <3>4 DEF Inside
    <3> QED BY <3>2, <3>5 DEF Meeting!Next, Meeting!GoOut
  <2>5. ASSUME NEW t \in Participants, WakeAll(t) PROVE Inside' = Inside
    <3>1. FreeInv /\ place[t] = "wake"
      BY <2>5, NobodyLeads DEF WakeAll, Leads, Stops
    <3>2. Leaves(t)
      BY <3>1 DEF FreeInv, Comes, Stops
    <3> QED BY <2>5, <3>2 DEF WakeAll, Return, Asleep, Leaves, Inside
  <2>6. ASSUME NEW t \in Participants, TestUnblocked(t) \/ Sleep(t)
        PROVE  Inside' = Inside
    <3>1. m_event[pEvent[t]] => m_blockedState[pEvent[t]] = "Unblocked"
      BY DEF BInv, EventsInv, BarrierTypeOK
    <3>2. UNCHANGED <<events, pEvent>>
      BY <2>6 DEF TestUnblocked, Sleep
    <3>3. \A u \in Participants : place'[u] = place[u] \/ u = t
      BY <2>6 DEF TestUnblocked, Sleep, Step, Return, BarrierTypeOK
    <3>4. /\ place[t] \notin {"outside", "increment"}
          /\ \/ place'[t] \notin {"outside", "increment"}
             \/ m_blockedState[pEvent[t]] = "Unblocked"
      BY <2>6, <3>1 DEF TestUnblocked, Sleep, Step, Return, BarrierTypeOK
    <3> QED BY <3>2, <3>3, <3>4 DEF Inside, events
  <2>7. ASSUME NEW t \in Participants, CompareExchange(t) PROVE Inside' = Inside
    <3>1. \A e \in 0..1 : m_blockedState'[e] = "Unblocked" <=> m_blockedState[e] = "Unblocked"
      BY <2>7 DEF CompareExchange, BarrierTypeOK
    <3>2. \A u \in Participants : pEvent'[u] = pEvent[u] /\ pEvent[u] \in 0..1
      BY <2>7 DEF CompareExchange, BarrierTypeOK
    <3>3. \A u \in Participants : place'[u] = place[u] \/ u = t
      BY <2>7 DEF CompareExchange, Step, Return, BarrierTypeOK
    <3>4. /\ place[t] = "exchange"
          /\ place'[t] = "sleep" \/ m_blockedState[pEvent[t]] = "Unblocked"
      BY <2>7 DEF CompareExchange, Step, Return, BarrierTypeOK
    <3> QED BY <3>1, <3>2, <3>3, <3>4 DEF Inside
  <2>8. CASE UNCHANGED barrierVars
    BY <2>8 DEF barrierVars, events, Inside
  <2> QED BY <2>1, <2>2, <2>3, <2>4, <2>5, <2>6, <2>7, <2>8 DEF BarrierNext, Waiting
<1> QED BY <1>1, <1>2, BarrierInvAlways, PTL DEF BarrierSpec, Meeting!Spec, Meeting!vars

-----------------------------------------------------------------------------
(* The semaphore and the bounded queue.                                    *)

(* The threads whose nodes are in a queue of waiters.                      *)
Elems(q) == {q[i] : i \in 1..Len(q)}
Once(q) == \A i, j \in 1..Len(q) : q[i] = q[j] => i = j

LEMMA ElemsOfAppend ==
    ASSUME NEW S, NEW q \in Seq(S), NEW t \in S, Once(q), t \notin Elems(q)
    PROVE  /\ Append(q, t) \in Seq(S)
           /\ Append(q, t) # <<>>
           /\ Elems(Append(q, t)) = Elems(q) \cup {t}
           /\ Once(Append(q, t))
<1> DEFINE r == Append(q, t)
<1>1. /\ r \in Seq(S) /\ Len(q) \in Nat /\ Len(r) = Len(q) + 1
      /\ \A i \in 1..Len(q) : r[i] = q[i]
      /\ r[Len(q) + 1] = t
      /\ r # <<>>
  BY AppendProperties, LenProperties
<1> HIDE DEF r
<1>2. Elems(r) = Elems(q) \cup {t}
  <2>1. ASSUME NEW i \in 1..Len(r) PROVE r[i] \in Elems(q) \cup {t}
    BY <1>1 DEF Elems
  <2>2. ASSUME NEW i \in 1..Len(q) PROVE q[i] \in Elems(r)
    BY <1>1 DEF Elems
  <2>3. t \in Elems(r)
    BY <1>1 DEF Elems
  <2> QED BY <2>1, <2>2, <2>3 DEF Elems
<1>3. Once(r)
  <2> SUFFICES ASSUME NEW i \in 1..Len(r), NEW j \in 1..Len(r), r[i] = r[j] PROVE i = j
    BY DEF Once
  <2>1. CASE i \in 1..Len(q) /\ j \in 1..Len(q)
    BY <1>1, <2>1 DEF Once
  <2>2. CASE i = Len(q) + 1 /\ j \in 1..Len(q)
    BY <1>1, <2>2 DEF Elems
  <2>3. CASE j = Len(q) + 1 /\ i \in 1..Len(q)
    BY <1>1, <2>3 DEF Elems
  <2> QED BY <1>1, <2>1, <2>2, <2>3
<1> QED BY <1>1, <1>2, <1>3 DEF r

LEMMA ElemsOfRemoveAt ==
    ASSUME NEW S, NEW q \in Seq(S), NEW k \in 1..Len(q), Once(q)
    PROVE  /\ Full!RemoveAt(q, k) \in Seq(S)
           /\ Elems(Full!RemoveAt(q, k)) = Elems(q) \ {q[k]}
           /\ Once(Full!RemoveAt(q, k))
<1>0. Len(q) \in Nat
  BY LenProperties
<1>e. \A i \in 1..Len(q) : q[i] \in S
  BY ElementOfSeq
<1> DEFINE a == SubSeq(q, 1, k - 1)
           b == SubSeq(q, k + 1, Len(q))
           r == a \o b
<1>1. /\ a \in Seq(S) /\ Len(a) = k - 1
      /\ \A i \in 1..(k - 1) : a[i] = q[i]
  BY <1>0, <1>e, SubSeqProperties
<1>2. /\ b \in Seq(S) /\ Len(b) = Len(q) - k
      /\ \A i \in 1..(Len(q) - k) : b[i] = q[k + i]
  BY <1>0, <1>e, SubSeqProperties
<1>3. /\ r \in Seq(S) /\ Len(r) = Len(q) - 1
      /\ \A i \in 1..(Len(q) - 1) : r[i] = IF i < k THEN q[i] ELSE q[i + 1]
  <2> HIDE DEF a, b
  <2>1. /\ r \in Seq(S) /\ Len(r) = Len(a) + Len(b)
        /\ \A i \in 1..Len(a) + Len(b) :
              r[i] = IF i <= Len(a) THEN a[i] ELSE b[i - Len(a)]
    BY <1>1, <1>2, ConcatProperties
  <2>2. ASSUME NEW i \in 1..(Len(q) - 1) PROVE r[i] = IF i < k THEN q[i] ELSE q[i + 1]
    <3>1. CASE i < k
      BY <1>0, <1>1, <1>2, <2>1, <3>1
    <3>2. CASE i >= k
      <4>1. /\ i - Len(a) \in 1..(Len(q) - k) /\ k + (i - Len(a)) = i + 1
            /\ ~(i <= Len(a)) /\ ~(i < k)
            /\ i \in 1..Len(a) + Len(b)
        BY <1>0, <1>1, <1>2, <3>2
      <4>2. r[i] = b[i - Len(a)]
        BY <2>1, <4>1
      <4>3. b[i - Len(a)] = q[i + 1]
        BY <1>2, <4>1
      <4> QED BY <4>1, <4>2, <4>3
    <3>3. i < k \/ i >= k
      BY <1>0
    <3> QED BY <3>1, <3>2, <3>3
  <2> QED BY <1>0, <1>1, <1>2, <2>1, <2>2
<1> HIDE DEF a, b, r
<1>4. Elems(r) = Elems(q) \ {q[k]}
  <2>1. ASSUME NEW i \in 1..Len(r) PROVE r[i] \in Elems(q) \ {q[k]}
    <3>1. PICK j \in 1..Len(q) : r[i] = q[j] /\ j # k
      <4>1. CASE i < k
        BY <1>0, <1>3, <4>1
      <4>2. CASE i >= k
        <5>1. i \in 1..(Len(q) - 1) /\ i + 1 \in 1..Len(q) /\ i + 1 # k /\ ~(i < k)
          BY <1>0, <1>3, <4>2
        <5>2. r[i] = q[i + 1]
          BY <1>3, <5>1
        <5> QED BY <5>1, <5>2
      <4> QED BY <1>0, <1>3, <4>1, <4>2
    <3>2. q[j] \in Elems(q)
      BY DEF Elems
    <3>3. q[j] # q[k]
      BY <3>1 DEF Once
    <3> QED BY <3>1, <3>2, <3>3
  <2>2. ASSUME NEW i \in 1..Len(q), i # k PROVE q[i] \in Elems(r)
    <3>1. CASE i < k
      BY <1>0, <1>3, <3>1 DEF Elems
    <3>2. CASE i > k
      <4>1. i - 1 \in 1..(Len(q) - 1) /\ ~(i - 1 < k) /\ (i - 1) + 1 = i
        BY <1>0, <3>2
      <4>2. r[i - 1] = q[i]
        BY <1>3, <4>1
      <4> QED BY <1>3, <4>1, <4>2 DEF Elems
    <3> QED BY <2>2, <3>1, <3>2
  <2> QED BY <2>1, <2>2 DEF Elems
<1>5. Once(r)
  BY <1>0, <1>3 DEF Once
<1> QED BY <1>3, <1>4, <1>5 DEF Full!RemoveAt, a, b, r

LEMMA ElemsOfRest ==
    ASSUME NEW S, NEW q \in Seq(S), q # <<>>, Once(q)
    PROVE  /\ Len(q) >= 1 /\ q[1] \in Elems(q) /\ q[1] \in S
           /\ SubSeq(q, 2, Len(q)) \in Seq(S)
           /\ Elems(SubSeq(q, 2, Len(q))) = Elems(q) \ {q[1]}
           /\ Once(SubSeq(q, 2, Len(q)))
           /\ SubSeq(q, 1, 1) = <<q[1]>>
<1>0. Len(q) \in Nat /\ Len(q) >= 1
  BY LenProperties, EmptySeq
<1>e. \A i \in 1..Len(q) : q[i] \in S
  BY ElementOfSeq
<1> DEFINE r == SubSeq(q, 2, Len(q))
<1>1. /\ r \in Seq(S) /\ Len(r) = Len(q) - 1
      /\ \A i \in 1..(Len(q) - 1) : r[i] = q[i + 1]
  <2>1. /\ 2 \in 1..(Len(q) + 1) /\ Len(q) \in 1..Len(q)
        /\ \A i \in 2..Len(q) : q[i] \in S
        /\ Len(q) - 2 + 1 = Len(q) - 1
    BY <1>0, <1>e
  <2> QED BY <1>0, <2>1, SubSeqProperties
<1>2. q[1] \in S /\ q[1] \in Elems(q)
  BY <1>0, <1>e DEF Elems
<1>3. SubSeq(q, 1, 1) = <<q[1]>>
  <2>1. /\ SubSeq(q, 1, 1) \in Seq(S) /\ Len(SubSeq(q, 1, 1)) = 1
        /\ SubSeq(q, 1, 1)[1] = q[1]
    BY <1>0, <1>e, SubSeqProperties
  <2>2. <<q[1]>> \in Seq(S) /\ Len(<<q[1]>>) = 1 /\ <<q[1]>>[1] = q[1]
    BY <1>2
  <2>3. \A i \in 1..1 : SubSeq(q, 1, 1)[i] = <<q[1]>>[i]
    BY <2>1, <2>2
  <2> QED BY <2>1, <2>2, <2>3, SeqEqual
<1> HIDE DEF r
<1>4. Elems(r) = Elems(q) \ {q[1]}
  <2>1. ASSUME NEW i \in 1..Len(r) PROVE r[i] \in Elems(q) \ {q[1]}
    BY <1>0, <1>1 DEF Elems, Once
  <2>2. ASSUME NEW i \in 1..Len(q), i # 1 PROVE q[i] \in Elems(r)
    <3>1. i - 1 \in 1..(Len(q) - 1) /\ (i - 1) + 1 = i
      BY <1>0, <2>2
    <3>2. r[i - 1] = q[i]
      BY <1>1, <3>1
    <3> QED BY <1>1, <3>1, <3>2 DEF Elems
  <2> QED BY <2>1, <2>2 DEF Elems
<1>5. Once(r)
  BY <1>0, <1>1 DEF Once
<1> QED BY <1>0, <1>1, <1>2, <1>3, <1>4, <1>5 DEF r

-----------------------------------------------------------------------------
(* Who is counted where.                                                   *)
Waits == {"waiting", "timedout", "waitagain"}
ChosenP == {t \in Producers : pc[t] \in Waits /\ t \notin Elems(fullQueue)}
ChosenT == {t \in Takers : pc[t] \in Waits /\ t \notin Elems(emptyQueue)}

(* The values of the state; their upper bounds follow from the counts.     *)
Types == /\ m_queue \in Seq(Items)
         /\ fullVal \in Nat /\ emptyVal \in Nat
         /\ fullQueue \in Seq(Producers) /\ emptyQueue \in Seq(Takers)
         /\ signalled \subseteq Threads
         /\ pNode \in [Threads -> Seq(Threads)]
         /\ pc \in [Threads -> Waits \cup {"idle", "push", "pop", "count", "signal"}]

(* In the queues are nodes of threads that wait, each at most once, and    *)
(* only when there are no permits.                                         *)
Waiters == /\ Once(fullQueue) /\ Once(emptyQueue)
           /\ \A t \in Elems(fullQueue) : pc[t] = "waiting"
           /\ \A t \in Elems(emptyQueue) : pc[t] \in {"waiting", "timedout"}
           /\ NoBarging

(* A node dequeued is either about to be signalled, by one thread, or has  *)
(* been, and its thread is still in wait().                                *)
Nodes == /\ \A t \in Threads : pNode[t] # <<>> =>
               /\ pc[t] = "signal"
               /\ Len(pNode[t]) = 1
               /\ pNode[t][1] \in (ChosenP \cup ChosenT) \ signalled
         /\ \A t, u \in Threads :
               pNode[t] # <<>> /\ pNode[u] # <<>> /\ pNode[t][1] = pNode[u][1] => t = u
         /\ signalled \subseteq ChosenP \cup ChosenT

WInv == Types /\ Waiters /\ Nodes

LEMMA Disjoint == Producers \cap Takers = {} /\ Threads = Producers \cup Takers
BY QueueThreadsAssumption DEF Takers, Threads

(* A release of one permit: the first waiter, if there is one, is dequeued *)
(* and kept for the signal.                                                *)
LEMMA EmptyReleased ==
    ASSUME WInv, NEW t \in Threads, Empty!Increment(t, 1)
    PROVE  \/ /\ emptyQueue = <<>> /\ emptyQueue' = <<>>
              /\ emptyVal' = emptyVal + 1
              /\ pNode' = [pNode EXCEPT ![t] = <<>>]
           \/ /\ emptyQueue # <<>> /\ emptyVal' = emptyVal
              /\ emptyQueue[1] \in Elems(emptyQueue) /\ emptyQueue[1] \in Takers
              /\ emptyQueue' \in Seq(Takers)
              /\ Elems(emptyQueue') = Elems(emptyQueue) \ {emptyQueue[1]}
              /\ Once(emptyQueue')
              /\ pNode' = [pNode EXCEPT ![t] = <<emptyQueue[1]>>]
<1>1. Len(emptyQueue) \in Nat /\ emptyQueue \in Seq(Takers) /\ emptyVal \in Nat
  BY LenProperties DEF WInv, Types
<1>2. CASE emptyQueue = <<>>
  <2>1. Empty!MinOf(1, Len(emptyQueue)) = 0 /\ Len(emptyQueue) = 0
    BY <1>2 DEF Empty!MinOf
  <2>2. SubSeq(emptyQueue, 1, 0) = <<>>
    BY SubSeqEmpty
  <2> DEFINE n == Empty!MinOf(1, Len(emptyQueue))
  <2>3. /\ emptyQueue' = SubSeq(emptyQueue, n + 1, Len(emptyQueue))
        /\ emptyVal' = emptyVal + (1 - n)
        /\ pNode' = [pNode EXCEPT ![t] = SubSeq(emptyQueue, 1, n)]
    BY DEF Empty!Increment
  <2>4. n = 0 /\ Len(emptyQueue) = 0
    BY <2>1
  <2> HIDE DEF n
  <2>5. n + 1 = 1 /\ 1 - n = 1
    BY <2>4
  <2>6. SubSeq(emptyQueue, 1, n) = <<>> /\ SubSeq(emptyQueue, n + 1, Len(emptyQueue)) = <<>>
    BY <2>2, <2>4, <2>5
  <2> QED BY <1>1, <1>2, <2>3, <2>5, <2>6
<1>3. CASE emptyQueue # <<>>
  <2>1. /\ Len(emptyQueue) >= 1 /\ emptyQueue[1] \in Elems(emptyQueue)
        /\ emptyQueue[1] \in Takers
        /\ SubSeq(emptyQueue, 2, Len(emptyQueue)) \in Seq(Takers)
        /\ Elems(SubSeq(emptyQueue, 2, Len(emptyQueue))) = Elems(emptyQueue) \ {emptyQueue[1]}
        /\ Once(SubSeq(emptyQueue, 2, Len(emptyQueue)))
        /\ SubSeq(emptyQueue, 1, 1) = <<emptyQueue[1]>>
    BY <1>1, <1>3, ElemsOfRest DEF WInv, Waiters
  <2>2. Empty!MinOf(1, Len(emptyQueue)) = 1
    <3>1. Len(emptyQueue) >= 1 /\ Len(emptyQueue) \in Nat
      BY <1>1, <2>1
    <3> DEFINE m == Len(emptyQueue)
    <3>2. m >= 1 /\ m \in Nat
      BY <3>1
    <3> HIDE DEF m
    <3>3. (IF 1 < m THEN 1 ELSE m) = 1
      BY <3>2
    <3> QED BY <3>3 DEF Empty!MinOf, m
  <2>3. /\ emptyQueue' = SubSeq(emptyQueue, 2, Len(emptyQueue))
        /\ emptyVal' = emptyVal
        /\ pNode' = [pNode EXCEPT ![t] = <<emptyQueue[1]>>]
    <3> DEFINE n == Empty!MinOf(1, Len(emptyQueue))
    <3>1. /\ emptyQueue' = SubSeq(emptyQueue, n + 1, Len(emptyQueue))
          /\ emptyVal' = emptyVal + (1 - n)
          /\ pNode' = [pNode EXCEPT ![t] = SubSeq(emptyQueue, 1, n)]
      BY DEF Empty!Increment
    <3>2. n = 1
      BY <2>2
    <3> HIDE DEF n
    <3>3. n + 1 = 2 /\ 1 - n = 0
      BY <3>2
    <3>4. SubSeq(emptyQueue, 1, n) = <<emptyQueue[1]>>
      BY <2>1, <3>2
    <3>5. emptyQueue' = SubSeq(emptyQueue, 2, Len(emptyQueue))
      BY <3>1, <3>3, Zenon
    <3>6. emptyVal' = emptyVal
      BY <1>1, <3>1, <3>3
    <3>7. pNode' = [pNode EXCEPT ![t] = <<emptyQueue[1]>>]
      BY <3>1, <3>4, Zenon
    <3> QED BY <3>5, <3>6, <3>7
  <2> QED BY <1>3, <2>1, <2>3
<1> QED BY <1>2, <1>3

LEMMA FullReleased ==
    ASSUME WInv, NEW t \in Threads, Full!Increment(t, 1)
    PROVE  \/ /\ fullQueue = <<>> /\ fullQueue' = <<>>
              /\ fullVal' = fullVal + 1
              /\ pNode' = [pNode EXCEPT ![t] = <<>>]
           \/ /\ fullQueue # <<>> /\ fullVal' = fullVal
              /\ fullQueue[1] \in Elems(fullQueue) /\ fullQueue[1] \in Producers
              /\ fullQueue' \in Seq(Producers)
              /\ Elems(fullQueue') = Elems(fullQueue) \ {fullQueue[1]}
              /\ Once(fullQueue')
              /\ pNode' = [pNode EXCEPT ![t] = <<fullQueue[1]>>]
<1>1. Len(fullQueue) \in Nat /\ fullQueue \in Seq(Producers) /\ fullVal \in Nat
  BY LenProperties DEF WInv, Types
<1>2. CASE fullQueue = <<>>
  <2>1. Full!MinOf(1, Len(fullQueue)) = 0 /\ Len(fullQueue) = 0
    BY <1>2 DEF Full!MinOf
  <2>2. SubSeq(fullQueue, 1, 0) = <<>>
    BY SubSeqEmpty
  <2> DEFINE n == Full!MinOf(1, Len(fullQueue))
  <2>3. /\ fullQueue' = SubSeq(fullQueue, n + 1, Len(fullQueue))
        /\ fullVal' = fullVal + (1 - n)
        /\ pNode' = [pNode EXCEPT ![t] = SubSeq(fullQueue, 1, n)]
    BY DEF Full!Increment
  <2>4. n = 0 /\ Len(fullQueue) = 0
    BY <2>1
  <2> HIDE DEF n
  <2>5. n + 1 = 1 /\ 1 - n = 1
    BY <2>4
  <2>6. SubSeq(fullQueue, 1, n) = <<>> /\ SubSeq(fullQueue, n + 1, Len(fullQueue)) = <<>>
    BY <2>2, <2>4, <2>5
  <2> QED BY <1>1, <1>2, <2>3, <2>5, <2>6
<1>3. CASE fullQueue # <<>>
  <2>1. /\ Len(fullQueue) >= 1 /\ fullQueue[1] \in Elems(fullQueue)
        /\ fullQueue[1] \in Producers
        /\ SubSeq(fullQueue, 2, Len(fullQueue)) \in Seq(Producers)
        /\ Elems(SubSeq(fullQueue, 2, Len(fullQueue))) = Elems(fullQueue) \ {fullQueue[1]}
        /\ Once(SubSeq(fullQueue, 2, Len(fullQueue)))
        /\ SubSeq(fullQueue, 1, 1) = <<fullQueue[1]>>
    BY <1>1, <1>3, ElemsOfRest DEF WInv, Waiters
  <2>2. Full!MinOf(1, Len(fullQueue)) = 1
    <3>1. Len(fullQueue) >= 1 /\ Len(fullQueue) \in Nat
      BY <1>1, <2>1
    <3> DEFINE m == Len(fullQueue)
    <3>2. m >= 1 /\ m \in Nat
      BY <3>1
    <3> HIDE DEF m
    <3>3. (IF 1 < m THEN 1 ELSE m) = 1
      BY <3>2
    <3> QED BY <3>3 DEF Full!MinOf, m
  <2>3. /\ fullQueue' = SubSeq(fullQueue, 2, Len(fullQueue))
        /\ fullVal' = fullVal
        /\ pNode' = [pNode EXCEPT ![t] = <<fullQueue[1]>>]
    <3> DEFINE n == Full!MinOf(1, Len(fullQueue))
    <3>1. /\ fullQueue' = SubSeq(fullQueue, n + 1, Len(fullQueue))
          /\ fullVal' = fullVal + (1 - n)
          /\ pNode' = [pNode EXCEPT ![t] = SubSeq(fullQueue, 1, n)]
      BY DEF Full!Increment
    <3>2. n = 1
      BY <2>2
    <3> HIDE DEF n
    <3>3. n + 1 = 2 /\ 1 - n = 0
      BY <3>2
    <3>4. SubSeq(fullQueue, 1, n) = <<fullQueue[1]>>
      BY <2>1, <3>2
    <3>5. fullQueue' = SubSeq(fullQueue, 2, Len(fullQueue))
      BY <3>1, <3>3, Zenon
    <3>6. fullVal' = fullVal
      BY <1>1, <3>1, <3>3
    <3>7. pNode' = [pNode EXCEPT ![t] = <<fullQueue[1]>>]
      BY <3>1, <3>4, Zenon
    <3> QED BY <3>5, <3>6, <3>7
  <2> QED BY <1>3, <2>1, <2>3
<1> QED BY <1>2, <1>3

-----------------------------------------------------------------------------
(* Each step of a call: the invariant, and what it does to the counts.     *)
Points == Waits \cup {"idle", "push", "pop", "count", "signal"}

LEMMA Moved ==
    ASSUME Types, NEW t \in Threads, NEW from, NEW to \in Points, Goto(t, from, to)
    PROVE  /\ pc[t] = from /\ pc'[t] = to
           /\ \A u \in Threads : u # t => pc'[u] = pc[u]
           /\ pc' \in [Threads -> Points]
BY DEF Types, Points, Goto

LEMMA NotQueued ==
    ASSUME WInv, NEW t \in Threads, pc[t] \notin {"waiting", "timedout"}
    PROVE  t \notin Elems(fullQueue) /\ t \notin Elems(emptyQueue)
BY DEF WInv, Waiters

LEMMA ElemsTyped ==
    WInv => Elems(fullQueue) \subseteq Producers /\ Elems(emptyQueue) \subseteq Takers
<1> SUFFICES ASSUME WInv
             PROVE  Elems(fullQueue) \subseteq Producers /\ Elems(emptyQueue) \subseteq Takers
  OBVIOUS
<1>1. fullQueue \in Seq(Producers) /\ emptyQueue \in Seq(Takers)
  BY DEF WInv, Types
<1>2. \A i \in 1..Len(fullQueue) : fullQueue[i] \in Producers
  BY <1>1, ElementOfSeq
<1>3. \A i \in 1..Len(emptyQueue) : emptyQueue[i] \in Takers
  BY <1>1, ElementOfSeq
<1> QED BY <1>2, <1>3 DEF Elems

(* A thread moves between places outside wait().                           *)
LEMMA OutsideWait ==
    ASSUME WInv, NEW t \in Threads, NEW from, NEW to \in Points, Goto(t, from, to),
           from \notin Waits \cup {"signal"}, to \notin Waits,
           UNCHANGED <<fullQueue, emptyQueue, signalled, pNode>>,
           m_queue' \in Seq(Items), fullVal' \in Nat, emptyVal' \in Nat,
           fullVal' <= fullVal, emptyVal' <= emptyVal
    PROVE  WInv' /\ ChosenP' = ChosenP /\ ChosenT' = ChosenT
<1>1. /\ pc[t] = from /\ pc'[t] = to
      /\ \A u \in Threads : u # t => pc'[u] = pc[u]
      /\ pc' \in [Threads -> Points]
  BY Moved DEF WInv
<1>2. t \notin Elems(fullQueue) /\ t \notin Elems(emptyQueue)
  BY <1>1, NotQueued DEF Waits
<1>3. ChosenP' = ChosenP /\ ChosenT' = ChosenT
  BY <1>1, Disjoint DEF ChosenP, ChosenT
<1>4. Types'
  BY <1>1 DEF WInv, Types, Points
<1>5. Waiters'
  <2>1. NoBarging'
    BY DEF WInv, Types, Waiters, NoBarging
  <2>2. \A u \in Elems(fullQueue) \cup Elems(emptyQueue) : pc'[u] = pc[u]
    BY <1>1, <1>2, ElemsTyped, Disjoint
  <2> QED BY <2>1, <2>2 DEF WInv, Waiters
<1>6. Nodes'
  <2>1. \A u \in Threads : pNode[u] # <<>> => pc[u] = "signal" /\ u # t
    BY <1>1 DEF WInv, Nodes
  <2> QED BY <1>1, <1>3, <2>1 DEF WInv, Nodes
<1> QED BY <1>3, <1>4, <1>5, <1>6 DEF WInv

LEMMA WaitFullNext ==
    ASSUME WInv, NEW p \in Producers, WaitFull(p)
    PROVE  /\ WInv' /\ ChosenT' = ChosenT /\ UNCHANGED <<m_queue, emptyVal>>
           /\ \/ /\ Goto(p, "idle", "push") /\ fullVal' = fullVal - 1
                 /\ ChosenP' = ChosenP
              \/ /\ Goto(p, "idle", "waiting") /\ fullVal' = fullVal
                 /\ ChosenP' = ChosenP
              \/ /\ Goto(p, "waiting", "push") /\ fullVal' = fullVal
                 /\ p \in ChosenP /\ ChosenP' = ChosenP \ {p}
<1>0. p \in Threads /\ p \notin Takers /\ FullOnly /\ UNCHANGED <<m_queue, emptyVal>>
  BY Disjoint DEF WaitFull, FullOnly
<1>1. CASE Goto(p, "idle", "push") /\ Full!Acquire(p)
  <2>1. fullVal' \in Nat /\ fullVal' = fullVal - 1 /\ fullVal' <= fullVal
    BY <1>1 DEF Full!Acquire, WInv, Types
  <2>2. /\ UNCHANGED <<fullQueue, emptyQueue, signalled, pNode, m_queue, emptyVal>>
        /\ emptyVal \in Nat /\ m_queue \in Seq(Items)
    BY <1>0, <1>1 DEF FullOnly, Full!Acquire, WInv, Types
  <2>3. WInv' /\ ChosenP' = ChosenP /\ ChosenT' = ChosenT
    BY <1>0, <1>1, <2>1, <2>2, OutsideWait DEF Waits, Points
  <2> QED BY <1>0, <1>1, <2>1, <2>3
<1>2. CASE Goto(p, "idle", "waiting") /\ Full!Enqueue(p)
  <2>1. /\ pc[p] = "idle" /\ pc'[p] = "waiting"
        /\ \A u \in Threads : u # p => pc'[u] = pc[u]
        /\ pc' \in [Threads -> Points]
    BY <1>0, <1>2, Moved DEF WInv, Points, Waits
  <2>2. p \notin Elems(fullQueue) /\ p \notin Elems(emptyQueue)
    BY <1>0, <2>1, NotQueued
  <2>3. /\ fullVal = 0 /\ fullQueue' = Append(fullQueue, p)
        /\ UNCHANGED <<fullVal, signalled, pNode>>
    BY <1>2 DEF Full!Enqueue
  <2>4. /\ fullQueue' \in Seq(Producers)
        /\ Elems(fullQueue') = Elems(fullQueue) \cup {p}
        /\ Once(fullQueue')
    BY <2>2, <2>3, ElemsOfAppend DEF WInv, Types, Waiters
  <2>5. ChosenP' = ChosenP /\ ChosenT' = ChosenT
    BY <1>0, <2>1, <2>4, Disjoint DEF ChosenP, ChosenT, FullOnly, Waits
  <2>6. Types'
    BY <1>0, <2>1, <2>3, <2>4 DEF WInv, Types, Points, FullOnly
  <2>7. Waiters'
    BY <1>0, <2>1, <2>2, <2>3, <2>4, ElemsTyped, Disjoint
       DEF WInv, Waiters, NoBarging, FullOnly
  <2>8. Nodes'
    <3>1. \A u \in Threads : pNode[u] # <<>> => pc[u] = "signal" /\ u # p
      BY <2>1 DEF WInv, Nodes
    <3> QED BY <2>1, <2>3, <2>5, <3>1 DEF WInv, Nodes
  <2> QED BY <1>0, <1>2, <2>3, <2>5, <2>6, <2>7, <2>8 DEF WInv
<1>3. CASE Goto(p, "waiting", "push") /\ Full!Granted(p)
  <2>1. /\ pc[p] = "waiting" /\ pc'[p] = "push"
        /\ \A u \in Threads : u # p => pc'[u] = pc[u]
        /\ pc' \in [Threads -> Points]
    BY <1>0, <1>3, Moved DEF WInv, Points, Waits
  <2>2. /\ p \in signalled /\ signalled' = signalled \ {p}
        /\ UNCHANGED <<fullVal, fullQueue, pNode, m_queue, emptyVal, emptyQueue>>
    BY <1>0, <1>3 DEF Full!Granted, FullOnly
  <2>3. p \in ChosenP
    BY <1>0, <2>2 DEF WInv, Nodes, ChosenT
  <2>4. p \notin Elems(fullQueue) /\ p \notin Elems(emptyQueue)
    BY <1>0, <2>3, ElemsTyped DEF ChosenP
  <2>5. ChosenP' = ChosenP \ {p} /\ ChosenT' = ChosenT
    BY <1>0, <2>1, <2>2, Disjoint DEF ChosenP, ChosenT, Waits
  <2>6. Types'
    BY <2>1, <2>2 DEF WInv, Types, Points
  <2>7. Waiters'
    BY <1>0, <2>1, <2>2, <2>4, ElemsTyped, Disjoint DEF WInv, Waiters, NoBarging
  <2>8. Nodes'
    <3>1. \A u \in Threads : pNode[u] # <<>> =>
             pc[u] = "signal" /\ u # p /\ pNode[u][1] # p
      BY <2>1, <2>2 DEF WInv, Nodes
    <3>2. signalled' \subseteq ChosenP' \cup ChosenT'
      BY <1>0, <2>2, <2>5 DEF WInv, Nodes, ChosenT
    <3> QED BY <2>1, <2>2, <2>5, <3>1, <3>2 DEF WInv, Nodes
  <2> QED BY <1>3, <2>2, <2>3, <2>5, <2>6, <2>7, <2>8 DEF WInv
<1> QED BY <1>1, <1>2, <1>3 DEF WaitFull

LEMMA GrantedNext ==
    ASSUME WInv, NEW c \in Takers, NEW from \in {"waiting", "waitagain"},
           Goto(c, from, "pop"), Empty!Granted(c), EmptyOnly
    PROVE  /\ WInv' /\ ChosenP' = ChosenP
           /\ c \in ChosenT /\ ChosenT' = ChosenT \ {c}
<1>0. c \in Threads /\ c \notin Producers
  BY Disjoint
<1>1. /\ pc[c] = from /\ pc'[c] = "pop"
      /\ \A u \in Threads : u # c => pc'[u] = pc[u]
      /\ pc' \in [Threads -> Points]
  BY <1>0, Moved DEF WInv, Points, Waits
<1>2. /\ c \in signalled /\ signalled' = signalled \ {c}
      /\ UNCHANGED <<emptyVal, emptyQueue, pNode, m_queue, fullVal, fullQueue>>
  BY DEF Empty!Granted, EmptyOnly
<1>3. c \in ChosenT
  BY <1>0, <1>2 DEF WInv, Nodes, ChosenP
<1>4. c \notin Elems(fullQueue) /\ c \notin Elems(emptyQueue)
  BY <1>0, <1>3, ElemsTyped DEF ChosenT
<1>5. ChosenP' = ChosenP /\ ChosenT' = ChosenT \ {c}
  BY <1>0, <1>1, <1>2, Disjoint DEF ChosenP, ChosenT, Waits
<1>6. Types'
  BY <1>1, <1>2 DEF WInv, Types, Points
<1>7. Waiters'
  BY <1>0, <1>1, <1>2, <1>4, ElemsTyped, Disjoint DEF WInv, Waiters, NoBarging
<1>8. Nodes'
  <2>1. \A u \in Threads : pNode[u] # <<>> =>
           pc[u] = "signal" /\ u # c /\ pNode[u][1] # c
    BY <1>1, <1>2 DEF WInv, Nodes
  <2>2. signalled' \subseteq ChosenP' \cup ChosenT'
    BY <1>0, <1>2, <1>5 DEF WInv, Nodes, ChosenP
  <2> QED BY <1>1, <1>2, <1>5, <2>1, <2>2 DEF WInv, Nodes
<1> QED BY <1>3, <1>5, <1>6, <1>7, <1>8 DEF WInv

LEMMA WaitEmptyNext ==
    ASSUME WInv, NEW c \in Takers, WaitEmpty(c)
    PROVE  /\ WInv' /\ ChosenP' = ChosenP /\ UNCHANGED <<m_queue, fullVal>>
           /\ \/ /\ Goto(c, "idle", "pop") /\ emptyVal' = emptyVal - 1
                 /\ ChosenT' = ChosenT
              \/ /\ Goto(c, "idle", "waiting") /\ emptyVal' = emptyVal
                 /\ ChosenT' = ChosenT
              \/ /\ Goto(c, "waiting", "pop") /\ emptyVal' = emptyVal
                 /\ c \in ChosenT /\ ChosenT' = ChosenT \ {c}
<1>0. c \in Threads /\ c \notin Producers /\ EmptyOnly /\ UNCHANGED <<m_queue, fullVal>>
  BY Disjoint DEF WaitEmpty, EmptyOnly
<1>1. CASE Goto(c, "idle", "pop") /\ Empty!Acquire(c)
  <2>1. emptyVal' \in Nat /\ emptyVal' = emptyVal - 1 /\ emptyVal' <= emptyVal
    BY <1>1 DEF Empty!Acquire, WInv, Types
  <2>2. /\ UNCHANGED <<fullQueue, emptyQueue, signalled, pNode, m_queue, fullVal>>
        /\ fullVal \in Nat /\ m_queue \in Seq(Items)
    BY <1>0, <1>1 DEF EmptyOnly, Empty!Acquire, WInv, Types
  <2>3. WInv' /\ ChosenP' = ChosenP /\ ChosenT' = ChosenT
    BY <1>0, <1>1, <2>1, <2>2, OutsideWait DEF Waits, Points
  <2> QED BY <1>0, <1>1, <2>1, <2>3
<1>2. CASE Goto(c, "idle", "waiting") /\ Empty!Enqueue(c)
  <2>1. /\ pc[c] = "idle" /\ pc'[c] = "waiting"
        /\ \A u \in Threads : u # c => pc'[u] = pc[u]
        /\ pc' \in [Threads -> Points]
    BY <1>0, <1>2, Moved DEF WInv, Points, Waits
  <2>2. c \notin Elems(fullQueue) /\ c \notin Elems(emptyQueue)
    BY <1>0, <2>1, NotQueued
  <2>3. /\ emptyVal = 0 /\ emptyQueue' = Append(emptyQueue, c)
        /\ UNCHANGED <<emptyVal, signalled, pNode>>
    BY <1>2 DEF Empty!Enqueue
  <2>4. /\ emptyQueue' \in Seq(Takers)
        /\ Elems(emptyQueue') = Elems(emptyQueue) \cup {c}
        /\ Once(emptyQueue')
    BY <2>2, <2>3, ElemsOfAppend DEF WInv, Types, Waiters
  <2>5. ChosenP' = ChosenP /\ ChosenT' = ChosenT
    BY <1>0, <2>1, <2>4, Disjoint DEF ChosenP, ChosenT, EmptyOnly, Waits
  <2>6. Types'
    BY <1>0, <2>1, <2>3, <2>4 DEF WInv, Types, Points, EmptyOnly
  <2>7. Waiters'
    BY <1>0, <2>1, <2>2, <2>3, <2>4, ElemsTyped, Disjoint
       DEF WInv, Waiters, NoBarging, EmptyOnly
  <2>8. Nodes'
    <3>1. \A u \in Threads : pNode[u] # <<>> => pc[u] = "signal" /\ u # c
      BY <2>1 DEF WInv, Nodes
    <3> QED BY <2>1, <2>3, <2>5, <3>1 DEF WInv, Nodes
  <2> QED BY <1>0, <1>2, <2>3, <2>5, <2>6, <2>7, <2>8 DEF WInv
<1>3. CASE Goto(c, "waiting", "pop") /\ Empty!Granted(c)
  BY <1>0, <1>3, GrantedNext DEF Empty!Granted
<1> QED BY <1>1, <1>2, <1>3 DEF WaitEmpty

(* A release outside wait(): the first node, if there is one, is chosen.   *)
LEMMA PushAndCountNext ==
    ASSUME WInv, NEW p \in Producers, PushAndCount(p)
    PROVE  /\ WInv' /\ ChosenP' = ChosenP /\ UNCHANGED fullVal
           /\ \/ /\ Goto(p, "push", "count") /\ Len(m_queue') = Len(m_queue) + 1
                 /\ emptyVal' = emptyVal /\ ChosenT' = ChosenT
              \/ /\ Goto(p, "count", "signal") /\ m_queue' = m_queue
                 /\ emptyVal' = emptyVal + 1 /\ ChosenT' = ChosenT
              \/ /\ Goto(p, "count", "signal") /\ m_queue' = m_queue
                 /\ emptyVal' = emptyVal
                 /\ \E c \in Takers \ ChosenT : ChosenT' = ChosenT \cup {c}
<1>0. p \in Threads /\ p \notin Takers
  BY Disjoint
<1>1. CASE /\ Goto(p, "push", "count")
           /\ \E x \in Items : m_queue' = Append(m_queue, x)
           /\ UNCHANGED semaphores
  <2>1. m_queue' \in Seq(Items) /\ Len(m_queue') = Len(m_queue) + 1
    BY <1>1, AppendProperties DEF WInv, Types
  <2>2. /\ UNCHANGED <<fullQueue, emptyQueue, signalled, pNode, fullVal, emptyVal>>
        /\ fullVal \in Nat /\ emptyVal \in Nat
    BY <1>1 DEF semaphores, WInv, Types
  <2>3. WInv' /\ ChosenP' = ChosenP /\ ChosenT' = ChosenT
    BY <1>0, <1>1, <2>1, <2>2, OutsideWait DEF Waits, Points
  <2> QED BY <1>1, <2>1, <2>2, <2>3
<1>2. CASE Goto(p, "count", "signal") /\ Empty!Increment(p, 1) /\ EmptyOnly
  <2>1. /\ pc[p] = "count" /\ pc'[p] = "signal"
        /\ \A u \in Threads : u # p => pc'[u] = pc[u]
        /\ pc' \in [Threads -> Points]
    BY <1>0, <1>2, Moved DEF WInv, Points, Waits
  <2>2. p \notin Elems(fullQueue) /\ p \notin Elems(emptyQueue)
    BY <1>0, <2>1, NotQueued
  <2>3. /\ UNCHANGED <<signalled, m_queue, fullVal, fullQueue>>
        /\ pNode \in [Threads -> Seq(Threads)]
    BY <1>2 DEF Empty!Increment, EmptyOnly, WInv, Types
  <2>4. ChosenP' = ChosenP
    BY <2>1, <2>3, Disjoint DEF ChosenP, Waits
  <2>5. CASE /\ emptyQueue = <<>> /\ emptyQueue' = <<>>
             /\ emptyVal' = emptyVal + 1
             /\ pNode' = [pNode EXCEPT ![p] = <<>>]
    <3>1. ChosenT' = ChosenT
      BY <1>0, <2>1, <2>5, Disjoint DEF ChosenT
    <3>2. pNode' \in [Threads -> Seq(Threads)]
      BY <2>3, <2>5, EmptySeq
    <3>3. Types'
      BY <2>1, <2>3, <2>5, <3>2 DEF WInv, Types, Points
    <3>4. Waiters'
      BY <2>1, <2>2, <2>3, <2>5, ElemsTyped, Disjoint DEF WInv, Waiters, NoBarging
    <3>5. Nodes'
      <4>1. \A u \in Threads : pNode'[u] # <<>> => u # p /\ pNode'[u] = pNode[u]
        BY <1>0, <2>3, <2>5
      <4> QED BY <2>1, <2>3, <2>4, <3>1, <4>1 DEF WInv, Nodes
    <3> QED BY <1>2, <2>3, <2>4, <2>5, <3>1, <3>3, <3>4, <3>5 DEF WInv
  <2>6. CASE /\ emptyQueue # <<>> /\ emptyVal' = emptyVal
             /\ emptyQueue[1] \in Elems(emptyQueue) /\ emptyQueue[1] \in Takers
             /\ emptyQueue' \in Seq(Takers)
             /\ Elems(emptyQueue') = Elems(emptyQueue) \ {emptyQueue[1]}
             /\ Once(emptyQueue')
             /\ pNode' = [pNode EXCEPT ![p] = <<emptyQueue[1]>>]
    <3> DEFINE w == emptyQueue[1]
    <3>0. w \in Takers /\ w \in Threads /\ w # p /\ w \in Elems(emptyQueue)
      BY <1>0, <2>6, Disjoint
    <3> HIDE DEF w
    <3>1. pc[w] \in {"waiting", "timedout"} /\ pc'[w] = pc[w] /\ w \notin ChosenT
      BY <2>1, <3>0 DEF WInv, Waiters, ChosenT
    <3>2. ChosenT' = ChosenT \cup {w}
      <4>1. Elems(emptyQueue)' = Elems(emptyQueue) \ {w}
        BY <2>6 DEF w
      <4> QED BY <1>0, <2>1, <3>0, <3>1, <4>1, Disjoint DEF ChosenT, Waits
    <3>3. /\ pNode' \in [Threads -> Seq(Threads)]
          /\ pNode'[p] = <<w>>
          /\ \A u \in Threads : u # p => pNode'[u] = pNode[u]
      <4>1. <<w>> \in Seq(Threads)
        BY <3>0
      <4>2. pNode' = [pNode EXCEPT ![p] = <<w>>]
        BY <2>6 DEF w
      <4> QED BY <1>0, <2>3, <4>1, <4>2
    <3>4. Types'
      BY <2>1, <2>3, <2>6, <3>3 DEF WInv, Types, Points
    <3>5. Waiters'
      BY <2>1, <2>2, <2>3, <2>6, ElemsTyped, Disjoint DEF WInv, Waiters, NoBarging
    <3>6. Nodes'
      <4>1. w \notin signalled /\ w \notin ChosenP
        BY <3>0, <3>1, Disjoint DEF WInv, Nodes, ChosenP
      <4>2. \A u \in Threads : u # p /\ pNode[u] # <<>> => pNode[u][1] # w
        BY <3>1, <4>1 DEF WInv, Nodes
      <4>3. <<w>> # <<>> /\ Len(<<w>>) = 1 /\ <<w>>[1] = w
        OBVIOUS
      <4>4. \A u \in Threads : pNode'[u] # <<>> =>
               /\ pc'[u] = "signal"
               /\ Len(pNode'[u]) = 1
               /\ pNode'[u][1] \in (ChosenP' \cup ChosenT') \ signalled'
        <5> SUFFICES ASSUME NEW u \in Threads, pNode'[u] # <<>>
                     PROVE  /\ pc'[u] = "signal"
                            /\ Len(pNode'[u]) = 1
                            /\ pNode'[u][1] \in (ChosenP' \cup ChosenT') \ signalled'
          OBVIOUS
        <5>1. CASE u = p
          BY <2>1, <2>3, <3>2, <3>3, <4>1, <4>3, <5>1
        <5>2. CASE u # p
          BY <2>1, <2>3, <2>4, <3>2, <3>3, <5>2 DEF WInv, Nodes
        <5> QED BY <5>1, <5>2
      <4>5. \A u, v \in Threads :
               pNode'[u] # <<>> /\ pNode'[v] # <<>> /\ pNode'[u][1] = pNode'[v][1] => u = v
        <5> SUFFICES ASSUME NEW u \in Threads, NEW v \in Threads,
                            pNode'[u] # <<>>, pNode'[v] # <<>>, pNode'[u][1] = pNode'[v][1]
                     PROVE  u = v
          OBVIOUS
        <5>1. CASE u = p
          <6>1. pNode'[u][1] = w
            BY <3>3, <4>3, <5>1
          <6> QED BY <3>3, <4>2, <5>1, <6>1
        <5>2. CASE v = p
          <6>1. pNode'[v][1] = w
            BY <3>3, <4>3, <5>2
          <6> QED BY <3>3, <4>2, <5>2, <6>1
        <5>3. CASE u # p /\ v # p
          BY <3>3, <5>3 DEF WInv, Nodes
        <5> QED BY <5>1, <5>2, <5>3
      <4> QED BY <2>3, <2>4, <3>2, <4>4, <4>5 DEF WInv, Nodes
    <3> QED BY <1>2, <2>3, <2>4, <2>6, <3>0, <3>1, <3>2, <3>4, <3>5, <3>6 DEF WInv
  <2> QED BY <1>0, <1>2, <2>5, <2>6, EmptyReleased
<1> QED BY <1>1, <1>2 DEF PushAndCount
LEMMA PopAndCountNext ==
    ASSUME WInv, NEW c \in Takers, PopAndCount(c)
    PROVE  /\ WInv' /\ ChosenT' = ChosenT /\ UNCHANGED emptyVal
           /\ \/ /\ Goto(c, "pop", "count")
                 /\ m_queue # <<>> => Len(m_queue') = Len(m_queue) - 1
                 /\ fullVal' = fullVal /\ ChosenP' = ChosenP
              \/ /\ Goto(c, "count", "signal") /\ m_queue' = m_queue
                 /\ fullVal' = fullVal + 1 /\ ChosenP' = ChosenP
              \/ /\ Goto(c, "count", "signal") /\ m_queue' = m_queue
                 /\ fullVal' = fullVal
                 /\ \E p \in Producers \ ChosenP : ChosenP' = ChosenP \cup {p}
<1>0. c \in Threads /\ c \notin Producers
  BY Disjoint
<1>1. CASE /\ Goto(c, "pop", "count")
           /\ m_queue' = IF m_queue = <<>> THEN <<>> ELSE Tail(m_queue)
           /\ UNCHANGED semaphores
  <2>1. /\ m_queue' \in Seq(Items)
        /\ m_queue # <<>> => Len(m_queue') = Len(m_queue) - 1
    BY <1>1, HeadTailProperties, EmptySeq DEF WInv, Types
  <2>2. /\ UNCHANGED <<emptyQueue, fullQueue, signalled, pNode, emptyVal, fullVal>>
        /\ emptyVal \in Nat /\ fullVal \in Nat
    BY <1>1 DEF semaphores, WInv, Types
  <2>3. WInv' /\ ChosenT' = ChosenT /\ ChosenP' = ChosenP
    BY <1>0, <1>1, <2>1, <2>2, OutsideWait DEF Waits, Points
  <2> QED BY <1>1, <2>1, <2>2, <2>3
<1>2. CASE Goto(c, "count", "signal") /\ Full!Increment(c, 1) /\ FullOnly
  <2>1. /\ pc[c] = "count" /\ pc'[c] = "signal"
        /\ \A u \in Threads : u # c => pc'[u] = pc[u]
        /\ pc' \in [Threads -> Points]
    BY <1>0, <1>2, Moved DEF WInv, Points, Waits
  <2>2. c \notin Elems(emptyQueue) /\ c \notin Elems(fullQueue)
    BY <1>0, <2>1, NotQueued
  <2>3. /\ UNCHANGED <<signalled, m_queue, emptyVal, emptyQueue>>
        /\ pNode \in [Threads -> Seq(Threads)]
    BY <1>2 DEF Full!Increment, FullOnly, WInv, Types
  <2>4. ChosenT' = ChosenT
    BY <2>1, <2>3, Disjoint DEF ChosenT, Waits
  <2>5. CASE /\ fullQueue = <<>> /\ fullQueue' = <<>>
             /\ fullVal' = fullVal + 1
             /\ pNode' = [pNode EXCEPT ![c] = <<>>]
    <3>1. ChosenP' = ChosenP
      BY <1>0, <2>1, <2>5, Disjoint DEF ChosenP
    <3>2. pNode' \in [Threads -> Seq(Threads)]
      BY <2>3, <2>5, EmptySeq
    <3>3. Types'
      BY <2>1, <2>3, <2>5, <3>2 DEF WInv, Types, Points
    <3>4. Waiters'
      BY <2>1, <2>2, <2>3, <2>5, ElemsTyped, Disjoint DEF WInv, Waiters, NoBarging
    <3>5. Nodes'
      <4>1. \A u \in Threads : pNode'[u] # <<>> => u # c /\ pNode'[u] = pNode[u]
        BY <1>0, <2>3, <2>5
      <4> QED BY <2>1, <2>3, <2>4, <3>1, <4>1 DEF WInv, Nodes
    <3> QED BY <1>2, <2>3, <2>4, <2>5, <3>1, <3>3, <3>4, <3>5 DEF WInv
  <2>6. CASE /\ fullQueue # <<>> /\ fullVal' = fullVal
             /\ fullQueue[1] \in Elems(fullQueue) /\ fullQueue[1] \in Producers
             /\ fullQueue' \in Seq(Producers)
             /\ Elems(fullQueue') = Elems(fullQueue) \ {fullQueue[1]}
             /\ Once(fullQueue')
             /\ pNode' = [pNode EXCEPT ![c] = <<fullQueue[1]>>]
    <3> DEFINE w == fullQueue[1]
    <3>0. w \in Producers /\ w \in Threads /\ w # c /\ w \in Elems(fullQueue)
      BY <1>0, <2>6, Disjoint
    <3> HIDE DEF w
    <3>1. pc[w] = "waiting" /\ pc'[w] = pc[w] /\ w \notin ChosenP
      BY <2>1, <3>0 DEF WInv, Waiters, ChosenP
    <3>2. ChosenP' = ChosenP \cup {w}
      <4>1. Elems(fullQueue)' = Elems(fullQueue) \ {w}
        BY <2>6 DEF w
      <4> QED BY <1>0, <2>1, <3>0, <3>1, <4>1, Disjoint DEF ChosenP, Waits
    <3>3. /\ pNode' \in [Threads -> Seq(Threads)]
          /\ pNode'[c] = <<w>>
          /\ \A u \in Threads : u # c => pNode'[u] = pNode[u]
      <4>1. <<w>> \in Seq(Threads)
        BY <3>0
      <4>2. pNode' = [pNode EXCEPT ![c] = <<w>>]
        BY <2>6 DEF w
      <4> QED BY <1>0, <2>3, <4>1, <4>2
    <3>4. Types'
      BY <2>1, <2>3, <2>6, <3>3 DEF WInv, Types, Points
    <3>5. Waiters'
      BY <2>1, <2>2, <2>3, <2>6, ElemsTyped, Disjoint DEF WInv, Waiters, NoBarging
    <3>6. Nodes'
      <4>1. w \notin signalled /\ w \notin ChosenT
        BY <3>0, <3>1, Disjoint DEF WInv, Nodes, ChosenT
      <4>2. \A u \in Threads : u # c /\ pNode[u] # <<>> => pNode[u][1] # w
        BY <3>1, <4>1 DEF WInv, Nodes
      <4>3. <<w>> # <<>> /\ Len(<<w>>) = 1 /\ <<w>>[1] = w
        OBVIOUS
      <4>4. \A u \in Threads : pNode'[u] # <<>> =>
               /\ pc'[u] = "signal"
               /\ Len(pNode'[u]) = 1
               /\ pNode'[u][1] \in (ChosenT' \cup ChosenP') \ signalled'
        <5> SUFFICES ASSUME NEW u \in Threads, pNode'[u] # <<>>
                     PROVE  /\ pc'[u] = "signal"
                            /\ Len(pNode'[u]) = 1
                            /\ pNode'[u][1] \in (ChosenT' \cup ChosenP') \ signalled'
          OBVIOUS
        <5>1. CASE u = c
          BY <2>1, <2>3, <3>2, <3>3, <4>1, <4>3, <5>1
        <5>2. CASE u # c
          BY <2>1, <2>3, <2>4, <3>2, <3>3, <5>2 DEF WInv, Nodes
        <5> QED BY <5>1, <5>2
      <4>5. \A u, v \in Threads :
               pNode'[u] # <<>> /\ pNode'[v] # <<>> /\ pNode'[u][1] = pNode'[v][1] => u = v
        <5> SUFFICES ASSUME NEW u \in Threads, NEW v \in Threads,
                            pNode'[u] # <<>>, pNode'[v] # <<>>, pNode'[u][1] = pNode'[v][1]
                     PROVE  u = v
          OBVIOUS
        <5>1. CASE u = c
          <6>1. pNode'[u][1] = w
            BY <3>3, <4>3, <5>1
          <6> QED BY <3>3, <4>2, <5>1, <6>1
        <5>2. CASE v = c
          <6>1. pNode'[v][1] = w
            BY <3>3, <4>3, <5>2
          <6> QED BY <3>3, <4>2, <5>2, <6>1
        <5>3. CASE u # c /\ v # c
          BY <3>3, <5>3 DEF WInv, Nodes
        <5> QED BY <5>1, <5>2, <5>3
      <4> QED BY <2>3, <2>4, <3>2, <4>4, <4>5 DEF WInv, Nodes
    <3> QED BY <1>2, <2>3, <2>4, <2>6, <3>0, <3>1, <3>2, <3>4, <3>5, <3>6 DEF WInv
  <2> QED BY <1>0, <1>2, <2>5, <2>6, FullReleased
<1> QED BY <1>1, <1>2 DEF PopAndCount

(* The release wakes whom it has dequeued.                                 *)
LEMMA SignalWaiterNext ==
    ASSUME WInv, NEW t \in Threads, SignalWaiter(t)
    PROVE  /\ WInv' /\ ChosenP' = ChosenP /\ ChosenT' = ChosenT
           /\ UNCHANGED <<fullVal, emptyVal, m_queue>>
           /\ UNCHANGED pc \/ Goto(t, "signal", "idle")
<1>1. CASE /\ pc[t] = "signal"
           /\ Full!Signal(t)
           /\ UNCHANGED <<m_queue, emptyVal, emptyQueue, pc>>
  <2> DEFINE w == pNode[t][1]
  <2>1. /\ pNode[t] # <<>> /\ pNode[t] \in Seq(Threads) /\ Len(pNode[t]) = 1
        /\ w \in (ChosenP \cup ChosenT) \ signalled
    BY <1>1 DEF Full!Signal, WInv, Types, Nodes
  <2>2. Head(pNode[t]) = w /\ Tail(pNode[t]) = <<>>
    <3>1. Head(pNode[t]) = w
      BY <2>1
    <3>2. Tail(pNode[t]) \in Seq(Threads) /\ Len(Tail(pNode[t])) = 0
      BY <2>1, HeadTailProperties
    <3> QED BY <3>1, <3>2, EmptySeq
  <2>3. /\ signalled' = signalled \cup {w}
        /\ pNode' = [pNode EXCEPT ![t] = <<>>]
        /\ UNCHANGED <<fullVal, fullQueue>>
    BY <1>1, <2>2 DEF Full!Signal
  <2>4. ChosenP' = ChosenP /\ ChosenT' = ChosenT
    BY <1>1, <2>3 DEF ChosenP, ChosenT
  <2>5. Types'
    <3>1. w \in Threads
      BY <2>1, Disjoint DEF ChosenP, ChosenT
    <3>2. pNode' \in [Threads -> Seq(Threads)]
      BY <2>3, EmptySeq DEF WInv, Types
    <3> QED BY <1>1, <2>3, <3>1, <3>2 DEF WInv, Types
  <2>6. Waiters'
    BY <1>1, <2>3 DEF WInv, Waiters, NoBarging
  <2>7. Nodes'
    <3>1. \A u \in Threads : pNode'[u] # <<>> =>
             u # t /\ pNode'[u] = pNode[u] /\ pNode[u][1] # w
      BY <2>1, <2>3 DEF WInv, Types, Nodes
    <3>2. signalled' \subseteq ChosenP' \cup ChosenT'
      BY <2>1, <2>3, <2>4 DEF WInv, Nodes
    <3> QED BY <1>1, <2>3, <2>4, <3>1, <3>2 DEF WInv, Nodes
  <2> QED BY <1>1, <2>3, <2>4, <2>5, <2>6, <2>7 DEF WInv
<1>2. CASE /\ pNode[t] = <<>>
           /\ Goto(t, "signal", "idle")
           /\ UNCHANGED <<m_queue, semaphores>>
  <2>1. /\ pc[t] = "signal" /\ pc'[t] = "idle"
        /\ \A u \in Threads : u # t => pc'[u] = pc[u]
        /\ pc' \in [Threads -> Points]
    BY <1>2, Moved DEF WInv, Points, Waits
  <2>2. t \notin Elems(fullQueue) /\ t \notin Elems(emptyQueue)
    BY <2>1, NotQueued
  <2>3. UNCHANGED <<fullVal, fullQueue, emptyVal, emptyQueue, signalled, pNode, m_queue>>
    BY <1>2 DEF semaphores
  <2>4. ChosenP' = ChosenP /\ ChosenT' = ChosenT
    BY <2>1, <2>3, Disjoint DEF ChosenP, ChosenT, Waits
  <2>5. Types'
    BY <2>1, <2>3 DEF WInv, Types, Points
  <2>6. Waiters'
    BY <2>1, <2>2, <2>3, ElemsTyped, Disjoint DEF WInv, Waiters, NoBarging
  <2>7. Nodes'
    BY <1>2, <2>1, <2>3, <2>4 DEF WInv, Nodes
  <2> QED BY <1>2, <2>3, <2>4, <2>5, <2>6, <2>7 DEF WInv
<1> QED BY <1>1, <1>2 DEF SignalWaiter

(* A wait that times out: nothing has happened yet, or its node goes, or   *)
(* it has been chosen and waits for its signal.                            *)
LEMMA TimeoutNext ==
    ASSUME WInv, NEW c \in Takers,
           Timeout(c) \/ (TimedOut(c) /\ ~Goto(c, "waitagain", "pop"))
    PROVE  /\ WInv' /\ ChosenP' = ChosenP /\ ChosenT' = ChosenT
           /\ UNCHANGED <<fullVal, emptyVal, m_queue>>
           /\ \/ Goto(c, "waiting", "timedout") \/ Goto(c, "timedout", "idle")
              \/ Goto(c, "timedout", "waitagain")
<1>0. c \in Threads /\ c \notin Producers
  BY Disjoint
<1>1. CASE Timeout(c) \/ (Goto(c, "timedout", "waitagain") /\ Empty!TooLate(c) /\ EmptyOnly)
  <2>1. PICK from \in {"waiting", "timedout"}, to \in {"timedout", "waitagain"} :
            /\ Goto(c, from, to)
            /\ <<from, to>> \in {<<"waiting", "timedout">>, <<"timedout", "waitagain">>}
    BY <1>1 DEF Timeout
  <2>2. /\ pc[c] = from /\ pc'[c] = to
        /\ \A u \in Threads : u # c => pc'[u] = pc[u]
        /\ pc' \in [Threads -> Points]
    BY <1>0, <2>1, Moved DEF WInv, Points, Waits
  <2>3. UNCHANGED <<fullVal, fullQueue, emptyVal, emptyQueue, signalled, pNode, m_queue>>
    BY <1>1 DEF Timeout, semaphores, Empty!TooLate, EmptyOnly
  <2>4. ChosenP' = ChosenP /\ ChosenT' = ChosenT
    BY <1>0, <2>2, <2>3, Disjoint DEF ChosenP, ChosenT, Waits
  <2>5. Types'
    BY <2>2, <2>3 DEF WInv, Types, Points
  <2>6. to = "waitagain" => c \notin Elems(emptyQueue)
    <3>1. to = "waitagain" => from = "timedout"
      BY <2>1
    <3>2. CASE to = "waitagain"
      <4>1. pc'[c] = "waitagain"
        BY <2>2, <3>2
      <4>2. Empty!TooLate(c)
        BY <1>0, <1>1, <2>2, <3>2 DEF Timeout, Goto, WInv, Types
      <4>3. emptyQueue \in Seq(Takers)
        BY DEF WInv, Types
      <4> QED BY <4>2, <4>3 DEF Empty!TooLate, Empty!InQueue, Elems
    <3> QED BY <3>2
  <2>7. Waiters'
    BY <1>0, <2>1, <2>2, <2>3, <2>6, ElemsTyped, Disjoint DEF WInv, Waiters, NoBarging
  <2>8. Nodes'
    <3>1. \A u \in Threads : pNode[u] # <<>> => pc[u] = "signal" /\ u # c
      BY <2>2 DEF WInv, Nodes
    <3> QED BY <2>2, <2>3, <2>4, <3>1 DEF WInv, Nodes
  <2> QED BY <2>1, <2>3, <2>4, <2>5, <2>7, <2>8 DEF WInv
<1>2. CASE Goto(c, "timedout", "idle") /\ Empty!Withdraw(c) /\ EmptyOnly
  <2>1. /\ pc[c] = "timedout" /\ pc'[c] = "idle"
        /\ \A u \in Threads : u # c => pc'[u] = pc[u]
        /\ pc' \in [Threads -> Points]
    BY <1>0, <1>2, Moved DEF WInv, Points, Waits
  <2>2. emptyQueue \in Seq(Takers) /\ Once(emptyQueue)
    BY DEF WInv, Types, Waiters
  <2>3. PICK k \in 1..Len(emptyQueue) :
            emptyQueue[k] = c /\ emptyQueue' = Full!RemoveAt(emptyQueue, k)
    <3>1. DOMAIN emptyQueue = 1..Len(emptyQueue)
      BY <2>2, LenProperties
    <3>2. PICK k \in DOMAIN emptyQueue :
              emptyQueue[k] = c /\ emptyQueue' = Empty!RemoveAt(emptyQueue, k)
      BY <1>2 DEF Empty!Withdraw
    <3>3. Empty!RemoveAt(emptyQueue, k) = Full!RemoveAt(emptyQueue, k)
      BY Zenon DEF Empty!RemoveAt, Full!RemoveAt
    <3> QED BY <3>1, <3>2, <3>3
  <2>4. /\ emptyQueue' \in Seq(Takers) /\ Once(emptyQueue')
        /\ Elems(emptyQueue') = Elems(emptyQueue) \ {c}
        /\ c \in Elems(emptyQueue)
    BY <2>2, <2>3, ElemsOfRemoveAt DEF Elems
  <2>5. UNCHANGED <<fullVal, fullQueue, emptyVal, signalled, pNode, m_queue>>
    BY <1>2 DEF Empty!Withdraw, EmptyOnly
  <2>6. ChosenP' = ChosenP /\ ChosenT' = ChosenT
    BY <1>0, <2>1, <2>4, <2>5, Disjoint DEF ChosenP, ChosenT, Waits
  <2>7. Types'
    BY <2>1, <2>4, <2>5 DEF WInv, Types, Points
  <2>8. c \notin Elems(fullQueue)
    BY <1>0, ElemsTyped
  <2>9. Waiters'
    <3>1. NoBarging'
      BY <2>4, <2>5, EmptySeq DEF WInv, Waiters, NoBarging, Elems
    <3> QED
      BY <1>0, <2>1, <2>4, <2>5, <2>8, <3>1, ElemsTyped, Disjoint DEF WInv, Waiters
  <2>10. Nodes'
    <3>1. \A u \in Threads : pNode[u] # <<>> => pc[u] = "signal" /\ u # c
      BY <2>1 DEF WInv, Nodes
    <3> QED BY <2>1, <2>5, <2>6, <3>1 DEF WInv, Nodes
  <2> QED BY <1>2, <2>5, <2>6, <2>7, <2>9, <2>10 DEF WInv
<1> QED BY <1>1, <1>2 DEF TimedOut

-----------------------------------------------------------------------------
(* What is counted.                                                        *)
PChosen == Cardinality(ChosenP)
PPush   == Cardinality(At(Producers, "push"))
PCount  == Cardinality(At(Producers, "count"))
TChosen == Cardinality(ChosenT)
TPop    == Cardinality(At(Takers, "pop"))
TCount  == Cardinality(At(Takers, "count"))

PlacesCount == fullVal + PChosen + PPush + Len(m_queue) + TCount = maxItems
ItemsCount  == Len(m_queue) = emptyVal + TChosen + TPop + PCount
QInv == WInv /\ PlacesCount /\ ItemsCount

LEMMA FiniteThreads == IsFiniteSet(Producers) /\ IsFiniteSet(Takers)
BY QueueThreadsAssumption, FS_Union DEF Takers

LEMMA Totals ==
    /\ PChosen \in Nat /\ PPush \in Nat /\ PCount \in Nat
    /\ TChosen \in Nat /\ TPop \in Nat /\ TCount \in Nat
    /\ IsFiniteSet(ChosenP) /\ IsFiniteSet(ChosenT)
<1>1. /\ ChosenP \subseteq Producers /\ ChosenT \subseteq Takers
      /\ \A ts, where : At(ts, where) \subseteq ts
  BY DEF ChosenP, ChosenT, At
<1>2. /\ IsFiniteSet(ChosenP) /\ IsFiniteSet(ChosenT)
      /\ IsFiniteSet(At(Producers, "push")) /\ IsFiniteSet(At(Producers, "count"))
      /\ IsFiniteSet(At(Takers, "pop")) /\ IsFiniteSet(At(Takers, "count"))
  BY <1>1, FiniteThreads, FS_Subset
<1> QED BY <1>2, FS_CardinalityType DEF PChosen, PPush, PCount, TChosen, TPop, TCount

(* A thread comes to a place, leaves it, or does neither.                  *)
LEMMA TotalNext ==
    ASSUME NEW before, IsFiniteSet(before), NEW t, NEW after
    PROVE  /\ t \notin before /\ after = before \cup {t} =>
                Cardinality(after) = Cardinality(before) + 1
           /\ t \in before /\ after = before \ {t} =>
                Cardinality(after) = Cardinality(before) - 1
BY FS_AddElement, FS_RemoveElement

LEMMA FinitePlaces ==
    \A where : IsFiniteSet(At(Producers, where)) /\ IsFiniteSet(At(Takers, where))
<1>1. \A ts, where : At(ts, where) \subseteq ts
  BY DEF At
<1> QED BY <1>1, FiniteThreads, FS_Subset

(* Moving a thread changes the count of the place it leaves and of the one *)
(* it comes to.                                                            *)
LEMMA ProducerMoved ==
    ASSUME Types, NEW p \in Producers, NEW from \in Points, NEW to \in Points,
           from # to, Goto(p, from, to)
    PROVE  /\ PPush' = PPush + (IF to = "push" THEN 1 ELSE 0)
                        - (IF from = "push" THEN 1 ELSE 0)
           /\ PCount' = PCount + (IF to = "count" THEN 1 ELSE 0)
                        - (IF from = "count" THEN 1 ELSE 0)
           /\ TPop' = TPop /\ TCount' = TCount
<1>1. /\ pc[p] = from /\ pc'[p] = to
      /\ \A u \in Producers \cup Takers : u # p => pc'[u] = pc[u]
      /\ p \notin Takers
  BY Moved, Disjoint
<1>2. PPush' = PPush + (IF to = "push" THEN 1 ELSE 0) - (IF from = "push" THEN 1 ELSE 0)
  <2> DEFINE before == At(Producers, "push")
             after  == At(Producers, "push")'
  <2>1. /\ to = "push" => p \notin before /\ after = before \cup {p}
        /\ from = "push" => p \in before /\ after = before \ {p}
        /\ to # "push" /\ from # "push" => after = before
    BY <1>1 DEF At
  <2>2. PPush = Cardinality(before) /\ PPush' = Cardinality(after) /\ PPush \in Nat
    BY Totals DEF PPush
  <2>3. IsFiniteSet(before)
    BY FinitePlaces
  <2> HIDE DEF before, after
  <2>4. /\ to = "push" => Cardinality(after) = Cardinality(before) + 1
        /\ from = "push" => Cardinality(after) = Cardinality(before) - 1
        /\ to # "push" /\ from # "push" => Cardinality(after) = Cardinality(before)
    BY <2>1, <2>3, TotalNext
  <2> QED BY <2>2, <2>4
<1>3. PCount' = PCount + (IF to = "count" THEN 1 ELSE 0) - (IF from = "count" THEN 1 ELSE 0)
  <2> DEFINE before == At(Producers, "count")
             after  == At(Producers, "count")'
  <2>1. /\ to = "count" => p \notin before /\ after = before \cup {p}
        /\ from = "count" => p \in before /\ after = before \ {p}
        /\ to # "count" /\ from # "count" => after = before
    BY <1>1 DEF At
  <2>2. PCount = Cardinality(before) /\ PCount' = Cardinality(after) /\ PCount \in Nat
    BY Totals DEF PCount
  <2>3. IsFiniteSet(before)
    BY FinitePlaces
  <2> HIDE DEF before, after
  <2>4. /\ to = "count" => Cardinality(after) = Cardinality(before) + 1
        /\ from = "count" => Cardinality(after) = Cardinality(before) - 1
        /\ to # "count" /\ from # "count" => Cardinality(after) = Cardinality(before)
    BY <2>1, <2>3, TotalNext
  <2> QED BY <2>2, <2>4
<1>4. At(Takers, "pop")' = At(Takers, "pop")
      /\ At(Takers, "count")' = At(Takers, "count")
  BY <1>1 DEF At
<1>5. TPop' = TPop /\ TCount' = TCount
  BY <1>4 DEF TPop, TCount
<1> QED BY <1>2, <1>3, <1>5

LEMMA TakerMoved ==
    ASSUME Types, NEW c \in Takers, NEW from \in Points, NEW to \in Points,
           from # to, Goto(c, from, to)
    PROVE  /\ TPop' = TPop + (IF to = "pop" THEN 1 ELSE 0)
                        - (IF from = "pop" THEN 1 ELSE 0)
           /\ TCount' = TCount + (IF to = "count" THEN 1 ELSE 0)
                        - (IF from = "count" THEN 1 ELSE 0)
           /\ PPush' = PPush /\ PCount' = PCount
<1>1. /\ pc[c] = from /\ pc'[c] = to
      /\ \A u \in Producers \cup Takers : u # c => pc'[u] = pc[u]
      /\ c \notin Producers
  BY Moved, Disjoint
<1>2. TPop' = TPop + (IF to = "pop" THEN 1 ELSE 0) - (IF from = "pop" THEN 1 ELSE 0)
  <2> DEFINE before == At(Takers, "pop")
             after  == At(Takers, "pop")'
  <2>1. /\ to = "pop" => c \notin before /\ after = before \cup {c}
        /\ from = "pop" => c \in before /\ after = before \ {c}
        /\ to # "pop" /\ from # "pop" => after = before
    BY <1>1 DEF At
  <2>2. TPop = Cardinality(before) /\ TPop' = Cardinality(after) /\ TPop \in Nat
    BY Totals DEF TPop
  <2>3. IsFiniteSet(before)
    BY FinitePlaces
  <2> HIDE DEF before, after
  <2>4. /\ to = "pop" => Cardinality(after) = Cardinality(before) + 1
        /\ from = "pop" => Cardinality(after) = Cardinality(before) - 1
        /\ to # "pop" /\ from # "pop" => Cardinality(after) = Cardinality(before)
    BY <2>1, <2>3, TotalNext
  <2> QED BY <2>2, <2>4
<1>3. TCount' = TCount + (IF to = "count" THEN 1 ELSE 0) - (IF from = "count" THEN 1 ELSE 0)
  <2> DEFINE before == At(Takers, "count")
             after  == At(Takers, "count")'
  <2>1. /\ to = "count" => c \notin before /\ after = before \cup {c}
        /\ from = "count" => c \in before /\ after = before \ {c}
        /\ to # "count" /\ from # "count" => after = before
    BY <1>1 DEF At
  <2>2. TCount = Cardinality(before) /\ TCount' = Cardinality(after) /\ TCount \in Nat
    BY Totals DEF TCount
  <2>3. IsFiniteSet(before)
    BY FinitePlaces
  <2> HIDE DEF before, after
  <2>4. /\ to = "count" => Cardinality(after) = Cardinality(before) + 1
        /\ from = "count" => Cardinality(after) = Cardinality(before) - 1
        /\ to # "count" /\ from # "count" => Cardinality(after) = Cardinality(before)
    BY <2>1, <2>3, TotalNext
  <2> QED BY <2>2, <2>4
<1>4. At(Producers, "push")' = At(Producers, "push")
      /\ At(Producers, "count")' = At(Producers, "count")
  BY <1>1 DEF At
<1>5. PPush' = PPush /\ PCount' = PCount
  BY <1>4 DEF PPush, PCount
<1> QED BY <1>2, <1>3, <1>5
(* Each action moves a place or an item from one term of the counts to     *)
(* another.                                                                *)
LEMMA TypesOf == WInv => Types /\ Len(m_queue) \in Nat /\ fullVal \in Nat /\ emptyVal \in Nat
BY LenProperties DEF WInv, Types

LEMMA WaitFullCounts ==
    ASSUME QInv, NEW p \in Producers, WaitFull(p) PROVE QInv'
<1>1. /\ WInv' /\ ChosenT' = ChosenT /\ UNCHANGED <<m_queue, emptyVal>>
      /\ \/ /\ Goto(p, "idle", "push") /\ fullVal' = fullVal - 1
            /\ ChosenP' = ChosenP
         \/ /\ Goto(p, "idle", "waiting") /\ fullVal' = fullVal
            /\ ChosenP' = ChosenP
         \/ /\ Goto(p, "waiting", "push") /\ fullVal' = fullVal
            /\ p \in ChosenP /\ ChosenP' = ChosenP \ {p}
  BY WaitFullNext DEF QInv
<1>2. /\ TChosen' = TChosen
      /\ ChosenP' = ChosenP => PChosen' = PChosen
      /\ p \in ChosenP /\ ChosenP' = ChosenP \ {p} => PChosen' = PChosen - 1
  BY <1>1, Totals, TotalNext DEF TChosen, PChosen
<1>3. CASE Goto(p, "idle", "push") /\ fullVal' = fullVal - 1 /\ ChosenP' = ChosenP
  <2>1. PPush' = PPush + 1 /\ PCount' = PCount /\ TPop' = TPop /\ TCount' = TCount
    BY <1>3, ProducerMoved, TypesOf, Totals DEF QInv, Points, Waits
  <2>5. Len(m_queue)' = Len(m_queue)
    BY <1>1
  <2>6. PlacesCount'
    <3>1. PChosen' = PChosen /\ fullVal' = fullVal - 1
      BY <1>2, <1>3
    <3>2. fullVal \in Nat /\ Len(m_queue) \in Nat /\ PlacesCount
      BY TypesOf DEF QInv
    <3> QED BY <2>1, <2>5, <3>1, <3>2, Totals, maxItemsAssumption DEF PlacesCount
  <2>7. ItemsCount'
    BY <1>1, <1>2, <1>3, <2>1, <2>5, TypesOf, Totals DEF QInv, ItemsCount
  <2> QED BY <1>1, <2>6, <2>7 DEF QInv
<1>4. CASE Goto(p, "idle", "waiting") /\ fullVal' = fullVal /\ ChosenP' = ChosenP
  <2>1. PPush' = PPush /\ PCount' = PCount /\ TPop' = TPop /\ TCount' = TCount
    BY <1>4, ProducerMoved, TypesOf, Totals DEF QInv, Points, Waits
  <2>5. Len(m_queue)' = Len(m_queue)
    BY <1>1
  <2>6. PlacesCount'
    BY <1>1, <1>2, <1>4, <2>1, <2>5, TypesOf, Totals, maxItemsAssumption
       DEF QInv, PlacesCount
  <2>7. ItemsCount'
    BY <1>1, <1>2, <1>4, <2>1, <2>5, TypesOf, Totals DEF QInv, ItemsCount
  <2> QED BY <1>1, <2>6, <2>7 DEF QInv
<1>5. CASE /\ Goto(p, "waiting", "push") /\ fullVal' = fullVal
           /\ p \in ChosenP /\ ChosenP' = ChosenP \ {p}
  <2>1. PPush' = PPush + 1 /\ PCount' = PCount /\ TPop' = TPop /\ TCount' = TCount
    BY <1>5, ProducerMoved, TypesOf, Totals DEF QInv, Points, Waits
  <2>5. Len(m_queue)' = Len(m_queue)
    BY <1>1
  <2>6. PlacesCount'
    BY <1>1, <1>2, <1>5, <2>1, <2>5, TypesOf, Totals, maxItemsAssumption
       DEF QInv, PlacesCount
  <2>7. ItemsCount'
    BY <1>1, <1>2, <1>5, <2>1, <2>5, TypesOf, Totals DEF QInv, ItemsCount
  <2> QED BY <1>1, <2>6, <2>7 DEF QInv
<1> QED BY <1>1, <1>3, <1>4, <1>5

LEMMA WaitEmptyCounts ==
    ASSUME QInv, NEW c \in Takers,
           WaitEmpty(c) \/ (Goto(c, "waitagain", "pop") /\ Empty!Granted(c) /\ EmptyOnly)
    PROVE  QInv'
<1>1. /\ WInv' /\ ChosenP' = ChosenP /\ UNCHANGED <<m_queue, fullVal>>
      /\ \/ /\ Goto(c, "idle", "pop") /\ emptyVal' = emptyVal - 1
            /\ ChosenT' = ChosenT
         \/ /\ Goto(c, "idle", "waiting") /\ emptyVal' = emptyVal
            /\ ChosenT' = ChosenT
         \/ /\ Goto(c, "waiting", "pop") \/ Goto(c, "waitagain", "pop")
            /\ emptyVal' = emptyVal
            /\ c \in ChosenT /\ ChosenT' = ChosenT \ {c}
  <2>1. CASE WaitEmpty(c)
    BY <2>1, WaitEmptyNext DEF QInv
  <2>2. CASE Goto(c, "waitagain", "pop") /\ Empty!Granted(c) /\ EmptyOnly
    BY <2>2, GrantedNext DEF QInv, EmptyOnly, Empty!Granted
  <2> QED BY <2>1, <2>2
<1>2. /\ PChosen' = PChosen
      /\ ChosenT' = ChosenT => TChosen' = TChosen
      /\ c \in ChosenT /\ ChosenT' = ChosenT \ {c} => TChosen' = TChosen - 1
  BY <1>1, Totals, TotalNext DEF TChosen, PChosen
<1>3. CASE Goto(c, "idle", "pop") /\ emptyVal' = emptyVal - 1 /\ ChosenT' = ChosenT
  <2>1. TPop' = TPop + 1 /\ TCount' = TCount /\ PPush' = PPush /\ PCount' = PCount
    BY <1>3, TakerMoved, TypesOf, Totals DEF QInv, Points, Waits
  <2>5. Len(m_queue)' = Len(m_queue)
    BY <1>1
  <2>6. PlacesCount'
    BY <1>1, <1>2, <1>3, <2>1, <2>5, TypesOf, Totals, maxItemsAssumption
       DEF QInv, PlacesCount
  <2>7. ItemsCount'
    BY <1>1, <1>2, <1>3, <2>1, <2>5, TypesOf, Totals DEF QInv, ItemsCount
  <2> QED BY <1>1, <2>6, <2>7 DEF QInv
<1>4. CASE Goto(c, "idle", "waiting") /\ emptyVal' = emptyVal /\ ChosenT' = ChosenT
  <2>1. TPop' = TPop /\ TCount' = TCount /\ PPush' = PPush /\ PCount' = PCount
    BY <1>4, TakerMoved, TypesOf, Totals DEF QInv, Points, Waits
  <2>5. Len(m_queue)' = Len(m_queue)
    BY <1>1
  <2>6. PlacesCount'
    BY <1>1, <1>2, <1>4, <2>1, <2>5, TypesOf, Totals, maxItemsAssumption
       DEF QInv, PlacesCount
  <2>7. ItemsCount'
    BY <1>1, <1>2, <1>4, <2>1, <2>5, TypesOf, Totals DEF QInv, ItemsCount
  <2> QED BY <1>1, <2>6, <2>7 DEF QInv
<1>5. CASE /\ Goto(c, "waiting", "pop") \/ Goto(c, "waitagain", "pop")
           /\ emptyVal' = emptyVal
           /\ c \in ChosenT /\ ChosenT' = ChosenT \ {c}
  <2>1. TPop' = TPop + 1 /\ TCount' = TCount /\ PPush' = PPush /\ PCount' = PCount
    BY <1>5, TakerMoved, TypesOf, Totals DEF QInv, Points, Waits
  <2>5. Len(m_queue)' = Len(m_queue)
    BY <1>1
  <2>6. PlacesCount'
    BY <1>1, <1>2, <1>5, <2>1, <2>5, TypesOf, Totals, maxItemsAssumption
       DEF QInv, PlacesCount
  <2>7. ItemsCount'
    BY <1>1, <1>2, <1>5, <2>1, <2>5, TypesOf, Totals DEF QInv, ItemsCount
  <2> QED BY <1>1, <2>6, <2>7 DEF QInv
<1> QED BY <1>1, <1>3, <1>4, <1>5

LEMMA PushAndCountCounts ==
    ASSUME QInv, NEW p \in Producers, PushAndCount(p) PROVE QInv'
<1>1. /\ WInv' /\ ChosenP' = ChosenP /\ UNCHANGED fullVal
      /\ \/ /\ Goto(p, "push", "count") /\ Len(m_queue') = Len(m_queue) + 1
            /\ emptyVal' = emptyVal /\ ChosenT' = ChosenT
         \/ /\ Goto(p, "count", "signal") /\ m_queue' = m_queue
            /\ emptyVal' = emptyVal + 1 /\ ChosenT' = ChosenT
         \/ /\ Goto(p, "count", "signal") /\ m_queue' = m_queue
            /\ emptyVal' = emptyVal
            /\ \E c \in Takers \ ChosenT : ChosenT' = ChosenT \cup {c}
  BY PushAndCountNext DEF QInv
<1>2. /\ PChosen' = PChosen
      /\ ChosenT' = ChosenT => TChosen' = TChosen
      /\ (\E c \in Takers \ ChosenT : ChosenT' = ChosenT \cup {c}) =>
            TChosen' = TChosen + 1
  BY <1>1, Totals, TotalNext DEF TChosen, PChosen
<1>3. CASE /\ Goto(p, "push", "count") /\ Len(m_queue') = Len(m_queue) + 1
           /\ emptyVal' = emptyVal /\ ChosenT' = ChosenT
  <2>1. PPush' = PPush - 1 /\ PCount' = PCount + 1 /\ TPop' = TPop /\ TCount' = TCount
    BY <1>3, ProducerMoved, TypesOf, Totals DEF QInv, Points, Waits
  <2>5. Len(m_queue)' = Len(m_queue) + 1
    BY <1>3
  <2>6. PlacesCount'
    BY <1>1, <1>2, <1>3, <2>1, <2>5, TypesOf, Totals, maxItemsAssumption
       DEF QInv, PlacesCount
  <2>7. ItemsCount'
    BY <1>1, <1>2, <1>3, <2>1, <2>5, TypesOf, Totals DEF QInv, ItemsCount
  <2> QED BY <1>1, <2>6, <2>7 DEF QInv
<1>4. CASE /\ Goto(p, "count", "signal") /\ m_queue' = m_queue
           /\ \/ emptyVal' = emptyVal + 1 /\ ChosenT' = ChosenT
              \/ /\ emptyVal' = emptyVal
                 /\ \E c \in Takers \ ChosenT : ChosenT' = ChosenT \cup {c}
  <2>1. PPush' = PPush /\ PCount' = PCount - 1 /\ TPop' = TPop /\ TCount' = TCount
    BY <1>4, ProducerMoved, TypesOf, Totals DEF QInv, Points, Waits
  <2>5. Len(m_queue)' = Len(m_queue)
    BY <1>4
  <2>6. PlacesCount'
    BY <1>1, <1>2, <1>4, <2>1, <2>5, TypesOf, Totals, maxItemsAssumption
       DEF QInv, PlacesCount
  <2>7. ItemsCount'
    BY <1>1, <1>2, <1>4, <2>1, <2>5, TypesOf, Totals DEF QInv, ItemsCount
  <2> QED BY <1>1, <2>6, <2>7 DEF QInv
<1> QED BY <1>1, <1>3, <1>4

LEMMA PopAndCountCounts ==
    ASSUME QInv, NEW c \in Takers, PopAndCount(c) PROVE QInv'
<1>1. /\ WInv' /\ ChosenT' = ChosenT /\ UNCHANGED emptyVal
      /\ \/ /\ Goto(c, "pop", "count")
            /\ m_queue # <<>> => Len(m_queue') = Len(m_queue) - 1
            /\ fullVal' = fullVal /\ ChosenP' = ChosenP
         \/ /\ Goto(c, "count", "signal") /\ m_queue' = m_queue
            /\ fullVal' = fullVal + 1 /\ ChosenP' = ChosenP
         \/ /\ Goto(c, "count", "signal") /\ m_queue' = m_queue
            /\ fullVal' = fullVal
            /\ \E p \in Producers \ ChosenP : ChosenP' = ChosenP \cup {p}
  BY PopAndCountNext DEF QInv
<1>2. /\ TChosen' = TChosen
      /\ ChosenP' = ChosenP => PChosen' = PChosen
      /\ (\E p \in Producers \ ChosenP : ChosenP' = ChosenP \cup {p}) =>
            PChosen' = PChosen + 1
  BY <1>1, Totals, TotalNext DEF TChosen, PChosen
<1>3. CASE /\ Goto(c, "pop", "count")
           /\ m_queue # <<>> => Len(m_queue') = Len(m_queue) - 1
           /\ fullVal' = fullVal /\ ChosenP' = ChosenP
  <2>1. TPop' = TPop - 1 /\ TCount' = TCount + 1 /\ PPush' = PPush /\ PCount' = PCount
    BY <1>3, TakerMoved, TypesOf, Totals DEF QInv, Points, Waits
  <2>2. TPop \in Nat /\ TPop' \in Nat
    <3>1. At(Takers, "pop")' \subseteq Takers
      BY DEF At
    <3>2. TPop' \in Nat
      BY <3>1, FiniteThreads, FS_Subset, FS_CardinalityType DEF TPop
    <3> QED BY <3>2, Totals
  <2>3. Len(m_queue) >= 1
    BY <2>1, <2>2, TypesOf, Totals DEF QInv, ItemsCount
  <2>4. m_queue # <<>>
    BY <2>3
  <2>5. Len(m_queue)' = Len(m_queue) - 1
    BY <1>3, <2>4
  <2>6. PlacesCount'
    <3>1. PChosen' = PChosen /\ fullVal' = fullVal
      BY <1>2, <1>3
    <3>2. fullVal \in Nat /\ Len(m_queue) \in Nat /\ PlacesCount
      BY TypesOf DEF QInv
    <3> QED BY <2>1, <2>5, <3>1, <3>2, Totals, maxItemsAssumption DEF PlacesCount
  <2>7. ItemsCount'
    BY <1>1, <1>2, <1>3, <2>1, <2>5, TypesOf, Totals DEF QInv, ItemsCount
  <2> QED BY <1>1, <2>6, <2>7 DEF QInv
<1>4. CASE /\ Goto(c, "count", "signal") /\ m_queue' = m_queue
           /\ \/ fullVal' = fullVal + 1 /\ ChosenP' = ChosenP
              \/ /\ fullVal' = fullVal
                 /\ \E p \in Producers \ ChosenP : ChosenP' = ChosenP \cup {p}
  <2>1. TPop' = TPop /\ TCount' = TCount - 1 /\ PPush' = PPush /\ PCount' = PCount
    BY <1>4, TakerMoved, TypesOf, Totals DEF QInv, Points, Waits
  <2>5. Len(m_queue)' = Len(m_queue)
    BY <1>4
  <2>6. PlacesCount'
    BY <1>1, <1>2, <1>4, <2>1, <2>5, TypesOf, Totals, maxItemsAssumption
       DEF QInv, PlacesCount
  <2>7. ItemsCount'
    BY <1>1, <1>2, <1>4, <2>1, <2>5, TypesOf, Totals DEF QInv, ItemsCount
  <2> QED BY <1>1, <2>6, <2>7 DEF QInv
<1> QED BY <1>1, <1>3, <1>4

(* Nothing counted changes.                                                *)
LEMMA NothingCounted ==
    ASSUME QInv, WInv', ChosenP' = ChosenP, ChosenT' = ChosenT,
           UNCHANGED <<fullVal, emptyVal, m_queue>>,
           \/ UNCHANGED pc
           \/ \E t \in Threads, from, to \in Points \ {"push", "pop", "count"} :
                 from # to /\ Goto(t, from, to)
    PROVE  QInv'
<1>1. PPush' = PPush /\ PCount' = PCount /\ TPop' = TPop /\ TCount' = TCount
  <2>1. CASE UNCHANGED pc
    BY <2>1 DEF PPush, PCount, TPop, TCount, At
  <2>2. ASSUME NEW t \in Threads, NEW from \in Points \ {"push", "pop", "count"},
               NEW to \in Points \ {"push", "pop", "count"},
               from # to, Goto(t, from, to)
        PROVE  PPush' = PPush /\ PCount' = PCount /\ TPop' = TPop /\ TCount' = TCount
    <3>1. CASE t \in Producers
      BY <2>2, <3>1, ProducerMoved, TypesOf, Totals DEF QInv
    <3>2. CASE t \in Takers
      BY <2>2, <3>2, TakerMoved, TypesOf, Totals DEF QInv
    <3> QED BY <3>1, <3>2, Disjoint
  <2> QED BY <2>1, <2>2
<1>2. PChosen' = PChosen /\ TChosen' = TChosen
  BY DEF PChosen, TChosen
<1> QED BY <1>1, <1>2 DEF QInv, PlacesCount, ItemsCount

-----------------------------------------------------------------------------
LEMMA QInvInit == Init => QInv
<1> SUFFICES ASSUME Init PROVE QInv
  OBVIOUS
<1>1. /\ m_queue = <<>> /\ fullVal = maxItems /\ emptyVal = 0
      /\ fullQueue = <<>> /\ emptyQueue = <<>> /\ signalled = {}
      /\ \A t \in Threads : pNode[t] = <<>> /\ pc[t] = "idle"
      /\ Producers \subseteq Threads /\ Takers \subseteq Threads
  BY Disjoint DEF Init
<1>2. Elems(<<>>) = {} /\ Once(<<>>) /\ Len(<<>>) = 0
  BY DEF Elems, Once
<1>3. Types
  <2>1. /\ pNode \in [Threads -> Seq(Threads)]
        /\ pc \in [Threads -> Waits \cup {"idle", "push", "pop", "count", "signal"}]
    BY EmptySeq DEF Init
  <2> QED BY <1>1, <2>1, EmptySeq, maxItemsAssumption DEF Types
<1>4. Waiters
  BY <1>1, <1>2 DEF Waiters, NoBarging
<1>5. ChosenP = {} /\ ChosenT = {}
  BY <1>1 DEF ChosenP, ChosenT, Waits
<1>6. Nodes
  BY <1>1, <1>5 DEF Nodes
<1>7. /\ PChosen = 0 /\ PPush = 0 /\ PCount = 0
      /\ TChosen = 0 /\ TPop = 0 /\ TCount = 0
  <2>1. /\ At(Producers, "push") = {} /\ At(Producers, "count") = {}
        /\ At(Takers, "pop") = {} /\ At(Takers, "count") = {}
    BY <1>1 DEF At
  <2> QED BY <1>5, <2>1, FS_EmptySet DEF PChosen, PPush, PCount, TChosen, TPop, TCount
<1>8. PlacesCount /\ ItemsCount
  BY <1>1, <1>2, <1>7, maxItemsAssumption DEF PlacesCount, ItemsCount
<1> QED BY <1>3, <1>4, <1>6, <1>8 DEF QInv, WInv

LEMMA QInvNext == QInv /\ [Next]_vars => QInv'
<1> SUFFICES ASSUME QInv, [Next]_vars PROVE QInv'
  OBVIOUS
<1>1. ASSUME NEW p \in Producers, WaitFull(p) \/ PushAndCount(p) PROVE QInv'
  BY <1>1, WaitFullCounts, PushAndCountCounts
<1>2. ASSUME NEW c \in Takers, WaitEmpty(c) \/ PopAndCount(c) PROVE QInv'
  BY <1>2, WaitEmptyCounts, PopAndCountCounts
<1>3. ASSUME NEW c \in TimedConsumers, TimedOut(c) \/ Timeout(c) PROVE QInv'
  <2>1. c \in Takers /\ c \in Threads
    BY Disjoint DEF Takers
  <2>2. CASE Goto(c, "waitagain", "pop") /\ Empty!Granted(c) /\ EmptyOnly
    BY <2>1, <2>2, WaitEmptyCounts
  <2>3. CASE Timeout(c) \/ (TimedOut(c) /\ ~Goto(c, "waitagain", "pop"))
    <3>1. /\ WInv' /\ ChosenP' = ChosenP /\ ChosenT' = ChosenT
          /\ UNCHANGED <<fullVal, emptyVal, m_queue>>
          /\ \/ Goto(c, "waiting", "timedout") \/ Goto(c, "timedout", "idle")
             \/ Goto(c, "timedout", "waitagain")
      BY <2>1, <2>3, TimeoutNext DEF QInv
    <3>2. \E from, to \in Points \ {"push", "pop", "count"} :
              from # to /\ Goto(c, from, to)
      <4>1. {"waiting", "timedout", "waitagain", "idle"}
              \subseteq Points \ {"push", "pop", "count"}
        BY DEF Points, Waits
      <4> QED BY <3>1, <4>1
    <3> QED BY <2>1, <3>1, <3>2, NothingCounted
  <2>4. TimedOut(c) /\ Goto(c, "waitagain", "pop") =>
           Goto(c, "waitagain", "pop") /\ Empty!Granted(c) /\ EmptyOnly
    BY DEF TimedOut, Goto
  <2> QED BY <1>3, <2>2, <2>3, <2>4
<1>4. ASSUME NEW t \in Threads, SignalWaiter(t) PROVE QInv'
  <2>1. /\ WInv' /\ ChosenP' = ChosenP /\ ChosenT' = ChosenT
        /\ UNCHANGED <<fullVal, emptyVal, m_queue>>
        /\ UNCHANGED pc \/ Goto(t, "signal", "idle")
    BY <1>4, SignalWaiterNext DEF QInv
  <2>2. "signal" \in Points \ {"push", "pop", "count"}
        /\ "idle" \in Points \ {"push", "pop", "count"}
    BY DEF Points
  <2> QED BY <2>1, <2>2, NothingCounted
<1>5. CASE UNCHANGED vars
  <2>1. UNCHANGED <<m_queue, fullVal, emptyVal, fullQueue, emptyQueue, signalled,
                    pNode, pc>>
    BY <1>5 DEF vars, semaphores
  <2>2. ChosenP' = ChosenP /\ ChosenT' = ChosenT
    BY <2>1 DEF ChosenP, ChosenT
  <2>3. Types' /\ Waiters'
    BY <2>1 DEF QInv, WInv, Types, Waiters, NoBarging
  <2>4. Nodes'
    BY <2>1, <2>2 DEF QInv, WInv, Nodes
  <2> QED BY <2>1, <2>2, <2>3, <2>4, NothingCounted DEF WInv
<1> QED BY <1>1, <1>2, <1>3, <1>4, <1>5 DEF Next, Call

LEMMA QInvAlways == Spec => []QInv
<1>1. Init => QInv
  BY QInvInit
<1>2. QInv /\ [Next]_vars => QInv'
  BY QInvNext
<1> QED BY <1>1, <1>2, PTL DEF Spec

(* The chosen threads of the properties are the ones counted.              *)
LEMMA ChosenAre ==
    ASSUME WInv
    PROVE  /\ Chosen(Producers) = ChosenP /\ Chosen(Takers) = ChosenT
           /\ Chosen(Threads) = ChosenP \cup ChosenT
<1>1. /\ DOMAIN fullQueue = 1..Len(fullQueue)
      /\ DOMAIN emptyQueue = 1..Len(emptyQueue)
  BY LenProperties DEF WInv, Types
<1>2. \A t \in Producers :
         t \in Elems(fullQueue) <=> \E i \in DOMAIN QueueOf(t) : QueueOf(t)[i] = t
  BY <1>1 DEF QueueOf, Elems
<1>3. \A t \in Takers :
         t \in Elems(emptyQueue) <=> \E i \in DOMAIN QueueOf(t) : QueueOf(t)[i] = t
  BY <1>1, Disjoint DEF QueueOf, Elems
<1>4. InWait = {t \in Threads : pc[t] \in Waits}
  BY DEF InWait, Waits
<1> QED BY <1>2, <1>3, <1>4, Disjoint DEF Chosen, ChosenP, ChosenT

(* The values of the state stay what they are meant to be; that no         *)
(* semaphore ever counts more than maxItems permits needs the counts.      *)
THEOREM TypeCorrect == Spec => []TypeOK
<1>1. QInv => TypeOK
  <2> SUFFICES ASSUME QInv PROVE TypeOK
    OBVIOUS
  <2>1. fullVal \in 0..maxItems /\ emptyVal \in 0..maxItems
    BY TypesOf, Totals, maxItemsAssumption DEF QInv, PlacesCount, ItemsCount
  <2> QED BY <2>1 DEF QInv, WInv, Types, TypeOK, Waits
<1> QED BY <1>1, QInvAlways, PTL

(* No place and no item is lost or counted twice, for any numbers of       *)
(* producers and consumers and any size of the queue.                      *)
THEOREM PermitsAlwaysConserved == Spec => []PermitsConserved
<1>1. QInv => PermitsConserved
  BY ChosenAre DEF QInv, PlacesCount, ItemsCount, PermitsConserved, PlacesConserved,
        ItemsConserved, PChosen, PPush, PCount, TChosen, TPop, TCount
<1> QED BY <1>1, QInvAlways, PTL

(* A release touches a node only while its thread is in wait(), and no two *)
(* releases the same one.                                                  *)
THEOREM NodesAlwaysAlive == Spec => []NodesAlive
<1>1. QInv => NodesAlive
  <2> SUFFICES ASSUME QInv PROVE NodesAlive
    OBVIOUS
  <2>1. WInv
    BY DEF QInv
  <2>2. \A t \in Threads : \A i \in DOMAIN pNode[t] : pNode[t] # <<>> /\ i = 1
    <3> SUFFICES ASSUME NEW t \in Threads, NEW i \in DOMAIN pNode[t]
                 PROVE  pNode[t] # <<>> /\ i = 1
      OBVIOUS
    <3>1. pNode[t] \in Seq(Threads) /\ DOMAIN pNode[t] = 1..Len(pNode[t])
      BY <2>1, LenProperties DEF WInv, Types
    <3>2. pNode[t] # <<>>
      BY <3>1
    <3>3. Len(pNode[t]) = 1
      BY <2>1, <3>2 DEF WInv, Nodes
    <3> QED BY <3>1, <3>2, <3>3
  <2>3. Chosen(Threads) = ChosenP \cup ChosenT
    BY <2>1, ChosenAre
  <2> QED BY <2>1, <2>2, <2>3 DEF WInv, Nodes, NodesAlive
<1> QED BY <1>1, QInvAlways, PTL

(* A thread that comes later never gets a permit before one that waits.    *)
THEOREM NeverBarging == Spec => []NoBarging
<1>1. QInv => NoBarging
  BY DEF QInv, WInv, Waiters
<1> QED BY <1>1, QInvAlways, PTL

(* Whoever is about to push has a place, whoever is about to pop an item.  *)
LEMMA PlaceForPush ==
    ASSUME QInv, NEW p \in Producers, pc[p] = "push" PROVE Len(m_queue) < maxItems
<1>1. p \in At(Producers, "push") /\ IsFiniteSet(At(Producers, "push"))
  BY FinitePlaces DEF At
<1>2. PPush # 0
  BY <1>1, FS_EmptySet DEF PPush
<1> QED BY <1>2, TypesOf, Totals, maxItemsAssumption DEF QInv, PlacesCount

LEMMA ItemForPop ==
    ASSUME QInv, NEW c \in Takers, pc[c] = "pop" PROVE m_queue # <<>>
<1>1. c \in At(Takers, "pop") /\ IsFiniteSet(At(Takers, "pop"))
  BY FinitePlaces DEF At
<1>2. TPop # 0
  BY <1>1, FS_EmptySet DEF TPop
<1>3. Len(m_queue) > 0
  BY <1>2, TypesOf, Totals DEF QInv, ItemsCount
<1> QED BY <1>3

(* The safety of the abstract queue: enqueue pushes only where there is    *)
(* room, and dequeue never looks at a try_pop that found nothing.          *)
THEOREM RefinesBoundedFifo == Spec => Fifo!Spec
<1>1. Init => Fifo!Init
  BY DEF Init, Fifo!Init
<1>2. QInv /\ [Next]_vars => [Fifo!Next]_m_queue
  <2> SUFFICES ASSUME QInv, [Next]_vars PROVE Fifo!Next \/ UNCHANGED m_queue
    BY DEF Fifo!Next
  <2>1. ASSUME NEW p \in Producers, WaitFull(p) \/ PushAndCount(p)
        PROVE  Fifo!Next \/ UNCHANGED m_queue
    <3>1. CASE /\ Goto(p, "push", "count")
               /\ \E x \in Items : m_queue' = Append(m_queue, x)
      BY <3>1, PlaceForPush DEF Goto, Fifo!Next, Fifo!Put
    <3>2. CASE UNCHANGED m_queue
      BY <3>2
    <3> QED BY <2>1, <3>1, <3>2 DEF WaitFull, PushAndCount, FullOnly, EmptyOnly
  <2>2. ASSUME NEW c \in Takers, WaitEmpty(c) \/ PopAndCount(c)
        PROVE  Fifo!Next \/ UNCHANGED m_queue
    <3>1. CASE /\ Goto(c, "pop", "count")
               /\ m_queue' = IF m_queue = <<>> THEN <<>> ELSE Tail(m_queue)
      BY <3>1, ItemForPop DEF Goto, Fifo!Next, Fifo!Take
    <3>2. CASE UNCHANGED m_queue
      BY <3>2
    <3> QED BY <2>2, <3>1, <3>2 DEF WaitEmpty, PopAndCount, FullOnly, EmptyOnly
  <2>3. ASSUME NEW c \in TimedConsumers, TimedOut(c) \/ Timeout(c)
        PROVE  UNCHANGED m_queue
    BY <2>3 DEF TimedOut, Timeout, EmptyOnly
  <2>4. ASSUME NEW t \in Threads, SignalWaiter(t) PROVE UNCHANGED m_queue
    BY <2>4 DEF SignalWaiter
  <2>5. CASE UNCHANGED vars
    BY <2>5 DEF vars
  <2> QED BY <2>1, <2>2, <2>3, <2>4, <2>5 DEF Next, Call
<1> QED BY <1>1, <1>2, QInvAlways, PTL DEF Spec, Fifo!Spec

-----------------------------------------------------------------------------
(* Tasks and the functions that combine them.                              *)

Then(i) == <<"then", i>>
Canc(i) == <<"cancel", i>>
ValueKinds == {"any", "or"}
TotalKinds == {"all", "and"}

(* Where the job of a task may be.                                         *)
Blocked   == {"none", "pending", "scheduled", "dropped"}
Settling  == {"set", "setLocked", "finalizing"}
Canceling == {"cancel", "cancelLocked", "canceling"}
Where(t) ==
    CASE Role(t) = "in" ->
           {"scheduled", "done"} \cup (IF kind = "event"
                                       THEN Settling \cup Canceling \cup {"finish"} ELSE {})
      [] Role(t) = "then" ->
           Blocked \cup Settling \cup {"done"}
             \cup (IF kind \in TotalKinds THEN {"count"} ELSE {})
             \cup (IF kind = "all" THEN {"free"} ELSE {})
      [] Role(t) = "cancel" ->
           Blocked \cup Canceling \cup {"done"}
             \cup (IF kind # "and" THEN {"count"} ELSE {})
             \cup (IF kind \in {"all", "or"} THEN {"free"} ELSE {})
      [] Role(t) = "ret" ->
           Blocked \cup {"finish", "done"} \cup (IF kind # "event" THEN {"free"} ELSE {})
      [] Role(t) = "clean" ->
           Blocked \cup {"done"} \cup (IF kind # "event" THEN {"free"} ELSE {})
      [] OTHER -> {"none"}
Stages == Blocked \cup Settling \cup Canceling \cup {"count", "free", "finish", "done"}

TypeInv == /\ kind \in Kinds
           /\ _M_fCompleted \in [Tasks -> BOOLEAN]
           /\ _M_fCancellationRequested \in [Tasks -> BOOLEAN]
           /\ _M_Result \in [Tasks -> SUBSET Inputs]
           /\ job \in [Tasks -> Stages]
           /\ _HasValue \in BOOLEAN /\ _IsCanceled \in BOOLEAN
           /\ _Value \in SUBSET Inputs
           /\ _Tasks \subseteq {All, Also}
           /\ _M_vector \in SUBSET Inputs
           /\ _M_lCount \in Nat /\ freed \in Nat /\ usedFreed \in BOOLEAN
           /\ built \subseteq Makes[kind]

PlaceInv == \A t \in Tasks : /\ job[t] \in Where(t)
                             /\ Role(t) # "in" /\ t \notin built => job[t] = "none"

(* A job runs because of how the task before it was settled.               *)
Past(t) == job[t] \notin Blocked
FlagInv ==
    \A t \in Tasks :
        /\ Role(t) \in {"then", "ret"} =>
              /\ job[t] = "scheduled" => Settled(Ancestor(t))
              /\ Past(t) => /\ _M_fCompleted[Ancestor(t)]
                            /\ ~_M_fCancellationRequested[Ancestor(t)]
        /\ Role(t) \in {"cancel", "clean"} /\ (job[t] = "scheduled" \/ Past(t)) =>
              _M_fCancellationRequested[Ancestor(t)]

(* The given tasks that have been counted, and how many they are.          *)
ThenCounted(i) == kind \in TotalKinds /\ job[Then(i)] \in Settling \cup {"free", "done"}
CancCounted(i) == \/ kind = "all" /\ job[Canc(i)] \in {"free", "done"}
                  \/ kind \in ValueKinds /\ job[Canc(i)] \in Canceling \cup {"free", "done"}
CountedInputs == {i \in Inputs : ThenCounted(i) \/ CancCounted(i)}
CountInv == kind # "event" => _M_lCount = Cardinality(CountedInputs)

(* The event: why it has been set or canceled.                             *)
EventInv ==
    /\ ~(_HasValue /\ _IsCanceled)
    /\ _M_fCompleted[All] => _HasValue
    /\ _M_fCancellationRequested[All] => _IsCanceled
    /\ \A t \in Tasks : /\ job[t] = "finalizing" => _HasValue
                        /\ job[t] = "canceling" => _IsCanceled
    /\ _HasValue /\ kind \in TotalKinds => \A i \in Inputs : ThenCounted(i)
    /\ _HasValue /\ kind \in ValueKinds =>
          \E i \in Inputs : /\ _Value = {i} /\ _M_fCompleted[In(i)]
                            /\ ~_M_fCancellationRequested[In(i)]
    /\ _IsCanceled /\ kind \in TotalKinds =>
          \E i \in Inputs : _M_fCancellationRequested[In(i)]
    /\ _IsCanceled /\ kind \in ValueKinds =>
          \A i \in Inputs : _M_fCancellationRequested[In(i)]
    /\ kind = "all" =>
          \A i \in Inputs :
              job[Canc(i)] \in {"count", "free", "done"} => _HasValue \/ _IsCanceled

(* The job that was counted last, until it is done.                        *)
Last(t) ==
    \/ Role(t) = "then" /\ kind \in TotalKinds /\ job[t] \in Settling \cup {"free"}
    \/ Role(t) = "cancel" /\ kind = "all" /\ job[t] = "free"
    \/ Role(t) = "cancel" /\ kind \in ValueKinds /\ job[t] \in Canceling \cup {"free"}
LastInv ==
    /\ \A t, u \in Tasks : Last(t) /\ Last(u) => t = u
    /\ \A t \in Tasks : Last(t) =>
          /\ CountedInputs = Inputs
          /\ job[t] # "finalizing" => ~_HasValue
          /\ kind \in {"all", "or"} /\ job[t] # "finalizing" => freed = 0

(* Who has deleted the parameter.                                          *)
FreedInv ==
    /\ freed > 0 =>
          /\ freed = 1
          /\ \/ job[Ret] \in {"finish", "done"}
             \/ job[Clean] = "done"
             \/ /\ kind \in {"all", "or"} /\ CountedInputs = Inputs /\ ~_HasValue
                /\ \A t \in Tasks : ~Last(t)
    /\ kind = "event" => freed = 0
    /\ kind = "all" => ~usedFreed

(* What the tasks return.                                                  *)
ResultInv ==
    /\ \A i \in Inputs : _M_fCompleted[In(i)] => _M_Result[In(i)] = {i}
    /\ kind = "all" => _M_vector = {i \in Inputs : ThenCounted(i)}
    /\ _M_fCompleted[All] => _M_Result[All] = _Value
    /\ _M_fCompleted[Ret] => ResultIsComplete

(* What has been answered.                                                 *)
AnswerInv ==
    /\ watched \in Tasks
    /\ woken => Settled(watched)
    /\ "completed" \in answers =>
          _M_fCompleted[watched] /\ ~_M_fCancellationRequested[watched]
    /\ "canceled" \in answers \/ watched \in asked => _M_fCancellationRequested[watched]

AllInv == TypeInv /\ PlaceInv /\ FlagInv /\ CountInv /\ EventInv /\ LastInv /\ FreedInv
          /\ ResultInv /\ AnswerInv
-----------------------------------------------------------------------------
LEMMA TaskFacts ==
    /\ \A t \in Tasks : \/ \E i \in Inputs : t \in {In(i), Then(i), Canc(i)}
                        \/ t \in {All, Also, Ret, Clean}
    /\ \A i \in Inputs : In(i) \in Tasks /\ Then(i) \in Tasks /\ Canc(i) \in Tasks
    /\ All \in Tasks /\ Also \in Tasks /\ Ret \in Tasks /\ Clean \in Tasks
    /\ \A i \in Inputs : /\ Role(In(i)) = "in" /\ Role(Then(i)) = "then"
                         /\ Role(Canc(i)) = "cancel"
                         /\ In(i)[2] = i /\ Then(i)[2] = i /\ Canc(i)[2] = i
                         /\ Ancestor(Then(i)) = In(i) /\ Ancestor(Canc(i)) = In(i)
    /\ Role(All) = "all" /\ Role(Also) = "also" /\ Role(Ret) = "ret" /\ Role(Clean) = "clean"
    /\ Ancestor(Ret) = All /\ Ancestor(Clean) = All
BY DEF Tasks, In, Then, Canc, All, Also, Ret, Clean, Role, Ancestor

LEMMA RoleFacts ==
    ASSUME NEW t \in Tasks
    PROVE  /\ Role(t) \in {"in", "then", "cancel", "all", "also", "ret", "clean"}
           /\ Role(t) = "in" => t[2] \in Inputs /\ t = In(t[2])
           /\ Role(t) = "then" => t[2] \in Inputs /\ t = Then(t[2]) /\ Ancestor(t) = In(t[2])
           /\ Role(t) = "cancel" => t[2] \in Inputs /\ t = Canc(t[2]) /\ Ancestor(t) = In(t[2])
           /\ Role(t) = "ret" => t = Ret /\ Ancestor(t) = All
           /\ Role(t) = "clean" => t = Clean /\ Ancestor(t) = All
           /\ Role(t) = "all" => t = All
           /\ Role(t) = "also" => t = Also
           /\ Ancestor(t) \in Tasks
<1>1. ASSUME NEW i \in Inputs, t = In(i) PROVE Ancestor(t) = All /\ Role(t) = "in" /\ t[2] = i
  BY <1>1, TaskFacts DEF Ancestor
<1>2. ASSUME NEW i \in Inputs, t = Then(i)
      PROVE  Ancestor(t) = In(i) /\ Role(t) = "then" /\ t[2] = i
  BY <1>2, TaskFacts
<1>3. ASSUME NEW i \in Inputs, t = Canc(i)
      PROVE  Ancestor(t) = In(i) /\ Role(t) = "cancel" /\ t[2] = i
  BY <1>3, TaskFacts
<1>4. t \in {All, Also, Ret, Clean} => Ancestor(t) = All
  BY TaskFacts DEF Ancestor
<1>5. CASE t \in {All, Also, Ret, Clean}
  BY <1>4, <1>5, TaskFacts
<1>6. CASE \E i \in Inputs : t \in {In(i), Then(i), Canc(i)}
  <2>1. PICK i \in Inputs : t \in {In(i), Then(i), Canc(i)}
    BY <1>6
  <2> QED BY <1>1, <1>2, <1>3, <2>1, TaskFacts
<1> QED BY <1>5, <1>6, TaskFacts

-----------------------------------------------------------------------------
(* The steps.  The jobs of other tasks rest: they go from one place where  *)
(* they wait to another, if at all ...                                     *)
Ready(u) == /\ Role(u) \in {"then", "ret"} => Settled(Ancestor(u))
            /\ Role(u) \in {"cancel", "clean"} => _M_fCancellationRequested[Ancestor(u)]
Going(u, p) == /\ Role(u) \in {"then", "cancel", "ret", "clean"}
               /\ p \in Blocked /\ u \in built'
               /\ p = "scheduled" => Ready(u)'
Rests(u) == job'[u] = job[u] \/ (job[u] \in Blocked /\ Going(u, job'[u]))
OthersRest(t) == \A u \in Tasks \ {t} : Rests(u)
SameEvent == UNCHANGED <<_HasValue, _IsCanceled, _Value>>
SameParam == UNCHANGED param
From(t, p, q) == job[t] = p /\ job'[t] = q

(* ... while the one of t begins,                                          *)
Begin(t) ==
    /\ job[t] = "scheduled"
    /\ \/ /\ Role(t) = "in"
          /\ job'[t] = "done" \/ (kind = "event" /\ job'[t] \in {"set", "cancel"})
       \/ Role(t) \in {"cancel", "clean"} /\ job'[t] = Starts(t)
       \/ /\ Role(t) \in {"then", "ret"} /\ job'[t] = Starts(t)
          /\ ~_M_fCancellationRequested[Ancestor(t)]
    /\ SameEvent /\ SameParam
(* sets the event or finds that it need not,                               *)
Sets(t) == /\ From(t, "setLocked", "finalizing") /\ ~_HasValue /\ ~_IsCanceled
           /\ _HasValue' = TRUE /\ _IsCanceled' = _IsCanceled
           /\ _Value' = IF kind \in {"any", "or"} THEN {t[2]} ELSE {}
SetStep(t) ==
    \/ From(t, "set", "setLocked") /\ SameEvent
    \/ From(t, "set", AfterSet(t, FALSE)) /\ _HasValue /\ SameEvent
    \/ Sets(t)
    \/ From(t, "setLocked", AfterSet(t, FALSE)) /\ (_HasValue \/ _IsCanceled) /\ SameEvent
    \/ From(t, "finalizing", AfterSet(t, TRUE)) /\ SameEvent
(* cancels it,                                                             *)
Cancels(t) == /\ From(t, "cancelLocked", "canceling") /\ ~_HasValue /\ ~_IsCanceled
              /\ _IsCanceled' = TRUE /\ _HasValue' = _HasValue /\ _Value' = _Value
CancelStep(t) ==
    \/ From(t, "cancel", "cancelLocked") /\ SameEvent
    \/ From(t, "cancel", AfterCancel(t)) /\ _HasValue /\ SameEvent
    \/ Cancels(t)
    \/ From(t, "cancelLocked", AfterCancel(t)) /\ (_HasValue \/ _IsCanceled) /\ SameEvent
    \/ From(t, "canceling", AfterCancel(t)) /\ SameEvent
(* is counted, deletes the parameter, or is done.                          *)
CountStep(t) ==
    /\ From(t, "count", AfterCount(t))
    /\ _M_lCount' = _M_lCount + 1
    /\ _M_vector' = IF Role(t) = "then" THEN _M_vector \cup _M_Result[Ancestor(t)]
                    ELSE _M_vector
    /\ freed' = freed /\ UseParam
    /\ SameEvent
FreeStep(t) == /\ From(t, "free", Ends(t))
               /\ freed' = freed + 1 /\ UseParam
               /\ UNCHANGED <<_M_vector, _M_lCount>>
               /\ SameEvent
FinishStep(t) == From(t, "finish", "done") /\ SameEvent /\ SameParam
Turn(t) == \/ Begin(t)
           \/ (SetStep(t) \/ CancelStep(t)) /\ SameParam
           \/ CountStep(t) \/ FreeStep(t) \/ FinishStep(t)

LEMMA Goes ==
    ASSUME TypeInv, NEW t \in Tasks, NEW p, GoesTo(t, p)
    PROVE  OthersRest(t) /\ job'[t] = p
BY DEF TypeInv, GoesTo, OthersRest, Rests

LEMMA Pending ==
    ASSUME PlaceInv, NEW u \in Tasks, job[u] = "pending"
    PROVE  Role(u) \in {"then", "cancel", "ret", "clean"} /\ u \in built
BY RoleFacts DEF PlaceInv, Where, Settling, Canceling

LEMMA Finalized ==
    ASSUME TypeInv, PlaceInv, NEW t \in Tasks, NEW r, Finalize(t, r), built \subseteq built',
           NEW u \in Tasks
    PROVE  \/ JobsIfFinalized(t)[u] = job[u]
           \/ job[u] = "pending" /\ Going(u, JobsIfFinalized(t)[u])
<1>1. u \in Continuations(t) => /\ Role(u) \in {"then", "ret"} /\ job[u] = "pending"
                                /\ Ancestor(u) = t
  BY DEF Continuations
<1>2. u \in CancellationContinuations(t) => job[u] = "pending"
  BY DEF CancellationContinuations
<1>3. _M_fCompleted'[t]
  BY DEF Finalize, TypeInv
<1>4. u \in Continuations(t) => Ready(u)'
  BY <1>1, <1>3 DEF Ready, Settled
<1> QED BY <1>1, <1>2, <1>4, Pending DEF JobsIfFinalized, Schedules, Going, Blocked

LEMMA Canceled ==
    ASSUME TypeInv, PlaceInv, NEW t \in Tasks, Cancel(t), built \subseteq built',
           NEW u \in Tasks
    PROVE  \/ JobsIfCanceled(t)[u] = job[u]
           \/ job[u] = "pending" /\ Going(u, JobsIfCanceled(t)[u])
<1> DEFINE us == Continuations(t) \cup CancellationContinuations(t)
<1>1. u \in us => job[u] = "pending" /\ Ancestor(u) = t
  BY DEF Continuations, CancellationContinuations
<1>2. _M_fCompleted[t] \/ _M_fCancellationRequested'[t]
  BY DEF Cancel, TypeInv
<1>3. u \in us /\ ~_M_fCompleted[t] => Ready(u)'
  BY <1>1, <1>2 DEF Ready, Settled
<1> HIDE DEF us
<1>4. JobsIfCanceled(t)[u] =
          IF ~_M_fCompleted[t] /\ u \in us THEN "scheduled" ELSE job[u]
  BY DEF JobsIfCanceled, Schedules, us
<1> QED BY <1>1, <1>3, <1>4, Pending DEF Going, Blocked

LEMMA JobFunctions ==
    ASSUME TypeInv, NEW t
    PROVE  /\ JobsIfFinalized(t) \in [Tasks -> Stages]
           /\ JobsIfCanceled(t) \in [Tasks -> Stages]
BY DEF TypeInv, JobsIfFinalized, JobsIfCanceled, Schedules, Stages, Blocked

LEMMA Steps ==
    ASSUME TypeInv, PlaceInv, [TasksNext]_tasksVars
    PROVE  /\ kind' = kind /\ built \subseteq built'
           /\ \/ SameEvent /\ SameParam /\ \A u \in Tasks : Rests(u)
              \/ \E t \in Tasks : Turn(t) /\ OthersRest(t)
<1> DEFINE Quiet == SameEvent /\ SameParam /\ \A u \in Tasks : Rests(u)
           Same == kind' = kind /\ built \subseteq built'
           Good(t) == Turn(t) /\ OthersRest(t)
<1>0. job \in [Tasks -> Stages]
  BY DEF TypeInv
<1>p. \A u \in Tasks : job[u] = "pending" => job[u] \in Blocked
  BY DEF Blocked
<1>1. ASSUME NEW t \in Tasks, Make(t) PROVE Same /\ Quiet
  <2>0. /\ t \in built' /\ t \notin built /\ built \subseteq built' /\ kind' = kind
    BY <1>1 DEF Make, _RegisterTask, _ScheduleContinuation, _ScheduleCancellationContinuation,
                MakeTask, SameParam, SameEvent, event
  <2>1. CASE _RegisterTask(t)
    <3>1. SameEvent /\ SameParam
      BY <2>1 DEF _RegisterTask, SameEvent, SameParam, event
    <3>2. \/ job' = job
          \/ Finalize(t, _Value) /\ job' = JobsIfFinalized(t)
      BY <2>1 DEF _RegisterTask
    <3>3. \A u \in Tasks : Rests(u)
      BY <1>p, <2>0, <3>2, Finalized DEF Rests
    <3> QED BY <2>0, <3>1, <3>3
  <2>2. CASE _ScheduleContinuation(t)
    <3>1. job[t] = "none" /\ Role(t) \in {"then", "ret"}
      BY <2>0, <2>2 DEF PlaceInv, _ScheduleContinuation
    <3>2. PICK p \in Blocked : /\ job' = [job EXCEPT ![t] = p]
                               /\ p = "scheduled" => _M_fCompleted'[Ancestor(t)]
      BY <2>2 DEF _ScheduleContinuation, Blocked, flags
    <3>3. Rests(t)
      BY <1>0, <2>0, <3>1, <3>2 DEF Rests, Going, Ready, Settled, Blocked
    <3>4. \A u \in Tasks : Rests(u)
      BY <1>0, <3>2, <3>3 DEF Rests
    <3> QED BY <2>0, <2>2, <3>4 DEF _ScheduleContinuation, SameEvent, SameParam, event
  <2>3. CASE _ScheduleCancellationContinuation(t)
    <3>1. job[t] = "none" /\ Role(t) \in {"cancel", "clean"}
      BY <2>0, <2>3 DEF PlaceInv, _ScheduleCancellationContinuation
    <3> DEFINE where == IF _M_fCancellationRequested[Ancestor(t)] THEN "scheduled"
                        ELSE IF _M_fCompleted[Ancestor(t)] THEN "dropped" ELSE "pending"
    <3>2. /\ where \in Blocked /\ job' = [job EXCEPT ![t] = where]
          /\ where = "scheduled" => _M_fCancellationRequested'[Ancestor(t)]
      BY <2>3 DEF _ScheduleCancellationContinuation, Blocked, flags
    <3> HIDE DEF where
    <3>3. Rests(t)
      BY <1>0, <2>0, <3>1, <3>2 DEF Rests, Going, Ready, Settled, Blocked
    <3>4. \A u \in Tasks : Rests(u)
      BY <1>0, <3>2, <3>3 DEF Rests
    <3> QED BY <2>0, <2>3, <3>4
            DEF _ScheduleCancellationContinuation, SameEvent, SameParam, event
  <2> QED BY <1>1, <2>1, <2>2, <2>3 DEF Make
<1>2. ASSUME NEW t \in Tasks, _RunTask(t) PROVE Same /\ Good(t)
  <2>1. CASE kind = "event"
    <3>1. PICK p \in {"set", "cancel"} : GoesTo(t, p)
      BY <1>2, <2>1 DEF _RunTask
    <3> QED BY <1>2, <2>1, <3>1, Goes
            DEF _RunTask, Turn, Begin, GoesTo, SameEvent, SameParam, event
  <2>2. CASE kind # "event"
    <3>1. /\ job' = [JobsIfFinalized(t) EXCEPT ![t] = "done"] /\ Finalize(t, {t[2]})
          /\ built' = built
      BY <1>2, <2>2 DEF _RunTask
    <3>2. OthersRest(t) /\ job'[t] = "done"
      BY <1>p, <3>1, Finalized, JobFunctions DEF OthersRest, Rests
    <3>3. /\ Role(t) = "in" /\ job[t] = "scheduled" /\ kind' = kind
          /\ UNCHANGED <<event, param>>
      BY <1>2, <2>2 DEF _RunTask
    <3>4. SameEvent /\ SameParam
      BY <3>3 DEF SameEvent, SameParam, event
    <3>5. Begin(t)
      BY <3>2, <3>3, <3>4 DEF Begin
    <3> QED BY <3>1, <3>2, <3>3, <3>5 DEF Turn
  <2> QED BY <2>1, <2>2
<1>3. ASSUME NEW t \in Tasks, _RunContinuation(t) PROVE Same /\ (Quiet \/ Good(t))
  <2>1. CASE _M_fCancellationRequested[Ancestor(t)]
    <3>1. /\ job' = [JobsIfCanceled(t) EXCEPT ![t] = "dropped"] /\ job[t] = "scheduled"
          /\ Cancel(t) /\ built' = built /\ kind' = kind /\ Role(t) \in {"then", "ret"}
          /\ UNCHANGED <<event, param>>
      BY <1>3, <2>1 DEF _RunContinuation
    <3>2. job'[t] = "dropped" /\ \A u \in Tasks \ {t} : job'[u] = JobsIfCanceled(t)[u]
      BY <3>1, JobFunctions
    <3>3. t \in built
      BY <3>1 DEF PlaceInv
    <3>4. Rests(t)
      BY <3>1, <3>2, <3>3 DEF Rests, Going, Blocked
    <3>5. \A u \in Tasks : Rests(u)
      BY <1>p, <3>1, <3>2, <3>4, Canceled DEF Rests
    <3> QED BY <3>1, <3>5 DEF SameEvent, SameParam, event
  <2>2. CASE ~_M_fCancellationRequested[Ancestor(t)]
    BY <1>3, <2>2, Goes DEF _RunContinuation, Turn, Begin, GoesTo, SameEvent, SameParam, event
  <2> QED BY <2>1, <2>2
<1>4. ASSUME NEW t \in Tasks, _RunCancellationContinuation(t) PROVE Same /\ Good(t)
  BY <1>4, Goes DEF _RunCancellationContinuation, Turn, Begin, GoesTo, SameEvent, SameParam,
                    event
<1>5. ASSUME NEW t \in Tasks, CountIn(t) PROVE Same /\ Good(t)
  BY <1>5, Goes DEF CountIn, Turn, CountStep, From, GoesTo, SameEvent, event
<1>6. ASSUME NEW t \in Tasks, Free(t) PROVE Same /\ Good(t)
  BY <1>6, Goes DEF Free, Turn, FreeStep, From, GoesTo, SameEvent, event
<1>7. ASSUME NEW t \in Tasks, Finish(t) PROVE Same /\ Good(t)
  <2>1. /\ job' = [JobsIfFinalized(t) EXCEPT ![t] = "done"] /\ Finalize(t, ResultOf(t))
        /\ built' = built
    BY <1>7 DEF Finish
  <2>2. OthersRest(t) /\ job'[t] = "done"
    BY <1>p, <2>1, Finalized, JobFunctions DEF OthersRest, Rests
  <2> QED BY <1>7, <2>1, <2>2 DEF Finish, Turn, FinishStep, From, SameEvent, SameParam, event
<1>8. ASSUME NEW t \in Tasks, Set(t) PROVE Same /\ (Quiet \/ Good(t))
  <2>1. CASE job[t] = "finalizing" /\ _Tasks # {}
    <3>1. PICK u \in _Tasks : job' = JobsIfFinalized(u) /\ Finalize(u, _Value)
      BY <1>8, <2>1 DEF Set
    <3>2. u \in Tasks /\ built' = built
      BY <1>8, <2>1, TaskFacts DEF TypeInv, Set
    <3>3. \A v \in Tasks : Rests(v)
      BY <1>p, <3>1, <3>2, Finalized DEF Rests
    <3> QED BY <1>8, <2>1, <3>3 DEF Set, SameEvent, SameParam
  <2>2. CASE job[t] = "finalizing" /\ _Tasks = {}
    BY <1>8, <2>2, Goes DEF Set, Turn, SetStep, Sets, From, GoesTo, SameEvent, SameParam
  <2>3. CASE job[t] = "set"
    BY <1>8, <2>3, Goes DEF Set, Turn, SetStep, Sets, From, GoesTo, SameEvent, SameParam, event
  <2>4. CASE job[t] = "setLocked"
    BY <1>8, <2>4, Goes DEF Set, Turn, SetStep, Sets, From, GoesTo, SameEvent, SameParam, event
  <2> QED BY <1>8, <2>1, <2>2, <2>3, <2>4 DEF Set
<1>9. ASSUME NEW t \in Tasks, CancelEvent(t) PROVE Same /\ (Quiet \/ Good(t))
  <2>1. CASE job[t] = "canceling" /\ _Tasks # {}
    <3>1. PICK u \in _Tasks : job' = JobsIfCanceled(u) /\ Cancel(u)
      BY <1>9, <2>1 DEF CancelEvent
    <3>2. u \in Tasks /\ built' = built
      BY <1>9, <2>1, TaskFacts DEF TypeInv, CancelEvent
    <3>3. \A v \in Tasks : Rests(v)
      BY <1>p, <3>1, <3>2, Canceled DEF Rests
    <3> QED BY <1>9, <2>1, <3>3 DEF CancelEvent, SameEvent, SameParam
  <2>2. CASE job[t] = "canceling" /\ _Tasks = {}
    BY <1>9, <2>2, Goes DEF CancelEvent, Turn, CancelStep, Cancels, From, GoesTo, SameEvent,
                            SameParam
  <2>3. CASE job[t] = "cancel"
    BY <1>9, <2>3, Goes DEF CancelEvent, Turn, CancelStep, Cancels, From, GoesTo, SameEvent,
                            SameParam, event
  <2>4. CASE job[t] = "cancelLocked"
    BY <1>9, <2>4, Goes DEF CancelEvent, Turn, CancelStep, Cancels, From, GoesTo, SameEvent,
                            SameParam, event
  <2> QED BY <1>9, <2>1, <2>2, <2>3, <2>4 DEF CancelEvent
<1>10. ASSUME NEW t \in Tasks, cancel(t) PROVE Same /\ Quiet
  <2>1. job' = JobsIfCanceled(t) /\ Cancel(t) /\ built' = built
    BY <1>10 DEF cancel
  <2>2. \A u \in Tasks : Rests(u)
    BY <1>p, <2>1, Canceled DEF Rests
  <2> QED BY <1>10, <2>2 DEF cancel, SameEvent, SameParam, event
<1>11. ASSUME NEW t \in Tasks, wait(t) PROVE Same /\ Quiet
  BY <1>11 DEF wait, SameEvent, SameParam, event, Rests
<1>12. CASE UNCHANGED tasksVars
  BY <1>12 DEF tasksVars, SameEvent, SameParam, event, Rests
<1> HIDE DEF Quiet, Same, Good
<1>13. ASSUME NEW t \in Tasks, Job(t) PROVE Same /\ (Quiet \/ Good(t))
  BY <1>2, <1>3, <1>4, <1>5, <1>6, <1>7, <1>8, <1>9, <1>13 DEF Job
<1>14. Same /\ (Quiet \/ \E t \in Tasks : Good(t))
  <2>1. CASE TasksNext
    <3>1. PICK t \in Tasks : Make(t) \/ Job(t) \/ cancel(t) \/ wait(t)
      BY <2>1 DEF TasksNext
    <3> QED BY <1>1, <1>10, <1>11, <1>13, <3>1
  <2>2. CASE UNCHANGED tasksVars
    BY <1>12, <2>2 DEF Quiet, Same, Good
  <2> QED BY <2>1, <2>2
<1> QED BY <1>14 DEF Quiet, Same, Good

-----------------------------------------------------------------------------
(* Types.                                                                  *)
LEMMA PlacesFacts ==
    ASSUME TypeInv, NEW t \in Tasks
    PROVE  /\ Starts(t) \in Stages \ Blocked
           /\ AfterCount(t) \in Stages \ Blocked
           /\ \A isSet \in BOOLEAN : AfterSet(t, isSet) \in Stages \ Blocked
           /\ AfterCancel(t) \in Stages \ Blocked
           /\ Ends(t) \in {"finish", "done"}
           /\ Blocked \subseteq Stages
BY DEF Starts, AfterCount, AfterSet, AfterCancel, Ends, Stages, Blocked, Settling, Canceling

LEMMA TypeNext == ASSUME TypeInv, PlaceInv, [TasksNext]_tasksVars PROVE TypeInv'
<1> DEFINE FlagsOK == /\ _M_fCompleted' \in [Tasks -> BOOLEAN]
                      /\ _M_fCancellationRequested' \in [Tasks -> BOOLEAN]
                      /\ _M_Result' \in [Tasks -> SUBSET Inputs]
           JobOK == job' \in [Tasks -> Stages]
           EventOK == /\ _HasValue' \in BOOLEAN /\ _IsCanceled' \in BOOLEAN
                      /\ _Value' \in SUBSET Inputs /\ _Tasks' \subseteq {All, Also}
           ParamOK == /\ _M_vector' \in SUBSET Inputs /\ _M_lCount' \in Nat
                      /\ freed' \in Nat /\ usedFreed' \in BOOLEAN
           BuiltOK == kind' = kind /\ built' \subseteq Makes[kind]
           OK == FlagsOK /\ JobOK /\ EventOK /\ ParamOK /\ BuiltOK
<1>f. UNCHANGED flags => FlagsOK
  BY DEF TypeInv, flags
<1>e. UNCHANGED event => EventOK
  BY DEF TypeInv, event
<1>p. UNCHANGED param => ParamOK
  BY DEF TypeInv, param
<1>b. UNCHANGED <<kind, built>> => BuiltOK
  BY DEF TypeInv
<1>j. UNCHANGED job => JobOK
  BY DEF TypeInv
<1>k. ASSUME NEW t \in Tasks, NEW p \in Stages, job' = [job EXCEPT ![t] = p] PROVE JobOK
  BY <1>k DEF TypeInv
<1>g. ASSUME NEW t \in Tasks, NEW p \in Stages, GoesTo(t, p) PROVE JobOK /\ FlagsOK /\ BuiltOK
  BY <1>g, <1>k, <1>f, <1>b DEF GoesTo
<1>z. ASSUME NEW t \in Tasks, NEW r \in SUBSET Inputs, Finalize(t, r) PROVE FlagsOK
  BY <1>z DEF TypeInv, Finalize
<1>c. ASSUME NEW t \in Tasks, Cancel(t) PROVE FlagsOK
  BY <1>c DEF TypeInv, Cancel
<1>y. ASSUME NEW t \in Tasks, NEW p \in Stages,
             \/ job' = [JobsIfFinalized(t) EXCEPT ![t] = p]
             \/ job' = [JobsIfCanceled(t) EXCEPT ![t] = p]
      PROVE  JobOK
  BY <1>y, JobFunctions
<1>t. /\ \A p \in {"set", "cancel", "setLocked", "cancelLocked", "finalizing", "canceling",
                   "done", "finish", "scheduled", "dropped", "pending"} : p \in Stages
      /\ _Value \subseteq Inputs /\ _M_vector \subseteq Inputs /\ kind \in Kinds
      /\ built \subseteq Makes[kind]
      /\ \A t \in Tasks : _M_Result[t] \subseteq Inputs
  BY DEF TypeInv, Stages, Blocked, Settling, Canceling
<1> HIDE DEF FlagsOK, JobOK, EventOK, ParamOK, BuiltOK
<1>1. ASSUME NEW t \in Tasks, Make(t) PROVE OK
  <2>1. BuiltOK
    BY <1>1, <1>t DEF Make, BuiltOK, _RegisterTask, _ScheduleContinuation,
                _ScheduleCancellationContinuation, MakeTask
  <2>2. CASE _RegisterTask(t)
    <3>1. EventOK
      BY <1>e, <2>2, RoleFacts DEF _RegisterTask, TypeInv, EventOK
    <3>2. FlagsOK /\ JobOK
      BY <1>f, <1>j, <1>z, <1>t, <2>2, JobFunctions DEF _RegisterTask, JobOK
    <3> QED BY <1>p, <2>1, <2>2, <3>1, <3>2 DEF _RegisterTask
  <2>3. CASE _ScheduleContinuation(t)
    <3>1. FlagsOK /\ JobOK
      BY <1>f, <1>k, <1>c, <1>t, <2>3 DEF _ScheduleContinuation
    <3> QED BY <1>e, <1>p, <2>1, <2>3, <3>1 DEF _ScheduleContinuation
  <2>4. CASE _ScheduleCancellationContinuation(t)
    <3>1. PICK p \in Stages : job' = [job EXCEPT ![t] = p]
      BY <1>t, <2>4 DEF _ScheduleCancellationContinuation
    <3> QED BY <1>f, <1>k, <1>e, <1>p, <2>1, <2>4, <3>1 DEF _ScheduleCancellationContinuation
  <2> QED BY <1>1, <2>2, <2>3, <2>4 DEF Make
<1>2. ASSUME NEW t \in Tasks, _RunTask(t) PROVE OK
  <2>1. CASE kind = "event"
    BY <1>2, <1>g, <1>t, <1>e, <1>p, <2>1 DEF _RunTask
  <2>2. CASE kind # "event"
    <3>1. {t[2]} \in SUBSET Inputs
      BY <1>2, RoleFacts DEF _RunTask
    <3> QED BY <1>2, <1>b, <1>y, <1>z, <1>t, <1>e, <1>p, <2>2, <3>1 DEF _RunTask
  <2> QED BY <2>1, <2>2
<1>3. ASSUME NEW t \in Tasks, _RunContinuation(t) PROVE OK
  BY <1>3, <1>b, <1>y, <1>c, <1>t, <1>e, <1>p, <1>g, PlacesFacts DEF _RunContinuation
<1>4. ASSUME NEW t \in Tasks, _RunCancellationContinuation(t) PROVE OK
  BY <1>4, <1>e, <1>p, <1>g, PlacesFacts DEF _RunCancellationContinuation
<1>5. ASSUME NEW t \in Tasks, CountIn(t) PROVE OK
  <2>1. _M_vector' \in SUBSET Inputs
    <3>1. Ancestor(t) \in Tasks
      BY RoleFacts
    <3>2. \/ _M_vector' = _M_vector
          \/ _M_vector' = _M_vector \cup _M_Result[Ancestor(t)]
      BY <1>5 DEF CountIn
    <3> QED BY <1>t, <3>1, <3>2
  <2>2. usedFreed' \in BOOLEAN
    BY <1>5 DEF CountIn, UseParam
  <2>3. ParamOK
    BY <1>5, <2>1, <2>2 DEF CountIn, ParamOK, TypeInv
  <2> QED BY <1>5, <1>e, <1>g, <2>3, PlacesFacts DEF CountIn
<1>6. ASSUME NEW t \in Tasks, Free(t) PROVE OK
  <2>1. ParamOK
    BY <1>6 DEF Free, ParamOK, TypeInv, UseParam
  <2> QED BY <1>6, <1>e, <1>g, <1>t, <2>1, PlacesFacts DEF Free
<1>7. ASSUME NEW t \in Tasks, Finish(t) PROVE OK
  <2>1. ResultOf(t) \in SUBSET Inputs
    BY <1>t, RoleFacts, TaskFacts DEF ResultOf
  <2> QED BY <1>7, <1>b, <1>y, <1>z, <1>t, <1>e, <1>p, <2>1 DEF Finish
<1>s. ASSUME NEW u \in _Tasks, Finalize(u, _Value) \/ Cancel(u) PROVE FlagsOK
  BY <1>s, <1>z, <1>c, <1>t, TaskFacts DEF TypeInv
<1>8. ASSUME NEW t \in Tasks, Set(t) PROVE OK
  <2>0. job[t] = "setLocked" => t[2] \in Inputs
    BY RoleFacts DEF PlaceInv, Where, Blocked, Settling, Canceling
  <2>1. EventOK
    <3>1. _Value' \in SUBSET Inputs
      BY <1>8, <1>t, <2>0 DEF Set, event
    <3>2. _HasValue' \in BOOLEAN /\ _IsCanceled' \in BOOLEAN
      BY <1>8 DEF Set, event, TypeInv
    <3>3. _Tasks' \subseteq {All, Also}
      BY <1>8 DEF Set, event, TypeInv
    <3> QED BY <3>1, <3>2, <3>3 DEF EventOK
  <2>2. FlagsOK /\ JobOK /\ BuiltOK
    <3>1. CASE job[t] = "finalizing" /\ _Tasks # {}
      <4>1. PICK u \in _Tasks : job' = JobsIfFinalized(u) /\ Finalize(u, _Value)
        BY <1>8, <3>1 DEF Set
      <4>2. JobOK
        BY <4>1, JobFunctions DEF JobOK
      <4> QED BY <1>8, <1>b, <1>s, <3>1, <4>1, <4>2 DEF Set
    <3>2. CASE ~(job[t] = "finalizing" /\ _Tasks # {})
      BY <1>8, <1>g, <1>t, <3>2, PlacesFacts DEF Set
    <3> QED BY <3>1, <3>2
  <2> QED BY <1>8, <1>p, <2>1, <2>2 DEF Set
<1>9. ASSUME NEW t \in Tasks, CancelEvent(t) PROVE OK
  <2>1. EventOK
    BY <1>9, <1>e, RoleFacts DEF CancelEvent, EventOK, TypeInv
  <2>2. FlagsOK /\ JobOK /\ BuiltOK
    <3>1. CASE job[t] = "canceling" /\ _Tasks # {}
      <4>1. PICK u \in _Tasks : job' = JobsIfCanceled(u) /\ Cancel(u)
        BY <1>9, <3>1 DEF CancelEvent
      <4>2. JobOK
        BY <4>1, JobFunctions DEF JobOK
      <4> QED BY <1>9, <1>b, <1>s, <3>1, <4>1, <4>2 DEF CancelEvent
    <3>2. CASE ~(job[t] = "canceling" /\ _Tasks # {})
      BY <1>9, <1>g, <1>t, <3>2, PlacesFacts DEF CancelEvent
    <3> QED BY <3>1, <3>2
  <2> QED BY <1>9, <1>p, <2>1, <2>2 DEF CancelEvent
<1>10. ASSUME NEW t \in Tasks, cancel(t) PROVE OK
  <2>1. JobOK
    BY <1>10, JobFunctions DEF cancel, JobOK
  <2> QED BY <1>10, <1>b, <1>c, <1>e, <1>p, <2>1 DEF cancel
<1>11. ASSUME NEW t \in Tasks, wait(t) PROVE OK
  BY <1>11, <1>f, <1>j, <1>b, <1>e, <1>p DEF wait
<1>12. ASSUME UNCHANGED tasksVars PROVE OK
  BY <1>12, <1>f, <1>j, <1>b, <1>e, <1>p DEF tasksVars
<1>13. OK
  BY <1>1, <1>2, <1>3, <1>4, <1>5, <1>6, <1>7, <1>8, <1>9, <1>10, <1>11, <1>12
     DEF TasksNext, Job
<1> QED BY <1>13, <1>t DEF TypeInv, FlagsOK, JobOK, EventOK, ParamOK, BuiltOK

(* The flags of a task only grow, and a completed task is not canceled.    *)
LEMMA FlagSteps ==
    ASSUME TypeInv, [TasksNext]_tasksVars, NEW t \in Tasks
    PROVE  /\ _M_fCompleted[t] => _M_fCompleted'[t]
           /\ _M_fCancellationRequested[t] => _M_fCancellationRequested'[t]
           /\ _M_fCompleted[t] /\ ~_M_fCancellationRequested[t]
                => ~_M_fCancellationRequested'[t]
<1> DEFINE OK == /\ _M_fCompleted[t] => _M_fCompleted'[t]
                 /\ _M_fCancellationRequested[t] => _M_fCancellationRequested'[t]
                 /\ _M_fCompleted[t] /\ ~_M_fCancellationRequested[t]
                      => ~_M_fCancellationRequested'[t]
<1>1. UNCHANGED flags => OK
  BY DEF flags
<1>2. ASSUME NEW u, NEW r, Finalize(u, r) PROVE OK
  BY <1>2 DEF Finalize, TypeInv
<1>3. ASSUME NEW u, Cancel(u) PROVE OK
  BY <1>3 DEF Cancel, TypeInv
<1> HIDE DEF OK
<1>4. ASSUME NEW u \in Tasks, Make(u) PROVE OK
  BY <1>1, <1>2, <1>3, <1>4
     DEF Make, _RegisterTask, _ScheduleContinuation, _ScheduleCancellationContinuation
<1>5. ASSUME NEW u \in Tasks, _RunTask(u) \/ _RunContinuation(u)
      PROVE  OK
  BY <1>1, <1>2, <1>3, <1>5 DEF _RunTask, _RunContinuation, GoesTo
<1>6. ASSUME NEW u \in Tasks,
             _RunCancellationContinuation(u) \/ CountIn(u) \/ Free(u) \/ Finish(u)
      PROVE  OK
  BY <1>1, <1>2, <1>6 DEF _RunCancellationContinuation, CountIn, Free, Finish, GoesTo
<1>7. ASSUME NEW u \in Tasks, Set(u) \/ CancelEvent(u) PROVE OK
  BY <1>1, <1>2, <1>3, <1>7 DEF Set, CancelEvent, GoesTo
<1>8. ASSUME NEW u \in Tasks, cancel(u) \/ wait(u) PROVE OK
  BY <1>1, <1>3, <1>8 DEF cancel, wait
<1>9. ASSUME UNCHANGED tasksVars PROVE OK
  BY <1>1, <1>9 DEF tasksVars
<1>10. OK
  BY <1>4, <1>5, <1>6, <1>7, <1>8, <1>9 DEF TasksNext, Job
<1> QED BY <1>10 DEF OK

-----------------------------------------------------------------------------
(* Where the jobs are.                                                     *)
LEMMA StepWhere ==
    ASSUME TypeInv, PlaceInv, NEW t \in Tasks, Turn(t)
    PROVE  job[t] \notin {"none", "done"} /\ job'[t] \in Where(t) /\ job'[t] \notin Blocked
<1>0. job[t] \in Where(t) /\ kind \in Kinds
  BY DEF PlaceInv, TypeInv
<1>1. CASE Role(t) = "in"
  BY <1>0, <1>1 DEF Turn, Begin, SetStep, CancelStep, Sets, Cancels, CountStep, FreeStep,
                    FinishStep, From, AfterSet, AfterCancel, Ends, Where, Blocked, Settling,
                    Canceling, Kinds
<1>2. CASE Role(t) = "then"
  BY <1>0, <1>2 DEF Turn, Begin, SetStep, CancelStep, Sets, Cancels, CountStep, FreeStep,
                    FinishStep, From, Starts, AfterCount, AfterSet, Ends, Where, Blocked,
                    Settling, Canceling, Kinds, TotalKinds
<1>3. CASE Role(t) = "cancel"
  BY <1>0, <1>3 DEF Turn, Begin, SetStep, CancelStep, Sets, Cancels, CountStep, FreeStep,
                    FinishStep, From, Starts, AfterCount, AfterCancel, Ends, Where, Blocked,
                    Settling, Canceling, Kinds
<1>4. CASE Role(t) \in {"ret", "clean"}
  BY <1>0, <1>4 DEF Turn, Begin, SetStep, CancelStep, Sets, Cancels, CountStep, FreeStep,
                    FinishStep, From, Starts, Ends, Where, Blocked, Settling, Canceling
<1>5. CASE Role(t) \in {"all", "also"}
  BY <1>0, <1>5 DEF Turn, Begin, SetStep, CancelStep, Sets, Cancels, CountStep, FreeStep,
                    FinishStep, From, Where
<1> QED BY <1>1, <1>2, <1>3, <1>4, <1>5, RoleFacts

LEMMA PlaceNext == ASSUME TypeInv, PlaceInv, [TasksNext]_tasksVars PROVE PlaceInv'
<1>1. kind' = kind /\ built \subseteq built'
  BY Steps
<1> SUFFICES ASSUME NEW u \in Tasks
             PROVE  /\ job'[u] \in Where(u)
                    /\ Role(u) # "in" /\ u \notin built' => job'[u] = "none"
  BY <1>1 DEF PlaceInv, Where
<1>2. CASE Rests(u)
  BY <1>1, <1>2 DEF PlaceInv, Rests, Going, Where
<1>3. CASE Turn(u)
  BY <1>1, <1>3, StepWhere DEF PlaceInv
<1> QED BY <1>2, <1>3, Steps DEF OthersRest

LEMMA FlagNext ==
    ASSUME TypeInv, PlaceInv, FlagInv, [TasksNext]_tasksVars
    PROVE  FlagInv'
<1> SUFFICES ASSUME NEW u \in Tasks
             PROVE  /\ Role(u) \in {"then", "ret"} =>
                          /\ job'[u] = "scheduled" => Settled(Ancestor(u))'
                          /\ job'[u] \notin Blocked =>
                                /\ _M_fCompleted'[Ancestor(u)]
                                /\ ~_M_fCancellationRequested'[Ancestor(u)]
                    /\ Role(u) \in {"cancel", "clean"}
                         /\ (job'[u] = "scheduled" \/ job'[u] \notin Blocked) =>
                          _M_fCancellationRequested'[Ancestor(u)]
  BY DEF FlagInv, Past, Settled
<1> DEFINE a == Ancestor(u)
<1>1. /\ _M_fCompleted[a] => _M_fCompleted'[a]
      /\ _M_fCancellationRequested[a] => _M_fCancellationRequested'[a]
      /\ _M_fCompleted[a] /\ ~_M_fCancellationRequested[a] => ~_M_fCancellationRequested'[a]
  BY RoleFacts, FlagSteps
<1>2. CASE Rests(u)
  <2>1. CASE job'[u] = job[u]
    BY <1>1, <2>1 DEF FlagInv, Past, Settled
  <2>2. CASE Going(u, job'[u])
    BY <2>2 DEF Going, Ready, Blocked
  <2> QED BY <1>2, <2>1, <2>2 DEF Rests
<1>3. CASE Turn(u)
  <2>1. job'[u] # "scheduled"
    BY <1>3, StepWhere DEF Blocked
  <2>2. CASE Begin(u)
    BY <1>1, <2>1, <2>2 DEF Begin, FlagInv, Settled
  <2>3. CASE ~Begin(u)
    <3>1. Past(u)
      BY <1>3, <2>3 DEF Turn, SetStep, CancelStep, Sets, Cancels, CountStep, FreeStep,
                        FinishStep, From, Past, Blocked
    <3> QED BY <1>1, <2>1, <3>1 DEF FlagInv
  <2> QED BY <2>2, <2>3
<1> QED BY <1>2, <1>3, Steps DEF OthersRest

-----------------------------------------------------------------------------
(* Who has been counted.                                                   *)
LEMMA NotBoth ==
    ASSUME FlagInv, NEW i \in Inputs, Past(Then(i)), Past(Canc(i))
    PROVE  FALSE
BY TaskFacts DEF FlagInv

LEMMA CountedPast ==
    ASSUME NEW i \in Inputs
    PROVE  /\ ThenCounted(i) => Past(Then(i))
           /\ CancCounted(i) => Past(Canc(i))
BY DEF ThenCounted, CancCounted, Past, Blocked, Settling, Canceling

LEMMA CountPlaces ==
    ASSUME NEW t, Role(t) \in {"then", "cancel"}
    PROVE  /\ Role(t) = "then" => AfterCount(t) \in {"set", "done"}
           /\ Role(t) = "cancel" => AfterCount(t) \in {"free", "cancel", "done"}
           /\ Role(t) = "cancel" /\ kind = "all" => AfterCount(t) \in {"free", "done"}
BY DEF AfterCount, Ends

LEMMA CountedSteps ==
    ASSUME TypeInv, PlaceInv, [TasksNext]_tasksVars, NEW i \in Inputs
    PROVE  /\ ThenCounted(i)' <=> ThenCounted(i) \/ CountStep(Then(i))
           /\ CancCounted(i)' <=> CancCounted(i) \/ CountStep(Canc(i))
<1> DEFINE t == Then(i)
           c == Canc(i)
           thenAfter == kind \in TotalKinds /\ job'[t] \in Settling \cup {"free", "done"}
           cancAfter == \/ kind = "all" /\ job'[c] \in {"free", "done"}
                        \/ kind \in ValueKinds /\ job'[c] \in Canceling \cup {"free", "done"}
<1>0. /\ kind' = kind /\ kind \in Kinds /\ t \in Tasks /\ c \in Tasks
      /\ Role(t) = "then" /\ Role(c) = "cancel"
      /\ job[t] \in Where(t) /\ job[c] \in Where(c)
  BY Steps, TaskFacts DEF PlaceInv, TypeInv
<1>a. ThenCounted(i)' <=> thenAfter
  BY <1>0 DEF ThenCounted, Then, TotalKinds, Settling
<1>b. CancCounted(i)' <=> cancAfter
  BY <1>0 DEF CancCounted, Canc, ValueKinds, Canceling
<1>c. /\ ThenCounted(i) <=> kind \in TotalKinds /\ job[t] \in Settling \cup {"free", "done"}
      /\ CancCounted(i) <=> \/ kind = "all" /\ job[c] \in {"free", "done"}
                            \/ kind \in ValueKinds /\ job[c] \in Canceling \cup {"free", "done"}
  BY DEF ThenCounted, CancCounted
<1>d. CountStep(t) => job[t] = "count" /\ job'[t] \in {"set", "done"}
  <2>1. AfterCount(t) \in {"set", "done"}
    BY <1>0, CountPlaces
  <2> QED BY <2>1 DEF CountStep, From
<1>e. CountStep(c) => /\ job[c] = "count"
                      /\ job'[c] \in {"done", "free", "cancel"}
                      /\ kind = "all" => job'[c] # "cancel"
  <2>1. /\ AfterCount(c) \in {"done", "free", "cancel"}
        /\ kind = "all" => AfterCount(c) # "cancel"
    BY <1>0, CountPlaces
  <2> QED BY <2>1 DEF CountStep, From
<1> HIDE DEF t, c
<1>1. Rests(t) => (thenAfter <=> ThenCounted(i)) /\ ~CountStep(t)
  BY <1>0, <1>c, <1>d DEF Rests, Going, Blocked, Settling
<1>2. Rests(c) => (cancAfter <=> CancCounted(i)) /\ ~CountStep(c)
  BY <1>0, <1>c, <1>e DEF Rests, Going, Blocked, Canceling
<1>3. ASSUME Turn(t) PROVE thenAfter <=> ThenCounted(i) \/ CountStep(t)
  <2>1. CASE kind \notin TotalKinds
    <3>1. job[t] # "count"
      BY <1>0, <2>1 DEF Where, Blocked, Settling, TotalKinds
    <3> QED BY <1>c, <1>d, <2>1, <3>1
  <2>2. CASE kind \in TotalKinds
    <3>1. CASE CountStep(t)
      BY <1>d, <2>2, <3>1 DEF Settling
    <3>2. CASE ~CountStep(t)
      BY <1>0, <1>3, <1>c, <2>2, <3>2
         DEF Turn, Begin, SetStep, CancelStep, Sets, Cancels, FreeStep, FinishStep, From, Where,
             Starts, AfterSet, Ends, Blocked, Settling, Canceling, TotalKinds
    <3> QED BY <3>1, <3>2
  <2> QED BY <2>1, <2>2
<1>4. ASSUME Turn(c) PROVE cancAfter <=> CancCounted(i) \/ CountStep(c)
  <2>1. CASE kind \in {"and", "event"}
    <3>1. CASE kind = "and"
      <4>1. job[c] # "count"
        BY <1>0, <3>1 DEF Where, Blocked, Canceling
      <4> QED BY <1>c, <1>e, <3>1, <4>1 DEF ValueKinds
    <3>2. CASE kind = "event"
      <4>1. c \notin built
        BY <1>0, <3>2 DEF TypeInv, Makes, Kinds, Canc, c, All, Ret, Also, Clean
      <4>2. job[c] = "none"
        BY <1>0, <4>1 DEF PlaceInv
      <4> QED BY <1>4, <1>0, <4>2, StepWhere
    <3> QED BY <2>1, <3>1, <3>2
  <2>2. CASE kind \in {"all", "any", "or"}
    <3>1. CASE CountStep(c)
      BY <1>e, <2>2, <3>1 DEF ValueKinds, Canceling
    <3>2. CASE ~CountStep(c)
      BY <1>0, <1>4, <1>c, <2>2, <3>2
         DEF Turn, Begin, SetStep, CancelStep, Sets, Cancels, FreeStep, FinishStep, From, Where,
             Starts, AfterCancel, Ends, Blocked, Canceling, Settling, ValueKinds
    <3> QED BY <3>1, <3>2
  <2> QED BY <1>0, <2>1, <2>2 DEF Kinds
<1>5. Rests(t) \/ Turn(t)
  BY <1>0, Steps DEF OthersRest
<1>6. Rests(c) \/ Turn(c)
  BY <1>0, Steps DEF OthersRest
<1> QED BY <1>a, <1>b, <1>1, <1>2, <1>3, <1>4, <1>5, <1>6 DEF t, c

LEMMA CountRole ==
    ASSUME PlaceInv, NEW t \in Tasks, job[t] = "count"
    PROVE  \E i \in Inputs : t \in {Then(i), Canc(i)}
<1>1. job[t] \in Where(t)
  BY DEF PlaceInv
<1>2. Role(t) \in {"then", "cancel"}
  BY <1>1, RoleFacts DEF Where, Blocked, Settling, Canceling
<1> QED BY <1>2, RoleFacts

(* At most one of the given tasks is counted in a step, and one that has   *)
(* not been counted before.                                                *)
LEMMA CountedNext ==
    ASSUME TypeInv, PlaceInv, FlagInv, [TasksNext]_tasksVars
    PROVE  \/ /\ CountedInputs' = CountedInputs /\ _M_lCount' = _M_lCount
              /\ \A u \in Tasks : ~CountStep(u)
           \/ \E i \in Inputs \ CountedInputs : \E t \in {Then(i), Canc(i)} :
                 /\ CountedInputs' = CountedInputs \cup {i} /\ CountStep(t)
                 /\ \A u \in Tasks \ {t} : ~CountStep(u)
<1>0. CountedInputs' = {i \in Inputs : \/ ThenCounted(i) \/ CountStep(Then(i))
                                       \/ CancCounted(i) \/ CountStep(Canc(i))}
  BY CountedSteps DEF CountedInputs
<1>1. CASE \A u \in Tasks : ~CountStep(u)
  <2>1. CountedInputs' = CountedInputs
    BY <1>0, <1>1, TaskFacts DEF CountedInputs
  <2>2. _M_lCount' = _M_lCount
    BY <1>1, Steps DEF SameParam, param, Turn, FreeStep, FinishStep, Begin
  <2> QED BY <1>1, <2>1, <2>2
<1>2. ASSUME NEW t \in Tasks, CountStep(t)
      PROVE  \E i \in Inputs \ CountedInputs :
                /\ t \in {Then(i), Canc(i)}
                /\ CountedInputs' = CountedInputs \cup {i}
                /\ \A u \in Tasks \ {t} : ~CountStep(u)
  <2>0. /\ job[t] = "count" /\ job'[t] # "count" /\ _M_lCount' # _M_lCount
        /\ \A u \in Tasks : CountStep(u) => job[u] = "count" /\ job'[u] # "count"
    <3>1. ASSUME NEW u \in Tasks, CountStep(u) PROVE job[u] = "count" /\ job'[u] # "count"
      <4>1. job[u] = "count" /\ job'[u] = AfterCount(u)
        BY <3>1 DEF CountStep, From
      <4>2. Role(u) \in {"then", "cancel"}
        BY <4>1, CountRole, TaskFacts
      <4> QED BY <4>1, <4>2, CountPlaces
    <3>2. _M_lCount' # _M_lCount
      BY <1>2 DEF CountStep, TypeInv
    <3> QED BY <1>2, <3>1, <3>2
  <2>1. PICK i \in Inputs : t \in {Then(i), Canc(i)}
    BY <2>0, CountRole
  <2>2. i \notin CountedInputs
    <3>1. Past(t)
      BY <2>0 DEF Past, Blocked
    <3>2. ~ThenCounted(i) \/ t = Canc(i)
      BY <2>0, <2>1 DEF ThenCounted, Settling
    <3>3. ~CancCounted(i) \/ t = Then(i)
      BY <2>0, <2>1 DEF CancCounted, Canceling
    <3>4. Then(i) # Canc(i)
      BY DEF Then, Canc
    <3>5. ~ThenCounted(i)
      BY <2>0, <2>1, <3>1, <3>4, NotBoth, CountedPast DEF ThenCounted, Settling
    <3>6. ~CancCounted(i)
      BY <2>0, <2>1, <3>1, <3>4, NotBoth, CountedPast DEF CancCounted, Canceling
    <3> QED BY <3>5, <3>6 DEF CountedInputs
  <2>3. \A u \in Tasks \ {t} : ~CountStep(u)
    <3>1. ~(SameParam /\ \A u \in Tasks : Rests(u))
      BY <2>0 DEF SameParam, param
    <3>2. PICK v \in Tasks : OthersRest(v)
      BY <3>1, Steps
    <3>3. ASSUME NEW u \in Tasks, CountStep(u) PROVE u = v
      BY <2>0, <3>2, <3>3 DEF OthersRest, Rests, Blocked
    <3> QED BY <1>2, <3>3
  <2>4. \A j \in Inputs : CountStep(Then(j)) \/ CountStep(Canc(j)) <=> j = i
    <3>1. t[2] = i
      BY <2>1, TaskFacts
    <3>2. \A j \in Inputs : Then(j) = t \/ Canc(j) = t => j = i
      BY <3>1, TaskFacts
    <3>3. \A j \in Inputs : Then(j) \in Tasks /\ Canc(j) \in Tasks
      BY TaskFacts
    <3> QED BY <1>2, <2>1, <2>3, <3>2, <3>3
  <2>5. CountedInputs' = CountedInputs \cup {i}
    BY <1>0, <2>4 DEF CountedInputs
  <2> QED BY <2>1, <2>2, <2>3, <2>5
<1> QED BY <1>1, <1>2

LEMMA CountedFinite ==
    /\ IsFiniteSet(Inputs) /\ IsFiniteSet(CountedInputs)
    /\ CountedInputs \subseteq Inputs /\ Cardinality(CountedInputs) \in Nat
    /\ Cardinality(Inputs) \in Nat
    /\ Cardinality(CountedInputs) = Cardinality(Inputs) => CountedInputs = Inputs
    /\ \A i \in Inputs \ CountedInputs :
          Cardinality(CountedInputs \cup {i}) = Cardinality(CountedInputs) + 1
<1>1. IsFiniteSet(Inputs) /\ CountedInputs \subseteq Inputs
  BY InputsAssumption DEF CountedInputs
<1>2. IsFiniteSet(CountedInputs)
  BY <1>1, FS_Subset
<1>3. Cardinality(CountedInputs) = Cardinality(Inputs) => CountedInputs = Inputs
  BY <1>1, FS_Subset
<1> QED BY <1>1, <1>2, <1>3, FS_AddElement, FS_CardinalityType

LEMMA CountNext ==
    ASSUME TypeInv, PlaceInv, FlagInv, CountInv, [TasksNext]_tasksVars
    PROVE  CountInv'
<1>1. kind' = kind
  BY Steps
<1>2. CASE CountedInputs' = CountedInputs /\ _M_lCount' = _M_lCount
  BY <1>1, <1>2 DEF CountInv
<1>3. ASSUME NEW i \in Inputs \ CountedInputs, NEW t, CountStep(t),
             CountedInputs' = CountedInputs \cup {i}
      PROVE  CountInv'
  BY <1>1, <1>3, CountedFinite DEF CountInv, CountStep
<1> QED BY <1>2, <1>3, CountedNext

(* The one that completes the count goes on; the others are done.          *)
LEMMA LastCount ==
    ASSUME TypeInv, CountInv, kind # "event",
           NEW i \in Inputs \ CountedInputs, NEW t \in {Then(i), Canc(i)},
           CountStep(t), CountedInputs' = CountedInputs \cup {i}
    PROVE  job'[t] # "done" => CountedInputs' = Inputs
<1>1. Role(t) \in {"then", "cancel"} /\ job'[t] = AfterCount(t)
  BY TaskFacts DEF CountStep, From
<1>2. _M_lCount + 1 # Cardinality(Inputs) => AfterCount(t) = "done"
  BY <1>1 DEF AfterCount, Ends
<1>3. Cardinality(CountedInputs \cup {i}) = _M_lCount + 1
  BY CountedFinite DEF CountInv
<1> DEFINE S == CountedInputs \cup {i}
<1>4. S \subseteq Inputs /\ (Cardinality(S) = Cardinality(Inputs) => S = Inputs)
  BY CountedFinite, FS_Subset
<1> QED BY <1>1, <1>2, <1>3, <1>4

LEMMA LastSteps ==
    ASSUME TypeInv, PlaceInv, [TasksNext]_tasksVars, NEW t \in Tasks, Last(t)'
    PROVE  Last(t) \/ (CountStep(t) /\ job'[t] # "done")
<1>0. /\ kind' = kind /\ kind \in Kinds /\ job[t] \in Where(t)
      /\ job'[t] \in Settling \cup Canceling \cup {"free"}
  BY Steps DEF PlaceInv, TypeInv, Last
<1>1. CASE Rests(t)
  BY <1>0, <1>1 DEF Last, Rests, Going, Blocked, Settling, Canceling
<1>2. CASE CountStep(t)
  BY <1>0, <1>2 DEF Settling, Canceling
<1>3. CASE Turn(t) /\ ~CountStep(t)
  <2>1. CASE Role(t) = "then" /\ kind \in TotalKinds
    BY <1>0, <1>3, <2>1
       DEF Last, Turn, Begin, SetStep, CancelStep, Sets, Cancels, FreeStep, FinishStep, From,
           Starts, AfterSet, Ends, Where, Blocked, Settling, Canceling, TotalKinds,
           ValueKinds, Kinds
  <2>2. CASE Role(t) = "cancel" /\ (kind = "all" \/ kind \in ValueKinds)
    BY <1>0, <1>3, <2>2
       DEF Last, Turn, Begin, SetStep, CancelStep, Sets, Cancels, FreeStep, FinishStep, From,
           Starts, AfterCancel, Ends, Where, Blocked, Settling, Canceling, TotalKinds,
           ValueKinds, Kinds
  <2> QED BY <1>0, <2>1, <2>2 DEF Last
<1> QED BY <1>1, <1>2, <1>3, Steps DEF OthersRest

-----------------------------------------------------------------------------
(* How the tasks of the event are settled, and with which result.          *)
Finishes(t) == Finalize(t, ResultOf(t)) /\ job[t] = "finish" /\ SameEvent /\ SameParam
FlagChange ==
    \/ UNCHANGED flags
    \/ \E i \in Inputs : Finalize(In(i), {i}) /\ SameEvent
    \/ Finishes(Ret)
    \/ \E u \in {All, Also} : Finalize(u, _Value) /\ _HasValue /\ SameEvent
    \/ \E u \in {All, Also} : Cancel(u) /\ _IsCanceled /\ SameEvent
    \/ \E u \in Tasks \ {All, Also} :
          /\ Cancel(u) /\ SameEvent
          /\ u = Ret => _M_fCancellationRequested[All] \/ cancel(Ret)

LEMMA FlagChanges ==
    ASSUME TypeInv, PlaceInv, EventInv, [TasksNext]_tasksVars
    PROVE  FlagChange
<1>0. /\ \A t \in Tasks : t \in {All, Also} <=> Role(t) \in {"all", "also"}
      /\ UNCHANGED event => SameEvent
  BY TaskFacts, RoleFacts DEF SameEvent, event
<1>1. UNCHANGED flags => FlagChange
  BY DEF FlagChange
<1>c. ASSUME NEW t \in Tasks, Role(t) \in {"then", "ret"}, Cancel(t), SameEvent,
             _M_fCancellationRequested[Ancestor(t)]
      PROVE  FlagChange
  <2>1. t \notin {All, Also} /\ (t = Ret => _M_fCancellationRequested[All])
    BY <1>c, TaskFacts
  <2> QED BY <1>c, <2>1 DEF FlagChange
<1>2. ASSUME NEW t \in Tasks, Make(t) PROVE FlagChange
  <2>1. CASE _RegisterTask(t)
    BY <1>0, <1>1, <2>1 DEF _RegisterTask, FlagChange
  <2>2. CASE _ScheduleContinuation(t)
    BY <1>0, <1>1, <1>c, <2>2 DEF _ScheduleContinuation
  <2>3. CASE _ScheduleCancellationContinuation(t)
    BY <1>1, <2>3 DEF _ScheduleCancellationContinuation
  <2> QED BY <1>2, <2>1, <2>2, <2>3 DEF Make
<1>3. ASSUME NEW t \in Tasks, _RunTask(t) PROVE FlagChange
  <2>1. t[2] \in Inputs /\ t = In(t[2])
    BY <1>3, RoleFacts DEF _RunTask
  <2> QED BY <1>0, <1>1, <1>3, <2>1 DEF _RunTask, GoesTo, FlagChange
<1>4. ASSUME NEW t \in Tasks, _RunContinuation(t) PROVE FlagChange
  BY <1>0, <1>1, <1>4, <1>c DEF _RunContinuation, GoesTo
<1>5. ASSUME NEW t \in Tasks, _RunCancellationContinuation(t) \/ CountIn(t) \/ Free(t)
      PROVE  FlagChange
  BY <1>1, <1>5 DEF _RunCancellationContinuation, CountIn, Free, GoesTo
<1>6. ASSUME NEW t \in Tasks, Finish(t) PROVE FlagChange
  <2>1. job[t] = "finish" /\ Finalize(t, ResultOf(t)) /\ SameEvent /\ SameParam
    BY <1>0, <1>6 DEF Finish, SameParam
  <2>2. Role(t) \in {"in", "ret"}
    BY <2>1, RoleFacts DEF PlaceInv, Where, Blocked, Settling, Canceling
  <2>3. CASE Role(t) = "in"
    BY <2>1, <2>3, RoleFacts DEF ResultOf, FlagChange
  <2>4. CASE Role(t) = "ret"
    BY <2>1, <2>4, RoleFacts DEF FlagChange, Finishes
  <2> QED BY <2>2, <2>3, <2>4
<1>7. ASSUME NEW t \in Tasks, Set(t) PROVE FlagChange
  <2>1. CASE job[t] = "finalizing" /\ _Tasks # {}
    <3>1. _HasValue /\ _Tasks \subseteq {All, Also}
      BY <2>1 DEF EventInv, TypeInv
    <3>2. /\ \E u \in _Tasks : Finalize(u, _Value)
          /\ UNCHANGED <<_HasValue, _IsCanceled, _Value>>
      BY <1>7, <2>1 DEF Set
    <3> QED BY <3>1, <3>2 DEF FlagChange, SameEvent
  <2> QED BY <1>1, <1>7, <2>1 DEF Set, GoesTo
<1>8. ASSUME NEW t \in Tasks, CancelEvent(t) PROVE FlagChange
  <2>1. CASE job[t] = "canceling" /\ _Tasks # {}
    <3>1. _IsCanceled /\ _Tasks \subseteq {All, Also}
      BY <2>1 DEF EventInv, TypeInv
    <3>2. /\ \E u \in _Tasks : Cancel(u)
          /\ UNCHANGED <<_HasValue, _IsCanceled, _Value>>
      BY <1>8, <2>1 DEF CancelEvent
    <3> QED BY <3>1, <3>2 DEF FlagChange, SameEvent
  <2> QED BY <1>1, <1>8, <2>1 DEF CancelEvent, GoesTo
<1>9. ASSUME NEW t \in Tasks, cancel(t) PROVE FlagChange
  <2>1. t \notin {All, Also}
    BY <1>9, TaskFacts DEF cancel, Named
  <2>2. Cancel(t) /\ SameEvent
    BY <1>0, <1>9 DEF cancel
  <2> QED BY <1>9, <2>1, <2>2 DEF FlagChange
<1>10. ASSUME NEW t \in Tasks, wait(t) PROVE FlagChange
  BY <1>1, <1>10 DEF wait
<1>11. UNCHANGED tasksVars => FlagChange
  BY <1>1 DEF tasksVars
<1> QED BY <1>2, <1>3, <1>4, <1>5, <1>6, <1>7, <1>8, <1>9, <1>10, <1>11 DEF TasksNext, Job

(* What that means for those whose results matter.                         *)
SettleStep ==
    /\ _M_fCompleted'[All] => _M_fCompleted[All] \/ (_HasValue /\ SameEvent)
    /\ _M_fCancellationRequested'[All] =>
          _M_fCancellationRequested[All] \/ (_IsCanceled /\ SameEvent)
    /\ \A i \in Inputs : \/ _M_Result'[In(i)] = {i}
                         \/ /\ _M_Result'[In(i)] = _M_Result[In(i)]
                            /\ _M_fCompleted'[In(i)] = _M_fCompleted[In(i)]
    /\ \/ _M_Result'[All] = _M_Result[All] /\ _M_fCompleted'[All] = _M_fCompleted[All]
       \/ _M_Result'[All] = _Value /\ SameEvent
    /\ \/ _M_Result'[Ret] = _M_Result[Ret] /\ _M_fCompleted'[Ret] = _M_fCompleted[Ret]
       \/ /\ _M_Result'[Ret] = ResultOf(Ret) /\ job[Ret] = "finish"
          /\ SameEvent /\ SameParam

LEMMA Settles ==
    ASSUME TypeInv, PlaceInv, EventInv, [TasksNext]_tasksVars
    PROVE  SettleStep
<1>0. /\ All \in Tasks /\ Ret \in Tasks /\ \A i \in Inputs : In(i) \in Tasks
      /\ All # Ret /\ Also \notin {All, Ret}
      /\ \A i \in Inputs : In(i) \notin {All, Ret, Also}
      /\ \A i, j \in Inputs : In(i) = In(j) => i = j
  BY TaskFacts
<1>t. /\ _M_fCompleted \in [Tasks -> BOOLEAN]
      /\ _M_fCancellationRequested \in [Tasks -> BOOLEAN]
      /\ _M_Result \in [Tasks -> SUBSET Inputs]
  BY DEF TypeInv
<1>1. UNCHANGED flags => SettleStep
  BY DEF flags, SettleStep
<1>2. ASSUME NEW i \in Inputs, Finalize(In(i), {i}) PROVE SettleStep
  BY <1>0, <1>t, <1>2 DEF Finalize, SettleStep
<1>3. Finishes(Ret) => SettleStep
  BY <1>0, <1>t DEF Finalize, Finishes, SettleStep
<1>4. ASSUME NEW u \in {All, Also}, Finalize(u, _Value), _HasValue, SameEvent PROVE SettleStep
  BY <1>0, <1>t, <1>4 DEF Finalize, SettleStep
<1>5. ASSUME NEW u \in {All, Also}, Cancel(u), _IsCanceled, SameEvent PROVE SettleStep
  BY <1>0, <1>t, <1>5 DEF Cancel, SettleStep
<1>6. ASSUME NEW u \in Tasks \ {All, Also}, Cancel(u) PROVE SettleStep
  BY <1>0, <1>t, <1>6 DEF Cancel, SettleStep
<1> QED
  BY <1>1, <1>2, <1>3, <1>4, <1>5, <1>6, FlagChanges DEF FlagChange

-----------------------------------------------------------------------------
(* The event.                                                              *)
LEMMA EventChanges ==
    ASSUME TypeInv, PlaceInv, [TasksNext]_tasksVars
    PROVE  SameEvent \/ (\E t \in Tasks : Sets(t)) \/ (\E t \in Tasks : Cancels(t))
BY Steps DEF Turn, Begin, SetStep, CancelStep, CountStep, FreeStep, FinishStep

LEMMA EventPlaces ==
    ASSUME TypeInv, PlaceInv, EventInv, [TasksNext]_tasksVars, NEW t \in Tasks
    PROVE  /\ job'[t] = "finalizing" => _HasValue'
           /\ job'[t] = "canceling" => _IsCanceled'
           /\ \A i \in Inputs :
                 kind = "all" /\ t = Canc(i) /\ job'[t] \in {"count", "free", "done"}
                    => _HasValue' \/ _IsCanceled'
<1>0. /\ kind \in Kinds /\ job[t] \in Where(t) /\ _HasValue \in BOOLEAN /\ _IsCanceled \in BOOLEAN
      /\ \A i \in Inputs : t = Canc(i) => Role(t) = "cancel"
      /\ \A i \in Inputs : kind = "all" /\ t = Canc(i) /\ job[t] \in {"count", "free", "done"}
                    => _HasValue \/ _IsCanceled
      /\ job[t] = "finalizing" => _HasValue
      /\ job[t] = "canceling" => _IsCanceled
  BY TaskFacts DEF PlaceInv, TypeInv, EventInv
<1>1. (_HasValue => _HasValue') /\ (_IsCanceled => _IsCanceled')
  BY <1>0, EventChanges DEF SameEvent, Sets, Cancels
<1>2. CASE Rests(t)
  BY <1>0, <1>1, <1>2 DEF Rests, Going, Blocked
<1>3. CASE Begin(t)
  BY <1>0, <1>1, <1>3 DEF Begin, Starts, Ends
<1>4. CASE SetStep(t)
  BY <1>0, <1>1, <1>4 DEF SetStep, Sets, From, AfterSet, Ends, Where, Blocked, Canceling
<1>5. CASE CancelStep(t)
  BY <1>0, <1>1, <1>5 DEF CancelStep, Cancels, From, AfterCancel, Ends
<1>6. CASE CountStep(t)
  BY <1>0, <1>1, <1>6, CountPlaces, CountRole, TaskFacts DEF CountStep, From
<1>7. CASE FreeStep(t) \/ FinishStep(t)
  BY <1>0, <1>1, <1>7 DEF FreeStep, FinishStep, From, Ends, Where, Blocked, Canceling
<1> QED BY <1>2, <1>3, <1>4, <1>5, <1>6, <1>7, Steps DEF OthersRest, Turn

(* Why the event has a value, and why it is canceled.                      *)
EventWhy ==
    /\ _HasValue /\ kind \in TotalKinds => \A i \in Inputs : ThenCounted(i)
    /\ _HasValue /\ kind \in ValueKinds =>
          \E i \in Inputs : /\ _Value = {i} /\ _M_fCompleted[In(i)]
                            /\ ~_M_fCancellationRequested[In(i)]
    /\ _IsCanceled /\ kind \in TotalKinds =>
          \E i \in Inputs : _M_fCancellationRequested[In(i)]
    /\ _IsCanceled /\ kind \in ValueKinds =>
          \A i \in Inputs : _M_fCancellationRequested[In(i)]

LEMMA CountedFlags ==
    ASSUME TypeInv, FlagInv, NEW i \in Inputs
    PROVE  /\ ThenCounted(i) \/ Past(Then(i)) => /\ _M_fCompleted[In(i)]
                                                 /\ ~_M_fCancellationRequested[In(i)]
           /\ CancCounted(i) \/ Past(Canc(i)) => _M_fCancellationRequested[In(i)]
BY CountedPast, TaskFacts DEF FlagInv

LEMMA WhySet ==
    ASSUME TypeInv, PlaceInv, FlagInv, EventInv, LastInv, [TasksNext]_tasksVars,
           NEW t \in Tasks, Sets(t)
    PROVE  EventWhy'
<1>0. /\ kind' = kind /\ kind \in Kinds /\ job[t] = "setLocked" /\ ~_HasValue /\ ~_IsCanceled
      /\ _IsCanceled' = _IsCanceled /\ job[t] \in Where(t)
      /\ \A i \in Inputs : /\ _M_fCompleted[In(i)] => _M_fCompleted'[In(i)]
                           /\ _M_fCompleted[In(i)] /\ ~_M_fCancellationRequested[In(i)]
                                 => ~_M_fCancellationRequested'[In(i)]
  BY Steps, FlagSteps, TaskFacts DEF Sets, From, PlaceInv, TypeInv
<1>1. CASE kind \in TotalKinds
  <2>1. Role(t) = "then"
    BY <1>0, <1>1, RoleFacts DEF Where, Blocked, Settling, Canceling, TotalKinds
  <2>2. Last(t)
    BY <1>0, <1>1, <2>1 DEF Last, Settling
  <2>3. CountedInputs = Inputs
    BY <2>2 DEF LastInv
  <2>4. \A i \in Inputs : ThenCounted(i)
    <3> TAKE i \in Inputs
    <3>1. ~CancCounted(i)
      BY <1>0, <1>1 DEF CancCounted, EventInv, TotalKinds, ValueKinds
    <3> QED BY <2>3, <3>1 DEF CountedInputs
  <2>5. \A i \in Inputs : ThenCounted(i)'
    BY <2>4, CountedSteps
  <2> QED BY <1>0, <1>1, <2>5 DEF EventWhy, TotalKinds, ValueKinds
<1>2. CASE kind \in ValueKinds
  <2>1. Role(t) = "then"
    BY <1>0, <1>2, RoleFacts DEF Where, Blocked, Settling, Canceling, ValueKinds
  <2>2. PICK i \in Inputs : t = Then(i) /\ t[2] = i
    BY <2>1, RoleFacts
  <2>3. Past(Then(i))
    BY <1>0, <2>2 DEF Past, Blocked
  <2>4. _M_fCompleted'[In(i)] /\ ~_M_fCancellationRequested'[In(i)]
    BY <1>0, <2>3, CountedFlags
  <2>5. _Value' = {i}
    BY <1>2, <2>2 DEF Sets, ValueKinds
  <2> QED BY <1>0, <1>2, <2>4, <2>5 DEF EventWhy, TotalKinds, ValueKinds, In
<1> QED BY <1>0, <1>1, <1>2 DEF EventWhy, TotalKinds, ValueKinds

LEMMA WhyCanceled ==
    ASSUME TypeInv, PlaceInv, FlagInv, EventInv, LastInv, [TasksNext]_tasksVars,
           NEW t \in Tasks, Cancels(t)
    PROVE  EventWhy'
<1>0. /\ kind' = kind /\ kind \in Kinds /\ job[t] = "cancelLocked" /\ ~_HasValue
      /\ _HasValue' = _HasValue /\ job[t] \in Where(t)
      /\ \A i \in Inputs : _M_fCancellationRequested[In(i)] => _M_fCancellationRequested'[In(i)]
  BY Steps, FlagSteps, TaskFacts DEF Cancels, From, PlaceInv, TypeInv
<1>1. CASE kind # "event"
  <2>1. Role(t) = "cancel"
    BY <1>0, <1>1, RoleFacts DEF Where, Blocked, Settling, Canceling
  <2>2. PICK i \in Inputs : t = Canc(i)
    BY <2>1, RoleFacts
  <2>3. Past(Canc(i))
    BY <1>0, <2>2 DEF Past, Blocked
  <2>4. _M_fCancellationRequested'[In(i)]
    BY <1>0, <2>3, CountedFlags
  <2>5. kind \in ValueKinds => \A j \in Inputs : _M_fCancellationRequested'[In(j)]
    <3>1. SUFFICES ASSUME kind \in ValueKinds, NEW j \in Inputs
                   PROVE  _M_fCancellationRequested'[In(j)]
      OBVIOUS
    <3>2. Last(t)
      BY <1>0, <2>1, <3>1 DEF Last, Canceling
    <3>3. CancCounted(j)
      BY <3>1, <3>2 DEF LastInv, CountedInputs, ThenCounted, ValueKinds, TotalKinds
    <3> QED BY <1>0, <3>3, CountedFlags
  <2>6. /\ \E j \in Inputs : _M_fCancellationRequested'[In(j)]
        /\ kind \in ValueKinds => \A j \in Inputs : _M_fCancellationRequested'[In(j)]
    BY <2>4, <2>5
  <2> QED BY <1>0, <2>6 DEF EventWhy, In, ValueKinds
<1> QED BY <1>0, <1>1 DEF EventWhy, TotalKinds, ValueKinds

LEMMA EventNext ==
    ASSUME TypeInv, PlaceInv, FlagInv, EventInv, LastInv, [TasksNext]_tasksVars
    PROVE  EventInv'
<1>0. kind' = kind
  BY Steps
<1>1. EventWhy'
  <2>1. CASE SameEvent
    <3>1. EventWhy
      BY DEF EventInv, EventWhy
    <3>2. \A i \in Inputs :
              /\ ThenCounted(i) => ThenCounted(i)'
              /\ _M_fCompleted[In(i)] => _M_fCompleted'[In(i)]
              /\ _M_fCancellationRequested[In(i)] => _M_fCancellationRequested'[In(i)]
              /\ _M_fCompleted[In(i)] /\ ~_M_fCancellationRequested[In(i)]
                    => ~_M_fCancellationRequested'[In(i)]
      BY CountedSteps, FlagSteps, TaskFacts
    <3> QED BY <1>0, <2>1, <3>1, <3>2 DEF EventWhy, SameEvent, In, TotalKinds, ValueKinds
  <2> QED BY <2>1, EventChanges, WhySet, WhyCanceled
<1>2. \A t \in Tasks : /\ job'[t] = "finalizing" => _HasValue'
                       /\ job'[t] = "canceling" => _IsCanceled'
  BY EventPlaces
<1>3. kind = "all" => \A i \in Inputs : job'[Canc(i)] \in {"count", "free", "done"}
                          => _HasValue' \/ _IsCanceled'
  BY EventPlaces, TaskFacts
<1>4. ~(_HasValue /\ _IsCanceled)'
  BY EventChanges DEF SameEvent, Sets, Cancels, EventInv
<1>5. (_M_fCompleted[All] => _HasValue)' /\ (_M_fCancellationRequested[All] => _IsCanceled)'
  <2>1. (_HasValue => _HasValue') /\ (_IsCanceled => _IsCanceled')
    BY EventChanges DEF SameEvent, Sets, Cancels, TypeInv
  <2>2. _M_fCompleted'[All] => _HasValue'
    BY <2>1, Settles DEF SettleStep, EventInv
  <2>3. _M_fCancellationRequested'[All] => _IsCanceled'
    BY <2>1, Settles DEF SettleStep, EventInv
  <2> QED BY <2>2, <2>3 DEF All
<1> QED BY <1>0, <1>1, <1>2, <1>3, <1>4, <1>5 DEF EventInv, EventWhy, Canc

-----------------------------------------------------------------------------
(* The job that was counted last, and who deletes the parameter.           *)

(* While some tasks have not been counted, the event has no value, and     *)
(* after all have been counted, || does not get one.                       *)
LEMMA ValueMeansCounted ==
    ASSUME TypeInv, FlagInv, EventInv, _HasValue
    PROVE  /\ kind \in TotalKinds => CountedInputs = Inputs
           /\ kind \in ValueKinds => CountedInputs # Inputs
<1>1. kind \in TotalKinds => CountedInputs = Inputs
  BY DEF EventInv, CountedInputs
<1>2. CASE kind \in ValueKinds
  <2>1. PICK i \in Inputs : ~_M_fCancellationRequested[In(i)]
    BY <1>2 DEF EventInv
  <2>2. ~CancCounted(i)
    BY <2>1, CountedFlags
  <2>3. ~ThenCounted(i)
    BY <1>2 DEF ThenCounted, TotalKinds, ValueKinds
  <2> QED BY <1>2, <2>2, <2>3 DEF CountedInputs, TotalKinds, ValueKinds
<1> QED BY <1>1, <1>2

LEMMA ReturnedRuns ==
    ASSUME TypeInv, PlaceInv, FlagInv, EventInv
    PROVE  /\ Past(Ret) => _HasValue /\ ~_M_fCancellationRequested[All]
           /\ Past(Clean) => _M_fCancellationRequested[All] /\ kind \in {"any", "and", "event"}
<1>1. Past(Ret) => _M_fCompleted[All] /\ ~_M_fCancellationRequested[All]
  BY TaskFacts DEF FlagInv
<1>2. Past(Clean) => _M_fCancellationRequested[All]
  BY TaskFacts DEF FlagInv
<1>3. Past(Clean) => Clean \in built
  BY TaskFacts DEF PlaceInv, Past, Blocked
<1>4. Clean \in built => kind \in {"any", "and", "event"}
  BY DEF TypeInv, Makes, Kinds, Clean, All, Ret, Also
<1> QED BY <1>1, <1>2, <1>3, <1>4 DEF EventInv

(* A step that makes a job the last one.                                   *)
LEMMA NewLast ==
    ASSUME TypeInv, PlaceInv, FlagInv, CountInv, EventInv, LastInv, [TasksNext]_tasksVars,
           NEW t \in Tasks, Last(t)', ~Last(t)
    PROVE  /\ CountStep(t) /\ \A u \in Tasks \ {t} : ~CountStep(u)
           /\ CountedInputs # Inputs /\ CountedInputs' = Inputs
           /\ \A u \in Tasks : ~Last(u)
           /\ ~_HasValue /\ ~_HasValue' /\ freed' = freed
<1>1. CountStep(t) /\ job'[t] # "done" /\ kind # "event" /\ kind' = kind
  <2>1. CountStep(t) /\ job'[t] # "done" /\ kind' = kind
    BY LastSteps, Steps
  <2> QED BY <2>1 DEF Last, TotalKinds, ValueKinds
<1>2. PICK i \in Inputs \ CountedInputs : /\ t \in {Then(i), Canc(i)}
                                          /\ CountedInputs' = CountedInputs \cup {i}
                                          /\ \A u \in Tasks \ {t} : ~CountStep(u)
  BY <1>1, CountedNext
<1>3. CountedInputs # Inputs /\ CountedInputs' = Inputs
  BY <1>1, <1>2, LastCount
<1>4. \A u \in Tasks : ~Last(u)
  BY <1>3 DEF LastInv
<1>5. _HasValue' = _HasValue /\ freed' = freed
  BY <1>1 DEF CountStep, SameEvent
<1>6. ~_HasValue
  <2>1. CASE kind \in TotalKinds
    BY <1>3, <2>1, ValueMeansCounted
  <2>2. CASE kind \in ValueKinds
    <3>1. SUFFICES ASSUME _HasValue PROVE FALSE
      OBVIOUS
    <3>2. PICK j \in Inputs : _M_fCompleted[In(j)] /\ ~_M_fCancellationRequested[In(j)]
      BY <2>2, <3>1 DEF EventInv
    <3>3. ~_M_fCancellationRequested'[In(j)]
      BY <3>2, FlagSteps, TaskFacts
    <3>4. CancCounted(j)'
      BY <1>1, <1>3, <2>2 DEF CountedInputs, ThenCounted, TotalKinds, ValueKinds
    <3>5. TypeInv' /\ FlagInv'
      BY TypeNext, FlagNext
    <3>6. _M_fCancellationRequested'[In(j)]
      <4>1. (CancCounted(j) => Past(Canc(j)))'
        BY DEF CancCounted, Past, Blocked, Canceling
      <4>2. job'[Canc(j)] \notin Blocked
        BY <3>4, <4>1 DEF Past, Blocked, Canc
      <4> QED BY <3>5, <4>2, TaskFacts DEF FlagInv, Past, Blocked
    <3> QED BY <3>3, <3>6
  <2> QED BY <1>1, <2>1, <2>2 DEF TypeInv, Kinds, TotalKinds, ValueKinds
<1> QED BY <1>1, <1>2, <1>3, <1>4, <1>5, <1>6

(* Once everything is counted and the job counted last does not set the    *)
(* event, nobody does.                                                     *)
LEMMA NoMoreValue ==
    ASSUME TypeInv, PlaceInv, FlagInv, EventInv, LastInv, [TasksNext]_tasksVars,
           CountedInputs = Inputs, ~_HasValue, kind # "event",
           NEW t, \A u \in Tasks : Last(u) => u = t,
           t \in Tasks => job'[t] # "finalizing"
    PROVE  ~_HasValue'
<1>1. SUFFICES ASSUME NEW u \in Tasks, Sets(u) PROVE FALSE
  BY EventChanges DEF SameEvent, Cancels
<1>2. job[u] = "setLocked" /\ job'[u] = "finalizing" /\ job[u] \in Where(u)
  BY <1>1 DEF Sets, From, PlaceInv
<1>3. Role(u) = "then"
  BY <1>2, RoleFacts DEF Where, Blocked, Settling, Canceling
<1>4. CASE kind \in TotalKinds
  <2>1. Last(u)
    BY <1>2, <1>3, <1>4 DEF Last, Settling
  <2> QED BY <1>2, <2>1
<1>5. CASE kind \in ValueKinds
  <2>1. PICK i \in Inputs : u = Then(i)
    BY <1>3, RoleFacts
  <2>2. Past(Then(i))
    BY <1>2, <2>1 DEF Past, Blocked
  <2>3. ~CancCounted(i)
    BY <2>2, CountedFlags
  <2> QED BY <1>5, <2>3 DEF CountedInputs, ThenCounted, TotalKinds, ValueKinds
<1> QED BY <1>4, <1>5 DEF TypeInv, Kinds, TotalKinds, ValueKinds

LEMMA WhoFrees ==
    ASSUME TypeInv, PlaceInv, NEW u \in Tasks, job[u] = "free"
    PROVE  /\ kind # "event" /\ Past(u)
           /\ \/ Last(u) /\ kind \in {"all", "or"} /\ Ends(u) = "done"
              \/ u = Ret /\ Ends(u) = "finish"
              \/ u = Clean /\ Ends(u) = "done"
<1>1. job[u] \in Where(u) /\ Past(u)
  BY DEF PlaceInv, Past, Blocked
<1>2. CASE Role(u) \in {"then", "cancel"}
  BY <1>1, <1>2 DEF Where, Last, Ends, TotalKinds, ValueKinds, Blocked, Settling, Canceling
<1>3. CASE Role(u) \in {"ret", "clean"}
  BY <1>1, <1>3, RoleFacts DEF Where, Ends, Blocked
<1>4. CASE Role(u) \in {"in", "all", "also"}
  BY <1>1, <1>4 DEF Where, Settling, Canceling
<1> QED BY <1>2, <1>3, <1>4, RoleFacts

LEMMA FreedChanges ==
    ASSUME TypeInv, PlaceInv, [TasksNext]_tasksVars
    PROVE  \/ freed' = freed
           \/ \E u \in Tasks : /\ job[u] = "free" /\ job'[u] = Ends(u)
                               /\ freed' = freed + 1 /\ SameEvent
BY Steps DEF SameParam, param, Turn, Begin, CountStep, FreeStep, FinishStep, From

(* While the job that was counted last has not set the event, or there is  *)
(* none yet, the parameter is there.                                       *)
LEMMA NotFreed ==
    ASSUME TypeInv, PlaceInv, FlagInv, EventInv, LastInv, FreedInv, ~_HasValue,
           kind \in {"all", "or"}, CountedInputs # Inputs \/ \E t \in Tasks : Last(t)
    PROVE  freed = 0
<1>1. SUFFICES ASSUME freed > 0 PROVE FALSE
  BY DEF TypeInv
<1>2. CASE job[Ret] \in {"finish", "done"}
  BY <1>2, ReturnedRuns DEF Past, Blocked
<1>3. CASE job[Clean] = "done"
  BY <1>3, ReturnedRuns DEF Past, Blocked
<1> QED BY <1>1, <1>2, <1>3 DEF FreedInv

LEMMA LastStays ==
    ASSUME TypeInv, PlaceInv, FlagInv, EventInv, LastInv, FreedInv, [TasksNext]_tasksVars,
           NEW t \in Tasks, Last(t), Last(t)'
    PROVE  /\ CountedInputs' = Inputs
           /\ job'[t] # "finalizing" => ~_HasValue'
           /\ kind \in {"all", "or"} /\ job'[t] # "finalizing" => freed' = 0
<1>0. /\ kind' = kind /\ kind # "event" /\ kind \in Kinds /\ CountedInputs = Inputs
      /\ \A u \in Tasks : Last(u) => u = t
  BY Steps DEF TypeInv, LastInv, Last, TotalKinds, ValueKinds
<1>1. CountedInputs' = Inputs
  BY <1>0, CountedNext
<1>2. SUFFICES ASSUME job'[t] # "finalizing"
               PROVE  ~_HasValue' /\ (kind \in {"all", "or"} => freed' = 0)
  BY <1>1
<1>3. job[t] # "finalizing"
  <2>1. SUFFICES ASSUME job[t] = "finalizing" PROVE FALSE
    OBVIOUS
  <2>2. Role(t) = "then" /\ kind \in TotalKinds
    BY <2>1 DEF Last, Canceling
  <2>3. ~Rests(t)
    BY <1>2, <2>1 DEF Rests, Blocked
  <2>4. Turn(t)
    BY <2>3, Steps DEF OthersRest
  <2>5. job'[t] = AfterSet(t, TRUE)
    BY <2>1, <2>4 DEF Turn, Begin, SetStep, CancelStep, Sets, Cancels, CountStep, FreeStep,
                      FinishStep, From
  <2>6. job'[t] = "done"
    BY <2>2, <2>5 DEF AfterSet, Ends
  <2> QED BY <2>6 DEF Last, Settling, Canceling
<1>4. ~_HasValue
  BY <1>3 DEF LastInv
<1>5. ~_HasValue'
  BY <1>0, <1>2, <1>4, NoMoreValue
<1>6. ASSUME kind \in {"all", "or"} PROVE freed' = 0
  <2>1. freed = 0
    BY <1>4, <1>6, NotFreed
  <2>2. ASSUME NEW u \in Tasks, job[u] = "free", job'[u] = Ends(u) PROVE FALSE
    <3>1. u # Ret /\ u # Clean
      BY <1>4, <1>6, <2>2, WhoFrees, ReturnedRuns
    <3>2. u = t /\ job'[t] = "done"
      BY <1>0, <2>2, <3>1, WhoFrees
    <3> QED BY <3>2 DEF Last, Settling, Canceling
  <2> QED BY <2>1, <2>2, FreedChanges
<1> QED BY <1>5, <1>6

LEMMA LastNext ==
    ASSUME TypeInv, PlaceInv, FlagInv, CountInv, EventInv, LastInv, FreedInv,
           [TasksNext]_tasksVars
    PROVE  LastInv'
<1>0. kind' = kind
  BY Steps
<1>1. ASSUME NEW t \in Tasks, Last(t)'
      PROVE  /\ CountedInputs' = Inputs
             /\ job'[t] # "finalizing" => ~_HasValue'
             /\ kind \in {"all", "or"} /\ job'[t] # "finalizing" => freed' = 0
  <2>1. CASE Last(t)
    BY <1>1, <2>1, LastStays
  <2>2. CASE ~Last(t)
    BY <1>1, <2>2, NewLast, NotFreed
  <2> QED BY <2>1, <2>2
<1>2. ASSUME NEW t \in Tasks, NEW u \in Tasks, Last(t)', Last(u)' PROVE t = u
  <2>1. CASE Last(t) /\ Last(u)
    BY <2>1 DEF LastInv
  <2>2. CASE ~Last(t)
    BY <1>2, <2>2, NewLast
  <2>3. CASE ~Last(u)
    BY <1>2, <2>3, NewLast
  <2> QED BY <2>1, <2>2, <2>3
<1> QED BY <1>0, <1>1, <1>2 DEF LastInv

LEMMA OneFrees ==
    ASSUME TypeInv, PlaceInv, FlagInv, EventInv, LastInv, FreedInv,
           NEW u \in Tasks, job[u] = "free"
    PROVE  freed = 0
<1>1. SUFFICES ASSUME freed > 0 PROVE FALSE
  BY DEF TypeInv
<1>2. CASE Last(u) /\ kind \in {"all", "or"}
  BY <1>1, <1>2 DEF LastInv
<1>3. CASE u = Ret
  <2>1. _HasValue /\ ~_M_fCancellationRequested[All]
    BY <1>3, WhoFrees, ReturnedRuns
  <2>2. job[Clean] # "done"
    BY <2>1, ReturnedRuns DEF Past, Blocked
  <2> QED BY <1>1, <1>3, <2>1, <2>2 DEF FreedInv
<1>4. CASE u = Clean
  <2>1. _M_fCancellationRequested[All] /\ kind \notin {"all", "or"}
    BY <1>4, WhoFrees, ReturnedRuns
  <2>2. job[Ret] \notin {"finish", "done"}
    BY <2>1, ReturnedRuns DEF Past, Blocked
  <2> QED BY <1>1, <1>4, <2>1, <2>2 DEF FreedInv
<1> QED BY <1>2, <1>3, <1>4, WhoFrees

LEMMA DoneSteps ==
    ASSUME TypeInv, PlaceInv, [TasksNext]_tasksVars, NEW t \in Tasks
    PROVE  /\ job[t] = "done" => job'[t] = "done"
           /\ job[t] = "finish" => job'[t] \in {"finish", "done"}
<1>1. CASE Rests(t)
  BY <1>1 DEF Rests, Blocked
<1>2. CASE Turn(t)
  BY <1>2, StepWhere DEF Turn, Begin, SetStep, CancelStep, Sets, Cancels, CountStep, FreeStep,
                         FinishStep, From
<1> QED BY <1>1, <1>2, Steps DEF OthersRest

LEMMA FreedNext ==
    ASSUME TypeInv, PlaceInv, FlagInv, CountInv, EventInv, LastInv, FreedInv,
           [TasksNext]_tasksVars
    PROVE  FreedInv'
<1>0. kind' = kind /\ freed \in Nat /\ Ret \in Tasks /\ Clean \in Tasks /\ All \in Tasks
  BY Steps, TaskFacts DEF TypeInv
<1>f. job'[All] # "finalizing"
  <2>1. PlaceInv'
    BY PlaceNext
  <2>2. job'[All] \in Where(All)'
    BY <1>0, <2>1 DEF PlaceInv, All
  <2> QED BY <2>2, TaskFacts DEF Where, All
<1>1. kind = "event" => freed' = 0
  BY FreedChanges, WhoFrees DEF FreedInv
<1>l. ASSUME CountedInputs = Inputs, NEW t \in Tasks, Last(t)' PROVE Last(t)
  BY <1>l, NewLast
<1> DEFINE reason == \/ job'[Ret] \in {"finish", "done"}
                     \/ job'[Clean] = "done"
                     \/ /\ kind \in {"all", "or"} /\ CountedInputs' = Inputs /\ ~_HasValue'
                        /\ \A t \in Tasks : ~Last(t)'
<1>2. ASSUME freed' = freed, freed > 0 PROVE freed' = 1 /\ reason
  <2>1. CASE job[Ret] \in {"finish", "done"} \/ job[Clean] = "done"
    BY <1>0, <1>2, <2>1, DoneSteps DEF FreedInv
  <2>2. CASE /\ kind \in {"all", "or"} /\ CountedInputs = Inputs /\ ~_HasValue
             /\ \A t \in Tasks : ~Last(t)
    <3>1. ~_HasValue'
      BY <1>0, <1>f, <2>2, NoMoreValue
    <3>2. CountedInputs' = Inputs
      BY <2>2, CountedNext
    <3>3. \A t \in Tasks : ~Last(t)'
      BY <1>l, <2>2
    <3>4. freed' = 1
      BY <1>2 DEF FreedInv
    <3> QED BY <2>2, <3>1, <3>2, <3>3, <3>4
  <2> QED BY <1>2, <2>1, <2>2 DEF FreedInv
<1>3. ASSUME NEW u \in Tasks, job[u] = "free", job'[u] = Ends(u), freed' = freed + 1, SameEvent
      PROVE  freed' = 1 /\ reason
  <2>1. freed' = 1
    BY <1>3, OneFrees
  <2>2. CASE u = Ret \/ u = Clean
    BY <1>3, <2>1, <2>2, WhoFrees, TaskFacts
  <2>3. CASE Last(u) /\ kind \in {"all", "or"} /\ Ends(u) = "done"
    <3>1. CountedInputs = Inputs /\ ~_HasValue /\ \A t \in Tasks : Last(t) => t = u
      BY <1>3, <2>3 DEF LastInv
    <3>2. CountedInputs' = Inputs
      BY <3>1, CountedNext
    <3>3. ~Last(u)'
      BY <1>3, <2>3 DEF Last, Settling, Canceling
    <3>4. \A t \in Tasks : ~Last(t)'
      BY <1>l, <3>1, <3>3
    <3> QED BY <1>3, <2>1, <2>3, <3>1, <3>2, <3>4 DEF SameEvent
  <2> QED BY <1>3, <2>2, <2>3, WhoFrees
<1>4. freed' > 0 => freed' = 1 /\ reason
  BY <1>0, <1>2, <1>3, FreedChanges
<1>5. kind = "all" => ~usedFreed'
  <2>1. SUFFICES ASSUME kind = "all" PROVE ~usedFreed'
    OBVIOUS
  <2>2. \/ usedFreed' = usedFreed
        \/ \E u \in Tasks : (CountStep(u) \/ FreeStep(u)) /\ UseParam
    BY Steps DEF SameParam, param, Turn, Begin, CountStep, FreeStep, FinishStep
  <2>3. ASSUME NEW u \in Tasks, CountStep(u) PROVE freed = 0
    <3>1. CountedInputs # Inputs
      BY <2>3, CountedNext
    <3>2. ~_HasValue
      BY <2>1, <3>1, ValueMeansCounted DEF TotalKinds
    <3> QED BY <2>1, <3>1, <3>2, NotFreed
  <2>4. ASSUME NEW u \in Tasks, FreeStep(u) PROVE freed = 0
    BY <2>4, OneFrees DEF FreeStep, From
  <2>5. ~usedFreed
    BY <2>1 DEF FreedInv
  <2>6. ASSUME UseParam, freed = 0 PROVE ~usedFreed'
    <3>1. ~(freed > 0)
      BY <2>6
    <3> QED BY <2>5, <2>6, <3>1, Zenon DEF UseParam
  <2> QED BY <2>2, <2>3, <2>4, <2>5, <2>6
<1> QED BY <1>0, <1>1, <1>4, <1>5 DEF FreedInv, Ret, Clean

-----------------------------------------------------------------------------
(* What the tasks return, and what is answered.                            *)
LEMMA VectorNext ==
    ASSUME TypeInv, PlaceInv, FlagInv, ResultInv, [TasksNext]_tasksVars, kind = "all"
    PROVE  _M_vector' = {i \in Inputs : ThenCounted(i)'}
<1>0. _M_vector = {i \in Inputs : ThenCounted(i)}
  BY DEF ResultInv
<1>1. CASE \A u \in Tasks : ~CountStep(u)
  <2>1. _M_vector' = _M_vector
    BY <1>1, Steps DEF SameParam, param, Turn, Begin, FreeStep, FinishStep
  <2>2. \A i \in Inputs : ThenCounted(i)' <=> ThenCounted(i)
    BY <1>1, CountedSteps, TaskFacts
  <2> QED BY <1>0, <2>1, <2>2
<1>2. ASSUME NEW i \in Inputs, NEW t \in {Then(i), Canc(i)}, CountStep(t),
             \A u \in Tasks \ {t} : ~CountStep(u)
      PROVE  _M_vector' = {j \in Inputs : ThenCounted(j)'}
  <2>1. \A j \in Inputs : j # i => Then(j) # t /\ Then(j) \in Tasks
    <3>1. t[2] = i
      BY TaskFacts
    <3> QED BY <3>1, TaskFacts
  <2>2. \A j \in Inputs : j # i => (ThenCounted(j)' <=> ThenCounted(j))
    BY <1>2, <2>1, CountedSteps
  <2>3. CASE t = Then(i)
    <3>1. Past(Then(i))
      BY <1>2, <2>3 DEF CountStep, From, Past, Blocked
    <3>2. _M_Result[In(i)] = {i}
      BY <3>1, CountedFlags DEF ResultInv
    <3>3. _M_vector' = _M_vector \cup {i}
      BY <1>2, <2>3, <3>2, TaskFacts DEF CountStep
    <3>4. ThenCounted(i)'
      BY <1>2, <2>3, CountedSteps
    <3> QED BY <1>0, <2>2, <3>3, <3>4
  <2>4. CASE t = Canc(i)
    <3>1. Then(i) # t /\ Then(i) \in Tasks
      BY <2>4, TaskFacts DEF Then, Canc
    <3>2. ThenCounted(i)' <=> ThenCounted(i)
      BY <1>2, <3>1, CountedSteps
    <3>3. _M_vector' = _M_vector
      BY <1>2, <2>4, TaskFacts DEF CountStep
    <3> QED BY <1>0, <2>2, <3>2, <3>3
  <2> QED BY <2>3, <2>4
<1> QED BY <1>1, <1>2, CountedNext

LEMMA ReturnedIsComplete ==
    ASSUME TypeInv, PlaceInv, FlagInv, EventInv, ResultInv, job[Ret] = "finish"
    PROVE  /\ kind = "all" => ResultOf(Ret) = Inputs
           /\ kind \in {"any", "or"} => \E i \in Inputs : /\ ResultOf(Ret) = {i}
                                                          /\ _M_fCompleted[In(i)]
<1>1. _M_fCompleted[All] /\ _HasValue
  BY TaskFacts, ReturnedRuns DEF FlagInv, Past, Blocked
<1>2. ResultOf(Ret) = IF kind = "all" THEN _M_vector ELSE _Value
  BY <1>1, TaskFacts DEF ResultOf, ResultInv
<1>3. CASE kind = "all"
  BY <1>1, <1>2, <1>3 DEF ResultInv, EventInv, TotalKinds
<1>4. CASE kind \in {"any", "or"}
  BY <1>1, <1>2, <1>4 DEF EventInv, ValueKinds
<1> QED BY <1>3, <1>4

LEMMA ResultNext ==
    ASSUME TypeInv, PlaceInv, FlagInv, EventInv, ResultInv, [TasksNext]_tasksVars
    PROVE  ResultInv'
<1>0. kind' = kind
  BY Steps
<1>1. \A i \in Inputs : _M_fCompleted'[In(i)] => _M_Result'[In(i)] = {i}
  BY Settles DEF SettleStep, ResultInv
<1>2. kind = "all" => _M_vector' = {i \in Inputs : ThenCounted(i)'}
  BY VectorNext
<1>3. _M_fCompleted'[All] => _M_Result'[All] = _Value'
  <2>1. CASE _M_Result'[All] = _Value /\ SameEvent
    BY <2>1 DEF SameEvent
  <2>2. CASE _M_Result'[All] = _M_Result[All] /\ _M_fCompleted'[All] = _M_fCompleted[All]
    <3>1. _M_fCompleted[All] => _Value' = _Value
      BY EventChanges DEF SameEvent, Sets, Cancels, EventInv
    <3> QED BY <2>2, <3>1 DEF ResultInv
  <2> QED BY <2>1, <2>2, Settles DEF SettleStep
<1>4. _M_fCompleted'[Ret] =>
          /\ kind = "all" => _M_Result'[Ret] = Inputs
          /\ kind \in {"any", "or"} => \E i \in Inputs : /\ _M_Result'[Ret] = {i}
                                                         /\ _M_fCompleted'[In(i)]
  <2>0. \A i \in Inputs : _M_fCompleted[In(i)] => _M_fCompleted'[In(i)]
    BY FlagSteps, TaskFacts
  <2>1. CASE _M_Result'[Ret] = ResultOf(Ret) /\ job[Ret] = "finish"
    BY <2>0, <2>1, ReturnedIsComplete
  <2>2. CASE _M_Result'[Ret] = _M_Result[Ret] /\ _M_fCompleted'[Ret] = _M_fCompleted[Ret]
    BY <2>0, <2>2 DEF ResultInv, ResultIsComplete
  <2> QED BY <2>1, <2>2, Settles DEF SettleStep
<1> QED BY <1>0, <1>1, <1>2, <1>3, <1>4 DEF ResultInv, ResultIsComplete, In, All, Ret

LEMMA AnswerChanges ==
    ASSUME [TasksNext]_tasksVars
    PROVE  \/ UNCHANGED <<watched, woken, answers, asked>>
           \/ \E t \in Tasks : cancel(t) \/ wait(t)
<1>1. UNCHANGED history => UNCHANGED <<watched, woken, answers, asked>>
  BY DEF history
<1>2. ASSUME NEW t \in Tasks, Make(t) PROVE UNCHANGED <<watched, woken, answers, asked>>
  BY <1>1, <1>2 DEF Make, _RegisterTask, _ScheduleContinuation,
                    _ScheduleCancellationContinuation
<1>3. ASSUME NEW t \in Tasks, Job(t) PROVE UNCHANGED history
  BY <1>3 DEF Job, _RunTask, _RunContinuation, _RunCancellationContinuation, CountIn, Free,
              Finish, Set, CancelEvent, GoesTo
<1>4. UNCHANGED tasksVars => UNCHANGED history
  BY DEF tasksVars
<1> QED BY <1>1, <1>2, <1>3, <1>4 DEF TasksNext

LEMMA AnswerNext ==
    ASSUME TypeInv, AnswerInv, [TasksNext]_tasksVars
    PROVE  AnswerInv'
<1>0. watched \in Tasks
  BY DEF AnswerInv
<1>f. /\ _M_fCompleted[watched] => _M_fCompleted'[watched]
      /\ _M_fCancellationRequested[watched] => _M_fCancellationRequested'[watched]
      /\ _M_fCompleted[watched] /\ ~_M_fCancellationRequested[watched]
            => ~_M_fCancellationRequested'[watched]
  BY <1>0, FlagSteps
<1>1. CASE UNCHANGED <<watched, woken, answers, asked>>
  BY <1>f, <1>1 DEF AnswerInv, Settled
<1>2. ASSUME NEW t \in Tasks, cancel(t) PROVE AnswerInv'
  <2>1. UNCHANGED <<watched, woken, answers>>
    BY <1>2 DEF cancel
  <2>2. t = watched /\ ~_M_fCompleted[t] => _M_fCancellationRequested'[t]
    BY <1>2 DEF cancel, Cancel, TypeInv
  <2>3. watched \in asked' => watched \in asked \/ (t = watched /\ ~_M_fCompleted[t])
    BY <1>2 DEF cancel
  <2> QED BY <1>f, <2>1, <2>2, <2>3 DEF AnswerInv, Settled
<1>3. ASSUME NEW t \in Tasks, wait(t) PROVE AnswerInv'
  <2>1. t = watched /\ UNCHANGED <<watched, asked, _M_fCompleted, _M_fCancellationRequested>>
    BY <1>3 DEF wait, flags
  <2>2. woken' => Settled(watched)
    BY <1>3, <2>1 DEF wait
  <2>3. \/ answers' = answers
        \/ /\ woken
           /\ answers' = answers \cup
                 {IF _M_fCancellationRequested[watched] THEN "canceled" ELSE "completed"}
    BY <1>3, <2>1 DEF wait
  <2> QED BY <2>1, <2>2, <2>3 DEF AnswerInv, Settled
<1> QED BY <1>1, <1>2, <1>3, AnswerChanges

-----------------------------------------------------------------------------
LEMMA InvInit == ASSUME TasksInit PROVE AllInv
<1>1. \A t \in Tasks : job[t] = IF Role(t) = "in" THEN "scheduled" ELSE "none"
  BY DEF TasksInit
<1>2. TypeInv
  BY DEF TasksInit, TypeInv, Stages, Blocked
<1>3. PlaceInv
  BY <1>1, RoleFacts DEF TasksInit, PlaceInv, Where, Blocked
<1>4. FlagInv
  BY <1>1 DEF FlagInv, Past, Blocked
<1>5. \A i \in Inputs : job[Then(i)] = "none" /\ job[Canc(i)] = "none"
  BY <1>1, TaskFacts
<1>6. \A i \in Inputs : ~ThenCounted(i) /\ ~CancCounted(i)
  BY <1>5 DEF ThenCounted, CancCounted, Settling, Canceling
<1>7. CountInv
  BY <1>6, FS_EmptySet DEF CountInv, CountedInputs, TasksInit
<1>8. \A t \in Tasks : ~Last(t)
  BY <1>1 DEF Last, Settling, Canceling
<1>9. EventInv
  BY <1>1, <1>5, TaskFacts DEF TasksInit, EventInv
<1>10. LastInv
  BY <1>8 DEF LastInv
<1>11. FreedInv
  BY DEF TasksInit, FreedInv
<1>12. ResultInv
  BY <1>6, TaskFacts DEF TasksInit, ResultInv
<1>13. AnswerInv
  BY TaskFacts DEF TasksInit, AnswerInv
<1> QED BY <1>2, <1>3, <1>4, <1>7, <1>9, <1>10, <1>11, <1>12, <1>13 DEF AllInv

LEMMA InvNext == ASSUME AllInv, [TasksNext]_tasksVars PROVE AllInv'
BY TypeNext, PlaceNext, FlagNext, CountNext, EventNext, LastNext, FreedNext, ResultNext,
   AnswerNext DEF AllInv

THEOREM TasksInvariant == TasksSpec => []AllInv
BY InvInit, InvNext, PTL DEF TasksSpec

(* All waits for a task return the same answer, "completed" only when it   *)
(* is not canceled, and the returned task then has its result.             *)
THEOREM AnswersAlwaysAgree == TasksSpec => []AnswersAgree
<1>1. ASSUME AllInv PROVE AnswersAgree
  BY <1>1 DEF AllInv, AnswerInv, ResultInv, AnswersAgree
<1> QED BY <1>1, TasksInvariant, PTL

(* The parameter that the jobs of a combinator share is deleted once, and  *)
(* when_all does not use it afterwards.                                    *)
THEOREM ParamAlwaysDeletedOnce == TasksSpec => []ParamDeletedOnce
<1>1. ASSUME AllInv PROVE ParamDeletedOnce
  BY <1>1 DEF AllInv, TypeInv, FreedInv, ParamDeletedOnce
<1> QED BY <1>1, TasksInvariant, PTL

-----------------------------------------------------------------------------
(* The refinement: the outcomes of the given tasks and of the returned one.*)
OutcomeAfter(t) == CASE _M_fCancellationRequested'[t] -> "canceled"
                     [] ~_M_fCompleted'[t] /\ ~_M_fCancellationRequested'[t] -> "pending"
                     [] OTHER -> "completed"
Kept(t) == OutcomeAfter(t) = Outcome(t)
Becomes(t, o) == Outcome(t) = "pending" /\ OutcomeAfter(t) = o

LEMMA OutcomeFacts ==
    ASSUME TypeInv, NEW t \in Tasks
    PROVE  /\ Outcome(t) = "canceled" <=> _M_fCancellationRequested[t]
           /\ Outcome(t) = "completed" <=> /\ _M_fCompleted[t]
                                           /\ ~_M_fCancellationRequested[t]
           /\ Outcome(t) \in {"pending", "completed", "canceled"}
BY DEF Outcome, Settled, TypeInv

LEMMA FinalizedOutcome ==
    ASSUME TypeInv, NEW t \in Tasks, NEW r, Finalize(t, r)
    PROVE  /\ \A u \in Tasks \ {t} : Kept(u)
           /\ Kept(t) \/ Becomes(t, "completed")
BY DEF Finalize, TypeInv, Kept, Becomes, Outcome, OutcomeAfter, Settled

LEMMA CanceledOutcome ==
    ASSUME TypeInv, NEW t \in Tasks, Cancel(t)
    PROVE  /\ \A u \in Tasks \ {t} : Kept(u)
           /\ Kept(t) \/ Becomes(t, "canceled")
BY DEF Cancel, TypeInv, Kept, Becomes, Outcome, OutcomeAfter, Settled

(* A step settles at most one of them, and the returned task by the        *)
(* outcome of the given ones.                                              *)
AllKept == Kept(Ret) /\ \A i \in Inputs : Kept(In(i))
GivenSettles == \E i \in Inputs : /\ Becomes(In(i), "completed") \/ Becomes(In(i), "canceled")
                                  /\ Kept(Ret) /\ \A j \in Inputs \ {i} : Kept(In(j))
ReturnedSettled ==
    /\ \A i \in Inputs : Kept(In(i))
    /\ \/ /\ Becomes(Ret, "completed")
          /\ kind \in TotalKinds => \A i \in Inputs : Outcome(In(i)) = "completed"
          /\ kind \in ValueKinds => \E i \in Inputs : Outcome(In(i)) = "completed"
       \/ /\ Becomes(Ret, "canceled")
          /\ kind \in TotalKinds => \E i \in Inputs : Outcome(In(i)) = "canceled"
          /\ kind \in ValueKinds => \A i \in Inputs : Outcome(In(i)) = "canceled"

LEMMA OutcomeSteps ==
    ASSUME AllInv, [TasksNext]_tasksVars, ~cancel(Ret)
    PROVE  AllKept \/ GivenSettles \/ ReturnedSettled
<1>0. /\ Ret \in Tasks /\ \A i \in Inputs : In(i) \in Tasks /\ In(i) # Ret
      /\ \A i, j \in Inputs : In(i) = In(j) => i = j
      /\ TypeInv
  BY TaskFacts DEF AllInv
<1>1. ASSUME UNCHANGED flags PROVE AllKept
  BY <1>1 DEF flags, AllKept, Kept, Outcome, OutcomeAfter, Settled
<1>2. ASSUME NEW i \in Inputs,
             \A u \in Tasks \ {In(i)} : Kept(u),
             Kept(In(i)) \/ Becomes(In(i), "completed") \/ Becomes(In(i), "canceled")
      PROVE  AllKept \/ GivenSettles
  BY <1>0, <1>2 DEF AllKept, GivenSettles
<1>3. ASSUME NEW t \in Tasks, t # Ret, \A i \in Inputs : t # In(i),
             \A u \in Tasks \ {t} : Kept(u)
      PROVE  AllKept
  BY <1>0, <1>3 DEF AllKept
<1>4. ASSUME NEW i \in Inputs, Finalize(In(i), {i}) PROVE AllKept \/ GivenSettles
  BY <1>0, <1>2, <1>4, FinalizedOutcome
<1>5. ASSUME Finishes(Ret) PROVE AllKept \/ ReturnedSettled
  <2>1. _HasValue
    BY <1>5, ReturnedRuns DEF AllInv, Finishes, Past, Blocked
  <2>2. /\ kind \in TotalKinds => \A i \in Inputs : Outcome(In(i)) = "completed"
        /\ kind \in ValueKinds => \E i \in Inputs : Outcome(In(i)) = "completed"
    BY <1>0, <2>1, CountedFlags, OutcomeFacts DEF AllInv, EventInv
  <2>3. (\A u \in Tasks \ {Ret} : Kept(u)) /\ (Kept(Ret) \/ Becomes(Ret, "completed"))
    BY <1>0, <1>5, FinalizedOutcome DEF Finishes
  <2> QED BY <1>0, <2>2, <2>3 DEF AllKept, ReturnedSettled
<1>6. ASSUME NEW u \in {All, Also}, Finalize(u, _Value) \/ Cancel(u) PROVE AllKept
  <2>1. u \in Tasks /\ u # Ret /\ \A i \in Inputs : u # In(i)
    BY TaskFacts
  <2>2. \A v \in Tasks \ {u} : Kept(v)
    BY <1>0, <1>6, <2>1, FinalizedOutcome, CanceledOutcome
  <2> QED BY <1>3, <2>1, <2>2
<1>7. ASSUME NEW u \in Tasks \ {All, Also}, Cancel(u),
             u = Ret => _M_fCancellationRequested[All]
      PROVE  AllKept \/ GivenSettles \/ ReturnedSettled
  <2>1. (\A v \in Tasks \ {u} : Kept(v)) /\ (Kept(u) \/ Becomes(u, "canceled"))
    BY <1>0, <1>7, CanceledOutcome
  <2>2. CASE u = Ret
    <3>1. _IsCanceled
      BY <1>7, <2>2 DEF AllInv, EventInv
    <3>2. /\ kind \in TotalKinds => \E i \in Inputs : Outcome(In(i)) = "canceled"
          /\ kind \in ValueKinds => \A i \in Inputs : Outcome(In(i)) = "canceled"
      BY <1>0, <3>1, OutcomeFacts DEF AllInv, EventInv
    <3> QED BY <1>0, <2>1, <2>2, <3>2 DEF AllKept, ReturnedSettled
  <2>3. CASE \E i \in Inputs : u = In(i)
    BY <1>2, <2>1, <2>3
  <2>4. CASE u # Ret /\ \A i \in Inputs : u # In(i)
    BY <1>3, <2>1, <2>4
  <2> QED BY <2>2, <2>3, <2>4
<1> QED BY <1>1, <1>4, <1>5, <1>6, <1>7, FlagChanges DEF FlagChange, AllInv

LEMMA RefinedNext ==
    ASSUME AllInv, [TasksNext]_tasksVars
    PROVE  [Combined!Next]_Combined!vars
<1> DEFINE needs == CASE kind \in {"all", "and"} -> "all"
                      [] kind \in {"any", "or"}  -> "any"
                      [] OTHER                   -> "none"
           given == [i \in Inputs |-> Outcome(In(i))]
           after == [i \in Inputs |-> OutcomeAfter(In(i))]
<1>0. /\ kind' = kind /\ needs' = needs
      /\ given' = after /\ Outcome(Ret)' = OutcomeAfter(Ret)
  <2>1. kind' = kind
    BY Steps DEF AllInv
  <2>2. given' = after
    BY DEF Outcome, OutcomeAfter, Settled, In
  <2>3. Outcome(Ret)' = OutcomeAfter(Ret)
    BY DEF Outcome, OutcomeAfter, Settled, Ret
  <2> QED BY <2>1, <2>2, <2>3
<1>t. TypeInv /\ Ret \in Tasks
  BY TaskFacts DEF AllInv
<1>1. CASE cancel(Ret)
  <2>1. Cancel(Ret) /\ asked' = IF _M_fCompleted[Ret] THEN asked ELSE asked \cup {Ret}
    BY <1>1 DEF cancel
  <2>2. \A i \in Inputs : Kept(In(i))
    BY <1>t, <2>1, CanceledOutcome, TaskFacts
  <2>3. after = given
    BY <2>2 DEF Kept
  <2>4. CASE _M_fCompleted[Ret]
    <3>1. Kept(Ret)
      BY <1>t, <2>1, <2>4, CanceledOutcome DEF Becomes, Outcome, Settled
    <3>2. asked' = asked
      BY <2>1, <2>4
    <3>3. UNCHANGED <<needs, given, Outcome(Ret), Ret \in asked>>
      BY <1>0, <2>3, <3>1, <3>2 DEF Kept, Ret
    <3> QED BY <3>3 DEF Combined!vars
  <2>5. CASE ~_M_fCompleted[Ret]
    <3>1. Outcome(Ret) # "completed"
      BY <1>t, <2>5, OutcomeFacts
    <3>2. OutcomeAfter(Ret) = "canceled"
      BY <1>t, <2>1, <2>5 DEF Cancel, OutcomeAfter, TypeInv
    <3>3. (Ret \in asked)' = TRUE
      BY <2>1, <2>5 DEF Ret
    <3>4. Combined!Ask
      BY <1>0, <2>3, <3>1, <3>2, <3>3 DEF Combined!Ask
    <3> QED BY <3>4 DEF Combined!Next
  <2> QED BY <2>4, <2>5
<1>2. CASE ~cancel(Ret)
  <2>1. (Ret \in asked)' = (Ret \in asked)
    <3>1. \/ asked' = asked
          \/ \E t \in Tasks : t # Ret /\ asked' \in {asked, asked \cup {t}}
      BY <1>2, AnswerChanges DEF cancel, wait
    <3> QED BY <3>1 DEF Ret
  <2>2. CASE AllKept
    <3>1. after = given /\ OutcomeAfter(Ret) = Outcome(Ret)
      BY <2>2 DEF AllKept, Kept
    <3>2. UNCHANGED <<needs, given, Outcome(Ret), Ret \in asked>>
      BY <1>0, <2>1, <3>1
    <3> QED BY <3>2 DEF Combined!vars
  <2>3. CASE GivenSettles
    <3>1. PICK i \in Inputs : /\ Becomes(In(i), "completed") \/ Becomes(In(i), "canceled")
                              /\ Kept(Ret) /\ \A j \in Inputs \ {i} : Kept(In(j))
      BY <2>3 DEF GivenSettles
    <3>2. PICK o \in {"completed", "canceled"} : after = [given EXCEPT ![i] = o]
      BY <3>1 DEF Becomes, Kept
    <3>3. Combined!Settle(i)
      BY <1>0, <2>1, <3>1, <3>2 DEF Combined!Settle, Combined!Outcomes, Becomes, Kept
    <3> QED BY <3>3 DEF Combined!Next
  <2>4. CASE ReturnedSettled
    <3>1. after = given
      BY <2>4 DEF ReturnedSettled, Kept
    <3>2. Combined!Complete \/ Combined!CancelReturned
      BY <1>0, <2>1, <2>4, <3>1
         DEF ReturnedSettled, Becomes, Combined!Complete, Combined!CancelReturned, TotalKinds,
             ValueKinds
    <3> QED BY <3>2 DEF Combined!Next
  <2> QED BY <1>2, <2>2, <2>3, <2>4, OutcomeSteps
<1> QED BY <1>1, <1>2

LEMMA RefinedInit == ASSUME TasksInit PROVE Combined!Init
<1>1. \A t \in Tasks : Outcome(t) = "pending"
  BY DEF TasksInit, Outcome, Settled
<1>2. Ret \notin asked
  BY DEF TasksInit
<1> QED BY <1>1, <1>2, TaskFacts DEF Combined!Init

(* The returned task settles once, by the outcome of the given tasks.      *)
THEOREM AlwaysImplementsWhenSettled == TasksSpec => ImplementsWhenSettled
BY RefinedInit, RefinedNext, TasksInvariant, PTL
   DEF TasksSpec, ImplementsWhenSettled, Combined!Spec
=============================================================================

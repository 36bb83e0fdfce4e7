---------------------------- MODULE ActiveProofs ----------------------------
(***************************************************************************)
(* Proofs about Active for any set of callbacks and any number of sends,   *)
(* and about Futures, which extends it, for any sets of jobs.              *)
(***************************************************************************)
EXTENDS Futures, SequenceTheorems, FiniteSetTheorems, TLAPS

-----------------------------------------------------------------------------
(* The active object.                                                      *)

(* The state has the values TypeOK gives it; in particular run never calls *)
(* a callback it has not popped.                                           *)
THEOREM TypeCorrect == Spec => []TypeOK
<1>1. Init => TypeOK
  <2>1. <<>> \in Seq(Callbacks)
    BY EmptySeq
  <2> QED BY <2>1 DEF Init, TypeOK, Queue!Init
<1>2. TypeOK /\ (pc = "call" => func \in Callbacks) /\ [Next]_vars => TypeOK'
  <2> SUFFICES ASSUME TypeOK, pc = "call" => func \in Callbacks, [Next]_vars
               PROVE  TypeOK'
    OBVIOUS
  <2> USE DEF TypeOK, Callbacks, Queue!Put, Queue!Take
  <2>send. ASSUME NEW j \in Jobs, Send(j) PROVE TypeOK'
    BY <2>send DEF Send
  <2>test. CASE TestDone
    BY <2>test DEF TestDone
  <2>pop. CASE Pop
    BY <2>pop, HeadTailProperties DEF Pop
  <2>call. CASE Call
    BY <2>call DEF Call
  <2>quit. CASE SendQuit
    BY <2>quit DEF SendQuit
  <2>lose. CASE LoseQuit
    BY <2>lose DEF LoseQuit
  <2>join. CASE Join
    BY <2>join DEF Join
  <2>stutter. CASE UNCHANGED vars
    BY <2>stutter DEF vars
  <2> QED BY <2>send, <2>test, <2>pop, <2>call, <2>quit, <2>lose, <2>join, <2>stutter DEF Next, Run
<1>3. Init => (pc = "call" => func \in Callbacks)
  BY DEF Init
<1>4. /\ TypeOK /\ (pc = "call" => func \in Callbacks) /\ [Next]_vars
      => (pc = "call" => func \in Callbacks)'
  <2> SUFFICES ASSUME TypeOK, pc = "call" => func \in Callbacks, [Next]_vars
               PROVE  (pc = "call" => func \in Callbacks)'
    OBVIOUS
  <2>1. CASE Pop
    BY <2>1, HeadTailProperties DEF Pop, Queue!Take, TypeOK
  <2>2. CASE UNCHANGED <<pc, func>>
    BY <2>2
  <2>3. CASE pc' # "call"
    BY <2>3
  <2> QED
    BY <2>1, <2>2, <2>3
    DEF Next, Run, Send, TestDone, Call, SendQuit, LoseQuit, Join, vars
<1> QED BY <1>1, <1>2, <1>3, <1>4, PTL DEF Spec

-----------------------------------------------------------------------------
(* The inductive invariant.  Where the thread is decides what it may know  *)
(* of the quit token ...                                                   *)
Control == /\ pc = "call" => func \in Callbacks
           /\ pc \in {"pop", "call"} => ~done_
           /\ pc = "exited" => done_
           /\ life = "joined" => pc = "exited"

(* ... the token is the last callback that ran, and done_ says it did ...  *)
QuitLast == /\ done_ => Len(ran) > 0
            /\ \A i \in 1..Len(ran) : ran[i] = Quit <=> (done_ /\ i = Len(ran))

(* ... and the callbacks sent are, position by position, those that ran,   *)
(* the one in hand, and those queued.                                      *)
Held == IF pc = "call" THEN 1 ELSE 0
RanFirst == /\ Len(ran) <= Len(sent)
            /\ \A i \in 1..Len(ran) : ran[i] = sent[i]
RestQueued ==
    life # "joined" =>
        /\ Len(sent) = Len(ran) + Held + Len(mq_)
        /\ pc = "call" => sent[Len(ran) + 1] = func
        /\ \A i \in 1..Len(mq_) : mq_[i] = sent[Len(ran) + Held + i]

IInv == Control /\ QuitLast /\ RanFirst /\ RestQueued

LEMMA IInvInit == Init => IInv
BY DEF Init, IInv, Control, QuitLast, RanFirst, RestQueued, Held, Queue!Init

LEMMA IInvNext == TypeOK /\ TypeOK' /\ IInv /\ [Next]_vars => IInv'
<1> SUFFICES ASSUME TypeOK, TypeOK', IInv, [Next]_vars PROVE IInv'
  OBVIOUS
<1>0. Len(sent) \in Nat /\ Len(ran) \in Nat /\ Len(mq_) \in Nat
  BY LenProperties DEF TypeOK
<1>1. ASSUME NEW j \in Callbacks, Queue!Put(j), sent' = Append(sent, j),
             UNCHANGED <<done_, pc, func, ran>>,
             life # "joined", life' # "joined"
      PROVE  IInv'
  <2>1. /\ Len(sent') = Len(sent) + 1
        /\ \A i \in 1..Len(sent) : sent'[i] = sent[i]
        /\ sent'[Len(sent) + 1] = j
    BY <1>1, AppendProperties DEF TypeOK
  <2>2. /\ Len(mq_') = Len(mq_) + 1
        /\ \A i \in 1..Len(mq_) : mq_'[i] = mq_[i]
        /\ mq_'[Len(mq_) + 1] = j
    BY <1>1, AppendProperties DEF TypeOK, Queue!Put
  <2>3. Control' /\ QuitLast'
    BY <1>1 DEF IInv, Control, QuitLast
  <2>4. RanFirst'
    BY <1>0, <1>1, <2>1 DEF IInv, RanFirst
  <2>5. RestQueued'
    <3>1. Held' = Held /\ Held \in {0, 1} /\ (pc = "call" => Held = 1)
      BY <1>1 DEF Held
    <3>2. Len(sent') = Len(ran') + Held' + Len(mq_')
      BY <1>0, <1>1, <2>1, <2>2, <3>1 DEF IInv, RestQueued
    <3>3. pc' = "call" => sent'[Len(ran') + 1] = func'
      BY <1>0, <1>1, <2>1, <3>1 DEF IInv, RestQueued
    <3>4. ASSUME NEW i \in 1..Len(mq_') PROVE mq_'[i] = sent'[Len(ran') + Held' + i]
      <4>1. CASE i \in 1..Len(mq_)
        <5>1. mq_'[i] = sent[Len(ran) + Held + i]
          BY <1>1, <2>2, <4>1 DEF IInv, RestQueued
        <5>2. Len(ran) + Held + i \in 1..Len(sent)
          BY <1>0, <1>1, <3>1, <4>1 DEF IInv, RestQueued
        <5> QED BY <1>1, <2>1, <3>1, <5>1, <5>2
      <4>2. CASE i = Len(mq_) + 1
        BY <1>0, <1>1, <2>1, <2>2, <3>1, <4>2 DEF IInv, RestQueued
      <4> QED BY <1>0, <2>2, <4>1, <4>2
    <3> QED BY <3>2, <3>3, <3>4 DEF RestQueued
  <2> QED BY <2>3, <2>4, <2>5 DEF IInv
<1>2. ASSUME NEW j \in Jobs, Send(j) PROVE IInv'
  BY <1>1, <1>2 DEF Send, Callbacks
<1>3. CASE SendQuit
  BY <1>1, <1>3 DEF SendQuit, Callbacks
<1>4. CASE TestDone
  BY <1>4 DEF TestDone, TypeOK, IInv, Control, QuitLast, RanFirst, RestQueued, Held
<1>5. CASE Pop
  <2>1. /\ pc = "pop" /\ pc' = "call" /\ func' = Head(mq_) /\ mq_' = Tail(mq_)
        /\ mq_ # <<>>
        /\ UNCHANGED <<done_, life, sent, ran>>
    BY <1>5 DEF Pop, Queue!Take
  <2>2. /\ func' \in Callbacks
        /\ Len(mq_') = Len(mq_) - 1 /\ Len(mq_) >= 1
        /\ \A i \in 1..Len(mq_') : mq_'[i] = mq_[i + 1]
        /\ func' = mq_[1]
    BY <2>1, <1>0, HeadTailProperties, EmptySeq DEF TypeOK
  <2>3. Control' /\ QuitLast' /\ RanFirst'
    BY <2>1, <2>2 DEF IInv, Control, QuitLast, RanFirst, TypeOK
  <2>4. RestQueued'
    <3>1. Held = 0 /\ Held' = 1
      BY <2>1 DEF Held
    <3>2. life # "joined"
      BY <2>1 DEF IInv, Control
    <3>3. Len(sent') = Len(ran') + Held' + Len(mq_')
      BY <1>0, <2>1, <2>2, <3>1, <3>2 DEF IInv, RestQueued
    <3>4. sent'[Len(ran') + 1] = func'
      BY <1>0, <2>1, <2>2, <3>1, <3>2 DEF IInv, RestQueued
    <3>5. ASSUME NEW i \in 1..Len(mq_') PROVE mq_'[i] = sent'[Len(ran') + Held' + i]
      <4>1. i + 1 \in 1..Len(mq_) /\ Len(ran) + 0 + (i + 1) = Len(ran) + 1 + i
        BY <1>0, <2>2
      <4> QED BY <1>0, <2>1, <2>2, <3>1, <3>2, <4>1 DEF IInv, RestQueued
    <3> QED BY <3>3, <3>4, <3>5 DEF RestQueued
  <2> QED BY <2>3, <2>4 DEF IInv
<1>6. CASE Call
  <2>1. /\ pc = "call" /\ pc' = "test" /\ ran' = Append(ran, func)
        /\ done_' = (func = Quit) /\ ~done_
        /\ UNCHANGED <<mq_, life, sent>>
    BY <1>6 DEF Call, IInv, Control, TypeOK
  <2>2. /\ Len(ran') = Len(ran) + 1
        /\ \A i \in 1..Len(ran) : ran'[i] = ran[i]
        /\ ran'[Len(ran) + 1] = func
    BY <2>1, AppendProperties DEF TypeOK, IInv, Control
  <2>3. life # "joined" /\ Held = 1 /\ Held' = 0
    BY <2>1 DEF IInv, Control, Held
  <2>4. Control'
    BY <2>1, <2>3 DEF IInv, Control
  <2>5. QuitLast'
    <3>1. Len(ran') > 0
      BY <1>0, <2>2
    <3>2. ASSUME NEW i \in 1..Len(ran')
          PROVE  ran'[i] = Quit <=> (done_' /\ i = Len(ran'))
      <4>1. CASE i \in 1..Len(ran)
        BY <1>0, <2>1, <2>2, <4>1 DEF IInv, QuitLast
      <4>2. CASE i = Len(ran) + 1
        BY <1>0, <2>1, <2>2, <4>2
      <4> QED BY <1>0, <2>2, <4>1, <4>2
    <3> QED BY <3>1, <3>2 DEF QuitLast
  <2>6. RanFirst'
    <3>1. Len(ran) + 1 <= Len(sent) /\ sent[Len(ran) + 1] = func
      BY <1>0, <2>1, <2>3 DEF IInv, RestQueued
    <3>2. ASSUME NEW i \in 1..Len(ran') PROVE ran'[i] = sent'[i]
      <4>1. CASE i \in 1..Len(ran)
        BY <2>1, <2>2, <4>1 DEF IInv, RanFirst
      <4>2. CASE i = Len(ran) + 1
        BY <2>1, <2>2, <3>1, <4>2
      <4> QED BY <1>0, <2>2, <4>1, <4>2
    <3> QED BY <1>0, <2>1, <2>2, <3>1, <3>2 DEF RanFirst
  <2>7. RestQueued'
    <3>1. Len(sent') = Len(ran') + Held' + Len(mq_')
      BY <1>0, <2>1, <2>2, <2>3 DEF IInv, RestQueued
    <3>2. ASSUME NEW i \in 1..Len(mq_') PROVE mq_'[i] = sent'[Len(ran') + Held' + i]
      <4>1. i \in 1..Len(mq_) /\ Len(ran') + 0 + i = Len(ran) + 1 + i
        BY <1>0, <2>1, <2>2
      <4> QED BY <2>1, <2>3, <4>1 DEF IInv, RestQueued
    <3> QED BY <2>1, <3>1, <3>2 DEF RestQueued
  <2> QED BY <2>4, <2>5, <2>6, <2>7 DEF IInv
<1>7. CASE Join
  BY <1>7 DEF Join, IInv, Control, QuitLast, RanFirst, RestQueued
<1>8. CASE LoseQuit \/ UNCHANGED vars
  BY <1>8 DEF LoseQuit, vars, IInv, Control, QuitLast, RanFirst, RestQueued, Held
<1> QED BY <1>2, <1>3, <1>4, <1>5, <1>6, <1>7, <1>8 DEF Next, Run

LEMMA IInvAlways == Spec => [](TypeOK /\ IInv)
BY IInvInit, IInvNext, TypeCorrect, PTL DEF Spec

-----------------------------------------------------------------------------
(* No callback is lost, repeated or overtaken, however many threads send   *)
(* and however their sends interleave with the background thread.          *)
THEOREM NothingEverLost == Spec => []NothingLost
<1>1. TypeOK /\ IInv => NothingLost
  <2> SUFFICES ASSUME TypeOK, IInv, life # "joined"
               PROVE  ran \o InHand \o mq_ = sent
    BY DEF NothingLost
  <2>lens. Len(sent) \in Nat /\ Len(ran) \in Nat /\ Len(mq_) \in Nat
    BY LenProperties DEF TypeOK
  <2>hand. /\ InHand \in Seq(Callbacks)
           /\ Len(InHand) = Held /\ Held \in {0, 1}
           /\ Held = 1 => pc = "call" /\ InHand[1] = func
    BY DEF InHand, Held, IInv, Control
  <2> DEFINE front == ran \o InHand
  <2>ahead. /\ front \in Seq(Callbacks)
            /\ Len(front) = Len(ran) + Held
            /\ \A i \in 1..Len(ran) + Held :
                 front[i] = IF i <= Len(ran) THEN ran[i] ELSE InHand[i - Len(ran)]
    BY <2>hand, ConcatProperties DEF TypeOK
  <2>whole. /\ front \o mq_ \in Seq(Callbacks)
            /\ Len(front \o mq_) = Len(front) + Len(mq_)
            /\ \A i \in 1..Len(front) + Len(mq_) :
                 (front \o mq_)[i] = IF i <= Len(front) THEN front[i]
                                     ELSE mq_[i - Len(front)]
    <3> HIDE DEF front
    <3> QED BY <2>ahead, ConcatProperties DEF TypeOK
  <2> HIDE DEF front
  <2>length. Len(front \o mq_) = Len(sent)
    BY <2>lens, <2>hand, <2>ahead, <2>whole DEF IInv, RestQueued
  <2>elements. ASSUME NEW i \in 1..Len(sent) PROVE (front \o mq_)[i] = sent[i]
    <3>0. i \in 1..Len(front) + Len(mq_) /\ i \in Nat
      BY <2>lens, <2>whole, <2>length
    <3>1. CASE i <= Len(ran)
      <4>1. i \in 1..Len(ran) /\ i \in 1..Len(ran) + Held /\ i <= Len(front)
        BY <2>lens, <2>hand, <2>ahead, <3>1
      <4>2. front[i] = ran[i]
        BY <2>ahead, <3>1, <4>1
      <4>3. ran[i] = sent[i]
        BY <4>1 DEF IInv, RanFirst
      <4> QED BY <2>whole, <3>0, <4>1, <4>2, <4>3
    <3>2. CASE i > Len(ran) /\ i <= Len(ran) + Held
      <4>1. Held = 1 /\ i = Len(ran) + 1
        BY <2>lens, <2>hand, <3>2
      <4>2. front[i] = func
        BY <2>lens, <2>hand, <2>ahead, <4>1
      <4> QED BY <2>lens, <2>hand, <2>ahead, <2>whole, <2>length, <4>1, <4>2 DEF IInv, RestQueued
    <3>3. CASE i > Len(ran) + Held
      <4>1. (front \o mq_)[i] = mq_[i - Len(front)]
        BY <2>lens, <2>hand, <2>ahead, <2>whole, <2>length, <3>3
      <4>2. i - Len(front) \in 1..Len(mq_)
        BY <2>lens, <2>hand, <2>ahead, <2>whole, <2>length, <3>3
      <4>3. mq_[i - Len(front)] = sent[Len(ran) + Held + (i - Len(front))]
        BY <4>2 DEF IInv, RestQueued
      <4> QED BY <2>lens, <2>hand, <2>ahead, <4>1, <4>3
    <3>4. i <= Len(ran) \/ (i > Len(ran) /\ i <= Len(ran) + Held)
                        \/ i > Len(ran) + Held
      BY <2>lens, <2>hand, <3>0
    <3> QED BY <3>1, <3>2, <3>3, <3>4
  <2>equal. front \o mq_ = sent
    BY <2>whole, <2>length, <2>elements, SeqEqual DEF TypeOK
  <2> QED BY <2>equal DEF front
<1> QED BY <1>1, IInvAlways, PTL

(* When ~Active has joined the thread, the callbacks sent before the quit  *)
(* token ran, each once and in order, and none sent after it.              *)
THEOREM AlwaysFlushedAtJoin == Spec => []FlushedAtJoin
<1>1. TypeOK /\ IInv => FlushedAtJoin
  <2> SUFFICES ASSUME TypeOK, IInv, life = "joined"
               PROVE  \E n \in 1..Len(sent) :
                        /\ sent[n] = Quit
                        /\ \A i \in 1..(n-1) : sent[i] # Quit
                        /\ ran = SubSeq(sent, 1, n)
    BY DEF FlushedAtJoin
  <2> DEFINE n == Len(ran)
  <2>0. Len(sent) \in Nat /\ n \in Nat
    BY LenProperties DEF TypeOK
  <2>1. done_ /\ n > 0
    BY DEF IInv, Control, QuitLast
  <2>2. n \in 1..Len(sent)
    BY <2>0, <2>1 DEF IInv, RanFirst
  <2>3. sent[n] = Quit
    BY <2>0, <2>1, <2>2 DEF IInv, QuitLast, RanFirst
  <2>4. \A i \in 1..(n-1) : sent[i] # Quit
    BY <2>0, <2>1, <2>2 DEF IInv, QuitLast, RanFirst
  <2>5. ran = SubSeq(sent, 1, n)
    <3>1. \A i \in 1..n : sent[i] \in Callbacks
      BY <2>0, <2>2, ElementOfSeq DEF TypeOK
    <3>2. /\ SubSeq(sent, 1, n) \in Seq(Callbacks)
          /\ Len(SubSeq(sent, 1, n)) = n
          /\ \A i \in 1..n : SubSeq(sent, 1, n)[i] = sent[i]
      BY <2>0, <2>2, <3>1, SubSeqProperties
    <3> QED BY <3>2, SeqEqual DEF TypeOK, IInv, RanFirst
  <2> QED BY <2>2, <2>3, <2>4, <2>5
<1> QED BY <1>1, IInvAlways, PTL

(* An active object is a serial executor: what it runs next is the oldest  *)
(* callback accepted and not yet run, and it runs nothing after the token. *)
THEOREM ImplementsExecutorSafety == Spec => Executor!Spec
<1>1. Init => Executor!Init
  BY DEF Init, Executor!Init
<1>2. TypeOK /\ IInv /\ [Next]_vars
        => [Executor!Accept \/ Executor!Execute]_<<sent, ran>>
  <2> SUFFICES ASSUME TypeOK, IInv, [Next]_vars
               PROVE  [Executor!Accept \/ Executor!Execute]_<<sent, ran>>
    OBVIOUS
  <2>send. ASSUME NEW j \in Jobs, Send(j) PROVE Executor!Accept
    BY <2>send DEF Send, Executor!Accept
  <2>quit. CASE SendQuit
    BY <2>quit DEF SendQuit, Executor!Accept
  <2>call. CASE Call
    <3>0. Len(sent) \in Nat /\ Len(ran) \in Nat /\ Len(mq_) \in Nat
      BY LenProperties DEF TypeOK
    <3>1. pc = "call" /\ ~done_ /\ life # "joined" /\ Held = 1
      BY <2>call DEF Call, IInv, Control, Held
    <3>2. ~Executor!Stopped
      BY <3>1 DEF IInv, QuitLast, Executor!Stopped
    <3>3. Len(ran) < Len(sent) /\ sent[Len(ran) + 1] = func
      BY <3>0, <3>1 DEF IInv, RestQueued
    <3> QED BY <2>call, <3>2, <3>3 DEF Call, Executor!Execute
  <2>others. CASE UNCHANGED <<sent, ran>>
    BY <2>others
  <2> QED
    BY <2>send, <2>quit, <2>call, <2>others DEF Next, Run, TestDone, Pop, LoseQuit, Join, vars
<1> QED BY <1>1, <1>2, IInvAlways, PTL DEF Spec, Executor!Spec

-----------------------------------------------------------------------------
(* The futures.  Every step of the worker and its clients is one of        *)
(* Active, or none: so what is proved of Active holds of it.               *)
THEOREM RefinesActive == FuturesSpec => Spec
<1>1. FuturesInit => Init
  BY DEF FuturesInit
<1>2. [FuturesNext]_futuresVars => [Next]_vars
  <2> SUFFICES ASSUME FuturesNext PROVE [Next]_vars
    BY DEF futuresVars
  <2>0. PackagedTasks \subseteq Jobs /\ Plain \subseteq Jobs
    BY KindsAssumption DEF PackagedTasks
  <2>1. ASSUME NEW j \in PackagedTasks, spawn_task(j) PROVE [Next]_vars
    BY <2>0, <2>1 DEF spawn_task, Next
  <2>2. ASSUME NEW j \in PackagedTasks, ClientCalls(j) PROVE [Next]_vars
    BY <2>1, <2>2 DEF ClientCalls
  <2>3. ASSUME NEW j \in PackagedTasks, JobCalls(j) PROVE [Next]_vars
    BY <2>1, <2>3 DEF JobCalls
  <2>4. ASSUME NEW j \in Plain, ClientSaves(j) PROVE [Next]_vars
    BY <2>0, <2>4 DEF ClientSaves, Next
  <2>5. CASE RunTasks
    BY <2>3, <2>5 DEF RunTasks, JobReturns, Next, Run
  <2>6. CASE ResetPimpl \/ ResetBg
    BY <2>6 DEF ResetPimpl, ResetBg
  <2>7. CASE DestroyActive
    BY <2>7 DEF DestroyActive, Next
  <2> QED BY <2>2, <2>3, <2>4, <2>5, <2>6, <2>7 DEF FuturesNext
<1> QED BY <1>1, <1>2, PTL DEF FuturesSpec, Spec

(* ~AsyncLogWorker flushes the queue: when it has joined the thread, the   *)
(* jobs sent before its quit token have run, each once and in order,       *)
(* packaged_tasks among them, and none behind it.                          *)
THEOREM WorkerFlushesAtJoin == FuturesSpec => []FlushedAtJoin
BY RefinesActive, AlwaysFlushedAtJoin, PTL

-----------------------------------------------------------------------------
(* The inductive invariant.  A packaged_task is sent once at most, and     *)
(* what its future is follows from where it is in sent, together with      *)
(* IInv, which says how much of that ran.                                  *)
SentAt(j) == {i \in 1..Len(sent) : sent[i] = j}

FuturesTypeOK == /\ future \in [PackagedTasks -> {"none", "pending", "value",
                                                 "exception", "broken"}]
                 /\ calling = NoCalling \/ calling.job \in PackagedTasks
                 /\ pc # "call" => func = NoJob
                 /\ life = "joined" => mq_ = <<>>

SentOnce == \A j \in PackagedTasks : \A i, k \in SentAt(j) : i = k

NotYetSent == \A j \in PackagedTasks : /\ future[j] = "none" => SentAt(j) = {}
                                       /\ calling.job = j => future[j] = "none"

HasRun(j) == \E i \in SentAt(j) : i <= Len(ran)
Awaited(j) == life # "joined" /\ \E i \in SentAt(j) : i > Len(ran)

Answered == \A j \in PackagedTasks : /\ future[j] \in {"value", "exception"} <=> HasRun(j)
                                     /\ future[j] = "pending" <=> Awaited(j)

FInv == FuturesTypeOK /\ SentOnce /\ NotYetSent /\ Answered

LEMMA FInvInit == FuturesInit => FInv
BY KindsAssumption, JobsAssumption
DEF FuturesInit, Init, FInv, FuturesTypeOK, SentOnce, NotYetSent, Answered, SentAt,
    HasRun, Awaited, NoCalling, PackagedTasks

(* A job goes behind the others, and nothing else is sent.                 *)
LEMMA SentAtAfterSend ==
    ASSUME TypeOK, NEW x \in Callbacks, sent' = Append(sent, x)
    PROVE  \A j : SentAt(j)' = IF j = x THEN SentAt(j) \cup {Len(sent) + 1} ELSE SentAt(j)
<1>1. Len(sent) \in Nat
  BY LenProperties DEF TypeOK
<1>2. /\ Len(sent') = Len(sent) + 1
      /\ \A i \in 1..Len(sent) : sent'[i] = sent[i]
      /\ sent'[Len(sent) + 1] = x
  BY AppendProperties DEF TypeOK
<1>3. 1..Len(sent') = 1..Len(sent) \cup {Len(sent) + 1}
  BY <1>1, <1>2
<1> QED BY <1>1, <1>2, <1>3 DEF SentAt

(* What waits is what is queued or in hand.                                *)
LEMMA AwaitedIsHeld ==
    ASSUME TypeOK, IInv, FuturesTypeOK, NEW j \in PackagedTasks
    PROVE  Awaited(j) <=> j \in ToSet(mq_) \cup {func}
<1>0. /\ Len(sent) \in Nat /\ Len(ran) \in Nat /\ Len(mq_) \in Nat
      /\ Held \in {0, 1} /\ DOMAIN mq_ = 1..Len(mq_)
  BY LenProperties DEF TypeOK, Held
<1>1. j # NoJob
  BY JobsAssumption DEF PackagedTasks, Callbacks
<1>2. CASE life = "joined"
  BY <1>1, <1>2 DEF IInv, Control, FuturesTypeOK, Awaited, RestQueued, ToSet
<1>3. CASE life # "joined"
  <2>1. ASSUME NEW i \in 1..Len(sent), sent[i] = j, i > Len(ran)
        PROVE  j \in ToSet(mq_) \cup {func}
    <3>1. CASE Held = 1 /\ i = Len(ran) + 1
      BY <1>3, <2>1, <3>1 DEF IInv, RestQueued, Held
    <3>2. CASE ~(Held = 1 /\ i = Len(ran) + 1)
      <4> DEFINE n == i - Len(ran) - Held
      <4>1. n \in 1..Len(mq_) /\ Len(ran) + Held + n = i
        BY <1>0, <1>3, <2>1, <3>2 DEF IInv, RestQueued
      <4>2. mq_[n] = j
        BY <1>3, <2>1, <4>1 DEF IInv, RestQueued
      <4> QED BY <1>0, <4>1, <4>2 DEF ToSet
    <3> QED BY <3>1, <3>2
  <2>2. ASSUME j = func PROVE Awaited(j)
    <3>1. pc = "call" /\ Held = 1
      BY <1>1, <2>2 DEF FuturesTypeOK, Held
    <3>2. Len(ran) + 1 \in 1..Len(sent) /\ sent[Len(ran) + 1] = j
      BY <1>0, <1>3, <2>2, <3>1 DEF IInv, RestQueued
    <3> QED BY <1>0, <1>3, <3>2 DEF Awaited, SentAt
  <2>3. ASSUME NEW n \in 1..Len(mq_), mq_[n] = j PROVE Awaited(j)
    <3>1. /\ Len(ran) + Held + n \in 1..Len(sent)
          /\ sent[Len(ran) + Held + n] = j
          /\ Len(ran) + Held + n > Len(ran)
      BY <1>0, <1>3, <2>3 DEF IInv, RestQueued
    <3> QED BY <1>3, <3>1 DEF Awaited, SentAt
  <2> QED BY <1>0, <1>3, <2>1, <2>2, <2>3 DEF Awaited, SentAt, ToSet
<1> QED BY <1>2, <1>3

LEMMA FInvNext ==
    ASSUME TypeOK, TypeOK', IInv, FInv, [FuturesNext]_futuresVars
    PROVE  FInv'
<1>0. /\ Len(sent) \in Nat /\ Len(ran) \in Nat
      /\ PackagedTasks \subseteq Jobs /\ Plain \subseteq Jobs
      /\ Plain \cap PackagedTasks = {}
      /\ Quit \notin PackagedTasks /\ NoJob \notin PackagedTasks
  BY LenProperties, KindsAssumption, JobsAssumption
  DEF TypeOK, PackagedTasks, Callbacks
<1>ran. Len(ran) <= Len(sent)
  BY DEF IInv, RanFirst

(* A job without a packaged_task is sent, or the quit token.               *)
<1>1. ASSUME NEW x \in Callbacks \ PackagedTasks,
             sent' = Append(sent, x), life # "joined", life' # "joined",
             UNCHANGED <<future, calling, pc, func, ran>>
      PROVE  FInv'
  <2>1. \A j \in PackagedTasks : SentAt(j)' = SentAt(j)
    BY <1>1, SentAtAfterSend
  <2> QED BY <1>1, <2>1 DEF FInv, FuturesTypeOK, SentOnce, NotYetSent, Answered,
                            HasRun, Awaited

(* A packaged_task is sent.                                                *)
<1>2. ASSUME NEW x \in PackagedTasks, Send(x), future[x] = "none",
             future' = [future EXCEPT ![x] = "pending"],
             \/ calling' = calling /\ calling.job # x
             \/ calling' = NoCalling
      PROVE  FInv'
  <2>0. /\ sent' = Append(sent, x) /\ life # "joined"
        /\ UNCHANGED <<pc, func, ran, life>>
    BY <1>2 DEF Send
  <2>1. /\ SentAt(x)' = {Len(sent) + 1}
        /\ \A j \in PackagedTasks \ {x} : SentAt(j)' = SentAt(j)
    <3>1. SentAt(x) = {}
      BY <1>2 DEF FInv, NotYetSent
    <3>2. x \in Callbacks
      BY <1>0 DEF Callbacks
    <3> QED BY <2>0, <3>1, <3>2, SentAtAfterSend
  <2>2. /\ future'[x] = "pending"
        /\ \A j \in PackagedTasks \ {x} : future'[j] = future[j]
    BY <1>2 DEF FInv, FuturesTypeOK
  <2>3. FuturesTypeOK'
    BY <1>2, <2>0 DEF FInv, FuturesTypeOK
  <2>4. SentOnce'
    BY <2>1 DEF FInv, SentOnce
  <2>5. NotYetSent'
    <3>1. \A j \in PackagedTasks : calling'.job = j => calling.job = j /\ j # x
      BY <1>0, <1>2 DEF NoCalling
    <3> QED BY <2>1, <2>2, <3>1 DEF FInv, NotYetSent
  <2>6. Answered'
    <3>1. Awaited(x)' /\ ~HasRun(x)'
      BY <1>0, <1>ran, <2>0, <2>1 DEF Awaited, HasRun
    <3>2. \A j \in PackagedTasks \ {x} : Awaited(j)' = Awaited(j) /\ HasRun(j)' = HasRun(j)
      BY <2>0, <2>1 DEF Awaited, HasRun
    <3> QED BY <2>2, <3>1, <3>2 DEF FInv, Answered
  <2> QED BY <2>3, <2>4, <2>5, <2>6 DEF FInv

(* A packaged_task cannot be sent.                                         *)
<1>3. ASSUME NEW x \in PackagedTasks, future[x] = "none", future' = Broken({x}),
             UNCHANGED vars,
             \/ calling' = calling /\ calling.job # x
             \/ calling' = NoCalling
      PROVE  FInv'
  <2>0. \A j \in PackagedTasks : /\ SentAt(j)' = SentAt(j) /\ HasRun(j)' = HasRun(j)
                                 /\ Awaited(j)' = Awaited(j)
    BY <1>3 DEF vars, SentAt, HasRun, Awaited
  <2>1. /\ future'[x] = "broken"
        /\ \A j \in PackagedTasks \ {x} : future'[j] = future[j]
    BY <1>3 DEF Broken
  <2>type. FuturesTypeOK'
    <3>1. future' \in [PackagedTasks -> {"none", "pending", "value", "exception", "broken"}]
      BY <1>3 DEF FInv, FuturesTypeOK, Broken
    <3> QED BY <1>3, <3>1 DEF FInv, FuturesTypeOK, vars
  <2>once. SentOnce'
    BY <2>0 DEF FInv, SentOnce
  <2>notyet. NotYetSent'
    <3>1. \A j \in PackagedTasks : calling'.job = j => calling.job = j /\ j # x
      BY <1>0, <1>3 DEF NoCalling
    <3> QED BY <2>0, <2>1, <3>1 DEF FInv, NotYetSent
  <2>answered. Answered'
    BY <1>3, <2>0, <2>1 DEF FInv, Answered
  <2> QED BY <2>type, <2>once, <2>notyet, <2>answered DEF FInv

(* spawn_task, by a client or a job.                                       *)
<1>4. ASSUME NEW x \in PackagedTasks, spawn_task(x),
             \/ calling' = calling /\ calling.job # x
             \/ calling' = NoCalling
      PROVE  FInv'
  BY <1>2, <1>3, <1>4 DEF spawn_task

<1>5. ASSUME NEW j \in PackagedTasks, ClientCalls(j) PROVE FInv'
  BY <1>4, <1>5 DEF ClientCalls

<1>6. ASSUME NEW j \in PackagedTasks, JobCalls(j) PROVE FInv'
  <2>1. CASE /\ calling = NoCalling /\ future[j] = "none"
             /\ calling' = [place |-> "read", job |-> j]
             /\ UNCHANGED <<vars, future>>
    BY <1>0, <2>1 DEF FInv, FuturesTypeOK, SentOnce, NotYetSent, Answered, SentAt,
                 HasRun, Awaited, vars
  <2>2. CASE /\ calling = [place |-> "read", job |-> j]
             /\ calling' = [calling EXCEPT !.place = "send"]
             /\ UNCHANGED <<vars, future>>
    <3>1. calling'.job = calling.job
      BY <2>2
    <3> QED BY <2>2, <3>1 DEF FInv, FuturesTypeOK, SentOnce, NotYetSent, Answered,
                              SentAt, HasRun, Awaited, vars
  <2>3. CASE /\ calling = [place |-> "read", job |-> j]
             /\ calling' = NoCalling /\ future' = Broken({j})
             /\ UNCHANGED vars
    <3>1. future[j] = "none"
      BY <2>3 DEF FInv, NotYetSent
    <3> QED BY <1>3, <2>3, <3>1
  <2>4. CASE calling' = NoCalling /\ spawn_task(j)
    BY <1>4, <2>4
  <2> QED BY <1>6, <2>1, <2>2, <2>3, <2>4 DEF JobCalls

<1>7. ASSUME NEW j \in Plain, ClientSaves(j) PROVE FInv'
  <2>1. j \in Callbacks \ PackagedTasks
    BY <1>0 DEF Callbacks
  <2> QED BY <1>1, <1>7, <2>1 DEF ClientSaves, Send

(* The job in hand ends: it is the first that had not run.                 *)
<1>8. CASE JobReturns
  <2>1. /\ pc = "call" /\ ran' = Append(ran, func) /\ pc' = "test" /\ func' = NoJob
        /\ UNCHANGED <<sent, life, calling, mq_>>
        /\ life # "joined"
    BY <1>8 DEF JobReturns, Call, FInv, IInv, Control
  <2>2. /\ Len(ran') = Len(ran) + 1 /\ Len(ran) + 1 \in SentAt(func)
        /\ Len(ran) + 1 \in 1..Len(sent) /\ sent[Len(ran) + 1] = func
    <3>1. func \in Callbacks
      BY <2>1 DEF IInv, Control
    <3>2. Len(ran') = Len(ran) + 1
      BY <2>1, <3>1, AppendProperties DEF TypeOK
    <3>3. /\ Len(ran) + 1 \in 1..Len(sent) /\ sent[Len(ran) + 1] = func
      <4>1. Len(mq_) \in Nat
        BY LenProperties DEF TypeOK
      <4> QED BY <1>0, <2>1, <4>1 DEF IInv, RestQueued, Held
    <3> QED BY <3>2, <3>3 DEF SentAt
  <2>3. \A j : SentAt(j)' = SentAt(j)
    BY <2>1 DEF SentAt
  <2>4. ASSUME NEW j \in PackagedTasks, j # func
        PROVE  HasRun(j)' = HasRun(j) /\ Awaited(j)' = Awaited(j)
    <3>1. \A i \in SentAt(j) : i # Len(ran) + 1
      BY <2>2, <2>4 DEF SentAt
    <3>2. \A i \in SentAt(j) : i \in Nat
      BY DEF SentAt
    <3>3. \A i \in SentAt(j) : i <= Len(ran) + 1 <=> i <= Len(ran)
      BY <1>0, <3>1, <3>2
    <3>4. \A i \in SentAt(j) : i > Len(ran) + 1 <=> i > Len(ran)
      BY <1>0, <3>1, <3>2
    <3> QED BY <2>1, <2>2, <2>3, <3>3, <3>4 DEF HasRun, Awaited
  <2>5. func \in PackagedTasks => HasRun(func) = FALSE /\ Awaited(func)
    BY <1>0, <2>1, <2>2 DEF FInv, SentOnce, HasRun, Awaited
  <2>6. ASSUME func \in PackagedTasks
        PROVE  \E i \in SentAt(func) : i <= Len(ran')
    BY <1>0, <2>2
  <2>7. ASSUME func \in PackagedTasks
        PROVE  \A i \in SentAt(func) : ~(i > Len(ran'))
    BY <1>0, <2>2, <2>7 DEF FInv, SentOnce
  <2>8. CASE func \notin PackagedTasks /\ future' = future
    <3>1. Answered'
      BY <2>4, <2>8 DEF FInv, Answered
    <3>2. FuturesTypeOK'
      BY <2>1, <2>8 DEF FInv, FuturesTypeOK
    <3> QED BY <2>1, <2>3, <2>8, <3>1, <3>2 DEF FInv, SentOnce, NotYetSent
  <2>9. ASSUME func \in PackagedTasks, NEW outcome \in {"value", "exception"},
               future' = [future EXCEPT ![func] = outcome]
        PROVE  FInv'
    <3>1. /\ future'[func] = outcome
          /\ \A j \in PackagedTasks \ {func} : future'[j] = future[j]
      BY <2>9 DEF FInv, FuturesTypeOK
    <3>2. FuturesTypeOK'
      BY <2>1, <2>9 DEF FInv, FuturesTypeOK
    <3>3. SentOnce'
      BY <2>3 DEF FInv, SentOnce
    <3>4. NotYetSent'
      <4>1. future[func] = "pending"
        BY <2>5, <2>9 DEF FInv, Answered
      <4> QED BY <2>1, <2>3, <3>1, <4>1 DEF FInv, NotYetSent
    <3>5. ASSUME NEW j \in PackagedTasks
          PROVE  /\ future'[j] \in {"value", "exception"} <=> HasRun(j)'
                 /\ future'[j] = "pending" <=> Awaited(j)'
      <4>1. CASE j = func
        <5>1. HasRun(j)'
          BY <2>3, <2>6, <2>9, <4>1 DEF HasRun
        <5>2. ~Awaited(j)'
          BY <2>3, <2>7, <2>9, <4>1 DEF Awaited
        <5> QED BY <2>9, <3>1, <4>1, <5>1, <5>2
      <4>2. CASE j # func
        BY <2>4, <3>1, <4>2 DEF FInv, Answered
      <4> QED BY <4>1, <4>2
    <3> QED BY <3>2, <3>3, <3>4, <3>5 DEF FInv, Answered
  <2> QED BY <1>8, <2>8, <2>9 DEF JobReturns, Outcomes

<1>9. CASE /\ TestDone \/ Pop
           /\ UNCHANGED <<future, calling>>
  BY <1>9 DEF TestDone, Pop, Queue!Take, FInv, FuturesTypeOK, SentOnce, NotYetSent,
              Answered, SentAt, HasRun, Awaited, IInv, Control

<1>10. CASE UNCHANGED <<vars, future, calling>>
  BY <1>10 DEF FInv, FuturesTypeOK, SentOnce, NotYetSent, Answered, SentAt, HasRun,
               Awaited, vars

<1>11. CASE (SendQuit \/ LoseQuit) /\ UNCHANGED <<future, calling>>
  <2>sent. CASE SendQuit
    BY <1>0, <1>1, <1>11, <2>sent DEF SendQuit, Callbacks
  <2>lost. CASE LoseQuit
    BY <1>11, <2>lost DEF LoseQuit, FInv, FuturesTypeOK, SentOnce, NotYetSent, Answered,
                          SentAt, HasRun, Awaited
  <2> QED BY <1>11, <2>sent, <2>lost

(* The queue is destroyed, and with it what is behind the token.           *)
<1>12. CASE /\ Join /\ UNCHANGED calling
            /\ future' = Broken(ToSet(mq_) \cap PackagedTasks)
  <2>1. /\ life = "joining" /\ life' = "joined" /\ mq_' = <<>> /\ pc = "exited"
        /\ UNCHANGED <<pc, func, sent, ran>>
    BY <1>12 DEF Join
  <2>2. \A j : SentAt(j)' = SentAt(j)
    BY <2>1 DEF SentAt
  <2>3. \A j \in PackagedTasks : HasRun(j)' = HasRun(j) /\ ~Awaited(j)'
    BY <2>1, <2>2 DEF HasRun, Awaited
  <2>4. \A j \in PackagedTasks : j \in ToSet(mq_) <=> future[j] = "pending"
    <3>1. func = NoJob
      BY <2>1 DEF FInv, FuturesTypeOK
    <3> QED BY <1>0, <3>1, AwaitedIsHeld DEF FInv, Answered
  <2>5. \A j \in PackagedTasks :
            future'[j] = IF future[j] = "pending" THEN "broken" ELSE future[j]
    BY <1>12, <2>4 DEF Broken
  <2>6. FuturesTypeOK'
    <3>1. future' = [j \in PackagedTasks |-> future'[j]]
      BY <1>12 DEF Broken
    <3>2. \A j \in PackagedTasks :
              future'[j] \in {"none", "pending", "value", "exception", "broken"}
      BY <2>5 DEF FInv, FuturesTypeOK
    <3>3. future' \in [PackagedTasks -> {"none", "pending", "value", "exception", "broken"}]
      BY <3>1, <3>2
    <3> QED BY <1>12, <2>1, <3>3 DEF FInv, FuturesTypeOK
  <2>7. SentOnce' /\ NotYetSent'
    BY <1>12, <2>2, <2>5 DEF FInv, SentOnce, NotYetSent
  <2>8. Answered'
    BY <2>3, <2>5 DEF FInv, Answered
  <2> QED BY <2>6, <2>7, <2>8 DEF FInv

<1>13. CASE RunTasks
  BY <1>6, <1>8, <1>9, <1>13 DEF RunTasks
<1>14. CASE ResetPimpl \/ ResetBg
  BY <1>10, <1>14 DEF ResetPimpl, ResetBg
<1>15. CASE DestroyActive
  BY <1>11, <1>12, <1>15 DEF DestroyActive
<1>16. CASE UNCHANGED futuresVars
  BY <1>10, <1>16 DEF futuresVars
<1> QED BY <1>5, <1>6, <1>7, <1>13, <1>14, <1>15, <1>16 DEF FuturesNext

LEMMA FInvAlways == FuturesSpec => [](TypeOK /\ IInv /\ FInv)
<1>1. FuturesSpec => [](TypeOK /\ IInv)
  BY RefinesActive, IInvAlways, PTL
<1>2. (TypeOK /\ IInv) /\ (TypeOK /\ IInv)' /\ FInv /\ [FuturesNext]_futuresVars => FInv'
  BY FInvNext
<1> QED BY <1>1, <1>2, FInvInit, PTL DEF FuturesSpec

(* The answer of a future is true: whoever gets a value or an exception    *)
(* can rely on the job having run, once, and whoever gets a broken promise *)
(* on its never running, whatever is sent by whom and when the worker is   *)
(* destroyed.                                                              *)
THEOREM AnswersAlwaysTrue == FuturesSpec => []AnswersAreTrue
<1>1. TypeOK /\ IInv /\ FInv => AnswersAreTrue
  <2> SUFFICES ASSUME TypeOK, IInv, FInv, NEW j \in PackagedTasks
               PROVE  /\ Cardinality({i \in DOMAIN ran : ran[i] = j})
                            = IF future[j] \in {"value", "exception"} THEN 1 ELSE 0
                      /\ future[j] = "pending" <=> j \in ToSet(mq_) \cup {func}
    BY DEF AnswersAreTrue
  <2>0. Len(ran) \in Nat /\ Len(sent) \in Nat /\ DOMAIN ran = 1..Len(ran)
    BY LenProperties DEF TypeOK
  <2> DEFINE runs == {i \in DOMAIN ran : ran[i] = j}
  <2>1. runs = {i \in SentAt(j) : i <= Len(ran)}
    <3>1. ASSUME NEW i \in 1..Len(ran) PROVE i \in 1..Len(sent) /\ ran[i] = sent[i]
      BY <2>0 DEF IInv, RanFirst
    <3>2. ASSUME NEW i \in 1..Len(sent), i <= Len(ran) PROVE i \in 1..Len(ran)
      BY <2>0, <3>2
    <3> QED BY <2>0, <3>1, <3>2 DEF SentAt
  <2>2. CASE HasRun(j)
    <3>1. PICK i \in SentAt(j) : i <= Len(ran)
      BY <2>2 DEF HasRun
    <3>2. runs = {i}
      BY <2>1, <3>1 DEF FInv, SentOnce
    <3> QED BY <2>2, <3>2, FS_Singleton, AwaitedIsHeld DEF FInv, Answered
  <2>3. CASE ~HasRun(j)
    <3>1. runs = {}
      BY <2>1, <2>3 DEF HasRun
    <3> QED BY <2>3, <3>1, FS_EmptySet, AwaitedIsHeld DEF FInv, Answered
  <2> QED BY <2>2, <2>3
<1> QED BY <1>1, FInvAlways, PTL
=============================================================================

--------------------------- MODULE AsynclogProofs ---------------------------
(***************************************************************************)
(* Proofs about Asynclog for any number of clients, any number of calls    *)
(* and any set of ways of using the library.                               *)
(***************************************************************************)
EXTENDS Asynclog, SequenceTheorems, FiniteSetTheorems, TLAPS

(* What the types do not say: a client in a call has begun one, the client *)
(* that saves the first message has found one (or one being assigned), and *)
(* what the background thread has in hand while it calls.                  *)
ClientInv ==
    \A c \in Clients :
        /\ at[c] # "idle" => calls[c] >= 1
        /\ at[c] \in {"firsttest", "firstpush"} =>
              g_set_first_uninitialized_flag \/ g_first_unintialized_msg # NoMsg
FatalInHand == pc = "call" /\ func # Quit /\ func.kind = "fatal"
HandInv ==
    /\ pc = "call" => func \in Bg!Callbacks
    /\ closed => FatalInHand
TInv == TypeOK /\ ClientInv /\ HandInv

LEMMA UsageFacts ==
    ASSUME TypeOK
    PROVE  /\ usage.calls \in 0..MaxCalls
           /\ usage.loggers \subseteq {"worker", "other"}
           /\ usage.racing \subseteq {"init", "shutdown"}
           /\ MaxCalls \in Nat
BY UsageAssumption, ClientsAssumption DEF TypeOK, UsageType

LEMMA MsgFacts ==
    ASSUME TypeOK, ClientInv, NEW c \in Clients, at[c] # "idle"
    PROVE  /\ Msg(c) \in Msgs
           /\ Write(Msg(c)) \in Jobs
           /\ FatalJob(Msg(c)) \in Jobs
<1>1. calls[c] \in 0..usage.calls /\ calls[c] >= 1
  BY DEF TypeOK, ClientInv
<1>2. calls[c] \in 1..MaxCalls
  BY <1>1, UsageFacts
<1> QED BY <1>2 DEF Msg, Msgs, Write, FatalJob, Jobs

LEMMA FirstFacts ==
    ASSUME TypeOK, ClientInv, NEW c \in Clients, at[c] = "firstpush", ~BeingSet
    PROVE  Write(g_first_unintialized_msg) \in Jobs
<1>1. g_first_unintialized_msg \in Msgs
  BY DEF TypeOK, ClientInv, BeingSet
<1> QED BY <1>1 DEF Write, Jobs

-----------------------------------------------------------------------------
(* Every step is a step of the Active object or leaves it alone.           *)
LEMMA ChangeFacts ==
    ASSUME TypeOK, NEW c \in Clients, ChangeLogFile(c)
    PROVE  Change(<<c, calls[c] + 1>>) \in Jobs
<1>1. calls[c] \in 0..usage.calls /\ calls[c] < usage.calls
  BY DEF TypeOK, ChangeLogFile, Call
<1>2. calls[c] + 1 \in 1..MaxCalls
  BY <1>1, UsageFacts
<1> QED BY <1>2 DEF Msgs, Change, Jobs

LEMMA ActiveStep == TypeOK /\ ClientInv /\ [Next]_vars => [Bg!Next]_active
<1> SUFFICES ASSUME TypeOK, ClientInv, [Next]_vars PROVE [Bg!Next]_active
  OBVIOUS
<1>1. ASSUME NEW c \in Clients, SaveFirst(c) PROVE [Bg!Next]_active
  <2>1. CASE at[c] = "firsttest" /\ TestPimpl(c, "test", "firstpush")
    BY <2>1 DEF TestPimpl, active
  <2>2. CASE at[c] = "firstpush" /\ ~BeingSet
             /\ PushJob(c, Write(g_first_unintialized_msg), "test")
    BY <2>2, FirstFacts DEF PushJob, SendJob, Bg!Next
  <2> QED BY <1>1, <2>1, <2>2 DEF SaveFirst
<1>2. ASSUME NEW c \in Clients, Save(c) PROVE [Bg!Next]_active
  <2>1. CASE at[c] = "test" /\ TestPimpl(c, AfterSave(c), "push")
    BY <2>1 DEF TestPimpl, active
  <2>2. CASE at[c] = "push" /\ PushJob(c, Write(Msg(c)), AfterSave(c))
    BY <2>2, MsgFacts DEF PushJob, SendJob, Bg!Next
  <2> QED BY <1>2, <2>1, <2>2 DEF Save
<1>3. ASSUME NEW c \in Clients, FatalCall(c) PROVE [Bg!Next]_active
  <2>1. CASE at[c] = "fatalpush" /\ PushJob(c, FatalJob(Msg(c)), "fatalwait")
    BY <2>1, MsgFacts DEF PushJob, SendJob, Bg!Next
  <2> QED BY <1>3, <2>1 DEF FatalCall, TestPimpl, active
<1>4. CASE Background
  BY <1>4 DEF Background, RunLoop, BackgroundFileWrite, BackgroundChangeLogFile,
              FatalFlush, FatalShutDown, DoDone, Bg!Next, Bg!Run, active
<1>5. CASE BgReset
  BY <1>5 DEF BgReset, Bg!Next
<1>6. ASSUME NEW c \in Clients, NEW w \in usage.loggers, InitializeLogging(c, w)
      PROVE  [Bg!Next]_active
  BY <1>6 DEF InitializeLogging, active
<1>7. ASSUME NEW c \in Clients,
             \/ ShutDownLogging(c) \/ Log(c) \/ CheckInitialized(c) \/ SetFirst(c)
             \/ SaveFirstOnce(c) \/ FatalReturn(c) \/ EndProgram(c) \/ Swallow(c)
      PROVE  [Bg!Next]_active
  BY <1>7 DEF ShutDownLogging, Log, CheckInitialized, SetFirst, SaveFirstOnce,
              FatalReturn, EndProgram, Swallow, active
<1>8. CASE PimplReset \/ CompareActive \/ Retire
  BY <1>8 DEF PimplReset, CompareActive, Retire, active
<1>c. ASSUME NEW c \in Clients, ChangeLogFile(c) PROVE [Bg!Next]_active
  BY <1>c, ChangeFacts DEF ChangeLogFile, SendJob, Bg!Next
<1>9. CASE UNCHANGED vars
  BY <1>9 DEF vars, active
<1> QED BY <1>1, <1>2, <1>3, <1>4, <1>5, <1>6, <1>7, <1>8, <1>9, <1>c
        DEF Next, Logging, Destructor

-----------------------------------------------------------------------------
(* Types.  The part of the Active object follows from its own steps ...    *)
LEMMA ActiveTypeNext ==
    Bg!TypeOK /\ (pc = "call" => func \in Bg!Callbacks) /\ [Bg!Next]_active
        => Bg!TypeOK' /\ (pc = "call" => func \in Bg!Callbacks)'
<1> SUFFICES ASSUME Bg!TypeOK, pc = "call" => func \in Bg!Callbacks, [Bg!Next]_active
             PROVE  Bg!TypeOK' /\ (pc = "call" => func \in Bg!Callbacks)'
  OBVIOUS
<1> USE DEF Bg!TypeOK, Bg!Callbacks, Bg!Queue!Put, Bg!Queue!Take
<1>1. ASSUME NEW j \in Jobs, Bg!Send(j) PROVE Bg!TypeOK' /\ UNCHANGED <<pc, func>>
  BY <1>1 DEF Bg!Send
<1>2. CASE Bg!TestDone
  BY <1>2 DEF Bg!TestDone
<1>3. CASE Bg!Pop
  BY <1>3, HeadTailProperties DEF Bg!Pop
<1>4. CASE Bg!Call
  BY <1>4 DEF Bg!Call
<1>5. CASE Bg!SendQuit
  BY <1>5 DEF Bg!SendQuit
<1>6. CASE Bg!Join
  BY <1>6 DEF Bg!Join
<1>lost. CASE Bg!LoseQuit
  BY <1>lost DEF Bg!LoseQuit
<1>7. CASE UNCHANGED active
  BY <1>7 DEF active
<1> QED BY <1>1, <1>2, <1>3, <1>4, <1>5, <1>6, <1>7, <1>lost DEF Bg!Next, Bg!Run

(* ... and the rest from the steps of the clients, the background thread   *)
(* and the destructor.                                                     *)
OwnTypeOK == /\ usage \in Usages
             /\ g_logger_instance \in {"null"} \cup usage.loggers
             /\ g_logging_init_mutex \in {"free"} \cup Clients
             /\ g_first_unintialized_msg \in {NoMsg} \cup Msgs
             /\ g_set_first_uninitialized_flag \in BOOLEAN
             /\ g_save_first_unintialized_flag \in {"unset", "running", "done"}
             /\ at \in [Clients -> Places]
             /\ calls \in [Clients -> 0..usage.calls]
             /\ fatal \in [Clients -> BOOLEAN]
             /\ accepted \subseteq Msgs
             /\ worker \in {"live", "reset", "retiring", "gone"}
             /\ file \in Seq(Jobs)
             /\ open \in BOOLEAN /\ closed \in BOOLEAN
             /\ crashed \in {"no"} \cup Clients

(* Only the handling of a fatal message changes closed, and nothing takes  *)
(* that message out of hand meanwhile.                                     *)
LEMMA HandStep ==
    ASSUME TInv, [Next]_vars
    PROVE  FatalFlush \/ closed' = FALSE \/ UNCHANGED <<closed, pc, func>>
<1>1. CASE Background
  <2>1. CASE ~closed
    BY <1>1, <2>1
       DEF Background, RunLoop, BackgroundFileWrite, BackgroundChangeLogFile,
           FatalShutDown, DoDone, output, TInv, TypeOK
  <2>2. CASE closed
    BY <1>1, <2>2
       DEF Background, RunLoop, BackgroundFileWrite, BackgroundChangeLogFile,
           FatalFlush, FatalShutDown, DoDone, output, TInv, HandInv, FatalInHand,
           Bg!TestDone, Bg!Pop
  <2> QED BY <2>1, <2>2
<1>2. CASE Destructor \/ PimplReset
  BY <1>2 DEF Destructor, PimplReset, BgReset, CompareActive, Retire, output, active,
              Bg!SendQuit, Bg!LoseQuit, Bg!Join
<1>3. ASSUME NEW c \in Clients,
             SaveFirst(c) \/ Save(c) \/ FatalCall(c) \/ ChangeLogFile(c)
      PROVE  UNCHANGED <<closed, pc, func>>
  BY <1>3 DEF SaveFirst, Save, FatalCall, ChangeLogFile, TestPimpl, PushJob, SendJob, output,
              active, Bg!Send
<1>4. ASSUME NEW c \in Clients,
             \/ \E w \in usage.loggers : InitializeLogging(c, w)
             \/ ShutDownLogging(c) \/ Log(c) \/ CheckInitialized(c) \/ SetFirst(c)
             \/ SaveFirstOnce(c) \/ FatalReturn(c) \/ EndProgram(c) \/ Swallow(c)
      PROVE  UNCHANGED <<closed, pc, func>>
  BY <1>4 DEF InitializeLogging, ShutDownLogging, Log, CheckInitialized, SetFirst,
              SaveFirstOnce, FatalReturn, EndProgram, Swallow, output, active
<1>5. CASE UNCHANGED vars
  BY <1>5 DEF vars, output, active
<1> QED BY <1>1, <1>2, <1>3, <1>4, <1>5 DEF Next, Logging

(* A client goes on to the place p in the course of a call.                *)
LEMMA Moves ==
    ASSUME TInv, NEW c \in Clients, NEW p \in Places, Goto(c, p),
           UNCHANGED <<usage, calls, fatal>>,
           at[c] # "idle",
           \/ UNCHANGED <<g_first_unintialized_msg, g_set_first_uninitialized_flag>>
           \/ g_set_first_uninitialized_flag' = TRUE
           \/ g_first_unintialized_msg' # NoMsg,
           p \in {"firsttest", "firstpush"} =>
               g_set_first_uninitialized_flag' \/ g_first_unintialized_msg' # NoMsg
    PROVE  /\ at' \in [Clients -> Places]
           /\ ClientInv'
BY DEF TInv, TypeOK, ClientInv, Goto

LEMMA TInvNext == TInv /\ [Next]_vars => TInv'
<1> SUFFICES ASSUME TInv, [Next]_vars PROVE TInv'
  OBVIOUS
<1>0. TypeOK /\ ClientInv /\ HandInv
  BY DEF TInv
<1>1. Bg!TypeOK' /\ (pc = "call" => func \in Bg!Callbacks)'
  BY <1>0, ActiveStep, ActiveTypeNext DEF TypeOK, HandInv
<1> DEFINE Own == OwnTypeOK' /\ ClientInv'
<1>2. ASSUME NEW c \in Clients, NEW isFatal \in BOOLEAN, NEW place \in Places,
             Call(c, isFatal, place),
             UNCHANGED <<usage, g_first_unintialized_msg, g_set_first_uninitialized_flag>>,
             place \notin {"firsttest", "firstpush"}
      PROVE  /\ ClientInv' /\ at' \in [Clients -> Places]
             /\ calls' \in [Clients -> 0..usage.calls] /\ fatal' \in [Clients -> BOOLEAN]
             /\ accepted' = accepted
  <2>1. calls[c] \in 0..usage.calls /\ usage.calls \in Nat
    BY <1>0, UsageFacts DEF TypeOK
  <2>2. calls[c] + 1 \in 0..usage.calls
    BY <2>1, <1>2 DEF Call
  <2> QED BY <1>0, <1>2, <2>1, <2>2 DEF Call, Goto, TypeOK, ClientInv
<1>3. ASSUME NEW c \in Clients, NEW w \in usage.loggers, InitializeLogging(c, w), usage' = usage
      PROVE  Own
  BY <1>0, <1>2, <1>3 DEF InitializeLogging, OwnTypeOK, TypeOK, output, Places, NoMsg
<1>4. ASSUME NEW c \in Clients, ShutDownLogging(c), usage' = usage PROVE Own
  BY <1>0, <1>2, <1>4 DEF ShutDownLogging, ClearLogger, OwnTypeOK, TypeOK, output, Places
<1>c. ASSUME NEW c \in Clients, ChangeLogFile(c), usage' = usage PROVE Own
  BY <1>0, <1>2, <1>c DEF ChangeLogFile, globals, OwnTypeOK, TypeOK, output, Places
<1>5. ASSUME NEW c \in Clients, Log(c), usage' = usage PROVE Own
  <2>1. PICK isFatal \in BOOLEAN, place \in {"check", "fatalcheck"} : Call(c, isFatal, place)
    BY <1>5 DEF Log
  <2>2. /\ UNCHANGED <<globals, output, active, worker, crashed>>
    BY <1>5 DEF Log
  <2> QED
    BY <1>0, <1>2, <1>5, <2>1, <2>2
       DEF globals, OwnTypeOK, TypeOK, output, Places
<1>6. ASSUME NEW c \in Clients, CheckInitialized(c), usage' = usage PROVE Own
  BY <1>0, <1>6, Moves, MsgFacts
     DEF CheckInitialized, globals, OwnTypeOK, TypeOK, output, Places
<1>7. ASSUME NEW c \in Clients, SetFirst(c), usage' = usage PROVE Own
  <2>1. AfterSave(c) \in Places
    BY DEF AfterSave, Places
  <2>2. Msg(c) \in Msgs /\ Msg(c) # NoMsg
    BY <1>0, <1>7, MsgFacts DEF SetFirst, Msgs, NoMsg
  <2>3. AfterSave(c) \notin {"firsttest", "firstpush"}
    BY DEF AfterSave
  <2>4. CASE at[c] = "setfirst"
    <3>1. at' \in [Clients -> Places] /\ ClientInv'
      BY <1>0, <1>7, <2>1, <2>3, <2>4, Moves DEF SetFirst, Places
    <3> QED
      BY <1>0, <1>7, <2>4, <3>1 DEF SetFirst, OwnTypeOK, TypeOK, output
  <2>5. CASE at[c] = "assign"
    <3>1. at' \in [Clients -> Places] /\ ClientInv'
      BY <1>0, <1>7, <2>1, <2>2, <2>3, <2>5, Moves DEF SetFirst
    <3> QED
      BY <1>0, <1>7, <2>2, <2>5, <3>1 DEF SetFirst, OwnTypeOK, TypeOK, output
  <2> QED BY <1>7, <2>4, <2>5 DEF SetFirst
<1>8. ASSUME NEW c \in Clients, SaveFirstOnce(c), usage' = usage PROVE Own
  BY <1>0, <1>8, Moves
     DEF SaveFirstOnce, OwnTypeOK, TypeOK, output, Places, BeingSet
<1>9. ASSUME NEW c \in Clients, SaveFirst(c), usage' = usage PROVE Own
  <2>1. CASE at[c] = "firsttest"
    <3>1. PICK p \in {"test", "firstpush"} : Goto(c, p)
      BY <1>9, <2>1 DEF SaveFirst, TestPimpl
    <3>2. /\ UNCHANGED <<g_logger_instance, g_logging_init_mutex, g_first_unintialized_msg,
                         g_set_first_uninitialized_flag>>
          /\ g_save_first_unintialized_flag' \in {g_save_first_unintialized_flag, "done"}
          /\ UNCHANGED <<calls, fatal, accepted, output, active, worker, crashed>>
      BY <1>9, <2>1 DEF SaveFirst, TestPimpl, FirstOnceDone, globals
    <3>3. g_set_first_uninitialized_flag \/ g_first_unintialized_msg # NoMsg
      BY <1>0, <2>1 DEF ClientInv
    <3>4. at' \in [Clients -> Places] /\ ClientInv'
      BY <1>9, <2>1, <3>1, <3>2, <3>3, Moves DEF Places
    <3> QED
      BY <1>0, <1>9, <3>2, <3>4 DEF OwnTypeOK, TypeOK, output
  <2>2. CASE at[c] = "firstpush"
    BY <1>0, <1>9, <2>2, Moves
       DEF SaveFirst, PushJob, FirstOnceDone, OwnTypeOK, TypeOK, output, Places
  <2> QED BY <1>9, <2>1, <2>2 DEF SaveFirst
<1>10. ASSUME NEW c \in Clients, Save(c), usage' = usage PROVE Own
  <2>1. AfterSave(c) \in Places /\ AfterSave(c) \notin {"firsttest", "firstpush"}
    BY DEF AfterSave, Places
  <2>2. CASE at[c] = "test"
    BY <1>0, <1>10, <2>1, <2>2, Moves
       DEF Save, TestPimpl, globals, OwnTypeOK, TypeOK, output, Places
  <2>3. CASE at[c] = "push"
    BY <1>0, <1>10, <2>1, <2>3, Moves
       DEF Save, PushJob, globals, OwnTypeOK, TypeOK, output
  <2> QED BY <1>10, <2>2, <2>3 DEF Save
<1>11. ASSUME NEW c \in Clients, FatalCall(c), usage' = usage PROVE Own
  <2>1. CASE at[c] = "fatalpush"
    BY <1>0, <1>11, <2>1, Moves
       DEF FatalCall, PushJob, globals, OwnTypeOK, TypeOK, output, Places
  <2>2. CASE at[c] \in {"fatalcheck", "fataltest"}
    BY <1>0, <1>11, <2>2, Moves
       DEF FatalCall, TestPimpl, globals, OwnTypeOK, TypeOK, output, Places
  <2> QED BY <1>11, <2>1, <2>2 DEF FatalCall
<1>12. ASSUME NEW c \in Clients, FatalReturn(c), usage' = usage PROVE Own
  BY <1>0, <1>12, Moves
     DEF FatalReturn, globals, OwnTypeOK, TypeOK, output, Places
<1>13. ASSUME NEW c \in Clients, EndProgram(c), usage' = usage PROVE Own
  BY <1>0, <1>13
     DEF EndProgram, globals, clients, OwnTypeOK, TypeOK, ClientInv, output
<1>14. ASSUME NEW c \in Clients, Swallow(c), usage' = usage PROVE Own
  BY <1>0, <1>14, Moves
     DEF Swallow, OwnTypeOK, TypeOK, output, Places
<1>15. ASSUME Background, usage' = usage PROVE Own
  <2>1. ClientInv' /\ UNCHANGED <<usage, at, calls, fatal, accepted, worker, crashed>>
    BY <1>0, <1>15
       DEF Background, RunLoop, BackgroundFileWrite, BackgroundChangeLogFile,
           FatalFlush, FatalShutDown, DoDone,
           ClearLogger, globals, clients, ClientInv
  <2>2. UNCHANGED <<g_logging_init_mutex, g_first_unintialized_msg,
                    g_set_first_uninitialized_flag, g_save_first_unintialized_flag>>
        /\ g_logger_instance' \in {"null", g_logger_instance}
    BY <1>15
       DEF Background, RunLoop, BackgroundFileWrite, BackgroundChangeLogFile,
           FatalFlush, FatalShutDown, DoDone,
           ClearLogger, globals
  <2>3. file' \in Seq(Jobs) /\ open' \in BOOLEAN /\ closed' \in BOOLEAN
    <3>1. CASE RunLoop \/ DoDone
      BY <1>0, <3>1 DEF RunLoop, DoDone, output, TypeOK
    <3>2. CASE BackgroundFileWrite
      <4>1. func \in Jobs
        BY <1>0, <3>2 DEF BackgroundFileWrite, HandInv, Bg!Callbacks
      <4>2. file' \in Seq(Jobs)
        BY <1>0, <3>2, <4>1 DEF BackgroundFileWrite, TypeOK
      <4> QED BY <1>0, <3>2, <4>2 DEF BackgroundFileWrite, TypeOK
    <3>5. CASE BackgroundChangeLogFile
      BY <1>0, <3>5 DEF BackgroundChangeLogFile, TypeOK
    <3>3. CASE FatalFlush
      <4>1. func \in Jobs
        BY <1>0, <3>3 DEF FatalFlush, HandInv, Bg!Callbacks
      <4>2. /\ file' = IF open THEN Append(file, func) ELSE file
            /\ open' = FALSE /\ closed' = TRUE
        BY <3>3 DEF FatalFlush
      <4>3. file' \in Seq(Jobs)
        BY <1>0, <4>1, <4>2 DEF TypeOK
      <4> QED BY <4>2, <4>3
    <3>4. CASE FatalShutDown
      BY <1>0, <3>4 DEF FatalShutDown, TypeOK
    <3> QED BY <1>15, <3>1, <3>2, <3>3, <3>4, <3>5 DEF Background
  <2>4. OwnTypeOK'
    BY <1>0, <2>1, <2>2, <2>3 DEF OwnTypeOK, TypeOK
  <2> QED BY <2>1, <2>4
<1>16. ASSUME PimplReset \/ Destructor, usage' = usage PROVE Own
  <2>1. /\ UNCHANGED <<clients, output, crashed>>
        /\ UNCHANGED <<g_logging_init_mutex, g_first_unintialized_msg,
                       g_set_first_uninitialized_flag, g_save_first_unintialized_flag>>
        /\ g_logger_instance' \in {"null", g_logger_instance}
        /\ worker' \in {"live", "reset", "retiring", "gone"}
    BY <1>0, <1>16
       DEF PimplReset, Destructor, BgReset, CompareActive, Retire, ClearLogger, globals, TypeOK
  <2>2. OwnTypeOK'
    BY <1>0, <1>16, <2>1 DEF clients, output, OwnTypeOK, TypeOK
  <2> QED BY <1>0, <2>1, <2>2 DEF clients, TypeOK, ClientInv
<1>17. ASSUME UNCHANGED vars PROVE Own
  <2>1. OwnTypeOK'
    BY <1>0, <1>17 DEF vars, globals, clients, output, OwnTypeOK, TypeOK
  <2> QED BY <1>0, <1>17, <2>1 DEF vars, globals, clients, TypeOK, ClientInv
<1>18. Own
  <2> HIDE DEF Own
  <2> QED
    BY <1>3, <1>4, <1>5, <1>6, <1>7, <1>8, <1>9, <1>10, <1>11, <1>12, <1>13, <1>14, <1>15,
       <1>16, <1>17, <1>c
       DEF Next, Logging
<1>19. (closed => FatalInHand)'
  <2>1. CASE FatalFlush
    BY <2>1 DEF FatalFlush, FatalInHand, active
  <2>2. CASE closed' = FALSE
    BY <2>2
  <2>3. CASE UNCHANGED <<closed, pc, func>>
    BY <1>0, <2>3 DEF HandInv, FatalInHand
  <2> QED BY <1>0, <2>1, <2>2, <2>3, HandStep
<1> QED BY <1>1, <1>18, <1>19 DEF TInv, TypeOK, OwnTypeOK, HandInv

LEMMA TInvAlways == Spec => []TInv
<1>1. Init => TInv
  <2> SUFFICES ASSUME Init PROVE TInv
    OBVIOUS
  <2>1. Bg!TypeOK
    BY EmptySeq DEF Init, Bg!Init, Bg!Queue!Init, Bg!TypeOK
  <2>2. usage.calls \in Nat
    BY UsageAssumption, ClientsAssumption DEF Init, UsageType
  <2>3. /\ at \in [Clients -> Places]
        /\ calls \in [Clients -> 0..usage.calls]
        /\ fatal \in [Clients -> BOOLEAN]
    BY <2>2 DEF Init, Places
  <2>4. file \in Seq(Jobs)
    BY EmptySeq DEF Init
  <2>5. OwnTypeOK
    BY <2>3, <2>4 DEF Init, OwnTypeOK
  <2> QED
    BY <2>1, <2>5
       DEF Init, TInv, TypeOK, OwnTypeOK, ClientInv, HandInv, Bg!Init
<1> QED BY <1>1, TInvNext, PTL DEF Spec

(* The state has the values TypeOK gives it.                               *)
THEOREM TypeCorrect == Spec => []TypeOK
BY TInvAlways, PTL DEF TInv
-----------------------------------------------------------------------------
(* The Active object, position by position, as in ActiveProofs.            *)
Held == IF pc = "call" THEN 1 ELSE 0
Control == /\ pc \in {"pop", "call"} => ~done_
           /\ life = "joined" => pc = "exited"
RanFirst == /\ Len(ran) <= Len(sent)
            /\ \A i \in 1..Len(ran) : ran[i] = sent[i]
RestQueued ==
    life # "joined" =>
        /\ Len(sent) = Len(ran) + Held + Len(mq_)
        /\ pc = "call" => sent[Len(ran) + 1] = func
        /\ \A i \in 1..Len(mq_) : mq_[i] = sent[Len(ran) + Held + i]
QueueInv == Control /\ RanFirst /\ RestQueued

LEMMA Lengths == Bg!TypeOK => Len(sent) \in Nat /\ Len(ran) \in Nat /\ Len(mq_) \in Nat
BY LenProperties DEF Bg!TypeOK

LEMMA QueueInvNext ==
    Bg!TypeOK /\ (pc = "call" => func \in Bg!Callbacks) /\ QueueInv /\ [Bg!Next]_active
        => QueueInv'
<1> SUFFICES ASSUME Bg!TypeOK, pc = "call" => func \in Bg!Callbacks, QueueInv,
                    [Bg!Next]_active
             PROVE  QueueInv'
  OBVIOUS
<1>0. Len(sent) \in Nat /\ Len(ran) \in Nat /\ Len(mq_) \in Nat
  BY Lengths
<1>1. ASSUME NEW j \in Bg!Callbacks, mq_' = Append(mq_, j), sent' = Append(sent, j),
             UNCHANGED <<done_, pc, func, ran>>,
             life # "joined", life' # "joined"
      PROVE  QueueInv'
  <2>1. /\ Len(sent') = Len(sent) + 1
        /\ \A i \in 1..Len(sent) : sent'[i] = sent[i]
        /\ sent'[Len(sent) + 1] = j
    BY <1>1, AppendProperties DEF Bg!TypeOK
  <2>2. /\ Len(mq_') = Len(mq_) + 1
        /\ \A i \in 1..Len(mq_) : mq_'[i] = mq_[i]
        /\ mq_'[Len(mq_) + 1] = j
    BY <1>1, AppendProperties DEF Bg!TypeOK
  <2>3. Control'
    BY <1>1 DEF QueueInv, Control, Bg!TypeOK
  <2>4. RanFirst'
    BY <1>0, <1>1, <2>1 DEF QueueInv, RanFirst
  <2>5. RestQueued'
    <3>1. Held' = Held /\ Held \in {0, 1} /\ (pc = "call" => Held = 1)
      BY <1>1 DEF Held
    <3>2. Len(sent') = Len(ran') + Held' + Len(mq_')
      BY <1>0, <1>1, <2>1, <2>2, <3>1 DEF QueueInv, RestQueued
    <3>3. pc' = "call" => sent'[Len(ran') + 1] = func'
      BY <1>0, <1>1, <2>1, <3>1 DEF QueueInv, RestQueued
    <3>4. ASSUME NEW i \in 1..Len(mq_') PROVE mq_'[i] = sent'[Len(ran') + Held' + i]
      <4>1. CASE i \in 1..Len(mq_)
        <5>1. mq_'[i] = sent[Len(ran) + Held + i]
          BY <1>1, <2>2, <4>1 DEF QueueInv, RestQueued
        <5>2. Len(ran) + Held + i \in 1..Len(sent)
          BY <1>0, <1>1, <3>1, <4>1 DEF QueueInv, RestQueued
        <5> QED BY <1>1, <2>1, <3>1, <5>1, <5>2
      <4>2. CASE i = Len(mq_) + 1
        <5>1. Len(sent) = Len(ran) + Held + Len(mq_)
          BY <1>1 DEF QueueInv, RestQueued
        <5>2. Len(ran') + Held' + i = Len(sent) + 1
          BY <1>0, <1>1, <3>1, <4>2, <5>1
        <5> QED BY <2>1, <2>2, <4>2, <5>2
      <4> QED BY <1>0, <2>2, <4>1, <4>2
    <3> QED BY <3>2, <3>3, <3>4 DEF RestQueued
  <2> QED BY <2>3, <2>4, <2>5 DEF QueueInv
<1>2. ASSUME NEW j \in Jobs, Bg!Send(j) PROVE QueueInv'
  BY <1>1, <1>2 DEF Bg!Send, Bg!Callbacks, Bg!Queue!Put
<1>3. CASE Bg!SendQuit
  BY <1>1, <1>3 DEF Bg!SendQuit, Bg!Callbacks, Bg!Queue!Put
<1>4. CASE Bg!TestDone
  BY <1>4 DEF Bg!TestDone, Bg!TypeOK, QueueInv, Control, RanFirst, RestQueued, Held
<1>5. CASE Bg!Pop
  <2>1. /\ pc = "pop" /\ pc' = "call" /\ func' = Head(mq_) /\ mq_' = Tail(mq_)
        /\ mq_ # <<>>
        /\ UNCHANGED <<done_, life, sent, ran>>
    BY <1>5 DEF Bg!Pop, Bg!Queue!Take
  <2>2. /\ Len(mq_') = Len(mq_) - 1 /\ Len(mq_) >= 1
        /\ \A i \in 1..Len(mq_') : mq_'[i] = mq_[i + 1]
        /\ func' = mq_[1]
    BY <2>1, <1>0, HeadTailProperties, EmptySeq DEF Bg!TypeOK
  <2>3. Control' /\ RanFirst'
    BY <2>1, <2>2 DEF QueueInv, Control, RanFirst, Bg!TypeOK
  <2>4. RestQueued'
    <3>1. Held = 0 /\ Held' = 1
      BY <2>1 DEF Held
    <3>2. life # "joined"
      BY <2>1 DEF QueueInv, Control
    <3>3. Len(sent') = Len(ran') + Held' + Len(mq_')
      BY <1>0, <2>1, <2>2, <3>1, <3>2 DEF QueueInv, RestQueued
    <3>4. sent'[Len(ran') + 1] = func'
      BY <1>0, <2>1, <2>2, <3>1, <3>2 DEF QueueInv, RestQueued
    <3>5. ASSUME NEW i \in 1..Len(mq_') PROVE mq_'[i] = sent'[Len(ran') + Held' + i]
      <4>1. i + 1 \in 1..Len(mq_) /\ Len(ran) + 0 + (i + 1) = Len(ran) + 1 + i
        BY <1>0, <2>2
      <4> QED BY <1>0, <2>1, <2>2, <3>1, <3>2, <4>1 DEF QueueInv, RestQueued
    <3> QED BY <3>3, <3>4, <3>5 DEF RestQueued
  <2> QED BY <2>3, <2>4 DEF QueueInv
<1>6. CASE Bg!Call
  <2>1. /\ pc = "call" /\ pc' = "test" /\ ran' = Append(ran, func)
        /\ UNCHANGED <<mq_, life, sent>>
    BY <1>6 DEF Bg!Call
  <2>2. /\ Len(ran') = Len(ran) + 1
        /\ \A i \in 1..Len(ran) : ran'[i] = ran[i]
        /\ ran'[Len(ran) + 1] = func
    BY <2>1, AppendProperties DEF Bg!TypeOK
  <2>3. life # "joined" /\ Held = 1 /\ Held' = 0
    BY <2>1 DEF QueueInv, Control, Held
  <2>4. Control'
    BY <2>1, <2>3 DEF QueueInv, Control
  <2>5. RanFirst'
    <3>1. Len(ran) + 1 <= Len(sent) /\ sent[Len(ran) + 1] = func
      BY <1>0, <2>1, <2>3 DEF QueueInv, RestQueued
    <3>2. ASSUME NEW i \in 1..Len(ran') PROVE ran'[i] = sent'[i]
      <4>1. CASE i \in 1..Len(ran)
        BY <2>1, <2>2, <4>1 DEF QueueInv, RanFirst
      <4>2. CASE i = Len(ran) + 1
        BY <2>1, <2>2, <3>1, <4>2
      <4> QED BY <1>0, <2>2, <4>1, <4>2
    <3> QED BY <1>0, <2>1, <2>2, <3>1, <3>2 DEF RanFirst
  <2>6. RestQueued'
    <3>1. Len(sent') = Len(ran') + Held' + Len(mq_')
      BY <1>0, <2>1, <2>2, <2>3 DEF QueueInv, RestQueued
    <3>2. ASSUME NEW i \in 1..Len(mq_') PROVE mq_'[i] = sent'[Len(ran') + Held' + i]
      <4>1. i \in 1..Len(mq_) /\ Len(ran') + 0 + i = Len(ran) + 1 + i
        BY <1>0, <2>1, <2>2
      <4> QED BY <2>1, <2>3, <4>1 DEF QueueInv, RestQueued
    <3> QED BY <2>1, <3>1, <3>2 DEF RestQueued
  <2> QED BY <2>4, <2>5, <2>6 DEF QueueInv
<1>lost. CASE Bg!LoseQuit
  BY <1>lost DEF Bg!LoseQuit, Bg!TypeOK, QueueInv, Control, RanFirst, RestQueued, Held
<1>7. CASE Bg!Join
  BY <1>7 DEF Bg!Join, QueueInv, Control, RanFirst, RestQueued, Bg!TypeOK
<1>8. CASE UNCHANGED active
  BY <1>8 DEF active, Bg!TypeOK, QueueInv, Control, RanFirst, RestQueued, Held
<1> QED BY <1>2, <1>3, <1>4, <1>5, <1>6, <1>7, <1>8, <1>lost DEF Bg!Next, Bg!Run

(* The background thread of a worker, under everything that is done to the *)
(* logger, is an Active object.                                            *)
THEOREM RefinesActive == Spec => Bg!Spec
<1>1. Init => Bg!Init
  BY DEF Init
<1>2. TInv /\ [Next]_vars => [Bg!Next]_active
  BY ActiveStep DEF TInv
<1> QED BY TInvAlways, <1>1, <1>2, PTL DEF Spec, Bg!Spec, Bg!vars, active

-----------------------------------------------------------------------------
(* The file.  Dealt counts the callbacks the background thread is through  *)
(* with, or past the close of.                                             *)
Dealt == Len(ran) + (IF closed THEN 1 ELSE 0)

(* What is in the file is among these, with a change of log file behind a  *)
(* fatal message by the time the file is open again ...                    *)
Traced(e) == \E x \in 1..Dealt :
                 /\ sent[x] = e
                 /\ open /\ e.kind = "fatal" => ChangedBetween(x, Dealt)

(* ... and, if no change fails, it stays open up to a fatal message, which *)
(* is why everything before it is there.                                   *)
InFile(e) == \E i \in 1..Len(file) : file[i] = e
WholeUpToFatal ==
    "failed" \notin usage.changes =>
        /\ ~FatalAmong(Dealt) => open
        /\ \A k \in 1..Dealt : IsEntry(sent[k]) /\ ~FatalAmong(k - 1) => InFile(sent[k])

FileInv == /\ closed => ~open
           /\ \A i \in 1..Len(file) : Traced(file[i]) /\ IsEntry(file[i])
           /\ FileStopsAtFatal
           /\ WholeUpToFatal

(* What the background thread does to the file in a step.                  *)
Writes == /\ func \in Jobs /\ func.kind \in {"write", "fatal"}
          /\ file' = IF open THEN Append(file, func) ELSE file
          /\ open' => open /\ func.kind = "write"
          /\ "failed" \notin usage.changes /\ func.kind = "write" => open' = open
Changes == /\ func \in Jobs /\ func.kind = "change"
           /\ file' = file
           /\ "failed" \notin usage.changes /\ open => open'
Quits == /\ func = Quit
         /\ UNCHANGED <<file, open>>
Deals == /\ pc = "call" /\ ~closed /\ sent' = sent
         /\ Dealt' = Len(ran) + 1
         /\ Writes \/ Changes \/ Quits

LEMMA FileStep ==
    ASSUME TInv, FileInv, [Next]_vars
    PROVE  /\ closed' => ~open'
           /\ Deals \/ (UNCHANGED <<file, open>> /\ Dealt' = Dealt)
<1>t. /\ Len(ran) \in Nat /\ ran \in Seq(Bg!Callbacks)
      /\ pc = "call" => func \in Bg!Callbacks
      /\ closed => FatalInHand
      /\ closed => ~open
      /\ open \in BOOLEAN
  BY Lengths DEF TInv, TypeOK, Bg!TypeOK, HandInv, FileInv
<1>ran. ASSUME Bg!Call PROVE pc = "call" /\ sent' = sent /\ Len(ran') = Len(ran) + 1
  BY <1>t, <1>ran, AppendProperties DEF Bg!Call
<1>1. CASE BackgroundFileWrite
  <2>1. pc = "call" /\ ~closed /\ closed' = closed /\ sent' = sent /\ Dealt' = Len(ran) + 1
    BY <1>1, <1>t, <1>ran DEF BackgroundFileWrite, FatalInHand, Dealt
  <2>2. func \in Jobs
    BY <1>1, <1>t DEF BackgroundFileWrite, Bg!Callbacks
  <2> QED BY <1>1, <1>t, <2>1, <2>2 DEF BackgroundFileWrite, Deals, Writes
<1>2. CASE BackgroundChangeLogFile
  <2>1. pc = "call" /\ ~closed /\ closed' = closed /\ sent' = sent /\ Dealt' = Len(ran) + 1
    BY <1>2, <1>t, <1>ran DEF BackgroundChangeLogFile, FatalInHand, Dealt
  <2>2. func \in Jobs
    BY <1>2, <1>t DEF BackgroundChangeLogFile, Bg!Callbacks
  <2>3. "failed" \notin usage.changes /\ open => open'
    <3>1. usage.changes \subseteq {"opened", "failed"}
      BY UsageAssumption DEF TInv, TypeOK, UsageType
    <3> QED BY <1>2, <3>1 DEF BackgroundChangeLogFile
  <2> QED BY <1>2, <2>1, <2>2, <2>3 DEF BackgroundChangeLogFile, Deals, Changes
<1>3. CASE FatalFlush
  <2>1. pc = "call" /\ ~closed /\ closed' = TRUE /\ sent' = sent /\ Dealt' = Len(ran) + 1
    BY <1>3, <1>t DEF FatalFlush, Dealt, active
  <2>2. func \in Jobs /\ func.kind = "fatal" /\ open' = FALSE
    BY <1>3, <1>t DEF FatalFlush, Bg!Callbacks
  <2> QED BY <1>3, <2>1, <2>2 DEF FatalFlush, Deals, Writes
<1>4. CASE FatalShutDown
  <2>1. closed /\ closed' = FALSE /\ UNCHANGED <<file, open>> /\ Len(ran') = Len(ran) + 1
    BY <1>4, <1>ran DEF FatalShutDown
  <2> QED BY <1>t, <2>1 DEF Dealt
<1>5. CASE DoDone
  <2>1. pc = "call" /\ ~closed /\ sent' = sent /\ Dealt' = Len(ran) + 1
        /\ UNCHANGED <<file, open, closed>> /\ func = Quit
    BY <1>5, <1>t, <1>ran DEF DoDone, FatalInHand, Dealt, output
  <2> QED BY <2>1 DEF Deals, Quits
<1>6. ASSUME UNCHANGED <<file, open, closed, ran>>
      PROVE  (closed' => ~open') /\ UNCHANGED <<file, open>> /\ Dealt' = Dealt
  BY <1>6, <1>t DEF Dealt
<1>7. ASSUME RunLoop \/ Destructor \/ PimplReset \/ UNCHANGED vars
      PROVE  UNCHANGED <<file, open, closed, ran>>
  BY <1>7 DEF RunLoop, Destructor, PimplReset, BgReset, CompareActive, Retire, output, active,
              vars, Bg!TestDone, Bg!Pop, Bg!SendQuit, Bg!LoseQuit, Bg!Join
<1>8. ASSUME NEW c \in Clients,
             SaveFirst(c) \/ Save(c) \/ FatalCall(c) \/ ChangeLogFile(c)
      PROVE  UNCHANGED <<file, open, closed, ran>>
  BY <1>8 DEF SaveFirst, Save, FatalCall, ChangeLogFile, TestPimpl, PushJob, SendJob, output,
              active, Bg!Send
<1>9. ASSUME NEW c \in Clients,
             \/ \E w \in usage.loggers : InitializeLogging(c, w)
             \/ ShutDownLogging(c) \/ Log(c) \/ CheckInitialized(c) \/ SetFirst(c)
             \/ SaveFirstOnce(c) \/ FatalReturn(c) \/ EndProgram(c) \/ Swallow(c)
      PROVE  UNCHANGED <<file, open, closed, ran>>
  BY <1>9 DEF InitializeLogging, ShutDownLogging, Log, CheckInitialized, SetFirst,
              SaveFirstOnce, FatalReturn, EndProgram, Swallow, output, active
<1> QED
  BY <1>1, <1>2, <1>3, <1>4, <1>5, <1>6, <1>7, <1>8, <1>9 DEF Next, Logging, Background

LEMMA SentGrows ==
    ASSUME Bg!TypeOK, [Bg!Next]_active
    PROVE  /\ Len(sent) <= Len(sent')
           /\ \A i \in 1..Len(sent) : sent'[i] = sent[i]
<1>0. Len(sent) \in Nat
  BY Lengths
<1>1. ASSUME NEW j \in Bg!Callbacks, sent' = Append(sent, j)
      PROVE  /\ Len(sent) <= Len(sent')
             /\ \A i \in 1..Len(sent) : sent'[i] = sent[i]
  BY <1>0, <1>1, AppendProperties DEF Bg!TypeOK
<1>2. CASE sent' = sent
  BY <1>0, <1>2
<1> QED BY <1>1, <1>2 DEF Bg!Next, Bg!Run, Bg!Send, Bg!TestDone, Bg!Pop, Bg!Call, Bg!SendQuit,
                          Bg!LoseQuit, Bg!Join, Bg!Callbacks, active

(* Dealt runs along what was sent, up to the job in hand.                  *)
LEMMA DealtFacts ==
    ASSUME TInv, QueueInv
    PROVE  /\ Len(sent) \in Nat /\ Len(ran) \in Nat /\ Len(file) \in Nat
           /\ Dealt \in Nat /\ Dealt <= Len(sent) /\ Len(ran) <= Dealt
           /\ ~closed => Dealt = Len(ran)
           /\ pc = "call" => Len(ran) + 1 <= Len(sent) /\ sent[Len(ran) + 1] = func
           /\ file \in Seq(Jobs)
<1>1. /\ Len(sent) \in Nat /\ Len(ran) \in Nat /\ Len(mq_) \in Nat /\ Len(file) \in Nat
      /\ file \in Seq(Jobs)
  BY Lengths, LenProperties DEF TInv, TypeOK
<1>2. pc = "call" => Len(ran) + 1 <= Len(sent) /\ sent[Len(ran) + 1] = func
  BY <1>1 DEF QueueInv, Control, RestQueued, Held
<1>3. closed => pc = "call"
  BY DEF TInv, HandInv, FatalInHand
<1>4. Len(ran) <= Len(sent)
  BY DEF QueueInv, RanFirst
<1> QED BY <1>1, <1>2, <1>3, <1>4 DEF Dealt

(* The file grows by the job in hand, at most.                             *)
LEMMA FileGrows ==
    ASSUME TInv, QueueInv, FileInv, [Next]_vars
    PROVE  /\ Len(file') \in Nat /\ Len(file) <= Len(file')
           /\ \A i \in 1..Len(file) : file'[i] = file[i]
           /\ \/ \A i \in 1..Len(file') : i \in 1..Len(file)
              \/ /\ Deals /\ Writes /\ open
                 /\ \A i \in 1..Len(file') :
                        i \in 1..Len(file) \/ (i = Len(file) + 1 /\ file'[i] = func)
<1>1. Len(file) \in Nat /\ file \in Seq(Jobs)
  BY DealtFacts
<1>2. CASE file' = file
  BY <1>1, <1>2
<1>3. CASE Deals /\ Writes /\ open /\ file' = Append(file, func)
  <2>1. /\ Len(file') = Len(file) + 1
        /\ \A i \in 1..Len(file) : file'[i] = file[i]
        /\ file'[Len(file) + 1] = func
    BY <1>1, <1>3, AppendProperties DEF Writes
  <2>2. \A i \in 1..Len(file') :
            i \in 1..Len(file) \/ (i = Len(file) + 1 /\ file'[i] = func)
    BY <1>1, <2>1
  <2>3. Len(file') \in Nat /\ Len(file) <= Len(file')
    BY <1>1, <2>1
  <2> QED BY <1>3, <2>1, <2>2, <2>3
<1> QED BY <1>2, <1>3, FileStep DEF Deals, Writes, Changes, Quits

LEMMA TracedNext ==
    ASSUME TInv, TInv', QueueInv, FileInv, [Next]_vars,
           NEW e, Traced(e)
    PROVE  \E x \in 1..Dealt' :
               /\ sent'[x] = e
               /\ open' /\ e.kind = "fatal" =>
                      \E y \in x..Dealt' : sent'[y] # Quit /\ sent'[y].kind = "change"
<1>0. /\ Len(sent) \in Nat /\ Len(ran) \in Nat /\ Dealt \in Nat /\ Dealt <= Len(sent)
      /\ \A i \in 1..Len(sent) : sent'[i] = sent[i]
      /\ open \in BOOLEAN /\ open' \in BOOLEAN
      /\ ~closed => Dealt = Len(ran)
      /\ pc = "call" => Len(ran) + 1 <= Len(sent) /\ sent[Len(ran) + 1] = func
  BY DealtFacts, ActiveStep, SentGrows DEF TInv, TypeOK
<1>1. PICK x \in 1..Dealt : sent[x] = e /\ (open /\ e.kind = "fatal" => ChangedBetween(x, Dealt))
  BY DEF Traced
<1>2. Dealt' \in Nat /\ Dealt <= Dealt'
  BY <1>0, FileStep DEF Deals
<1>3. x \in 1..Dealt' /\ sent'[x] = e
  BY <1>0, <1>1, <1>2
<1>4. ASSUME open', e.kind = "fatal"
      PROVE  \E y \in x..Dealt' : sent'[y] # Quit /\ sent'[y].kind = "change"
  <2>1. CASE open
    <3>1. PICK y \in x..Dealt : sent[y] # Quit /\ sent[y].kind = "change"
      BY <1>1, <1>4, <2>1 DEF ChangedBetween
    <3>2. y \in x..Dealt' /\ sent'[y] = sent[y]
      BY <1>0, <1>1, <1>2, <3>1
    <3> QED BY <3>1, <3>2
  <2>2. CASE ~open
    <3>1. Deals /\ Changes
      BY <1>4, <2>2, FileStep DEF Deals, Writes, Quits
    <3>2. Dealt' \in x..Dealt' /\ sent'[Dealt'] = func
      BY <1>0, <1>1, <1>2, <3>1 DEF Deals
    <3>3. func # Quit /\ func.kind = "change"
      BY <3>1, QuitAssumption DEF Changes
    <3> QED BY <3>2, <3>3
  <2> QED BY <2>1, <2>2
<1> QED BY <1>3, <1>4

(* The job in hand goes behind all that is in the file.                    *)
LEMMA StopsNext ==
    ASSUME TInv, QueueInv, FileInv, [Next]_vars
    PROVE  FileStopsAtFatal'
<1>0. /\ Len(sent) \in Nat /\ Len(sent') \in Nat /\ Len(sent) <= Len(sent')
      /\ \A i \in 1..Len(sent) : sent'[i] = sent[i]
  BY DealtFacts, ActiveStep, SentGrows DEF TInv, TypeOK
<1> DEFINE Behind(a, b) == \E x, z \in 1..Len(sent) :
               /\ x < z /\ sent[x] = a /\ sent[z] = b
               /\ a.kind = "fatal" => ChangedBetween(x, z)
           BehindNow(a, b) == \E x, z \in 1..Len(sent') :
               /\ x < z /\ sent'[x] = a /\ sent'[z] = b
               /\ a.kind = "fatal" =>
                      \E y \in x..z : sent'[y] # Quit /\ sent'[y].kind = "change"
<1>1. ASSUME NEW a, NEW b, Behind(a, b) PROVE BehindNow(a, b)
  <2>1. PICK x \in 1..Len(sent), z \in 1..Len(sent) :
               /\ x < z /\ sent[x] = a /\ sent[z] = b
               /\ a.kind = "fatal" => ChangedBetween(x, z)
    BY <1>1
  <2>2. /\ x \in 1..Len(sent') /\ z \in 1..Len(sent')
        /\ sent'[x] = a /\ sent'[z] = b
    BY <1>0, <2>1
  <2>3. \A y \in x..z : y \in 1..Len(sent) /\ sent'[y] = sent[y]
    BY <1>0, <2>1
  <2> QED BY <2>1, <2>2, <2>3 DEF ChangedBetween
<1>2. ASSUME NEW i \in 1..Len(file'), NEW j \in 1..Len(file'), i < j
      PROVE  Behind(file'[i], file'[j])
  <2>0. /\ Len(file) \in Nat /\ Len(file') \in Nat /\ Len(ran) \in Nat
        /\ ~closed => Dealt = Len(ran)
        /\ pc = "call" => Len(ran) + 1 <= Len(sent) /\ sent[Len(ran) + 1] = func
    BY DealtFacts, FileGrows
  <2>1. CASE j \in 1..Len(file)
    <3>1. i \in 1..Len(file)
      BY <1>2, <2>0, <2>1
    <3>2. file'[i] = file[i] /\ file'[j] = file[j]
      BY <2>1, <3>1, FileGrows
    <3>3. Behind(file[i], file[j])
      BY <1>2, <2>1, <3>1 DEF FileInv, FileStopsAtFatal
    <3> HIDE DEF Behind
    <3> QED BY <3>2, <3>3
  <2>2. CASE Deals /\ Writes /\ open /\ j = Len(file) + 1 /\ file'[j] = func
    <3>1. i \in 1..Len(file)
      BY <1>2, <2>0, <2>2
    <3>2. file'[i] = file[i] /\ Traced(file[i])
      BY <3>1, FileGrows DEF FileInv
    <3>3. pc = "call" /\ Dealt = Len(ran)
      BY <2>0, <2>2 DEF Deals
    <3>4. PICK x \in 1..Len(ran) :
              sent[x] = file[i] /\ (file[i].kind = "fatal" => ChangedBetween(x, Len(ran)))
      BY <2>2, <3>2, <3>3 DEF Traced
    <3> DEFINE z == Len(ran) + 1
    <3>5. x \in 1..Len(sent) /\ z \in 1..Len(sent) /\ x < z /\ sent[z] = func
      BY <1>0, <2>0, <3>3, <3>4
    <3>6. x..Len(ran) \subseteq x..z
      BY <2>0, <3>4
    <3>7. ChangedBetween(x, Len(ran)) => ChangedBetween(x, z)
      BY <3>6 DEF ChangedBetween
    <3> HIDE DEF z
    <3> QED BY <2>2, <3>2, <3>4, <3>5, <3>7
  <2> QED BY <2>1, <2>2, FileGrows
<1> HIDE DEF Behind, BehindNow
<1>3. \A i, j \in 1..Len(file') : i < j => BehindNow(file'[i], file'[j])
  BY <1>1, <1>2
<1> QED BY <1>3 DEF FileStopsAtFatal, BehindNow, ChangedBetween

LEMMA WholeNext ==
    ASSUME TInv, TInv', QueueInv, FileInv, [Next]_vars
    PROVE  WholeUpToFatal'
<1> DEFINE InFileNow(e) == \E i \in 1..Len(file') : file'[i] = e
<1> SUFFICES ASSUME "failed" \notin usage.changes
             PROVE  /\ ~FatalAmong(Dealt)' => open'
                    /\ \A k \in 1..Dealt' :
                           IsEntry(sent'[k]) /\ ~FatalAmong(k - 1)' => InFileNow(sent'[k])
  <2>1. usage' = usage
    BY DEF Next, vars
  <2> QED BY <2>1 DEF WholeUpToFatal, IsEntry, FatalAmong, InFile
<1>0. /\ Len(sent) \in Nat /\ Len(ran) \in Nat /\ Dealt \in Nat /\ Dealt <= Len(sent)
      /\ \A i \in 1..Len(sent) : sent'[i] = sent[i]
      /\ open \in BOOLEAN /\ open' \in BOOLEAN
      /\ ~closed => Dealt = Len(ran)
      /\ pc = "call" => Len(ran) + 1 <= Len(sent) /\ sent[Len(ran) + 1] = func
  BY DealtFacts, ActiveStep, SentGrows DEF TInv, TypeOK
<1>1. /\ ~FatalAmong(Dealt) => open
      /\ \A k \in 1..Dealt : IsEntry(sent[k]) /\ ~FatalAmong(k - 1) => InFile(sent[k])
  BY DEF FileInv, WholeUpToFatal
(* Where the fatal messages were they stay, and what was in the file is.   *)
<1>2. ASSUME NEW k \in Nat, k <= Len(sent), FatalAmong(k) PROVE FatalAmong(k)'
  <2>1. PICK l \in 1..k : sent[l] # Quit /\ sent[l].kind = "fatal"
    BY <1>2 DEF FatalAmong
  <2>2. sent'[l] = sent[l]
    BY <1>0, <1>2
  <2> QED BY <2>1, <2>2 DEF FatalAmong
<1>3. ASSUME NEW e, InFile(e) PROVE InFileNow(e)
  <2>1. PICK i \in 1..Len(file) : file[i] = e
    BY <1>3 DEF InFile
  <2>2. i \in 1..Len(file') /\ file'[i] = file[i]
    BY DealtFacts, FileGrows
  <2> QED BY <2>1, <2>2 DEF InFile
<1>4. ASSUME NEW k \in 1..Dealt, IsEntry(sent'[k]), ~FatalAmong(k - 1)'
      PROVE  InFileNow(sent'[k])
  <2>1. k - 1 \in Nat /\ k - 1 <= Len(sent) /\ sent'[k] = sent[k]
    BY <1>0
  <2>2. InFile(sent[k])
    BY <1>1, <1>2, <1>4, <2>1
  <2>3. InFile(sent'[k])
    BY <2>1, <2>2
  <2> QED BY <1>3, <2>3
<1>5. CASE UNCHANGED <<file, open>> /\ Dealt' = Dealt
  BY <1>0, <1>1, <1>2, <1>4, <1>5 DEF FatalAmong
<1>6. CASE Deals
  <2>1. /\ pc = "call" /\ sent' = sent /\ Dealt = Len(ran) /\ Dealt' = Len(ran) + 1
        /\ sent[Dealt'] = func /\ Dealt' \in 1..Len(sent)
    BY <1>0, <1>6 DEF Deals
  <2>2. ASSUME ~FatalAmong(Dealt)' PROVE open' /\ ~FatalAmong(Dealt)
    <3>1. ~FatalAmong(Dealt) /\ (func # Quit => func.kind # "fatal")
      BY <1>0, <2>1, <2>2 DEF FatalAmong
    <3>2. open
      BY <1>1, <3>1
    <3> QED BY <1>6, <3>1, <3>2, QuitAssumption DEF Deals, Writes, Changes, Quits
  <2>3. ASSUME IsEntry(func), ~FatalAmong(Dealt) PROVE InFileNow(func)
    <3>1. open /\ Writes
      BY <1>1, <1>6, <2>3 DEF IsEntry, Deals, Changes, Quits
    <3>2. file' = Append(file, func) /\ file \in Seq(Jobs) /\ Len(file) \in Nat
      BY <3>1, DealtFacts DEF Writes
    <3>3. Len(file') = Len(file) + 1 /\ file'[Len(file) + 1] = func
      BY <3>1, <3>2, AppendProperties DEF Writes
    <3> QED BY <3>2, <3>3 DEF InFile
  <2>4. ASSUME NEW k \in 1..Dealt', IsEntry(sent'[k]), ~FatalAmong(k - 1)'
        PROVE  InFileNow(sent'[k])
    <3>1. CASE k \in 1..Dealt
      BY <1>4, <2>4, <3>1
    <3>2. CASE k = Dealt'
      <4>1. k - 1 = Dealt /\ sent'[k] = func
        BY <1>0, <2>1, <3>2
      <4>2. ~FatalAmong(Dealt)
        BY <2>1, <2>4, <4>1 DEF FatalAmong
      <4>3. InFileNow(func)
        BY <2>3, <2>4, <4>1, <4>2
      <4> QED BY <4>1, <4>3
    <3> QED BY <1>0, <2>1, <3>1, <3>2
  <2> QED BY <2>2, <2>4
<1> QED BY <1>5, <1>6, FileStep

LEMMA FileInvNext == TInv /\ TInv' /\ QueueInv /\ FileInv /\ [Next]_vars => FileInv'
<1> SUFFICES ASSUME TInv, TInv', QueueInv, FileInv, [Next]_vars PROVE FileInv'
  OBVIOUS
<1> DEFINE TracedNow(e) ==
               \E x \in 1..Dealt' :
                   /\ sent'[x] = e
                   /\ open' /\ e.kind = "fatal" =>
                          \E y \in x..Dealt' : sent'[y] # Quit /\ sent'[y].kind = "change"
<1>1. ASSUME NEW e, Traced(e) PROVE TracedNow(e)
  BY <1>1, TracedNext
<1>2. ASSUME NEW i \in 1..Len(file') PROVE TracedNow(file'[i])
  <2>1. CASE i \in 1..Len(file)
    <3>1. Traced(file[i]) /\ file'[i] = file[i]
      BY <2>1, FileGrows DEF FileInv
    <3> HIDE DEF TracedNow
    <3> QED BY <1>1, <3>1
  <2>2. CASE Deals /\ Writes /\ open /\ i = Len(file) + 1 /\ file'[i] = func
    <3>1. Len(ran) \in Nat /\ Dealt' = Len(ran) + 1 /\ sent'[Dealt'] = func
      BY <2>2, DealtFacts DEF Deals
    <3>2. open' => func.kind # "fatal"
      BY <2>2 DEF Writes
    <3> QED BY <2>2, <3>1, <3>2
  <2> QED BY <2>1, <2>2, FileGrows
<1>3. ASSUME NEW i \in 1..Len(file') PROVE IsEntry(file'[i])
  <2>1. CASE i \in 1..Len(file)
    BY <2>1, FileGrows DEF FileInv
  <2>2. CASE Writes /\ file'[i] = func
    BY <2>2, QuitAssumption DEF Writes, IsEntry
  <2> QED BY <2>1, <2>2, FileGrows
<1>4. closed' => ~open'
  BY FileStep
<1>5. \A i \in 1..Len(file') : Traced(file[i])' /\ IsEntry(file[i])'
  BY <1>2, <1>3 DEF Traced, ChangedBetween, IsEntry
<1> QED BY <1>4, <1>5, StopsNext, WholeNext DEF FileInv

(* However the library is used, with pointers that are cleared under LOG   *)
(* statements, exceptions swallowed, pushes lost, changes of log file that *)
(* fail and a destructor at any moment: what is written is in the order of *)
(* sending, and behind a fatal message only after a change of log file ... *)
THEOREM FileAlwaysStopsAtFatal == Spec => []FileStopsAtFatal
<1>1. Init => QueueInv /\ FileInv
  BY DEF Init, Bg!Init, Bg!Queue!Init, QueueInv, Control, RanFirst, RestQueued, Held, FileInv,
         FileStopsAtFatal, WholeUpToFatal, Dealt
<1>2. TInv /\ TInv' /\ QueueInv /\ FileInv /\ [Next]_vars => QueueInv' /\ FileInv'
  BY FileInvNext, QueueInvNext, ActiveStep DEF TInv, TypeOK, HandInv
<1>3. FileInv => FileStopsAtFatal
  BY DEF FileInv
<1> QED BY <1>1, <1>2, <1>3, TInvAlways, PTL DEF Spec

(* ... and, unless a change of log file fails, all that was run up to the  *)
(* first fatal message is in the file.                                     *)
THEOREM FatalAlwaysFlushes == Spec => []FatalFlushes
<1>1. Init => QueueInv /\ FileInv
  BY DEF Init, Bg!Init, Bg!Queue!Init, QueueInv, Control, RanFirst, RestQueued, Held, FileInv,
         FileStopsAtFatal, WholeUpToFatal, Dealt
<1>2. TInv /\ TInv' /\ QueueInv /\ FileInv /\ [Next]_vars => QueueInv' /\ FileInv'
  BY FileInvNext, QueueInvNext, ActiveStep DEF TInv, TypeOK, HandInv
<1>3. TInv /\ QueueInv /\ FileInv => FatalFlushes
  <2> SUFFICES ASSUME TInv, QueueInv, WholeUpToFatal PROVE FatalFlushes
    BY DEF FileInv
  <2>1. 1..Len(ran) \subseteq 1..Dealt
    BY DealtFacts
  <2> QED BY <2>1 DEF WholeUpToFatal, FatalFlushes, InFile
<1> QED BY <1>1, <1>2, <1>3, TInvAlways, PTL DEF Spec

-----------------------------------------------------------------------------
(* The order of the file.  A message that was sent, or is the first        *)
(* uninitialized one, is past the places before its sending ...            *)
Saving == {"check", "setfirst", "assign", "once", "firsttest", "firstpush", "test", "push"}
Unsent == Saving \cup {"fatalcheck", "fataltest", "fatalpush"}
Passed(m, places) == /\ m[2] <= calls[m[1]]
                     /\ at[m[1]] \in places => m[2] < calls[m[1]]
JobPassed(j) == /\ Passed(j.msg, Saving)
                /\ j.kind = "fatal" => Passed(j.msg, Unsent)
AllPassed == /\ \A i \in 1..Len(sent) : sent[i] # Quit => JobPassed(sent[i])
             /\ g_first_unintialized_msg # NoMsg => Passed(g_first_unintialized_msg, Saving)

(* ... one client at most assigns the first message, once ...              *)
AssignedOnce ==
    /\ ~g_set_first_uninitialized_flag =>
           g_first_unintialized_msg = NoMsg /\ \A c \in Clients : at[c] # "assign"
    /\ \A c \in Clients : at[c] = "assign" =>
           /\ g_first_unintialized_msg = NoMsg
           /\ \A d \in Clients : at[d] = "assign" => c = d

(* ... a client sends its message only through the second once_flag, where *)
(* one at a time may be ...                                                *)
OnceOpen == /\ \A c \in Clients :
                   at[c] \in {"test", "push"} => g_save_first_unintialized_flag = "done"
            /\ \A c \in Clients : at[c] \in {"firsttest", "firstpush"} =>
                   /\ g_save_first_unintialized_flag = "running"
                   /\ \A d \in Clients : at[d] \in {"firsttest", "firstpush"} => c = d
NothingYet == g_save_first_unintialized_flag # "done" =>
                  \A i \in 1..Len(sent) : sent[i] = Quit \/ sent[i].kind # "write"

(* ... and what was sent is in the order that the file is to have.         *)
Before(a, b, first) == /\ a.msg[1] = b.msg[1] =>
                             \/ a.msg[2] < b.msg[2]
                             \/ a = Write(b.msg) /\ b = FatalJob(b.msg)
                             \/ b = first
                       /\ a.kind = "write" => b # first
SentInOrder ==
    \A i, j \in 1..Len(sent) : i < j /\ IsEntry(sent[i]) /\ IsEntry(sent[j]) =>
        Before(sent[i], sent[j], FirstEntry)
OrderInv == AllPassed /\ AssignedOnce /\ OnceOpen /\ NothingYet /\ SentInOrder

(* A client begins a call, or goes on, or nothing happens to the clients.  *)
LEMMA ClientStep ==
    ASSUME TInv, [Next]_vars
    PROVE  \/ UNCHANGED <<at, calls>>
           \/ \E c \in Clients, p \in Places :
                  /\ at' = [at EXCEPT ![c] = p] /\ calls' = calls
                  /\ p \in Saving => at[c] \in Saving
                  /\ p \in Unsent => at[c] \in Unsent
           \/ \E c \in Clients, p \in Places :
                  at[c] = "idle" /\ at' = [at EXCEPT ![c] = p]
                  /\ calls' = [calls EXCEPT ![c] = @ + 1]
<1> DEFINE Goes(c) == \E p \in Places : /\ at' = [at EXCEPT ![c] = p] /\ calls' = calls
                                        /\ p \in Saving => at[c] \in Saving
                                        /\ p \in Unsent => at[c] \in Unsent
           Begins(c) == \E p \in Places : /\ at[c] = "idle" /\ at' = [at EXCEPT ![c] = p]
                                          /\ calls' = [calls EXCEPT ![c] = @ + 1]
<1> USE DEF Places, Saving, Unsent, Goto
<1>1. ASSUME NEW c \in Clients,
             \/ \E w \in usage.loggers : InitializeLogging(c, w)
             \/ ShutDownLogging(c) \/ Log(c) \/ ChangeLogFile(c)
      PROVE  Begins(c)
  BY <1>1 DEF InitializeLogging, ShutDownLogging, Log, ChangeLogFile, Call
<1>2. ASSUME NEW c \in Clients, CheckInitialized(c) PROVE Goes(c)
  BY <1>2 DEF CheckInitialized
<1>3. ASSUME NEW c \in Clients, SetFirst(c) PROVE Goes(c)
  BY <1>3 DEF SetFirst, AfterSave
<1>4. ASSUME NEW c \in Clients, SaveFirstOnce(c) PROVE Goes(c)
  BY <1>4 DEF SaveFirstOnce
<1>5. ASSUME NEW c \in Clients, SaveFirst(c) PROVE Goes(c)
  BY <1>5 DEF SaveFirst, TestPimpl, PushJob
<1>6. ASSUME NEW c \in Clients, Save(c) PROVE Goes(c)
  BY <1>6 DEF Save, TestPimpl, PushJob, AfterSave
<1>7. ASSUME NEW c \in Clients, FatalCall(c) \/ FatalReturn(c) \/ Swallow(c) PROVE Goes(c)
  BY <1>7 DEF FatalCall, FatalReturn, Swallow, TestPimpl, PushJob
<1>8. ASSUME (\E c \in Clients : EndProgram(c)) \/ Background \/ PimplReset \/ Destructor
                 \/ UNCHANGED vars
      PROVE  UNCHANGED <<at, calls>>
  BY <1>8 DEF EndProgram, Background, RunLoop, BackgroundFileWrite, BackgroundChangeLogFile,
              FatalFlush, FatalShutDown,
              DoDone, PimplReset, Destructor, BgReset, CompareActive, Retire, clients, vars
<1> HIDE DEF Places, Saving, Unsent, Goto
<1>9. (\E c \in Clients : Goes(c) \/ Begins(c)) \/ UNCHANGED <<at, calls>>
  <2> HIDE DEF Goes, Begins
  <2> QED BY <1>1, <1>2, <1>3, <1>4, <1>5, <1>6, <1>7, <1>8 DEF Next, Logging
<1> QED BY <1>9

LEMMA PassedStays ==
    ASSUME TInv, [Next]_vars, NEW m \in Msgs, NEW places \in {Saving, Unsent},
           Passed(m, places)
    PROVE  Passed(m, places)'
<1>0. /\ m[1] \in Clients /\ m[2] \in Nat
      /\ calls[m[1]] \in Nat
      /\ at \in [Clients -> Places] /\ calls \in [Clients -> 0..usage.calls]
      /\ usage.calls \in Nat
  BY UsageFacts DEF TInv, TypeOK, Msgs
<1> QED BY <1>0, ClientStep DEF Passed, Saving, Unsent

(* What is sent, and by whom.                                              *)
LEMMA SentStep ==
    ASSUME TInv, [Next]_vars
    PROVE  \/ sent' = sent
           \/ sent' = Append(sent, Quit) /\ UNCHANGED globals
           \/ \E c \in Clients :
                 /\ at[c] = "firstpush" /\ ~BeingSet
                 /\ sent' = Append(sent, Write(g_first_unintialized_msg))
                 /\ g_save_first_unintialized_flag' = "done"
                 /\ g_first_unintialized_msg' = g_first_unintialized_msg
           \/ \E c \in Clients :
                 /\ at[c] = "push"
                 /\ sent' = Append(sent, Write(Msg(c)))
                 /\ at' = [at EXCEPT ![c] = AfterSave(c)]
                 /\ UNCHANGED <<calls, globals>>
           \/ \E c \in Clients :
                 /\ at[c] = "fatalpush"
                 /\ sent' = Append(sent, FatalJob(Msg(c)))
                 /\ at' = [at EXCEPT ![c] = "fatalwait"]
                 /\ UNCHANGED <<calls, globals>>
           \/ \E c \in Clients :
                 /\ at[c] = "idle" /\ calls[c] < usage.calls
                 /\ sent' = Append(sent, Change(<<c, calls[c] + 1>>))
                 /\ at' = [at EXCEPT ![c] = "idle"]
                 /\ calls' = [calls EXCEPT ![c] = @ + 1]
                 /\ UNCHANGED globals
<1>1. ASSUME NEW c \in Clients, SaveFirst(c), sent' # sent
      PROVE  /\ at[c] = "firstpush" /\ ~BeingSet
             /\ sent' = Append(sent, Write(g_first_unintialized_msg))
             /\ g_save_first_unintialized_flag' = "done"
             /\ g_first_unintialized_msg' = g_first_unintialized_msg
  BY <1>1 DEF SaveFirst, TestPimpl, PushJob, SendJob, FirstOnceDone, active, Bg!Send
<1>2. ASSUME NEW c \in Clients, Save(c), sent' # sent
      PROVE  /\ at[c] = "push"
             /\ sent' = Append(sent, Write(Msg(c)))
             /\ at' = [at EXCEPT ![c] = AfterSave(c)]
             /\ UNCHANGED <<calls, globals>>
  BY <1>2 DEF Save, TestPimpl, PushJob, SendJob, Goto, active, Bg!Send
<1>3. ASSUME NEW c \in Clients, FatalCall(c), sent' # sent
      PROVE  /\ at[c] = "fatalpush"
             /\ sent' = Append(sent, FatalJob(Msg(c)))
             /\ at' = [at EXCEPT ![c] = "fatalwait"]
             /\ UNCHANGED <<calls, globals>>
  BY <1>3 DEF FatalCall, TestPimpl, PushJob, SendJob, Goto, active, Bg!Send
<1>c. ASSUME NEW c \in Clients, ChangeLogFile(c), sent' # sent
      PROVE  /\ at[c] = "idle" /\ calls[c] < usage.calls
             /\ sent' = Append(sent, Change(<<c, calls[c] + 1>>))
             /\ at' = [at EXCEPT ![c] = "idle"]
             /\ calls' = [calls EXCEPT ![c] = @ + 1]
             /\ UNCHANGED globals
  BY <1>c DEF ChangeLogFile, Call, SendJob, Goto, active, Bg!Send
<1>4. CASE BgReset
  BY <1>4 DEF BgReset, Bg!SendQuit, Bg!LoseQuit, Bg!Join
<1>5. ASSUME NEW c \in Clients,
             \/ \E w \in usage.loggers : InitializeLogging(c, w)
             \/ ShutDownLogging(c) \/ Log(c) \/ CheckInitialized(c) \/ SetFirst(c)
             \/ SaveFirstOnce(c) \/ FatalReturn(c) \/ EndProgram(c) \/ Swallow(c)
      PROVE  sent' = sent
  BY <1>5 DEF InitializeLogging, ShutDownLogging, Log, CheckInitialized, SetFirst,
              SaveFirstOnce, FatalReturn, EndProgram, Swallow, active
<1>6. ASSUME Background \/ PimplReset \/ CompareActive \/ Retire \/ UNCHANGED vars
      PROVE  sent' = sent
  BY <1>6 DEF Background, RunLoop, BackgroundFileWrite, BackgroundChangeLogFile,
              FatalFlush, FatalShutDown, DoDone,
              Bg!TestDone, Bg!Pop, Bg!Call, PimplReset, CompareActive, Retire, vars, active
<1> QED BY <1>1, <1>2, <1>3, <1>4, <1>5, <1>6, <1>c DEF Next, Logging, Destructor

(* The first uninitialized message is the one being assigned.              *)
LEMMA FirstStep ==
    ASSUME TInv, [Next]_vars
    PROVE  \/ g_first_unintialized_msg' = g_first_unintialized_msg
           \/ \E c \in Clients :
                 /\ at[c] = "assign"
                 /\ g_first_unintialized_msg' = Msg(c)
                 /\ at' = [at EXCEPT ![c] = AfterSave(c)]
                 /\ UNCHANGED <<calls, sent>>
<1>1. ASSUME NEW c \in Clients, SetFirst(c)
      PROVE  \/ g_first_unintialized_msg' = g_first_unintialized_msg
             \/ /\ at[c] = "assign"
                /\ g_first_unintialized_msg' = Msg(c)
                /\ at' = [at EXCEPT ![c] = AfterSave(c)]
                /\ UNCHANGED <<calls, sent>>
  BY <1>1 DEF SetFirst, Goto, active
<1>2. ASSUME NEW c \in Clients,
             \/ \E w \in usage.loggers : InitializeLogging(c, w)
             \/ ShutDownLogging(c) \/ Log(c) \/ CheckInitialized(c)
             \/ SaveFirstOnce(c) \/ FatalReturn(c) \/ EndProgram(c) \/ Swallow(c)
             \/ SaveFirst(c) \/ Save(c) \/ FatalCall(c) \/ ChangeLogFile(c)
      PROVE  g_first_unintialized_msg' = g_first_unintialized_msg
  BY <1>2 DEF InitializeLogging, ShutDownLogging, ClearLogger, Log, CheckInitialized,
              SaveFirstOnce, FatalReturn, EndProgram, Swallow, SaveFirst, FirstOnceDone, Save,
              FatalCall, ChangeLogFile, globals
<1>3. ASSUME Background \/ PimplReset \/ Destructor \/ UNCHANGED vars
      PROVE  g_first_unintialized_msg' = g_first_unintialized_msg
  BY <1>3 DEF Background, RunLoop, BackgroundFileWrite, BackgroundChangeLogFile,
              FatalFlush, FatalShutDown, DoDone,
              ClearLogger, PimplReset, Destructor, BgReset, CompareActive, Retire, vars, globals
<1> QED BY <1>1, <1>2, <1>3 DEF Next, Logging

LEMMA AllPassedNext == ASSUME TInv, TInv', AllPassed, [Next]_vars PROVE AllPassed'
<1> DEFINE NowIn(m, places) == /\ m[2] <= calls'[m[1]]
                               /\ at'[m[1]] \in places => m[2] < calls'[m[1]]
           Now(j) == /\ NowIn(j.msg, Saving)
                     /\ j.kind = "fatal" => NowIn(j.msg, Unsent)
           AllNow == \A i \in 1..Len(sent') : sent'[i] # Quit => Now(sent'[i])
<1>0. /\ sent \in Seq(Bg!Callbacks) /\ Len(sent) \in Nat
      /\ \A i \in 1..Len(sent) : sent[i] \in Bg!Callbacks
      /\ at \in [Clients -> Places] /\ calls \in [Clients -> 0..usage.calls]
      /\ usage.calls \in Nat
  BY Lengths, ElementOfSeq, UsageFacts DEF TInv, TypeOK, Bg!TypeOK
<1>p. ASSUME NEW m \in Msgs, NEW places \in {Saving, Unsent}, Passed(m, places)
      PROVE  NowIn(m, places)
  <2>1. Passed(m, places)'
    BY <1>p, PassedStays
  <2> QED BY <2>1 DEF Passed
<1> HIDE DEF NowIn
<1>2. ASSUME NEW i \in 1..Len(sent), sent[i] # Quit PROVE Now(sent[i])
  <2>1. sent[i].msg \in Msgs /\ JobPassed(sent[i])
    BY <1>0, <1>2 DEF Bg!Callbacks, Jobs, AllPassed
  <2> QED BY <1>p, <2>1 DEF JobPassed
<1> HIDE DEF Now
<1>3. g_first_unintialized_msg # NoMsg => NowIn(g_first_unintialized_msg, Saving)
  BY <1>p DEF AllPassed, TInv, TypeOK
<1>4. AllNow
  <2>1. ASSUME NEW j \in Bg!Callbacks, sent' = Append(sent, j), j # Quit => Now(j)
        PROVE  AllNow
    <3>1. /\ Len(sent') = Len(sent) + 1
          /\ \A i \in 1..Len(sent) : sent'[i] = sent[i]
          /\ sent'[Len(sent) + 1] = j
      BY <1>0, <2>1, AppendProperties
    <3>2. \A i \in 1..Len(sent') : i \in 1..Len(sent) \/ i = Len(sent) + 1
      BY <1>0, <3>1
    <3> QED BY <1>2, <2>1, <3>1, <3>2
  <2>quiet. CASE sent' = sent
    BY <1>2, <2>quiet
  <2>quit. CASE sent' = Append(sent, Quit)
    BY <2>1, <2>quit DEF Bg!Callbacks
  <2>first. ASSUME NEW c \in Clients, at[c] = "firstpush", ~BeingSet,
                   sent' = Append(sent, FirstEntry)
            PROVE  AllNow
    <3>1. g_first_unintialized_msg # NoMsg /\ FirstEntry \in Jobs
      BY <2>first, FirstFacts DEF TInv, ClientInv, BeingSet, FirstEntry
    <3>2. Now(FirstEntry)
      BY <1>3, <3>1 DEF Now, FirstEntry, Write
    <3> QED BY <2>1, <2>first, <3>1, <3>2 DEF Bg!Callbacks
  <2>own. ASSUME NEW c \in Clients, NEW j \in Jobs, j.msg = Msg(c), NEW p,
                 at' = [at EXCEPT ![c] = p], p \notin Saving,
                 j.kind = "fatal" => p \notin Unsent,
                 calls' = calls, sent' = Append(sent, j)
          PROVE  AllNow
    <3>1. Now(j)
      BY <1>0, <2>own DEF Now, NowIn, Msg
    <3> QED BY <2>1, <2>own, <3>1 DEF Bg!Callbacks
  <2>write. ASSUME NEW c \in Clients, at[c] = "push", sent' = Append(sent, Write(Msg(c))),
                   at' = [at EXCEPT ![c] = AfterSave(c)], UNCHANGED <<calls, globals>>
            PROVE  AllNow
    <3>1. /\ Write(Msg(c)) \in Jobs /\ Write(Msg(c)).msg = Msg(c)
          /\ Write(Msg(c)).kind # "fatal" /\ AfterSave(c) \notin Saving
      BY <2>write, MsgFacts DEF TInv, AfterSave, Saving, Write
    <3> QED BY <2>own, <2>write, <3>1
  <2>fatal. ASSUME NEW c \in Clients, at[c] = "fatalpush",
                   sent' = Append(sent, FatalJob(Msg(c))),
                   at' = [at EXCEPT ![c] = "fatalwait"], UNCHANGED <<calls, globals>>
            PROVE  AllNow
    <3>1. /\ FatalJob(Msg(c)) \in Jobs /\ FatalJob(Msg(c)).msg = Msg(c)
          /\ "fatalwait" \notin Saving /\ "fatalwait" \notin Unsent
      BY <2>fatal, MsgFacts DEF TInv, Saving, Unsent, FatalJob
    <3> QED BY <2>own, <2>fatal, <3>1
  <2>change. ASSUME NEW c \in Clients, calls[c] < usage.calls,
                    sent' = Append(sent, Change(<<c, calls[c] + 1>>)),
                    at' = [at EXCEPT ![c] = "idle"],
                    calls' = [calls EXCEPT ![c] = @ + 1]
             PROVE  AllNow
    <3> DEFINE j == Change(<<c, calls[c] + 1>>)
    <3>1. calls[c] + 1 \in 1..MaxCalls
      BY <1>0, <2>change, UsageFacts DEF TInv
    <3>2. j \in Jobs /\ j.msg = <<c, calls[c] + 1>> /\ j.kind # "fatal"
      BY <3>1 DEF Change, Msgs, Jobs
    <3>3. Now(j)
      BY <1>0, <2>change, <3>2 DEF Now, NowIn, Saving
    <3> HIDE DEF j
    <3> QED BY <2>1, <2>change, <3>2, <3>3 DEF Bg!Callbacks, j
  <2> HIDE DEF AllNow
  <2> QED
    BY <2>quiet, <2>quit, <2>first, <2>write, <2>fatal, <2>change, SentStep DEF FirstEntry
<1>5. g_first_unintialized_msg' # NoMsg => NowIn(g_first_unintialized_msg', Saving)
  <2>1. CASE g_first_unintialized_msg' = g_first_unintialized_msg
    BY <1>3, <2>1
  <2>2. ASSUME NEW c \in Clients, g_first_unintialized_msg' = Msg(c),
               at' = [at EXCEPT ![c] = AfterSave(c)], calls' = calls
        PROVE  NowIn(g_first_unintialized_msg', Saving)
    BY <1>0, <2>2 DEF NowIn, Msg, AfterSave, Saving
  <2> QED BY <2>1, <2>2, FirstStep
<1> QED BY <1>4, <1>5 DEF AllPassed, JobPassed, Passed, Now, NowIn

LEMMA AssignedOnceNext == ASSUME TInv, AssignedOnce, [Next]_vars PROVE AssignedOnce'
<1> DEFINE flag == g_set_first_uninitialized_flag
           first == g_first_unintialized_msg
<1>0. at \in [Clients -> Places]
  BY DEF TInv, TypeOK
<1>1. ASSUME NEW c \in Clients, SetFirst(c) PROVE AssignedOnce'
  <2>1. CASE at[c] = "setfirst" /\ flag
    BY <1>0, <1>1, <2>1 DEF SetFirst, Goto, AfterSave, AssignedOnce
  <2>2. CASE at[c] = "setfirst" /\ ~flag
    BY <1>0, <1>1, <2>2 DEF SetFirst, Goto, AssignedOnce
  <2>3. CASE at[c] = "assign"
    <3>1. /\ flag /\ flag' = flag /\ at' = [at EXCEPT ![c] = AfterSave(c)]
          /\ \A d \in Clients : at[d] = "assign" => c = d
      BY <1>1, <2>3 DEF SetFirst, Goto, AssignedOnce
    <3>2. \A d \in Clients : at'[d] # "assign"
      BY <1>0, <3>1 DEF AfterSave
    <3> QED BY <3>1, <3>2 DEF AssignedOnce
  <2> QED BY <1>1, <2>1, <2>2, <2>3 DEF SetFirst
<1>2. ASSUME NEW c \in Clients, NEW p, p # "assign", at' = [at EXCEPT ![c] = p],
             UNCHANGED <<g_set_first_uninitialized_flag, g_first_unintialized_msg>>
      PROVE  AssignedOnce'
  BY <1>0, <1>2 DEF AssignedOnce
<1>3. ASSUME NEW c \in Clients,
             \/ \E w \in usage.loggers : InitializeLogging(c, w)
             \/ ShutDownLogging(c) \/ Log(c) \/ ChangeLogFile(c)
      PROVE  AssignedOnce'
  BY <1>2, <1>3
     DEF InitializeLogging, ShutDownLogging, ClearLogger, Log, ChangeLogFile, Call, Goto, globals
<1>4. ASSUME NEW c \in Clients,
             CheckInitialized(c) \/ SaveFirstOnce(c) \/ FatalReturn(c) \/ Swallow(c)
      PROVE  AssignedOnce'
  BY <1>2, <1>4 DEF CheckInitialized, SaveFirstOnce, FatalReturn, Swallow, Goto, globals
<1>5. ASSUME NEW c \in Clients, SaveFirst(c) \/ Save(c) \/ FatalCall(c)
      PROVE  AssignedOnce'
  BY <1>2, <1>5
     DEF SaveFirst, FirstOnceDone, Save, FatalCall, TestPimpl, PushJob, AfterSave, Goto, globals
<1>6. ASSUME (\E c \in Clients : EndProgram(c)) \/ Background \/ PimplReset \/ Destructor
                 \/ UNCHANGED vars
      PROVE  AssignedOnce'
  <2>1. at' = at /\ flag' = flag /\ first' = first
    BY <1>6
       DEF EndProgram, Background, RunLoop, BackgroundFileWrite, BackgroundChangeLogFile,
           FatalFlush, FatalShutDown,
           DoDone, ClearLogger, PimplReset, Destructor, BgReset, CompareActive, Retire, clients,
           globals, vars
  <2> QED BY <2>1 DEF AssignedOnce
<1> QED BY <1>1, <1>3, <1>4, <1>5, <1>6 DEF Next, Logging

LEMMA OnceOpenNext == ASSUME TInv, OnceOpen, [Next]_vars PROVE OnceOpen'
<1> DEFINE flag == g_save_first_unintialized_flag
           In1 == {"firsttest", "firstpush"}
           In2 == {"test", "push"}
<1>0. at \in [Clients -> Places] /\ flag \in {"unset", "running", "done"}
  BY DEF TInv, TypeOK
<1>1. ASSUME NEW c \in Clients, NEW p \in Places, at' = [at EXCEPT ![c] = p], flag' = flag,
             p \in In1 => at[c] \in In1,
             p \in In2 => flag = "done"
      PROVE  OnceOpen'
  BY <1>0, <1>1 DEF OnceOpen
<1>2. ASSUME NEW c \in Clients, NEW p \in Places, at' = [at EXCEPT ![c] = p], p \notin In1,
             at[c] \in In1,
             flag' = "done" \/ (p \notin In2 /\ flag' = "unset")
      PROVE  OnceOpen'
  BY <1>0, <1>2 DEF OnceOpen
<1>3. ASSUME NEW c \in Clients, CheckInitialized(c) PROVE OnceOpen'
  BY <1>1, <1>3 DEF CheckInitialized, Goto, Places, globals
<1>4. ASSUME NEW c \in Clients, SetFirst(c) PROVE OnceOpen'
  BY <1>1, <1>4 DEF SetFirst, Goto, Places, AfterSave
<1>5. ASSUME NEW c \in Clients, SaveFirstOnce(c) PROVE OnceOpen'
  BY <1>0, <1>5 DEF SaveFirstOnce, Goto, Places, OnceOpen
<1>6. ASSUME NEW c \in Clients, SaveFirst(c) PROVE OnceOpen'
  <2>1. CASE at[c] = "firsttest" /\ Skips
    BY <1>2, <1>6, <2>1 DEF SaveFirst, TestPimpl, FirstOnceDone, Goto, Places
  <2>2. CASE at[c] = "firsttest" /\ ~Skips
    BY <1>1, <1>6, <2>2 DEF SaveFirst, TestPimpl, globals, Goto, Places
  <2>3. CASE at[c] = "firstpush"
    BY <1>2, <1>6, <2>3 DEF SaveFirst, PushJob, FirstOnceDone, Goto, Places
  <2> QED BY <1>6, <2>1, <2>2, <2>3 DEF SaveFirst
<1>7. ASSUME NEW c \in Clients, Save(c) PROVE OnceOpen'
  <2>1. AfterSave(c) \in Places \ (In1 \cup In2)
    BY DEF AfterSave, Places
  <2>2. at[c] \in In2 /\ flag = "done" /\ flag' = flag
    BY <1>7 DEF Save, OnceOpen, globals
  <2>3. PICK p \in {AfterSave(c), "push"} : at' = [at EXCEPT ![c] = p]
    BY <1>7 DEF Save, TestPimpl, PushJob, Goto
  <2> QED BY <1>1, <2>1, <2>2, <2>3 DEF Places
<1>8. ASSUME NEW c \in Clients, FatalCall(c) \/ FatalReturn(c) PROVE OnceOpen'
  BY <1>1, <1>8 DEF FatalCall, FatalReturn, TestPimpl, PushJob, Goto, Places, globals
<1>9. ASSUME NEW c \in Clients, Swallow(c) PROVE OnceOpen'
  <2>1. CASE at[c] \in In1
    BY <1>2, <1>9, <2>1 DEF Swallow, Goto, Places
  <2>2. CASE at[c] \in In2
    <3>1. flag' = "done" /\ flag = "done" /\ at' = [at EXCEPT ![c] = "idle"]
      BY <1>9, <2>2 DEF Swallow, Goto, OnceOpen
    <3> QED BY <1>1, <3>1 DEF Places
  <2> QED BY <1>9, <2>1, <2>2 DEF Swallow
<1>10. ASSUME NEW c \in Clients,
              \/ \E w \in usage.loggers : InitializeLogging(c, w)
              \/ ShutDownLogging(c) \/ Log(c) \/ ChangeLogFile(c)
       PROVE  OnceOpen'
  BY <1>1, <1>10
     DEF InitializeLogging, ShutDownLogging, ClearLogger, Log, ChangeLogFile, Call, Goto, Places,
         globals
<1>11. ASSUME (\E c \in Clients : EndProgram(c)) \/ Background \/ PimplReset \/ Destructor
                  \/ UNCHANGED vars
       PROVE  OnceOpen'
  <2>1. at' = at /\ flag' = flag
    BY <1>11
       DEF EndProgram, Background, RunLoop, BackgroundFileWrite, BackgroundChangeLogFile,
           FatalFlush, FatalShutDown,
           DoDone, ClearLogger, PimplReset, Destructor, BgReset, CompareActive, Retire, clients,
           globals, vars
  <2> QED BY <2>1 DEF OnceOpen
<1> QED BY <1>3, <1>4, <1>5, <1>6, <1>7, <1>8, <1>9, <1>10, <1>11 DEF Next, Logging

(* The flag goes back only while nothing has been written through it.      *)
LEMMA FlagStep ==
    ASSUME TInv, OnceOpen, [Next]_vars, g_save_first_unintialized_flag = "done"
    PROVE  g_save_first_unintialized_flag' = "done"
<1>1. ASSUME NEW c \in Clients,
             CheckInitialized(c) \/ SetFirst(c) \/ SaveFirstOnce(c) \/ Swallow(c)
      PROVE  g_save_first_unintialized_flag' = "done"
  BY <1>1 DEF CheckInitialized, SetFirst, SaveFirstOnce, Swallow, OnceOpen, globals
<1>2. ASSUME NEW c \in Clients,
             SaveFirst(c) \/ Save(c) \/ FatalCall(c) \/ FatalReturn(c) \/ EndProgram(c)
      PROVE  g_save_first_unintialized_flag' = "done"
  BY <1>2 DEF SaveFirst, FirstOnceDone, Save, FatalCall, FatalReturn, EndProgram, globals
<1>3. ASSUME NEW c \in Clients,
             \/ \E w \in usage.loggers : InitializeLogging(c, w)
             \/ ShutDownLogging(c) \/ Log(c) \/ ChangeLogFile(c)
      PROVE  g_save_first_unintialized_flag' = "done"
  BY <1>3 DEF InitializeLogging, ShutDownLogging, ClearLogger, Log, ChangeLogFile, globals
<1>4. ASSUME Background \/ PimplReset \/ Destructor \/ UNCHANGED vars
      PROVE  g_save_first_unintialized_flag' = "done"
  BY <1>4
     DEF Background, RunLoop, BackgroundFileWrite, BackgroundChangeLogFile,
         FatalFlush, FatalShutDown, DoDone,
         ClearLogger, PimplReset, Destructor, BgReset, CompareActive, Retire, globals, vars
<1> QED BY <1>1, <1>2, <1>3, <1>4 DEF Next, Logging

LEMMA NothingYetNext ==
    ASSUME TInv, OnceOpen, NothingYet, [Next]_vars
    PROVE  NothingYet'
<1> DEFINE Nothing == \A i \in 1..Len(sent') : sent'[i] = Quit \/ sent'[i].kind # "write"
<1> SUFFICES ASSUME g_save_first_unintialized_flag' # "done" PROVE Nothing
  BY DEF NothingYet
<1>0. sent \in Seq(Bg!Callbacks) /\ Len(sent) \in Nat
  BY Lengths DEF TInv, TypeOK, Bg!TypeOK
<1>1. /\ g_save_first_unintialized_flag # "done"
      /\ \A i \in 1..Len(sent) : sent[i] = Quit \/ sent[i].kind # "write"
  BY FlagStep DEF NothingYet
<1>2. ASSUME NEW x, sent' = Append(sent, x), x = Quit \/ x.kind # "write"
      PROVE  Nothing
  <2>1. /\ Len(sent') = Len(sent) + 1
        /\ \A i \in 1..Len(sent) : sent'[i] = sent[i]
        /\ sent'[Len(sent) + 1] = x
    BY <1>0, <1>2
  <2>2. \A i \in 1..Len(sent') : i \in 1..Len(sent) \/ i = Len(sent) + 1
    BY <1>0, <2>1
  <2> QED BY <1>1, <1>2, <2>1, <2>2
<1>3. CASE sent' = sent
  BY <1>1, <1>3
<1>4. CASE sent' = Append(sent, Quit)
  BY <1>2, <1>4
<1>5. ASSUME NEW c \in Clients, at[c] = "push" PROVE FALSE
  BY <1>1, <1>5 DEF OnceOpen
<1>6. ASSUME NEW m, sent' = Append(sent, FatalJob(m)) \/ sent' = Append(sent, Change(m))
      PROVE  Nothing
  BY <1>2, <1>6 DEF FatalJob, Change
<1> HIDE DEF Nothing
<1> QED BY <1>3, <1>4, <1>5, <1>6, SentStep

(* What is sent last comes after everything before it.                     *)
LEMMA LastInOrder ==
    ASSUME TInv, OrderInv, [Next]_vars, sent' # sent,
           NEW x, sent' = Append(sent, x), IsEntry(x),
           NEW i \in 1..Len(sent), IsEntry(sent[i])
    PROVE  Before(sent[i], x, FirstEntry)
<1>0. /\ sent \in Seq(Bg!Callbacks) /\ Len(sent) \in Nat
      /\ sent[i] \in Bg!Callbacks
      /\ calls \in [Clients -> 0..usage.calls] /\ usage.calls \in Nat
  BY Lengths, ElementOfSeq, UsageFacts DEF TInv, TypeOK, Bg!TypeOK
<1>1. /\ sent[i] # Quit /\ sent[i] \in Jobs /\ sent[i].msg \in Msgs
      /\ sent[i] = Write(sent[i].msg) \/ sent[i].kind = "fatal"
      /\ Passed(sent[i].msg, Saving)
      /\ sent[i].kind = "fatal" => Passed(sent[i].msg, Unsent)
  BY <1>0 DEF IsEntry, Bg!Callbacks, Jobs, Write, OrderInv, AllPassed, JobPassed
<1>l. Len(Append(sent, x)) = Len(sent) + 1 /\ Append(sent, x)[Len(sent) + 1] = x
  BY <1>0
<1>x. ASSUME NEW y, sent' = Append(sent, y) PROVE x = y
  <2>1. Append(sent, y)[Len(sent) + 1] = y
    BY <1>0
  <2> QED BY <1>l, <1>x, <2>1
<1>first. ASSUME NEW c \in Clients, at[c] = "firstpush", x = FirstEntry
          PROVE  Before(sent[i], x, FirstEntry)
  <2>1. g_save_first_unintialized_flag # "done"
    BY <1>first DEF OrderInv, OnceOpen
  <2>2. sent[i].kind # "write"
    BY <1>1, <2>1 DEF OrderInv, NothingYet
  <2> QED BY <1>first, <2>2 DEF Before
<1>write. ASSUME NEW c \in Clients, at[c] = "push", x = Write(Msg(c))
          PROVE  Before(sent[i], x, FirstEntry)
  <2>1. x.msg = Msg(c) /\ Msg(c) = <<c, calls[c]>>
    BY <1>write DEF Write, Msg
  <2>2. sent[i].msg[1] = c => sent[i].msg[2] < calls[c]
    BY <1>1, <1>write DEF Passed, Saving
  <2>3. ASSUME x = FirstEntry PROVE FALSE
    <3>1. g_first_unintialized_msg = Msg(c)
      BY <1>write, <2>3 DEF Write, FirstEntry
    <3>2. Msg(c) # NoMsg
      BY DEF Msg, NoMsg
    <3>3. Passed(Msg(c), Saving)
      BY <3>1, <3>2 DEF OrderInv, AllPassed
    <3> QED BY <1>0, <1>write, <2>1, <3>3 DEF Passed, Saving
  <2> QED BY <2>1, <2>2, <2>3 DEF Before
<1>fatal. ASSUME NEW c \in Clients, at[c] = "fatalpush", x = FatalJob(Msg(c))
          PROVE  Before(sent[i], x, FirstEntry)
  <2>1. x.msg = Msg(c) /\ Msg(c) = <<c, calls[c]>> /\ x.kind = "fatal"
    BY <1>fatal DEF FatalJob, Msg
  <2>2. sent[i].msg[1] = c => sent[i].msg[2] <= calls[c]
    BY <1>1 DEF Passed
  <2>3. sent[i].msg[1] = c /\ sent[i].kind = "fatal" => sent[i].msg[2] < calls[c]
    BY <1>1, <1>fatal DEF Passed, Unsent
  <2>4. ASSUME sent[i].msg[1] = c, sent[i].msg[2] = calls[c] PROVE sent[i].msg = x.msg
    BY <1>1, <2>1, <2>4 DEF Msgs
  <2>5. sent[i].msg[2] \in Nat /\ calls[c] \in Nat
    BY <1>0, <1>1, UsageFacts DEF Msgs, TInv
  <2>6. x # FirstEntry
    BY <2>1 DEF Write, FirstEntry
  <2>7. x = FatalJob(x.msg)
    BY <1>fatal, <2>1
  <2>8. CASE sent[i].msg[1] # c
    BY <2>1, <2>6, <2>8 DEF Before
  <2>9. CASE sent[i].msg[1] = c /\ sent[i].msg[2] < calls[c]
    BY <2>1, <2>6, <2>9 DEF Before
  <2>10. CASE sent[i].msg[1] = c /\ sent[i].msg[2] = calls[c]
    <3>1. sent[i].msg = x.msg
      BY <2>4, <2>10
    <3>2. sent[i] = Write(x.msg)
      BY <1>1, <2>3, <2>5, <2>10, <3>1
    <3> QED BY <2>6, <2>7, <3>2 DEF Before
  <2> QED BY <2>2, <2>5, <2>8, <2>9, <2>10
<1>none. ASSUME NEW m, sent' = Append(sent, Quit) \/ sent' = Append(sent, Change(m))
         PROVE  FALSE
  BY <1>none, <1>x DEF IsEntry, Change
<1>some. \/ \E c \in Clients : at[c] = "firstpush" /\ x = FirstEntry
         \/ \E c \in Clients : at[c] = "push" /\ x = Write(Msg(c))
         \/ \E c \in Clients : at[c] = "fatalpush" /\ x = FatalJob(Msg(c))
  <2> HIDE DEF OrderInv
  <2> QED BY <1>none, <1>x, SentStep DEF FirstEntry
<1> QED BY <1>first, <1>write, <1>fatal, <1>some

LEMMA SentInOrderNext ==
    ASSUME TInv, TInv', OrderInv, [Next]_vars
    PROVE  SentInOrder'
<1> DEFINE new == Write(g_first_unintialized_msg')
<1>0. /\ sent \in Seq(Bg!Callbacks) /\ Len(sent) \in Nat
      /\ \A i \in 1..Len(sent) : sent[i] \in Bg!Callbacks
      /\ calls \in [Clients -> 0..usage.calls] /\ usage.calls \in Nat
  BY Lengths, ElementOfSeq, UsageFacts DEF TInv, TypeOK, Bg!TypeOK
<1>1. ASSUME NEW i \in 1..Len(sent), NEW j \in 1..Len(sent), i < j,
             IsEntry(sent[i]), IsEntry(sent[j])
      PROVE  Before(sent[i], sent[j], new)
  <2>1. Before(sent[i], sent[j], FirstEntry)
    BY <1>1 DEF OrderInv, SentInOrder
  <2>2. CASE g_first_unintialized_msg' = g_first_unintialized_msg
    BY <2>1, <2>2 DEF FirstEntry
  <2>3. ASSUME NEW c \in Clients, at[c] = "assign", g_first_unintialized_msg' = Msg(c)
        PROVE  Before(sent[i], sent[j], new)
    <3>1. sent[j] \in Jobs /\ JobPassed(sent[j])
      BY <1>0, <1>1 DEF IsEntry, Bg!Callbacks, OrderInv, AllPassed
    <3>2. sent[j] # FirstEntry
      <4>1. g_first_unintialized_msg = NoMsg
        BY <2>3 DEF OrderInv, AssignedOnce
      <4>2. sent[j].msg \in Msgs /\ NoMsg \notin Msgs
        BY <3>1 DEF Jobs, Msgs, NoMsg
      <4> QED BY <4>1, <4>2 DEF FirstEntry, Write
    <3>3. sent[j] # Write(Msg(c))
      <4> SUFFICES ASSUME sent[j] = Write(Msg(c)) PROVE FALSE
        OBVIOUS
      <4>1. sent[j].msg = <<c, calls[c]>> /\ Passed(sent[j].msg, Saving)
        BY <3>1 DEF Write, JobPassed, Msg
      <4>2. calls[c] < calls[c]
        BY <2>3, <4>1 DEF Passed, Saving
      <4>3. calls[c] \in Nat
        BY <1>0
      <4> QED BY <4>2, <4>3
    <3> QED BY <2>1, <2>3, <3>2, <3>3 DEF Before
  <2> QED BY <2>2, <2>3, FirstStep
<1> HIDE DEF new
<1>2. ASSUME NEW i \in 1..Len(sent'), NEW j \in 1..Len(sent'), i < j,
             IsEntry(sent'[i]), IsEntry(sent'[j])
      PROVE  Before(sent'[i], sent'[j], new)
  <2>1. CASE sent' = sent
    BY <1>1, <1>2, <2>1
  <2>2. ASSUME NEW x, sent' = Append(sent, x), sent' # sent
        PROVE  Before(sent'[i], sent'[j], new)
    <3>1. /\ Len(sent') = Len(sent) + 1
          /\ \A k \in 1..Len(sent) : sent'[k] = sent[k]
          /\ sent'[Len(sent) + 1] = x
      BY <1>0, <2>2
    <3>2. i \in 1..Len(sent) /\ sent'[i] = sent[i]
      BY <1>0, <1>2, <3>1
    <3>3. CASE j \in 1..Len(sent)
      BY <1>1, <1>2, <3>1, <3>2, <3>3
    <3>4. CASE j = Len(sent) + 1
      <4>1. g_first_unintialized_msg' = g_first_unintialized_msg
        BY <2>2, FirstStep
      <4>2. Before(sent[i], x, FirstEntry)
        BY <1>2, <2>2, <3>1, <3>2, <3>4, LastInOrder
      <4> QED BY <3>1, <3>2, <3>4, <4>1, <4>2 DEF new, FirstEntry
    <3> QED BY <1>0, <3>1, <3>3, <3>4
  <2> QED BY <2>1, <2>2, SentStep
<1> QED BY <1>2 DEF SentInOrder, Before, IsEntry, FirstEntry, Write, FatalJob, new

LEMMA OrderInvNext == TInv /\ TInv' /\ OrderInv /\ [Next]_vars => OrderInv'
BY AllPassedNext, AssignedOnceNext, OnceOpenNext, NothingYetNext, SentInOrderNext DEF OrderInv

LEMMA FileInOrderHolds == FileInv /\ OrderInv => FileInOrder
<1> SUFFICES ASSUME FileInv, OrderInv,
                    NEW i \in 1..Len(file), NEW j \in 1..Len(file), i < j
             PROVE  Before(file[i], file[j], FirstEntry)
  BY DEF FileInOrder, Before
<1>1. PICK x \in 1..Len(sent), z \in 1..Len(sent) :
          x < z /\ sent[x] = file[i] /\ sent[z] = file[j]
  BY DEF FileInv, FileStopsAtFatal
<1>2. IsEntry(sent[x]) /\ IsEntry(sent[z])
  BY <1>1 DEF FileInv
<1>3. Before(sent[x], sent[z], FirstEntry)
  BY <1>1, <1>2 DEF OrderInv, SentInOrder
<1> QED BY <1>1, <1>3

(* The file has the messages of a thread in the order of its LOG calls and *)
(* none twice, and the first uninitialized one before everything else,     *)
(* however the library is used: no second initialization, no exception     *)
(* swallowed inside a once_flag and no destructor reorders what is written.*)
THEOREM FileAlwaysInOrder == Spec => []FileInOrder
<1>1. Init => QueueInv /\ FileInv /\ OrderInv
  BY DEF Init, Bg!Init, Bg!Queue!Init, QueueInv, Control, RanFirst, RestQueued, Held, FileInv,
         FileStopsAtFatal, WholeUpToFatal, Dealt, OrderInv, AllPassed, AssignedOnce, OnceOpen,
         NothingYet, SentInOrder
<1>2. TInv /\ TInv' /\ QueueInv /\ FileInv /\ OrderInv /\ [Next]_vars
          => QueueInv' /\ FileInv' /\ OrderInv'
  BY FileInvNext, OrderInvNext, QueueInvNext, ActiveStep DEF TInv, TypeOK, HandInv
<1>3. FileInv /\ OrderInv => FileInOrder
  BY FileInOrderHolds
<1> QED BY <1>1, <1>2, <1>3, TInvAlways, PTL DEF Spec

-----------------------------------------------------------------------------
(* Used as documented.  Nothing fatal is ever sent ...                     *)
PlainJobs == \A i \in 1..Len(sent) : sent[i] = Quit \/ sent[i].kind # "fatal"
NotFatal == \A c \in Clients :
                /\ ~fatal[c]
                /\ at[c] \notin {"fatalcheck", "fataltest", "fatalpush", "fatalwait"}

(* ... a destructor has the API for itself, and what a client has tested   *)
(* stays true until its call is over: the pointer, the worker, and that    *)
(* there was no logger when it set the first message.                      *)
Alone == Destroying => Quiescent
Tested == \A c \in Clients :
              /\ at[c] \in {"once", "firsttest", "firstpush", "test", "push"} =>
                    \/ g_logger_instance = "other"
                    \/ g_logger_instance = "worker" /\ worker = "live"
              /\ at[c] \in {"firstpush", "push"} => worker = "live"
              /\ at[c] \in {"setfirst", "assign"} => g_logger_instance = "null"
Assigning == BeingSet => \E c \in Clients : at[c] = "assign"
Retired == worker = "gone" => g_logger_instance # "worker"

SafeInv == Running /\ PlainJobs /\ NotFatal /\ Alone /\ Tested /\ Assigning /\ Retired

LEMMA NoBadPointer ==
    ASSUME TInv, SafeInv, NEW c \in Clients
    PROVE  ~BadPointer(c)
<1>1. ~(at[c] = "firstpush" /\ BeingSet)
  BY DEF SafeInv, Assigning, Tested
<1> QED BY <1>1 DEF SafeInv, NotFatal, Tested, BadPointer, Follow

LEMMA HandIsPlain ==
    ASSUME TInv, QueueInv, PlainJobs
    PROVE  /\ ~closed
           /\ pc = "call" => func = Quit \/ func.kind # "fatal"
<1>1. pc = "call" => func = Quit \/ func.kind # "fatal"
  BY DealtFacts DEF PlainJobs
<1>2. closed => pc = "call" /\ func # Quit /\ func.kind = "fatal"
  BY DEF TInv, HandInv, FatalInHand
<1> QED BY <1>1, <1>2

LEMMA PlainNext ==
    ASSUME TInv, SafeInv, [Next]_vars
    PROVE  PlainJobs'
<1> DEFINE Plain(j) == j = Quit \/ j.kind # "fatal"
<1>0. /\ sent \in Seq(Bg!Callbacks) /\ Len(sent) \in Nat
      /\ \A i \in 1..Len(sent) : Plain(sent[i])
  BY Lengths DEF TInv, TypeOK, Bg!TypeOK, SafeInv, PlainJobs
<1>1. ASSUME NEW j, Plain(j), sent' = Append(sent, j)
      PROVE  PlainJobs'
  <2>1. /\ Len(sent') = Len(sent) + 1
        /\ \A i \in 1..Len(sent) : sent'[i] = sent[i]
        /\ sent'[Len(sent) + 1] = j
    BY <1>0, <1>1
  <2>2. \A i \in 1..Len(sent') : i \in 1..Len(sent) \/ i = Len(sent) + 1
    BY <1>0, <2>1
  <2> QED BY <1>0, <1>1, <2>1, <2>2 DEF PlainJobs
<1>2. CASE sent' = sent
  BY <1>0, <1>2 DEF PlainJobs
<1>3. Plain(Quit) /\ \A m : Plain(Write(m)) /\ Plain(Change(m))
  BY DEF Write, Change
<1>4. \A c \in Clients : at[c] # "fatalpush"
  BY DEF SafeInv, NotFatal
<1> HIDE DEF Plain
<1> QED BY <1>1, <1>2, <1>3, <1>4, SentStep

OwnSafe == Running /\ NotFatal /\ Alone /\ Tested /\ Assigning /\ Retired

LEMMA OwnSafeNext ==
    ASSUME TInv, QueueInv, SafeInv, Documented, [Next]_vars
    PROVE  OwnSafe'
<1>0. /\ usage.racing = {} /\ ~usage.fatal /\ ~usage.secondInit
      /\ at \in [Clients -> Places] /\ fatal \in [Clients -> BOOLEAN]
      /\ g_set_first_uninitialized_flag \in BOOLEAN
      /\ worker \in {"live", "reset", "retiring", "gone"}
      /\ g_logger_instance \in {"null", "worker", "other"}
  BY UsageFacts DEF TInv, TypeOK, Documented, Orderly
<1>s. Running /\ NotFatal /\ Alone /\ Tested /\ Assigning /\ Retired /\ ~closed
  BY HandIsPlain DEF SafeInv
(* A call that begins.                                                     *)
<1>1. ASSUME NEW c \in Clients, NEW p \in {"idle", "check"}, Call(c, FALSE, p),
             UNCHANGED <<crashed, worker, g_first_unintialized_msg,
                         g_set_first_uninitialized_flag>>,
             g_logger_instance' = g_logger_instance \/ Quiescent,
             g_logger_instance' = "worker" => g_logger_instance = "worker" \/ worker = "live"
      PROVE  OwnSafe'
  <2>1. /\ at' = [at EXCEPT ![c] = p] /\ fatal' = [fatal EXCEPT ![c] = FALSE]
        /\ at[c] = "idle" /\ ~Destroying
    BY <1>0, <1>1 DEF Call, Goto
  <2>2. NotFatal' /\ Running'
    BY <1>0, <1>s, <1>1, <2>1 DEF NotFatal, Running
  <2>3. Alone'
    BY <1>1, <2>1 DEF Alone, Destroying
  <2>4. Tested'
    BY <1>0, <1>s, <1>1, <2>1 DEF Tested, Quiescent
  <2>5. Assigning'
    <3>1. ASSUME NEW d \in Clients, at[d] = "assign" PROVE at'[d] = "assign"
      BY <1>0, <2>1, <3>1
    <3> QED BY <1>0, <1>s, <1>1, <3>1 DEF Assigning, BeingSet
  <2>6. Retired'
    BY <1>s, <1>1, <2>1 DEF Retired, Destroying
  <2> QED BY <2>2, <2>3, <2>4, <2>5, <2>6 DEF OwnSafe
(* A call that moves on.                                                   *)
<1>2. ASSUME NEW c \in Clients, NEW p \in Places, Goto(c, p), at[c] # "idle",
             at[c] # "assign" \/ g_first_unintialized_msg' # NoMsg,
             p \notin {"fatalcheck", "fataltest", "fatalpush", "fatalwait"},
             p \in {"once", "firsttest", "firstpush", "test", "push"} =>
                 \/ g_logger_instance = "other"
                 \/ g_logger_instance = "worker" /\ worker = "live",
             p \in {"firstpush", "push"} => worker = "live",
             p \in {"setfirst", "assign"} => g_logger_instance = "null",
             UNCHANGED <<fatal, crashed, worker, g_logger_instance>>,
             \/ UNCHANGED <<g_first_unintialized_msg, g_set_first_uninitialized_flag>>
             \/ p = "assign"
             \/ g_first_unintialized_msg' # NoMsg
      PROVE  OwnSafe'
  <2>1. at' = [at EXCEPT ![c] = p]
    BY <1>2 DEF Goto
  <2>2. NotFatal' /\ Running'
    BY <1>0, <1>s, <1>2, <2>1 DEF NotFatal, Running
  <2>3. Alone'
    BY <1>s, <1>2 DEF Alone, Destroying, Quiescent
  <2>4. Tested'
    BY <1>0, <1>s, <1>2, <2>1 DEF Tested
  <2>5. Assigning'
    <3>1. CASE g_first_unintialized_msg' # NoMsg
      BY <3>1 DEF Assigning, BeingSet
    <3>2. CASE p = "assign"
      BY <1>0, <2>1, <3>2 DEF Assigning
    <3>3. CASE /\ at[c] # "assign"
               /\ UNCHANGED <<g_first_unintialized_msg, g_set_first_uninitialized_flag>>
      <4>1. ASSUME NEW d \in Clients, at[d] = "assign" PROVE at'[d] = "assign"
        BY <1>0, <2>1, <3>3, <4>1
      <4> QED BY <1>0, <1>s, <3>3, <4>1 DEF Assigning, BeingSet
    <3> QED BY <1>2, <3>1, <3>2, <3>3
  <2>6. Retired'
    BY <1>s, <1>2 DEF Retired
  <2> QED BY <2>2, <2>3, <2>4, <2>5, <2>6 DEF OwnSafe
<1>3. ASSUME NEW c \in Clients, NEW w \in usage.loggers, InitializeLogging(c, w)
      PROVE  OwnSafe'
  BY <1>0, <1>1, <1>3 DEF InitializeLogging
<1>4. ASSUME NEW c \in Clients, ShutDownLogging(c) PROVE OwnSafe'
  BY <1>0, <1>1, <1>4 DEF ShutDownLogging, ClearLogger
<1>5. ASSUME NEW c \in Clients, Log(c) \/ ChangeLogFile(c) PROVE OwnSafe'
  BY <1>0, <1>1, <1>5 DEF Log, ChangeLogFile, globals
<1>6. ASSUME NEW c \in Clients, CheckInitialized(c) PROVE OwnSafe'
  <2>1. at[c] = "check" /\ worker \in {"live", "gone"}
    BY <1>0, <1>s, <1>6 DEF CheckInitialized, Alone, Destroying, Quiescent
  <2> QED BY <1>0, <1>s, <1>2, <1>6, <2>1 DEF CheckInitialized, globals, Places, Retired
<1>7. ASSUME NEW c \in Clients, SetFirst(c) PROVE OwnSafe'
  <2>1. AfterSave(c) = "idle"
    BY <1>0, <1>s DEF NotFatal, AfterSave
  <2>2. Msg(c) # NoMsg
    BY DEF Msg, NoMsg
  <2>3. CASE at[c] = "setfirst"
    <3>1. g_logger_instance = "null"
      BY <1>s, <2>3 DEF Tested
    <3>2. CASE g_set_first_uninitialized_flag
      <4>1. g_set_first_uninitialized_flag' = g_set_first_uninitialized_flag
        BY <1>0, <1>7, <2>3, <3>2 DEF SetFirst
      <4> QED BY <1>2, <1>7, <2>1, <2>3, <3>1, <3>2, <4>1 DEF SetFirst, Places
    <3>3. CASE ~g_set_first_uninitialized_flag
      BY <1>2, <1>7, <2>3, <3>1, <3>3 DEF SetFirst, Places
    <3> QED BY <3>2, <3>3
  <2>4. CASE at[c] = "assign"
    BY <1>2, <1>7, <2>1, <2>2, <2>4 DEF SetFirst, Places
  <2> QED BY <1>7, <2>3, <2>4 DEF SetFirst
<1>8. ASSUME NEW c \in Clients, SaveFirstOnce(c) PROVE OwnSafe'
  BY <1>s, <1>2, <1>8 DEF SaveFirstOnce, Places, Tested
<1>9. ASSUME NEW c \in Clients, NEW p \in Places, NEW q \in {"firstpush", "push"},
             at[c] \in {"firsttest", "test"}, TestPimpl(c, p, q), p \in {"idle", "test"},
             UNCHANGED <<g_logger_instance, g_first_unintialized_msg,
                         g_set_first_uninitialized_flag>>
      PROVE  OwnSafe'
  <2>1. \/ g_logger_instance = "other"
        \/ g_logger_instance = "worker" /\ worker = "live"
    BY <1>s, <1>9 DEF Tested
  <2>2. CASE Skips
    BY <1>2, <1>9, <2>1, <2>2 DEF TestPimpl
  <2>3. CASE ~Skips
    BY <1>2, <1>9, <2>1, <2>3 DEF TestPimpl, Skips, Places
  <2> QED BY <2>2, <2>3
<1>10. ASSUME NEW c \in Clients, SaveFirst(c) PROVE OwnSafe'
  <2>1. CASE at[c] = "firsttest"
    BY <1>9, <1>10, <2>1 DEF SaveFirst, FirstOnceDone, globals, Places
  <2>2. CASE at[c] = "firstpush"
    BY <1>s, <1>2, <1>10, <2>2 DEF SaveFirst, PushJob, FirstOnceDone, Places, Tested
  <2> QED BY <1>10, <2>1, <2>2 DEF SaveFirst
<1>11. ASSUME NEW c \in Clients, Save(c) PROVE OwnSafe'
  <2>1. AfterSave(c) = "idle"
    BY <1>0, <1>s DEF NotFatal, AfterSave
  <2>2. CASE at[c] = "test"
    BY <1>9, <1>11, <2>1, <2>2 DEF Save, globals, Places
  <2>3. CASE at[c] = "push"
    BY <1>2, <1>11, <2>1, <2>3 DEF Save, PushJob, globals, Places
  <2> QED BY <1>11, <2>2, <2>3 DEF Save
<1>12. ASSUME NEW c \in Clients, FatalCall(c) \/ FatalReturn(c) PROVE OwnSafe'
  BY <1>s, <1>12 DEF FatalCall, FatalReturn, NotFatal
<1>13. ASSUME NEW c \in Clients, EndProgram(c) \/ Swallow(c) PROVE OwnSafe'
  BY <1>13, NoBadPointer DEF EndProgram, Swallow
<1>14. CASE UNCHANGED <<at, fatal, crashed, worker, g_logger_instance,
                        g_first_unintialized_msg, g_set_first_uninitialized_flag>>
  BY <1>0, <1>s, <1>14
     DEF OwnSafe, Running, NotFatal, Alone, Destroying, Quiescent, Tested, Assigning, BeingSet,
         Retired
<1>15. CASE Background
  <2>1. ~FatalShutDown
    BY <1>s DEF FatalShutDown
  <2> QED
    BY <1>14, <1>15, <2>1
       DEF Background, RunLoop, BackgroundFileWrite, BackgroundChangeLogFile,
           FatalFlush, DoDone, globals, clients
<1>16. CASE PimplReset \/ BgReset \/ CompareActive \/ Retire
  <2>1. CASE BgReset
    BY <1>14, <2>1 DEF BgReset, globals, clients
  <2>2. CASE PimplReset \/ CompareActive \/ Retire
    <3>1. Quiescent /\ UNCHANGED <<at, fatal, crashed>>
      BY <1>0, <1>s, <2>2
         DEF PimplReset, CompareActive, Retire, Alone, Destroying, clients
    <3>2. Tested' /\ Alone' /\ NotFatal' /\ Running'
      BY <1>0, <1>s, <3>1 DEF Tested, Alone, NotFatal, Running, Quiescent
    <3>3. Assigning'
      BY <1>0, <1>s, <2>2, <3>1
         DEF PimplReset, CompareActive, Retire, ClearLogger, globals, Assigning, BeingSet
    <3>4. Retired'
      BY <1>s, <2>2
         DEF PimplReset, CompareActive, Retire, ClearLogger, globals, Retired
    <3> QED BY <3>2, <3>3, <3>4 DEF OwnSafe
  <2> QED BY <1>16, <2>1, <2>2
<1>17. CASE UNCHANGED vars
  BY <1>14, <1>17 DEF vars, globals, clients
<1> QED
  BY <1>3, <1>4, <1>5, <1>6, <1>7, <1>8, <1>10, <1>11, <1>12, <1>13, <1>15, <1>16, <1>17
     DEF Next, Logging, Destructor

(* Used as documented, by however many threads, logging never follows a    *)
(* bad pointer.                                                            *)
THEOREM NeverFaults == Spec => []NoFault
<1>1. Init => QueueInv /\ (Documented => SafeInv)
  BY DEF Init, QueueInv, Control, RanFirst, RestQueued, Held, SafeInv, Running, PlainJobs,
         NotFatal, Alone, Destroying, Tested, Assigning, BeingSet, Retired, Bg!Init,
         Bg!Queue!Init
<1>2. TInv /\ TInv' /\ QueueInv /\ [Next]_vars => QueueInv'
  BY QueueInvNext, ActiveStep DEF TInv, TypeOK, HandInv
<1>3. TInv /\ QueueInv /\ (Documented => SafeInv) /\ [Next]_vars => (Documented => SafeInv)'
  <2> SUFFICES ASSUME TInv, QueueInv, Documented => SafeInv, [Next]_vars, Documented'
               PROVE  SafeInv'
    OBVIOUS
  <2>1. usage' = usage
    BY DEF Next, vars
  <2>2. Documented
    BY <2>1 DEF Documented, Orderly
  <2> QED BY <2>2, PlainNext, OwnSafeNext DEF SafeInv, OwnSafe
<1>4. (Documented => SafeInv) => NoFault
  BY DEF NoFault, SafeInv
<1> QED BY <1>1, <1>2, <1>3, <1>4, TInvAlways, PTL DEF Spec

-----------------------------------------------------------------------------
(* Used as documented, a message that was accepted has been sent, or the   *)
(* client that saves it is on its way to the worker ...                    *)
InSave == {"once", "firsttest", "firstpush", "test", "push"}
Saved(m) == \E i \in 1..Len(sent) : sent[i] = Write(m)
Saves(m) == at[m[1]] \in InSave /\ m = Msg(m[1]) /\ g_logger_instance = "worker"
Kept == \A m \in accepted : Saved(m) \/ Saves(m)

(* ... the quit token is the last that is sent, by the destructor ...      *)
QuitLast == /\ sent # <<>> /\ sent[Len(sent)] = Quit
            /\ \A i \in 1..(Len(sent) - 1) : sent[i] # Quit
Token == /\ life = "alive" => ~done_ /\ \A i \in 1..Len(sent) : sent[i] # Quit
         /\ life # "alive" => worker # "live" /\ QuitLast
         /\ worker \in {"retiring", "gone"} => life = "joined"

(* ... and the background thread ends when it has run all that was sent.   *)
Flushed == /\ pc = "exited" => done_
           /\ done_ => Len(ran) = Len(sent)

(* Only to a worker that lives is anything sent.                           *)
Sends(c) == SaveFirst(c) \/ Save(c) \/ FatalCall(c) \/ ChangeLogFile(c)

LEMMA SendStep ==
    ASSUME TInv, SafeInv, NEW c \in Clients, Sends(c)
    PROVE  /\ UNCHANGED <<worker, done_, pc, func, life, ran>>
           /\ \/ sent' = sent
              \/ worker = "live" /\ \E j \in Jobs : sent' = Append(sent, j)
<1>1. ASSUME NEW p, NEW q, TestPimpl(c, p, q)
      PROVE  UNCHANGED <<worker, done_, pc, func, life, ran, sent>>
  BY <1>1 DEF TestPimpl, active
<1>2. ASSUME NEW j, SendJob(j)
      PROVE  /\ UNCHANGED <<done_, pc, func, life, ran>>
             /\ sent' = sent \/ sent' = Append(sent, j)
  BY <1>2 DEF SendJob, Bg!Send, active
<1>3. at[c] \in {"firstpush", "push"} => worker = "live"
  BY DEF SafeInv, Tested
<1>4. CASE SaveFirst(c)
  BY <1>1, <1>2, <1>3, <1>4, FirstFacts DEF SaveFirst, PushJob, TInv
<1>5. CASE Save(c)
  BY <1>1, <1>2, <1>3, <1>5, MsgFacts DEF Save, PushJob, TInv
<1>6. ~FatalCall(c)
  BY DEF FatalCall, SafeInv, NotFatal
<1>7. CASE ChangeLogFile(c)
  <2>1. SendJob(Change(<<c, calls[c] + 1>>)) /\ worker = "live" /\ worker' = worker
    BY <1>7 DEF ChangeLogFile
  <2>2. calls[c] + 1 \in 1..MaxCalls
    BY <1>7, UsageFacts DEF ChangeLogFile, Call, TInv, TypeOK
  <2>3. Change(<<c, calls[c] + 1>>) \in Jobs
    BY <2>2 DEF Change, Jobs, Msgs
  <2> QED BY <1>2, <2>1, <2>3
<1> QED BY <1>4, <1>5, <1>6, <1>7 DEF Sends

LEMMA OtherStep ==
    ASSUME [Next]_vars
    PROVE  \/ \E c \in Clients : Sends(c)
           \/ Background \/ BgReset \/ PimplReset \/ CompareActive \/ Retire
           \/ UNCHANGED <<worker, active>>
<1>1. ASSUME NEW c \in Clients,
             \/ \E w \in usage.loggers : InitializeLogging(c, w)
             \/ ShutDownLogging(c) \/ Log(c) \/ CheckInitialized(c) \/ SetFirst(c)
             \/ SaveFirstOnce(c) \/ FatalReturn(c) \/ EndProgram(c) \/ Swallow(c)
      PROVE  UNCHANGED <<worker, active>>
  BY <1>1 DEF InitializeLogging, ShutDownLogging, Log, CheckInitialized, SetFirst,
              SaveFirstOnce, FatalReturn, EndProgram, Swallow
<1>2. CASE UNCHANGED vars
  BY <1>2 DEF vars
<1> QED BY <1>1, <1>2 DEF Next, Logging, Destructor, Sends

(* Nor does the background thread find anything fatal.                     *)
LEMMA BackgroundStep ==
    ASSUME TInv, QueueInv, SafeInv, Background
    PROVE  /\ UNCHANGED <<worker, life, sent>>
           /\ \/ UNCHANGED <<done_, ran>> /\ (pc' = "exited" => done_)
              \/ pc' = "test" /\ ~done_ /\ ~done_'
              \/ /\ pc = "call" /\ func = Quit /\ ~done_ /\ pc' = "test"
                 /\ ran' = Append(ran, func)
<1>1. CASE RunLoop
  <2>1. CASE Bg!TestDone
    BY <1>1, <2>1 DEF RunLoop, Bg!TestDone
  <2>2. CASE Bg!Pop
    BY <1>1, <2>2 DEF RunLoop, Bg!Pop
  <2> QED BY <1>1, <2>1, <2>2 DEF RunLoop
<1>2. CASE BackgroundFileWrite \/ BackgroundChangeLogFile
  <2>1. Bg!Call /\ func # Quit /\ worker' = worker
    BY <1>2 DEF BackgroundFileWrite, BackgroundChangeLogFile
  <2> QED BY <2>1 DEF Bg!Call, QueueInv, Control
<1>3. CASE DoDone
  <2>1. pc = "call" /\ ~done_
    BY <1>3 DEF DoDone, Bg!Call, QueueInv, Control
  <2> QED BY <1>3, <2>1 DEF DoDone, Bg!Call
<1>4. ~FatalFlush /\ ~FatalShutDown
  BY HandIsPlain DEF SafeInv, FatalFlush, FatalShutDown
<1> QED BY <1>1, <1>2, <1>3, <1>4 DEF Background

LEMMA TokenNext ==
    ASSUME TInv, QueueInv, SafeInv, Token, Documented, [Next]_vars
    PROVE  Token'
<1>0. /\ sent \in Seq(Bg!Callbacks) /\ Len(sent) \in Nat /\ Len(ran) \in Nat
      /\ Quit \notin Jobs /\ Quit \in Bg!Callbacks
  BY Lengths, QuitAssumption DEF TInv, TypeOK, Bg!TypeOK, Bg!Callbacks
<1>1. ASSUME NEW j \in Bg!Callbacks, sent' = Append(sent, j)
      PROVE  /\ sent' # <<>> /\ Len(sent') = Len(sent) + 1 /\ sent'[Len(sent')] = j
             /\ \A i \in 1..Len(sent) : sent'[i] = sent[i]
             /\ \A i \in 1..Len(sent') : i \in 1..Len(sent) \/ i = Len(sent')
             /\ \A i \in 1..(Len(sent') - 1) : i \in 1..Len(sent)
  <2>1. /\ Len(sent') = Len(sent) + 1 /\ sent'[Len(sent) + 1] = j
        /\ \A i \in 1..Len(sent) : sent'[i] = sent[i]
    BY <1>0, <1>1, AppendProperties
  <2>2. sent' # <<>>
    BY <1>0, <2>1
  <2> QED BY <1>0, <2>1, <2>2
<1>2. ASSUME NEW c \in Clients, Sends(c) PROVE Token'
  <2>1. CASE sent' = sent
    BY <1>2, <2>1, SendStep DEF Token, QuitLast
  <2>2. ASSUME NEW j \in Jobs, sent' = Append(sent, j), worker = "live" PROVE Token'
    <3>1. life = "alive"
      BY <2>2 DEF Token
    <3>2. j \in Bg!Callbacks /\ j # Quit
      BY <1>0, <2>2 DEF Bg!Callbacks
    <3> QED BY <1>1, <1>2, <2>2, <3>1, <3>2, SendStep DEF Token
  <2> QED BY <1>2, <2>1, <2>2, SendStep
<1>3. CASE Background
  <2>1. CASE pc = "call" /\ func = Quit /\ ~done_
    <3>1. life # "joined"
      BY <2>1 DEF QueueInv, Control
    <3>2. sent[Len(ran) + 1] = Quit /\ Len(ran) + 1 \in 1..Len(sent)
      <4>1. Len(mq_) \in Nat
        BY Lengths DEF TInv, TypeOK
      <4> QED BY <1>0, <2>1, <3>1, <4>1 DEF QueueInv, RestQueued, Held
    <3>3. life # "alive"
      BY <3>2 DEF Token
    <3> QED BY <1>3, <3>3, BackgroundStep DEF Token, QuitLast
  <2>2. CASE ~(pc = "call" /\ func = Quit /\ ~done_)
    BY <1>3, <2>2, BackgroundStep DEF Token, QuitLast
  <2> QED BY <2>1, <2>2
<1>4. CASE BgReset
  <2>1. CASE Bg!SendQuit
    <3>1. sent' = Append(sent, Quit) /\ life = "alive" /\ life' = "joining"
          /\ worker' = worker /\ worker = "reset"
      BY <1>4, <2>1 DEF BgReset, Bg!SendQuit
    <3>2. sent' # <<>> /\ sent'[Len(sent')] = Quit
          /\ \A i \in 1..(Len(sent') - 1) : sent'[i] # Quit
      BY <1>0, <1>1, <3>1 DEF Token
    <3> QED BY <3>1, <3>2 DEF Token, QuitLast
  <2>2. CASE Bg!Join
    BY <1>4, <2>2 DEF BgReset, Bg!Join, Token, QuitLast
  <2> QED BY <1>4, <2>1, <2>2 DEF BgReset, Documented, Orderly
<1>5. CASE PimplReset \/ CompareActive \/ Retire
  BY <1>5 DEF PimplReset, CompareActive, Retire, active, Token, QuitLast
<1>6. CASE UNCHANGED <<worker, active>>
  BY <1>6 DEF active, Token, QuitLast
<1> QED BY <1>2, <1>3, <1>4, <1>5, <1>6, OtherStep

LEMMA FlushedNext ==
    ASSUME TInv, QueueInv, SafeInv, Token, Flushed, Documented, [Next]_vars
    PROVE  Flushed'
<1>0. /\ Len(sent) \in Nat /\ Len(ran) \in Nat
      /\ ran \in Seq(Bg!Callbacks) /\ done_ \in BOOLEAN
  BY Lengths DEF TInv, TypeOK, Bg!TypeOK
<1>1. ASSUME NEW c \in Clients, Sends(c) PROVE Flushed'
  <2>1. CASE sent' = sent
    BY <1>1, <2>1, SendStep DEF Flushed
  <2>2. CASE worker = "live"
    <3>1. ~done_
      BY <2>2 DEF Token
    <3> QED BY <1>1, <3>1, SendStep DEF Flushed
  <2> QED BY <1>1, <2>1, <2>2, SendStep
<1>2. CASE Background
  <2>1. CASE UNCHANGED <<done_, ran>> /\ (pc' = "exited" => done_)
    BY <1>2, <2>1, BackgroundStep DEF Flushed
  <2>2. CASE pc' = "test" /\ ~done_ /\ ~done_'
    BY <1>2, <2>2, BackgroundStep DEF Flushed
  <2>3. CASE /\ pc = "call" /\ func = Quit /\ ~done_ /\ pc' = "test"
             /\ ran' = Append(ran, func)
    <3>1. Len(ran') = Len(ran) + 1
      BY <1>0, <2>3, AppendProperties DEF Bg!Callbacks
    <3>2. sent[Len(ran) + 1] = Quit /\ Len(ran) + 1 \in 1..Len(sent)
      BY <1>0, <2>3, DealtFacts
    <3>3. ~(Len(ran) + 1 \in 1..(Len(sent) - 1))
      BY <3>2 DEF Token, QuitLast
    <3>4. Len(ran) + 1 = Len(sent)
      BY <1>0, <3>2, <3>3
    <3> QED BY <1>0, <1>2, <2>3, <3>1, <3>4, BackgroundStep DEF Flushed
  <2> QED BY <1>2, <2>1, <2>2, <2>3, BackgroundStep
<1>3. CASE BgReset
  <2>1. CASE Bg!SendQuit
    BY <1>3, <2>1 DEF BgReset, Bg!SendQuit, Flushed, Token
  <2>2. CASE Bg!Join
    BY <1>3, <2>2 DEF BgReset, Bg!Join, Flushed
  <2> QED BY <1>3, <2>1, <2>2 DEF BgReset, Documented, Orderly
<1>4. CASE PimplReset \/ CompareActive \/ Retire
  <2>1. UNCHANGED active
    BY <1>4 DEF PimplReset, CompareActive, Retire
  <2> QED BY <2>1 DEF active, Flushed
<1>5. CASE UNCHANGED <<worker, active>>
  BY <1>5 DEF active, Flushed
<1> QED BY <1>1, <1>2, <1>3, <1>4, <1>5, OtherStep

LEMMA KeptStays ==
    ASSUME TInv, QueueInv, SafeInv, Documented, [Next]_vars,
           NEW m \in Msgs, Saves(m), ~(\E c \in Clients : sent' = Append(sent, Write(m)))
    PROVE  Saves(m)'
<1> DEFINE d == m[1]
<1>0. /\ at \in [Clients -> Places] /\ calls \in [Clients -> 0..usage.calls]
      /\ d \in Clients /\ usage.racing = {}
      /\ m = <<d, calls[d]>> /\ at[d] \in InSave /\ g_logger_instance = "worker"
  BY DEF TInv, TypeOK, Msgs, Saves, Msg, Documented, Orderly
<1>1. worker = "live" /\ ~Quiescent
  BY <1>0 DEF InSave, SafeInv, Tested, Quiescent
<1>2. ASSUME NEW c \in Clients, NEW p \in Places, at' = [at EXCEPT ![c] = p],
             c = d => p \in InSave,
             calls' = calls \/ (c # d /\ calls' = [calls EXCEPT ![c] = @ + 1]),
             g_logger_instance' = g_logger_instance
      PROVE  Saves(m)'
  BY <1>0, <1>2 DEF Saves, Msg
<1>3. CASE UNCHANGED <<at, calls, g_logger_instance>>
  BY <1>0, <1>3 DEF Saves, Msg
<1>4. ASSUME NEW c \in Clients,
             \/ \E w \in usage.loggers : InitializeLogging(c, w)
             \/ ShutDownLogging(c) \/ EndProgram(c) \/ Swallow(c)
             \/ FatalCall(c) \/ FatalReturn(c)
      PROVE  FALSE
  BY <1>0, <1>1, <1>4, NoBadPointer
     DEF InitializeLogging, ShutDownLogging, EndProgram, Swallow, FatalCall, FatalReturn,
         SafeInv, NotFatal
<1>5. ASSUME NEW c \in Clients, Log(c) \/ ChangeLogFile(c) PROVE Saves(m)'
  <2>1. c # d /\ calls' = [calls EXCEPT ![c] = @ + 1] /\ g_logger_instance' = g_logger_instance
    BY <1>0, <1>5 DEF Log, ChangeLogFile, Call, InSave, globals
  <2>2. PICK p \in Places : at' = [at EXCEPT ![c] = p]
    BY <1>5 DEF Log, ChangeLogFile, Call, Goto, Places
  <2> QED BY <1>2, <2>1, <2>2
<1>6. ASSUME NEW c \in Clients, CheckInitialized(c) \/ SetFirst(c) PROVE Saves(m)'
  <2>1. c # d /\ calls' = calls /\ g_logger_instance' = g_logger_instance
    BY <1>0, <1>6 DEF CheckInitialized, SetFirst, InSave, globals
  <2>2. PICK p \in Places : at' = [at EXCEPT ![c] = p]
    BY <1>6 DEF CheckInitialized, SetFirst, Goto, Places, AfterSave
  <2> QED BY <1>2, <2>1, <2>2
<1>7. ASSUME NEW c \in Clients, SaveFirstOnce(c) PROVE Saves(m)'
  BY <1>2, <1>7 DEF SaveFirstOnce, Goto, Places, InSave
<1>8. ASSUME NEW c \in Clients, SaveFirst(c) PROVE Saves(m)'
  <2>1. calls' = calls /\ g_logger_instance' = g_logger_instance
    BY <1>8 DEF SaveFirst, TestPimpl, PushJob, FirstOnceDone, globals
  <2>2. PICK p \in {"test", "firstpush"} : at' = [at EXCEPT ![c] = p]
    BY <1>8 DEF SaveFirst, TestPimpl, PushJob, Goto
  <2> QED BY <1>2, <2>1, <2>2 DEF Places, InSave
<1>9. ASSUME NEW c \in Clients, Save(c) PROVE Saves(m)'
  <2>1. calls' = calls /\ g_logger_instance' = g_logger_instance
    BY <1>9 DEF Save, TestPimpl, PushJob, globals
  <2>2. CASE at[c] = "test"
    <3>1. ~Skips
      BY <1>0, <1>1 DEF Skips
    <3> QED BY <1>2, <1>9, <2>1, <2>2, <3>1 DEF Save, TestPimpl, Goto, Places, InSave
  <2>3. CASE at[c] = "push"
    <3>1. sent' = Append(sent, Write(Msg(c))) /\ at' = [at EXCEPT ![c] = AfterSave(c)]
      BY <1>9, <2>3 DEF Save, PushJob, SendJob, Goto, Bg!Send, Documented, Orderly
    <3>2. c # d
      BY <1>0, <3>1 DEF Msg
    <3> QED BY <1>2, <2>1, <3>1, <3>2 DEF AfterSave, Places
  <2> QED BY <1>9, <2>2, <2>3 DEF Save
<1>10. CASE Background
  <2>1. ~FatalShutDown
    BY HandIsPlain DEF SafeInv, FatalShutDown
  <2> QED
    BY <1>3, <1>10, <2>1
       DEF Background, RunLoop, BackgroundFileWrite, BackgroundChangeLogFile,
           FatalFlush, DoDone, globals, clients
<1>11. ~PimplReset /\ ~Destructor
  BY <1>0, <1>1 DEF PimplReset, Destructor, BgReset, CompareActive, Retire
<1>12. CASE UNCHANGED vars
  BY <1>3, <1>12 DEF vars, globals, clients
<1> QED BY <1>4, <1>5, <1>6, <1>7, <1>8, <1>9, <1>10, <1>11, <1>12 DEF Next, Logging

LEMMA AcceptedStep ==
    ASSUME TInv, [Next]_vars
    PROVE  \/ accepted' = accepted
           \/ \E c \in Clients : /\ accepted' = accepted \cup {Msg(c)}
                                 /\ g_logger_instance = "worker"
                                 /\ at' = [at EXCEPT ![c] = "once"]
                                 /\ UNCHANGED <<g_logger_instance, calls>>
<1>1. ASSUME NEW c \in Clients, CheckInitialized(c), accepted' # accepted
      PROVE  /\ accepted' = accepted \cup {Msg(c)} /\ g_logger_instance = "worker"
             /\ at' = [at EXCEPT ![c] = "once"]
             /\ UNCHANGED <<g_logger_instance, calls>>
  BY <1>1 DEF CheckInitialized, Goto, globals
<1>2. ASSUME NEW c \in Clients,
             \/ \E w \in usage.loggers : InitializeLogging(c, w)
             \/ ShutDownLogging(c) \/ Log(c) \/ ChangeLogFile(c)
      PROVE  accepted' = accepted
  BY <1>2 DEF InitializeLogging, ShutDownLogging, Log, ChangeLogFile, Call
<1>3. ASSUME NEW c \in Clients,
             \/ SetFirst(c) \/ SaveFirstOnce(c) \/ FatalReturn(c) \/ EndProgram(c) \/ Swallow(c)
             \/ SaveFirst(c) \/ Save(c) \/ FatalCall(c)
      PROVE  accepted' = accepted
  BY <1>3 DEF SetFirst, SaveFirstOnce, FatalReturn, EndProgram, Swallow, SaveFirst, Save,
              FatalCall, TestPimpl, PushJob, clients
<1>4. ASSUME Background \/ PimplReset \/ Destructor \/ UNCHANGED vars
      PROVE  accepted' = accepted
  BY <1>4 DEF Background, RunLoop, BackgroundFileWrite, BackgroundChangeLogFile,
              FatalFlush, FatalShutDown, DoDone,
              PimplReset, Destructor, BgReset, CompareActive, Retire, clients, vars
<1> QED BY <1>1, <1>2, <1>3, <1>4 DEF Next, Logging

LEMMA KeptNext ==
    ASSUME TInv, QueueInv, SafeInv, Documented, Kept, [Next]_vars
    PROVE  Kept'
<1> DEFINE SavedNow(m) == \E i \in 1..Len(sent') : sent'[i] = Write(m)
           SavesNow(m) == at'[m[1]] \in InSave /\ m = <<m[1], calls'[m[1]]>>
                          /\ g_logger_instance' = "worker"
<1>0. /\ accepted \subseteq Msgs /\ sent \in Seq(Bg!Callbacks) /\ Len(sent) \in Nat
      /\ at \in [Clients -> Places] /\ Bg!TypeOK
  BY Lengths DEF TInv, TypeOK, Bg!TypeOK
<1>1. ASSUME NEW m \in accepted PROVE SavedNow(m) \/ SavesNow(m)
  <2>1. CASE Saved(m)
    <3>1. Len(sent') \in Nat /\ Len(sent) <= Len(sent')
          /\ \A i \in 1..Len(sent) : sent'[i] = sent[i]
      BY <1>0, ActiveStep, ActiveTypeNext, SentGrows, LenProperties DEF TInv
    <3> QED BY <1>0, <2>1, <3>1 DEF Saved
  <2>2. CASE Saves(m) /\ sent' = Append(sent, Write(m))
    BY <1>0, <2>2
  <2>3. CASE Saves(m) /\ sent' # Append(sent, Write(m))
    <3>1. Saves(m)'
      BY <1>0, <2>3, KeptStays
    <3> QED BY <3>1 DEF Saves, Msg
  <2> QED BY <2>1, <2>2, <2>3 DEF Kept
<1>2. ASSUME NEW c \in Clients, g_logger_instance = "worker",
             at' = [at EXCEPT ![c] = "once"], UNCHANGED <<g_logger_instance, calls>>
      PROVE  SavesNow(Msg(c))
  BY <1>0, <1>2 DEF Msg, InSave
<1>3. \A m \in accepted' : SavedNow(m) \/ SavesNow(m)
  <2> HIDE DEF SavedNow, SavesNow
  <2> QED BY <1>1, <1>2, AcceptedStep
<1> QED BY <1>3 DEF Kept, Saved, Saves, Msg

(* Used as documented, every message whose LOG statement found the worker  *)
(* initialized is in its file once when the worker has been destroyed, for *)
(* any number of threads and calls: nothing is lost or written twice by    *)
(* the two once_flags, the queue or the flush of the destructor.           *)
THEOREM AcceptedAlwaysWritten == Spec => []AcceptedIsWritten
<1> DEFINE WInv == SafeInv /\ Kept /\ Token /\ Flushed
<1>1. Init => QueueInv /\ FileInv /\ OrderInv /\ WInv
  BY DEF Init, Bg!Init, Bg!Queue!Init, QueueInv, Control, RanFirst, RestQueued, Held, FileInv,
         FileStopsAtFatal, WholeUpToFatal, Dealt, OrderInv, AllPassed, AssignedOnce, OnceOpen,
         NothingYet, SentInOrder, SafeInv, Running, PlainJobs, NotFatal, Alone, Destroying,
         Tested, Assigning, BeingSet, Retired, Kept, Token, Flushed
<1>2. TInv /\ TInv' /\ QueueInv /\ FileInv /\ OrderInv /\ [Next]_vars
          => QueueInv' /\ FileInv' /\ OrderInv'
  BY FileInvNext, OrderInvNext, QueueInvNext, ActiveStep DEF TInv, TypeOK, HandInv
<1>3. TInv /\ QueueInv /\ (Documented => WInv) /\ [Next]_vars => (Documented => WInv)'
  <2> SUFFICES ASSUME TInv, QueueInv, Documented => WInv, [Next]_vars, Documented'
               PROVE  WInv'
    OBVIOUS
  <2>1. usage' = usage
    BY DEF Next, vars
  <2>2. Documented
    BY <2>1 DEF Documented, Orderly
  <2>3. SafeInv'
    BY <2>2, PlainNext, OwnSafeNext DEF SafeInv, OwnSafe
  <2> QED BY <2>2, <2>3, KeptNext, TokenNext, FlushedNext
<1>4. TInv /\ QueueInv /\ FileInv /\ OrderInv /\ (Documented => WInv) => AcceptedIsWritten
  <2> SUFFICES ASSUME TInv, QueueInv, FileInv, OrderInv, Documented, WInv, worker = "gone",
                      NEW m \in accepted
               PROVE  Cardinality(PlacesOf(m)) = 1
    BY DEF AcceptedIsWritten
  <2>1. /\ Len(file) \in Nat /\ Len(sent) \in Nat /\ m \in Msgs
        /\ Write(m) # Quit /\ IsEntry(Write(m))
    BY Lengths, LenProperties, QuitAssumption DEF TInv, TypeOK, Write, Jobs, IsEntry
  <2>2. Len(sent) <= Dealt /\ Dealt \in Nat
    <3>1. Len(ran) = Len(sent)
      BY DEF Token, Flushed, QueueInv, Control
    <3> QED BY <3>1, DealtFacts
  <2>3. ~Saves(m)
    BY DEF SafeInv, Retired, Saves
  <2>4. PICK k \in 1..Len(sent) : sent[k] = Write(m)
    BY <2>3 DEF Kept, Saved
  <2>5. PICK i \in 1..Len(file) : file[i] = Write(m)
    <3>1. ~FatalAmong(k - 1)
      BY <2>1 DEF FatalAmong, SafeInv, PlainJobs
    <3>2. k \in 1..Dealt /\ "failed" \notin usage.changes
      BY <2>1, <2>2 DEF Documented
    <3> QED BY <2>1, <2>4, <3>1, <3>2 DEF FileInv, WholeUpToFatal, InFile
  <2>6. ASSUME NEW j \in 1..Len(file), NEW l \in 1..Len(file), j < l,
               file[j] = Write(m), file[l] = Write(m)
        PROVE  FALSE
    <3>1. FileInOrder
      BY FileInOrderHolds
    <3>2. /\ Write(m).msg = m /\ Write(m).kind = "write"
          /\ Write(m) # FatalJob(m) /\ m[2] \in Nat
      BY <2>1, UsageFacts DEF Write, FatalJob, Msgs, TInv
    <3>3. Write(m) # FirstEntry
      BY <2>6, <3>1, <3>2 DEF FileInOrder
    <3> QED BY <2>6, <3>1, <3>2, <3>3 DEF FileInOrder
  <2>7. \A j \in 1..Len(file) : file[j] = Write(m) => j = i
    <3> SUFFICES ASSUME NEW j \in 1..Len(file), file[j] = Write(m), j # i PROVE FALSE
      OBVIOUS
    <3>1. j < i \/ i < j
      BY <2>1
    <3> QED BY <2>5, <2>6, <3>1
  <2>8. PlacesOf(m) = {i}
    BY <2>5, <2>7 DEF PlacesOf
  <2> QED BY <2>8, FS_Singleton
<1> QED BY <1>1, <1>2, <1>3, <1>4, TInvAlways, PTL DEF Spec
=============================================================================

------------------------------- MODULE Futures -------------------------------
(***************************************************************************)
(* Include/Asyncfuture.h, Include/Asyncmoveoncopy.hpp and the calls of     *)
(* AsyncLogWorker that use them: genericAsyncCall, logFileName and         *)
(* changeLogFile send the background thread a packaged_task and give the   *)
(* caller its future.  Jobs of save are sent without one.                  *)
(*                                                                         *)
(* A MoveOnCopy is copied on its way into the queue and out of it, and the *)
(* packaged_task goes along: there is one, where its job is.  When it is   *)
(* destroyed before it has run, its future is broken.                      *)
(*                                                                         *)
(* Clients call before ~AsyncLogWorker begins; the jobs, which it flushes, *)
(* call genericAsyncCall at any time.  The Release build has /EHa, by      *)
(* which a null pointer that is followed throws; the Debug build ends.     *)
(***************************************************************************)
EXTENDS Active, SequencesExt

CONSTANTS Plain,      \* the jobs that are sent by save
          Members,    \* the jobs of logFileName and changeLogFile, which
                      \* follow pimpl_ when they run
          MaxSends    \* bound: calls of send, but for the quit token

ASSUME KindsAssumption == Plain \subseteq Jobs /\ Members \subseteq Jobs \ Plain
ASSUME MaxSendsAssumption == MaxSends \in Nat

VARIABLES future,     \* of each packaged_task
          pimpl_, bg_,     \* whether these pointers of the worker are set
          calling          \* the call that the job in hand is making
futuresVars == <<vars, future, pimpl_, bg_, calling>>

PackagedTasks == Jobs \ Plain
NoCalling == [place |-> "none", job |-> NoJob]

FuturesInit == /\ Init
               /\ future = [j \in PackagedTasks |-> "none"]
               /\ pimpl_ = TRUE /\ bg_ = TRUE
               /\ calling = NoCalling

-----------------------------------------------------------------------------
(* Mutants: plausible mistakes in the code, for the model to detect.       *)

(* A promise instead of the packaged_task: a job that throws leaves it as  *)
(* it is.                                                                  *)
MutPromise(j) == {"value", "pending"}

(* A send that has failed is tried again, with the job in the queue.       *)
MutSpawnTwice(j) ==
    /\ future[j] = "none"
    /\ future' = [future EXCEPT ![j] = "pending"]
    /\ mq_' = mq_ \o <<j, j>> /\ sent' = sent \o <<j, j>>
    /\ UNCHANGED <<done_, pc, func, life, ran>>

-----------------------------------------------------------------------------
(* How a packaged_task ends: the functions of other callers may throw.     *)
Outcomes(j) == IF j \in Members THEN {IF pimpl_ THEN "value" ELSE "exception"}
               ELSE {"value", "exception"}

(* Packaged_tasks are destroyed that have not run.                         *)
Broken(js) == [j \in PackagedTasks |-> IF j \in js THEN "broken" ELSE future[j]]

(* spawn_task; no memory for the copy is an exception that send swallows.  *)
spawn_task(j) ==
    /\ future[j] = "none"
    /\ \/ /\ Len(sent) < MaxSends
          /\ Send(j)
          /\ future' = [future EXCEPT ![j] = "pending"]
       \/ future' = Broken({j}) /\ UNCHANGED vars

ClientCalls(j) == /\ pimpl_
                  /\ calling.job # j
                  /\ spawn_task(j)
                  /\ UNCHANGED <<pimpl_, bg_, calling>>

ClientSaves(j) == /\ pimpl_
                  /\ Len(sent) < MaxSends
                  /\ Send(j)
                  /\ UNCHANGED <<future, pimpl_, bg_, calling>>

(* A job calls genericAsyncCall: pimpl_ is tested, bg_ is read, and the    *)
(* task sent; through a null bg_ push fails, and swallows that.            *)
JobCalls(j) ==
    /\ pc = "call" /\ func \in PackagedTasks \ Members
    /\ \/ /\ calling = NoCalling
          /\ j \notin Members /\ future[j] = "none"
          /\ pimpl_
          /\ calling' = [place |-> "read", job |-> j]
          /\ UNCHANGED <<vars, future>>
       \/ /\ calling = [place |-> "read", job |-> j]
          /\ IF bg_ THEN calling' = [calling EXCEPT !.place = "send"] /\ UNCHANGED future
                    ELSE calling' = NoCalling /\ future' = Broken({j})
          /\ UNCHANGED vars
       \/ /\ calling = [place |-> "send", job |-> j]
          /\ calling' = NoCalling
          /\ spawn_task(j)
    /\ UNCHANGED <<pimpl_, bg_>>

(* The job in hand returns or throws, within the packaged_task.            *)
JobReturns ==
    /\ calling = NoCalling
    /\ Call
    /\ \/ /\ func \in PackagedTasks
          /\ \E outcome \in Outcomes(func) : future' = [future EXCEPT ![func] = outcome]
       \/ /\ func \notin PackagedTasks
          /\ UNCHANGED future
    /\ UNCHANGED <<pimpl_, bg_, calling>>

RunTasks == \/ (TestDone \/ Pop) /\ UNCHANGED <<future, pimpl_, bg_, calling>>
            \/ JobReturns
            \/ \E j \in PackagedTasks : calling.job = j /\ JobCalls(j)

(* ~AsyncLogWorker: pimpl_ is null before the implementation is destroyed, *)
(* and bg_ before the active object is; the queue goes with that.          *)
ResetPimpl == /\ pimpl_ /\ pimpl_' = FALSE
              /\ UNCHANGED <<vars, future, bg_, calling>>
ResetBg == /\ ~pimpl_ /\ bg_ /\ bg_' = FALSE
           /\ UNCHANGED <<vars, future, pimpl_, calling>>
DestroyActive == \/ /\ ~bg_
                    /\ SendQuit \/ LoseQuit
                    /\ UNCHANGED <<future, pimpl_, bg_, calling>>
                 \/ /\ Join
                    /\ future' = Broken(ToSet(mq_) \cap PackagedTasks)
                    /\ UNCHANGED <<pimpl_, bg_, calling>>

FuturesNext == \/ \E j \in PackagedTasks : ClientCalls(j) \/ JobCalls(j)
               \/ \E j \in Plain : ClientSaves(j)
               \/ RunTasks \/ ResetPimpl \/ ResetBg \/ DestroyActive

FuturesSpec == FuturesInit /\ [][FuturesNext]_futuresVars

(* As in Active; a destructor that has begun goes on, and jobs return.     *)
FuturesFairness == /\ WF_futuresVars(RunTasks)
                   /\ WF_futuresVars(ResetBg) /\ WF_futuresVars(DestroyActive)

FuturesFairSpec == FuturesSpec /\ FuturesFairness

-----------------------------------------------------------------------------
(* Whoever waits for a future gets an answer, whatever becomes of the job, *)
(* of the memory it needs and of the worker.                               *)
FuturesResolve == \A j \in PackagedTasks : future[j] = "pending" ~> future[j] # "pending"

(* The answer is true: a job that gave a value or an exception has run,    *)
(* once, and one whose promise is broken has not and never will, however   *)
(* the end of the queue, the quit token and a late call meet.              *)
AnswersAreTrue ==
    \A j \in PackagedTasks :
        LET runs == Cardinality({i \in DOMAIN ran : ran[i] = j})
        IN  /\ runs = IF future[j] \in {"value", "exception"} THEN 1 ELSE 0
            /\ future[j] = "pending" <=> j \in ToSet(mq_) \cup {func}

(* Asynclogworker.h:46 on logFileName: the "request to get log name is     *)
(* processed in FIFO order just like any other background job", which the  *)
(* destructor flushes (Asynclogworker.cpp:391).                            *)
RequestsAreProcessed == \A j \in Members : future[j] # "exception"
=============================================================================

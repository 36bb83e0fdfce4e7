------------------------------ MODULE Asynclog ------------------------------
(***************************************************************************)
(* src/Asynclog.cpp over src/Asynclogworker.cpp: threads that log, the     *)
(* global logger pointer they reach the AsyncLogWorker through, and the    *)
(* life of that worker, whose background thread is the Active object bg_.  *)
(*                                                                         *)
(* A thread that logs runs without locks, so each of its reads of a shared *)
(* pointer is a step of its own.  A step that follows a null or dangling   *)
(* pointer is undefined behaviour: either the program ends, which crashed  *)
(* records with the thread that did it, or the catch (...) of              *)
(* WriteLogToStream, compiled with /EHa, swallows the access violation.    *)
(*                                                                         *)
(* The second logger "other" stands for any other AsyncLogWorker; it is    *)
(* only a value of the pointer, and what it is given is not followed.      *)
(***************************************************************************)
EXTENDS Naturals, Sequences, FiniteSets

CONSTANTS Clients,      \* threads that call the logging API
          Quit, NoJob,
          MaxCalls,     \* bound: API calls of each client
          Usages        \* how a program uses the library, one of:

UsageType ==
    [loggers : SUBSET {"worker", "other"},  \* what initializeLogging is given
     calls : 0..MaxCalls,                   \* bound: API calls of each client
     fatal : BOOLEAN,                       \* do clients LOG(FATAL)?
     racing : SUBSET {"init", "shutdown"},  \* what happens under clients in the
                                            \* middle of a call (shutdown: or
                                            \* the destructor)
     secondInit : BOOLEAN,                  \* initialized when it is already?
     changes : SUBSET {"opened", "failed"}, \* how a change of log file may end;
                                            \* {}: nobody asks for one
     lossy : BOOLEAN]                       \* may the queue be out of memory?

ASSUME ClientsAssumption == IsFiniteSet(Clients) /\ MaxCalls \in Nat
ASSUME UsageAssumption ==
    Usages \subseteq {u \in UsageType : "worker" \in u.loggers}

Msgs == Clients \X (1..MaxCalls)       \* the n-th call of a client
NoMsg == <<>>
Write(m)   == [kind |-> "write", msg |-> m]      \* bind(backgroundFileWrite, m)
FatalJob(m) == [kind |-> "fatal", msg |-> m]     \* bind(backgroundExitFatal, m)
Change(m)  == [kind |-> "change", msg |-> m]     \* changeLogFile's packaged task
Jobs == [kind : {"write", "fatal", "change"}, msg : Msgs]

ASSUME QuitAssumption == Quit \notin Jobs /\ NoJob \notin Jobs \cup {Quit}

VARIABLES
    usage,
    \* globals of Asynclog.cpp
    g_logger_instance, g_logging_init_mutex, g_first_unintialized_msg,
    g_set_first_uninitialized_flag, g_save_first_unintialized_flag,
    \* per client: place in the call, calls made, whether this one is FATAL
    at, calls, fatal,
    \* the AsyncLogWorker: progress of its destructor, its file
    worker, file, open,
    \* bg_, the Active object, and its history
    mq_, done_, pc, func, life, sent, ran,
    \* the background thread is past the close in backgroundExitFatal
    closed,
    \* history: messages whose LOG found the worker initialized
    accepted,
    \* "no", or the client that followed a bad pointer
    crashed

globals == <<g_logger_instance, g_logging_init_mutex, g_first_unintialized_msg,
             g_set_first_uninitialized_flag, g_save_first_unintialized_flag>>
clients == <<at, calls, fatal, accepted>>
output  == <<file, open, closed>>
active  == <<mq_, done_, pc, func, life, sent, ran>>
vars    == <<usage, globals, clients, output, active, worker, crashed>>

Bg == INSTANCE Active

Init == /\ usage \in Usages
        /\ g_logger_instance = "null"
        /\ g_logging_init_mutex = "free"
        /\ g_first_unintialized_msg = NoMsg
        /\ g_set_first_uninitialized_flag = FALSE
        /\ g_save_first_unintialized_flag = "unset"
        /\ at = [c \in Clients |-> "idle"]
        /\ calls = [c \in Clients |-> 0]
        /\ fatal = [c \in Clients |-> FALSE]
        /\ worker = "live"
        /\ file = <<>> /\ open = TRUE /\ closed = FALSE
        /\ Bg!Init
        /\ accepted = {}
        /\ crashed = "no"

Running == crashed = "no"

Msg(c) == <<c, calls[c]>>
Quiescent == \A c \in Clients : at[c] = "idle"
Destroying == worker \in {"reset", "retiring"}

Goto(c, place) == at' = [at EXCEPT ![c] = place]

(* A client starts an API call; unless racing, not while the owner is in   *)
(* the destructor.                                                         *)
Call(c, isFatal, place) ==
    /\ Running
    /\ at[c] = "idle"
    /\ calls[c] < usage.calls
    /\ "shutdown" \in usage.racing \/ ~Destroying
    /\ calls' = [calls EXCEPT ![c] = @ + 1]
    /\ fatal' = [fatal EXCEPT ![c] = isFatal]
    /\ Goto(c, place)
    /\ UNCHANGED accepted

-----------------------------------------------------------------------------
(* Parts of calls.                                                         *)

AfterSave(c) == IF fatal[c] THEN "fatalcheck" ELSE "idle"

FirstOnceDone == /\ g_save_first_unintialized_flag' = "done"
                 /\ UNCHANGED <<g_logger_instance, g_logging_init_mutex,
                                g_first_unintialized_msg,
                                g_set_first_uninitialized_flag>>

(* g_logger_instance->save/fatal, first half: the pointer is followed and  *)
(* `pimpl_ && pimpl_->bg_' tested.  There is nothing to send to when       *)
(* pimpl_.reset() has begun; what "other" is given is not followed.        *)
Follow == g_logger_instance = "other" \/ (g_logger_instance = "worker" /\ worker # "gone")
Skips  == g_logger_instance = "other" \/ worker # "live"

TestPimpl(c, skipTo, pushAt) ==
    /\ Running
    /\ Follow
    /\ Goto(c, IF Skips THEN skipTo ELSE pushAt)
    /\ UNCHANGED <<calls, fatal, accepted, output, active, worker, crashed>>

(* Second half: pimpl_->bg_->send(job).  Under a destructor that began in  *)
(* between, the send may still be in time for the queue, or the pointers   *)
(* it goes through are gone.  A job that the queue has no memory for is    *)
(* lost, and the sender not told.                                          *)
SendJob(job) == \/ Bg!Send(job)
                \/ usage.lossy /\ life # "joined" /\ UNCHANGED active

PushJob(c, job, next) ==
    /\ Running
    /\ SendJob(job)
    /\ Goto(c, next)
    /\ UNCHANGED <<calls, fatal, accepted, output, worker, crashed>>

(* shutDownLogging, which the public API, the destructor of the worker and *)
(* its handling of a fatal message share.                                  *)
ClearLogger == /\ Running
               /\ g_logging_init_mutex = "free"
               /\ g_logger_instance' = "null"
               /\ UNCHANGED <<g_logging_init_mutex, g_first_unintialized_msg,
                              g_set_first_uninitialized_flag,
                              g_save_first_unintialized_flag>>

-----------------------------------------------------------------------------
(* Mutants: plausible mistakes in the code, for the model to detect.       *)

(* A bool instead of the once_flag: nobody waits for the first message.    *)
MutSaveFirstFlag(c) ==
    /\ Running
    /\ at[c] = "once"
    /\ IF g_save_first_unintialized_flag # "unset"
       THEN Goto(c, "test") /\ UNCHANGED g_save_first_unintialized_flag
       ELSE /\ g_save_first_unintialized_flag' = "done"
            /\ Goto(c, IF g_first_unintialized_msg = NoMsg THEN "test" ELSE "firsttest")
    /\ UNCHANGED <<g_logger_instance, g_logging_init_mutex, g_first_unintialized_msg,
                   g_set_first_uninitialized_flag>>
    /\ UNCHANGED <<calls, fatal, accepted, output, active, worker, crashed>>

(* `else' after the first message: its saver's own message is not saved.   *)
MutSaveFirstOnly(c) ==
    \/ /\ at[c] = "firsttest"
       /\ TestPimpl(c, "test", "firstpush")
       /\ IF Skips THEN FirstOnceDone ELSE UNCHANGED globals
    \/ /\ at[c] = "firstpush"
       /\ PushJob(c, Write(g_first_unintialized_msg), AfterSave(c))
       /\ FirstOnceDone

(* The fatal message is written without closing the file.                  *)
MutFatalWithoutClose ==
    /\ Running
    /\ pc = "call" /\ func # Quit /\ func.kind = "fatal" /\ ~closed
    /\ file' = IF open THEN Append(file, func) ELSE file
    /\ closed' = TRUE
    /\ UNCHANGED <<globals, clients, open, active, worker, crashed>>

(* A change of log file closes the old one and opens none.                 *)
MutChangeClosesOnly ==
    /\ Running
    /\ pc = "call" /\ func # Quit /\ func.kind = "change"
    /\ Bg!Call
    /\ open' = FALSE
    /\ UNCHANGED <<globals, clients, file, closed, worker, crashed>>

(* Nor is logging shut down when the fatal message has been written.       *)
MutFatalKeepsLogging ==
    /\ Running
    /\ closed
    /\ Bg!Call
    /\ closed' = FALSE
    /\ UNCHANGED <<globals, clients, file, open, worker, crashed>>

(* shutDownLoggingForActiveOnly leaves the pointer to a destroyed worker.  *)
MutNeverRetire == /\ Running
                  /\ worker = "reset" /\ life = "joined"
                  /\ worker' = "gone"
                  /\ UNCHANGED <<globals, clients, output, active, crashed>>

(* It compares under the mutex that shutDownLogging will lock.             *)
MutLockTwice ==
    /\ Running
    /\ worker = "reset" /\ life = "joined" /\ g_logging_init_mutex = "free"
    /\ worker' = IF g_logger_instance = "other" THEN "gone" ELSE "retiring"
    /\ g_logging_init_mutex' = "owner"
    /\ UNCHANGED <<g_logger_instance, g_first_unintialized_msg,
                   g_set_first_uninitialized_flag, g_save_first_unintialized_flag>>
    /\ UNCHANGED <<clients, output, active, crashed>>

-----------------------------------------------------------------------------
(* initializeLogging(w).  The second disjunct is the failing CHECK: its    *)
(* LogContractMessage has an empty stream, so only the fatal call is made, *)
(* and it is made by the destructor of the message, under the lock.        *)
InitializeLogging(c, w) ==
    /\ g_logging_init_mutex = "free"
    /\ "init" \in usage.racing \/ Quiescent
    /\ w = "worker" => worker = "live"
    /\ \/ /\ g_logger_instance = "null"
          /\ Call(c, FALSE, "idle")
          /\ g_logger_instance' = w
          /\ UNCHANGED g_logging_init_mutex
       \/ /\ g_logger_instance # "null"
          /\ usage.secondInit
          /\ Call(c, TRUE, "fatalcheck")
          /\ g_logging_init_mutex' = c
          /\ UNCHANGED g_logger_instance
    /\ UNCHANGED <<g_first_unintialized_msg, g_set_first_uninitialized_flag,
                   g_save_first_unintialized_flag>>
    /\ UNCHANGED <<output, active, worker, crashed>>

ShutDownLogging(c) ==
    /\ "shutdown" \in usage.racing \/ Quiescent
    /\ Call(c, FALSE, "idle")
    /\ ClearLogger
    /\ UNCHANGED <<output, active, worker, crashed>>

-----------------------------------------------------------------------------
(* LOG(level) << text: ~LogMessage calls WriteLogToStream, which saves the *)
(* text and, for FATAL, goes on to the fatal call.  A FATAL message whose  *)
(* stream is empty is not saved.                                           *)
Log(c) == /\ \/ Call(c, FALSE, "check")
             \/ usage.fatal /\ \E place \in {"check", "fatalcheck"} : Call(c, TRUE, place)
          /\ UNCHANGED <<globals, output, active, worker, crashed>>

(* saveToLogger: if (!isLoggingInitialized()).                             *)
CheckInitialized(c) ==
    /\ Running
    /\ at[c] = "check"
    /\ Goto(c, IF g_logger_instance = "null" THEN "setfirst" ELSE "once")
    /\ accepted' = IF g_logger_instance = "worker" THEN accepted \cup {Msg(c)}
                                                  ELSE accepted
    /\ UNCHANGED <<globals, calls, fatal, output, active, worker, crashed>>

(* call_once(g_set_first_uninitialized_flag, ...), then to stderr.  The    *)
(* message is being assigned from the one step to the next.                *)
BeingSet == g_set_first_uninitialized_flag /\ g_first_unintialized_msg = NoMsg

SetFirst(c) ==
    /\ Running
    /\ \/ /\ at[c] = "setfirst"
          /\ ~BeingSet
          /\ g_set_first_uninitialized_flag' = TRUE
          /\ Goto(c, IF g_set_first_uninitialized_flag THEN AfterSave(c) ELSE "assign")
          /\ UNCHANGED g_first_unintialized_msg
       \/ /\ at[c] = "assign"
          /\ g_first_unintialized_msg' = Msg(c)
          /\ Goto(c, AfterSave(c))
          /\ UNCHANGED g_set_first_uninitialized_flag
    /\ UNCHANGED <<g_logger_instance, g_logging_init_mutex,
                   g_save_first_unintialized_flag>>
    /\ UNCHANGED <<calls, fatal, accepted, output, active, worker, crashed>>

(* call_once(g_save_first_unintialized_flag, ...): the others wait while   *)
(* one client is inside.  That client reads the message, which the other   *)
(* once_flag does not protect: while it is being set, it may look empty or *)
(* not.                                                                    *)
SaveFirstOnce(c) ==
    /\ Running
    /\ at[c] = "once"
    /\ \/ /\ g_save_first_unintialized_flag = "done"
          /\ Goto(c, "test")
          /\ UNCHANGED g_save_first_unintialized_flag
       \/ /\ g_save_first_unintialized_flag = "unset"
          /\ g_first_unintialized_msg = NoMsg
          /\ g_save_first_unintialized_flag' = "done"
          /\ Goto(c, "test")
       \/ /\ g_save_first_unintialized_flag = "unset"
          /\ g_first_unintialized_msg # NoMsg \/ BeingSet
          /\ g_save_first_unintialized_flag' = "running"
          /\ Goto(c, "firsttest")
    /\ UNCHANGED <<g_logger_instance, g_logging_init_mutex, g_first_unintialized_msg,
                   g_set_first_uninitialized_flag>>
    /\ UNCHANGED <<calls, fatal, accepted, output, active, worker, crashed>>

(* The pointers a client follows are null or dangling, or the message it   *)
(* copies is being assigned.                                               *)
BadPointer(c) ==
    \/ at[c] \in {"firsttest", "test", "fataltest"} /\ ~Follow
    \/ at[c] = "fatalcheck" /\ g_logger_instance = "null"
    \/ at[c] \in {"firstpush", "push", "fatalpush"} /\ worker # "live"
    \/ at[c] = "firstpush" /\ BeingSet

EndProgram(c) == /\ Running
                 /\ BadPointer(c)
                 /\ crashed' = c
                 /\ UNCHANGED <<globals, clients, output, active, worker>>

(* An exception leaves call_once with its flag unset.  The FATAL trigger   *)
(* runs in a destructor, which no exception leaves.                        *)
Swallow(c) ==
    /\ Running
    /\ BadPointer(c)
    /\ at[c] \in {"firsttest", "firstpush", "test", "push"}
    /\ Goto(c, "idle")
    /\ g_save_first_unintialized_flag' = IF at[c] \in {"firsttest", "firstpush"}
                                         THEN "unset" ELSE "done"
    /\ UNCHANGED <<g_logger_instance, g_logging_init_mutex, g_first_unintialized_msg,
                   g_set_first_uninitialized_flag>>
    /\ UNCHANGED <<calls, fatal, accepted, output, active, worker, crashed>>

SaveFirst(c) ==
    \/ /\ at[c] = "firsttest"
       /\ TestPimpl(c, "test", "firstpush")
       /\ IF Skips THEN FirstOnceDone ELSE UNCHANGED globals
    \/ /\ at[c] = "firstpush"
       /\ ~BeingSet
       /\ PushJob(c, Write(g_first_unintialized_msg), "test")
       /\ FirstOnceDone

Save(c) ==
    \/ at[c] = "test" /\ TestPimpl(c, AfterSave(c), "push") /\ UNCHANGED globals
    \/ at[c] = "push" /\ PushJob(c, Write(Msg(c)), AfterSave(c)) /\ UNCHANGED globals

(* fatalCallToLogger.  When the logger is not initialized the call of      *)
(* exitWithDefaultSignalHandler returns, its body being commented out, and *)
(* the null pointer is followed: BadPointer.                               *)
FatalCall(c) ==
    /\ \/ /\ Running
          /\ at[c] = "fatalcheck"
          /\ g_logger_instance # "null"
          /\ Goto(c, "fataltest")
          /\ UNCHANGED <<calls, fatal, accepted, output, active, worker, crashed>>
       \/ at[c] = "fataltest" /\ TestPimpl(c, "fatalwait", "fatalpush")
       \/ at[c] = "fatalpush" /\ PushJob(c, FatalJob(Msg(c)), "fatalwait")
    /\ UNCHANGED globals

(* while (isLoggingInitialized()) sleep; and the LOG statement is over.    *)
FatalReturn(c) == /\ Running
                  /\ at[c] = "fatalwait"
                  /\ g_logger_instance = "null"
                  /\ Goto(c, "idle")
                  /\ UNCHANGED <<globals, calls, fatal, accepted>>
                  /\ UNCHANGED <<output, active, worker, crashed>>

(* worker->changeLogFile(...), by a thread that has the worker itself; the *)
(* future it gets is not followed here.                                    *)
ChangeLogFile(c) ==
    /\ worker = "live"
    /\ usage.changes # {}
    /\ Call(c, FALSE, "idle")
    /\ SendJob(Change(<<c, calls[c] + 1>>))
    /\ UNCHANGED <<globals, output, worker, crashed>>

-----------------------------------------------------------------------------
(* The background thread: Active::run, and what its callbacks do.          *)
RunLoop == /\ Running
           /\ Bg!TestDone \/ Bg!Pop
           /\ UNCHANGED <<globals, clients, output, worker, crashed>>

(* backgroundFileWrite: a closed stream takes nothing.  The write may make *)
(* the log rotate, and the rotation, which is a change of log file too,    *)
(* end without a log.                                                      *)
BackgroundFileWrite ==
    /\ Running
    /\ pc = "call" /\ func # Quit /\ func.kind = "write"
    /\ Bg!Call
    /\ file' = IF open THEN Append(file, func) ELSE file
    /\ \/ open' = open
       \/ "failed" \in usage.changes /\ open' = FALSE
    /\ UNCHANGED <<globals, clients, closed, worker, crashed>>

(* backgroundExitFatal: write, close, then shutDownLogging, and return     *)
(* since exitWithDefaultSignalHandler does.                                *)
FatalFlush ==
    /\ Running
    /\ pc = "call" /\ func # Quit /\ func.kind = "fatal" /\ ~closed
    /\ file' = IF open THEN Append(file, func) ELSE file
    /\ open' = FALSE
    /\ closed' = TRUE
    /\ UNCHANGED <<globals, clients, active, worker, crashed>>

FatalShutDown ==
    /\ closed
    /\ ClearLogger
    /\ Bg!Call
    /\ closed' = FALSE
    /\ UNCHANGED <<clients, file, open, worker, crashed>>

(* backgroundChangeLogFile: close, then open the new log or else the old   *)
(* one, or fail in both; what was closed for good may so be open again.    *)
(* Once the destructor has begun, pimpl_ is null, and in the Release build *)
(* (/EHa) the packaged task keeps what following it throws: see Futures.   *)
BackgroundChangeLogFile ==
    /\ Running
    /\ pc = "call" /\ func # Quit /\ func.kind = "change"
    /\ Bg!Call
    /\ \/ worker = "live" /\ \E r \in usage.changes : open' = (r = "opened")
       \/ worker # "live" /\ open' = open
    /\ UNCHANGED <<globals, clients, file, closed, worker, crashed>>

DoDone == /\ Running
          /\ func = Quit
          /\ Bg!Call
          /\ UNCHANGED <<globals, clients, output, worker, crashed>>

Background == \/ RunLoop \/ DoDone
              \/ BackgroundFileWrite \/ BackgroundChangeLogFile
              \/ FatalFlush \/ FatalShutDown

-----------------------------------------------------------------------------
(* ~AsyncLogWorker: pimpl_.reset() sets the pointer to null, then destroys *)
(* the implementation, which begins with bg_.reset().                      *)
PimplReset == /\ Running
              /\ worker = "live"
              /\ "shutdown" \in usage.racing \/ Quiescent
              /\ worker' = "reset"
              /\ UNCHANGED <<globals, clients, output, active, crashed>>

BgReset == /\ Running
           /\ worker = "reset"
           /\ Bg!SendQuit \/ (usage.lossy /\ Bg!LoseQuit) \/ Bg!Join
           /\ UNCHANGED <<globals, clients, output, worker, crashed>>

(* shutDownLoggingForActiveOnly: another logger that is initialized stays, *)
(* and is given a warning; otherwise the pointer is cleared, whatever it   *)
(* has become since it was compared.                                       *)
CompareActive == /\ Running
                 /\ worker = "reset" /\ life = "joined"
                 /\ worker' = IF g_logger_instance = "other" THEN "gone" ELSE "retiring"
                 /\ UNCHANGED <<globals, clients, output, active, crashed>>

Retire == /\ worker = "retiring"
          /\ ClearLogger
          /\ worker' = "gone"
          /\ UNCHANGED <<clients, output, active, crashed>>

Destructor == BgReset \/ CompareActive \/ Retire

-----------------------------------------------------------------------------
Logging(c) == \/ CheckInitialized(c) \/ SetFirst(c) \/ SaveFirstOnce(c)
              \/ SaveFirst(c) \/ Save(c) \/ FatalCall(c) \/ FatalReturn(c)
              \/ EndProgram(c) \/ Swallow(c)

Next == /\ \/ \E c \in Clients : \/ \E w \in usage.loggers : InitializeLogging(c, w)
                                 \/ ShutDownLogging(c) \/ ChangeLogFile(c)
                                 \/ Log(c) \/ Logging(c)
           \/ Background
           \/ PimplReset \/ Destructor
        /\ UNCHANGED usage

Spec == Init /\ [][Next]_vars

(* Threads inside a call, the background thread and a destructor that has  *)
(* begun are scheduled; nobody is made to begin anything.                  *)
Fairness == /\ \A c \in Clients : WF_vars(Logging(c) /\ UNCHANGED usage)
            /\ WF_vars(Background /\ UNCHANGED usage)
            /\ WF_vars(Destructor /\ UNCHANGED usage)

FairSpec == Spec /\ Fairness

-----------------------------------------------------------------------------
Places == {"idle", "check", "setfirst", "assign", "once", "firsttest", "firstpush",
           "test", "push", "fatalcheck", "fataltest", "fatalpush", "fatalwait"}

(* Values of the state.                                                    *)
TypeOK == /\ usage \in Usages
          /\ g_logger_instance \in {"null"} \cup usage.loggers
          /\ g_logging_init_mutex \in {"free"} \cup Clients
          /\ g_first_unintialized_msg \in {NoMsg} \cup Msgs
          /\ g_set_first_uninitialized_flag \in BOOLEAN
          /\ g_save_first_unintialized_flag \in {"unset", "running", "done"}
          /\ at \in [Clients -> Places]
          /\ calls \in [Clients -> 0..usage.calls]
          /\ fatal \in [Clients -> BOOLEAN]
          /\ accepted \subseteq Msgs
          /\ worker \in {"live", "reset", "retiring", "gone"}
          /\ file \in Seq(Jobs)
          /\ open \in BOOLEAN /\ closed \in BOOLEAN
          /\ Bg!TypeOK
          /\ crashed \in {"no"} \cup Clients

Orderly == usage.racing = {} /\ ~usage.lossy
Documented ==
    Orderly /\ ~usage.fatal /\ ~usage.secondInit /\ "failed" \notin usage.changes

(* Used as documented (initialized, shut down and destroyed while no LOG   *)
(* statement is being executed), logging never follows a bad pointer, also *)
(* after the worker has been destroyed.                                    *)
NoFault == Documented => Running

(* A worker destroyed has written every message whose LOG statement found  *)
(* it initialized, once: ~AsyncLogWorkerImpl, "flush the log queue", also  *)
(* when the log file is changed in between.                                *)
PlacesOf(m) == {i \in 1..Len(file) : file[i] = Write(m)}
AcceptedIsWritten ==
    Documented /\ worker = "gone" => \A m \in accepted : Cardinality(PlacesOf(m)) = 1

(* What is written has the messages of a thread in the order of its LOG    *)
(* calls and none twice (a FATAL one is both logged and sent as fatal).    *)
(* The first uninitialized message comes before every other that is logged *)
(* and only a fatal message, which is not saved through the once_flag, may *)
(* overtake it.                                                            *)
FirstEntry == Write(g_first_unintialized_msg)
FileInOrder ==
    \A i, j \in 1..Len(file) : i < j =>
        /\ file[i].msg[1] = file[j].msg[1] =>
              \/ file[i].msg[2] < file[j].msg[2]
              \/ file[i] = Write(file[j].msg) /\ file[j] = FatalJob(file[j].msg)
              \/ file[j] = FirstEntry
        /\ file[i].kind = "write" => file[j] # FirstEntry

(* A fatal message is the last that is written until the log file is       *)
(* changed: what is written comes in the order it was sent in, and behind  *)
(* a fatal message only if a change was sent in between.                   *)
ChangedBetween(x, z) == \E y \in x..z : sent[y] # Quit /\ sent[y].kind = "change"
FileStopsAtFatal ==
    \A i, j \in 1..Len(file) : i < j =>
        \E x, z \in 1..Len(sent) :
            /\ x < z /\ sent[x] = file[i] /\ sent[z] = file[j]
            /\ file[i].kind = "fatal" => ChangedBetween(x, z)

(* "All existing entries were flushed before 'fatal'" (Asynclogworker.h):  *)
(* up to the first fatal message and including it, everything that was     *)
(* sent and run is written, if no change of log file fails.                *)
FatalAmong(k) == \E l \in 1..k : sent[l] # Quit /\ sent[l].kind = "fatal"
IsEntry(j) == j # Quit /\ j.kind # "change"
FatalFlushes ==
    "failed" \notin usage.changes =>
        \A k \in 1..Len(ran) : IsEntry(sent[k]) /\ ~FatalAmong(k - 1) =>
            \E i \in 1..Len(file) : file[i] = sent[k]

(* A thread whose FATAL message was sent goes on as soon as the worker has *)
(* dealt with it: it does not sleep for ever.                              *)
FatalHandled ==
    \A c \in Clients : Orderly /\ at[c] = "fatalwait" ~> at[c] = "idle" \/ ~Running

(* The destructor of the worker returns.                                   *)
DestructorReturns == Orderly /\ worker = "reset" ~> worker = "gone" \/ ~Running

-----------------------------------------------------------------------------
(* What comments of the code say, and the code does not do.                *)

(* Asynclogworker.h:27, a fatal message "is the last message to be         *)
(* processed": nothing is written behind it.                               *)
FatalIsLast == \A i \in 1..(Len(file) - 1) : file[i].kind # "fatal"

(* Asynclog.h:223, the destructor of a worker that is not the active one   *)
(* is "just ignored and the logging continues to be active".               *)
OtherStaysActive ==
    [][worker # worker' /\ g_logger_instance = "other"
         => g_logger_instance' = "other"]_vars

(* Asynclog.cpp:55, "uninitialized messages are ignored but does not       *)
(* CHECK/crash the logger": no thread ends the program in saveToLogger     *)
(* because there is no logger.                                             *)
UninitializedLogDoesNotCrash ==
    crashed \in Clients /\ g_logger_instance = "null"
        => at[crashed] \notin {"firsttest", "test"}

(* Asynclog.h:221, the destructor ensures "that no further LOG(...) calls  *)
(* can happen to a non-existing LogWorker".                                *)
NoLogToGoneWorker == ~Running => worker = "live"
=============================================================================

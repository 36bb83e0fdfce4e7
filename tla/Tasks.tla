------------------------------- MODULE Tasks --------------------------------
(***************************************************************************)
(* Include/ConcRTExtras/ppltasks.h: tasks, their continuations, the        *)
(* task_completion_event, and what is built from them: when_all, when_any, *)
(* && and ||.                                                              *)
(*                                                                         *)
(* The given tasks are <<"in", i>>.  A combinator makes a task <<"all", 0>>*)
(* that waits for a completion event, a continuation <<"then", i>> and a   *)
(* continuation on cancellation <<"cancel", i>> of each given task, and    *)
(* returns <<"ret", 0>>, a continuation of <<"all", 0>>; <<"clean", 0>> is *)
(* the continuation on its cancellation that some of them add.  Every task *)
(* but those of the event has one job, a light-weight task of the          *)
(* scheduler, that settles it: job tells where it is.                      *)
(*                                                                         *)
(* What a task's critical section encloses is one action; the section of   *)
(* the event is not, because it takes those of its tasks one by one.  The  *)
(* definitions that other modules have too are named to be used with them. *)
(***************************************************************************)
EXTENDS Naturals, FiniteSets

CONSTANT Inputs

ASSUME InputsAssumption == IsFiniteSet(Inputs) /\ Inputs # {} /\ Inputs \subseteq Nat

VARIABLES kind,            \* the use made of the tasks, see Kinds
          _M_fCompleted, _M_fCancellationRequested, _M_Result,
          job,
          built,           \* the tasks the combinator has made so far
          _HasValue, _IsCanceled, _Value, _Tasks, _TaskListCritSec,  \* the event
          _M_vector, _M_lCount, freed,                               \* *_PParam
          watched,         \* the task that somebody waits for (nobody for Clean)
          woken, answers,  \* history: a wait is woken; what waits returned
          asked,           \* history: the tasks whose cancel() returned true
          usedFreed,       \* history: _PParam was used after it was deleted
          stranded         \* history: added to a task that was canceled and
                           \* not completed
flags == <<_M_fCompleted, _M_fCancellationRequested, _M_Result>>
event == <<_HasValue, _IsCanceled, _Value, _Tasks, _TaskListCritSec>>
param == <<_M_vector, _M_lCount, freed, usedFreed>>
history == <<watched, woken, answers, asked, stranded>>
tasksVars == <<kind, flags, job, built, event, param, history>>

(* "all" is when_all, and && of tasks with a value; "any" is when_any, and *)
(* || of task<void>; "or" is || of tasks with a value; "and" is && of      *)
(* task<void>; "event" is an event that two tasks set or cancel.           *)
Kinds == {"all", "any", "or", "and", "event"}

In(i) == <<"in", i>>
All == <<"all", 0>>
Also == <<"also", 0>>
Ret == <<"ret", 0>>
Clean == <<"clean", 0>>
Role(t) == t[1]

Tasks == ({"in", "then", "cancel"} \X Inputs) \cup {All, Also, Ret, Clean}
Ancestor(t) == IF Role(t) \in {"then", "cancel"} THEN In(t[2]) ELSE All

Continuations(t) == {u \in Tasks : /\ Role(u) \in {"then", "ret"}
                                   /\ Ancestor(u) = t /\ job[u] = "pending"}
CancellationContinuations(t) ==
    {u \in Tasks : /\ Role(u) \in {"cancel", "clean"}
                   /\ Ancestor(u) = t /\ job[u] = "pending"}

Settled(t) == _M_fCompleted[t] \/ _M_fCancellationRequested[t]

(* What the combinator makes, and what must have been made before it.      *)
Makes == [k \in Kinds |->
            {All, Ret}
              \cup (IF k = "event" THEN {Also} ELSE {"then", "cancel"} \X Inputs)
              \cup (IF k \in {"any", "and", "event"} THEN {Clean} ELSE {})]
Before(t) == CASE Role(t) = "all"    -> {}
               [] Role(t) = "also"   -> {All}
               [] Role(t) = "then"   -> {All} \cup ({"then", "cancel"} \X {i \in Inputs : i < t[2]})
               [] Role(t) = "cancel" -> {<<"then", t[2]>>}
               [] Role(t) = "clean"  -> Makes[kind] \ {Clean, Ret}
               [] Role(t) = "ret"    -> Makes[kind] \ {Ret}
               [] OTHER              -> {}

TasksInit == /\ kind \in Kinds
             /\ _M_fCompleted = [t \in Tasks |-> FALSE]
             /\ _M_fCancellationRequested = [t \in Tasks |-> FALSE]
             /\ _M_Result = [t \in Tasks |-> {}]
             /\ job = [t \in Tasks |-> IF Role(t) = "in" THEN "scheduled" ELSE "none"]
             /\ built = {}
             /\ _HasValue = FALSE /\ _IsCanceled = FALSE /\ _Value = {}
             /\ _Tasks = {} /\ _TaskListCritSec = {}
             /\ _M_vector = {} /\ _M_lCount = 0 /\ freed = 0 /\ usedFreed = FALSE
             /\ watched \in {In(i) : i \in Inputs} \cup {Ret, Clean}
             /\ woken = FALSE /\ answers = {} /\ asked = {} /\ stranded = {}

-----------------------------------------------------------------------------
(* _Task_impl_base::_Cancel and _Task_impl::_FinalizeAndRunContinuations:  *)
(* the flags of t afterwards, and the jobs.                                *)
Schedules(t, us, dropped) ==
    [u \in Tasks |-> CASE u \in us      -> "scheduled"
                       [] u \in dropped -> "dropped"
                       [] OTHER         -> job[u]]

(* Mutants: cancellation leaves the continuations where they are; a        *)
(* completed task can be canceled.                                         *)
MutJobsIfCanceled(t) ==
    IF _M_fCompleted[t] THEN job ELSE Schedules(t, CancellationContinuations(t), {})
MutCancel(t) == /\ _M_fCancellationRequested' =
                       [_M_fCancellationRequested EXCEPT ![t] = TRUE]
                /\ UNCHANGED <<_M_fCompleted, _M_Result>>

JobsIfCanceled(t) ==
    IF _M_fCompleted[t] THEN job
    ELSE Schedules(t, Continuations(t) \cup CancellationContinuations(t), {})
JobsIfFinalized(t) == Schedules(t, Continuations(t), CancellationContinuations(t))

Cancel(t) == /\ _M_fCancellationRequested' =
                    [_M_fCancellationRequested EXCEPT ![t] = ~_M_fCompleted[t] \/ @]
             /\ UNCHANGED <<_M_fCompleted, _M_Result>>
Finalize(t, result) == /\ _M_Result' = [_M_Result EXCEPT ![t] = result]
                       /\ _M_fCompleted' = [_M_fCompleted EXCEPT ![t] = TRUE]
                       /\ UNCHANGED _M_fCancellationRequested

(* The job of t goes on to another place, and nothing of the tasks changes.*)
GoesTo(t, place) == /\ job' = [job EXCEPT ![t] = place]
                    /\ UNCHANGED <<kind, flags, built, history>>

(* _PParam is read or written.                                             *)
UseParam == usedFreed' = (usedFreed \/ freed > 0)
-----------------------------------------------------------------------------
(* What the functions do, in which order: where the job of t goes on.      *)
(* Nobody has the tasks of the functions that a combinator adds, so that   *)
(* it settles them in the end is left out.                                 *)
Ends(t) == IF Role(t) \in {"in", "ret"} THEN "finish" ELSE "done"
Starts(t) ==
    CASE Role(t) = "then"   -> IF kind \in {"all", "and"} THEN "count" ELSE "set"
      [] Role(t) = "cancel" -> IF kind \in {"all", "and"} THEN "cancel" ELSE "count"
      [] OTHER              -> IF kind = "event" THEN Ends(t) ELSE "free"

(* Mutants: one task is enough; the last job deletes the parameter even    *)
(* when it has set the event.                                              *)
MutAfterCount(t) ==
    CASE Role(t) = "then" -> "set"
      [] OTHER            -> IF kind = "all" THEN "free" ELSE "cancel"
MutAfterSet(t, isSet) == IF kind = "all" THEN "free" ELSE Ends(t)

AfterCount(t) ==
    IF _M_lCount + 1 # Cardinality(Inputs) THEN Ends(t)
    ELSE CASE Role(t) = "then" -> "set"
           [] OTHER            -> IF kind = "all" THEN "free" ELSE "cancel"
AfterSet(t, isSet) == IF kind = "all" /\ ~isSet THEN "free" ELSE Ends(t)
AfterCancel(t) == CASE kind = "all" -> "count"
                    [] kind = "or"  -> "free"
                    [] OTHER        -> Ends(t)

-----------------------------------------------------------------------------
(* Scheduling: a continuation is run now, canceled now, or kept.           *)
MakeTask(t) == built' = built \cup {t}

(* Mutant: the value is not looked at.                                     *)
MutRegisterTask(t) ==
    /\ Role(t) \in {"all", "also"}
    /\ MakeTask(t)
    /\ _Tasks' = _Tasks \cup {t}
    /\ UNCHANGED <<kind, flags, job, _HasValue, _IsCanceled, _Value, _TaskListCritSec,
                   param, history>>

_RegisterTask(t) ==
    /\ Role(t) \in {"all", "also"}
    /\ _TaskListCritSec = {}
    /\ MakeTask(t)
    /\ \/ /\ _HasValue
          /\ Finalize(t, _Value)
          /\ job' = JobsIfFinalized(t)
          /\ UNCHANGED event
       \/ /\ ~_HasValue
          /\ _Tasks' = _Tasks \cup {t}
          /\ UNCHANGED <<flags, job, _HasValue, _IsCanceled, _Value, _TaskListCritSec>>
    /\ UNCHANGED <<kind, param, history>>

_ScheduleContinuation(t) ==
    /\ Role(t) \in {"then", "ret"}
    /\ MakeTask(t)
    /\ \/ /\ _M_fCompleted[Ancestor(t)] /\ ~_M_fCancellationRequested[Ancestor(t)]
          /\ job' = [job EXCEPT ![t] = "scheduled"]
          /\ UNCHANGED <<flags, stranded>>
       \/ /\ _M_fCompleted[Ancestor(t)] /\ _M_fCancellationRequested[Ancestor(t)]
          /\ Cancel(t)
          /\ job' = [job EXCEPT ![t] = "dropped"]
          /\ UNCHANGED stranded
       \/ /\ ~_M_fCompleted[Ancestor(t)]
          /\ job' = [job EXCEPT ![t] = "pending"]
          /\ stranded' = IF _M_fCancellationRequested[Ancestor(t)]
                         THEN stranded \cup {t} ELSE stranded
          /\ UNCHANGED flags
    /\ UNCHANGED <<kind, event, param, watched, woken, answers, asked>>

_ScheduleCancellationContinuation(t) ==
    /\ Role(t) \in {"cancel", "clean"}
    /\ MakeTask(t)
    /\ job' = [job EXCEPT ![t] =
                 IF _M_fCancellationRequested[Ancestor(t)] THEN "scheduled"
                 ELSE IF _M_fCompleted[Ancestor(t)] THEN "dropped" ELSE "pending"]
    /\ UNCHANGED <<kind, flags, event, param, history>>

(* The combinator makes its tasks one after the other.                     *)
Make(t) == /\ t \in Makes[kind] \ built
           /\ Before(t) \subseteq built
           /\ \/ _RegisterTask(t)
              \/ _ScheduleContinuation(t)
              \/ _ScheduleCancellationContinuation(t)

-----------------------------------------------------------------------------
(* The jobs.                                                               *)
_RunTask(t) ==
    /\ Role(t) = "in" /\ job[t] = "scheduled"
    /\ \/ /\ kind = "event"
          /\ \E place \in {"set", "cancel"} : GoesTo(t, place)
       \/ /\ kind # "event"
          /\ Finalize(t, {t[2]})
          /\ job' = [JobsIfFinalized(t) EXCEPT ![t] = "done"]
          /\ UNCHANGED <<kind, built, history>>
    /\ UNCHANGED <<event, param>>

_RunContinuation(t) ==
    /\ Role(t) \in {"then", "ret"} /\ job[t] = "scheduled"
    /\ \/ /\ _M_fCancellationRequested[Ancestor(t)]
          /\ Cancel(t)
          /\ job' = [JobsIfCanceled(t) EXCEPT ![t] = "dropped"]
          /\ UNCHANGED <<kind, built, history>>
       \/ /\ ~_M_fCancellationRequested[Ancestor(t)]
          /\ GoesTo(t, Starts(t))
    /\ UNCHANGED <<event, param>>

_RunCancellationContinuation(t) ==
    /\ Role(t) \in {"cancel", "clean"} /\ job[t] = "scheduled"
    /\ GoesTo(t, Starts(t))
    /\ UNCHANGED <<event, param>>

(* The result is stored in its place; _InterlockedIncrement.               *)
CountIn(t) ==
    /\ job[t] = "count"
    /\ GoesTo(t, AfterCount(t))
    /\ _M_vector' = IF Role(t) = "then" THEN _M_vector \cup _M_Result[Ancestor(t)]
                    ELSE _M_vector
    /\ _M_lCount' = _M_lCount + 1
    /\ UseParam
    /\ UNCHANGED <<event, freed>>

(* The parameter is deleted; the returned task has copied the vector.      *)
Free(t) ==
    /\ job[t] = "free"
    /\ GoesTo(t, Ends(t))
    /\ freed' = freed + 1
    /\ UseParam
    /\ UNCHANGED <<event, _M_vector, _M_lCount>>

ResultOf(t) == CASE Role(t) = "in"  -> {t[2]}
                 [] Role(t) = "ret" -> IF kind = "all" THEN _M_vector ELSE _M_Result[All]
                 [] OTHER           -> {}
Finish(t) ==
    /\ job[t] = "finish"
    /\ Finalize(t, ResultOf(t))
    /\ job' = [JobsIfFinalized(t) EXCEPT ![t] = "done"]
    /\ UNCHANGED <<kind, built, event, param, history>>

-----------------------------------------------------------------------------
(* task_completion_event::set and _Cancel: the test without the lock, the  *)
(* test with it, the tasks one by one.                                     *)
Set(t) ==
    \/ /\ job[t] = "set"
       /\ GoesTo(t, IF _HasValue /\ ~_IsCanceled THEN AfterSet(t, FALSE) ELSE "setLocked")
       /\ UNCHANGED <<event, param>>
    \/ /\ job[t] = "setLocked" /\ _TaskListCritSec = {}
       /\ \/ /\ ~_HasValue /\ ~_IsCanceled
             /\ _HasValue' = TRUE
             /\ _Value' = IF kind \in {"any", "or"} THEN {t[2]} ELSE {}
             /\ _TaskListCritSec' = {t}
             /\ GoesTo(t, "finalizing")
             /\ UNCHANGED <<_IsCanceled, _Tasks>>
          \/ /\ _HasValue \/ _IsCanceled
             /\ GoesTo(t, AfterSet(t, FALSE))
             /\ UNCHANGED event
       /\ UNCHANGED param
    \/ /\ job[t] = "finalizing" /\ _Tasks # {}
       /\ \E u \in _Tasks : /\ Finalize(u, _Value)
                            /\ job' = JobsIfFinalized(u)
                            /\ _Tasks' = _Tasks \ {u}
       /\ UNCHANGED <<kind, built, _HasValue, _IsCanceled, _Value, _TaskListCritSec,
                      param, history>>
    \/ /\ job[t] = "finalizing" /\ _Tasks = {}
       /\ _TaskListCritSec' = {}
       /\ GoesTo(t, AfterSet(t, TRUE))
       /\ UNCHANGED <<_HasValue, _IsCanceled, _Value, _Tasks, param>>

CancelEvent(t) ==
    \/ /\ job[t] = "cancel"
       /\ GoesTo(t, IF _HasValue /\ ~_IsCanceled THEN AfterCancel(t) ELSE "cancelLocked")
       /\ UNCHANGED <<event, param>>
    \/ /\ job[t] = "cancelLocked" /\ _TaskListCritSec = {}
       /\ \/ /\ ~_HasValue /\ ~_IsCanceled
             /\ _IsCanceled' = TRUE
             /\ _TaskListCritSec' = {t}
             /\ GoesTo(t, "canceling")
             /\ UNCHANGED <<_HasValue, _Value, _Tasks>>
          \/ /\ _HasValue \/ _IsCanceled
             /\ GoesTo(t, AfterCancel(t))
             /\ UNCHANGED event
       /\ UNCHANGED param
    \/ /\ job[t] = "canceling" /\ _Tasks # {}
       /\ \E u \in _Tasks : /\ Cancel(u)
                            /\ job' = JobsIfCanceled(u)
                            /\ _Tasks' = _Tasks \ {u}
       /\ UNCHANGED <<kind, built, _HasValue, _IsCanceled, _Value, _TaskListCritSec,
                      param, history>>
    \/ /\ job[t] = "canceling" /\ _Tasks = {}
       /\ _TaskListCritSec' = {}
       /\ GoesTo(t, AfterCancel(t))
       /\ UNCHANGED <<_HasValue, _IsCanceled, _Value, _Tasks, param>>

-----------------------------------------------------------------------------
(* What a user does with the tasks that it can name.                       *)
Named == {In(i) : i \in Inputs} \cup (built \cap {Ret})

(* A task canceled again runs the continuations added to it in between.    *)
cancel(t) == /\ t \in Named
             /\ Cancel(t)
             /\ job' = JobsIfCanceled(t)
             /\ asked' = IF _M_fCompleted[t] THEN asked ELSE asked \cup {t}
             /\ UNCHANGED <<kind, built, event, param, watched, woken, answers, stranded>>

(* _Wait: the event of the task, and then the flag.                        *)
wait(t) ==
    /\ t \in Named \cap {watched}
    /\ \/ /\ Settled(t) /\ ~woken
          /\ woken' = TRUE
          /\ UNCHANGED answers
       \/ /\ woken
          /\ woken' = FALSE
          /\ answers' = answers \cup
                 {IF _M_fCancellationRequested[t] THEN "canceled" ELSE "completed"}
    /\ UNCHANGED <<kind, flags, job, built, event, param, watched, asked, stranded>>

-----------------------------------------------------------------------------
Job(t) == \/ _RunTask(t) \/ _RunContinuation(t) \/ _RunCancellationContinuation(t)
          \/ CountIn(t) \/ Free(t) \/ Finish(t) \/ Set(t) \/ CancelEvent(t)

TasksNext == \E t \in Tasks : Make(t) \/ Job(t) \/ cancel(t) \/ wait(t)

(* While a light-weight task is scheduled, one of them runs, and so does   *)
(* the combinator.  That is enough: each runs once.                        *)
Scheduled == \E t \in Tasks : Make(t) \/ Job(t)
TasksSpec == TasksInit /\ [][TasksNext]_tasksVars /\ WF_tasksVars(Scheduled)

-----------------------------------------------------------------------------
ResultIsComplete ==
    /\ kind = "all" => _M_Result[Ret] = Inputs
    /\ kind \in {"any", "or"} => \E i \in Inputs : /\ _M_Result[Ret] = {i}
                                                   /\ _M_fCompleted[In(i)]

(* All waits for a task return the same answer, and it is "completed" only *)
(* when nobody was told that the task is canceled; and with a result to    *)
(* read: when_all has the results of all tasks, when_any that of one of    *)
(* them.                                                                   *)
AnswersAgree ==
    /\ "completed" \in answers => /\ "canceled" \notin answers
                                  /\ watched \notin asked
                                  /\ _M_fCompleted[watched]
    /\ _M_fCompleted[Ret] => ResultIsComplete

(* The parameter that the jobs of a combinator share is deleted once, and  *)
(* when_all does not use it afterwards.  (The others do: see the README.)  *)
ParamDeletedOnce == freed <= 1 /\ (kind = "all" => ~usedFreed)

(* The returned task settles when the given ones have, unless it was added *)
(* to a task canceled before that, and somebody deletes the parameter.     *)
ReturnedSettles ==
    kind # "event" ~> /\ freed = 1
                      /\ Ret \in built /\ (Settled(Ret) \/ Ret \in stranded)

(* A value reaches every task registered with the event, unless the task   *)
(* was canceled itself, however set, _Cancel and _RegisterTask interleave. *)
ValueReachesTasks ==
    _HasValue ~> \A t \in {All, Also} \cap built : _M_fCompleted[t]

(* The returned task settles once, by the outcome of the given tasks.      *)
Outcome(t) == CASE _M_fCancellationRequested[t] -> "canceled"
                [] ~Settled(t)                  -> "pending"
                [] OTHER                        -> "completed"
Combined == INSTANCE WhenSettled WITH
    needs    <- CASE kind \in {"all", "and"} -> "all"
                  [] kind \in {"any", "or"}  -> "any"
                  [] OTHER                   -> "none",
    given    <- [i \in Inputs |-> Outcome(In(i))],
    returned <- Outcome(Ret),
    asked    <- Ret \in asked
ImplementsWhenSettled == Combined!Spec

=============================================================================

# AsynchronousLogger: a TLA+ model

AsynchronousLogger is a Windows logging library derived from g2log. Threads log through macros; a
background thread writes to the file. The repository carries, in `Include/ConcRTExtras`, a library
of synchronization, containers, tasks and algorithms for the Concurrency Runtime, of which the
logger itself uses little. This directory holds a TLA+ model of both, TLC configurations that
check the model on small instances, and TLAPS proofs for instances of any size. Line numbers refer
to the files under `AsynchronousLogger/`.

## The system

The logger:

| Part | State | Operations | Used by |
|---|---|---|---|
| `shared_queue` (`Include/shared_queue.h`) | `queue_`, the critical section `m_`, the condition variable `data_cond_` | `push`, `try_and_pop`, `wait_infitine_and_pop`, `wait_and_pop`, `wait_for_and_pop`, `clear`, `ReleaseAllLocks`, `empty`, `size` | Active |
| Active (`Include/active.h`, `src/active.cpp`) | `mq_`, the thread `thd_`, `done_` | `createActive`, `send`, `run`, `doDone`, `~Active` | AsyncLogWorker, futures |
| Futures (`Asyncfuture.h`, `Asyncmoveoncopy.hpp`) | a packaged task that is moved when copied, and its future | `spawn_task` | AsyncLogWorker |
| Logging facade (`src/Asynclog.cpp`, `Include/Asynclog.h`) | the global logger pointer, its mutex, the first uninitialized message and two `once_flag`s | `initializeLogging`, `shutDownLogging`, `shutDownLoggingForActiveOnly`, `LOG`/`CHECK` through `~LogMessage`, `fatalCallToLogger` | client threads |
| AsyncLogWorker (`src/Asynclogworker.cpp`) | the implementation pointer `pimpl_`, in it `bg_` (Active), the file stream, path, name, retry counter | `save`, `fatal`, `changeLogFile`, `logFileName`, `genericAsyncCall`, destructor; in the background: file write, rotation, exit | facade |
| File rotation (`createLogFileName`) | the log files on disk | rename `x.log` to `x1.log`, `x1.log` to `x2.log`, ... | AsyncLogWorker |
| Crash handlers (`crashhandler_win.cpp`) | none: the bodies that install and raise signals are commented out | `exitWithDefaultSignalHandler`, `crashHandler` | fatal path |
| Reference counting, locks, time, support headers | a counter; an OS lock; none | - | - |

The extras (`Include/ConcRTExtras`):

| Part | State | Operations |
|---|---|---|
| `semaphore.h`, `bounded_queue.h` | a count and the queue of the nodes that wait for it; a queue between two semaphores | `acquire`, `wait` with a timeout, `release`; `enqueue`, `dequeue`, `try_dequeue` |
| `barrier.h` | two events that take turns, the number of waiters, a version | `wait`, with a callback |
| concurrent hash containers (`internal_concurrent_hash.h`, `internal_split_ordered_list.h`, `concurrent_unordered_map.h`, `_set.h`) | one lock-free list, a table of pointers into it, its size | `insert`, `find`, `operator[]`, `at`, `count`, `equal_range`, iteration, `rehash`, `clear`, the `unsafe_` operations |
| tasks (`ppltasks.h`) | per task two flags, a result, continuations; the event and its tasks; the parameter a combinator's jobs share | `then`, `cancel`, `wait`, `task_completion_event::set`, `when_all`, `when_any`, `&&`, `\|\|` |
| parallel algorithms (`ppl_extras.h`) | none beyond their arguments | sorts, merge, `reduce`, `partial_sum`, `for`, `for_each`, `transform`, predicates |
| agents blocks (`agents_extras.h`), adapters (`concrt_extras.h`, `connect.h`, ...) | message blocks on the agents library of Visual Studio | - |

Calls go down these layers: a LOG statement on a client thread follows the global pointer to the
worker, which sends a job to Active, which pushes it on the queue; the background thread pops it,
runs it and writes the file. Two calls go up: handling a fatal message, the background thread
clears the global pointer, and so does the destructor of the worker; and a job may call the worker
again. What outlives a process is the log files: the next worker finds them as the last one left
them, in the middle of a rotation if it ended there.

What is hard: `push` notifies after it has unlocked; the destructor of Active must flush what
other threads still send to; LOG statements use the global pointer without a lock while it may be
cleared; a fatal message is meant to end the program and does not; two `once_flag`s guard one
message; jobs that are flushed follow pointers the destructor has cleared; a rotation is a series
of removals and renames of which only the last is checked, each may fail because another program
has the file open, and the process may end between any two of them. In the extras: a wait that
times out races the release that has chosen it; a barrier's tasks leave one round while others
reach the next; elements and buckets are linked by compare-and-swap while the table grows; a task
is canceled, finalized and continued at once.

What makes each part correct:

* the queue is a FIFO, and no wake-up is lost;
* Active runs each callback once and in order, and its destructor flushes and returns;
* every future is answered, and the answer is true;
* the facade never loses or reorders what it accepted, never follows a bad pointer when used as
  documented, and releases the thread that logged a fatal message;
* everything sent before a fatal message is in the file, and nothing sent behind it is until
  somebody changes the log file;
* a rotation gives up the oldest log and no other, the worker writes to the newest, no file past
  the size limit is kept open, and the background thread comes back;
* a semaphore neither loses nor invents a permit, and signals only nodes that are there;
* tasks at a barrier stay in step and all come out;
* the hash container is a set (or a multiset): what was there is found, what is inserted twice is
  there once;
* whoever waits for a task gets the same answer, every continuation runs or is canceled, and
  shared parameters are deleted once;
* an algorithm's result does not depend on how the work is split.

## Modules

| Module | What it is |
|---|---|
| `FifoQueue` | abstract: an atomic FIFO, from which items are eventually taken |
| `SharedQueue` | `shared_queue.h`, one action per critical section or condition-variable call; implements `FifoQueue` |
| `SerialExecutor` | abstract: jobs accepted from anywhere, executed one at a time in order, until the quit token |
| `Active` | `active.cpp` over `FifoQueue`; implements `SerialExecutor` |
| `Futures` | the calls of the worker that give futures, over `Active` |
| `Asynclog` | `Asynclog.cpp` and the lifetime of the worker over `Active` |
| `RotatedLogs` | abstract: at every path the newest logs are kept, the oldest given up for want of room |
| `LogFile` | the file of the worker: opening, writing, rotation and change, beside crashes and other programs; implements `RotatedLogs` |
| `Semaphore` | the steps of `semaphore.h`, for the module that follows to use twice |
| `BoundedFifo`, `BoundedQueue` | abstract: a FIFO with room for so many; `bounded_queue.h` over two `Semaphore`s, which implements it |
| `Rendezvous`, `Barrier` | abstract: everybody in before anybody out; `barrier.h`, which implements it |
| `ConcurrentSet`, `SplitOrderedHash` | abstract: atomic insertion; the hash containers, which implement it |
| `WhenSettled`, `Tasks` | abstract: a task settles once, by the outcome of others; `ppltasks.h`, which implements it |
| `PplAlgorithms` | the algorithms of `ppl_extras.h` as operators |
| `MCShared` (queue, active object, hash container), `MCActive`, `MCAsynclog`, `MCLogFile`, `MCConcRT` (the other extras) | instances for TLC |
| `SharedQueueProofs`, `ActiveProofs` (with the futures), `AsynclogProofs`, `LogFileProofs`, `ConcRTProofs` (bounded queue, barrier, tasks), `PplProofs` and `SortProofs` (algorithms), `HashProofs` | theorems and TLAPS proofs |

Each layer is checked against the abstract form that the layer above is written with: `Active`
uses `FifoQueue`'s operations, not `SharedQueue`'s steps, `Futures` extends `Active`, and
`Asynclog` has an instance of it for its background thread. The refinement carries liveness too,
which justifies that a non-empty queue eventually gives up its oldest item.

**SharedQueue.** `queue_` is the code's. `stage` is where each thread is in its call: a producer
between unlock and `notify_one` is at `notify`; a consumer inside `wait` is `waiting`, and `woken`
when it has been notified (or woke spuriously) and has to reacquire the lock. The lock needs no
variable: a critical section is one action. `wait_infitine_and_pop` is both the entry and the
re-test of its loop. `wait_and_pop` and `wait_for_and_pop` are the same code but for the duration,
and are modelled by one set of actions. They look at the queue again only when they have timed
out, so a wake-up ends the call without an item, and nobody else is woken for it. `wasted` is
history: this has been done to a `notify_one`.

**Active.** `run` is three steps (test `done_`, pop, call); a callback that throws counts as
called, since `run` swallows it. `doDone` is the callback `Quit`, which the destructor sends
through the queue. Sends go on while the destructor is in `join`: other threads hold the object
until it returns. What `push` throws is swallowed, by itself (`shared_queue.h:83`) and by `send`
(`active.cpp:34`). A lost callback changes nothing here, so it is a step of the callers only
(`usage.lossy` in `Asynclog`, the broken promise in `Futures`); a lost quit token is `LoseQuit`,
after which `join` waits for ever. `sent` and `ran` are history.

**Futures.** A job is `Plain` (of `save`), one of the `Members` (of `logFileName` and
`changeLogFile`, which captured the worker and follow its `pimpl_` when they run), or a function
given to `genericAsyncCall`, which may itself call the worker: `calling` is where such a call has
got to, between the test of `pimpl_`, the reading of `bg_` and the `send`. The packaged task is
where its job is, so of it only the state of its `future` is kept; it is broken when the copy into
the queue fails or when the queue is destroyed with it. `ResetPimpl`, `ResetBg` and
`DestroyActive` are the destructor of the worker, in the order in which members go.

**Asynclog.** A client's `at` is its place inside a LOG statement; each read of a shared pointer
is a step. The places correspond to the code so: `check` is the test in `saveToLogger`,
`setfirst`/`assign` its first `call_once` (begin and end of the assignment), `once`, `firsttest`,
`firstpush` the second one, `test`, `push` the call of `save` (test of `pimpl_ && pimpl_->bg_`,
then `send`), and the places that start with `fatal` are `fatalCallToLogger`. A message is the
pair of its client and the number of the call. `worker` follows the destructor: `reset` from the
moment `pimpl_` is null, `retiring` between the comparison of `shutDownLoggingForActiveOnly` and
the clearing of the pointer, `gone` after it. The model's file holds the jobs written, not their
text. `accepted` is history: the messages whose LOG found the worker initialized. `open` is
whether the stream is: `backgroundExitFatal` closes it, and a job of `changeLogFile`, wherever in
the queue it stands, closes it and opens a log, or fails (`BackgroundChangeLogFile`); so may the
rotation that a write brings about. How a change comes to its end is in `LogFile`.

A step through a null or dangling pointer has two outcomes: the program ends (`EndProgram`), or,
the release build being compiled with `/EHa`, the `catch (...)` in `WriteLogToStream` swallows the
access violation and the LOG statement is over (`Swallow`). The variable `usage`, chosen at the
start, says how the library is used: `racing` names what may be done to the logger under LOG
statements of other threads, `fatal` whether clients log FATAL, `secondInit` whether
`initializeLogging` is called when it must not be, `changes` whether the log file is changed and
whether that may fail, `lossy` whether a push may, and how many loggers and calls there are. A
worker is not used for `initializeLogging` once its destruction has begun.

**LogFile.** The disk has, at each path (a directory and a prefix), slot 0 for `x.log` and slot s
for `x<s>.log`. A log is the number it was created as; of its content only whether it is past the
size limit is kept. `pc` is where the background thread is in the job it runs: `search`, `shift`
and `rename` in `createLogFileName` (`i` is its loop counter), `open`, `create`, `reopen` in
`openLogFile`, `text` where the text that begins a file is written. One action is one call that
changes the disk; the search only reads and is one action. `caller` says who called `openFile`,
since only a change falls back to the file that was there before. `backgroundFileWrite` calls
`backgroundChangeLogFile`, which calls it again for the text: these are tail calls, so no stack is
kept, and `change_log_path` (one thread, a recursive lock) always grants. `Exit` is the end of the
process wherever it is, orderly or not, and `Start` the constructor of the next. `Hold` is another
program that opens a log: `shared` lets the worker open it but not rename or remove it,
`exclusive` not even open it. A closed and a missing stream are the same `NoLog`. The close of
`backgroundExitFatal`, and a change behind it, are in `Asynclog`.

**Semaphore, BoundedQueue.** `Semaphore` has one action for each critical section of `wait` and
`release`, and one for a signal and for the return from it. The `WaitNode` is on the stack of the
thread that waits, so it is named by the thread; `pNode` is the rest of the list that a release
has dequeued and walks, reading the next node before it signals this one. `BoundedQueue` has two
instances, the free places and the items, and `pc` for where a thread is in `enqueue` or
`dequeue`: an item is pushed, and then counted. A wait that times out goes to `timedout`, from
where it withdraws its node or, if a release has taken that, waits for its signal after all. The
queue in the middle (`LockedQueue` or the runtime's `concurrent_queue`) is atomic.

**Barrier.** One action is one access to a shared field. `place` is where a task is in `wait`,
`pEvent` the event it took when it came; `m_blockedState` and `m_event` are of the two
`EventWrapper`s. Spinning before the test only delays it. The version is incremented, and the
callback called, in `CallBarrierMethod`. `rounds` is history.

**SplitOrderedHash.** One action is one access to a shared field: a next pointer, a bucket, a
segment of the table, the number of buckets or of elements. Order keys are the reversed bits of
the hash, computed as the code does, with `Bits` instead of 32. A thread's `call` has the locals
of its operation: the two iterators `iter` and `where` of a search, and the chain of parents whose
buckets must be made first. `find` and `const_find` differ: the const one makes no buckets, it
climbs to a parent that has one. Operations the documentation calls unsafe (`erase`, `unsafe_end`,
`clear`, `rehash`) run when no other does. `at`, `count` and the multi-containers are the same
code with other ends: `at` is `find`, `count` is `equal_range`, `multimapping` is
`_M_allow_multimapping`. `rehash` takes any size up to `unsafe_max_bucket_count`. `Filling` is
what is inserted, by one thread, before the others begin.

**Tasks.** The given tasks, and what a combinator makes of them: the task that waits for the event
(`All`), a continuation and a cancellation continuation of each given task, the returned task
(`Ret`). `kind` is the combinator, or `event`, where two jobs set or cancel one
`task_completion_event`. `job` is where the job of a task has got to; the places are the
operations of its function in their order (`Starts`, `AfterCount`, `AfterSet`, `AfterCancel`),
which differ by combinator. The critical section of a task is one action; that of the event is
not, since it takes the sections of its tasks one by one (`_TaskListCritSec`). The combinator runs
on while the given tasks already complete or are canceled (`Make`). A task may be canceled again,
which schedules what was added to it since (`cancel`). A result is the set of the
given tasks whose value it has.

**PplAlgorithms.** The tasks of one algorithm work on disjoint data, so each algorithm is an
operator, and an action only returns its value. Thresholds of the code (512, 1024, 2048, 256) are
constants; sizes down to which an array is split must keep nine samples apart, so `SmallSize` and
`_FINE_GRAIN_CHUNK_SIZE` are at least 8, and some inputs of 40 elements are there to reach the
split in three. The function of `reduce` is the concatenation of sequences, which is associative
and not commutative, so that both a lost element and a swapped one change the result. A loop is a
function of the number of its turns and a recursion one of what decreases with every call, which is
what the provers can reason about. What the callers have to bring (sorted inputs to a merge, a step
that is not 0, integers that fit their width) is `CallsAssumption`.

## Runs

| Run | Question | Bounds |
|---|---|---|
| `shared`: the queue | Is a wake-up ever lost, and is the queue a live FIFO? | 2 producers, 2 looping consumers and a timed one, 2 items, 3 pushes: two items can be queued while one consumer waits, another is woken and a timed call uses up a notification |
| `shared`: the active object | Is everything run once, in order, does the destructor flush and return, and is every future answered? | a line to write, a request for the name, two functions, of which one may be called by the other; 4 sends: before, during and behind the token |
| `shared`: the hash container | Is the container a set, is what was there found, do calls return? | 2 threads, 3 keys, two in one bucket until the table doubles and two whose order keys collide, 4 bits, 2 calls on an empty container or on one of three elements with buckets yet to be made, as a map and as a multimap |
| `log` | Used as documented: no bad pointer, everything accepted is written once, the destructor returns. With FATAL, and changes of log file before and behind it: every caller is released, and everything before the message is in the file. At any moment, also when pushes are lost and changes and rotations fail: what is true of the file? | 2 clients with 3 calls each and 2 loggers as documented, enough to log, initialize, log again, shut down and initialize again; 2 calls each otherwise: both fatal, or one before, under or behind the other, or a change behind it; 1 call each where failures meet fatal messages, since the proofs have the rest |
| `file` | Alone on the disk, with the process ending anywhere: which logs are lost, and does the open one stay small? | 2 paths and one where nothing can be created, 4 slots and 7 logs, so that slots run out and are freed again; 2 rotations by size instead of 5, so that they run out too |
| `file_held` | The same while another program holds a log: what is still true when renames fail? | the same with 6 logs, one held at a time, at any moment and for any time |
| `concrt` | The parts of the extras that have nothing to do with each other, one in each behaviour | a bounded queue with 2 places for 2 producers, a consumer and a timed consumer, who come again without end; a barrier for 3 tasks and 3 rounds, so that both events are used again; every combinator over 2 tasks that complete or are canceled at any time; the algorithms on all small inputs, with the thresholds scaled down so that each way to split the work is taken |

Properties of particular interest: `NoStrandedItem` says why the queue's late notification is
harmless, and to whom it is not; `FlushedAtJoin` says exactly what the destructor promises;
`AnswersAreTrue` says that a future never promises what the queue has dropped, however the end of
the queue meets a late call; `FileInOrder` says that the two `once_flag`s keep the first message
first although threads race for them. The program goes on after a fatal message: `FatalFlushes` says
that all that ran up to it is in the file, which no job before it may have closed, and
`FileStopsAtFatal` that what comes behind it in the file was sent behind a change of log file, which
alone opens the file again. `ImplementsRotatedLogs` says that a rotation may be interrupted
anywhere: what is lost is still the oldest log, and only when no slot was free. `NewestSurvive` is
what is left of that when renames fail: the log given up then may be any but the two newest, since a
removal that is followed by a rename that fails leaves a hole and the next removal goes on below it.
`BackgroundReturns` is about the recursion of `backgroundFileWrite`: a big log that cannot be
renamed is opened again, its text asks for the next rotation, and only the retry counter ends this.

`PermitsConserved` counts every place and every item of the bounded queue once, in the semaphore,
in a release under way, in a wait that timed out too late, or between the item and its permit;
from it follows that a consumer with a permit finds an item. `NodesAlive` is why a release may
follow pointers to other threads' stacks. `RoundsInStep` says that tasks slow to leave a round do
not disturb the next. `FindsWhatIsThere` is the contract of the container while it grows under the
search. `AnswersAgree` excludes that one waiter sees a task completed and another canceled, and that
a combination completes without all of its result.
`ReturnedSettles` says which returned tasks settle: all but those added to a task that was
canceled before it completed, which only a second `cancel` of that task may still schedule.

Runs whose property is violated, each a statement of the repository that the code does not keep:

| Run | The statement | What happens |
|---|---|---|
| `log_fatal_under_log` | uninitialized messages do not crash the logger (`Asynclog.cpp:55`) | the pointer tested is cleared by the handling of a fatal message before it is followed |
| `log_second_init` | the fatal caller waits only until its message is saved (`Asynclog.cpp:153`) | the CHECK waits with the mutex locked for the background thread, which waits for the mutex |
| `log_destroy_under_log` | the destructor ensures no LOG reaches a worker that is gone (`Asynclog.h:221`) | the pointer is cleared after the worker has been taken apart |
| `log_change_after_fatal` | a fatal message is the last to be processed (`Asynclogworker.h:27`) | the program goes on, and a change of log file behind the message opens a file for what is logged behind both |
| `log_other_shut_down` | the destructor of a worker that is not active leaves logging active (`Asynclog.h:223`) | the pointer is compared and later cleared, without a common lock; a logger initialized in between is shut down |
| `file_truncated` | opening appends to the existing log file (`Asynclogworker.cpp:371`) | the first try fails because another program has the file; the second, with `trunc`, succeeds and empties it |
| `requests_at_end` | a request for the log name is processed like any other job (`Asynclogworker.h:46`), and the destructor flushes the queue (`Asynclogworker.cpp:391`) | `pimpl_` is null before the queue is flushed; the request follows it |

Read in the code, without a run of their own. In the logger:

* A timed pop that is woken by the push returns without the item, although `shared_queue.h:141`
  says that it tries again; nobody else is woken for the item. Mixed with consumers that block
  without a timeout this strands items. Nothing in the repository calls the timed pops.
* LOG(FATAL) returns: the caller is to sleep until the program is killed (`Asynclog.cpp:152`), but
  the function that should kill it is empty.
* The handling of a fatal message (`Asynclogworker.cpp:460`) clears the global pointer without
  comparing it, whichever logger is active.
* A job or a message for which the queue has no memory is lost without notice, and if it is the
  quit token, `~Active` never returns (`active.cpp:24`, `:34`).
* The first uninitialized message is saved at most once in the life of the program. One recorded
  after a shutdown is not saved by the next initialization, since the `once_flag` has been used.
* A job that logs FATAL waits on the background thread for the background thread.
* `is_logging_started` (`Asynclog.h:44`) is a static of every translation unit.
* `changeLogFile`, `logFileName` and `genericAsyncCall` have no return statement for a null
  `pimpl_`, and `changeLogFile` follows it before the test. The future of `changeLogFile` gives a
  name on failure too (`Asynclogworker.h:34`: "else empty string"); that of `logFileName` gives
  the directory alone.
* "attempting current directory" is printed when a file cannot be opened
  (`Asynclogworker.cpp:341`, `:375`, `:499`); nothing of the kind is attempted.
* `ReferenceCounter` starts at one and `SmartPtr(T*)` adds one, so that `SmartPtr<T> x = new T()`
  never deletes.

In the extras:

* `internal_concurrent_hash.h`: the copy constructor (157-159) clears buckets that were never
  initialized; `unsafe_cbegin` and `unsafe_cend` (936-954) ignore the bucket; `unsafe_bucket_size`
  (762-780) counts from buckets that may not be there. `equal_range`, `count` and `unsafe_erase`
  stop at an element of another key with the same order key (1312), against the comment at 662.
* `ppltasks.h`: `||`, `when_any` and `&&` of `task<void>` use `_PParam` after the continuation on
  the winner may have deleted it (1593-1668, 1835-1870); `ParamDeletedOnce` demands this of
  `when_all` only. A task made from a canceled event stays pending (324-326). A continuation added
  to a task that is canceled but not completed is not canceled (661). A second `cancel()` returns
  true (the comment at 825 says otherwise). `when_any` of nothing never completes.
* `ppl_extras.h`: the comment at 2115 has the result of the buffered sort the wrong way round;
  `parallel_partial_sum` of a fixed partition applies the function in the other order, which a
  function that is not commutative shows.
* `agents_extras.h`: `propagate_to_any_targets` (637-669) returns when the head has changed, where
  its comment says when it has not; `bounded_buffer` (1036-1083) does not reset `_ReservedId` when
  a reservation fails.

Components in one run have nothing to do with each other there: a behaviour uses one of them. The
check for deadlock is off: calls, logs or rounds are bounded, and after the destructor, or after the
program has ended, nothing is left to happen. What may not block is stated as liveness instead.

## Fairness

* `SharedQueue`: a producer that has unlocked notifies, a consumer that is not blocked goes on, a
  timed wait ends. Nobody is made to push and no spurious wake-up is relied on. Weak fairness is
  what a preemptive scheduler gives a runnable thread.
* `Active`, `Futures`: the background thread runs and its callbacks return; a destructor that has
  begun goes on; `join` returns when it can.
* `Asynclog`: threads inside a LOG statement, the background thread and a destructor that has
  begun go on. Nobody is made to log, to initialize or to destroy. The poll in `fatalCallToLogger`
  sees a pointer that stays null.
* `LogFile`: the background thread goes on with the job it has begun. No job is made to arrive, no
  other program to hold or release a file, and no process to end or start.
* `BoundedQueue`: each thread goes on, and producers and consumers come again: `enqueue` returns
  only if somebody takes. No timeout is relied on.
* `Barrier`, `Tasks`: while any task can go on, some task does. That is weaker than fairness to
  each, and enough where rounds are bounded and each job runs once.
* `SplitOrderedHash`: a call that has begun goes on. An insertion is tried again only when another
  has succeeded, which is why it returns while calls are bounded.

## Proofs

`SharedQueueProofs`, for any items, any finite sets of threads and any number of pushes:

* `TypeCorrect`;
* `WakeupsAlwaysCoverItems`: unless a `notify_one` went to a timed call, or no consumer is
  blocked, there are at least as many producers about to notify and consumers about to look as
  there are items. It is inductive beside `QueueTypeOK`; each step that changes one of the three counts
  changes another with it, which is where the cardinality lemmas are used;
* `NeverStranded`, which is not inductive by itself and follows from the count;
* `ImplementsFifoSafety`: every step is a FIFO operation or a stutter.

`ActiveProofs`, for any jobs and any number of sends:

* `TypeCorrect`;
* the inductive invariant `IInv`. `Control` ties `done_` to the place of the thread, `QuitLast`
  says that `done_` holds exactly when the last callback that ran is the token, `RanFirst` and
  `RestQueued` say position by position that what ran, the callback in hand and the queue make up
  what was sent. Concatenation is left out of the invariant because indices are easier on the
  provers than sequences;
* `NothingEverLost`, `AlwaysFlushedAtJoin`, from `IInv`;
* `ImplementsExecutorSafety`: that run executes the oldest callback not yet executed, and nothing
  after the token, needs `IInv` as well.

Of `Futures`, in the same module and for any jobs: every step is one of `Active` or leaves it alone
(`RefinesActive`), so that the invariant above holds here too, and with it `WorkerFlushesAtJoin`. For
`AnswersAlwaysTrue` a job stands in `sent` at most once (`SentOnce`); its future has an answer
when that place has been run, and is awaited when it has not and the object is still there
(`Answered`).

`AsynclogProofs`, for any clients, any number of calls and any set of usages. The invariants are
in a chain, each proved with those before it:

* `TypeCorrect`, with the contents of the messages in the queue;
* `RefinesActive`: the background thread is an `Active`, which brings the invariant of
  `ActiveProofs`;
* `FileAlwaysStopsAtFatal`: what is in the file is among what the background thread has dealt with
  (`Dealt`), in the order of sending, and a fatal message in an open file has a change of log file
  behind it (`Traced`);
* `FatalAlwaysFlushes`: as long as no change fails, the file is open up to the first fatal message,
  so that everything run up to it is there (`WholeUpToFatal`);
* `FileAlwaysInOrder`, for which the order of sending is what counts (`OrderInv`): a message that was
  sent is of a call past its saving (`AllPassed`), one client at a time is behind the second
  `once_flag` (`OnceOpen`), and until it is used up only fatal messages are sent (`NothingYet`).
  It holds under every usage, with faults swallowed in the middle of the `once_flag`;
* `NeverFaults`: used as documented, a client past its test of the pointer is inside a call, and
  nothing that clears a pointer begins while one is;
* `AcceptedAlwaysWritten`, the promise of the logger: an accepted message has been sent or its client
  still has the worker before it (`Kept`), the quit token is sent last (`Token`), the thread ends
  when it has run everything sent (`Flushed`), and without a fatal message all of that is in the
  file (`WholeUpToFatal`), however often the log file is changed. Once only follows from
  `FileAlwaysInOrder`.

`LogFileProofs`, for any paths, any `MaxFiles` of at least one and any number of logs and retries:

* `TypeCorrect`, whatever other programs do: with it the search of `createLogFileName` ends in
  range;
* the inductive invariant `IInv`: logs at a path are ordered by slot (`Ordered`), numbered as
  created (`Numbered`), and the stream is closed while the disk changes and is otherwise the file
  in slot 0 of the worker's own path (`Control`). `StreamAlwaysCurrent` follows from it, whatever
  other programs do;
* `NewestAlwaysSurvive`, assuming that no program opens logs for itself alone. It needs `Guarded`:
  while the loop of a rotation runs, slot 0 is taken, and a log is created only where there is
  none. An exclusive holder breaks this, and the property with it;
* `AlwaysBoundedBySize`, under the same assumption: without it the first opening may fail on a big
  log and the second succeed. `Sized` says at which places the worker may go back to its own log,
  and that it is then small or no rotation is left;
* `AlwaysRotatedLogs`, assuming that no other program holds logs: the refinement, whole. Besides
  `IInv` and `Guarded` it needs `Shifting`, which says which slots are taken at each turn of the
  loop, so that a removal happens only with every slot taken. Logs are counted by the slots they
  lie in, which `Ordered` makes a bijection.

`MaxFiles = 1` is peculiar: the loop never runs and nothing is removed, so once both slots are
taken the rename fails and the log stays in place. With 0 the code still renames `x.log` to
`x1.log`, which the model has no slot for; it is left out.

`ConcRTProofs`, of `BoundedQueue`, for any finite sets of threads and any `maxItems`. `QInv` has three parts
about who waits and two counts:

* `Waiters` ties the place of a thread to the queue of its semaphore: it stands there at most
  once, and if it waits without standing there a release has chosen it;
* `Nodes` says that the nodes a release has still to signal are of such threads, one release for
  each;
* `PlacesCount` and `ItemsCount` are `PermitsConserved`. Each step moves a permit from one summand
  to another; the length of what a release dequeues is the number of threads it chooses.

From it follow `PermitsAlwaysConserved`, `NodesAlwaysAlive`, `NeverBarging` and
`RefinesBoundedFifo`.

`ConcRTProofs`, of `Barrier`, for any finite set of tasks and any number of rounds: the invariant tells two
phases apart. From the callback to the setting of the event one task leads, and every other is in
`wait` with the same event and in the same round (`LeaderInv`); otherwise every task is in the
current round, or still leaves the last with the other event, which is set (`FreeInv`).
`RoundsAlwaysInStep` and `ImplementsRendezvousSafety` follow.

`ConcRTProofs`, of `Tasks`, for any finite set of given tasks and every combinator, proves `AnswersAlwaysAgree`,
`ParamAlwaysDeletedOnce` and the refinement `AlwaysImplementsWhenSettled`, which is safety only and
so is proved whole. A step moves one job along its function and leaves the others where they are,
but for those that wait to be scheduled (`Steps`); flags change in six ways (`FlagChange`). On this
rests a chain of invariants, each proved with those before it: where a job may be (`PlaceInv`) and
how the task before it was settled (`FlagInv`); `_M_lCount` counts the tasks behind `"count"`
(`CountInv`), so that one job only finds the count complete, which `LastInv` follows to its end;
why the event has a value or is canceled (`EventInv`); from that who can have deleted the parameter
(`FreedInv`) and what has been stored (`ResultInv`).

`HashProofs`, for any finite set of threads, any keys and hash function, any filling, and any width
of the hash of at least two bits. It assumes that the null pointer is not a node, and that
the order keys are wide enough (`WidthAssumption`): a behaviour has at most `MaxBucketSize` times
2^(`Bits` - 1) calls (`MaxCalls`), so that no more elements are inserted, and the table never doubles beyond what
its keys can tell apart. What matters are the elements; the calls bound them. The code tests neither:
with its 32 bits and four elements to a bucket it would take 2^33 elements at once, for which the
32-bit processes the project builds have no room.

* The order keys. `Reversed` is a recursive function over the width, so that induction over it
  goes by the smallest counterexample (`Smallest`), which the library's well-foundedness of the
  numbers gives without an operator as a parameter. Equal prefixes of reversed bits are equal
  remainders (`ReversedPrefix`, `ReversedSame`); from this follow `InBucket`, that dummy nodes of
  different buckets differ (`DummiesDiffer`), and that a parent, or a bucket of the smaller table,
  lies before its children (`ParentIs`, `ChildIs`).
* The list. A list is described by the places of its nodes, a function `r` from nodes to numbers:
  a pointer leads one place on, no place is empty, and the keys grow with the places (`IsList`).
  Inserting shifts the places behind (`LinkList`), erasing closes the gap (`UnlinkList`), and
  nothing else is said about sequences or paths, which is what keeps this in the provers' reach.
* The inductive invariant `IInv` says that there are such places, and what holds with them: a
  bucket that is set points to its dummy node and has its parent set (`TableInv`); an element lies
  where its hash belongs, and is known by its call (`ElementsInv`); `size()` counts (`Counted`);
  and, for each thread in the middle of a call, what it knows: of the chain of parents it makes
  (`ChainInv`), and of the two nodes it stands between (`SearchInv`). The node behind it may be
  stale, since others insert between the two; so the invariant only says that the first comes
  before what is sought, and that everything that was there when the call began has been found or
  is not before the second (`Ahead`). Without this `FindsWhatIsThere` is not inductive.
* What one thread knows survives the steps of another because list, table and numbering only grow
  (`OthersKeep`); what shrinks the list (`erase`, `clear`) runs alone. That a compare-and-swap
  succeeds means that the node behind is not stale after all: then no element of the key was put
  between (`InsertNext`), which is why a map never has two.
* `AlwaysWellFormed` and `AlwaysFinds` follow, and `HashImplementsSet`: an insertion takes effect
  when its node is linked, and no later step of the same call shows.

`PplProofs` and `SortProofs`, for any calls that `CallsAssumption` allows, any values of the
constants that `AlgorithmsAssumption` allows, any number of cores and any chunks:

* The recursions. A recursive function is what its equation says only if there is such a function:
  `RowsExist` proves it once, by the smallest counterexample, for every recursion whose equation
  asks only for what is smaller, and the other existence lemmas in the same way. From then on a
  loop is reasoned about by an invariant over its turns and a recursion by induction over its
  measure.
* `EveryIterationRuns`: batches follow each other without a gap (`FirstBatch`), and the two input
  iterators of a transform advance with its output (`TransformState`).
* `EveryFoldIsInOrder`: a fold with a unit and an associative operation may be cut anywhere
  (`FoldedJoin`), and both ways to divide a reduction give chunks without gaps (`RandomChunks`,
  `ForwardChunks`); buckets pushed to the front and combined from the back are in order again. Of
  the recursive partial sum, `ScanStep` says what one level leaves at every place of its stride.
* `EveryMergeMerges`: the reference `InOrder` is the only ascending sequence with the same number
  of elements up to every x (`AscendingInOrder`), so that a merge is right when it counts right and
  ascends. `IsMerged` is the invariant of the sequential merge, `IsSearch` that of
  `_Search_mid_point`, and `JoinedHalves` says that sorted halves which such a cut separates are
  the sorted whole.
* `EverySortSorts`, in `SortProofs`. A sort rearranges a part of an array and leaves the rest
  (`RearrangedIn`), so that tasks which sort different parts do not disturb each other.
  * `parallel_sort`: the pivot is never the only greatest element of its range
    (`NineIsPivot`, `SelectIsPivot`), which is what stops the first scan inside it
    (`FromLeftIs`); `TwoWayIs` and `ThreeWayIs` are about the two partitions, whose loops have
    the invariants `InTwo` and `Looping`; by `HalvesSort` the range is sorted when both sides of
    the pivot are. `QuicksortIs` is by induction over the depth of the recursion.
  * `parallel_buffered_sort`: each level of merges changes the buffer, and the adjusted number of
    tasks makes the number of levels even (`AlignedIsEven`), so that the result is where the
    caller's elements were. `BufferedIs` says for each level in which buffer the part then is, and
    that the rest of both is as it was (`BufferSorted`).
  * `parallel_radixsort`: the segments of the threads are apart and cover the range (`SegmentOwns`),
    and the sums of their counts give each element the place of its rank (`PlaceIs`), in which an
    earlier one of the same digit comes first (`RankOrder`); so
    a pass adds a digit to the order (`PassOrders`), and the sequential passes sort by all digits
    below (`PassesAre`). The first, parallel pass goes by the highest digit of the greatest
    element, above which all digits are the same (`HighestIs`, `AllDigits`); chunks in the order
    of that digit, each sorted by the digits below, are sorted (`ChunksJoin`). The order includes
    where an element came from, so what is proved is stable.

Only model-checked: all liveness, which this prover does not handle (the parts of
`ImplementsFifo`, `ImplementsExecutor`, `ImplementsBoundedFifo` and `ImplementsRendezvous` under
fairness too, and every `... Returns`, `... Leaves`, `... Settles` of the runs).

## Not modelled

* Log levels, message assembly, text, timestamps, the banner and the shutdown line in the file,
  and the `result` of `createLogFileName`, which only chooses between two texts.
* Of `changeLogFile`: the line it writes on the calling thread before it sends the job, a data
  race on a stream of the standard library, whose outcomes nothing bounds.
* Writes through a null stream, which end a process that has no log.
* Pushes that fail, in the liveness properties: a lost quit token leaves the destructor waiting,
  and a lost fatal message its caller. `DestructorReturns` is about a token that got into the
  queue, and the properties of `Asynclog` under `Orderly` about a queue that has memory.
* A job that waits for another job or for its own fatal message: none of them returns.
* Time-based names, which no caller asks for, and two workers with one path.
* Disk full, and removals and renames that fail for another reason than a file that is open.
* `changeFatalInitHandlerForUnitTesting`: the model is of the default handler.
* Reference counting, which nothing in the repository uses, and the locks, whose bodies are not in
  the repository.
* Compiler reordering of the unlocked reads of the global pointer: each read is atomic, as on the
  x86 the project builds for. The same goes for the interlocked operations of the extras.
* Of the containers: copying, swapping and allocators. Of the tasks: exceptions of user functions,
  and the scheduler below them. Of the algorithms: the sampling of iterators without random
  access, and cancellation in the middle of a sort.
* The agents blocks: they override the protocol of `propagator_block` (offer, reserve, consume,
  release), whose code is in headers that are not in the repository; a model of it would be of
  something else.
* `crashhandler_unix.cpp` (in no build file), and the adapters of the scheduler.

Hazards of the list in `PROJECT.json` that no property covers are the used `once_flag`s, the job
that waits for itself, the write of `changeLogFile`, the null stream, and colliding order keys:
each is what the code does, recorded above. Nor does one cover that `release` reads `m_pNext`
before it signals (`semaphore.h:76`): every release in the repository is of one permit, so that
there is no next node, and the order of the two makes no difference a run could show.

## Plan

1. The logger: `SharedQueue`, `Active`, `Futures`, `Asynclog`, `LogFile`, with proofs (done but for
   what is listed as only model-checked).
2. The extras: `BoundedQueue`, `Barrier`, `Tasks`, `SplitOrderedHash` and `PplAlgorithms`, with
   proofs (done): every invariant of a passing run is a theorem.
3. Not begun: cancellation in the middle of a sort, and the containers' copying and swapping.

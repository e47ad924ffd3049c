# A TLA+ model of the Elements library

Elements (`src/El`) is a C++ library for servers: queues, thread and process
pools, timers, a file cache, logging, adapters of Apache, Python, CORBA, MySQL
and of network protocols. This directory models its concurrent core. TLC checks
the modules on small instances; TLAPS proves what `*_proofs.tla` states for all
of them.

## 1. The system

| Component | State | Operations | What is hard about it |
|---|---|---|---|
| `El::Queue` (`El/Queue.hpp`) | a deque, its size and capacity, counts of waiting and awaking threads, a mutex, **one** condition variable | `enqueue`, `dequeue`, `awake`, `max_size`, reading calls | producers and consumers share the condition variable and are woken one at a time; deadlines; closing by `max_size(0)`; `awake()` spins until nobody waits |
| `ServiceBase`, `ThreadPool` (`El/Service`) | `started_`, `stop_`, `thread_handles_`, a task queue | `start`, `stop`, `wait`, `execute`, the threads' `run` | lifecycle calls race with the threads they control; a read lock is held while `execute` blocks; thread creation, tasks and callbacks fail |
| `Timer` (`El/Service`) | sorted backets of events with bounds and counts, the smoothed delay, `stop_` | `set`, `start`, `stop`, `clear_buckets`, the thread's `run` | a sleeping thread must learn of earlier events; bookkeeping of split backets; feedback of the delay; restarts |
| `CompoundService` (`El/Service`) | a pool, a timer, a replaceable state, itself a service | `start`, `stop`, `wait`, `state(new)`, `deliver_now`, `deliver_at_time`, `notify` | the state is replaced on a thread of the pool that the same calls start and stop |
| `El::Cache::FileCache` (`El/Cache`) | a map of holders, a lock for each, sequence numbers | `get`, `modified`, `erase`, `clear` | files change under a load; double checking under two kinds of lock; a path that has released the lock |
| `ProcessPool`, `ElPoolProcess` (`El/Service`, `Tools`) | a task queue; per worker a child process and two pipes | as `ThreadPool`, and `Task::wait` | children die, hang, time out and answer late; a waiter depends on every error path |
| `FileLogger` (`El/Logging`) | an open file, its size and age, rotation policies, a timer, the files it left | `log`, `raw_log`, rotation, `notify` | each call of the system may fail halfway; others move the file; restarts |
| `PSP::RequestCache` | a map of counted answers with two expiry times | find, prolong, purge, fill, store, respond | one of many requests refreshes an expired answer; an answer is used outside the lock |
| `ElStart` (`Tools/Start`) | services with their dependencies, a layer counter | start, stop, status, list of a cluster | layers of a dependency graph executed by a pool, whose tasks begin the next layer or stop the pool |
| `Python::SandboxService` | a process pool | run code, wait for it | the interpreter's lock is given up around the wait |
| `Sync::AdaptingMutex` (`El/Mutex.hpp`) | two mutexes, pending writers, a countdown | `acquire_read`, `acquire_write`, `release` | readers yield, for a bounded time, under a mutex |
| `RefCount`, `Counter`, `SharedStringManager` | counts | add, remove | the last reference |

The rest is sequential: text, serialisation, calendar arithmetic, compression,
tables, parsers, wrappers of other libraries, generators. `PROJECT.json` lists
every part with the reason it is left out.

How they interact: `ThreadPool` and `ProcessPool` are services whose threads
take tasks from an `El::Queue`; stopping them is closing and awakening that
queue. `CompoundService` owns a `ThreadPool` and a `Timer`, and gives tasks to
the first from the thread of the second. `FileLogger` owns a `Timer`; `ElStart`
owns a `ThreadPool`, `SandboxService` a `ProcessPool`; PSP uses `FileCache`,
`RequestCache` and `SandboxService`. Errors go to the owner through
`Callback::notify`, on the thread where they occur.

What makes each correct:

* Queue: nothing is lost or delivered twice, a call fails for its stated reasons
  only, no sleeper is forgotten, `awake()` returns.
* Pool: an accepted task is run once or dropped by rule, a required one is run;
  `stop()` and `wait()` return and leave a pool that can be started again.
* Timer: events are triggered in order, not early, not forgotten, and the thread
  never sleeps past one.
* Compound service: one state runs at a time, and after `stop(); wait()` none.
* Cache: an answer is not older than the question as far as `stat64` can tell,
  threads share a load,
  every call ends.
* Process pool: no task completes twice or with another's answer, a waiter
  returns, a pool can be stopped whatever its children do.
* ElStart: no command of a service runs before all that it depends on is, or was
  taken to be, as it should be; the program ends with everything done unless
  something failed.
* Logger: a line is in some file or reported as lost; a logger that lost its
  file finds back.
* Request cache: no answer is used after its last reference, and an old answer
  is given only while somebody makes a new one, or for a while after somebody
  gave up making it.

## 2. Modules

| Module | Models | Uses |
|---|---|---|
| `Queue` | `El::Queue`, step by step | |
| `BlockingQueue` | what a queue promises: blocked calls, and nothing about how they sleep | |
| `ThreadPool` | `ServiceBase` and `ThreadPool` | an instance of `Queue` as `tasks_` |
| `TaskPool` | what a pool promises: each accepted task is taken once, and completed or dropped | |
| `ProcessPool` | `ProcessPool` with its children (`ElPoolProcess`) and pipes | implements `TaskPool` |
| `Timer` | `Timer` | |
| `Schedule` | what a timer promises: a set of events with their times | |
| `CompoundService` | `CompoundService` | its own reduced pool, timer and states |
| `ObjectCache` | `FileCache`, `ObjectHolder`, included files of `VariablesMap` | |
| `ElStart` | `ElStart`, with its pool and the commands it runs | implements `DependencyOrder` |
| `DependencyOrder` | what ElStart promises: steps done one after another in the order of what they need | |
| `FileLogger` | `FileLogger`, `LoggerBase`, and the files on disk | its timer reduced to "set" or "off", see `Timer` |
| `RequestCache` | `RequestCache::Cache` and `Entry` | |
| `..._proofs` | theorems about the module of that name, and their lemmas: `Queue`, `ThreadPool`, `ProcessPool`, `Timer`, `CompoundService`, `ObjectCache`, `ElStart`, `RequestCache` | that module, TLAPS; `ThreadPool_proofs` also an instance of `Queue_proofs`; `Timer_proofs` also `FileLogger`, whose theorems are its second part |
| `MC...` | values of the constants and symmetry sets for TLC | the module of that name |

`ThreadPool` and `ProcessPool` implement the same `TaskPool`. `ElStart` and
`CompoundService` are clients of a pool of which they keep only what they can
observe.

### Correspondence to the code

Variables carry the names of the members they stand for, with their trailing
underscore; the others are places in the code (`pc`, `at`), arguments and local
variables, or history, and are commented as such. **The atomic step** is a
stretch of code under a lock: what is done under it is one action, and a
blocking operation ends the action. Mutant operators (`Mutant: ...`) stand
before the definition they are a wrong version of; nothing uses them.

* `Queue`. A call that need not wait is `CallSucceeds` or `CallRefused`; one that
  waits is `CallWaits`, then a signal, the deadline or a spurious wake-up, and a
  return that re-tests the condition (`ReturnWoken`, `SleepAgain`,
  `ReturnExpired`, `ReturnAwaken`). Which sleeper a signal reaches is left open.
  `awake()` signals without the lock, so it alternates between signal and check.
* `ThreadPool`. The actions of `Queue` are composed with those of the service:
  `tasks!Next`-steps of a worker happen in its loop only, those of a client in
  `execute`. `srv_lock_` is held across steps by blocked `execute` calls only,
  so it is not a variable but the guards `CanRead` and `CanWrite`. A joined
  thread's slot is free again. The three `Faults` make `pthread_create`, a task
  or the callback fail.
* `Timer`. Iterators are positions in the list of backets. `set()` is two steps,
  because it writes `event->time` before it locks. The clock is a bounded
  number, and a thread may be woken late by any delay that the bound permits.
* `CompoundService`. Pool and timer are reduced to phases, the pool's queue and
  its lock: their detail is in the other modules.
* `ObjectCache`. Time is abstracted: a period may or may not have passed. What
  `stat64` tells of a version, its time in whole seconds and its size, is a
  constant function (`Stat`, `IncludedStat`), which may give two versions the
  same: the code compares nothing else. The
  unlocked tail of `get()` is cut into its reads and writes (`NewRead`,
  `NewWrite`, `NewPublish`). A holder's lock is also the lock of its reference
  count (`lock_i()`), so replacing, erasing or expiring a holder waits for a
  load. Undefined behaviour of the hash map under unlocked writers is not
  modelled; files change in place.
* `ProcessPool`. A worker's turn of `run()` is cut at each read and write of a
  pipe; a child is a process of its own that takes commands, runs, answers,
  hangs or ends. A command has a signature, an answer carries one, and what a
  task writes to the pipe itself is an answer with a wrong one. `timeout_` is
  set, so any poll may expire. `fork() = -1` is a child nobody can wait for:
  `StopReturns` exempts a worker stuck in `waitpid`, as it exempts one whose
  task broke the protocol and then never ended. An exception leaves its task
  without completion, and the refinement exempts that task (`over`).
  `SIGPIPE` is taken to be ignored, and one thread waits for a task.
  `start`, `stop` and `wait` are those of `ThreadPool`, in one step each.
* `ElStart`. A cluster description is a constant: which service comes after
  which, on which hosts, with which commands. The target is any set of services
  on hosts. `lock_` is held from the first to the last submission of a layer.
  A command ends, successfully or not, and the service turns as it should, or
  does not, at any later time. A service that the program takes to be as it
  should although it is not (`misjudged`) is exempt from `PrerequisitesFirst`:
  when stopping, probes ran out or a status command failed for its transport;
  in either direction, `fork()` returned -1, and `waitpid(-1)`, finding no child,
  returned -1 as well, which passes for exit status 0 of a command that was
  never run (`unforked`; a status command "succeeds" likewise). While another
  thread has a child that `waitpid(-1)` takes it instead, and both throw
  (`TakesChild`). The pool's stop is one step, and the order in which a hash
  table yields services is left open.
* `FileLogger`. All that happens under `lock_` in a call is one step, computed
  from the object and the disk by operators that carry the functions' names;
  an exception is a result with `ok = FALSE`, which ends what follows; the loop
  over the policies is a function of how many have been asked. What is
  broken (`fopen`, `rename`, writing, threads) stays so during a call; a failing
  write writes nothing. A name made of `time_` is a number, and a new reading
  of the clock gives one later than any file's: readings are taken to increase
  and to be told apart by their microseconds. Age is relative, so time has no
  bound. `End` then `Construct` is a restart or a crash: between two calls, or
  within one that had failed, the disk is the same.
* `RequestCache`. A reader that finds an expired page holds the read lock until
  it has prolonged it; all else a reader does is one step. Memory is modelled:
  an entry without references is free, and its place may be given to another
  entry, so a dangling pointer meets somebody else's page. All pages have the
  same two times; that a page sets its own to 0 is a `Drop`. `gaveUp` is history:
  the latest request for a key that was to make its page and dropped it.

## 3. Runs

A run has a bounded instance; "all" means that TLC visits every state of it.

| Run | Instance | Shows |
|---|---|---|
| `queue` | 3 threads that call everything with every kind of wait and strategy, 2 elements, capacities 0, 2 and 3 | counters are exact on each way out of a wait; closing reaches every sleeper; the shared condition variable does not strand a call that could proceed, while there is a slot for every thread but one; the monitor implements `BlockingQueue` |
| `queue_live` | 4 threads, consumers sleep only | as many consumers are on their way as there are elements; `awake()` and timed calls end |
| `pool` | 2 threads, 1 controller, 2 clients, a queue of 2 | the counts and the drained queue; a started pool is fit for use, again after every stop; required tasks run; `start`, `stop`, `wait` return |
| `pool_faults` | 2 controllers in any order, all faults | `TaskPool` is implemented: no task is lost or run twice |
| `timer` | events set by a thread that also stops, restarts and clears, and by triggers; late wake-ups, throwing triggers, `minimize_delay` | the backets stay valid; the thread never sleeps past an event; early by half of the worst delay at most; `Schedule` is implemented; every event is triggered or forgotten by a stop, which ends |
| `compound` | 1 controller, 1 client, 2 pool threads, 3 states, 1 message | states do not overlap; nothing runs after `stop(); wait()`; started means running; the calls return |
| `cache` | 2 threads, 2 files, 3 calls, a change of a file or of an included file, review periods, expiry, erasure | an answer is older than the question only where `stat64` cannot tell (a file and an included one change without that it does); loads are shared; calls end |
| `process_pool` | 2 workers, 2 tasks, children that die, hang, answer late or wrongly, failing `fork`, `pipe` and callbacks | a completed task keeps its result and has its own answer; `TaskPool` is implemented; waiters and `stop` return |
| `start` | 6 clusters (three services in a row, one of them on two hosts, and the same with the middle one disabled, and with all disabled; two services before a third; a ring; a service without a host), all operations and targets, 2 pool threads, all faults | the barrier between layers is exact; prerequisites come first; `DependencyOrder` is implemented; every run ends, and ends well unless something failed |
| `file_logger` | both policies, 4 lines, 2 failures, a file moved away, 2 starts | no line is lost silently; no rotated file is replaced but by `raw_log()`; a logger without its file recovers |
| `request_cache` | 3 requests, 1 page, 4 places in memory, 4 seconds | entries live while they are used; a stale answer means that a fresh one is being made, has come since, or that its maker gave up |

### Disagreements

| Run | Violated | In short |
|---|---|---|
| `pool_stranded` | `RequiredExecuted` | with one slot, two producers blocked in `execute()` and idle workers share a condition variable that is signalled once: the signal for an accepted task reaches the other producer, which sleeps again, and the task is never taken |

It quotes, in `PROJECT.json`, the comment it contradicts. Other surprises are
notes of the hazards, some of them found by TLC when an exemption is taken out
or a constant changed: two threads that see an included file changed take the
same "unique incarnation number" in the cache; a file that changes within the
second of its load and keeps its size is never loaded again;
`CompoundService::start()` starts a state that was replaced since it read it
(`OverlapStart = TRUE`), and nothing stops that state; `raw_log()` never sets
`time_`, so two rotations by size without a `log()` between them overwrite the
first rotated file; a logger whose `fopen` failed after a rename throws for ever
unless its timer runs, and that timer ends with the first exception out of
`notify()`; an older page may replace a newer one in the request cache; where
the request that prolonged a page fails to make another, the others get the old
one for the rest of the delay although nobody makes a new one; `stop()` on a
pool that does not run closes its queue, and the threads of the next `start()`
leave at once; the threads of a `start()` for which `pthread_create` failed, if
they begin after another `start()`, run with its threads although `started_`
does not count them, and count it down when they end; a pool whose last thread
died of a task's exception goes on accepting; a failed `fork()` is waited for as
process -1, and in `ElStart` a command that `fork()` failed for counts as one
that succeeded; a service whose status command fails counts as stopped. The
proofs added two. A queue with too few slots for its threads can put everybody
to sleep although a call could proceed: with six threads and three slots the
last signals all go to producers of a full queue. No run has six threads; the
bound that smaller runs suggest, a slot for every two threads, is wrong, which
showed when it could not be proved. And `execute_on_layer()` throws "cluster
definition validation internal error" for a cluster whose services are all
disabled: it passes `validate_cluster_definition`, although the comment at the
throw says "Shouldn't be here if validate_cluster_definition works properly".

### Bounds, and why they are enough

* *Queue.* A lost or misdirected wake-up takes a sleeper of each role and a
  third thread that acts; four, in `queue_live`, let two wake-ups be under way at
  once. Elements are only compared with each other, so two suffice. Capacities 0,
  2 and 3 are closed, full after two, and roomier than the threads can fill
  while one consumes; each open one has a slot for all threads but one, which
  `NobodySleepsInVain` takes. Nothing else is bounded: calls may be repeated for ever.
* *Pool.* Two threads are the fewest of which one can leave and the other stay;
  two clients fill a queue of 2 and block. With one slot `RequiredExecuted`
  fails (`pool_stranded`); `pool_faults`, which does not speak of liveness, keeps
  a queue of 1. Three slots let an old
  generation of threads overlap with a new one. Each task is submitted once.
* *Timer.* `SplitOver` is 4 in the code; 1 splits backets as early as with four
  times the events. `MaxTime` and `MaxSets` end behaviours: the properties speak
  of the orders of set, trigger, split and wait that fit in.
* *Compound.* Each state and message is given once. `QueueSize` is larger than
  the number of tasks, as its default `SIZE_MAX` is. The run keeps `start()` from
  overlapping with a replacement (`OverlapStart`), see above.
* *Cache.* `MaxGets`, `MaxChanges`: three calls are a load, a reload and a
  competitor. An answer within the review period promises nothing and is exempt
  from `Fresh`.
* *Process pool.* A child that was killed must not answer the next task: that
  takes two tasks on one worker, and a second worker to run at the same time.
* *ElStart.* A layer ends when the last of several tasks does, on another thread
  than the first: two hosts or two services in a layer, and two threads. A
  transitive prerequisite takes three services. One probe is one repetition.
* *FileLogger.* A size of two lines and four lines give two rotations; both
  policies ask at once after two steps of age. A failure and its repair, twice,
  and one moved file put a second failure into the wake of the first.
* *RequestCache.* Two readers find a page expired together while a third is
  answered; a timeout of one second, a delay and an unused time of two, and a
  clock of three let a page expire, be prolonged, and be purged under a reader.

`CHECK_DEADLOCK FALSE` everywhere: callers need not call, a stopped service may
rest, and bounded counters run out.

### Fairness

Nobody is ever obliged to make a call. Assumed is that a thread which can run
does, and that a lock somebody waits for is granted in the end. The second is
strong fairness of the waiting step, since locks are taken by others in
between. In `Queue`, a deadline passes (strong: a thread may be woken in vain any
number of times before). In `ThreadPool`, tasks return. In `Timer`, the clock
goes on. In `CompoundService`, states that are stopped end. In `ProcessPool`, a
poll that nothing comes for expires, and a killed child ends. In `ElStart`,
commands end, with or without effect. In `FileLogger`, the timer calls and what
is broken is repaired; nothing is assumed of those who log. Three liveness
properties hold under a condition, which the instance states: clients of `pool`
do not block for ever (a pool that is not running never empties its queue, and
`execute` keeps the lock that `start` needs), its queue has a slot for each
thread that may be woken in vain (`RequiredExecuted`), and producers in `queue_live` do
not sleep (the shared condition variable does not promise a wake-up to the right
role; `NobodySleepsInVain` in `queue` is what it does give).

## 4. Theorems

Each is proved for every value of the constants that the module's named ASSUME
admits, and TLC evaluates that ASSUME on the instances. The assumptions are of
four kinds: bounds are numbers, threads and tasks are finitely many where they
are counted, parts are disjoint (a thread is a worker or a client, a task is not
a word of the protocol), and a value such as `NoTask` or `"none"` is not one of
those it stands in for. Where a theorem needs more, it says so in its
statement (`ASSUME InTurn PROVE ...`). All proofs go the same way: an inductive
invariant `IInv`, one lemma per action or group of actions, one step in it per
conjunct that the action can disturb; a refinement is proved step by step from
it.

| Module | Theorem | Property |
|---|---|---|
| `Queue_proofs` | `TypeAndCounters`, `TypesAreKept` | `CountersExact`, `TypeOK` |
| | `ClosingReachesEverySleeper` | `ClosingReachesAll` |
| | `ConsumersLoseNoWakeup` | `NoLostWakeup` |
| | `TheRightKindIsWoken` | `NobodySleepsInVain` |
| | `QueueImplementsBlockingQueue` | `ImplementsBlockingQueue` |
| `ThreadPool_proofs` | `PoolUsesQueue`, `QueueOfThePool` | the pool's queue is a `Queue`, and has its theorems |
| | `Invariance`, `ThreadPoolImplementsTaskPool` | `ImplementsTaskPool` |
| | `StartedCountsThreads`, `PoolStaysFit` | `StartedExact`, `FitForUse` |
| | `TasksAreKept` | `TaskPool`'s `NoneLost` and `TakenOnce` |
| | `StartedNeverTooLow`, `GenerationsApart` | `StartedExact` for any callers and failing tasks and callbacks; start after start |
| | `WaitingTasksAreFetched`, `StopLeavesNobody` | what `RequiredExecuted` and `ControllersReturn` need besides fairness |
| `ProcessPool_proofs` | `Invariance`, `CompletedTasksAreFinal` | `CompletedIsFinal` |
| | `ProcessPoolImplementsTaskPool`, `TasksAreKept` | `ImplementsTaskPool`; `NoneLost`, `TakenOnce` |
| | `WorkersLeaveNothing`, `OnlyExceptionsLeaveUnanswered` | what is left of a worker; what `WaiterReturns` needs besides fairness |
| `Timer_proofs` | `Invariance`, `ListIsValid` | `Valid` |
| | `NeverTooLongAsleep`, `EarlyByHalf`, `StoppingForgets` | `NeverSleepsPast`, `EarlyByHalfAtMost`, `StopForgets` |
| | `TimerImplementsSchedule` | `ImplementsSchedule` |
| `Timer_proofs` (`FileLogger`) | `LoggerInvariance`, `LinesAreKept` | `NothingLost` |
| | `PolicesRotateOnce`, `RotatedFilesAreKept`, `OnlyRawLogReplaces` | `RotatedFilesStay` |
| `CompoundService_proofs` | `Invariance`, `StatesRunOneAtATime` | `OneStateAtATime` |
| | `StopReachesTheState`, `StartReachesTheParts` | `StoppedMeansStopped`, `StartedMeansRunning` |
| `ObjectCache_proofs` | `Invariance`, `GetIsFresh`, `VersionsAreLoadedOnce` | `Fresh`, `LoadedOnce` |
| | `GetIsNeverOlder` | no answer is older than the question, where `stat64` tells versions apart |
| | `UnexpectedOnlyUnlocked` | when `get()` can throw "unexpected state" |
| `ElStart_proofs` | `Invariance`, `LayersAreExact` | `LayerExact` |
| | `PrerequisitesComeFirst` | `PrerequisitesFirst` |
| | `ElStartImplementsDependencyOrder`, `FailuresStopWhatFollows` | `ImplementsDependencyOrder`; its `EachInOrder`, `BegunOnce` |
| `RequestCache_proofs` | `CountsAreExact`, `EntriesAreLive` | `EntriesLive` |
| | `StaleWhileRemade` | `StaleOnlyInTheMeantime` |
| | `EntriesDoNotLeak` | every entry is somebody's; between requests, the map's alone |

**Queue.** `IInv == TypeOK /\ CountersExact`: the type alone is not inductive
(`waiting_ - 1` must stay a natural number, which needs a thread that is
counted), nor is `size_ = Len(queue_)` without the sequence's type.
`ClosingReachesAll` is inductive relative to it: the step that matters is a
woken thread that leaves, which signals another sleeper if there is one
(`SignalReaches`). The others need `WaitersAgreed`: who waits has made a call that may wait, and
only a call with a deadline expires. With it every waiter is a consumer when
producers do not wait, and `NoLostWakeup` is inductive: a signal that leaves a
sleeper has added one to the woken, as many as an enqueue adds elements, and who
falls asleep has seen `size_ = 0`. When both roles sleep, `Answered` is the
invariant: while a consumer sleeps, woken consumers are as many as elements;
while a producer sleeps, woken producers are as many as what N - 1 slots would
have free. Both at once would need N - 1 woken threads besides the two that
sleep (`NeverBothAsleep`), so every signal goes to the kind that it is meant for.
In the refinement, `DoEnqueueInserts` shows that `do_enqueue` inserts where the
strategy allows; signals, deadlines and vain wake-ups are stutters.

**ThreadPool.** Every step of the pool is a step of its queue or leaves the queue
alone (`PoolUsesQueue`), so the theorems about `Queue` hold of it by `INSTANCE`
and `ThreadPool_proofs` uses `CountersExact` as a fact. `IInv` adds where each
thread is in the queue (`InWait`), that nobody offers what another offers or was
accepted (`Offers`), and that a task is in one place of the queue or in the hands
of one worker until it is over (`Hands`). This holds for any number of
controllers in any order and with all faults, and gives the refinement.
`StartedExact` and `FitForUse` do not hold in general (see "Other surprises"), so
they are proved under `InTurn` (one controller that starts, stops and waits in
turn, threads can be created, callbacks do not throw) and `Reliable` (tasks do
not throw either), which is the instance of `pool` for any number of threads.
`Life` and `Kept` say what holds in each phase of such a pool; the step to see is
that a worker leaves only a queue it found empty and closed, and that
`wait()` opens the queue again when it has joined them all.

What remains for controllers in any order and failing tasks and callbacks is
`CountsAll`: whoever is in `run()` has a handle, and `started_` is at least their
number. So a start that creates threads finds none (`GenerationsApart`). It takes
that threads can be created: those of a start that failed, if they are slow to
begin, join the next generation uncounted (see "Other surprises"). The last two
theorems are the safe part of liveness. `WaitingTasksAreFetched` carries
`NoLostWakeup` and `NobodySleepsInVain` over to the pool, under the condition
that gives them (`NobodyMisled`); `pool_stranded` shows what happens without it.
`StopLeavesNobody` follows the closing of the queue: nobody falls asleep in a
closed queue (`ClosedStaysEmpty`), and `awake()` ends when all have left, so that
no `execute()` holds `srv_lock_` against `wait()`.

**ProcessPool.** `Hands` as before. `Pipe(w)` says for each place in `run()` what
the child may be at and what may be in the two pipes: a command only before the
child has read it, an answer only after, nothing when the pipes are closed.
`RunsOnce` says that a task which no child has read was not executed, `Results`
that what a worker will report is the task's own answer or one of the pool's
words. So when a task is completed no child has it. `Tidy(w)` says which faults
bring a worker to the handler of exceptions and what it has then; together with
the promise of `TaskPool` it gives the last two theorems. They say which of the
faults leave a zombie or a task without completion: a callback that throws,
garbage in a pipe, and, for the task, a `pipe()` that fails; no death, hang,
late answer or failed `fork()` does.

**Timer.** `Chained` is the list: each backet is `Good` (sorted, its events
different, exact bounds and count), the times of each are before those of the
next, and no event is in two. `set()`, with its splitting and widening, and the
removal of the first event replace a stretch of the list (`Relinked`,
`Spliced`); `Chaining` says when the result is chained, `Halving` that both
halves of a backet are good, `PlaceIs` that the backet `set()` finds is the right
one. `Requests` keeps an event that is on its way into the list on one way only.
`NeverSleepsPast` is inductive with the order of the list: the thread sleeps until
the first of all, and an earlier one wakes it. `EarlyByHalfAtMost` is arithmetic
of the average. The list that is the argument everywhere has a bounded length
in runs only.

**FileLogger.** The loop over the policies is a recursive function; that it has
one value is shown by a least counterexample, as is what it computes: once a
policy has rotated, `stat_` is zero and no other one wants to, so a list of
policies of any length rotates once (`PolicesRotateOnce`). `LoggerIInv` says that
the lines of the open file are later than those of every rotated one (`Ordered`),
and that a name made of `time_` is either later than all there are or the one
`raw_log()` may use again (`Sound`). Lines then only move from the file to a
rotated one (`Held`).

**CompoundService.** `Parts` says what each thread may be at; `Once`, that a
new state is in one hand or in one place of the queue; `Single`, that only the
current state is on, and is off when it is about to be replaced; `Phase`, what
the parts do in each phase of the controller. All under `InTurn`: one controller,
and no `start()` while a state is being replaced, because otherwise the
properties are false (`OverlapStart`). Any number of clients replaces states at
once.

**ObjectCache.** `Loaders`: a holder in state "loading" is in one thread's hands;
`Current`: what a thread has in hand is not older than what it asked for, or
looks so to `stat64`, and no holder is newer than the disk. These give `Fresh`,
and what `get()` promises where `stat64` tells versions apart (`ToldApart`):
that no answer is older than the question. `InOrder`: the holders of a
file that was not disturbed (erased, expired, or put in the map without `lock_`)
are in the order of the versions they have, so that no version is loaded twice.
`Guarded`: a loading holder whose lock is free was published by `NewPublish`,
without `lock_`; so that step is the only cause of "unexpected state".

**ElStart.** `Tables` gives the tables as the description without what is done,
and `InOrder` what validation achieves: in any set of services taken off there is
one that waits for none of the others, and one that none waits for. So an empty
layer means that nothing is left. `Counted` ties `layer_counter_` to the tasks
under way; a failed task stays counted for ever, so no layer begins after a
failure. `Flags`: a task that is executed has its prerequisites executed too, as
far down as they go. `DoneInOrder` then orders what is done along the transitive
closure, which is what `PrerequisitesFirst` and the refinement need. `ForkOnly`
is its first conjunct: a start takes a service to run that does not only where
`fork()` failed.

**RequestCache.** That the entry of a request exists says nothing of who else may
drop it. `RefsExact` gives the count of every entry as a sum of its maker's
reference, the map's, and the number of requests that answer with it; `Places`
says what a request has at each point of its way, and that the entry of a reader
about to prolong it is still the key's, because it has the lock; `KeysAgree` puts
an entry in the place of one key only; `OwnAlone` keeps an entry that is being
filled from everybody else. For `StaleOnlyInTheMeantime`, as long as the entry in
the map has not expired, it is within its timeout or there is an excuse
(`ExpiresInTime`): whoever prolonged it is making another. An excuse lasts until
the page is replaced (`ExcusesLast`): its maker either saves its own, which
replaces it, or drops it, which `gaveUp` remembers. What replaces it was filled
just then (`JustFilled`).

### Checked by TLC only

Every safety invariant and every action property of the runs is a theorem. Left
to TLC are

* Liveness (`CallsReturn`, `RequiredExecuted`, `ControllersReturn`,
  `EventTriggered`, `StopReturns`, `GetReturns`, `WaiterReturns`, `StopEnds`,
  `RunEnds`, `Recovers`) and whatever speaks of `ENABLED`: the provers do not
  support them.
* What `Schedule` and `BlockingQueue` imply; they are short enough to be read.
* The instances that break the conditions stated above: `pool_stranded` and
  `pool_faults`.

## 5. Plan

What is left, in the order of its use:

1. `SandboxService` as a client of `ProcessPool`, with the interpreter's lock.
2. `SharedStringManager`: one step per operation, so that the counts are all
   there is to check; the code cache of PSP; the states of `HTTP::Session`.

### Not modelled

Most of the repository by lines is not a protocol. `El/String/Unicode.cpp` is a
table; string manipulation, templates, HTML and XML parsers, dictionaries,
countries, calendars and serialisation compute a value from a value, without
state that outlives a call, and unit tests reach what they do. The adapters of
Apache, Python, CORBA, MySQL, TokyoCabinet and zlib have the state of the
library they wrap. `HTTP::Session` and `SMTP::Session` are sequential clients.
`AdaptingMutex` is concurrent, but nothing in the repository uses it. The
Python side of `SandboxService` is partly modelled as a waiter of `ProcessPool`.
`PROJECT.json` has the reason for each part. Runs are one for each question,
and cover the components whose threads, processes, locks or failures interact.

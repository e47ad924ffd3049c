----------------------------- MODULE ThreadPool -----------------------------
(***************************************************************************)
(* El::Service::ServiceBase (its threads, start, stop, wait) and           *)
(* El::Service::ThreadPool, which runs tasks taken from an El::Queue.      *)
(*                                                                         *)
(* Worker threads live in slots; controllers call start, stop and wait;    *)
(* clients call execute.  srv_lock_ is a read-write lock.  Each stretch of *)
(* code under it is one step, except that execute() keeps its read lock    *)
(* while it is blocked in the queue: that keeps writers out.               *)
(***************************************************************************)
EXTENDS Integers, Sequences, FiniteSets

CONSTANTS
  Workers,          \* slots for threads made by pthread_create
  Controllers,      \* threads that call start, stop and wait
  Clients,          \* threads that call execute
  Tasks,            \* each task is submitted at most once
  Required,         \* the tasks whose execution_required() is true
  threads_,         \* how many threads start() creates
  queue_size_,      \* the constructor's queue_size
  ExecuteWaits,     \* the wait times clients pass to execute
  Faults,           \* what may fail: pthread_create, a task, the callback
  AnyOrder,         \* FALSE: a controller calls start, stop, wait in turn
  WriterPreference  \* TRUE: a waiting writer keeps new readers out

NoTask == "no task"

(* Each thread has one part only. *)
ASSUME PoolAssumption ==
  /\ IsFiniteSet(Workers \union Controllers \union Clients)
  /\ Workers \intersect Controllers = {}
  /\ Clients \intersect (Workers \union Controllers) = {}
  /\ NoTask \notin Tasks
  /\ ExecuteWaits \subseteq {"forever", "zero", "timed"}
  /\ threads_ \in Nat \ {0} /\ queue_size_ \in Nat \ {0}
  /\ threads_ <= Cardinality(Workers)
  /\ Required \subseteq Tasks
  /\ Faults \subseteq {"create", "task", "callback"}
  /\ AnyOrder \in BOOLEAN /\ WriterPreference \in BOOLEAN

VARIABLES
  queue_, size_, max_size_, waiting_, awaking_, pc, call, \* tasks_, see Queue
  started_, stop_,  \* ServiceBase
  handles,          \* the slots in thread_handles_
  at,               \* at[t]: where thread t is in the pool's code
  joining,          \* joining[k]: the slots controller k has yet to join
  last,             \* last[k]: the call controller k made last
  held,             \* held[w]: the task of worker w
  accepted, executed, dropped   \* what became of the tasks

Threads == Workers \union Controllers \union Clients

tasks == INSTANCE Queue WITH
  Elements <- Tasks,
  MaxSizes <- {0, queue_size_},
  InitMaxSize <- queue_size_,
  EnqueueWaits <- ExecuteWaits,
  DequeueWaits <- {"forever"},
  Strategies <- {"back"}

queueVars == <<queue_, size_, max_size_, waiting_, awaking_, pc, call>>
lifeVars == <<started_, stop_, handles, joining, last>>
workVars == <<held, accepted, executed, dropped>>
vars == <<queueVars, at, lifeVars, workVars>>

Init ==
  /\ tasks!Init
  /\ started_ = 0
  /\ stop_ = TRUE
  /\ handles = {}
  /\ at = [t \in Threads |-> IF t \in Workers THEN "free" ELSE "idle"]
  /\ joining = [k \in Controllers |-> {}]
  /\ last = [k \in Controllers |-> "wait"]
  /\ held = [w \in Workers |-> NoTask]
  /\ accepted = {} /\ executed = {} /\ dropped = {}

-----------------------------------------------------------------------------
(* srv_lock_.  Readers that keep it are the calls of execute() that are    *)
(* blocked in the queue.                                                   *)
Readers == {t \in Clients : at[t] = "execute"}
WriterWaits == \E t \in Threads : at[t] \in {"start", "stop", "wait", "exit"}
CanWrite == Readers = {}
CanRead == WriterPreference /\ Readers # {} => ~WriterWaits

Go(t, place) == at' = [at EXCEPT ![t] = place]

-----------------------------------------------------------------------------
(* A controller calls start, stop or wait. *)
MayCall(k) ==
  IF AnyOrder THEN {"start", "stop", "wait"}
  ELSE CASE last[k] = "start" -> {"stop"}
         [] last[k] = "stop"  -> {"wait"}
         [] last[k] = "wait"  -> {"start"}

ControllerCalls(k) ==
  /\ at[k] = "idle"
  /\ \E op \in MayCall(k) :
       /\ Go(k, op)
       /\ last' = [last EXCEPT ![k] = op]
  /\ UNCHANGED <<queueVars, started_, stop_, handles, joining, workVars>>

(* Slots for new threads: a thread that ended and that nobody is about to  *)
(* join is never heard of again.                                           *)
FreeSlots ==
  {w \in Workers :
     \/ at[w] = "free"
     \/ at[w] = "done" /\ \A k \in Controllers : w \notin joining[k]}

(* ServiceBase::start, under the write lock: false if started_ already;    *)
(* otherwise threads_ threads are created ...                              *)
Start(k) ==
  /\ at[k] = "start"
  /\ CanWrite
  /\ \/ /\ started_ # 0
        /\ Go(k, "idle")
        /\ UNCHANGED <<started_, stop_, handles>>
     \/ /\ started_ = 0
        /\ \E S \in SUBSET FreeSlots :
             /\ Cardinality(S) = threads_
             /\ at' = [t \in Threads |-> IF t \in S THEN "created"
                                         ELSE IF t = k THEN "idle" ELSE at[t]]
             /\ handles' = S
        /\ started_' = threads_
        /\ stop_' = FALSE
  /\ UNCHANGED <<queueVars, joining, last, workVars>>

(* ... or pthread_create fails part of the way: the lock is released, the  *)
(* threads created are joined (JoinOne) and the call throws.               *)
StartFails(k) ==
  /\ "create" \in Faults
  /\ at[k] = "start"
  /\ CanWrite
  /\ started_ = 0
  /\ \E S \in SUBSET FreeSlots :
       /\ Cardinality(S) < threads_
       /\ at' = [t \in Threads |-> IF t \in S THEN "created"
                                   ELSE IF t = k THEN "start_join" ELSE at[t]]
       /\ joining' = [joining EXCEPT ![k] = S]
  /\ UNCHANGED <<queueVars, started_, stop_, handles, last, workVars>>

(* ServiceBase::stop: stop_ is set unless the service is not running ...   *)
Stop(k) ==
  /\ at[k] = "stop"
  /\ CanWrite
  /\ stop_' = (stop_ \/ started_ # 0)
  /\ Go(k, "stop_max")
  /\ UNCHANGED <<queueVars, started_, handles, joining, last, workVars>>

(* Mutant: the queue is not closed. *)
StopLeavesOpen(k) ==
  /\ at[k] = "stop_max"
  /\ Go(k, "stop_awake")
  /\ UNCHANGED <<queueVars, lifeVars, workVars>>

(* ... and, in either case, ThreadPool::stop closes the queue ... *)
StopMaxSize(k) ==
  /\ at[k] = "stop_max"
  /\ tasks!SetMaxSize(k, 0)
  /\ Go(k, "stop_awake")
  /\ UNCHANGED <<lifeVars, workVars>>

(* ... and awakes those who wait in it. *)
StopAwake(k) ==
  /\ at[k] = "stop_awake"
  /\ \/ pc[k] = "idle" /\ waiting_ = 0 /\ UNCHANGED queueVars
     \/ tasks!AwakeBegin(k)
     \/ tasks!AwakeSignal(k)
     \/ tasks!AwakeCheck(k)
  /\ Go(k, IF pc'[k] = "idle" THEN "idle" ELSE "stop_awake")
  /\ UNCHANGED <<lifeVars, workVars>>

(* ServiceBase::wait: nothing to join before the first start; thread_handles_  *)
(* is copied under the write lock, and never cleared.                      *)
Wait(k) ==
  /\ at[k] = "wait"
  /\ CanWrite
  /\ Go(k, IF handles = {} THEN "wait_restore" ELSE "wait_join")
  /\ joining' = [joining EXCEPT ![k] = handles]
  /\ UNCHANGED <<queueVars, started_, stop_, handles, last, workVars>>

(* pthread_join, by wait() or by a start() that failed: returns when the   *)
(* thread has ended.                                                       *)
JoinOne(k) ==
  /\ at[k] \in {"wait_join", "start_join"}
  /\ \E w \in joining[k] :
       /\ at[w] = "done"
       /\ at' = [at EXCEPT ![w] = "free"]
       /\ joining' = [joining EXCEPT ![k] = @ \ {w}]
  /\ UNCHANGED <<queueVars, started_, stop_, handles, last, workVars>>

(* Joining a thread that another wait() has joined fails: the call throws. *)
JoinFails(k) ==
  /\ at[k] = "wait_join"
  /\ \E w \in joining[k] : at[w] = "free"
  /\ Go(k, "idle")
  /\ joining' = [joining EXCEPT ![k] = {}]
  /\ UNCHANGED <<queueVars, started_, stop_, handles, last, workVars>>

(* All joined: start() throws; wait() looks at started_ and throws if it   *)
(* "is unexpectedly equal" anything but zero.                              *)
Joined(k) ==
  /\ joining[k] = {}
  /\ \/ at[k] = "start_join" /\ Go(k, "idle")
     \/ /\ at[k] = "wait_join"
        /\ CanRead
        /\ Go(k, IF started_ = 0 THEN "wait_restore" ELSE "idle")
  /\ UNCHANGED <<queueVars, lifeVars, workVars>>

(* ThreadPool::wait reopens the queue for the next start(). *)
WaitRestore(k) ==
  /\ at[k] = "wait_restore"
  /\ tasks!SetMaxSize(k, queue_size_)
  /\ Go(k, "idle")
  /\ UNCHANGED <<lifeVars, workVars>>

-----------------------------------------------------------------------------
(* exec_thread_func: a thread of a start() that failed goes at once. *)
ThreadBegins(w) ==
  /\ at[w] = "created"
  /\ CanRead
  /\ Go(w, IF started_ = 0 THEN "done" ELSE "loop")
  /\ UNCHANGED <<queueVars, lifeVars, workVars>>

(* ThreadPool::run: dequeue(task), until it returns false. *)
Dequeue(w) ==
  /\ at[w] = "loop"
  /\ \/ \E c \in tasks!DequeueCalls :
          \/ tasks!CallSucceeds(w, c)
          \/ tasks!CallRefused(w, c)
          \/ tasks!CallWaits(w, c)
     \/ tasks!ReturnWoken(w)
     \/ tasks!SleepAgain(w)
     \/ tasks!ReturnAwaken(w)
  /\ \/ pc'[w] # "idle" /\ UNCHANGED <<at, held>>
     \/ /\ pc'[w] = "idle" /\ size_' < size_
        /\ held' = [held EXCEPT ![w] = Head(queue_)]
        /\ Go(w, "got")
     \/ pc'[w] = "idle" /\ size_' = size_ /\ Go(w, "exit") /\ UNCHANGED held
  /\ UNCHANGED <<lifeVars, accepted, executed, dropped>>

(* Mutants: a stopped worker drops any task; or drops one and leaves. *)
DecideDropsAny(w) ==
  /\ at[w] = "got" /\ CanRead
  /\ IF ~stop_
     THEN Go(w, "execute_task") /\ UNCHANGED <<held, dropped>>
     ELSE /\ Go(w, "loop")
          /\ held' = [held EXCEPT ![w] = NoTask]
          /\ dropped' = dropped \union {held[w]}
  /\ UNCHANGED <<queueVars, lifeVars, accepted, executed>>

DecideLeaves(w) ==
  /\ at[w] = "got"
  /\ held[w] \notin Required => CanRead
  /\ IF held[w] \in Required \/ ~stop_
     THEN Go(w, "execute_task") /\ UNCHANGED <<held, dropped>>
     ELSE /\ Go(w, "exit")
          /\ held' = [held EXCEPT ![w] = NoTask]
          /\ dropped' = dropped \union {held[w]}
  /\ UNCHANGED <<queueVars, lifeVars, accepted, executed>>

(* A task that is not required is dropped once the pool is stopped. *)
Decide(w) ==
  /\ at[w] = "got"
  /\ held[w] \notin Required => CanRead
  /\ IF held[w] \in Required \/ ~stop_
     THEN Go(w, "execute_task") /\ UNCHANGED <<held, dropped>>
     ELSE /\ Go(w, "loop")
          /\ held' = [held EXCEPT ![w] = NoTask]
          /\ dropped' = dropped \union {held[w]}
  /\ UNCHANGED <<queueVars, lifeVars, accepted, executed>>

(* task->execute(): an El::Exception out of it ends run(), and the thread. *)
ExecuteTask(w) ==
  /\ at[w] = "execute_task"
  /\ Go(w, "loop") \/ ("task" \in Faults /\ Go(w, "exit"))
  /\ executed' = executed \union {held[w]}
  /\ held' = [held EXCEPT ![w] = NoTask]
  /\ UNCHANGED <<queueVars, lifeVars, accepted, dropped>>

(* Mutant: started_ is not counted down. *)
ThreadEndsUncounted(w) ==
  /\ at[w] = "exit" /\ CanWrite
  /\ Go(w, "done")
  /\ UNCHANGED <<queueVars, lifeVars, workVars>>

(* The end of exec_thread_func, under the write lock. *)
ThreadEnds(w) ==
  /\ at[w] = "exit"
  /\ CanWrite
  /\ started_' = IF started_ = 0 THEN 0 ELSE started_ - 1
  /\ Go(w, "done")
  /\ UNCHANGED <<queueVars, stop_, handles, joining, last, workVars>>

(* An exception out of callback_->notify(&error), called for an exception  *)
(* out of a task, skips what follows: started_ is not counted down.        *)
CallbackThrows(w) ==
  /\ {"task", "callback"} \subseteq Faults
  /\ at[w] = "execute_task"
  /\ Go(w, "done")
  /\ executed' = executed \union {held[w]}
  /\ held' = [held EXCEPT ![w] = NoTask]
  /\ UNCHANGED <<queueVars, lifeVars, accepted, dropped>>

-----------------------------------------------------------------------------
(* execute(task, wait_time): the read lock is held from the look at        *)
(* started_ and stop_ to the return from the queue.                        *)
ExecuteCall(task, wait) ==
  [op |-> "enqueue", element |-> task, wait |-> wait, strategy |-> "back"]

Execute(c, task, wait) ==
  /\ at[c] = "idle"
  /\ task \notin accepted
  /\ \A d \in Clients : at[d] = "execute" => call[d].element # task
  /\ CanRead
  /\ started_ = 0 \/ ~stop_
  /\ \/ tasks!CallSucceeds(c, ExecuteCall(task, wait))
     \/ tasks!CallWaits(c, ExecuteCall(task, wait))
  /\ IF pc'[c] = "idle"
     THEN accepted' = accepted \union {task} /\ UNCHANGED at
     ELSE Go(c, "execute") /\ UNCHANGED accepted
  /\ UNCHANGED <<lifeVars, held, executed, dropped>>

(* The call returns false at once, refused by the pool or by the queue. *)
ExecuteRefused(c, task, wait) ==
  /\ at[c] = "idle"
  /\ task \notin accepted
  /\ CanRead
  /\ \/ started_ # 0 /\ stop_
     \/ tasks!CallRefused(c, ExecuteCall(task, wait))
  /\ UNCHANGED vars

(* Mutant: true is returned whatever the queue said. *)
ExecuteAlwaysTrue(c) ==
  /\ at[c] = "execute"
  /\ \/ tasks!ReturnWoken(c) \/ tasks!SleepAgain(c)
     \/ tasks!ReturnAwaken(c) \/ tasks!ReturnExpired(c)
  /\ IF pc'[c] = "idle"
     THEN Go(c, "idle") /\ accepted' = accepted \union {call[c].element}
     ELSE UNCHANGED <<at, accepted>>
  /\ UNCHANGED <<lifeVars, held, executed, dropped>>

(* A blocked call goes on; the element is in the queue if it succeeded. *)
ExecuteResumes(c) ==
  /\ at[c] = "execute"
  /\ \/ tasks!ReturnWoken(c)
     \/ tasks!SleepAgain(c)
     \/ tasks!ReturnAwaken(c)
     \/ tasks!ReturnExpired(c)
  /\ IF pc'[c] = "idle" THEN Go(c, "idle") ELSE UNCHANGED at
  /\ accepted' = IF size_' > size_ THEN accepted \union {call[c].element} ELSE accepted
  /\ UNCHANGED <<lifeVars, held, executed, dropped>>

(* Deadlines and spurious wakeups, in the queue. *)
QueueEvent(t) ==
  /\ tasks!Expire(t) \/ tasks!WakeSpuriously(t)
  /\ UNCHANGED <<at, lifeVars, workVars>>

-----------------------------------------------------------------------------
(* What controller k does once it has made a call. *)
ControllerStep(k) ==
  \/ Start(k) \/ StartFails(k)
  \/ Stop(k) \/ StopMaxSize(k) \/ StopAwake(k)
  \/ Wait(k) \/ JoinOne(k) \/ JoinFails(k) \/ Joined(k) \/ WaitRestore(k)

WorkerStep(w) ==
  \/ ThreadBegins(w) \/ Dequeue(w) \/ Decide(w) \/ ExecuteTask(w)
  \/ ThreadEnds(w) \/ CallbackThrows(w)

Next ==
  \/ \E k \in Controllers : ControllerCalls(k) \/ ControllerStep(k)
  \/ \E w \in Workers : WorkerStep(w)
  \/ \E c \in Clients :
       \/ \E task \in Tasks, wait \in ExecuteWaits :
            Execute(c, task, wait) \/ ExecuteRefused(c, task, wait)
       \/ ExecuteResumes(c)
  \/ \E t \in Threads : QueueEvent(t)

Spec == Init /\ [][Next]_vars

(* Threads are scheduled, the locks they wait for are granted in the end,  *)
(* and tasks return.  Nobody is obliged to make a call.                    *)
FairSpec ==
  /\ Spec
  /\ \A k \in Controllers : SF_vars(ControllerStep(k))
  /\ \A w \in Workers : SF_vars(WorkerStep(w))
  /\ \A c \in Clients : WF_vars(ExecuteResumes(c)) /\ SF_vars(tasks!Expire(c) /\ QueueEvent(c))

-----------------------------------------------------------------------------
WorkerPlaces == {"free", "created", "loop", "got", "execute_task", "exit", "done"}
ControllerPlaces ==
  {"idle", "start", "start_join", "stop", "stop_max", "stop_awake",
   "wait", "wait_join", "wait_restore"}

(* Every variable is in its type. *)
TypeOK ==
  /\ tasks!TypeOK
  /\ started_ \in 0 .. threads_ /\ stop_ \in BOOLEAN /\ handles \subseteq Workers
  /\ \A w \in Workers : at[w] \in WorkerPlaces
  /\ \A k \in Controllers : at[k] \in ControllerPlaces
  /\ \A c \in Clients : at[c] \in {"idle", "execute"}
  /\ joining \in [Controllers -> SUBSET Workers]
  /\ held \in [Workers -> Tasks \union {NoTask}]
  /\ accepted \subseteq Tasks /\ executed \subseteq Tasks /\ dropped \subseteq Tasks

InQueue == {queue_[i] : i \in 1 .. Len(queue_)}
InHand == {held[w] : w \in Workers} \ {NoTask}

(* The pool treats its tasks as TaskPool promises: an accepted task is not *)
(* lost between the queue and a worker nor run by two workers, and only a  *)
(* stopped pool drops one, which is not required.                          *)
Promise == INSTANCE TaskPool WITH
  stopped <- stop_,
  waiting <- InQueue,
  taken <- InHand,
  over <- executed

ImplementsTaskPool == Promise!Spec

(* The threads that started_ counts: those that have not yet left run(). *)
Running == {w \in handles : at[w] \in {"created", "loop", "got", "execute_task", "exit"}}

(* started_ is the number of threads of the last start() that still run:   *)
(* it decides whether the next start() creates threads, and neither wait() *)
(* nor a thread that ends finds it "unexpectedly" zero or not zero.        *)
StartedExact ==
  /\ TypeOK
  /\ started_ = Cardinality(Running)
  /\ \A k \in Controllers : at[k] = "wait_join" /\ joining[k] = {} => started_ = 0
  /\ \A w \in Workers : at[w] = "exit" => started_ # 0

(* A pool that has been started and not stopped takes tasks and keeps its  *)
(* threads: stop() and wait() leave it fit for the next start().  When     *)
(* wait() is about to reopen the queue nothing of what was accepted before *)
(* stop() is left, in the queue or in hand.                                *)
FitForUse ==
  /\ started_ # 0 /\ ~stop_ =>
       /\ max_size_ = queue_size_
       /\ \A w \in handles : at[w] \in {"created", "loop", "got", "execute_task"}
  /\ \A k \in Controllers :
       at[k] = "wait_restore" => queue_ = <<>> /\ InHand = {}

(* A required task that a running pool has accepted is executed "by all    *)
(* means", also when the pool is being stopped.                            *)
RequiredExecuted ==
  \A task \in Required : task \in accepted /\ started_ # 0 ~> task \in executed

(* stop() returns, and wait() after it. *)
ControllersReturn == \A k \in Controllers : at[k] # "idle" ~> at[k] = "idle"
=============================================================================

-------------------------- MODULE CompoundService --------------------------
(***************************************************************************)
(* El::Service::CompoundService: a service made of a thread pool, a timer  *)
(* and a state, itself a service, that can be replaced while the compound  *)
(* runs: the old state is stopped and joined on a thread of the pool, then *)
(* the new one is installed and started.                                   *)
(*                                                                         *)
(* The pool and the timer are reduced to what the compound sees of them    *)
(* (modules ThreadPool and Timer have the detail): off, running or         *)
(* stopping, the pool's queue, and the pool's lock, which a thread blocked *)
(* in ThreadPool::execute keeps for reading.  So are the states.           *)
(***************************************************************************)
EXTENDS Integers, Sequences, FiniteSets

CONSTANTS
  Controllers,   \* threads that call start, stop, wait
  Clients,       \* threads that call state(new) and deliver_at_time
  Workers,       \* the threads of thread_pool_
  States,        \* services given to state(new), each at most once
  Messages,      \* messages given to deliver_at_time, each at most once
  QueueSize,     \* thread_pool_queue_size
  OverlapStart   \* FALSE: start() and the replacement of a state, from
                 \* state(new) to the end of SetState, do not overlap

NoState == "no state"
NoTask == "no task"
Nobody == "nobody"

(* Each thread has one part only. *)
ASSUME CompoundAssumption ==
  /\ Controllers \intersect (Clients \union Workers) = {}
  /\ Clients \intersect Workers = {}
  /\ "timer" \notin Controllers \union Clients \union Workers
  /\ Nobody \notin Controllers
  /\ QueueSize \in Nat \ {0} /\ OverlapStart \in BOOLEAN
  /\ States \intersect Messages = {}
  /\ NoState \notin States /\ NoTask \notin States \union Messages

VARIABLES
  started_, stop_, state_,
  holder,          \* who keeps srv_lock_ for writing across steps
  at,              \* where each thread is
  last,            \* last[k]: the call controller k made last
  seen,            \* seen[t]: the local copy of state_
  arg,             \* arg[t]: the new state or the message t has in hand
  sub,             \* sub[s]: off, running or stopping
  pool, open,      \* thread_pool_: its phase; its queue has a max_size
  tasks_,          \* its queue: a state stands for its SetState task
  timer, set,      \* timer_: its phase; the messages set
  given            \* the states and messages that were used already

lockVars == <<started_, stop_, state_>>
poolVars == <<pool, open, tasks_>>
timerVars == <<timer, set>>
vars == <<lockVars, holder, at, last, seen, arg, sub, poolVars, timerVars,
          given>>

Threads == Controllers \union Clients \union Workers \union {"timer"}

Init ==
  /\ started_ = FALSE /\ stop_ = TRUE /\ state_ = NoState
  /\ holder = Nobody
  /\ at = [t \in Threads |-> IF t \in Workers \union {"timer"} THEN "off"
                             ELSE "idle"]
  /\ last = [k \in Controllers |-> "wait"]
  /\ seen = [t \in Threads |-> NoState]
  /\ arg = [t \in Threads |-> NoTask]
  /\ sub = [s \in States |-> "off"]
  /\ pool = "off" /\ open = TRUE /\ tasks_ = <<>>
  /\ timer = "off" /\ set = {} /\ given = {}

Go(t, place) == at' = [at EXCEPT ![t] = place]
Free == holder = Nobody
PoolFree == \A t \in Threads : at[t] # "blocked"

(* start() and stop() of a state; NoState stands for the null pointer. *)
Started(s) ==
  IF s # NoState /\ sub[s] = "off" THEN [sub EXCEPT ![s] = "running"] ELSE sub
Stopped(s) ==
  IF s # NoState /\ sub[s] = "running" THEN [sub EXCEPT ![s] = "stopping"]
  ELSE sub
Joined(s) == s # NoState => sub[s] = "off"

(* The threads of a stopped state leave. *)
StateEnds(s) ==
  /\ sub[s] = "stopping"
  /\ sub' = [sub EXCEPT ![s] = "off"]
  /\ UNCHANGED <<lockVars, holder, at, last, seen, arg, poolVars, timerVars,
                 given>>

-----------------------------------------------------------------------------
(* A state is being replaced: by a client, in the queue or by a task.      *)
Replacing ==
  \/ \E c \in Clients : at[c] \in {"state_stop", "execute", "blocked"}
  \/ \E i \in DOMAIN tasks_ : tasks_[i] \in States
  \/ \E w \in Workers : arg[w] \in States

(* A controller calls start, stop and wait in turn. *)
NextCall == [wait |-> "start", start |-> "stop", stop |-> "wait"]

Calls(k) ==
  /\ at[k] = "idle"
  /\ NextCall[last[k]] = "start" /\ ~OverlapStart => ~Replacing
  /\ Go(k, NextCall[last[k]])
  /\ last' = [last EXCEPT ![k] = NextCall[@]]
  /\ UNCHANGED <<lockVars, holder, seen, arg, sub, poolVars, timerVars,
                 given>>

(* start(): srv_lock_ is kept while the pool, whose lock may be taken, and *)
(* the timer are started.                                                  *)
StartBegin(k) ==
  /\ at[k] = "start"
  /\ Free
  /\ IF started_
     THEN Go(k, "idle") /\ UNCHANGED holder
     ELSE Go(k, "start_pool") /\ holder' = k
  /\ UNCHANGED <<lockVars, last, seen, arg, sub, poolVars, timerVars,
                 given>>

StartPool(k) ==
  /\ at[k] = "start_pool"
  /\ PoolFree
  /\ pool' = IF pool = "off" THEN "running" ELSE pool
  /\ timer' = IF timer = "off" THEN "running" ELSE timer
  /\ at' = [t \in Threads |->
              IF t = k THEN "start_state"
              ELSE IF \/ t \in Workers /\ pool = "off"
                      \/ t = "timer" /\ timer = "off"
                   THEN "run" ELSE at[t]]
  /\ started_' = TRUE
  /\ stop_' = FALSE
  /\ seen' = [seen EXCEPT ![k] = state_]
  /\ holder' = Nobody
  /\ UNCHANGED <<state_, last, arg, sub, open, tasks_, set, given>>

(* The state is started after srv_lock_ is released. *)
StartState(k) ==
  /\ at[k] = "start_state"
  /\ sub' = Started(seen[k])
  /\ seen' = [seen EXCEPT ![k] = NoState]
  /\ Go(k, "idle")
  /\ UNCHANGED <<lockVars, holder, last, arg, poolVars, timerVars, given>>

(* stop(): srv_lock_ is kept while the timer and the pool are stopped. *)
StopBegin(k) ==
  /\ at[k] = "stop"
  /\ Free
  /\ IF ~started_ \/ stop_
     THEN Go(k, "idle") /\ UNCHANGED <<holder, timer>>
     ELSE /\ Go(k, "stop_pool")
          /\ holder' = k
          /\ timer' = IF timer = "running" THEN "stopping" ELSE timer
  /\ UNCHANGED <<lockVars, last, seen, arg, sub, poolVars, set, given>>

StopPool(k) ==
  /\ at[k] = "stop_pool"
  /\ PoolFree
  /\ pool' = IF pool = "running" THEN "stopping" ELSE pool
  /\ open' = FALSE
  /\ stop_' = TRUE
  /\ seen' = [seen EXCEPT ![k] = state_]
  /\ holder' = Nobody
  /\ Go(k, "stop_state")
  /\ UNCHANGED <<started_, state_, last, arg, sub, tasks_, timerVars,
                 given>>

(* Mutant: the state is not stopped. *)
StopLeavesState(k) ==
  /\ at[k] = "stop_state"
  /\ seen' = [seen EXCEPT ![k] = NoState]
  /\ Go(k, "idle")
  /\ UNCHANGED <<lockVars, holder, last, arg, sub, poolVars, timerVars,
                 given>>

StopState(k) ==
  /\ at[k] = "stop_state"
  /\ sub' = Stopped(seen[k])
  /\ seen' = [seen EXCEPT ![k] = NoState]
  /\ Go(k, "idle")
  /\ UNCHANGED <<lockVars, holder, last, arg, poolVars, timerVars, given>>

(* wait(): the timer, the pool and the state are joined in turn. *)
WaitTimer(k) ==
  /\ at[k] = "wait"
  /\ timer = "off"
  /\ Go(k, "wait_pool")
  /\ UNCHANGED <<lockVars, holder, last, seen, arg, sub, poolVars, timerVars,
                 given>>

WaitPool(k) ==
  /\ at[k] = "wait_pool"
  /\ pool = "off"
  /\ open' = TRUE
  /\ Go(k, "wait_read")
  /\ UNCHANGED <<lockVars, holder, last, seen, arg, sub, pool, tasks_,
                 timerVars, given>>

WaitReadState(k) ==
  /\ at[k] = "wait_read"
  /\ Free
  /\ seen' = [seen EXCEPT ![k] = state_]
  /\ Go(k, "wait_state")
  /\ UNCHANGED <<lockVars, holder, last, arg, sub, poolVars, timerVars,
                 given>>

(* Mutant: wait() does not join the state. *)
WaitSkipsState(k) ==
  /\ at[k] = "wait_state"
  /\ set' = {}
  /\ seen' = [seen EXCEPT ![k] = NoState]
  /\ Go(k, "wait_done")
  /\ UNCHANGED <<lockVars, holder, last, arg, sub, poolVars, timer, given>>

WaitState(k) ==
  /\ at[k] = "wait_state"
  /\ Joined(seen[k])
  /\ set' = {}
  /\ seen' = [seen EXCEPT ![k] = NoState]
  /\ Go(k, "wait_done")
  /\ UNCHANGED <<lockVars, holder, last, arg, sub, poolVars, timer, given>>

WaitDone(k) ==
  /\ at[k] = "wait_done"
  /\ Free
  /\ started_' = FALSE
  /\ Go(k, "idle")
  /\ UNCHANGED <<stop_, state_, holder, last, seen, arg, sub, poolVars,
                 timerVars, given>>

-----------------------------------------------------------------------------
(* ThreadPool::execute without a timeout, by thread t which goes on to     *)
(* next: the task is queued, refused when the queue is closed, or t blocks *)
(* with the pool's lock in hand.                                           *)
Execute(t, next) ==
  \/ /\ ~open
     /\ Go(t, next)
     /\ UNCHANGED tasks_
  \/ /\ open /\ Len(tasks_) < QueueSize
     /\ tasks_' = Append(tasks_, arg[t])
     /\ Go(t, next)
  \/ /\ open /\ Len(tasks_) >= QueueSize
     /\ at[t] = "execute"
     /\ Go(t, "blocked")
     /\ UNCHANGED tasks_

Executes(t) ==
  /\ at[t] \in {"execute", "blocked"}
  /\ Execute(t, IF t = "timer" THEN "run" ELSE "idle")
  /\ arg' = [arg EXCEPT ![t] = IF at'[t] = "blocked" THEN @ ELSE NoTask]
  /\ UNCHANGED <<lockVars, holder, last, seen, sub, pool, open, timerVars,
                 given>>

-----------------------------------------------------------------------------
(* state(new): the first state is installed at once; otherwise the current *)
(* one is stopped and a SetState task is given to the pool.                *)
Settled == started_ /\ \A k \in Controllers : at[k] # "start_state"

StateCall(c) ==
  /\ at[c] = "idle"
  /\ Free
  /\ OverlapStart \/ state_ = NoState \/ Settled
  /\ \E s \in States \ given :
       /\ given' = given \union {s}
       /\ IF state_ = NoState
          THEN /\ state_' = s
               /\ sub' = IF started_ /\ ~stop_
                         THEN [sub EXCEPT ![s] = "running"] ELSE sub
               /\ UNCHANGED <<at, seen, arg>>
          ELSE /\ seen' = [seen EXCEPT ![c] = state_]
               /\ arg' = [arg EXCEPT ![c] = s]
               /\ Go(c, "state_stop")
               /\ UNCHANGED <<state_, sub>>
  /\ UNCHANGED <<started_, stop_, holder, last, poolVars, timerVars>>

StateStop(c) ==
  /\ at[c] = "state_stop"
  /\ sub' = Stopped(seen[c])
  /\ seen' = [seen EXCEPT ![c] = NoState]
  /\ Go(c, "execute")
  /\ UNCHANGED <<lockVars, holder, last, arg, poolVars, timerVars, given>>

(* deliver_at_time with a time to come. *)
DeliverAtTime(c) ==
  /\ at[c] = "idle"
  /\ \E m \in Messages \ given :
       /\ given' = given \union {m}
       /\ set' = set \union {m}
  /\ UNCHANGED <<lockVars, holder, at, last, seen, arg, sub, poolVars, timer>>

(* deliver_at_time with time zero, and deliver_now. *)
DeliverNow(c) ==
  /\ at[c] = "idle"
  /\ \E m \in Messages \ given :
       /\ given' = given \union {m}
       /\ arg' = [arg EXCEPT ![c] = m]
  /\ Go(c, "execute")
  /\ UNCHANGED <<lockVars, holder, last, seen, sub, poolVars, timerVars>>

-----------------------------------------------------------------------------
(* The timer's thread: the trigger of a message calls notify, which passes *)
(* the message on to the pool, whatever execute() returns.                 *)
TimerTriggers ==
  /\ timer = "running"
  /\ at["timer"] = "run"
  /\ \E m \in set :
       /\ set' = set \ {m}
       /\ arg' = [arg EXCEPT !["timer"] = m]
  /\ Go("timer", "execute")
  /\ UNCHANGED <<lockVars, holder, last, seen, sub, poolVars, timer, given>>

TimerEnds ==
  /\ timer = "stopping"
  /\ at["timer"] = "run"
  /\ timer' = "off"
  /\ set' = {}
  /\ Go("timer", "off")
  /\ UNCHANGED <<lockVars, holder, last, seen, arg, sub, poolVars, given>>

-----------------------------------------------------------------------------
(* A thread of the pool takes a task.  Once the pool is stopping it drops  *)
(* a SetState; what the handler of a message does is not the compound's.   *)
Take(w) ==
  /\ at[w] = "run"
  /\ tasks_ # <<>>
  /\ LET x == Head(tasks_) IN
       IF x \in States /\ pool # "stopping"
       THEN /\ Go(w, "set_state")
            /\ arg' = [arg EXCEPT ![w] = x]
       ELSE UNCHANGED <<at, arg>>
  /\ tasks_' = Tail(tasks_)
  /\ UNCHANGED <<lockVars, holder, last, seen, sub, pool, open, timerVars,
                 given>>

(* With its queue closed and empty a thread leaves; the pool is off with   *)
(* the last one.                                                           *)
Leave(w) ==
  /\ at[w] = "run"
  /\ tasks_ = <<>>
  /\ ~open
  /\ PoolFree
  /\ Go(w, "off")
  /\ pool' = IF \A v \in Workers \ {w} : at[v] = "off" THEN "off" ELSE pool
  /\ UNCHANGED <<lockVars, holder, last, seen, arg, sub, open, tasks_,
                 timerVars, given>>

(* notify(SetState): the current state is read, stopped, joined ... *)
SetStateRead(w) ==
  /\ at[w] = "set_state"
  /\ Free
  /\ seen' = [seen EXCEPT ![w] = state_]
  /\ Go(w, "set_stop")
  /\ UNCHANGED <<lockVars, holder, last, arg, sub, poolVars, timerVars,
                 given>>

SetStateStop(w) ==
  /\ at[w] = "set_stop"
  /\ sub' = Stopped(seen[w])
  /\ Go(w, "set_wait")
  /\ UNCHANGED <<lockVars, holder, last, seen, arg, poolVars, timerVars,
                 given>>

(* Mutant: the old state is not joined. *)
SetStateNoJoin(w) ==
  /\ at[w] = "set_wait"
  /\ Go(w, "set_lock")
  /\ UNCHANGED <<lockVars, holder, last, seen, arg, sub, poolVars, timerVars,
                 given>>

SetStateWait(w) ==
  /\ at[w] = "set_wait"
  /\ Joined(seen[w])
  /\ Go(w, "set_lock")
  /\ UNCHANGED <<lockVars, holder, last, seen, arg, sub, poolVars, timerVars,
                 given>>

(* Mutant: the new state is not started. *)
SetStateNeverStarts(w) ==
  /\ at[w] = "set_lock"
  /\ Free
  /\ state_' = IF state_ = seen[w] THEN arg[w] ELSE state_
  /\ seen' = [seen EXCEPT ![w] = NoState]
  /\ arg' = [arg EXCEPT ![w] = NoTask]
  /\ Go(w, "run")
  /\ UNCHANGED <<started_, stop_, holder, last, sub, poolVars, timerVars,
                 given>>

(* ... and replaced, unless another SetState has replaced it since. *)
SetStateInstall(w) ==
  /\ at[w] = "set_lock"
  /\ Free
  /\ IF state_ = seen[w]
     THEN /\ state_' = arg[w]
          /\ sub' = IF started_ /\ ~stop_ THEN Started(arg[w]) ELSE sub
     ELSE UNCHANGED <<state_, sub>>
  /\ seen' = [seen EXCEPT ![w] = NoState]
  /\ arg' = [arg EXCEPT ![w] = NoTask]
  /\ Go(w, "run")
  /\ UNCHANGED <<started_, stop_, holder, last, poolVars, timerVars, given>>

-----------------------------------------------------------------------------
Control(k) ==
  \/ StartBegin(k) \/ StartPool(k) \/ StartState(k)
  \/ StopBegin(k) \/ StopPool(k) \/ StopState(k)
  \/ WaitTimer(k) \/ WaitPool(k) \/ WaitReadState(k) \/ WaitState(k)
  \/ WaitDone(k)

Work(w) ==
  \/ Take(w) \/ Leave(w) \/ SetStateRead(w) \/ SetStateStop(w)
  \/ SetStateWait(w) \/ SetStateInstall(w)

Next ==
  \/ \E k \in Controllers : Calls(k) \/ Control(k)
  \/ \E c \in Clients : StateCall(c) \/ StateStop(c) \/ DeliverAtTime(c)
                        \/ DeliverNow(c)
  \/ \E t \in Clients \union {"timer"} : Executes(t)
  \/ TimerTriggers \/ TimerEnds
  \/ \E w \in Workers : Work(w)
  \/ \E s \in States : StateEnds(s)

Spec == Init /\ [][Next]_vars

(* Threads that can run do, a stopped state's threads leave, the timer's   *)
(* clock goes on.                                                          *)
Fairness ==
  /\ \A k \in Controllers : SF_vars(Control(k))
  /\ \A c \in Clients : WF_vars(StateStop(c))
  /\ \A t \in Clients \union {"timer"} : SF_vars(Executes(t))
  /\ WF_vars(TimerTriggers) /\ WF_vars(TimerEnds)
  /\ \A w \in Workers : SF_vars(Work(w))
  /\ \A s \in States : WF_vars(StateEnds(s))

LiveSpec == Spec /\ Fairness

-----------------------------------------------------------------------------
(* Every variable is in its type. *)
TypeOK ==
  /\ started_ \in BOOLEAN /\ stop_ \in BOOLEAN /\ open \in BOOLEAN
  /\ state_ \in States \union {NoState}
  /\ holder \in Controllers \union {Nobody}
  /\ at \in [Threads -> {"idle", "start", "start_pool", "start_state", "stop",
               "stop_pool", "stop_state", "wait", "wait_pool", "wait_read",
               "wait_state", "wait_done", "execute", "blocked", "state_stop",
               "off", "run", "set_state", "set_stop", "set_wait", "set_lock"}]
  /\ last \in [Controllers -> {"start", "stop", "wait"}]
  /\ seen \in [Threads -> States \union {NoState}]
  /\ arg \in [Threads -> States \union Messages \union {NoTask}]
  /\ sub \in [States -> {"off", "running", "stopping"}]
  /\ pool \in {"off", "running", "stopping"}
  /\ timer \in {"off", "running", "stopping"}
  /\ tasks_ \in Seq(States \union Messages) /\ Len(tasks_) <= QueueSize
  /\ set \subseteq Messages
  /\ given \subseteq States \union Messages

(* A state is started only when the one before it has been joined, however *)
(* state(new), start(), stop() and several SetState tasks interleave.      *)
OneStateAtATime ==
  /\ TypeOK
  /\ \A s, r \in States : sub[s] # "off" /\ sub[r] # "off" => s = r

(* Once wait() has returned, and nothing else is going on, no state is     *)
(* left running: not the current one, and none that was replaced.          *)
AtRest ==
  /\ ~started_
  /\ pool = "off" /\ timer = "off"
  /\ \A t \in Controllers \union Clients : at[t] = "idle"

StoppedMeansStopped == AtRest => \A s \in States : sub[s] = "off"

(* started() speaks for all parts: while it is true and the controller is  *)
(* not inside a call, the pool and the timer run, and the current state    *)
(* runs unless a client or a task is replacing it.                         *)
StartedMeansRunning ==
  started_ /\ ~stop_ /\ (\A k \in Controllers : at[k] = "idle") =>
    /\ pool = "running" /\ timer = "running"
    /\ state_ = NoState \/ sub[state_] = "running" \/ Replacing

(* start(), stop() and wait() return. *)
ControllersReturn ==
  \A k \in Controllers : at[k] # "idle" ~> at[k] = "idle"
=============================================================================

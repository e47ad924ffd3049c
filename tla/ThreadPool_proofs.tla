------------------------- MODULE ThreadPool_proofs -------------------------
(***************************************************************************)
(* Theorems about ThreadPool: for any finite number of threads, any tasks, *)
(* any size of the queue and whatever fails, unless they say otherwise.    *)
(***************************************************************************)
EXTENDS ThreadPool, FiniteSetTheorems, TLAPS

(* What is proved about queues. *)
Q == INSTANCE Queue_proofs WITH
  Elements <- Tasks,
  MaxSizes <- {0, queue_size_},
  InitMaxSize <- queue_size_,
  EnqueueWaits <- ExecuteWaits,
  DequeueWaits <- {"forever"},
  Strategies <- {"back"}

(* Where the threads are. *)
AllPlaces == WorkerPlaces \union ControllerPlaces \union {"execute"}

Typed ==
  /\ started_ \in 0 .. threads_ /\ stop_ \in BOOLEAN /\ handles \subseteq Workers
  /\ at \in [Threads -> AllPlaces]
  /\ \A w \in Workers : at[w] \in WorkerPlaces
  /\ \A k \in Controllers : at[k] \in ControllerPlaces
  /\ \A c \in Clients : at[c] \in {"idle", "execute"}
  /\ joining \in [Controllers -> SUBSET Workers]
  /\ last \in [Controllers -> {"start", "stop", "wait"}]
  /\ held \in [Workers -> Tasks \union {NoTask}]
  /\ accepted \subseteq Tasks /\ executed \subseteq Tasks /\ dropped \subseteq Tasks

(* What each thread does in the queue: it is where its place says.         *)
WorkerIn(w) ==
  /\ pc[w] \in {"idle", "asleep", "woken"}
  /\ pc[w] # "idle" => at[w] = "loop" /\ call[w] \in tasks!DequeueCalls
ControllerIn(k) ==
  /\ pc[k] \in {"idle", "awake_signal", "awake_check"}
  /\ pc[k] # "idle" => at[k] = "stop_awake"
ClientIn(c) ==
  /\ pc[c] \in {"idle", "asleep", "woken", "expired"}
  /\ pc[c] # "idle" <=> at[c] = "execute"
  /\ at[c] = "execute" => call[c] \in tasks!EnqueueCalls

InWait ==
  /\ \A w \in Workers : WorkerIn(w)
  /\ \A k \in Controllers : ControllerIn(k)
  /\ \A c \in Clients : ClientIn(c)

(* Nobody offers a task that another offers or that has been accepted.     *)
Offers ==
  /\ \A c \in Clients : at[c] = "execute" => call[c].element \notin accepted
  /\ \A c, d \in Clients :
       at[c] = "execute" /\ at[d] = "execute" /\ call[c].element = call[d].element
         => c = d

(* A task is in one place of the queue or in the hands of one worker, from *)
(* when it is accepted until it is executed or dropped.                    *)
WithTask == {"got", "execute_task"}

Hands ==
  /\ \A w \in Workers : at[w] \in WithTask <=> held[w] # NoTask
  /\ \A v, w \in Workers : held[w] # NoTask /\ held[v] = held[w] => v = w
  /\ \A w \in Workers : held[w] \notin InQueue
  /\ \A i, j \in DOMAIN queue_ : queue_[i] = queue_[j] => i = j
  /\ InQueue \union InHand \union executed \union dropped \subseteq accepted
  /\ (InQueue \union InHand) \intersect (executed \union dropped) = {}

(* The queue's own part, which holds by what is proved of queues.          *)
Exact == tasks!TypeOK /\ tasks!CountersExact

IInv == Typed /\ InWait /\ Offers /\ Hands

-----------------------------------------------------------------------------
(* The pool does with its queue only what a queue allows, so that all that *)
(* is proved about El::Queue holds of the queue of every pool.             *)
LEMMA SameQueue ==
  /\ tasks!Spec <=> Q!Spec
  /\ tasks!TypeOK <=> Q!TypeOK
  /\ tasks!CountersExact <=> Q!CountersExact
  /\ tasks!ClosingReachesAll <=> Q!ClosingReachesAll
<1> USE DEF tasks!EnqueueCalls, Q!EnqueueCalls, tasks!DequeueCalls, Q!DequeueCalls,
            tasks!Calls, Q!Calls, tasks!NoCall, Q!NoCall, tasks!Places, Q!Places,
            tasks!Asleep, Q!Asleep, tasks!Woken, Q!Woken, tasks!Waiters, Q!Waiters,
            tasks!Awakers, Q!Awakers, tasks!vars, Q!vars
<1>1. tasks!Init <=> Q!Init
  BY DEF tasks!Init, Q!Init
<1>2. tasks!Next <=> Q!Next
  <2> USE DEF tasks!SignalThenGo, Q!SignalThenGo, tasks!CanProceed, Q!CanProceed,
              tasks!Effect, Q!Effect, tasks!do_enqueue, Q!do_enqueue,
              tasks!InsertedAt, Q!InsertedAt, tasks!TakeFront, Q!TakeFront
  <2>1. \A t \in Threads, c \in tasks!Calls :
          /\ tasks!CallSucceeds(t, c) <=> Q!CallSucceeds(t, c)
          /\ tasks!CallRefused(t, c) <=> Q!CallRefused(t, c)
          /\ tasks!CallWaits(t, c) <=> Q!CallWaits(t, c)
    BY ZenonT(40) DEF tasks!CallSucceeds, Q!CallSucceeds, tasks!CallRefused, Q!CallRefused,
           tasks!CallWaits, Q!CallWaits
  <2>2. \A t \in Threads :
          /\ \A val \in {0, queue_size_} :
               tasks!SetMaxSize(t, val) <=> Q!SetMaxSize(t, val)
          /\ tasks!AwakeBegin(t) <=> Q!AwakeBegin(t)
          /\ tasks!Expire(t) <=> Q!Expire(t)
          /\ tasks!WakeSpuriously(t) <=> Q!WakeSpuriously(t)
    BY Zenon DEF tasks!SetMaxSize, Q!SetMaxSize, tasks!AwakeBegin, Q!AwakeBegin, tasks!Expire,
           Q!Expire, tasks!WakeSpuriously, Q!WakeSpuriously
  <2>3. \A t \in Threads : tasks!Resume(t) <=> Q!Resume(t)
    BY Zenon DEF tasks!Resume, Q!Resume, tasks!ReturnExpired, Q!ReturnExpired,
           tasks!ReturnWoken, Q!ReturnWoken, tasks!SleepAgain, Q!SleepAgain,
           tasks!ReturnAwaken, Q!ReturnAwaken, tasks!AwakeSignal, Q!AwakeSignal,
           tasks!AwakeCheck, Q!AwakeCheck
  <2> HIDE DEF tasks!SignalThenGo, Q!SignalThenGo, tasks!CanProceed, Q!CanProceed,
               tasks!Effect, Q!Effect, tasks!do_enqueue, Q!do_enqueue,
               tasks!InsertedAt, Q!InsertedAt, tasks!TakeFront, Q!TakeFront
  <2> QED  BY <2>1, <2>2, <2>3 DEF tasks!Next, Q!Next
<1>3. tasks!vars = Q!vars
  OBVIOUS
<1>4. tasks!Spec <=> Q!Spec
  <2>1. [tasks!Next]_(tasks!vars) <=> [Q!Next]_(Q!vars)
    BY <1>2, <1>3
  <2> QED  BY <1>1, <2>1, PTL DEF tasks!Spec, Q!Spec
<1>5. tasks!TypeOK <=> Q!TypeOK
  BY DEF tasks!TypeOK, Q!TypeOK
<1>6. tasks!CountersExact <=> Q!CountersExact
  BY DEF tasks!CountersExact, Q!CountersExact, Q!Cardinality, tasks!Cardinality,
         Cardinality
<1>7. tasks!ClosingReachesAll <=> Q!ClosingReachesAll
  BY DEF tasks!ClosingReachesAll, Q!ClosingReachesAll
<1> QED  BY <1>4, <1>5, <1>6, <1>7

LEMMA QueueAssumed == Q!QueueAssumption
BY PoolAssumption
   DEF Q!QueueAssumption, Q!WaitTimes, Q!EnqueueStrategies, Q!IsFiniteSet, IsFiniteSet,
       Threads

LEMMA StepUsesQueue == [Next]_vars => [tasks!Next]_(tasks!vars)
<1> SUFFICES ASSUME [Next]_vars PROVE [tasks!Next]_(tasks!vars)
  OBVIOUS
<1> USE DEF queueVars
<1>1. /\ \A w \in Workers : w \in Threads
      /\ \A k \in Controllers : k \in Threads
      /\ \A c \in Clients : c \in Threads
  BY DEF Threads
<1>2. ASSUME UNCHANGED queueVars PROVE UNCHANGED tasks!vars
  BY <1>2 DEF tasks!vars
<1>3. ASSUME NEW k \in Controllers, ControllerCalls(k) \/ ControllerStep(k)
      PROVE  [tasks!Next]_(tasks!vars)
  <2>1. CASE ControllerCalls(k) \/ Start(k) \/ StartFails(k) \/ Stop(k) \/ Wait(k)
    BY <1>2, <2>1 DEF ControllerCalls, Start, StartFails, Stop, Wait
  <2>2. CASE JoinOne(k) \/ JoinFails(k) \/ Joined(k)
    BY <1>2, <2>2 DEF JoinOne, JoinFails, Joined
  <2>3. CASE StopMaxSize(k) \/ WaitRestore(k)
    BY <1>1, <2>3 DEF StopMaxSize, WaitRestore, tasks!Next
  <2>4. CASE StopAwake(k)
    BY <1>1, <1>2, <2>4 DEF StopAwake, tasks!Next, tasks!Resume
  <2> QED  BY <1>3, <2>1, <2>2, <2>3, <2>4 DEF ControllerStep
<1>4. ASSUME NEW w \in Workers, WorkerStep(w)
      PROVE  [tasks!Next]_(tasks!vars)
  <2>1. CASE ThreadBegins(w) \/ Decide(w) \/ ExecuteTask(w)
    BY <1>2, <2>1 DEF ThreadBegins, Decide, ExecuteTask
  <2>2. CASE ThreadEnds(w) \/ CallbackThrows(w)
    BY <1>2, <2>2 DEF ThreadEnds, CallbackThrows
  <2>3. CASE Dequeue(w)
    <3>1. tasks!DequeueCalls \subseteq tasks!Calls
      BY DEF tasks!Calls
    <3> QED  BY <1>1, <2>3, <3>1 DEF Dequeue, tasks!Next, tasks!Resume
  <2> QED  BY <1>4, <2>1, <2>2, <2>3 DEF WorkerStep
<1>5. ASSUME NEW c \in Clients, NEW task \in Tasks, NEW wait \in ExecuteWaits,
             Execute(c, task, wait) \/ ExecuteRefused(c, task, wait)
      PROVE  [tasks!Next]_(tasks!vars)
  <2>1. ExecuteCall(task, wait) \in tasks!Calls
    BY DEF ExecuteCall, tasks!Calls, tasks!EnqueueCalls
  <2>2. CASE Execute(c, task, wait)
    BY <1>1, <2>1, <2>2 DEF Execute, tasks!Next
  <2>3. CASE ExecuteRefused(c, task, wait)
    BY <1>2, <2>3 DEF ExecuteRefused, vars
  <2> QED  BY <1>5, <2>2, <2>3
<1>6. ASSUME NEW c \in Clients, ExecuteResumes(c) PROVE [tasks!Next]_(tasks!vars)
  BY <1>1, <1>6 DEF ExecuteResumes, tasks!Next, tasks!Resume
<1>7. ASSUME NEW t \in Threads, QueueEvent(t) PROVE [tasks!Next]_(tasks!vars)
  BY <1>7 DEF QueueEvent, tasks!Next
<1>8. CASE UNCHANGED vars
  BY <1>2, <1>8 DEF vars
<1> QED  BY <1>3, <1>4, <1>5, <1>6, <1>7, <1>8 DEF Next

(* Every behaviour of the pool is one of the queue in it. *)
THEOREM PoolUsesQueue == Spec => tasks!Spec
<1>1. Init => tasks!Init
  BY DEF Init
<1> QED  BY <1>1, StepUsesQueue, PTL DEF Spec, tasks!Spec

(* The queue's counters are exact, and closing it - which is all that      *)
(* stop() does about threads that wait for tasks, but for awake() - leaves *)
(* no sleeper that nobody will wake.                                       *)
THEOREM QueueOfThePool == Spec => [](Exact /\ tasks!ClosingReachesAll)
<1>1. Q!Spec => []Q!TypeOK /\ []Q!CountersExact /\ []Q!ClosingReachesAll
  BY QueueAssumed, Q!TypeAndCounters, Q!ClosingReachesEverySleeper, PTL
<1> QED  BY <1>1, PoolUsesQueue, SameQueue, PTL DEF Exact


-----------------------------------------------------------------------------
LEMMA ThreadFacts ==
  /\ \A w \in Workers : w \in Threads /\ w \notin Clients /\ w \notin Controllers
  /\ \A k \in Controllers : k \in Threads /\ k \notin Clients /\ k \notin Workers
  /\ \A c \in Clients : c \in Threads /\ c \notin Workers /\ c \notin Controllers
  /\ NoTask \notin Tasks
BY PoolAssumption DEF Threads

(* The library's facts about the sequences that a queue goes through. *)
LEMMA Appended ==
  ASSUME NEW S, NEW s \in Seq(S), NEW e \in S
  PROVE  /\ Append(s, e) \in Seq(S)
         /\ DOMAIN Append(s, e) = 1 .. Len(s) + 1 /\ DOMAIN s = 1 .. Len(s)
         /\ Len(s) \in Nat
         /\ \A i \in 1 .. Len(s) : Append(s, e)[i] = s[i]
         /\ Append(s, e)[Len(s) + 1] = e
OBVIOUS

LEMMA TakenOff ==
  ASSUME NEW S, NEW s \in Seq(S), Len(s) # 0
  PROVE  /\ Head(s) \in S /\ Tail(s) \in Seq(S)
         /\ DOMAIN Tail(s) = 1 .. Len(s) - 1 /\ DOMAIN s = 1 .. Len(s)
         /\ Len(s) \in Nat \ {0}
         /\ Head(s) = s[1]
         /\ \A i \in 1 .. Len(s) - 1 : Tail(s)[i] = s[i + 1]
OBVIOUS

LEMMA GoFacts ==
  ASSUME Typed, NEW t \in Threads, NEW place, Go(t, place)
  PROVE  at'[t] = place /\ \A u \in Threads \ {t} : at'[u] = at[u]
BY DEF Go, Typed

-----------------------------------------------------------------------------
(* What each caller's step does in the queue.  Others are not touched, but *)
(* for a sleeper that a signal wakes.                                      *)
Nudged(t) ==
  \A s \in Threads \ {t} :
    /\ call'[s] = call[s]
    /\ pc'[s] = pc[s] \/ (pc[s] = "asleep" /\ pc'[s] = "woken")

LEMMA SignalMoves ==
  ASSUME NEW t \in Threads, NEW next, Exact, tasks!SignalThenGo(t, next)
  PROVE  /\ pc'[t] = next
         /\ \A s \in Threads \ {t} :
              pc'[s] = pc[s] \/ (pc[s] = "asleep" /\ pc'[s] = "woken")
BY DEF Exact, tasks!TypeOK, tasks!SignalThenGo, tasks!Asleep

LEMMA DequeueDoes ==
  ASSUME Exact, InWait, NEW w \in Workers, Dequeue(w)
  PROVE  /\ Nudged(w) /\ UNCHANGED <<max_size_, awaking_, lifeVars>>
         /\ UNCHANGED <<accepted, executed, dropped>> /\ at[w] = "loop"
         /\ \/ /\ pc'[w] = "asleep" /\ call'[w] \in tasks!DequeueCalls
               /\ UNCHANGED <<queue_, size_, at, held>>
            \/ /\ pc'[w] = "idle" /\ Len(queue_) # 0
               /\ queue_' = Tail(queue_) /\ size_' = size_ - 1
               /\ held' = [held EXCEPT ![w] = Head(queue_)] /\ Go(w, "got")
            \/ /\ pc'[w] = "idle" /\ size_ = 0 /\ (max_size_ = 0 \/ awaking_ > 0)
               /\ UNCHANGED <<queue_, size_, held>> /\ Go(w, "exit")
<1>1. /\ w \in Threads /\ WorkerIn(w) /\ at[w] = "loop"
      /\ pc \in [Threads -> tasks!Places] /\ size_ = Len(queue_)
      /\ call \in [Threads -> tasks!Calls \union {tasks!NoCall}]
      /\ size_ \in Nat /\ awaking_ \in Nat
  BY ThreadFacts DEF Exact, tasks!TypeOK, tasks!CountersExact, InWait, Dequeue
<1>2. UNCHANGED <<lifeVars, accepted, executed, dropped>>
  BY DEF Dequeue
<1>3. \/ pc'[w] # "idle" /\ UNCHANGED <<at, held>>
      \/ /\ pc'[w] = "idle" /\ size_' < size_
         /\ held' = [held EXCEPT ![w] = Head(queue_)] /\ Go(w, "got")
      \/ pc'[w] = "idle" /\ size_' = size_ /\ Go(w, "exit") /\ UNCHANGED held
  BY DEF Dequeue
<1>4. ASSUME NEW c \in tasks!DequeueCalls,
             \/ tasks!CallSucceeds(w, c) \/ tasks!CallRefused(w, c)
             \/ tasks!CallWaits(w, c)
      PROVE  /\ Nudged(w) /\ UNCHANGED <<max_size_, awaking_>>
             /\ \/ /\ pc'[w] = "asleep" /\ call'[w] \in tasks!DequeueCalls
                   /\ UNCHANGED <<queue_, size_>>
                \/ /\ pc'[w] = "idle" /\ size_ # 0
                   /\ queue_' = Tail(queue_) /\ size_' = size_ - 1
                \/ /\ pc'[w] = "idle" /\ size_ = 0 /\ (max_size_ = 0 \/ awaking_ > 0)
                   /\ UNCHANGED <<queue_, size_>>
  <2>1. c.op = "dequeue" /\ c.wait = "forever"
    BY DEF tasks!DequeueCalls
  <2>2. CASE tasks!CallSucceeds(w, c)
    BY <1>1, <2>1, <2>2, SignalMoves
       DEF tasks!CallSucceeds, tasks!CanProceed, tasks!Effect, tasks!TakeFront, Nudged
  <2>3. CASE tasks!CallRefused(w, c)
    BY <1>1, <2>1, <2>3
       DEF tasks!CallRefused, tasks!CanProceed, tasks!vars, Nudged
  <2>4. CASE tasks!CallWaits(w, c)
    BY <1>1, <2>1, <2>4 DEF tasks!CallWaits, Nudged
  <2> QED  BY <1>4, <2>2, <2>3, <2>4
<1>5. ASSUME \/ tasks!ReturnWoken(w) \/ tasks!SleepAgain(w) \/ tasks!ReturnAwaken(w)
      PROVE  /\ Nudged(w) /\ UNCHANGED <<max_size_, awaking_>>
             /\ \/ /\ pc'[w] = "asleep" /\ call'[w] \in tasks!DequeueCalls
                   /\ UNCHANGED <<queue_, size_>>
                \/ /\ pc'[w] = "idle" /\ size_ # 0
                   /\ queue_' = Tail(queue_) /\ size_' = size_ - 1
                \/ /\ pc'[w] = "idle" /\ size_ = 0 /\ (max_size_ = 0 \/ awaking_ > 0)
                   /\ UNCHANGED <<queue_, size_>>
  <2>1. pc[w] = "woken"
    BY <1>5 DEF tasks!ReturnWoken, tasks!SleepAgain, tasks!ReturnAwaken
  <2>2. call[w] \in tasks!DequeueCalls /\ call[w].op = "dequeue"
    BY <1>1, <2>1 DEF WorkerIn, tasks!DequeueCalls
  <2>3. CASE tasks!ReturnWoken(w)
    BY <1>1, <2>2, <2>3, SignalMoves
       DEF tasks!ReturnWoken, tasks!CanProceed, tasks!Effect, tasks!TakeFront, Nudged
  <2>4. CASE tasks!SleepAgain(w)
    BY <1>1, <2>2, <2>4 DEF tasks!SleepAgain, Nudged
  <2>5. CASE tasks!ReturnAwaken(w)
    BY <1>1, <2>2, <2>5 DEF tasks!ReturnAwaken, tasks!CanProceed, Nudged
  <2> QED  BY <1>5, <2>3, <2>4, <2>5
<1>6. /\ Nudged(w) /\ UNCHANGED <<max_size_, awaking_>>
      /\ \/ /\ pc'[w] = "asleep" /\ call'[w] \in tasks!DequeueCalls
            /\ UNCHANGED <<queue_, size_>>
         \/ /\ pc'[w] = "idle" /\ size_ # 0
            /\ queue_' = Tail(queue_) /\ size_' = size_ - 1
         \/ /\ pc'[w] = "idle" /\ size_ = 0 /\ (max_size_ = 0 \/ awaking_ > 0)
            /\ UNCHANGED <<queue_, size_>>
  BY <1>4, <1>5 DEF Dequeue
<1> QED  BY <1>1, <1>2, <1>3, <1>6

LEMMA ExecuteDoes ==
  ASSUME Exact, NEW c \in Clients, NEW task \in Tasks, NEW wait \in ExecuteWaits,
         Execute(c, task, wait)
  PROVE  /\ Nudged(c) /\ UNCHANGED <<max_size_, awaking_, lifeVars>>
         /\ UNCHANGED <<held, executed, dropped>>
         /\ \/ /\ pc'[c] = "idle" /\ at' = at /\ size_ < max_size_
               /\ queue_' = Append(queue_, task)
               /\ accepted' = accepted \union {task}
            \/ /\ pc'[c] = "asleep" /\ call'[c] \in tasks!EnqueueCalls
               /\ call'[c].element = task /\ Go(c, "execute")
               /\ UNCHANGED <<queue_, size_, accepted>>
<1>1. /\ c \in Threads
      /\ pc \in [Threads -> tasks!Places] /\ size_ = Len(queue_)
      /\ call \in [Threads -> tasks!Calls \union {tasks!NoCall}]
  BY ThreadFacts DEF Exact, tasks!TypeOK, tasks!CountersExact
<1>2. /\ UNCHANGED <<lifeVars, held, executed, dropped>>
      /\ IF pc'[c] = "idle"
         THEN accepted' = accepted \union {task} /\ UNCHANGED at
         ELSE Go(c, "execute") /\ UNCHANGED accepted
  BY DEF Execute
<1>3. PICK e \in tasks!EnqueueCalls :
        /\ e = ExecuteCall(task, wait) /\ e.op = "enqueue" /\ e.element = task
        /\ e.strategy = "back"
  <2>1. ExecuteCall(task, wait) \in tasks!EnqueueCalls
    BY DEF ExecuteCall, tasks!EnqueueCalls
  <2>2. /\ ExecuteCall(task, wait).op = "enqueue"
        /\ ExecuteCall(task, wait).element = task
        /\ ExecuteCall(task, wait).strategy = "back"
    BY DEF ExecuteCall
  <2> QED  BY <2>1, <2>2
<1>4. CASE tasks!CallSucceeds(c, ExecuteCall(task, wait))
  <2>1. tasks!CallSucceeds(c, e)
    BY <1>3, <1>4
  <2> QED  BY <1>1, <1>2, <1>3, <2>1, SignalMoves
           DEF tasks!CallSucceeds, tasks!CanProceed, tasks!Effect, tasks!do_enqueue,
               Nudged
<1>5. CASE tasks!CallWaits(c, ExecuteCall(task, wait))
  <2>1. tasks!CallWaits(c, e)
    BY <1>3, <1>5
  <2> QED  BY <1>1, <1>2, <1>3, <2>1 DEF tasks!CallWaits, Nudged
<1> QED  BY <1>4, <1>5 DEF Execute

LEMMA ResumesDoes ==
  ASSUME Exact, InWait, NEW c \in Clients, ExecuteResumes(c)
  PROVE  /\ Nudged(c) /\ UNCHANGED <<max_size_, awaking_, lifeVars>>
         /\ UNCHANGED <<held, executed, dropped>>
         /\ call[c] \in tasks!EnqueueCalls /\ at[c] = "execute"
         /\ \/ /\ pc'[c] = "idle" /\ Go(c, "idle") /\ size_ < max_size_
               /\ queue_' = Append(queue_, call[c].element)
               /\ accepted' = accepted \union {call[c].element}
            \/ /\ pc'[c] = "idle" /\ Go(c, "idle")
               /\ UNCHANGED <<queue_, size_, accepted>>
            \/ /\ pc'[c] = "asleep" /\ call' = call
               /\ UNCHANGED <<queue_, size_, accepted, at>>
<1>1. /\ c \in Threads /\ ClientIn(c) /\ at[c] = "execute"
      /\ pc \in [Threads -> tasks!Places] /\ size_ = Len(queue_) /\ size_ \in Nat
      /\ call \in [Threads -> tasks!Calls \union {tasks!NoCall}]
  BY ThreadFacts DEF Exact, tasks!TypeOK, tasks!CountersExact, InWait, ExecuteResumes
<1>2. /\ call[c] \in tasks!EnqueueCalls /\ call[c].op = "enqueue"
      /\ call[c].strategy = "back"
  BY <1>1 DEF ClientIn, tasks!EnqueueCalls
<1>3. /\ UNCHANGED <<lifeVars, held, executed, dropped>>
      /\ IF pc'[c] = "idle" THEN Go(c, "idle") ELSE UNCHANGED at
      /\ accepted' = IF size_' > size_ THEN accepted \union {call[c].element}
                     ELSE accepted
  BY DEF ExecuteResumes
<1>4. CASE tasks!ReturnWoken(c)
  BY <1>1, <1>2, <1>3, <1>4, SignalMoves
     DEF tasks!ReturnWoken, tasks!CanProceed, tasks!Effect, tasks!do_enqueue, Nudged
<1>5. CASE tasks!SleepAgain(c)
  BY <1>1, <1>2, <1>3, <1>5 DEF tasks!SleepAgain, Nudged
<1>6. CASE tasks!ReturnAwaken(c) \/ tasks!ReturnExpired(c)
  BY <1>1, <1>2, <1>3, <1>6 DEF tasks!ReturnAwaken, tasks!ReturnExpired, Nudged
<1> QED  BY <1>4, <1>5, <1>6 DEF ExecuteResumes

(* A controller closes the queue, reopens it or is in awake(). *)
Awaking(k) ==
  /\ UNCHANGED max_size_
  /\ pc'[k] \in {"idle", "awake_signal", "awake_check"}
  /\ Go(k, IF pc'[k] = "idle" THEN "idle" ELSE "stop_awake")

LEMMA ControllerDoes ==
  ASSUME Exact, InWait, NEW k \in Controllers,
         StopMaxSize(k) \/ StopAwake(k) \/ WaitRestore(k)
  PROVE  /\ Nudged(k) /\ UNCHANGED <<queue_, size_, lifeVars, workVars>>
         /\ \/ /\ at[k] = "stop_max" /\ Go(k, "stop_awake") /\ pc'[k] = "idle"
               /\ max_size_' = 0
            \/ at[k] = "stop_awake" /\ Awaking(k)
            \/ /\ at[k] = "wait_restore" /\ Go(k, "idle") /\ pc'[k] = "idle"
               /\ max_size_' = queue_size_
<1>1. /\ k \in Threads /\ ControllerIn(k)
      /\ pc \in [Threads -> tasks!Places]
  BY ThreadFacts DEF Exact, tasks!TypeOK, InWait
<1>2. CASE StopMaxSize(k) \/ WaitRestore(k)
  BY <1>1, <1>2, SignalMoves DEF StopMaxSize, WaitRestore, tasks!SetMaxSize, Nudged
<1>3. CASE StopAwake(k)
  <2>1. /\ at[k] = "stop_awake" /\ UNCHANGED <<lifeVars, workVars>>
        /\ Go(k, IF pc'[k] = "idle" THEN "idle" ELSE "stop_awake")
    BY <1>3 DEF StopAwake
  <2>2. CASE pc[k] = "idle" /\ UNCHANGED queueVars
    BY <1>1, <2>1, <2>2 DEF queueVars, Nudged, Awaking
  <2>3. CASE tasks!AwakeBegin(k)
    BY <1>1, <2>1, <2>3 DEF tasks!AwakeBegin, Nudged, Awaking
  <2>4. CASE tasks!AwakeSignal(k)
    BY <1>1, <2>1, <2>4, SignalMoves DEF tasks!AwakeSignal, Nudged, Awaking
  <2>5. CASE tasks!AwakeCheck(k)
    BY <1>1, <2>1, <2>5 DEF tasks!AwakeCheck, Nudged, Awaking
  <2> QED  BY <1>3, <2>2, <2>3, <2>4, <2>5 DEF StopAwake
<1> QED  BY <1>2, <1>3

LEMMA EventDoes ==
  ASSUME Exact, InWait, NEW t \in Threads, QueueEvent(t)
  PROVE  /\ Nudged(t) /\ UNCHANGED <<queue_, size_, max_size_, awaking_, call>>
         /\ UNCHANGED <<at, lifeVars, workVars>>
         /\ pc[t] = "asleep"
         /\ pc'[t] = "woken" \/ (pc'[t] = "expired" /\ t \notin Workers)
<1>1. pc \in [Threads -> tasks!Places]
  BY DEF Exact, tasks!TypeOK
<1>2. CASE tasks!Expire(t)
  <2>1. ASSUME t \in Workers PROVE FALSE
    <3>1. call[t] \in tasks!DequeueCalls /\ call[t].wait = "timed"
      BY <1>2, <2>1 DEF tasks!Expire, InWait, WorkerIn
    <3> QED  BY <3>1 DEF tasks!DequeueCalls
  <2> QED  BY <1>1, <1>2, <2>1 DEF QueueEvent, tasks!Expire, Nudged
<1>3. CASE tasks!WakeSpuriously(t)
  BY <1>1, <1>3 DEF QueueEvent, tasks!WakeSpuriously, Nudged
<1> QED  BY <1>2, <1>3 DEF QueueEvent


-----------------------------------------------------------------------------
(* The steps that do nothing to the queue, ... *)
Apart ==
  \/ \E k \in Controllers :
       \/ ControllerCalls(k) \/ Start(k) \/ StartFails(k) \/ Stop(k) \/ Wait(k)
       \/ JoinOne(k) \/ JoinFails(k) \/ Joined(k)
  \/ \E w \in Workers :
       \/ ThreadBegins(w) \/ Decide(w) \/ ExecuteTask(w) \/ ThreadEnds(w)
       \/ CallbackThrows(w)

(* ... and the others. *)
InQueueStep ==
  \/ \E k \in Controllers : StopMaxSize(k) \/ StopAwake(k) \/ WaitRestore(k)
  \/ \E w \in Workers : Dequeue(w)
  \/ \E c \in Clients :
       \/ \E task \in Tasks, wait \in ExecuteWaits : Execute(c, task, wait)
       \/ ExecuteResumes(c)
  \/ \E t \in Threads : QueueEvent(t)

LEMMA NextIs == [Next]_vars => Apart \/ InQueueStep \/ UNCHANGED vars
BY DEF Next, ControllerStep, WorkerStep, Apart, InQueueStep, ExecuteRefused

(* Types. *)
LEMMA PlacesAre ==
  Typed => /\ \A t \in Threads : at[t] \in AllPlaces
           /\ DOMAIN at = Threads
BY DEF Typed

LEMMA GoTyped ==
  ASSUME Typed, NEW t \in Threads, NEW place, Go(t, place),
         \/ t \in Workers /\ place \in WorkerPlaces
         \/ t \in Controllers /\ place \in ControllerPlaces
         \/ t \in Clients /\ place \in {"idle", "execute"}
  PROVE  /\ at' \in [Threads -> AllPlaces]
         /\ \A w \in Workers : at'[w] \in WorkerPlaces
         /\ \A k \in Controllers : at'[k] \in ControllerPlaces
         /\ \A c \in Clients : at'[c] \in {"idle", "execute"}
<1>1. place \in AllPlaces
  BY DEF AllPlaces, ControllerPlaces
<1>2. at' \in [Threads -> AllPlaces]
  BY <1>1 DEF Go, Typed
<1> QED  BY <1>2, GoFacts, ThreadFacts DEF Typed

LEMMA StartPlaces ==
  ASSUME Typed, NEW k \in Controllers, NEW S \in SUBSET Workers,
         NEW place \in ControllerPlaces,
         at' = [t \in Threads |-> IF t \in S THEN "created"
                                  ELSE IF t = k THEN place ELSE at[t]]
  PROVE  /\ at' \in [Threads -> AllPlaces]
         /\ \A w \in Workers : at'[w] \in WorkerPlaces
         /\ \A j \in Controllers : at'[j] \in ControllerPlaces
         /\ \A c \in Clients : at'[c] \in {"idle", "execute"}
         /\ at'[k] = place
         /\ \A t \in Threads \ {k} : IF t \in S THEN at'[t] = "created"
                                     ELSE at'[t] = at[t]
<1>1. place \in AllPlaces /\ "created" \in WorkerPlaces /\ "created" \in AllPlaces
  BY DEF AllPlaces, WorkerPlaces
<1> QED  BY <1>1, ThreadFacts DEF Typed

LEMMA ControllerTyped ==
  ASSUME Typed, NEW k \in Controllers,
         \/ ControllerCalls(k) \/ Start(k) \/ StartFails(k) \/ Stop(k) \/ Wait(k)
         \/ JoinOne(k) \/ JoinFails(k) \/ Joined(k)
  PROVE  Typed'
<1> USE PoolAssumption DEF lifeVars, workVars
<1>1. k \in Threads
  BY ThreadFacts
<1>2. ASSUME \E place \in ControllerPlaces : Go(k, place)
      PROVE  /\ at' \in [Threads -> AllPlaces]
             /\ \A w \in Workers : at'[w] \in WorkerPlaces
             /\ \A j \in Controllers : at'[j] \in ControllerPlaces
             /\ \A c \in Clients : at'[c] \in {"idle", "execute"}
  BY <1>1, <1>2, GoTyped
<1>3. CASE ControllerCalls(k)
  <2>1. PICK op \in {"start", "stop", "wait"} :
          Go(k, op) /\ last' = [last EXCEPT ![k] = op]
    <3>1. MayCall(k) \subseteq {"start", "stop", "wait"}
      BY DEF MayCall, Typed
    <3> QED  BY <1>3, <3>1 DEF ControllerCalls
  <2>2. op \in ControllerPlaces
    BY DEF ControllerPlaces
  <2>3. last' \in [Controllers -> {"start", "stop", "wait"}]
    BY <2>1 DEF Typed
  <2> QED  BY <1>2, <1>3, <2>1, <2>2, <2>3 DEF ControllerCalls, Typed
<1>4. CASE Start(k)
  <2>1. CASE Go(k, "idle") /\ UNCHANGED <<started_, stop_, handles>>
    <3>1. "idle" \in ControllerPlaces
      BY DEF ControllerPlaces
    <3> QED  BY <1>2, <1>4, <2>1, <3>1 DEF Start, Typed
  <2>2. CASE \E S \in SUBSET FreeSlots :
               /\ at' = [t \in Threads |-> IF t \in S THEN "created"
                                           ELSE IF t = k THEN "idle" ELSE at[t]]
               /\ handles' = S /\ started_' = threads_ /\ stop_' = FALSE
    <3>1. PICK S \in SUBSET FreeSlots :
               /\ at' = [t \in Threads |-> IF t \in S THEN "created"
                                           ELSE IF t = k THEN "idle" ELSE at[t]]
               /\ handles' = S /\ started_' = threads_ /\ stop_' = FALSE
      BY <2>2
    <3>2. S \in SUBSET Workers /\ "idle" \in ControllerPlaces
      BY DEF FreeSlots, ControllerPlaces
    <3>3. /\ at' \in [Threads -> AllPlaces]
          /\ \A w \in Workers : at'[w] \in WorkerPlaces
          /\ \A j \in Controllers : at'[j] \in ControllerPlaces
          /\ \A c \in Clients : at'[c] \in {"idle", "execute"}
      BY <3>1, <3>2, StartPlaces
    <3>4. started_' \in 0 .. threads_
      <4>1. threads_ \in 0 .. threads_
        OBVIOUS
      <4> QED  BY <3>1, <4>1
    <3>7. stop_' \in BOOLEAN /\ handles' \subseteq Workers
      BY <3>1, <3>2
    <3>5. UNCHANGED <<joining, last, held, accepted, executed, dropped>>
      BY <1>4 DEF Start
    <3> QED  BY <3>3, <3>4, <3>5, <3>7 DEF Typed
  <2> QED  BY <1>4, <2>1, <2>2 DEF Start
<1>5. CASE StartFails(k)
  <2>1. PICK S \in SUBSET FreeSlots :
               /\ at' = [t \in Threads |-> IF t \in S THEN "created"
                                           ELSE IF t = k THEN "start_join" ELSE at[t]]
               /\ joining' = [joining EXCEPT ![k] = S]
    BY <1>5 DEF StartFails
  <2>2. S \in SUBSET Workers /\ "start_join" \in ControllerPlaces
    BY DEF FreeSlots, ControllerPlaces
  <2>3. /\ at' \in [Threads -> AllPlaces]
        /\ \A w \in Workers : at'[w] \in WorkerPlaces
        /\ \A j \in Controllers : at'[j] \in ControllerPlaces
        /\ \A c \in Clients : at'[c] \in {"idle", "execute"}
    BY <2>1, <2>2, StartPlaces
  <2>4. joining' \in [Controllers -> SUBSET Workers]
    BY <2>1, <2>2 DEF Typed
  <2> QED  BY <1>5, <2>3, <2>4 DEF StartFails, Typed
<1>6. CASE Stop(k) \/ Joined(k)
  <2>1. \E place \in ControllerPlaces : Go(k, place)
    BY <1>6 DEF Stop, Joined, ControllerPlaces
  <2> QED  BY <1>2, <1>6, <2>1 DEF Stop, Joined, Typed
<1>7. CASE Wait(k) \/ JoinFails(k)
  <2>1. \E place \in ControllerPlaces : Go(k, place)
    BY <1>7 DEF Wait, JoinFails, ControllerPlaces
  <2>2. joining' \in [Controllers -> SUBSET Workers]
    BY <1>7 DEF Wait, JoinFails, Typed
  <2> QED  BY <1>2, <1>7, <2>1, <2>2 DEF Wait, JoinFails, Typed
<1>8. CASE JoinOne(k)
  <2>1. PICK w \in joining[k] : /\ at' = [at EXCEPT ![w] = "free"]
                                /\ joining' = [joining EXCEPT ![k] = @ \ {w}]
    BY <1>8 DEF JoinOne
  <2>2. w \in Workers /\ w \in Threads /\ Go(w, "free") /\ "free" \in WorkerPlaces
    BY <2>1, ThreadFacts DEF Typed, Go, WorkerPlaces
  <2>3. joining' \in [Controllers -> SUBSET Workers]
    BY <2>1 DEF Typed
  <2> QED  BY <1>8, <2>2, <2>3, GoTyped DEF JoinOne, Typed
<1> QED  BY <1>3, <1>4, <1>5, <1>6, <1>7, <1>8

LEMMA WorkerTyped ==
  ASSUME Typed, InWait, Hands, NEW w \in Workers,
         \/ ThreadBegins(w) \/ Decide(w) \/ ExecuteTask(w) \/ ThreadEnds(w)
         \/ CallbackThrows(w)
  PROVE  Typed'
<1> USE DEF lifeVars, workVars
<1>1. w \in Threads
  BY ThreadFacts
<1>2. \E place \in WorkerPlaces : Go(w, place)
  BY DEF ThreadBegins, Decide, ExecuteTask, ThreadEnds, CallbackThrows, WorkerPlaces
<1>3. /\ at' \in [Threads -> AllPlaces]
      /\ \A v \in Workers : at'[v] \in WorkerPlaces
      /\ \A k \in Controllers : at'[k] \in ControllerPlaces
      /\ \A c \in Clients : at'[c] \in {"idle", "execute"}
  BY <1>1, <1>2, GoTyped
<1>4. CASE ThreadBegins(w)
  BY <1>3, <1>4 DEF ThreadBegins, Typed
<1>5. CASE Decide(w) \/ ExecuteTask(w) \/ CallbackThrows(w)
  <2>1. held[w] \in Tasks
    BY <1>5 DEF Decide, ExecuteTask, CallbackThrows, Hands, WithTask, Typed
  <2> QED  BY <1>3, <1>5, <2>1 DEF Decide, ExecuteTask, CallbackThrows, Typed
<1>6. CASE ThreadEnds(w)
  <2>1. started_' \in 0 .. threads_
    BY <1>6, PoolAssumption DEF ThreadEnds, Typed
  <2> QED  BY <1>3, <1>6, <2>1 DEF ThreadEnds, Typed
<1> QED  BY <1>4, <1>5, <1>6

LEMMA StepTyped ==
  ASSUME Exact, Typed, InWait, Hands, [Next]_vars
  PROVE  Typed'
<1> USE DEF lifeVars, workVars
<1>1. CASE Apart
  BY <1>1, ControllerTyped, WorkerTyped DEF Apart
<1>2. ASSUME NEW k \in Controllers, StopMaxSize(k) \/ StopAwake(k) \/ WaitRestore(k)
      PROVE  Typed'
  <2>1. \E place \in ControllerPlaces : Go(k, place)
    BY <1>2 DEF StopMaxSize, StopAwake, WaitRestore, ControllerPlaces
  <2>2. /\ at' \in [Threads -> AllPlaces]
        /\ \A w \in Workers : at'[w] \in WorkerPlaces
        /\ \A j \in Controllers : at'[j] \in ControllerPlaces
        /\ \A c \in Clients : at'[c] \in {"idle", "execute"}
    BY <2>1, GoTyped, ThreadFacts
  <2> QED  BY <1>2, <2>2 DEF StopMaxSize, StopAwake, WaitRestore, Typed
<1>3. ASSUME NEW w \in Workers, Dequeue(w) PROVE Typed'
  <2>1. CASE UNCHANGED <<at, held>>
    BY <1>3, <2>1 DEF Dequeue, Typed
  <2>2. CASE /\ Len(queue_) # 0 /\ held' = [held EXCEPT ![w] = Head(queue_)]
             /\ Go(w, "got")
    <3>1. Head(queue_) \in Tasks
      BY <2>2, TakenOff DEF Exact, tasks!TypeOK
    <3>2. held' \in [Workers -> Tasks \union {NoTask}]
      BY <2>2, <3>1 DEF Typed
    <3>3. "got" \in WorkerPlaces
      BY DEF WorkerPlaces
    <3> QED  BY <1>3, <2>2, <3>2, <3>3, GoTyped, ThreadFacts DEF Dequeue, Typed
  <2>3. CASE held' = held /\ Go(w, "exit")
    <3>1. "exit" \in WorkerPlaces
      BY DEF WorkerPlaces
    <3> QED  BY <1>3, <2>3, <3>1, GoTyped, ThreadFacts DEF Dequeue, Typed
  <2> QED  BY <1>3, <2>1, <2>2, <2>3, DequeueDoes
<1>4. ASSUME NEW c \in Clients, NEW task \in Tasks,
             accepted' \in {accepted, accepted \union {task}},
             at' = at \/ Go(c, "idle") \/ Go(c, "execute"),
             UNCHANGED <<lifeVars, held, executed, dropped>>
      PROVE  Typed'
  <2>1. CASE at' = at
    BY <1>4, <2>1 DEF Typed
  <2>2. CASE Go(c, "idle") \/ Go(c, "execute")
    BY <1>4, <2>2, GoTyped, ThreadFacts DEF Typed
  <2> QED  BY <1>4, <2>1, <2>2
<1>5. ASSUME NEW c \in Clients, NEW task \in Tasks, NEW wait \in ExecuteWaits,
             Execute(c, task, wait)
      PROVE  Typed'
  BY <1>4, <1>5, ExecuteDoes
<1>6. ASSUME NEW c \in Clients, ExecuteResumes(c) PROVE Typed'
  <2>1. /\ call[c] \in tasks!EnqueueCalls
        /\ accepted' \in {accepted, accepted \union {call[c].element}}
        /\ at' = at \/ Go(c, "idle") \/ Go(c, "execute")
        /\ UNCHANGED <<lifeVars, held, executed, dropped>>
    BY <1>6, ResumesDoes
  <2>2. call[c].element \in Tasks
    BY <2>1 DEF tasks!EnqueueCalls
  <2> QED  BY <1>4, <2>1, <2>2
<1>7. ASSUME NEW t \in Threads, QueueEvent(t) PROVE Typed'
  BY <1>7 DEF QueueEvent, Typed
<1>8. CASE UNCHANGED vars
  BY <1>8 DEF vars, Typed
<1> QED  BY <1>1, <1>2, <1>3, <1>5, <1>6, <1>7, <1>8, NextIs DEF InQueueStep


-----------------------------------------------------------------------------
(* Each thread is in the queue where its place says. *)
LEMMA WhoMoves ==
  ASSUME Typed, InWait, Apart
  PROVE  /\ UNCHANGED <<queueVars, accepted>>
         /\ \A t \in Threads :
              at'[t] = at[t] \/ (t \notin Clients /\ at[t] \notin {"loop", "stop_awake"})
<1> USE DEF lifeVars, workVars
<1>1. ASSUME NEW t \in Threads, t \notin Clients, at[t] \notin {"loop", "stop_awake"},
             NEW place, Go(t, place)
      PROVE  \A u \in Threads :
               at'[u] = at[u] \/ (u \notin Clients /\ at[u] \notin {"loop", "stop_awake"})
  BY <1>1, GoFacts
<1>2. ASSUME NEW k \in Controllers,
             \/ ControllerCalls(k) \/ Stop(k) \/ Wait(k) \/ JoinFails(k) \/ Joined(k)
      PROVE  /\ UNCHANGED <<queueVars, accepted>>
             /\ \A u \in Threads :
                  at'[u] = at[u] \/ (u \notin Clients /\ at[u] \notin {"loop", "stop_awake"})
  <2>1. UNCHANGED <<queueVars, accepted>>
    BY <1>2 DEF ControllerCalls, Stop, Wait, JoinFails, Joined
  <2>2. at[k] \notin {"loop", "stop_awake"} /\ \E place : Go(k, place)
    BY <1>2 DEF ControllerCalls, Stop, Wait, JoinFails, Joined
  <2> QED  BY <1>1, <2>1, <2>2, ThreadFacts
<1>3. ASSUME NEW k \in Controllers, JoinOne(k)
      PROVE  /\ UNCHANGED <<queueVars, accepted>>
             /\ \A u \in Threads :
                  at'[u] = at[u] \/ (u \notin Clients /\ at[u] \notin {"loop", "stop_awake"})
  <2>1. PICK w \in joining[k] : at[w] = "done" /\ at' = [at EXCEPT ![w] = "free"]
    BY <1>3 DEF JoinOne
  <2>2. w \in Workers /\ Go(w, "free")
    BY <2>1 DEF Typed, Go
  <2> QED  BY <1>1, <1>3, <2>1, <2>2, ThreadFacts DEF JoinOne
<1>4. ASSUME NEW k \in Controllers, Start(k) \/ StartFails(k)
      PROVE  /\ UNCHANGED <<queueVars, accepted>>
             /\ \A u \in Threads :
                  at'[u] = at[u] \/ (u \notin Clients /\ at[u] \notin {"loop", "stop_awake"})
  <2>1. UNCHANGED <<queueVars, accepted>> /\ at[k] = "start"
    BY <1>4 DEF Start, StartFails
  <2>2. CASE Go(k, "idle")
    BY <1>1, <2>1, <2>2, ThreadFacts
  <2>3. ASSUME NEW S \in SUBSET FreeSlots, NEW place \in {"idle", "start_join"},
               at' = [t \in Threads |-> IF t \in S THEN "created"
                                        ELSE IF t = k THEN place ELSE at[t]]
        PROVE  \A u \in Threads :
                 at'[u] = at[u] \/ (u \notin Clients /\ at[u] \notin {"loop", "stop_awake"})
    <3>1. \A w \in S : w \in Workers /\ at[w] \in {"free", "done"}
      BY DEF FreeSlots
    <3> QED  BY <2>1, <2>3, <3>1, ThreadFacts
  <2> QED  BY <1>4, <2>1, <2>2, <2>3 DEF Start, StartFails
<1>5. ASSUME NEW w \in Workers,
             \/ ThreadBegins(w) \/ Decide(w) \/ ExecuteTask(w) \/ ThreadEnds(w)
             \/ CallbackThrows(w)
      PROVE  /\ UNCHANGED <<queueVars, accepted>>
             /\ \A u \in Threads :
                  at'[u] = at[u] \/ (u \notin Clients /\ at[u] \notin {"loop", "stop_awake"})
  <2>1. UNCHANGED <<queueVars, accepted>> /\ at[w] \notin {"loop", "stop_awake"}
    BY <1>5 DEF ThreadBegins, Decide, ExecuteTask, ThreadEnds, CallbackThrows
  <2>2. \E place : Go(w, place)
    BY <1>5 DEF ThreadBegins, Decide, ExecuteTask, ThreadEnds, CallbackThrows
  <2> QED  BY <1>1, <2>1, <2>2, ThreadFacts
<1> QED  BY <1>2, <1>3, <1>4, <1>5 DEF Apart

(* Who is nudged stays where it is. *)
LEMMA NudgedIn ==
  ASSUME InWait, NEW t \in Threads, Nudged(t),
         \A u \in Threads \ {t} : at'[u] = at[u],
         t \in Workers => WorkerIn(t)',
         t \in Controllers => ControllerIn(t)',
         t \in Clients => ClientIn(t)'
  PROVE  InWait'
<1>1. \A w \in Workers : WorkerIn(w)'
  <2> SUFFICES ASSUME NEW w \in Workers, w # t PROVE WorkerIn(w)'
    OBVIOUS
  <2>1. WorkerIn(w) /\ w \in Threads
    BY ThreadFacts DEF InWait
  <2> QED  BY <2>1 DEF WorkerIn, Nudged, tasks!DequeueCalls
<1>2. \A k \in Controllers : ControllerIn(k)'
  <2> SUFFICES ASSUME NEW k \in Controllers, k # t PROVE ControllerIn(k)'
    OBVIOUS
  <2>1. ControllerIn(k) /\ k \in Threads
    BY ThreadFacts DEF InWait
  <2> QED  BY <2>1 DEF ControllerIn, Nudged
<1>3. \A c \in Clients : ClientIn(c)'
  <2> SUFFICES ASSUME NEW c \in Clients, c # t PROVE ClientIn(c)'
    OBVIOUS
  <2>1. ClientIn(c) /\ c \in Threads
    BY ThreadFacts DEF InWait
  <2> QED  BY <2>1 DEF ClientIn, Nudged, tasks!EnqueueCalls
<1> QED  BY <1>1, <1>2, <1>3 DEF InWait

LEMMA StillIn ==
  ASSUME InWait, UNCHANGED <<pc, call>>,
         \A t \in Threads :
           at'[t] = at[t] \/ (t \notin Clients /\ at[t] \notin {"loop", "stop_awake"})
  PROVE  InWait'
<1>1. \A w \in Workers : WorkerIn(w)'
  BY ThreadFacts DEF InWait, WorkerIn, tasks!DequeueCalls
<1>2. \A k \in Controllers : ControllerIn(k)'
  BY ThreadFacts DEF InWait, ControllerIn
<1>3. \A c \in Clients : ClientIn(c)'
  BY ThreadFacts DEF InWait, ClientIn, tasks!EnqueueCalls
<1> QED  BY <1>1, <1>2, <1>3 DEF InWait

LEMMA StepInWait ==
  ASSUME Exact, Typed, InWait, [Next]_vars
  PROVE  InWait'
<1>1. CASE Apart
  BY <1>1, WhoMoves, StillIn DEF queueVars
<1>2. ASSUME NEW k \in Controllers, StopMaxSize(k) \/ StopAwake(k) \/ WaitRestore(k)
      PROVE  InWait'
  <2>1. Nudged(k) /\ k \in Threads
    BY <1>2, ControllerDoes, ThreadFacts
  <2>2. \A u \in Threads \ {k} : at'[u] = at[u]
    BY <1>2, ThreadFacts, GoFacts DEF StopMaxSize, StopAwake, WaitRestore
  <2>3. ControllerIn(k)'
    <3>1. CASE \E place : Go(k, place) /\ pc'[k] = "idle"
      BY <3>1 DEF ControllerIn
    <3>2. CASE Awaking(k)
      BY <2>1, <3>2, GoFacts DEF ControllerIn, Awaking
    <3> QED  BY <1>2, <3>1, <3>2, ControllerDoes
  <2> QED  BY <2>1, <2>2, <2>3, NudgedIn, ThreadFacts
<1>3. ASSUME NEW w \in Workers, Dequeue(w) PROVE InWait'
  <2>1. Nudged(w) /\ w \in Threads /\ at[w] = "loop"
    BY <1>3, DequeueDoes, ThreadFacts
  <2>2. \A u \in Threads \ {w} : at'[u] = at[u]
    BY <1>3, <2>1, GoFacts, DequeueDoes
  <2>3. WorkerIn(w)'
    BY <1>3, <2>1, DequeueDoes DEF WorkerIn, tasks!DequeueCalls
  <2> QED  BY <2>1, <2>2, <2>3, NudgedIn, ThreadFacts
<1>4. ASSUME NEW c \in Clients, NEW task \in Tasks, NEW wait \in ExecuteWaits,
             Execute(c, task, wait)
      PROVE  InWait'
  <2>1. Nudged(c) /\ c \in Threads /\ at[c] = "idle"
    BY <1>4, ExecuteDoes, ThreadFacts DEF Execute
  <2>2. \A u \in Threads \ {c} : at'[u] = at[u]
    BY <1>4, <2>1, GoFacts, ExecuteDoes
  <2>3. ClientIn(c)'
    <3>1. CASE pc'[c] = "idle" /\ at' = at
      BY <2>1, <3>1 DEF ClientIn
    <3>2. CASE /\ pc'[c] = "asleep" /\ call'[c] \in tasks!EnqueueCalls
               /\ Go(c, "execute")
      BY <2>1, <3>2, GoFacts DEF ClientIn, tasks!EnqueueCalls
    <3> QED  BY <1>4, <3>1, <3>2, ExecuteDoes
  <2> QED  BY <2>1, <2>2, <2>3, NudgedIn, ThreadFacts
<1>5. ASSUME NEW c \in Clients, ExecuteResumes(c) PROVE InWait'
  <2>1. Nudged(c) /\ c \in Threads /\ ClientIn(c)
    BY <1>5, ResumesDoes, ThreadFacts DEF InWait
  <2>2. \A u \in Threads \ {c} : at'[u] = at[u]
    BY <1>5, <2>1, GoFacts, ResumesDoes
  <2>3. ClientIn(c)'
    <3>1. CASE pc'[c] = "idle" /\ Go(c, "idle")
      BY <2>1, <3>1, GoFacts DEF ClientIn
    <3>2. CASE /\ pc'[c] = "asleep" /\ call' = call /\ at' = at /\ at[c] = "execute"
      BY <2>1, <3>2 DEF ClientIn, tasks!EnqueueCalls
    <3> QED  BY <1>5, <3>1, <3>2, ResumesDoes
  <2> QED  BY <2>1, <2>2, <2>3, NudgedIn, ThreadFacts
<1>6. ASSUME NEW t \in Threads, QueueEvent(t) PROVE InWait'
  <2>1. /\ Nudged(t) /\ at' = at /\ call' = call /\ pc[t] = "asleep"
        /\ pc'[t] = "woken" \/ (pc'[t] = "expired" /\ t \notin Workers)
    BY <1>6, EventDoes DEF workVars
  <2>2. t \in Workers => WorkerIn(t)'
    BY <2>1 DEF InWait, WorkerIn, tasks!DequeueCalls
  <2>3. t \notin Controllers
    BY <2>1 DEF InWait, ControllerIn
  <2>4. t \in Clients => ClientIn(t)'
    BY <2>1 DEF InWait, ClientIn, tasks!EnqueueCalls
  <2> QED  BY <2>1, <2>2, <2>3, <2>4, NudgedIn
<1>7. CASE UNCHANGED vars
  BY <1>7, StillIn DEF vars, queueVars
<1> QED  BY <1>1, <1>2, <1>3, <1>4, <1>5, <1>6, <1>7, NextIs DEF InQueueStep


-----------------------------------------------------------------------------
(* Where the tasks are. *)
OfTasks ==
  /\ queue_ \in Seq(Tasks) /\ Len(queue_) \in Nat
  /\ InQueue = {queue_[i] : i \in DOMAIN queue_} /\ InQueue \subseteq Tasks
  /\ size_ = Len(queue_) /\ (size_ = 0 => queue_ = <<>>)

LEMMA QueueOfTasks == Exact => OfTasks
<1> SUFFICES ASSUME Exact PROVE OfTasks
  OBVIOUS
<1>1. queue_ \in Seq(Tasks) /\ size_ = Len(queue_)
  BY DEF Exact, tasks!TypeOK, tasks!CountersExact
<1>2. DOMAIN queue_ = 1 .. Len(queue_) /\ Len(queue_) \in Nat
  BY <1>1
<1>3. Len(queue_) = 0 => queue_ = <<>>
  BY <1>1
<1> QED  BY <1>1, <1>2, <1>3 DEF InQueue, OfTasks

LEMMA SameHands ==
  ASSUME Hands, UNCHANGED <<held, queue_, accepted, executed, dropped>>,
         \A w \in Workers : at'[w] \in WithTask <=> at[w] \in WithTask
  PROVE  Hands' /\ InQueue' = InQueue /\ InHand' = InHand
BY DEF Hands, InQueue, InHand

(* A task is let go of by who held it. *)
LEMMA LetGo ==
  ASSUME Exact, Typed, Hands, NEW w \in Workers, at[w] \in WithTask,
         at'[w] \notin WithTask, \A v \in Workers \ {w} : at'[v] = at[v],
         held' = [held EXCEPT ![w] = NoTask],
         UNCHANGED <<queue_, accepted>>,
         executed' \union dropped' = executed \union dropped \union {held[w]}
  PROVE  /\ Hands' /\ InQueue' = InQueue /\ InHand' = InHand \ {held[w]}
         /\ held[w] \in InHand /\ held[w] \in Tasks
<1>1. held \in [Workers -> Tasks \union {NoTask}]
  BY DEF Typed
<1>2. held'[w] = NoTask /\ \A v \in Workers \ {w} : held'[v] = held[v]
  BY <1>1
<1>3. InQueue' = InQueue
  BY DEF InQueue
<1>4. /\ held[w] # NoTask /\ held[w] \in InHand /\ NoTask \notin InQueue
      /\ held[w] \in Tasks
  <2>1. NoTask \notin Tasks
    BY ThreadFacts
  <2> QED  BY <1>1, <2>1, QueueOfTasks DEF OfTasks, Hands, InHand
<1>5. InHand' = InHand \ {held[w]}
  BY <1>2, <1>4 DEF InHand, Hands
<1>6. \A v \in Workers : at'[v] \in WithTask <=> held'[v] # NoTask
  BY <1>2 DEF Hands
<1>7. \A u, v \in Workers : held'[v] # NoTask /\ held'[u] = held'[v] => u = v
  BY <1>2 DEF Hands
<1>8. \A v \in Workers : held'[v] \notin InQueue'
  BY <1>2, <1>3, <1>4 DEF Hands
<1>9. InQueue' \union InHand' \union executed' \union dropped' \subseteq accepted'
  BY <1>3, <1>4, <1>5 DEF Hands
<1>10. (InQueue' \union InHand') \intersect (executed' \union dropped') = {}
  <2>1. held[w] \notin InQueue
    BY DEF Hands
  <2> QED  BY <1>3, <1>4, <1>5, <2>1 DEF Hands
<1> QED  BY <1>3, <1>4, <1>5, <1>6, <1>7, <1>8, <1>9, <1>10 DEF Hands

(* What is taken from the queue is in it no longer, and in no other hands. *)
LEMMA Taken ==
  ASSUME Exact, Exact', Typed, Hands, NEW w \in Workers, at[w] = "loop",
         Len(queue_) # 0, queue_' = Tail(queue_),
         held' = [held EXCEPT ![w] = Head(queue_)], Go(w, "got"),
         UNCHANGED <<accepted, executed, dropped>>
  PROVE  /\ Hands' /\ Head(queue_) \in Tasks
         /\ Head(queue_) \in InQueue /\ InQueue' = InQueue \ {Head(queue_)}
         /\ InHand' = InHand \union {Head(queue_)}
<1>1. queue_ \in Seq(Tasks) /\ InQueue \subseteq Tasks /\ NoTask \notin Tasks
  BY QueueOfTasks, ThreadFacts DEF OfTasks
<1>2. /\ DOMAIN queue_' = 1 .. Len(queue_) - 1
      /\ DOMAIN queue_ = 1 .. Len(queue_)
      /\ Len(queue_) \in Nat \ {0}
      /\ Head(queue_) = queue_[1]
      /\ \A i \in 1 .. Len(queue_) - 1 : queue_'[i] = queue_[i + 1]
  BY <1>1, TakenOff
<1>3. /\ InQueue = {queue_[i] : i \in DOMAIN queue_}
      /\ InQueue' = {queue_'[i] : i \in DOMAIN queue_'}
  <2>1. OfTasks /\ OfTasks'
    BY QueueOfTasks, PTL
  <2> QED  BY <2>1 DEF OfTasks
<1>4. \A i, j \in DOMAIN queue_ : queue_[i] = queue_[j] => i = j
  BY DEF Hands
<1>5. Head(queue_) \in InQueue
  <2>1. 1 \in DOMAIN queue_
    BY <1>2
  <2>2. queue_[1] \in {queue_[i] : i \in DOMAIN queue_}
    BY <2>1
  <2> QED  BY <1>2, <1>3, <2>2
<1>6. InQueue' = InQueue \ {Head(queue_)}
  <2>1. InQueue' \subseteq InQueue \ {Head(queue_)}
    BY <1>2, <1>3, <1>4
  <2>2. ASSUME NEW i \in DOMAIN queue_, queue_[i] # Head(queue_)
        PROVE  queue_[i] \in InQueue'
    <3>1. i - 1 \in DOMAIN queue_' /\ queue_'[i - 1] = queue_[i]
      BY <1>2, <2>2
    <3> QED  BY <1>3, <3>1
  <2> QED  BY <1>3, <2>1, <2>2
<1>7. ASSUME NEW i \in DOMAIN queue_', NEW j \in DOMAIN queue_', queue_'[i] = queue_'[j]
      PROVE  i = j
  <2>1. /\ i \in Int /\ j \in Int
        /\ i + 1 \in DOMAIN queue_ /\ j + 1 \in DOMAIN queue_
        /\ queue_[i + 1] = queue_[j + 1]
    BY <1>2, <1>7
  <2>2. i + 1 = j + 1
    BY <1>4, <2>1
  <2> QED  BY <2>1, <2>2
<1>8. held'[w] = Head(queue_) /\ \A v \in Workers \ {w} : held'[v] = held[v]
  BY DEF Typed
<1>9. at'[w] = "got" /\ \A v \in Workers \ {w} : at'[v] = at[v]
  BY GoFacts, ThreadFacts
<1>10. held[w] = NoTask
  BY DEF Hands, WithTask
<1>11. InHand' = InHand \union {Head(queue_)}
  BY <1>1, <1>5, <1>8, <1>10 DEF InHand
<1>12. \A v \in Workers : at'[v] \in WithTask <=> held'[v] # NoTask
  BY <1>1, <1>5, <1>8, <1>9 DEF Hands, WithTask
<1>13. \A u, v \in Workers : held'[v] # NoTask /\ held'[u] = held'[v] => u = v
  BY <1>5, <1>8 DEF Hands
<1>14. \A v \in Workers : held'[v] \notin InQueue'
  BY <1>5, <1>6, <1>8 DEF Hands
<1>15. InQueue' \union InHand' = InQueue \union InHand
  BY <1>5, <1>6, <1>11
<1> QED  BY <1>1, <1>5, <1>6, <1>7, <1>11, <1>12, <1>13, <1>14, <1>15 DEF Hands

(* A task that is accepted was nowhere. *)
LEMMA Given ==
  ASSUME Exact, Exact', Typed, Hands, NEW t \in Tasks, t \notin accepted,
         queue_' = Append(queue_, t), accepted' = accepted \union {t},
         UNCHANGED <<held, executed, dropped>>,
         \A w \in Workers : at'[w] = at[w]
  PROVE  Hands' /\ InQueue' = InQueue \union {t} /\ InHand' = InHand
<1>1. queue_ \in Seq(Tasks)
  BY QueueOfTasks DEF OfTasks
<1>2. /\ DOMAIN queue_' = 1 .. Len(queue_) + 1 /\ DOMAIN queue_ = 1 .. Len(queue_)
      /\ Len(queue_) \in Nat
      /\ \A i \in 1 .. Len(queue_) : queue_'[i] = queue_[i]
      /\ queue_'[Len(queue_) + 1] = t
  BY <1>1, Appended
<1>3. /\ InQueue = {queue_[i] : i \in DOMAIN queue_}
      /\ InQueue' = {queue_'[i] : i \in DOMAIN queue_'}
  <2>1. OfTasks /\ OfTasks'
    BY QueueOfTasks, PTL
  <2> QED  BY <2>1 DEF OfTasks
<1>4. InQueue' = InQueue \union {t}
  <2>1. InQueue' \subseteq InQueue \union {t}
    BY <1>2, <1>3
  <2>2. InQueue \union {t} \subseteq InQueue'
    BY <1>2, <1>3
  <2> QED  BY <2>1, <2>2
<1>5. t \notin InQueue \union InHand \union executed \union dropped
  BY DEF Hands
<1>6. \A i \in 1 .. Len(queue_) : queue_[i] # t
  BY <1>2, <1>3, <1>5
<1>7. \A i, j \in DOMAIN queue_' : queue_'[i] = queue_'[j] => i = j
  BY <1>2, <1>6 DEF Hands
<1>8. InHand' = InHand
  BY DEF InHand
<1>9. \A w \in Workers : held[w] # t
  BY <1>5, ThreadFacts DEF InHand
<1> QED  BY <1>4, <1>5, <1>7, <1>8, <1>9 DEF Hands


LEMMA WorkHands ==
  ASSUME Exact, Typed, Hands, Apart
  PROVE  Hands'
<1> USE DEF queueVars, lifeVars, workVars
<1>1. ASSUME NEW w \in Workers,
             \/ ThreadBegins(w) \/ Decide(w) \/ ExecuteTask(w) \/ ThreadEnds(w)
             \/ CallbackThrows(w)
      PROVE  Hands'
  <2>1. ASSUME NEW place, Go(w, place)
        PROVE  at'[w] = place /\ \A v \in Workers \ {w} : at'[v] = at[v]
    BY <2>1, GoFacts, ThreadFacts
  <2>2. CASE ThreadBegins(w) \/ ThreadEnds(w)
    BY <2>1, <2>2, SameHands DEF ThreadBegins, ThreadEnds, WithTask
  <2>3. CASE Decide(w) /\ Go(w, "execute_task")
    BY <2>1, <2>3, SameHands DEF Decide, WithTask
  <2>4. CASE Decide(w) /\ Go(w, "loop") /\ dropped' = dropped \union {held[w]}
    <3>1. /\ at[w] \in WithTask /\ at'[w] \notin WithTask
          /\ \A v \in Workers \ {w} : at'[v] = at[v]
          /\ held' = [held EXCEPT ![w] = NoTask]
          /\ UNCHANGED <<queue_, accepted>>
          /\ executed' \union dropped' = executed \union dropped \union {held[w]}
      BY <2>1, <2>4 DEF Decide, WithTask
    <3> QED  BY <3>1, LetGo
  <2>5. CASE ExecuteTask(w) \/ CallbackThrows(w)
    <3>1. /\ at[w] \in WithTask /\ at'[w] \notin WithTask
          /\ \A v \in Workers \ {w} : at'[v] = at[v]
          /\ held' = [held EXCEPT ![w] = NoTask]
          /\ UNCHANGED <<queue_, accepted>>
          /\ executed' \union dropped' = executed \union dropped \union {held[w]}
      BY <2>1, <2>5 DEF ExecuteTask, CallbackThrows, WithTask
    <3> QED  BY <3>1, LetGo
  <2> QED  BY <1>1, <2>2, <2>3, <2>4, <2>5 DEF Decide
<1>2. ASSUME UNCHANGED <<held, queue_, accepted, executed, dropped>>,
             \A w \in Workers : at'[w] \in WithTask <=> at[w] \in WithTask
      PROVE  Hands'
  BY <1>2, SameHands
<1>3. ASSUME NEW k \in Controllers,
             \/ ControllerCalls(k) \/ Stop(k) \/ Wait(k) \/ JoinFails(k) \/ Joined(k)
      PROVE  Hands'
  <2>1. \E place : Go(k, place)
    BY <1>3 DEF ControllerCalls, Stop, Wait, JoinFails, Joined
  <2>2. \A w \in Workers : at'[w] = at[w]
    BY <2>1, GoFacts, ThreadFacts
  <2> QED  BY <1>2, <1>3, <2>2 DEF ControllerCalls, Stop, Wait, JoinFails, Joined
<1>4. ASSUME NEW k \in Controllers, JoinOne(k) PROVE Hands'
  <2>1. PICK w \in joining[k] : at[w] = "done" /\ at' = [at EXCEPT ![w] = "free"]
    BY <1>4 DEF JoinOne
  <2>2. w \in Workers /\ Go(w, "free")
    BY <2>1 DEF Typed, Go
  <2>3. at'[w] = "free" /\ \A v \in Workers \ {w} : at'[v] = at[v]
    BY <2>2, GoFacts, ThreadFacts
  <2> QED  BY <1>2, <1>4, <2>1, <2>3 DEF JoinOne, WithTask
<1>5. ASSUME NEW k \in Controllers, Start(k) \/ StartFails(k) PROVE Hands'
  <2>1. UNCHANGED <<held, queue_, accepted, executed, dropped>>
    BY <1>5 DEF Start, StartFails
  <2>2. CASE Go(k, "idle")
    BY <1>2, <2>1, <2>2, GoFacts, ThreadFacts
  <2>3. ASSUME NEW S \in SUBSET FreeSlots, NEW place,
               at' = [t \in Threads |-> IF t \in S THEN "created"
                                        ELSE IF t = k THEN place ELSE at[t]]
        PROVE  Hands'
    <3>1. \A w \in S : w \in Workers /\ at[w] \in {"free", "done"}
      BY DEF FreeSlots
    <3> QED  BY <1>2, <2>1, <2>3, <3>1, ThreadFacts DEF WithTask
  <2> QED  BY <1>5, <2>1, <2>2, <2>3 DEF Start, StartFails
<1> QED  BY <1>1, <1>3, <1>4, <1>5 DEF Apart

LEMMA StepHands ==
  ASSUME Exact, Exact', Typed, InWait, Offers, Hands, [Next]_vars
  PROVE  Hands'
<1> USE DEF lifeVars, workVars
<1>1. ASSUME UNCHANGED <<held, queue_, accepted, executed, dropped>>,
             \A w \in Workers : at'[w] \in WithTask <=> at[w] \in WithTask
      PROVE  Hands'
  BY <1>1, SameHands
<1>2. ASSUME NEW k \in Controllers, StopMaxSize(k) \/ StopAwake(k) \/ WaitRestore(k)
      PROVE  Hands'
  <2>1. \A w \in Workers : at'[w] = at[w]
    BY <1>2, GoFacts, ThreadFacts DEF StopMaxSize, StopAwake, WaitRestore
  <2> QED  BY <1>1, <1>2, <2>1, ControllerDoes
<1>3. ASSUME NEW w \in Workers, Dequeue(w) PROVE Hands'
  <2>1. at[w] = "loop" /\ UNCHANGED <<accepted, executed, dropped>>
    BY <1>3, DequeueDoes
  <2>2. CASE UNCHANGED <<queue_, at, held>>
    BY <1>1, <2>1, <2>2
  <2>3. CASE /\ Len(queue_) # 0 /\ queue_' = Tail(queue_)
             /\ held' = [held EXCEPT ![w] = Head(queue_)] /\ Go(w, "got")
    BY <2>1, <2>3, Taken
  <2>4. CASE UNCHANGED <<queue_, held>> /\ Go(w, "exit")
    BY <1>1, <2>1, <2>4, GoFacts, ThreadFacts DEF WithTask
  <2> QED  BY <1>3, <2>2, <2>3, <2>4, DequeueDoes
<1>4. ASSUME NEW c \in Clients, NEW task \in Tasks, NEW wait \in ExecuteWaits,
             Execute(c, task, wait)
      PROVE  Hands'
  <2>1. \A w \in Workers : at'[w] = at[w]
    BY <1>4, ExecuteDoes, GoFacts, ThreadFacts
  <2>2. UNCHANGED <<held, executed, dropped>> /\ task \notin accepted
    BY <1>4, ExecuteDoes DEF Execute
  <2>3. CASE queue_' = Append(queue_, task) /\ accepted' = accepted \union {task}
    BY <2>1, <2>2, <2>3, Given
  <2> QED  BY <1>1, <1>4, <2>1, <2>2, <2>3, ExecuteDoes
<1>5. ASSUME NEW c \in Clients, ExecuteResumes(c) PROVE Hands'
  <2>1. \A w \in Workers : at'[w] = at[w]
    BY <1>5, ResumesDoes, GoFacts, ThreadFacts
  <2>2. /\ UNCHANGED <<held, executed, dropped>> /\ at[c] = "execute"
        /\ call[c] \in tasks!EnqueueCalls
    BY <1>5, ResumesDoes
  <2>3. call[c].element \in Tasks /\ call[c].element \notin accepted
    BY <2>2 DEF tasks!EnqueueCalls, Offers
  <2>4. CASE /\ queue_' = Append(queue_, call[c].element)
             /\ accepted' = accepted \union {call[c].element}
    <3>1. PICK t \in Tasks : t = call[c].element
      BY <2>3
    <3> QED  BY <2>1, <2>2, <2>3, <2>4, <3>1, Given
  <2> QED  BY <1>1, <1>5, <2>1, <2>2, <2>4, ResumesDoes
<1>6. ASSUME NEW t \in Threads, QueueEvent(t) PROVE Hands'
  BY <1>1, <1>6, EventDoes
<1>7. CASE UNCHANGED vars
  BY <1>1, <1>7 DEF vars, queueVars
<1> QED  BY <1>2, <1>3, <1>4, <1>5, <1>6, <1>7, WorkHands, NextIs DEF InQueueStep

(* What is offered. *)
LEMMA SameOffers ==
  ASSUME Offers, accepted' = accepted,
         \A c \in Clients : at'[c] = "execute" => /\ at[c] = "execute"
                                                  /\ call'[c] = call[c]
  PROVE  Offers'
BY DEF Offers

LEMMA StepOffers ==
  ASSUME Exact, Typed, InWait, Offers, [Next]_vars
  PROVE  Offers'
<1>1. CASE Apart
  BY <1>1, WhoMoves, SameOffers, ThreadFacts DEF queueVars
<1>2. ASSUME NEW t \in Threads, t \notin Clients, Nudged(t), accepted' = accepted,
             \A c \in Clients : at'[c] = at[c]
      PROVE  Offers'
  BY <1>2, SameOffers, ThreadFacts DEF Nudged
<1>3. ASSUME NEW k \in Controllers, StopMaxSize(k) \/ StopAwake(k) \/ WaitRestore(k)
      PROVE  Offers'
  <2>1. \A c \in Clients : at'[c] = at[c]
    BY <1>3, GoFacts, ThreadFacts DEF StopMaxSize, StopAwake, WaitRestore
  <2> QED  BY <1>2, <1>3, <2>1, ControllerDoes, ThreadFacts DEF workVars
<1>4. ASSUME NEW w \in Workers, Dequeue(w) PROVE Offers'
  <2>1. \A c \in Clients : at'[c] = at[c]
    BY <1>4, DequeueDoes, GoFacts, ThreadFacts
  <2> QED  BY <1>2, <1>4, <2>1, DequeueDoes, ThreadFacts
<1>5. ASSUME NEW c \in Clients, NEW task \in Tasks, NEW wait \in ExecuteWaits,
             Execute(c, task, wait)
      PROVE  Offers'
  <2>1. /\ Nudged(c) /\ at[c] = "idle" /\ c \in Threads
        /\ task \notin accepted
        /\ \A d \in Clients : at[d] = "execute" => call[d].element # task
    BY <1>5, ExecuteDoes, ThreadFacts DEF Execute
  <2>2. \A d \in Clients \ {c} : call'[d] = call[d]
    BY <2>1, ThreadFacts DEF Nudged
  <2>3. CASE at' = at /\ accepted' = accepted \union {task}
    BY <2>1, <2>2, <2>3 DEF Offers
  <2>4. CASE /\ call'[c].element = task /\ Go(c, "execute") /\ accepted' = accepted
    <3>1. \A d \in Clients \ {c} : at'[d] = at[d]
      BY <2>1, <2>4, GoFacts, ThreadFacts
    <3> QED  BY <2>1, <2>2, <2>4, <3>1 DEF Offers
  <2> QED  BY <1>5, <2>3, <2>4, ExecuteDoes
<1>6. ASSUME NEW c \in Clients, ExecuteResumes(c) PROVE Offers'
  <2>1. /\ Nudged(c) /\ at[c] = "execute" /\ c \in Threads
    BY <1>6, ResumesDoes, ThreadFacts
  <2>2. \A d \in Clients \ {c} : call'[d] = call[d]
    BY <2>1, ThreadFacts DEF Nudged
  <2>3. CASE /\ Go(c, "idle")
             /\ accepted' \in {accepted, accepted \union {call[c].element}}
    <3>1. at'[c] = "idle" /\ \A d \in Clients \ {c} : at'[d] = at[d]
      BY <2>1, <2>3, GoFacts, ThreadFacts
    <3> QED  BY <2>1, <2>2, <2>3, <3>1 DEF Offers
  <2>4. CASE call' = call /\ UNCHANGED <<accepted, at>>
    BY <2>4, SameOffers
  <2> QED  BY <1>6, <2>3, <2>4, ResumesDoes
<1>7. ASSUME NEW t \in Threads, QueueEvent(t) PROVE Offers'
  BY <1>7, EventDoes, SameOffers DEF workVars
<1>8. CASE UNCHANGED vars
  BY <1>8, SameOffers DEF vars, queueVars, workVars
<1> QED  BY <1>1, <1>3, <1>4, <1>5, <1>6, <1>7, <1>8, NextIs DEF InQueueStep


-----------------------------------------------------------------------------
LEMMA InitIInv == Init => IInv
<1> SUFFICES ASSUME Init PROVE IInv
  OBVIOUS
<1>1. /\ \A w \in Workers : at[w] = "free"
      /\ \A t \in Threads \ Workers : at[t] = "idle"
      /\ \A t \in Threads : pc[t] = "idle"
      /\ queue_ = <<>>
  BY ThreadFacts DEF Init, tasks!Init
<1>2. Typed
  <2>1. at \in [Threads -> AllPlaces]
    BY DEF Init, AllPlaces, WorkerPlaces, ControllerPlaces
  <2>2. started_ \in 0 .. threads_ /\ stop_ \in BOOLEAN
    BY PoolAssumption DEF Init
  <2>3. /\ handles \subseteq Workers /\ joining \in [Controllers -> SUBSET Workers]
        /\ last \in [Controllers -> {"start", "stop", "wait"}]
        /\ held \in [Workers -> Tasks \union {NoTask}]
        /\ accepted = {} /\ executed = {} /\ dropped = {}
    BY DEF Init
  <2>4. /\ \A w \in Workers : at[w] \in WorkerPlaces
        /\ \A k \in Controllers : at[k] \in ControllerPlaces
        /\ \A c \in Clients : at[c] \in {"idle", "execute"}
    BY <1>1, ThreadFacts DEF WorkerPlaces, ControllerPlaces
  <2> QED  BY <2>1, <2>2, <2>3, <2>4 DEF Typed
<1>3. InWait /\ Offers
  BY <1>1, ThreadFacts DEF InWait, WorkerIn, ControllerIn, ClientIn, Offers
<1>4. InQueue = {} /\ InHand = {}
  BY <1>1 DEF InQueue, InHand, Init
<1>5. Hands
  BY <1>1, <1>4, ThreadFacts DEF Hands, Init, WithTask
<1> QED  BY <1>2, <1>3, <1>5 DEF IInv

LEMMA StepIInv == Exact /\ Exact' /\ IInv /\ [Next]_vars => IInv'
BY StepTyped, StepInWait, StepOffers, StepHands DEF IInv

(* The invariant holds in every reachable state, for any number of         *)
(* controllers that call start, stop and wait in any order, and whatever   *)
(* fails: where each thread is in the queue and who has which task.        *)
THEOREM Invariance == Spec => [](Exact /\ IInv)
<1>1. Spec => []Exact
  BY QueueOfThePool, PTL
<1> QED  BY <1>1, InitIInv, StepIInv, PTL DEF Spec

-----------------------------------------------------------------------------
(* The pool keeps the promise of TaskPool. *)
LEMMA PromiseFolded ==
  ASSUME NEW t
  PROVE  /\ Promise!Accept(t) <=>
              /\ t \notin accepted /\ accepted' = accepted \union {t}
              /\ InQueue' = InQueue \union {t} /\ stop_' = stop_
              /\ InHand' = InHand /\ executed' = executed /\ dropped' = dropped
         /\ Promise!Take(t) <=>
              /\ t \in InQueue /\ InQueue' = InQueue \ {t}
              /\ InHand' = InHand \union {t}
              /\ stop_' = stop_ /\ accepted' = accepted
              /\ executed' = executed /\ dropped' = dropped
         /\ Promise!Finish(t) <=>
              /\ t \in InHand /\ InHand' = InHand \ {t}
              /\ executed' = executed \union {t} /\ stop_' = stop_
              /\ accepted' = accepted /\ InQueue' = InQueue /\ dropped' = dropped
         /\ Promise!Drop(t) <=>
              /\ t \in InHand \ Required /\ stop_
              /\ InHand' = InHand \ {t} /\ dropped' = dropped \union {t}
              /\ stop_' = stop_ /\ accepted' = accepted
              /\ InQueue' = InQueue /\ executed' = executed
BY DEF Promise!Accept, Promise!Take, Promise!Finish, Promise!Drop, InQueue, InHand

(* A step that moves no task, and one that switches the pool at most. *)
LEMMA PromiseStutters ==
  ASSUME UNCHANGED <<queue_, held, stop_, accepted, executed, dropped>>
  PROVE  UNCHANGED Promise!vars
BY DEF Promise!vars, InQueue, InHand

LEMMA PromiseSwitches ==
  ASSUME UNCHANGED <<queue_, held, accepted, executed, dropped>>,
         stop_ \in BOOLEAN, stop_' \in BOOLEAN
  PROVE  [Promise!Next]_(Promise!vars)
<1>1. CASE stop_' = stop_
  BY <1>1, PromiseStutters
<1>2. CASE stop_' # stop_
  <2>1. Promise!Switch
    BY <1>2 DEF Promise!Switch, InQueue, InHand
  <2> QED  BY <2>1 DEF Promise!Next
<1> QED  BY <1>1, <1>2

LEMMA WorkImplements ==
  ASSUME Exact, IInv, Typed', Apart
  PROVE  [Promise!Next]_(Promise!vars)
<1> USE DEF queueVars, lifeVars, workVars
<1>1. Typed /\ Hands /\ stop_ \in BOOLEAN /\ stop_' \in BOOLEAN
  BY DEF IInv, Typed
<1>2. ASSUME NEW k \in Controllers,
             \/ ControllerCalls(k) \/ Start(k) \/ StartFails(k) \/ Stop(k) \/ Wait(k)
             \/ JoinOne(k) \/ JoinFails(k) \/ Joined(k)
      PROVE  [Promise!Next]_(Promise!vars)
  <2>1. UNCHANGED <<queue_, held, accepted, executed, dropped>>
    BY <1>2 DEF ControllerCalls, Start, StartFails, Stop, Wait, JoinOne, JoinFails,
                Joined
  <2> QED  BY <1>1, <2>1, PromiseSwitches
<1>3. ASSUME NEW w \in Workers,
             \/ ThreadBegins(w) \/ Decide(w) \/ ExecuteTask(w) \/ ThreadEnds(w)
             \/ CallbackThrows(w)
      PROVE  [Promise!Next]_(Promise!vars)
  <2>1. ASSUME NEW place, Go(w, place)
        PROVE  at'[w] = place /\ \A v \in Workers \ {w} : at'[v] = at[v]
    BY <1>1, <2>1, GoFacts, ThreadFacts
  <2>2. CASE ThreadBegins(w) \/ ThreadEnds(w)
    BY <2>2, PromiseStutters DEF ThreadBegins, ThreadEnds
  <2>3. CASE Decide(w) /\ UNCHANGED <<held, dropped>>
    BY <2>3, PromiseStutters DEF Decide
  <2>4. CASE /\ Decide(w) /\ Go(w, "loop") /\ dropped' = dropped \union {held[w]}
             /\ held[w] \notin Required /\ stop_
    <3>1. /\ at[w] \in WithTask /\ at'[w] \notin WithTask
          /\ \A v \in Workers \ {w} : at'[v] = at[v]
          /\ held' = [held EXCEPT ![w] = NoTask]
          /\ UNCHANGED <<queue_, accepted, executed, stop_>>
          /\ executed' \union dropped' = executed \union dropped \union {held[w]}
      BY <2>1, <2>4 DEF Decide, WithTask
    <3>2. /\ InQueue' = InQueue /\ InHand' = InHand \ {held[w]}
          /\ held[w] \in InHand /\ held[w] \in Tasks
      BY <1>1, <3>1, LetGo
    <3>3. PICK t \in Tasks : t = held[w]
      BY <3>2
    <3>4. Promise!Drop(t)
      BY <2>4, <3>1, <3>2, <3>3, PromiseFolded
    <3> QED  BY <3>4 DEF Promise!Next
  <2>5. CASE ExecuteTask(w) \/ CallbackThrows(w)
    <3>1. /\ at[w] \in WithTask /\ at'[w] \notin WithTask
          /\ \A v \in Workers \ {w} : at'[v] = at[v]
          /\ held' = [held EXCEPT ![w] = NoTask]
          /\ UNCHANGED <<queue_, accepted, dropped, stop_>>
          /\ executed' = executed \union {held[w]}
          /\ executed' \union dropped' = executed \union dropped \union {held[w]}
      BY <2>1, <2>5 DEF ExecuteTask, CallbackThrows, WithTask
    <3>2. /\ InQueue' = InQueue /\ InHand' = InHand \ {held[w]}
          /\ held[w] \in InHand /\ held[w] \in Tasks
      BY <1>1, <3>1, LetGo
    <3>3. PICK t \in Tasks : t = held[w]
      BY <3>2
    <3>4. Promise!Finish(t)
      BY <3>1, <3>2, <3>3, PromiseFolded
    <3> QED  BY <3>4 DEF Promise!Next
  <2> QED  BY <1>3, <2>2, <2>3, <2>4, <2>5 DEF Decide
<1> QED  BY <1>2, <1>3 DEF Apart

LEMMA QueueImplements ==
  ASSUME Exact, Exact', IInv, InQueueStep
  PROVE  [Promise!Next]_(Promise!vars)
<1> USE DEF lifeVars, workVars
<1>1. Typed /\ Hands /\ InWait /\ Offers
  BY DEF IInv
<1>2. ASSUME NEW k \in Controllers, StopMaxSize(k) \/ StopAwake(k) \/ WaitRestore(k)
      PROVE  [Promise!Next]_(Promise!vars)
  BY <1>1, <1>2, ControllerDoes, PromiseStutters
<1>3. ASSUME NEW w \in Workers, Dequeue(w) PROVE [Promise!Next]_(Promise!vars)
  <2>1. at[w] = "loop" /\ UNCHANGED <<accepted, executed, dropped, stop_>>
    BY <1>1, <1>3, DequeueDoes
  <2>2. CASE UNCHANGED <<queue_, held>>
    BY <2>1, <2>2, PromiseStutters
  <2>3. CASE /\ Len(queue_) # 0 /\ queue_' = Tail(queue_)
             /\ held' = [held EXCEPT ![w] = Head(queue_)] /\ Go(w, "got")
    <3>1. /\ Head(queue_) \in Tasks
          /\ Head(queue_) \in InQueue /\ InQueue' = InQueue \ {Head(queue_)}
          /\ InHand' = InHand \union {Head(queue_)}
      BY <1>1, <2>1, <2>3, Taken
    <3>2. PICK t \in Tasks : t = Head(queue_)
      BY <3>1
    <3>3. Promise!Take(t)
      BY <2>1, <3>1, <3>2, PromiseFolded
    <3> QED  BY <3>3 DEF Promise!Next
  <2> QED  BY <1>1, <1>3, <2>2, <2>3, DequeueDoes
<1>4. ASSUME NEW t \in Tasks, t \notin accepted,
             queue_' = Append(queue_, t), accepted' = accepted \union {t},
             UNCHANGED <<held, executed, dropped, stop_>>,
             \A w \in Workers : at'[w] = at[w]
      PROVE  [Promise!Next]_(Promise!vars)
  <2>1. InQueue' = InQueue \union {t} /\ InHand' = InHand
    BY <1>1, <1>4, Given
  <2>2. Promise!Accept(t)
    BY <1>4, <2>1, PromiseFolded
  <2> QED  BY <2>2 DEF Promise!Next
<1>5. ASSUME NEW c \in Clients, NEW task \in Tasks, NEW wait \in ExecuteWaits,
             Execute(c, task, wait)
      PROVE  [Promise!Next]_(Promise!vars)
  <2>1. \A w \in Workers : at'[w] = at[w]
    BY <1>1, <1>5, ExecuteDoes, GoFacts, ThreadFacts
  <2>2. UNCHANGED <<held, executed, dropped, stop_>> /\ task \notin accepted
    BY <1>5, ExecuteDoes DEF Execute
  <2>3. CASE queue_' = Append(queue_, task) /\ accepted' = accepted \union {task}
    BY <1>4, <2>1, <2>2, <2>3
  <2>4. CASE UNCHANGED <<queue_, accepted>>
    BY <2>2, <2>4, PromiseStutters
  <2> QED  BY <1>5, <2>3, <2>4, ExecuteDoes
<1>6. ASSUME NEW c \in Clients, ExecuteResumes(c) PROVE [Promise!Next]_(Promise!vars)
  <2>1. \A w \in Workers : at'[w] = at[w]
    BY <1>1, <1>6, ResumesDoes, GoFacts, ThreadFacts
  <2>2. /\ UNCHANGED <<held, executed, dropped, stop_>> /\ at[c] = "execute"
        /\ call[c] \in tasks!EnqueueCalls
    BY <1>1, <1>6, ResumesDoes
  <2>3. PICK t \in Tasks : t = call[c].element /\ t \notin accepted
    BY <1>1, <2>2 DEF tasks!EnqueueCalls, Offers
  <2>4. CASE queue_' = Append(queue_, t) /\ accepted' = accepted \union {t}
    BY <1>4, <2>1, <2>2, <2>3, <2>4
  <2>5. CASE UNCHANGED <<queue_, accepted>>
    BY <2>2, <2>5, PromiseStutters
  <2> QED  BY <1>1, <1>6, <2>3, <2>4, <2>5, ResumesDoes
<1>7. ASSUME NEW t \in Threads, QueueEvent(t) PROVE [Promise!Next]_(Promise!vars)
  BY <1>1, <1>7, EventDoes, PromiseStutters
<1> QED  BY <1>2, <1>3, <1>5, <1>6, <1>7 DEF InQueueStep

(* A pool of threads treats its tasks as a pool is to, whoever starts and  *)
(* stops it in whatever order, although threads, tasks and callbacks fail: *)
(* a task that was accepted is never lost between the queue and a worker,  *)
(* is taken once, and is dropped only by a stopped pool that need not run  *)
(* it (ThreadPool.cpp, run() and execute()).                               *)
THEOREM ThreadPoolImplementsTaskPool == Spec => ImplementsTaskPool
<1>1. Init => Promise!Init
  <2> SUFFICES ASSUME Init PROVE Promise!Init
    OBVIOUS
  <2>1. queue_ = <<>>
    BY DEF Init, tasks!Init
  <2> QED  BY <2>1 DEF Init, Promise!Init, InQueue, InHand
<1>2. Exact /\ Exact' /\ IInv /\ IInv' /\ [Next]_vars => [Promise!Next]_(Promise!vars)
  <2> SUFFICES ASSUME Exact, Exact', IInv, IInv', [Next]_vars
               PROVE  [Promise!Next]_(Promise!vars)
    OBVIOUS
  <2>1. CASE UNCHANGED vars
    BY <2>1, PromiseStutters DEF vars, queueVars, lifeVars, workVars
  <2> QED  BY <2>1, WorkImplements, QueueImplements, NextIs DEF IInv
<1> QED  BY <1>1, <1>2, Invariance, PTL DEF Spec, ImplementsTaskPool, Promise!Spec

(* What follows from the promise.                                          *)
LEMMA PromiseKeeps ==
  ASSUME Promise!NoneLost, [Promise!Next]_(Promise!vars)
  PROVE  Promise!NoneLost' /\ Promise!TakenOnce
<1> USE DEF Promise!NoneLost, Promise!TakenOnce
<1>1. CASE UNCHANGED Promise!vars
  BY <1>1 DEF Promise!vars
<1>2. ASSUME NEW t, Promise!Accept(t) PROVE Promise!NoneLost' /\ Promise!TakenOnce
  BY <1>2 DEF Promise!Accept
<1>3. ASSUME NEW t, Promise!Take(t) PROVE Promise!NoneLost' /\ Promise!TakenOnce
  BY <1>3 DEF Promise!Take
<1>4. ASSUME NEW t, Promise!Finish(t) PROVE Promise!NoneLost' /\ Promise!TakenOnce
  BY <1>4 DEF Promise!Finish
<1>5. ASSUME NEW t, Promise!Drop(t) PROVE Promise!NoneLost' /\ Promise!TakenOnce
  BY <1>5 DEF Promise!Drop
<1>6. CASE Promise!Switch
  BY <1>6 DEF Promise!Switch
<1> QED  BY <1>1, <1>2, <1>3, <1>4, <1>5, <1>6 DEF Promise!Next

(* A pool of threads loses no task, takes none twice, and drops none for   *)
(* which execution_required() is true, also when workers die of exceptions *)
(* and stop() overtakes them (ThreadPool::run).                            *)
THEOREM TasksAreKept ==
  Spec => []Promise!NoneLost /\ [][Promise!TakenOnce]_(Promise!vars)
<1>1. Promise!Init => Promise!NoneLost
  BY DEF Promise!Init, Promise!NoneLost
<1>2. Promise!Spec => []Promise!NoneLost /\ [][Promise!TakenOnce]_(Promise!vars)
  BY <1>1, PromiseKeeps, PTL DEF Promise!Spec
<1> QED  BY <1>2, ThreadPoolImplementsTaskPool DEF ImplementsTaskPool

-----------------------------------------------------------------------------
(* One controller calls start, stop and wait in turn, threads can be       *)
(* created and the callback does not throw.                                *)
InTurn ==
  /\ \E k : Controllers = {k}
  /\ ~AnyOrder
  /\ Faults \subseteq {"task"}

Gone == {"exit", "done", "free"}

(* The phases of such a pool: before start(), from start() to stop(), from *)
(* stop() to the end of wait().                                            *)
Resting(k) == at[k] = "start" \/ (at[k] = "idle" /\ last[k] = "wait")
Working(k) == at[k] \in {"stop", "stop_max"} \/ (at[k] = "idle" /\ last[k] = "start")
Stopping(k) ==
  at[k] \in {"stop_awake", "wait", "wait_join"} \/ (at[k] = "idle" /\ last[k] = "stop")

(* The life of a pool whose one controller starts, stops and waits in turn. *)
LifeOf(k) ==
  /\ started_ = Cardinality(Running)
  /\ at[k] = "start" => last[k] = "start"
  /\ at[k] \in {"stop", "stop_max", "stop_awake"} => last[k] = "stop"
  /\ at[k] \in {"wait", "wait_join", "wait_restore"} => last[k] = "wait"
  /\ at[k] # "start_join"
  /\ \A w \in Workers \ handles : at[w] = "free"
  /\ Resting(k) \/ at[k] = "wait_restore" => \A w \in Workers : at[w] = "free"
  /\ Working(k) \/ (Stopping(k) /\ at[k] # "wait_join")
       => \A w \in handles : at[w] # "free"
  /\ at[k] = "wait_join" =>
       /\ joining[k] \subseteq handles
       /\ \A w \in handles : at[w] = "free" <=> w \notin joining[k]

(* ... and in which no task fails. *)
KeptOf(k) ==
  /\ Resting(k) => max_size_ = queue_size_ /\ stop_
  /\ Working(k) =>
       /\ max_size_ = queue_size_ /\ (stop_ <=> at[k] = "stop_max")
       /\ handles # {} /\ \A w \in handles : at[w] \notin Gone
  /\ Stopping(k) \/ at[k] = "wait_restore" =>
       /\ max_size_ = 0 /\ stop_ /\ handles # {}
       /\ (\E w \in handles : at[w] \in Gone) => size_ = 0

Life == \A k \in Controllers : LifeOf(k)
Kept == \A k \in Controllers : KeptOf(k)

(* What started_ counts. *)
Alive == {"created", "loop", "got", "execute_task", "exit"}

LEMMA RunningCounted ==
  ASSUME Typed
  PROVE  /\ IsFiniteSet(Running) /\ Cardinality(Running) \in Nat
         /\ Cardinality(Running) = 0 <=> Running = {}
         /\ \A w \in Running : Cardinality(Running \ {w}) = Cardinality(Running) - 1
<1>1. IsFiniteSet(Workers)
  <2>1. Workers \subseteq Workers \union Controllers \union Clients
    OBVIOUS
  <2> QED  BY <2>1, PoolAssumption, FS_Subset
<1>2. IsFiniteSet(Running)
  <2>1. Running \subseteq Workers
    BY DEF Running, Typed
  <2> QED  BY <1>1, <2>1, FS_Subset
<1> QED  BY <1>2, FS_CardinalityType, FS_EmptySet, FS_RemoveElement

(* A step that leaves the workers alone, and one of a worker's own.        *)
LEMMA RunningKept ==
  ASSUME handles' = handles,
         \A w \in handles : at'[w] \in Alive <=> at[w] \in Alive
  PROVE  Running' = Running
BY DEF Running, Alive

LEMMA AllFree ==
  ASSUME Typed, NEW k \in Controllers, LifeOf(k), \A w \in handles : at[w] = "free"
  PROVE  Running = {} /\ started_ = 0 /\ \A w \in Workers : at[w] = "free"
<1>1. Running = {}
  BY DEF Running
<1> QED  BY <1>1, RunningCounted DEF LifeOf

LEMMA LifeOfWorker ==
  ASSUME Typed, NEW k \in Controllers, LifeOf(k), NEW w \in Workers,
         at[w] \in Alive, UNCHANGED <<handles, joining, last>>,
         \A t \in Threads \ {w} : at'[t] = at[t],
         \/ at'[w] \in Alive /\ started_' = started_
         \/ /\ at'[w] = "done"
            /\ started_' = IF started_ = 0 THEN 0 ELSE started_ - 1
  PROVE  LifeOf(k)'
<1> USE DEF Resting, Working, Stopping
<1>1. w \in handles /\ w \in Running /\ at[w] # "free" /\ at'[w] # "free"
  BY DEF LifeOf, Running, Alive
<1>2. at'[k] = at[k] /\ \A v \in Workers : at'[v] = "free" <=> at[v] = "free"
  BY <1>1, ThreadFacts
<1>3. started_' = Cardinality(Running')
  <2>1. CASE at'[w] \in Alive /\ started_' = started_
    <3>1. \A v \in handles : at'[v] \in Alive <=> at[v] \in Alive
      BY <2>1, ThreadFacts DEF Typed
    <3> QED  BY <2>1, <3>1, RunningKept DEF LifeOf
  <2>2. CASE at'[w] = "done" /\ started_' = IF started_ = 0 THEN 0 ELSE started_ - 1
    <3>1. Running' = Running \ {w}
      BY <1>1, <2>2, ThreadFacts DEF Running, Typed
    <3> QED  BY <1>1, <2>2, <3>1, RunningCounted DEF LifeOf
  <2> QED  BY <2>1, <2>2
<1>4. \A v \in handles : v \in Workers
  BY DEF Typed
<1> QED  BY <1>1, <1>2, <1>3, <1>4 DEF LifeOf

LEMMA LifeOfController ==
  ASSUME Typed, NEW k \in Controllers, LifeOf(k), NEW place, Go(k, place),
         UNCHANGED <<started_, handles>>
  PROVE  /\ at'[k] = place
         /\ \A w \in Workers : at'[w] = at[w]
         /\ started_' = Cardinality(Running')
<1>1. at'[k] = place /\ \A w \in Workers : at'[w] = at[w]
  BY GoFacts, ThreadFacts
<1>2. Running' = Running
  BY <1>1, RunningKept DEF Typed
<1> QED  BY <1>1, <1>2 DEF LifeOf


LEMMA ControllerLife ==
  ASSUME InTurn, Typed, Typed', NEW k \in Controllers, LifeOf(k),
         \/ ControllerCalls(k) \/ Start(k) \/ StartFails(k) \/ Stop(k) \/ Wait(k)
         \/ JoinOne(k) \/ JoinFails(k) \/ Joined(k)
  PROVE  LifeOf(k)'
<1> USE DEF lifeVars, Resting, Working, Stopping
<1>0. \A w \in handles : w \in Workers
  BY DEF Typed
<1>1. CASE ControllerCalls(k)
  <2>1. PICK op \in MayCall(k) :
          at[k] = "idle" /\ Go(k, op) /\ last' = [last EXCEPT ![k] = op]
    BY <1>1 DEF ControllerCalls
  <2>2. UNCHANGED <<started_, handles, joining>> /\ last'[k] = op
    BY <1>1, <2>1 DEF ControllerCalls, Typed
  <2>3. \/ last[k] = "start" /\ op = "stop"
        \/ last[k] = "stop" /\ op = "wait"
        \/ last[k] = "wait" /\ op = "start"
    BY <2>1 DEF MayCall, InTurn, Typed
  <2> QED  BY <1>0, <2>1, <2>2, <2>3, LifeOfController DEF LifeOf
<1>2. CASE Start(k)
  <2>1. at[k] = "start" /\ last[k] = "start" /\ started_ = 0
    BY <1>0, <1>2, AllFree DEF Start, LifeOf
  <2>2. PICK S \in SUBSET FreeSlots :
          /\ Cardinality(S) = threads_
          /\ at' = [t \in Threads |-> IF t \in S THEN "created"
                                      ELSE IF t = k THEN "idle" ELSE at[t]]
          /\ handles' = S
    BY <1>2, <2>1 DEF Start
  <2>3. started_' = threads_ /\ UNCHANGED <<joining, last>>
    BY <1>2, <2>1 DEF Start
  <2>4. \A w \in S : w \in Workers
    BY DEF FreeSlots
  <2>5. \A w \in Workers : at[w] = "free"
    BY <2>1 DEF LifeOf
  <2>6. /\ at'[k] = "idle" /\ \A w \in S : at'[w] = "created"
        /\ \A w \in Workers \ S : at'[w] = "free"
    BY <2>2, <2>4, <2>5, ThreadFacts
  <2>7. Running' = S
    BY <2>2, <2>6 DEF Running
  <2> QED  BY <2>1, <2>2, <2>3, <2>4, <2>6, <2>7 DEF LifeOf
<1>3. CASE StartFails(k)
  BY <1>3 DEF StartFails, InTurn
<1>4. CASE Stop(k)
  <2>1. at[k] = "stop" /\ Go(k, "stop_max") /\ UNCHANGED <<started_, handles, joining, last>>
    BY <1>4 DEF Stop
  <2> QED  BY <1>0, <2>1, LifeOfController DEF LifeOf
<1>5. CASE Wait(k)
  <2>1. at[k] = "wait" /\ UNCHANGED <<started_, handles, last>> /\ joining'[k] = handles
    BY <1>5 DEF Wait, Typed
  <2>2. CASE handles = {} /\ Go(k, "wait_restore")
    BY <2>1, <2>2, LifeOfController DEF LifeOf
  <2>3. CASE Go(k, "wait_join")
    BY <1>0, <2>1, <2>3, LifeOfController DEF LifeOf
  <2> QED  BY <1>5, <2>2, <2>3 DEF Wait
<1>6. CASE JoinOne(k)
  <2>1. PICK w \in joining[k] :
          /\ at[w] = "done" /\ at' = [at EXCEPT ![w] = "free"]
          /\ joining' = [joining EXCEPT ![k] = @ \ {w}]
    BY <1>6 DEF JoinOne
  <2>2. /\ at[k] = "wait_join" /\ UNCHANGED <<started_, handles, last>>
        /\ joining'[k] = joining[k] \ {w} /\ w \in handles /\ w \in Workers
    BY <1>6, <2>1 DEF JoinOne, LifeOf, Typed
  <2>3. Go(w, "free")
    BY <2>1 DEF Go
  <2>4. /\ at'[w] = "free" /\ at'[k] = at[k]
        /\ \A v \in Workers \ {w} : at'[v] = at[v]
    BY <2>2, <2>3, GoFacts, ThreadFacts
  <2>5. Running' = Running
    BY <1>0, <2>1, <2>2, <2>4 DEF Running
  <2> QED  BY <1>0, <2>1, <2>2, <2>4, <2>5 DEF LifeOf
<1>7. CASE JoinFails(k)
  BY <1>7 DEF JoinFails, LifeOf
<1>8. CASE Joined(k)
  <2>1. at[k] = "wait_join" /\ joining[k] = {} /\ UNCHANGED <<started_, handles, joining, last>>
    BY <1>8 DEF Joined, LifeOf
  <2>2. started_ = 0 /\ \A w \in Workers : at[w] = "free"
    BY <2>1, AllFree DEF LifeOf
  <2>3. Go(k, "wait_restore")
    BY <1>8, <2>1, <2>2 DEF Joined
  <2> QED  BY <2>1, <2>2, <2>3, LifeOfController DEF LifeOf
<1> QED  BY <1>1, <1>2, <1>3, <1>4, <1>5, <1>6, <1>7, <1>8

LEMMA WorkerLife ==
  ASSUME InTurn, Typed, NEW k \in Controllers, LifeOf(k), NEW w \in Workers,
         \/ ThreadBegins(w) \/ Decide(w) \/ ExecuteTask(w) \/ ThreadEnds(w)
         \/ CallbackThrows(w)
  PROVE  LifeOf(k)'
<1> USE DEF lifeVars, Alive
<1>1. w \in Threads
  BY ThreadFacts
<1>2. ASSUME at[w] \in Alive PROVE started_ # 0
  <2>1. w \in Running
    BY <1>2 DEF LifeOf, Running
  <2> QED  BY <2>1, RunningCounted DEF LifeOf
<1>3. CASE ThreadBegins(w)
  <2>1. Go(w, "loop") /\ at[w] \in Alive /\ UNCHANGED <<started_, handles, joining, last>>
    BY <1>2, <1>3 DEF ThreadBegins
  <2> QED  BY <1>1, <2>1, GoFacts, LifeOfWorker
<1>4. CASE Decide(w) \/ ExecuteTask(w)
  <2>1. PICK place \in Alive : Go(w, place)
    BY <1>4 DEF Decide, ExecuteTask
  <2>2. at[w] \in Alive /\ UNCHANGED <<started_, handles, joining, last>>
    BY <1>4 DEF Decide, ExecuteTask
  <2> QED  BY <1>1, <2>1, <2>2, GoFacts, LifeOfWorker
<1>5. CASE ThreadEnds(w)
  <2>1. /\ Go(w, "done") /\ at[w] \in Alive /\ UNCHANGED <<handles, joining, last>>
        /\ started_' = IF started_ = 0 THEN 0 ELSE started_ - 1
    BY <1>5 DEF ThreadEnds
  <2> QED  BY <1>1, <2>1, GoFacts, LifeOfWorker
<1>6. CASE CallbackThrows(w)
  BY <1>6 DEF CallbackThrows, InTurn
<1> QED  BY <1>3, <1>4, <1>5, <1>6


(* What the steps in the queue do to places and to the service's state:    *)
(* StopMaxSize, StopAwake and WaitRestore move the controller on, Dequeue  *)
(* moves a worker on, and the others move neither.                         *)
LEMMA QueueStepLife ==
  ASSUME Exact, InWait, Typed, NEW k \in Controllers, Controllers = {k}, LifeOf(k),
         InQueueStep
  PROVE  LifeOf(k)'
<1> USE DEF lifeVars
<1>0. \A w \in handles : w \in Workers
  BY DEF Typed
<1>1. CASE StopMaxSize(k) \/ StopAwake(k) \/ WaitRestore(k)
  <2> USE DEF Resting, Working, Stopping
  <2>1. UNCHANGED <<started_, handles, joining, last>>
    BY <1>1, ControllerDoes
  <2>2. CASE at[k] = "stop_max" /\ Go(k, "stop_awake")
    BY <1>0, <2>1, <2>2, LifeOfController DEF LifeOf
  <2>3. CASE at[k] = "stop_awake" /\ Go(k, "stop_awake")
    BY <1>0, <2>1, <2>3, LifeOfController DEF LifeOf
  <2>4. CASE at[k] = "stop_awake" /\ Go(k, "idle")
    BY <1>0, <2>1, <2>4, LifeOfController DEF LifeOf
  <2>5. CASE at[k] = "wait_restore" /\ Go(k, "idle")
    BY <1>0, <2>1, <2>5, LifeOfController DEF LifeOf
  <2> QED  BY <1>1, <2>2, <2>3, <2>4, <2>5, ControllerDoes DEF Awaking
<1>2. ASSUME UNCHANGED lifeVars, \A t \in Workers \union Controllers : at'[t] = at[t]
      PROVE  LifeOf(k)'
  <2>1. Running' = Running
    BY <1>0, <1>2, RunningKept
  <2> QED  BY <1>0, <1>2, <2>1 DEF LifeOf, Resting, Working, Stopping
<1>3. ASSUME NEW w \in Workers, Dequeue(w) PROVE LifeOf(k)'
  <2>1. UNCHANGED lifeVars /\ at[w] = "loop" /\ w \in Threads
    BY <1>3, DequeueDoes, ThreadFacts
  <2>2. CASE UNCHANGED at
    BY <1>2, <2>1, <2>2
  <2>3. ASSUME NEW place \in {"got", "exit"}, Go(w, place)
        PROVE  LifeOf(k)'
    BY <2>1, <2>3, GoFacts, LifeOfWorker DEF Alive
  <2> QED  BY <1>3, <2>2, <2>3, DequeueDoes
<1>4. ASSUME NEW c \in Clients,
             \/ \E task \in Tasks, wait \in ExecuteWaits : Execute(c, task, wait)
             \/ ExecuteResumes(c)
      PROVE  LifeOf(k)'
  <2>1. UNCHANGED lifeVars /\ (at' = at \/ \E place : Go(c, place))
    BY <1>4, ExecuteDoes, ResumesDoes
  <2>2. \A t \in Workers \union Controllers : at'[t] = at[t]
    BY <2>1, GoFacts, ThreadFacts
  <2> QED  BY <1>2, <2>1, <2>2
<1>5. ASSUME NEW t \in Threads, QueueEvent(t) PROVE LifeOf(k)'
  BY <1>2, <1>5, EventDoes
<1> QED  BY <1>1, <1>3, <1>4, <1>5 DEF InQueueStep

LEMMA InitLife == InTurn /\ Init => Life
<1> SUFFICES ASSUME Init, NEW k \in Controllers PROVE LifeOf(k)
  BY DEF Life
<1>1. /\ \A w \in Workers : at[w] = "free"
      /\ at[k] = "idle" /\ last[k] = "wait" /\ handles = {} /\ started_ = 0
  BY ThreadFacts DEF Init
<1>2. Running = {}
  BY <1>1 DEF Running
<1> QED  BY <1>1, <1>2, FS_EmptySet DEF LifeOf, Resting, Working, Stopping

LEMMA StepLife == InTurn /\ Exact /\ IInv /\ IInv' /\ Life /\ [Next]_vars => Life'
<1> SUFFICES ASSUME InTurn, Exact, IInv, IInv', Life, [Next]_vars PROVE Life'
  OBVIOUS
<1>1. PICK k \in Controllers : Controllers = {k}
  BY DEF InTurn
<1>2. Typed /\ Typed' /\ InWait /\ LifeOf(k)
  BY DEF IInv, Life
<1>3. CASE Apart
  BY <1>1, <1>2, <1>3, ControllerLife, WorkerLife DEF Apart, Life
<1>4. CASE InQueueStep
  BY <1>1, <1>2, <1>4, QueueStepLife DEF Life
<1>5. CASE UNCHANGED vars
  <2>1. LifeOf(k)'
    BY <1>2, <1>5 DEF LifeOf, Running, Resting, Working, Stopping, vars, lifeVars
  <2> QED  BY <1>1, <2>1 DEF Life
<1> QED  BY <1>3, <1>4, <1>5, NextIs

(* While one controller calls start, stop and wait in turn, threads can be *)
(* created and callbacks do not throw, started_ counts the threads that    *)
(* run, for any number of threads and also when tasks throw: start()       *)
(* creates threads, wait() finds zero when it has joined them, and no      *)
(* thread that ends finds it zero (ServiceBase.cpp, wait() and             *)
(* exec_thread_func).                                                      *)
THEOREM StartedCountsThreads == ASSUME InTurn PROVE Spec => []StartedExact
<1>1. Exact /\ IInv /\ Life => StartedExact
  <2> SUFFICES ASSUME Exact, IInv, Life PROVE StartedExact
    OBVIOUS
  <2>1. TypeOK
    BY DEF TypeOK, Exact, IInv, Typed
  <2>2. PICK k \in Controllers : Controllers = {k} /\ LifeOf(k)
    BY DEF InTurn, Life
  <2>3. at[k] = "wait_join" /\ joining[k] = {} => started_ = 0
    BY <2>2, AllFree DEF LifeOf, IInv
  <2>4. \A w \in Workers : at[w] = "exit" => started_ # 0
    <3> SUFFICES ASSUME NEW w \in Workers, at[w] = "exit" PROVE started_ # 0
      OBVIOUS
    <3>1. w \in Running
      BY <2>2 DEF LifeOf, Running
    <3> QED  BY <2>2, <3>1, RunningCounted DEF LifeOf, IInv
  <2> QED  BY <2>1, <2>2, <2>3, <2>4 DEF StartedExact, LifeOf
<1> QED  BY <1>1, InTurn, InitLife, StepLife, Invariance, PTL DEF Spec


-----------------------------------------------------------------------------
(* The pool whose tasks do not fail either. *)
Reliable == InTurn /\ Faults = {}

(* Whoever awakes the waiting threads is stopping the pool. *)
LEMMA NobodyAwakes ==
  ASSUME Exact, InWait, NEW k \in Controllers, Controllers = {k}, at[k] # "stop_awake"
  PROVE  awaking_ = 0
<1>1. tasks!Awakers = {}
  <2> SUFFICES ASSUME NEW t \in tasks!Awakers PROVE FALSE
    OBVIOUS
  <2>1. t \in Threads /\ pc[t] \in {"awake_signal", "awake_check"}
    BY DEF tasks!Awakers
  <2> QED  BY <2>1 DEF Threads, InWait, WorkerIn, ControllerIn, ClientIn
<1>2. awaking_ = Cardinality({})
  BY <1>1 DEF Exact, tasks!CountersExact, tasks!Cardinality, Cardinality
<1> QED  BY <1>2, FS_EmptySet

LEMMA SomebodyRuns ==
  ASSUME Typed, NEW k \in Controllers, LifeOf(k), KeptOf(k), Working(k)
  PROVE  started_ # 0
<1>1. PICK w \in handles : at[w] \notin Gone
  BY DEF KeptOf
<1>2. w \in Running
  BY <1>1 DEF Running, Typed, WorkerPlaces, Gone
<1> QED  BY <1>2, RunningCounted DEF LifeOf

LEMMA ControllerKept ==
  ASSUME Reliable, Typed, NEW k \in Controllers, LifeOf(k), KeptOf(k),
         \/ ControllerCalls(k) \/ Start(k) \/ StartFails(k) \/ Stop(k) \/ Wait(k)
         \/ JoinOne(k) \/ JoinFails(k) \/ Joined(k)
  PROVE  KeptOf(k)'
<1> USE DEF lifeVars, queueVars, Resting, Working, Stopping
<1>0. \A w \in handles : w \in Workers
  BY DEF Typed
<1>1. CASE ControllerCalls(k)
  <2>1. PICK op \in MayCall(k) :
          at[k] = "idle" /\ Go(k, op) /\ last' = [last EXCEPT ![k] = op]
    BY <1>1 DEF ControllerCalls
  <2>2. UNCHANGED <<queueVars, started_, stop_, handles>> /\ last'[k] = op
    BY <1>1, <2>1 DEF ControllerCalls, Typed
  <2>3. \/ last[k] = "start" /\ op = "stop"
        \/ last[k] = "stop" /\ op = "wait"
        \/ last[k] = "wait" /\ op = "start"
    BY <2>1 DEF MayCall, Reliable, InTurn, Typed
  <2> QED  BY <1>0, <2>1, <2>2, <2>3, LifeOfController DEF KeptOf
<1>2. CASE Start(k)
  <2>1. at[k] = "start" /\ last[k] = "start" /\ started_ = 0
    BY <1>0, <1>2, AllFree DEF Start, LifeOf
  <2>2. PICK S \in SUBSET FreeSlots :
          /\ Cardinality(S) = threads_
          /\ at' = [t \in Threads |-> IF t \in S THEN "created"
                                      ELSE IF t = k THEN "idle" ELSE at[t]]
          /\ handles' = S
    BY <1>2, <2>1 DEF Start
  <2>3. stop_' = FALSE /\ UNCHANGED <<queueVars, last>> /\ max_size_ = queue_size_
    BY <1>2, <2>1 DEF Start, KeptOf
  <2>4. S # {}
    BY <2>2, FS_EmptySet, PoolAssumption
  <2>5. at'[k] = "idle" /\ \A w \in S : at'[w] = "created"
    BY <2>2, ThreadFacts DEF FreeSlots
  <2> QED  BY <2>1, <2>2, <2>3, <2>4, <2>5 DEF KeptOf, Gone
<1>3. CASE StartFails(k)
  BY <1>3 DEF StartFails, Reliable
<1>4. CASE Stop(k)
  <2>1. /\ at[k] = "stop" /\ Go(k, "stop_max")
        /\ UNCHANGED <<queueVars, started_, handles, last>>
        /\ stop_' = (stop_ \/ started_ # 0)
    BY <1>4 DEF Stop
  <2>2. stop_'
    BY <2>1, SomebodyRuns
  <2> QED  BY <1>0, <2>1, <2>2, LifeOfController DEF KeptOf
<1>5. CASE Wait(k)
  <2>1. at[k] = "wait" /\ UNCHANGED <<queueVars, started_, stop_, handles, last>>
    BY <1>5 DEF Wait
  <2>2. CASE handles = {} /\ Go(k, "wait_restore")
    BY <2>1, <2>2 DEF KeptOf
  <2>3. CASE Go(k, "wait_join")
    BY <1>0, <2>1, <2>3, LifeOfController DEF KeptOf
  <2> QED  BY <1>5, <2>2, <2>3 DEF Wait
<1>6. CASE JoinOne(k)
  <2>1. PICK w \in joining[k] : at[w] = "done" /\ at' = [at EXCEPT ![w] = "free"]
    BY <1>6 DEF JoinOne
  <2>2. /\ at[k] = "wait_join" /\ UNCHANGED <<queueVars, stop_, handles, last>>
        /\ w \in handles /\ w \in Workers
    BY <1>6, <2>1 DEF JoinOne, LifeOf, Typed
  <2>3. Go(w, "free")
    BY <2>1 DEF Go
  <2>4. /\ at'[w] = "free" /\ at'[k] = at[k]
        /\ \A v \in Workers \ {w} : at'[v] = at[v]
    BY <2>2, <2>3, GoFacts, ThreadFacts
  <2> QED  BY <1>0, <2>1, <2>2, <2>4 DEF KeptOf, Gone
<1>7. CASE JoinFails(k)
  BY <1>7 DEF JoinFails, LifeOf
<1>8. CASE Joined(k)
  <2>1. /\ at[k] = "wait_join" /\ joining[k] = {}
        /\ UNCHANGED <<queueVars, started_, stop_, handles, last>>
    BY <1>8 DEF Joined, LifeOf
  <2>2. started_ = 0
    BY <2>1, AllFree DEF LifeOf
  <2>3. Go(k, "wait_restore")
    BY <1>8, <2>1, <2>2 DEF Joined
  <2> QED  BY <1>0, <2>1, <2>2, <2>3, LifeOfController DEF KeptOf
<1> QED  BY <1>1, <1>2, <1>3, <1>4, <1>5, <1>6, <1>7, <1>8


(* A worker leaves run() only when the queue is closed and empty. *)
LEMMA WorkerKept ==
  ASSUME Typed, NEW k \in Controllers, KeptOf(k), NEW w \in Workers,
         UNCHANGED <<stop_, handles, last, max_size_>>,
         \A t \in Threads \ {w} : at'[t] = at[t],
         \/ at[w] \notin Gone /\ at'[w] \notin Gone
         \/ at[w] \in Gone /\ at'[w] \in Gone
         \/ at'[w] \in Gone /\ Stopping(k) /\ size_ = 0,
         size_ = 0 => size_' = 0
  PROVE  KeptOf(k)'
<1>0. \A v \in handles : v \in Workers
  BY DEF Typed
<1>1. at'[k] = at[k] /\ \A v \in Workers \ {w} : at'[v] = at[v]
  BY ThreadFacts
<1>2. (Resting(k)' <=> Resting(k)) /\ (Working(k)' <=> Working(k)) /\ (Stopping(k)' <=> Stopping(k))
  BY <1>1 DEF Resting, Working, Stopping
<1>3. ~(Stopping(k) /\ Working(k)) /\ ~(Stopping(k) /\ Resting(k))
  BY DEF Resting, Working, Stopping
<1>4. Working(k) => \A v \in handles : at'[v] \notin Gone
  BY <1>0, <1>1, <1>3 DEF KeptOf
<1>5. Stopping(k) \/ at[k] = "wait_restore"
        => ((\E v \in handles : at'[v] \in Gone) => size_' = 0)
  BY <1>0, <1>1 DEF KeptOf
<1> QED  BY <1>1, <1>2, <1>4, <1>5 DEF KeptOf

LEMMA ApartWorkerKept ==
  ASSUME Reliable, Typed, NEW k \in Controllers, Controllers = {k}, LifeOf(k), KeptOf(k),
         NEW w \in Workers,
         \/ ThreadBegins(w) \/ Decide(w) \/ ExecuteTask(w) \/ ThreadEnds(w)
         \/ CallbackThrows(w)
  PROVE  KeptOf(k)'
<1> USE DEF lifeVars, queueVars, Gone
<1>1. w \in Threads
  BY ThreadFacts
<1>2. CASE ThreadBegins(w)
  <2>1. w \in Running /\ UNCHANGED <<queueVars, lifeVars>> /\ at[w] = "created"
    BY <1>2 DEF ThreadBegins, LifeOf, Running
  <2>2. Go(w, "loop")
    BY <1>2, <2>1, RunningCounted DEF ThreadBegins, LifeOf
  <2> QED  BY <1>1, <2>1, <2>2, GoFacts, WorkerKept
<1>3. CASE Decide(w) \/ ExecuteTask(w)
  <2>1. PICK place \in {"execute_task", "loop"} : Go(w, place)
    BY <1>3 DEF Decide, ExecuteTask, Reliable
  <2>2. at[w] \in {"got", "execute_task"} /\ UNCHANGED <<queueVars, lifeVars>>
    BY <1>3 DEF Decide, ExecuteTask
  <2> QED  BY <1>1, <2>1, <2>2, GoFacts, WorkerKept
<1>4. CASE ThreadEnds(w)
  <2>1. Go(w, "done") /\ at[w] = "exit" /\ UNCHANGED <<queueVars, stop_, handles, last>>
    BY <1>4 DEF ThreadEnds
  <2> QED  BY <1>1, <2>1, GoFacts, WorkerKept
<1>5. CASE CallbackThrows(w)
  BY <1>5 DEF CallbackThrows, Reliable
<1> QED  BY <1>2, <1>3, <1>4, <1>5

LEMMA QueueStepKept ==
  ASSUME Reliable, Exact, Exact', InWait, Typed, NEW k \in Controllers, Controllers = {k},
         LifeOf(k), KeptOf(k), InQueueStep
  PROVE  KeptOf(k)'
<1> USE DEF lifeVars
<1>0. /\ \A w \in handles : w \in Workers
      /\ size_ = Len(queue_) /\ size_ \in Nat /\ size_' = Len(queue_') /\ queue_ \in Seq(Tasks)
  BY DEF Typed, Exact, tasks!TypeOK, tasks!CountersExact
<1>1. CASE StopMaxSize(k) \/ StopAwake(k) \/ WaitRestore(k)
  <2> USE DEF Resting, Working, Stopping
  <2>1. UNCHANGED <<size_, started_, stop_, handles, joining, last>>
    BY <1>1, ControllerDoes
  <2>2. CASE at[k] = "stop_max" /\ Go(k, "stop_awake") /\ max_size_' = 0
    BY <1>0, <2>1, <2>2, LifeOfController DEF KeptOf, LifeOf
  <2>3. CASE at[k] = "stop_awake" /\ Go(k, "stop_awake") /\ max_size_' = max_size_
    BY <1>0, <2>1, <2>3, LifeOfController DEF KeptOf, LifeOf
  <2>4. CASE at[k] = "stop_awake" /\ Go(k, "idle") /\ max_size_' = max_size_
    BY <1>0, <2>1, <2>4, LifeOfController DEF KeptOf, LifeOf
  <2>5. CASE at[k] = "wait_restore" /\ Go(k, "idle") /\ max_size_' = queue_size_
    BY <1>0, <2>1, <2>5, LifeOfController DEF KeptOf, LifeOf
  <2> QED  BY <1>1, <2>2, <2>3, <2>4, <2>5, ControllerDoes DEF Awaking
<1>2. ASSUME UNCHANGED <<lifeVars, max_size_>>, size_ = 0 /\ max_size_ = 0 => size_' = 0,
             \A t \in Workers \union Controllers : at'[t] = at[t]
      PROVE  KeptOf(k)'
  BY <1>0, <1>2 DEF KeptOf, Resting, Working, Stopping
<1>3. ASSUME NEW w \in Workers, Dequeue(w) PROVE KeptOf(k)'
  <2>1. /\ UNCHANGED <<lifeVars, max_size_>> /\ at[w] = "loop" /\ w \in Threads
        /\ w \in handles
    BY <1>3, DequeueDoes, ThreadFacts DEF LifeOf
  <2>2. CASE UNCHANGED <<queue_, size_, at>>
    BY <1>2, <2>1, <2>2
  <2>3. CASE Len(queue_) # 0 /\ size_' = size_ - 1 /\ Go(w, "got")
    BY <1>0, <2>1, <2>3, GoFacts, WorkerKept DEF Gone
  <2>4. CASE size_ = 0 /\ (max_size_ = 0 \/ awaking_ > 0) /\ UNCHANGED size_ /\ Go(w, "exit")
    <3>1. Stopping(k)
      <4>1. at[k] = "stop_awake" \/ max_size_ = 0
        BY <2>4, NobodyAwakes
      <4>2. (~Working(k) /\ ~Resting(k)) \/ at[k] = "stop_awake"
        BY <4>1, PoolAssumption DEF KeptOf
      <4>3. at[k] # "wait_restore"
        BY <2>1 DEF LifeOf
      <4>4. at[k] \in ControllerPlaces /\ last[k] \in {"start", "stop", "wait"}
        BY DEF Typed
      <4> QED  BY <4>2, <4>3, <4>4
               DEF Resting, Working, Stopping, ControllerPlaces, LifeOf
    <3> QED  BY <2>1, <2>4, <3>1, GoFacts, WorkerKept DEF Gone
  <2> QED  BY <1>3, <2>2, <2>3, <2>4, DequeueDoes
<1>4. ASSUME NEW c \in Clients,
             \/ \E task \in Tasks, wait \in ExecuteWaits : Execute(c, task, wait)
             \/ ExecuteResumes(c)
      PROVE  KeptOf(k)'
  <2>1. UNCHANGED <<lifeVars, max_size_>> /\ (at' = at \/ \E place : Go(c, place))
    BY <1>4, ExecuteDoes, ResumesDoes
  <2>2. \A t \in Workers \union Controllers : at'[t] = at[t]
    BY <2>1, GoFacts, ThreadFacts
  <2>3. size_ < max_size_ \/ queue_' = queue_
    BY <1>4, ExecuteDoes, ResumesDoes
  <2>4. ASSUME size_ = 0, max_size_ = 0 PROVE size_' = 0
    <3>1. queue_' = queue_
      BY <2>3, <2>4
    <3>2. Len(queue_') = Len(queue_)
      BY <3>1
    <3> QED  BY <1>0, <2>4, <3>2
  <2> QED  BY <1>2, <2>1, <2>2, <2>4
<1>5. ASSUME NEW t \in Threads, QueueEvent(t) PROVE KeptOf(k)'
  BY <1>2, <1>5, EventDoes
<1> QED  BY <1>1, <1>3, <1>4, <1>5 DEF InQueueStep

LEMMA StepKept ==
  Reliable /\ Exact /\ Exact' /\ IInv /\ IInv' /\ Life /\ Kept /\ [Next]_vars => Kept'
<1> SUFFICES ASSUME Reliable, Exact, Exact', IInv, IInv', Life, Kept, [Next]_vars
             PROVE  Kept'
  OBVIOUS
<1>1. PICK k \in Controllers : Controllers = {k}
  BY DEF Reliable, InTurn
<1>2. Typed /\ Typed' /\ InWait /\ LifeOf(k) /\ KeptOf(k)
  BY DEF IInv, Life, Kept
<1>3. CASE Apart
  BY <1>1, <1>2, <1>3, ControllerKept, ApartWorkerKept DEF Apart, Kept
<1>4. CASE InQueueStep
  BY <1>1, <1>2, <1>4, QueueStepKept DEF Kept
<1>5. CASE UNCHANGED vars
  <2>1. KeptOf(k)'
    BY <1>2, <1>5
       DEF KeptOf, Resting, Working, Stopping, vars, lifeVars, queueVars
  <2> QED  BY <1>1, <2>1 DEF Kept
<1> QED  BY <1>3, <1>4, <1>5, NextIs

(* Such a pool, if its tasks do not throw, is fit for use whenever it has  *)
(* been started and not stopped: its queue is open and none of its threads *)
(* has left; and nothing that it had accepted before stop() is left when   *)
(* wait() opens the queue again (ThreadPool.cpp, stop() and wait()).       *)
THEOREM PoolStaysFit == ASSUME Reliable PROVE Spec => []FitForUse
<1>1. Init => Kept
  BY PoolAssumption, ThreadFacts
     DEF Init, tasks!Init, Kept, KeptOf, Resting, Working, Stopping
<1>2. Exact /\ IInv /\ Life /\ Kept => FitForUse
  <2> SUFFICES ASSUME Exact, IInv, Life, Kept PROVE FitForUse
    OBVIOUS
  <2>1. PICK k \in Controllers : Controllers = {k} /\ LifeOf(k) /\ KeptOf(k)
    BY DEF Reliable, InTurn, Life, Kept
  <2>2. Typed /\ Hands /\ Len(queue_) = size_ /\ queue_ \in Seq(Tasks)
    BY DEF IInv, Exact, tasks!TypeOK, tasks!CountersExact
  <2>3. Resting(k) \/ Working(k) \/ Stopping(k) \/ at[k] = "wait_restore"
    <3>1. at[k] \in ControllerPlaces /\ last[k] \in {"start", "stop", "wait"}
      BY <2>2 DEF Typed
    <3> QED  BY <2>1, <3>1 DEF Resting, Working, Stopping, ControllerPlaces, LifeOf
  <2>4. ASSUME started_ # 0, ~stop_
        PROVE  /\ max_size_ = queue_size_
               /\ \A w \in handles : at[w] \in {"created", "loop", "got", "execute_task"}
    <3>1. Working(k)
      BY <2>1, <2>3, <2>4 DEF KeptOf
    <3>2. max_size_ = queue_size_ /\ \A w \in handles : at[w] \notin Gone
      BY <2>1, <3>1 DEF KeptOf
    <3> QED  BY <2>2, <3>2 DEF Gone, Typed, WorkerPlaces
  <2>5. ASSUME at[k] = "wait_restore" PROVE queue_ = <<>> /\ InHand = {}
    <3>1. handles # {} /\ \A w \in Workers : at[w] = "free"
      BY <2>1, <2>5 DEF KeptOf, LifeOf
    <3>2. size_ = 0
      BY <2>1, <2>2, <2>5, <3>1 DEF KeptOf, Gone, Typed
    <3>3. \A w \in Workers : held[w] = NoTask
      BY <2>2, <3>1 DEF Hands, WithTask
    <3> QED  BY <2>2, <3>2, <3>3 DEF InHand
  <2> QED  BY <2>1, <2>4, <2>5 DEF FitForUse
<1> QED  BY <1>1, <1>2, Reliable, InitLife, StepLife, StepKept, Invariance, PTL
         DEF Spec, Reliable

-----------------------------------------------------------------------------
(* Any number of controllers that call start, stop and wait in any order,  *)
(* while tasks and callbacks may throw: only pthread_create does not fail. *)
Creatable == "create" \notin Faults

(* Every thread in run() was made by the last start(), and started_ counts *)
(* them all; it counts too many only by threads whose callback has thrown. *)
CountsAll ==
  /\ \A w \in Workers : at[w] \in Alive => w \in handles
  /\ Cardinality(Running) <= started_
  /\ {"task", "callback"} \subseteq Faults \/ Cardinality(Running) = started_

(* started_ is never too low: a thread that ends does not find it zero.    *)
NeverTooLow ==
  /\ CountsAll
  /\ \A w \in Workers : at[w] = "exit" => started_ # 0

LEMMA AliveCounted ==
  ASSUME Typed, CountsAll, NEW w \in Workers, at[w] \in Alive
  PROVE  w \in Running /\ started_ # 0
<1>1. w \in Running
  BY DEF CountsAll, Running, Alive
<1>2. Cardinality(Running) \in Nat /\ Cardinality(Running) # 0
  BY <1>1, RunningCounted
<1> QED  BY <1>1, <1>2 DEF CountsAll, Typed

LEMMA CountsKept ==
  ASSUME Typed, CountsAll, UNCHANGED <<started_, handles>>,
         \A w \in Workers : at'[w] \in Alive <=> at[w] \in Alive
  PROVE  CountsAll'
<1>1. Running' = Running
  BY RunningKept DEF Typed
<1> QED  BY <1>1 DEF CountsAll

LEMMA CountsMove ==
  ASSUME Typed, CountsAll, UNCHANGED <<started_, handles>>,
         NEW t \in Threads, NEW place, Go(t, place),
         t \notin Workers \/ (at[t] \in Alive <=> place \in Alive)
  PROVE  CountsAll'
<1>1. \A w \in Workers : at'[w] \in Alive <=> at[w] \in Alive
  BY GoFacts, ThreadFacts
<1> QED  BY <1>1, CountsKept

(* A thread leaves: it is counted down, or its callback threw.             *)
LEMMA CountsDown ==
  ASSUME Typed, Typed', CountsAll, NEW w \in Workers, at[w] \in Alive, Go(w, "done"),
         handles' = handles,
         \/ started_' = IF started_ = 0 THEN 0 ELSE started_ - 1
         \/ started_' = started_ /\ {"task", "callback"} \subseteq Faults
  PROVE  CountsAll'
<1>1. /\ at'[w] = "done" /\ \A v \in Workers \ {w} : at'[v] = at[v]
      /\ w \in Running /\ started_ # 0
  BY GoFacts, ThreadFacts, AliveCounted
<1>2. Running' = Running \ {w}
  BY <1>1 DEF Running, Typed
<1>3. /\ Cardinality(Running) \in Nat
      /\ Cardinality(Running') = Cardinality(Running) - 1
  BY <1>1, <1>2, RunningCounted
<1>4. \A v \in Workers : at'[v] \in Alive => v \in handles'
  BY <1>1 DEF CountsAll, Alive
<1>5. started_ \in Nat
  BY DEF Typed
<1>6. CASE started_' = IF started_ = 0 THEN 0 ELSE started_ - 1
  <2>1. started_' = started_ - 1
    BY <1>1, <1>6
  <2> QED  BY <1>3, <1>4, <1>5, <2>1 DEF CountsAll
<1>7. CASE started_' = started_ /\ {"task", "callback"} \subseteq Faults
  BY <1>3, <1>4, <1>5, <1>7 DEF CountsAll
<1> QED  BY <1>6, <1>7

(* A start() that creates threads finds none in run().                     *)
LEMMA StartFindsNone ==
  ASSUME Typed, CountsAll, started_ = 0
  PROVE  \A w \in Workers : at[w] \notin Alive
BY AliveCounted

LEMMA StartCounts ==
  ASSUME Typed, CountsAll, NEW k \in Controllers, Start(k)
  PROVE  CountsAll'
<1>1. CASE Go(k, "idle") /\ UNCHANGED <<started_, handles>>
  BY <1>1, CountsMove, ThreadFacts
<1>2. CASE ~(Go(k, "idle") /\ UNCHANGED <<started_, handles>>)
  <2>1. PICK S \in SUBSET FreeSlots :
          /\ started_ = 0 /\ Cardinality(S) = threads_
          /\ at' = [t \in Threads |-> IF t \in S THEN "created"
                                      ELSE IF t = k THEN "idle" ELSE at[t]]
          /\ handles' = S /\ started_' = threads_
    BY <1>2 DEF Start
  <2>2. \A w \in S : w \in Workers
    BY DEF FreeSlots
  <2>3. \A w \in Workers : at'[w] = IF w \in S THEN "created" ELSE at[w]
    BY <2>1, ThreadFacts
  <2>4. \A w \in Workers : at'[w] \in Alive <=> w \in S
    BY <2>1, <2>3, StartFindsNone DEF Alive
  <2>5. Running' = S
    BY <2>1, <2>2, <2>4 DEF Running, Alive
  <2>6. threads_ \in Nat
    BY PoolAssumption
  <2> QED  BY <2>1, <2>4, <2>5, <2>6 DEF CountsAll
<1> QED  BY <1>1, <1>2

LEMMA ControllerCounts ==
  ASSUME Creatable, Typed, CountsAll, NEW k \in Controllers,
         \/ ControllerCalls(k) \/ Start(k) \/ StartFails(k) \/ Stop(k) \/ Wait(k)
         \/ JoinOne(k) \/ JoinFails(k) \/ Joined(k)
  PROVE  CountsAll'
<1> USE DEF lifeVars
<1>1. CASE Start(k)
  BY <1>1, StartCounts
<1>2. CASE StartFails(k)
  BY <1>2 DEF StartFails, Creatable
<1>3. CASE JoinOne(k)
  <2>1. PICK w \in joining[k] : at[w] = "done" /\ at' = [at EXCEPT ![w] = "free"]
    BY <1>3 DEF JoinOne
  <2>2. w \in Workers /\ w \in Threads /\ Go(w, "free")
    BY <2>1, ThreadFacts DEF Typed, Go
  <2>3. UNCHANGED <<started_, handles>> /\ "free" \notin Alive /\ at[w] \notin Alive
    BY <1>3, <2>1 DEF JoinOne, Alive
  <2> QED  BY <2>2, <2>3, CountsMove
<1>4. CASE ControllerCalls(k) \/ Stop(k) \/ Wait(k) \/ JoinFails(k) \/ Joined(k)
  <2>1. UNCHANGED <<started_, handles>>
    BY <1>4 DEF ControllerCalls, Stop, Wait, JoinFails, Joined
  <2>2. PICK place : Go(k, place)
    BY <1>4 DEF ControllerCalls, Stop, Wait, JoinFails, Joined
  <2> QED  BY <2>1, <2>2, CountsMove, ThreadFacts
<1> QED  BY <1>1, <1>2, <1>3, <1>4

LEMMA WorkerCounts ==
  ASSUME Typed, Typed', CountsAll, NEW w \in Workers,
         \/ ThreadBegins(w) \/ Decide(w) \/ ExecuteTask(w) \/ ThreadEnds(w)
         \/ CallbackThrows(w)
  PROVE  CountsAll'
<1> USE DEF lifeVars, Alive
<1>1. w \in Threads
  BY ThreadFacts
<1>2. CASE ThreadBegins(w)
  <2>1. at[w] \in Alive /\ UNCHANGED <<started_, handles>>
    BY <1>2 DEF ThreadBegins
  <2>2. Go(w, "loop")
    BY <1>2, <2>1, AliveCounted DEF ThreadBegins
  <2> QED  BY <1>1, <2>1, <2>2, CountsMove
<1>3. CASE Decide(w) \/ ExecuteTask(w)
  <2>1. PICK place \in Alive : Go(w, place)
    BY <1>3 DEF Decide, ExecuteTask
  <2>2. at[w] \in Alive /\ UNCHANGED <<started_, handles>>
    BY <1>3 DEF Decide, ExecuteTask
  <2> QED  BY <1>1, <2>1, <2>2, CountsMove
<1>4. CASE ThreadEnds(w)
  <2>1. /\ Go(w, "done") /\ at[w] \in Alive /\ handles' = handles
        /\ started_' = IF started_ = 0 THEN 0 ELSE started_ - 1
    BY <1>4 DEF ThreadEnds
  <2> QED  BY <2>1, CountsDown
<1>5. CASE CallbackThrows(w)
  <2>1. /\ Go(w, "done") /\ at[w] \in Alive /\ UNCHANGED <<started_, handles>>
        /\ {"task", "callback"} \subseteq Faults
    BY <1>5 DEF CallbackThrows
  <2> QED  BY <2>1, CountsDown
<1> QED  BY <1>2, <1>3, <1>4, <1>5

LEMMA QueueStepCounts ==
  ASSUME Exact, InWait, Typed, CountsAll, InQueueStep
  PROVE  CountsAll'
<1> USE DEF lifeVars
<1>1. ASSUME NEW k \in Controllers, StopMaxSize(k) \/ StopAwake(k) \/ WaitRestore(k)
      PROVE  CountsAll'
  <2>1. UNCHANGED <<started_, handles>>
    BY <1>1, ControllerDoes
  <2>2. PICK place : Go(k, place)
    BY <1>1, ControllerDoes DEF Awaking
  <2> QED  BY <2>1, <2>2, CountsMove, ThreadFacts
<1>2. ASSUME NEW w \in Workers, Dequeue(w) PROVE CountsAll'
  <2>1. UNCHANGED <<started_, handles>> /\ at[w] = "loop" /\ w \in Threads
    BY <1>2, DequeueDoes, ThreadFacts
  <2>2. CASE UNCHANGED at
    BY <2>1, <2>2, CountsKept
  <2>3. ASSUME NEW place \in {"got", "exit"}, Go(w, place) PROVE CountsAll'
    <3>1. at[w] \in Alive /\ place \in Alive
      BY <2>1 DEF Alive
    <3> QED  BY <2>1, <2>3, <3>1, CountsMove
  <2> QED  BY <1>2, <2>2, <2>3, DequeueDoes
<1>3. ASSUME NEW c \in Clients,
             \/ \E task \in Tasks, wait \in ExecuteWaits : Execute(c, task, wait)
             \/ ExecuteResumes(c)
      PROVE  CountsAll'
  <2>1. UNCHANGED <<started_, handles>> /\ (at' = at \/ \E place : Go(c, place))
    BY <1>3, ExecuteDoes, ResumesDoes
  <2> QED  BY <2>1, CountsKept, CountsMove, ThreadFacts
<1>4. ASSUME NEW t \in Threads, QueueEvent(t) PROVE CountsAll'
  BY <1>4, EventDoes, CountsKept
<1> QED  BY <1>1, <1>2, <1>3, <1>4 DEF InQueueStep

LEMMA InitCounts == Init => CountsAll
<1> SUFFICES ASSUME Init PROVE CountsAll
  OBVIOUS
<1>1. (\A w \in Workers : at[w] = "free") /\ handles = {} /\ started_ = 0
  BY ThreadFacts DEF Init
<1>2. Running = {}
  BY <1>1 DEF Running
<1> QED  BY <1>1, <1>2, FS_EmptySet DEF CountsAll, Alive

LEMMA StepCounts ==
  Creatable /\ Exact /\ IInv /\ IInv' /\ CountsAll /\ [Next]_vars => CountsAll'
<1> SUFFICES ASSUME Creatable, Exact, IInv, IInv', CountsAll, [Next]_vars
             PROVE  CountsAll'
  OBVIOUS
<1>1. Typed /\ Typed' /\ InWait
  BY DEF IInv
<1>2. CASE UNCHANGED vars
  BY <1>1, <1>2, CountsKept DEF vars, lifeVars
<1> QED  BY <1>1, <1>2, NextIs, ControllerCounts, WorkerCounts, QueueStepCounts DEF Apart

(* Whatever the controllers call and whoever throws, the threads in run()  *)
(* are all of the last start(), started_ is at least their number, and     *)
(* exactly that unless callbacks throw too (ServiceBase::start, the end of *)
(* exec_thread_func).                                                      *)
THEOREM StartedNeverTooLow == ASSUME Creatable PROVE Spec => []NeverTooLow
<1>1. IInv /\ CountsAll => NeverTooLow
  BY AliveCounted DEF NeverTooLow, IInv, Alive
<1> QED  BY <1>1, Creatable, InitCounts, StepCounts, Invariance, PTL DEF Spec

(* A thread is made only when no other is in run(): the threads of two     *)
(* calls of start() never work side by side, so a pool never has more than *)
(* threads_ of them.                                                       *)
MadeAlone ==
  (\E w \in Workers : at[w] # "created" /\ at'[w] = "created")
    => \A w \in Workers : at[w] \notin Alive

THEOREM GenerationsApart == ASSUME Creatable PROVE Spec => [][MadeAlone]_vars
<1>1. ASSUME Creatable, Exact, IInv, CountsAll, [Next]_vars, ~(UNCHANGED vars)
      PROVE  MadeAlone
  <2> SUFFICES ASSUME NEW w \in Workers, at[w] # "created", at'[w] = "created"
               PROVE  \A v \in Workers : at[v] \notin Alive
    BY DEF MadeAlone
  <2>1. Typed /\ InWait /\ w \in Threads
    BY <1>1, ThreadFacts DEF IInv
  <2>2. ASSUME NEW t \in Threads, NEW place, Go(t, place), place # "created" PROVE FALSE
    BY <2>1, <2>2, GoFacts
  <2>3. ASSUME NEW k \in Controllers, Start(k)
        PROVE  \A v \in Workers : at[v] \notin Alive
    <3>1. started_ = 0
      BY <2>2, <2>3, ThreadFacts DEF Start
    <3> QED  BY <1>1, <2>1, <3>1, StartFindsNone
  <2>4. ASSUME NEW k \in Controllers,
               \/ ControllerCalls(k) \/ StartFails(k) \/ Stop(k) \/ Wait(k)
               \/ JoinFails(k) \/ Joined(k)
        PROVE  FALSE
    <3>1. ~StartFails(k)
      BY <1>1 DEF StartFails, Creatable
    <3>2. \E place : Go(k, place)
      BY <2>4, <3>1 DEF ControllerCalls, Stop, Wait, JoinFails, Joined
    <3> QED  BY <2>1, <3>2, GoFacts, ThreadFacts
  <2>5. ASSUME NEW k \in Controllers, JoinOne(k) PROVE FALSE
    <3>1. PICK v \in joining[k] : at' = [at EXCEPT ![v] = "free"]
      BY <2>5 DEF JoinOne
    <3>2. v \in Threads /\ Go(v, "free")
      BY <2>1, <3>1, ThreadFacts DEF Typed, Go
    <3> QED  BY <2>2, <3>2
  <2>6. ASSUME NEW v \in Workers,
               \/ ThreadBegins(v) \/ Decide(v) \/ ExecuteTask(v) \/ ThreadEnds(v)
               \/ CallbackThrows(v)
        PROVE  FALSE
    <3>1. \E place : place # "created" /\ Go(v, place)
      BY <2>6 DEF ThreadBegins, Decide, ExecuteTask, ThreadEnds, CallbackThrows
    <3> QED  BY <2>2, <3>1, ThreadFacts
  <2>7. ASSUME InQueueStep PROVE FALSE
    <3>1. ASSUME NEW k \in Controllers, StopMaxSize(k) \/ StopAwake(k) \/ WaitRestore(k)
          PROVE  FALSE
      <4>1. \E place : Go(k, place)
        BY <1>1, <2>1, <3>1, ControllerDoes DEF Awaking
      <4> QED  BY <2>1, <4>1, GoFacts, ThreadFacts
    <3>2. ASSUME NEW v \in Workers, Dequeue(v) PROVE FALSE
      <4>1. at' = at \/ Go(v, "got") \/ Go(v, "exit")
        BY <1>1, <2>1, <3>2, DequeueDoes
      <4> QED  BY <2>2, <4>1, ThreadFacts
    <3>3. ASSUME NEW c \in Clients,
                 \/ \E task \in Tasks, wait \in ExecuteWaits : Execute(c, task, wait)
                 \/ ExecuteResumes(c)
          PROVE  FALSE
      <4>1. at' = at \/ \E place : Go(c, place)
        BY <1>1, <2>1, <3>3, ExecuteDoes, ResumesDoes
      <4> QED  BY <2>1, <4>1, GoFacts, ThreadFacts
    <3>4. ASSUME NEW t \in Threads, QueueEvent(t) PROVE FALSE
      BY <1>1, <2>1, <3>4, EventDoes
    <3> QED  BY <2>7, <3>1, <3>2, <3>3, <3>4 DEF InQueueStep
  <2> QED  BY <1>1, <2>3, <2>4, <2>5, <2>6, <2>7, NextIs DEF Apart
<1>2. Creatable /\ Exact /\ IInv /\ CountsAll /\ [Next]_vars => [MadeAlone]_vars
  BY <1>1
<1> QED  BY <1>2, Creatable, InitCounts, StepCounts, Invariance, PTL DEF Spec

-----------------------------------------------------------------------------
(* Where the condition variable that workers and clients share does not    *)
(* mislead: clients do not wait in execute(), or the queue has a slot for  *)
(* each thread but one.                                                    *)
NobodyMisled ==
  ExecuteWaits \subseteq {"zero"} \/ queue_size_ + 1 >= Cardinality(Threads)

(* While a task waits and a worker sleeps, a worker is on its way to the   *)
(* queue: woken, and about to take a task and to signal in turn.           *)
TasksFindWorkers ==
  \A w \in Workers :
    pc[w] = "asleep" /\ queue_ # <<>> => \E v \in Workers : pc[v] = "woken"

LEMMA SameWakeups ==
  /\ tasks!NoLostWakeup <=> Q!NoLostWakeup
  /\ tasks!NobodySleepsInVain <=> Q!NobodySleepsInVain
  /\ tasks!CountersExact <=> Q!CountersExact
<1> USE DEF tasks!Asleep, Q!Asleep, tasks!Woken, Q!Woken
<1>1. tasks!NoLostWakeup <=> Q!NoLostWakeup
  BY DEF tasks!NoLostWakeup, Q!NoLostWakeup, tasks!Cardinality, Q!Cardinality
<1>2. tasks!NobodySleepsInVain <=> Q!NobodySleepsInVain
  BY DEF tasks!NobodySleepsInVain, Q!NobodySleepsInVain, tasks!Roomy, Q!Roomy,
         tasks!CanProceed, Q!CanProceed, tasks!Cardinality, Q!Cardinality
<1> QED  BY <1>1, <1>2, SameQueue

(* Whoever is woken in the queue is a worker or a blocked client. *)
LEMMA WokenIs ==
  ASSUME InWait, NEW t \in tasks!Woken
  PROVE  \/ t \in Workers /\ pc[t] = "woken"
         \/ t \in Clients /\ call[t] \in tasks!EnqueueCalls
<1>1. t \in Threads /\ pc[t] = "woken"
  BY DEF tasks!Woken
<1>2. t \notin Controllers
  BY <1>1 DEF InWait, ControllerIn
<1> QED  BY <1>1, <1>2 DEF Threads, InWait, ClientIn

LEMMA WakeupsReachWorkers ==
  ASSUME NobodyMisled, Exact, InWait, Q!WaitersAgreed,
         tasks!NoLostWakeup, tasks!NobodySleepsInVain
  PROVE  TasksFindWorkers
<1> SUFFICES ASSUME NEW w \in Workers, pc[w] = "asleep", queue_ # <<>>
             PROVE  \E v \in Workers : pc[v] = "woken"
  BY DEF TasksFindWorkers
<1>1. w \in Threads /\ w \in tasks!Asleep /\ call[w] \in tasks!DequeueCalls
  BY ThreadFacts DEF tasks!Asleep, InWait, WorkerIn
<1>2. size_ > 0
  BY DEF Exact, tasks!TypeOK, tasks!CountersExact
<1>3. CASE ExecuteWaits \subseteq {"zero"}
  <2>1. size_ <= Cardinality(tasks!Woken)
    BY <1>1, <1>3 DEF tasks!NoLostWakeup, tasks!Cardinality, Cardinality
  <2>2. size_ \in Nat
    BY DEF Exact, tasks!TypeOK
  <2>3. tasks!Woken # {}
    <3>1. ASSUME tasks!Woken = {} PROVE Cardinality(tasks!Woken) = 0
      <4>1. Cardinality(tasks!Woken) = Cardinality({})
        BY <3>1
      <4> QED  BY <4>1, FS_EmptySet
    <3>2. ASSUME Cardinality(tasks!Woken) = 0 PROVE FALSE
      BY <1>2, <2>1, <2>2, <3>2
    <3> QED  BY <3>1, <3>2
  <2>4. PICK t \in tasks!Woken : TRUE
    BY <2>3
  <2>5. ASSUME t \in Clients, call[t] \in tasks!EnqueueCalls PROVE FALSE
    <3>1. call[t].wait \in ExecuteWaits
      BY <2>5 DEF tasks!EnqueueCalls
    <3>2. call[t].wait # "zero"
      BY <2>4 DEF Q!WaitersAgreed, Q!Waiters, tasks!Woken
    <3> QED  BY <1>3, <3>1, <3>2
  <2> QED  BY <2>4, <2>5, WokenIs
<1>4. CASE queue_size_ + 1 >= Cardinality(Threads)
  <2>1. tasks!Roomy
    BY <1>4, PoolAssumption DEF tasks!Roomy, tasks!Cardinality, Cardinality
  <2>2. call[w].op = "dequeue"
    BY <1>1 DEF tasks!DequeueCalls
  <2>3. tasks!CanProceed(call[w])
    BY <1>2, <2>2 DEF tasks!CanProceed
  <2>4. PICK t \in tasks!Woken : call[t].op = "dequeue"
    BY <1>1, <2>1, <2>2, <2>3 DEF tasks!NobodySleepsInVain
  <2>5. call[t] \notin tasks!EnqueueCalls
    BY <2>4 DEF tasks!EnqueueCalls
  <2> QED  BY <2>4, <2>5, WokenIs
<1> QED  BY <1>3, <1>4 DEF NobodyMisled

(* A task does not lie in the queue beside workers that sleep for good:    *)
(* the signal for it reaches one of them, whatever fails and whoever calls *)
(* (the one condition variable of Queue.hpp, under ThreadPool::execute and *)
(* run).  With fewer slots and clients that block, the pool strands tasks. *)
THEOREM WaitingTasksAreFetched == ASSUME NobodyMisled PROVE Spec => []TasksFindWorkers
<1>1. Q!Spec => /\ []Q!NoLostWakeup /\ []Q!NobodySleepsInVain /\ []Q!WaitersAgreed
  BY QueueAssumed, Q!ConsumersLoseNoWakeup, Q!TheRightKindIsWoken,
     Q!WaitersAgreedAlways, PTL
<1>2. /\ Exact /\ IInv /\ Q!WaitersAgreed /\ Q!NoLostWakeup /\ Q!NobodySleepsInVain
      => TasksFindWorkers
  BY NobodyMisled, WakeupsReachWorkers, SameWakeups DEF IInv
<1> QED  BY <1>1, <1>2, PoolUsesQueue, SameQueue, Invariance, PTL

-----------------------------------------------------------------------------
(* One controller that calls start, stop and wait in turn; all may fail.   *)
OneController == (\E k : Controllers = {k}) /\ ~AnyOrder

(* From the return of stop() until wait() opens the queue again.           *)
AfterStop(k) ==
  at[k] \in {"wait", "wait_join", "wait_restore"} \/ (at[k] = "idle" /\ last[k] = "stop")

(* Nobody is left in the queue that stop() has closed: no worker that      *)
(* wait() is about to join sleeps there, and no execute() keeps the read   *)
(* lock that wait() and the threads that end have to wait for.             *)
StopEmptiesQueue ==
  \A k \in Controllers :
    AfterStop(k) => max_size_ = 0 /\ tasks!Waiters = {} /\ Readers = {}

NobodyIn == \A t \in Threads : pc[t] \notin {"asleep", "woken", "expired"}

EmptiedOf(k) ==
  /\ at[k] \in {"start", "start_join"} => last[k] = "start"
  /\ at[k] \in {"stop", "stop_max", "stop_awake"} => last[k] = "stop"
  /\ at[k] \in {"wait", "wait_join", "wait_restore"} => last[k] = "wait"
  /\ at[k] = "stop_awake" \/ AfterStop(k) => max_size_ = 0
  /\ AfterStop(k) => NobodyIn

Emptied == \A k \in Controllers : EmptiedOf(k)

(* Nobody falls asleep in a closed queue. *)
LEMMA ClosedStaysEmpty ==
  ASSUME Exact, max_size_ = 0, NobodyIn, [Next]_vars
  PROVE  NobodyIn'
<1> SUFFICES ASSUME NEW s \in Threads PROVE pc'[s] \notin {"asleep", "woken", "expired"}
  BY DEF NobodyIn
<1>1. /\ pc \in [Threads -> tasks!Places]
      /\ pc[s] \notin {"asleep", "woken", "expired"} /\ tasks!Asleep = {}
  BY DEF Exact, tasks!TypeOK, NobodyIn, tasks!Asleep
<1>2. ASSUME NEW t \in Threads, NEW next, next \notin {"asleep", "woken", "expired"},
             tasks!SignalThenGo(t, next)
      PROVE  pc'[s] \notin {"asleep", "woken", "expired"}
  BY <1>1, <1>2 DEF tasks!SignalThenGo
<1>3. CASE UNCHANGED tasks!vars
  BY <1>1, <1>3 DEF tasks!vars
<1>4. ASSUME NEW t \in Threads, NEW c, tasks!CallSucceeds(t, c)
      PROVE  pc'[s] \notin {"asleep", "woken", "expired"}
  BY <1>2, <1>4 DEF tasks!CallSucceeds
<1>5. ASSUME NEW t \in Threads, NEW c, tasks!CallRefused(t, c) \/ tasks!CallWaits(t, c)
      PROVE  pc'[s] \notin {"asleep", "woken", "expired"}
  BY <1>1, <1>5 DEF tasks!CallRefused, tasks!CallWaits, tasks!vars
<1>6. ASSUME NEW t \in Threads, NEW val, tasks!SetMaxSize(t, val)
      PROVE  pc'[s] \notin {"asleep", "woken", "expired"}
  BY <1>2, <1>6 DEF tasks!SetMaxSize
<1>7. ASSUME NEW t \in Threads, tasks!AwakeSignal(t)
      PROVE  pc'[s] \notin {"asleep", "woken", "expired"}
  BY <1>2, <1>7 DEF tasks!AwakeSignal
<1>8. ASSUME NEW t \in Threads, tasks!AwakeBegin(t) \/ tasks!AwakeCheck(t)
      PROVE  pc'[s] \notin {"asleep", "woken", "expired"}
  BY <1>1, <1>8 DEF tasks!AwakeBegin, tasks!AwakeCheck
<1>9. ASSUME NEW t \in Threads,
             \/ tasks!Expire(t) \/ tasks!WakeSpuriously(t) \/ tasks!ReturnExpired(t)
             \/ tasks!ReturnWoken(t) \/ tasks!SleepAgain(t) \/ tasks!ReturnAwaken(t)
      PROVE  FALSE
  BY <1>9 DEF NobodyIn, tasks!Expire, tasks!WakeSpuriously, tasks!ReturnExpired,
              tasks!ReturnWoken, tasks!SleepAgain, tasks!ReturnAwaken
<1> QED  BY <1>3, <1>4, <1>5, <1>6, <1>7, <1>8, <1>9, StepUsesQueue
         DEF tasks!Next, tasks!Resume

(* awake() returns when it sees that nobody waits. *)
LEMMA AwakeLeavesNobody ==
  ASSUME Exact, InWait, NEW k \in Controllers, StopAwake(k), pc'[k] = "idle"
  PROVE  NobodyIn
<1>1. waiting_ = 0
  BY SignalMoves, ThreadFacts
     DEF StopAwake, tasks!AwakeBegin, tasks!AwakeSignal, tasks!AwakeCheck,
         Exact, tasks!TypeOK
<1>2. IsFiniteSet(tasks!Waiters)
  <2>1. tasks!Waiters \subseteq Workers \union Controllers \union Clients
    BY DEF tasks!Waiters, Threads
  <2> QED  BY <2>1, PoolAssumption, FS_Subset
<1>3. Cardinality(tasks!Waiters) = 0
  BY <1>1 DEF Exact, tasks!CountersExact, tasks!Cardinality, Cardinality
<1>4. tasks!Waiters = {}
  BY <1>2, <1>3, FS_EmptySet
<1> QED  BY <1>4 DEF tasks!Waiters, NobodyIn

(* A step that leaves the controller where it is. *)
LEMMA EmptiedStays ==
  ASSUME Exact, NEW k \in Controllers, EmptiedOf(k), [Next]_vars,
         at'[k] = at[k], last' = last, max_size_' = max_size_
  PROVE  EmptiedOf(k)'
BY ClosedStaysEmpty DEF EmptiedOf, AfterStop

LEMMA ControllerEmpties ==
  ASSUME OneController, Exact, InWait, Typed, Typed', NEW k \in Controllers, EmptiedOf(k),
         [Next]_vars, ControllerCalls(k) \/ ControllerStep(k)
  PROVE  EmptiedOf(k)'
<1> USE DEF lifeVars
<1>1. k \in Threads /\ last \in [Controllers -> {"start", "stop", "wait"}]
  BY ThreadFacts DEF Typed
<1>2. CASE ControllerCalls(k)
  <2>1. PICK op \in MayCall(k) : Go(k, op) /\ last' = [last EXCEPT ![k] = op]
    BY <1>2 DEF ControllerCalls
  <2>2. /\ at[k] = "idle" /\ at'[k] = op /\ last'[k] = op
        /\ UNCHANGED <<queueVars>>
    BY <1>1, <1>2, <2>1, GoFacts DEF ControllerCalls
  <2>3. op \in {"start", "stop", "wait"} /\ (op = "wait" => last[k] = "stop")
    BY <1>1, <2>1 DEF MayCall, OneController
  <2>4. max_size_' = max_size_ /\ pc' = pc
    BY <2>2 DEF queueVars
  <2> QED  BY <2>2, <2>3, <2>4 DEF EmptiedOf, AfterStop, NobodyIn
<1>3. CASE Start(k) \/ StartFails(k)
  <2>1. /\ at[k] = "start" /\ at'[k] \in {"idle", "start_join"}
        /\ UNCHANGED <<queueVars, last>>
    <3>1. at[k] = "start" /\ UNCHANGED <<queueVars, last>>
      BY <1>3 DEF Start, StartFails
    <3>2. ASSUME NEW S \in SUBSET FreeSlots, NEW place \in {"idle", "start_join"},
                 at' = [t \in Threads |-> IF t \in S THEN "created"
                                          ELSE IF t = k THEN place ELSE at[t]]
          PROVE  at'[k] \in {"idle", "start_join"}
      BY <1>1, <3>2, ThreadFacts DEF FreeSlots
    <3> QED  BY <1>1, <1>3, <3>1, <3>2, GoFacts DEF Start, StartFails
  <2> QED  BY <2>1 DEF EmptiedOf, AfterStop
<1>4. CASE JoinOne(k)
  <2>1. PICK w \in joining[k] : at' = [at EXCEPT ![w] = "free"]
    BY <1>4 DEF JoinOne
  <2>2. at'[k] = at[k]
    BY <2>1, ThreadFacts DEF Typed
  <2>3. last' = last /\ max_size_' = max_size_
    BY <1>4 DEF JoinOne, queueVars
  <2> QED  BY <2>2, <2>3, EmptiedStays
<1>5. CASE Stop(k) \/ Wait(k) \/ JoinFails(k) \/ Joined(k)
  <2>1. /\ at[k] \in {"stop", "wait", "wait_join", "start_join"}
        /\ at[k] = "stop" => at'[k] = "stop_max"
        /\ at[k] = "wait" => at'[k] \in {"wait_join", "wait_restore"}
        /\ at[k] = "wait_join" => at'[k] \in {"idle", "wait_restore"}
        /\ at[k] = "start_join" => at'[k] = "idle"
        /\ last' = last /\ max_size_' = max_size_ /\ pc' = pc
    BY <1>1, <1>5, GoFacts DEF Stop, Wait, JoinFails, Joined, queueVars
  <2> QED  BY <2>1 DEF EmptiedOf, AfterStop, NobodyIn
<1>6. CASE StopMaxSize(k) \/ WaitRestore(k)
  <2>1. /\ last' = last
        /\ \/ at[k] = "stop_max" /\ at'[k] = "stop_awake" /\ max_size_' = 0
           \/ at[k] = "wait_restore" /\ at'[k] = "idle"
    BY <1>1, <1>6, GoFacts DEF StopMaxSize, WaitRestore, tasks!SetMaxSize
  <2> QED  BY <2>1 DEF EmptiedOf, AfterStop
<1>7. CASE StopAwake(k)
  <2>1. /\ last' = last /\ max_size_' = max_size_ /\ at[k] = "stop_awake"
        /\ Go(k, IF pc'[k] = "idle" THEN "idle" ELSE "stop_awake")
    BY <1>7, ControllerDoes DEF StopAwake, Awaking
  <2>2. CASE pc'[k] = "idle"
    <3>1. max_size_ = 0 /\ NobodyIn /\ at'[k] = "idle" /\ last[k] = "stop"
      BY <1>1, <1>7, <2>1, <2>2, GoFacts, AwakeLeavesNobody DEF EmptiedOf
    <3>2. NobodyIn'
      BY <3>1, ClosedStaysEmpty
    <3> QED  BY <2>1, <3>1, <3>2 DEF EmptiedOf, AfterStop
  <2>3. CASE pc'[k] # "idle"
    <3>1. at'[k] = at[k]
      BY <1>1, <2>1, <2>3, GoFacts
    <3> QED  BY <2>1, <3>1, EmptiedStays
  <2> QED  BY <2>2, <2>3
<1> QED  BY <1>2, <1>3, <1>4, <1>5, <1>6, <1>7 DEF ControllerStep

LEMMA StepEmpties ==
  OneController /\ Exact /\ IInv /\ IInv' /\ Emptied /\ [Next]_vars => Emptied'
<1> SUFFICES ASSUME OneController, Exact, IInv, IInv', Emptied, [Next]_vars,
                    NEW k \in Controllers
             PROVE  EmptiedOf(k)'
  BY DEF Emptied
<1>1. Typed /\ Typed' /\ InWait /\ EmptiedOf(k) /\ Controllers = {k}
  BY DEF IInv, Emptied, OneController
<1>2. ASSUME NEW t \in Threads \ {k}, NEW place, Go(t, place),
             last' = last, max_size_' = max_size_
      PROVE  EmptiedOf(k)'
  <2>1. at'[k] = at[k]
    BY <1>1, <1>2, GoFacts, ThreadFacts
  <2> QED  BY <1>1, <1>2, <2>1, EmptiedStays
<1>3. CASE ControllerCalls(k) \/ ControllerStep(k)
  BY <1>1, <1>3, ControllerEmpties
<1>4. ASSUME NEW w \in Workers, WorkerStep(w) PROVE EmptiedOf(k)'
  <2>1. w \in Threads \ {k}
    BY ThreadFacts
  <2>2. CASE Dequeue(w)
    <3>1. last' = last /\ max_size_' = max_size_
      BY <1>1, <2>2, DequeueDoes DEF lifeVars
    <3>2. at' = at \/ \E place : Go(w, place)
      BY <1>1, <2>2, DequeueDoes
    <3> QED  BY <1>1, <1>2, <2>1, <3>1, <3>2, EmptiedStays
  <2>3. CASE \/ ThreadBegins(w) \/ Decide(w) \/ ExecuteTask(w) \/ ThreadEnds(w)
             \/ CallbackThrows(w)
    <3>1. last' = last /\ max_size_' = max_size_
      BY <2>3 DEF ThreadBegins, Decide, ExecuteTask, ThreadEnds, CallbackThrows,
                  lifeVars, queueVars
    <3>2. \E place : Go(w, place)
      BY <2>3 DEF ThreadBegins, Decide, ExecuteTask, ThreadEnds, CallbackThrows
    <3> QED  BY <1>2, <2>1, <3>1, <3>2
  <2> QED  BY <1>4, <2>2, <2>3 DEF WorkerStep
<1>5. ASSUME NEW c \in Clients,
             \/ \E task \in Tasks, wait \in ExecuteWaits : Execute(c, task, wait)
             \/ ExecuteResumes(c)
      PROVE  EmptiedOf(k)'
  <2>1. last' = last /\ max_size_' = max_size_ /\ (at' = at \/ \E place : Go(c, place))
    BY <1>1, <1>5, ExecuteDoes, ResumesDoes DEF lifeVars
  <2> QED  BY <1>1, <1>2, <2>1, ThreadFacts, EmptiedStays
<1>6. ASSUME NEW t \in Threads, QueueEvent(t) PROVE EmptiedOf(k)'
  <2>1. last' = last /\ max_size_' = max_size_ /\ at' = at
    BY <1>1, <1>6, EventDoes DEF lifeVars
  <2> QED  BY <1>1, <2>1, EmptiedStays
<1>7. CASE UNCHANGED vars
  <2>1. last' = last /\ max_size_' = max_size_ /\ at' = at
    BY <1>7 DEF vars, lifeVars, queueVars
  <2> QED  BY <1>1, <2>1, EmptiedStays
<1>8. ASSUME NEW c \in Clients, NEW task, NEW wait, ExecuteRefused(c, task, wait)
      PROVE  UNCHANGED vars
  BY <1>8 DEF ExecuteRefused
<1> QED  BY <1>1, <1>3, <1>4, <1>5, <1>6, <1>7, <1>8 DEF Next

LEMMA InitEmptied == Init => Emptied
<1> SUFFICES ASSUME Init, NEW k \in Controllers PROVE EmptiedOf(k)
  BY DEF Emptied
<1>1. at[k] = "idle" /\ last[k] = "wait"
  BY ThreadFacts DEF Init
<1> QED  BY <1>1 DEF EmptiedOf, AfterStop

(* stop() returns only when nobody waits in the queue, and nobody does     *)
(* until wait() reopens it, for any number of threads and whatever fails   *)
(* (ThreadPool::stop, ThreadPool::wait): wait() is not kept from srv_lock_ *)
(* by a blocked execute(), nor by a worker that sleeps beside the queue.   *)
THEOREM StopLeavesNobody == ASSUME OneController PROVE Spec => []StopEmptiesQueue
<1>1. IInv /\ Emptied => StopEmptiesQueue
  <2> SUFFICES ASSUME IInv, Emptied, NEW k \in Controllers, AfterStop(k)
               PROVE  max_size_ = 0 /\ tasks!Waiters = {} /\ Readers = {}
    BY DEF StopEmptiesQueue
  <2>1. max_size_ = 0 /\ NobodyIn
    BY DEF Emptied, EmptiedOf
  <2>2. tasks!Waiters = {}
    BY <2>1 DEF NobodyIn, tasks!Waiters
  <2>3. ASSUME NEW c \in Clients, at[c] = "execute" PROVE FALSE
    BY <2>1, <2>3, ThreadFacts DEF NobodyIn, IInv, InWait, ClientIn
  <2> QED  BY <2>1, <2>2, <2>3 DEF Readers
<1> QED  BY <1>1, OneController, InitEmptied, StepEmpties, Invariance, PTL DEF Spec
=============================================================================

--------------------------- MODULE ElStart_proofs ---------------------------
(***************************************************************************)
(* Theorems about ElStart: for any finite sets of services and hosts, any  *)
(* clusters and any number of threads.                                     *)
(***************************************************************************)
EXTENDS ElStart, FiniteSetTheorems, TLAPS

MainPlaces == {"parse", "validate", "target", "pool", "layer", "submit", "wait",
               "exit", "threw", "internal error"}
(* Where a thread of the pool has a task in hand, and where it is engaged  *)
(* in the operation.                                                       *)
Engaged == {"look", "check", "command", "probe", "fail", "throw", "done"}
WithTask == Engaged \union {"decide"}
WorkerPlaces == WithTask \union {"off", "loop", "layer", "submit", "internal error"}

Typed ==
  /\ TypeOK
  /\ at \in [Threads -> MainPlaces \union WorkerPlaces]
  /\ at["main"] \in MainPlaces
  /\ \A w \in Workers : at[w] \in WorkerPlaces
  /\ done \subseteq AllTasks

Parsed == at["main"] \notin {"parse", "threw"}
Before == at["main"] \in {"parse", "validate", "target", "pool", "threw"}

(* Nothing happens before the pool is started. *)
Quiet ==
  Before =>
    /\ tasks_ = {} /\ unsent = {} /\ layer_counter_ = 0 /\ lock_ = NoThread
    /\ done = {} /\ failed = {}
    /\ \A w \in Workers : at[w] = "off" /\ held[w] = NoTask

(* A task in hand is in one thread's hands, and in the queue no more.      *)
Hands ==
  /\ \A w \in Workers : at[w] \in WithTask <=> held[w] # NoTask
  /\ \A v, w \in Workers : held[w] # NoTask /\ held[v] = held[w] => v = w
  /\ \A w \in Workers : held[w] \notin tasks_

(* The tables are the description without what is done. *)
Tables ==
  Parsed =>
    \A s \in cluster.enabled :
      /\ cluster.hosts[s] # {}
      /\ hosts[s] = {h \in cluster.hosts[s] : <<s, h>> \notin done}
      /\ s \in services_ <=> hosts[s] # {}
      /\ waitsFor[s] = Prerequisites(s) \intersect services_

TablesEnabled == Parsed => services_ \subseteq cluster.enabled

(* What validation has taken off its copy is in order: no two services in  *)
(* it wait for each other, in either direction.                            *)
InOrder ==
  Parsed =>
    /\ left \subseteq cluster.enabled
    /\ \A p \in cluster.enabled \ left : cluster.after[p] \intersect left = {}
    /\ \A S \in SUBSET cluster.enabled :
         S # {} /\ S \intersect left = {} =>
           /\ \E s \in S : cluster.after[s] \intersect S = {}
           /\ \E s \in S : \A p \in S : s \notin cluster.after[p]
    /\ at["main"] # "validate" => left = {}

(* The lock is with the thread that submits a layer. *)
Locked == \A t \in Threads : at[t] \in {"layer", "submit"} => lock_ = t

(* Tasks on their way: of a layer, in the tables, and not known to fail.   *)
Pending == tasks_ \union Busy
Ready(x) ==
  /\ x \in AllTasks
  /\ x[1] \in services_ /\ x[2] \in hosts[x[1]]
  /\ waitsFor[x[1]] = {}
  /\ x \notin failed

InLayer ==
  /\ \A x \in Pending \union unsent : Ready(x)
  /\ Pending \intersect unsent = {}

(* What was done had nothing left to wait for, nor has it now. *)
DoneInOrder == \A x \in done : Prerequisites(x[1]) \intersect services_ = {}

(* The counter is that of the tasks under way.  A failed one stays counted *)
(* for ever, so that no other layer is begun.                              *)
Counted ==
  /\ IF failed = {} THEN layer_counter_ = Cardinality(Pending)
                    ELSE layer_counter_ > Cardinality(Pending)
  /\ \A t \in Threads :
       at[t] = "layer" =>
         /\ layer_counter_ = 0
         /\ \/ services_ # {}
            \/ t = "main" /\ cluster.enabled = {}
  /\ \A t \in Threads :
       at[t] = "internal error" => t = "main" /\ cluster.enabled = {}

(* The pool is stopped when something has failed or nothing is left.       *)
StopMeans == ~Before /\ stop_ => \/ failed # {}
                                \/ services_ = {}

IInv ==
  /\ Typed /\ Quiet /\ Hands /\ Tables /\ TablesEnabled /\ InOrder /\ Locked
  /\ InLayer /\ DoneInOrder /\ Counted /\ StopMeans

(* What PrerequisitesFirst needs besides: the flags go down to all the     *)
(* prerequisites; a command is run only for a task that is to be executed; *)
(* and what is done is as it should be.                                    *)
Flags ==
  ~nodeps_ =>
    \A x \in executed, y \in AllTasks : y[1] \in Reached({x[1]}) => y \in executed

AsItShouldBe(y) ==
  operation_ \in {"start", "stop"} /\ y \in executed /\ y[1] \in cluster.command
    => y \in right \union misjudged

Fit(w) ==
  /\ at[w] \in {"check", "command", "probe"} =>
       /\ held[w] \in executed /\ ~listing
       /\ at[w] = "probe" => operation_ # "status"
  /\ at[w] = "done" => AsItShouldBe(held[w])

(* Only a command that could not be run makes a start misjudge a service. *)
ForkOnly == operation_ = "start" => misjudged \subseteq unforked

FInv ==
  /\ ForkOnly
  /\ Flags
  /\ \A y \in done : AsItShouldBe(y)
  /\ \A w \in Workers : Fit(w)

-----------------------------------------------------------------------------
(* What a cluster description is. *)
LEMMA ClusterFacts ==
  ASSUME cluster \in Clusters
  PROVE  /\ cluster.enabled \subseteq Services
         /\ cluster.after \in [Services -> SUBSET Services]
         /\ cluster.hosts \in [Services -> SUBSET Hosts]
         /\ \A s : Prerequisites(s) \subseteq cluster.enabled
         /\ AllTasks \subseteq Tasks
BY ElStartAssumption DEF ClusterType, Prerequisites, AllTasks

(* The tasks are finitely many, and so is any set of them. *)
LEMMA FinitelyManyTasks == \A S \in SUBSET Tasks : IsFiniteSet(S)
<1>1. IsFiniteSet(Tasks)
  BY ElStartAssumption, FS_Product DEF Tasks
<1> QED  BY <1>1, FS_Subset

(* The tasks under way are tasks. *)
LEMMA PendingAreTasks ==
  ASSUME TypeOK
  PROVE  /\ Pending \subseteq Tasks
         /\ IsFiniteSet(Pending)
         /\ Cardinality(Pending) \in Nat
<1>1. Pending \subseteq Tasks
  BY DEF TypeOK, Pending, Busy
<1> QED  BY <1>1, FinitelyManyTasks, FS_CardinalityType

(* In the beginning. *)
LEMMA InitIInv == Init => IInv
<1> SUFFICES ASSUME Init PROVE IInv
  OBVIOUS
<1> USE ElStartAssumption
<1>1. \A w \in Workers : at[w] = "off" /\ w # "main"
  BY DEF Init, Threads
<1>2. at["main"] = "parse"
  BY DEF Init, Threads
<1>3. Typed
  <2>1. right \subseteq Tasks
    BY ClusterFacts DEF Init
  <2>2. /\ waitsFor \in [Services -> SUBSET Services]
        /\ hosts \in [Services -> SUBSET Hosts]
    BY DEF Init
  <2>3. /\ held \in [Workers -> Tasks \union {NoTask}]
        /\ probe \in [Workers -> 0 .. Probes]
    BY DEF Init
  <2>4. TypeOK
    BY <2>1, <2>2, <2>3 DEF Init, TypeOK
  <2>5. at \in [Threads -> MainPlaces \union WorkerPlaces]
    BY DEF Init, MainPlaces, WorkerPlaces
  <2> QED  BY <1>1, <1>2, <2>4, <2>5 DEF Init, Typed, MainPlaces, WorkerPlaces
<1>4. Quiet /\ Hands
  BY <1>1 DEF Init, Quiet, Hands, WithTask, Engaged
<1>5. Tables /\ TablesEnabled /\ InOrder /\ DoneInOrder
  BY <1>2 DEF Init, Tables, TablesEnabled, InOrder, DoneInOrder, Parsed
<1>6. Locked /\ \A t \in Threads : at[t] \notin {"layer", "submit", "internal error"}
  BY <1>1, <1>2 DEF Locked, Threads
<1>7. Pending = {}
  BY DEF Init, Pending, Busy
<1>8. InLayer
  BY <1>7 DEF Init, InLayer
<1>9. Counted
  BY <1>6, <1>7, FS_EmptySet DEF Init, Counted
<1>10. StopMeans
  BY <1>2 DEF StopMeans, Before
<1> QED  BY <1>3, <1>4, <1>5, <1>6, <1>8, <1>9, <1>10 DEF IInv

-----------------------------------------------------------------------------
(* After the pool has started, only notify() touches the tables. *)
LEMMA TablesStay ==
  ASSUME Tables, TablesEnabled, InOrder, DoneInOrder,
         Parsed, at["main"] # "validate",
         UNCHANGED <<clusterVars, tableVars, left, done>>
  PROVE  (Tables /\ TablesEnabled /\ InOrder /\ DoneInOrder)'
<1>1. \A s : Prerequisites(s)' = Prerequisites(s)
  BY DEF Prerequisites, reversed, clusterVars
<1>2. Tables'
  BY <1>1 DEF Tables, Parsed, clusterVars, tableVars
<1>3. TablesEnabled' /\ DoneInOrder'
  BY <1>1 DEF TablesEnabled, DoneInOrder, Parsed, clusterVars, tableVars
<1>4. InOrder'
  BY DEF InOrder, Parsed, clusterVars
<1> QED  BY <1>2, <1>3, <1>4

(* Nobody is at work before the pool is started, and then the description  *)
(* has been parsed and is valid.                                           *)
LEMMA AtWork ==
  ASSUME Typed, Quiet, NEW w \in Workers, at[w] # "off"
  PROVE  /\ ~Before /\ Parsed /\ at["main"] # "validate"
         /\ w \in Threads /\ w # "main"
BY ElStartAssumption DEF Typed, Quiet, Before, Parsed, Threads

placeVars == <<clusterVars, tableVars, left, layer_counter_, lock_, unsent,
               poolVars, held, done, failed>>

(* A thread that goes from one place to another, and does nothing else that *)
(* matters here.                                                            *)
Moves(t, q) ==
  /\ at' = [at EXCEPT ![t] = q]
  /\ UNCHANGED placeVars
  /\ \/ t = "main" /\ at[t] = "target" /\ q = "pool"
     \/ t = "main" /\ at[t] = "wait" /\ q = "exit"
     \/ t \in Workers /\ at[t] = "loop" /\ q = "off"
     \/ t \in Workers /\ at[t] \in WithTask /\ q \in Engaged

LEMMA MovesKeeps ==
  ASSUME IInv, TypeOK', NEW t \in Threads, NEW q, Moves(t, q)
  PROVE  IInv'
<1> USE ElStartAssumption
<1> USE DEF IInv
<1>1. /\ Parsed /\ at["main"] # "validate"
      /\ t \in Workers => ~Before /\ t # "main"
  <2>1. CASE t = "main"
    BY <2>1 DEF Moves, Parsed
  <2>2. CASE t \in Workers
    <3>1. at[t] # "off"
      BY <2>2 DEF Moves, WithTask, Engaged
    <3> QED  BY <2>2, <3>1, AtWork
  <2> QED  BY <2>1, <2>2 DEF Threads
<1>2. /\ at'[t] = q
      /\ \A u \in Threads \ {t} : at'[u] = at[u]
  BY DEF Moves, Typed
<1>3. (Tables /\ TablesEnabled /\ InOrder /\ DoneInOrder)'
  BY <1>1, TablesStay DEF Moves, placeVars
<1>4. Typed'
  <2>1. AllTasks' = AllTasks
    BY DEF Moves, placeVars, clusterVars, AllTasks
  <2>2. done' \subseteq AllTasks'
    BY <2>1 DEF Typed, Moves, placeVars
  <2>3. q \in MainPlaces \union WorkerPlaces
    BY DEF Moves, MainPlaces, WorkerPlaces, WithTask
  <2>4. at' \in [Threads -> MainPlaces \union WorkerPlaces]
    BY <2>3 DEF Moves, Typed
  <2>5. at'["main"] \in MainPlaces
    BY <1>2 DEF Moves, Typed, MainPlaces, Threads
  <2>6. \A w \in Workers : at'[w] \in WorkerPlaces
    BY <1>2 DEF Moves, Typed, WorkerPlaces, WithTask, Threads
  <2> QED  BY <2>2, <2>4, <2>5, <2>6 DEF Typed
<1>5. Before' => Before /\ t = "main"
  BY <1>1, <1>2 DEF Moves, Before, Threads
<1>6. Quiet'
  BY <1>2, <1>5 DEF Quiet, Moves, placeVars, poolVars, Threads
<1>7. Hands'
  <2>1. \A w \in Workers : at'[w] \in WithTask <=> at[w] \in WithTask
    BY <1>2 DEF Moves, WithTask, Engaged, Threads
  <2> QED  BY <2>1 DEF Hands, Moves, placeVars, poolVars
<1>8. \A u \in Threads : at'[u] \in {"layer", "submit", "internal error"}
                           => at'[u] = at[u]
  BY <1>2 DEF Moves, Engaged
<1>9. Locked'
  BY <1>8 DEF Locked, Moves, placeVars
<1>10. Pending' = Pending
  BY DEF Pending, Busy, Moves, placeVars, poolVars
<1>11. \A x : Ready(x)' = Ready(x)
  BY DEF Ready, AllTasks, Moves, placeVars, clusterVars, tableVars
<1>12. InLayer'
  BY <1>10, <1>11 DEF InLayer, Moves, placeVars
<1>13. Counted'
  BY <1>8, <1>10 DEF Counted, Moves, placeVars, clusterVars, tableVars
<1>14. StopMeans'
  <2>1. CASE Before
    BY <2>1, <1>2, <1>5 DEF StopMeans, Moves, Before
  <2>2. CASE ~Before
    BY <2>2 DEF StopMeans, Moves, placeVars, poolVars, tableVars
  <2> QED  BY <2>1, <2>2
<1> QED  BY <1>3, <1>4, <1>6, <1>7, <1>9, <1>12, <1>13, <1>14

(* A task in hand is under way, and in the tables. *)
LEMMA InHand ==
  ASSUME IInv, NEW w \in Workers, at[w] \in WithTask
  PROVE  /\ held[w] \in Tasks
         /\ held[w] \in Busy
         /\ held[w] \in Pending
         /\ Ready(held[w])
<1> USE DEF IInv
<1>1. held[w] # NoTask
  BY DEF Hands
<1>2. held[w] \in Tasks
  BY <1>1 DEF Typed, TypeOK
<1>3. held[w] \in Busy
  BY <1>1 DEF Busy
<1>4. held[w] \in Pending
  BY <1>3 DEF Pending
<1> QED  BY <1>2, <1>3, <1>4 DEF InLayer

(* Setting the target, waiting for the pool, leaving it. *)
LEMMA SetTargetKeeps == IInv /\ SetTarget => IInv'
<1> SUFFICES ASSUME IInv, SetTarget PROVE IInv'
  OBVIOUS
<1>1. Moves("main", "pool")
  BY DEF SetTarget, Go, Moves, placeVars, history
<1>2. TypeOK'
  <2>1. AllTasks \subseteq Tasks
    BY ClusterFacts DEF IInv, Typed, TypeOK
  <2>2. PICK target \in SUBSET AllTasks, nodeps \in BOOLEAN :
          /\ nodeps_' = nodeps
          /\ executed' = target \union
               {x \in AllTasks : /\ ~nodeps
                                 /\ x[1] \in Reached({y[1] : y \in target})}
    BY DEF SetTarget
  <2>3. nodeps_' \in BOOLEAN /\ executed' \subseteq Tasks
    BY <2>1, <2>2
  <2> QED  BY <2>3 DEF IInv, Typed, TypeOK, SetTarget, clusterVars, tableVars,
                       poolVars, worldVars
<1> QED  BY <1>1, <1>2, MovesKeeps DEF Threads

LEMMA WaitKeeps == IInv /\ Wait => IInv'
<1> SUFFICES ASSUME IInv, Wait PROVE IInv'
  OBVIOUS
<1>1. Moves("main", "exit")
  BY DEF Wait, Go, Moves, placeVars, history
<1>2. TypeOK'
  BY DEF IInv, Typed, TypeOK, Wait, clusterVars, tableVars, poolVars, worldVars
<1> QED  BY <1>1, <1>2, MovesKeeps DEF Threads

LEMMA LeaveKeeps == ASSUME NEW w \in Workers PROVE IInv /\ Leave(w) => IInv'
<1> SUFFICES ASSUME IInv, Leave(w) PROVE IInv'
  OBVIOUS
<1>1. Moves(w, "off")
  BY DEF Leave, Go, Moves, placeVars, history
<1>2. TypeOK'
  BY DEF IInv, Typed, TypeOK, Leave, clusterVars, tableVars, poolVars, worldVars
<1> QED  BY <1>1, <1>2, MovesKeeps DEF Threads

(* The operation itself: what a thread does with the task in its hands.    *)
Operate(w) == Look(w) \/ Check(w) \/ Command(w) \/ Probe(w)

LEMMA OperateMoves ==
  ASSUME IInv, NEW w \in Workers, Operate(w)
  PROVE  \E q : Moves(w, q)
<1> USE DEF Go, Moves, placeVars, history, Engaged, WithTask
<1>1. CASE Look(w)
  <2>1. at[w] = "look" /\ UNCHANGED placeVars
    BY <1>1 DEF Look
  <2>2. \E q \in {"done", "check", "command", "fail"} : Go(w, q)
    BY <1>1 DEF Look
  <2> QED  BY <2>1, <2>2
<1>2. CASE Check(w)
  <2>1. at[w] = "check" /\ UNCHANGED placeVars
    BY <1>2 DEF Check
  <2>2. \E q \in {"done", "command", "throw"} : Go(w, q)
    BY <1>2 DEF Check
  <2> QED  BY <2>1, <2>2
<1>3. CASE Command(w)
  <2>1. at[w] = "command" /\ UNCHANGED placeVars
    BY <1>3 DEF Command
  <2>2. \E q \in {"probe", "done", "fail", "throw"} : Go(w, q)
    BY <1>3 DEF Command
  <2> QED  BY <2>1, <2>2
<1>4. CASE Probe(w)
  <2>1. at[w] = "probe" /\ UNCHANGED placeVars
    BY <1>4 DEF Probe
  <2>2. at' = at \/ \E q \in {"done", "fail", "throw"} : Go(w, q)
    BY <1>4 DEF Probe
  <2>3. at' = at => at' = [at EXCEPT ![w] = "probe"]
    BY <2>1 DEF IInv, Typed
  <2> QED  BY <2>1, <2>2, <2>3
<1> QED  BY <1>1, <1>2, <1>3, <1>4 DEF Operate

LEMMA OperateKeeps == ASSUME NEW w \in Workers PROVE IInv /\ Operate(w) => IInv'
<1> SUFFICES ASSUME IInv, Operate(w) PROVE IInv'
  OBVIOUS
<1> USE ElStartAssumption
<1>1. TypeOK
  BY DEF IInv, Typed
<1>2. PICK q : Moves(w, q)
  BY OperateMoves
<1>3. UNCHANGED <<nodeps_, executed>>
  BY DEF Operate, Look, Check, Command, Probe
<1>4. right' \subseteq Tasks /\ turning' \subseteq Tasks
  <2>1. CASE Command(w)
    <3>1. held[w] \in Tasks
      BY <2>1, InHand DEF Command, WithTask, Engaged
    <3>2. right' \in {right, right \union {held[w]}}
      BY <2>1 DEF Command, TakesEffect, worldVars
    <3>3. turning' \in {turning, turning \union {held[w]}}
      BY <2>1 DEF Command, TakesEffect, worldVars
    <3> QED  BY <1>1, <3>1, <3>2, <3>3 DEF TypeOK
  <2>2. CASE Look(w) \/ Check(w) \/ Probe(w)
    BY <1>1, <2>2 DEF Look, Check, Probe, worldVars, TypeOK
  <2> QED  BY <2>1, <2>2 DEF Operate
<1>5. probe' \in [Workers -> 0 .. Probes]
  <2>1. CASE Probe(w)
    <3>1. \/ probe' = probe
          \/ probe[w] < Probes /\ probe' = [probe EXCEPT ![w] = @ + 1]
      BY <2>1 DEF Probe
    <3> QED  BY <1>1, <3>1 DEF TypeOK
  <2>2. CASE Command(w)
    BY <1>1, <2>2 DEF Command, TypeOK
  <2>3. CASE Look(w) \/ Check(w)
    BY <1>1, <2>3 DEF Look, Check, TypeOK
  <2> QED  BY <2>1, <2>2, <2>3 DEF Operate
<1>6. TypeOK'
  BY <1>1, <1>2, <1>3, <1>4, <1>5
     DEF TypeOK, Moves, placeVars, clusterVars, tableVars, poolVars
<1> QED  BY <1>2, <1>6, MovesKeeps DEF Threads

(* Two threads that lose their commands' ends remain engaged. *)
LEMMA TakesChildGoes ==
  ASSUME IInv, NEW w \in Workers, TakesChild(w)
  PROVE  /\ UNCHANGED <<placeVars, probe, nodeps_, executed, misjudged, unforked>>
         /\ \A u \in Threads :
              \/ at'[u] = at[u]
              \/ u \in Workers /\ at[u] \in Engaged /\ at'[u] = "throw"
         /\ \E v \in Workers :
              /\ at' = [at EXCEPT ![w] = "throw", ![v] = "throw"]
              /\ at[v] \in Engaged
              /\ right' \in {right, right \union {held[v]}}
              /\ turning' \in {turning, turning \union {held[v]}}
<1>1. PICK v \in Workers \ {w} :
        /\ Commanding(v)
        /\ at' = [at EXCEPT ![w] = "throw", ![v] = "throw"]
        /\ \/ UNCHANGED worldVars
           \/ TakesEffect(held[v])
  BY DEF TakesChild
<1>2. at[w] \in Engaged /\ at[v] \in Engaged
  BY <1>1 DEF TakesChild, Commanding, Engaged
<1>3. /\ right' \in {right, right \union {held[v]}}
      /\ turning' \in {turning, turning \union {held[v]}}
  BY <1>1 DEF TakesEffect, worldVars
<1>4. \A u \in Threads :
        \/ at'[u] = at[u]
        \/ u \in Workers /\ at[u] \in Engaged /\ at'[u] = "throw"
  BY <1>1, <1>2 DEF IInv, Typed, Threads
<1>5. UNCHANGED <<placeVars, probe, nodeps_, executed, misjudged, unforked>>
  BY DEF TakesChild, placeVars, history
<1> QED  BY <1>1, <1>2, <1>3, <1>4, <1>5

LEMMA TakesChildKeeps ==
  ASSUME NEW w \in Workers PROVE IInv /\ TakesChild(w) => IInv'
<1> SUFFICES ASSUME IInv, TakesChild(w) PROVE IInv'
  OBVIOUS
<1> USE ElStartAssumption
<1>1. /\ UNCHANGED <<placeVars, probe, nodeps_, executed>>
      /\ \A u \in Threads :
           \/ at'[u] = at[u]
           \/ u \in Workers /\ at[u] \in Engaged /\ at'[u] = "throw"
  BY TakesChildGoes
<1>2. PICK v \in Workers :
        /\ at' = [at EXCEPT ![w] = "throw", ![v] = "throw"]
        /\ at[v] \in Engaged
        /\ right' \in {right, right \union {held[v]}}
        /\ turning' \in {turning, turning \union {held[v]}}
  BY TakesChildGoes
<1>3. at'["main"] = at["main"] /\ "main" \in Threads /\ "main" \notin Workers
  BY <1>1 DEF Threads
<1>4. ~Before /\ Parsed /\ at["main"] # "validate"
  <2>1. at[v] # "off"
    BY <1>2 DEF Engaged
  <2> QED  BY <2>1, AtWork DEF IInv
<1>5. TypeOK'
  <2>1. held[v] \in Tasks
    BY <1>2, InHand DEF WithTask
  <2>2. right' \subseteq Tasks /\ turning' \subseteq Tasks
    BY <1>2, <2>1 DEF IInv, Typed, TypeOK
  <2> QED  BY <1>1, <2>2 DEF IInv, Typed, TypeOK, placeVars, clusterVars,
                             tableVars, poolVars
<1>6. (Tables /\ TablesEnabled /\ InOrder /\ DoneInOrder)'
  BY <1>1, <1>4, TablesStay DEF IInv, placeVars
<1>7. AllTasks' = AllTasks
  BY <1>1 DEF AllTasks, placeVars, clusterVars
<1>8. Typed'
  <2>1. done' \subseteq AllTasks'
    BY <1>1, <1>7 DEF IInv, Typed, placeVars
  <2>2. at' \in [Threads -> MainPlaces \union WorkerPlaces]
    BY <1>2 DEF IInv, Typed, WorkerPlaces, WithTask, Engaged
  <2>3. \A u \in Workers : at'[u] \in WorkerPlaces
    BY <1>1 DEF IInv, Typed, WorkerPlaces, WithTask, Engaged, Threads
  <2> QED  BY <1>3, <1>5, <2>1, <2>2, <2>3 DEF IInv, Typed
<1>9. Quiet'
  BY <1>3, <1>4 DEF Quiet, Before
<1>10. Hands'
  <2>1. \A u \in Workers : at'[u] \in WithTask <=> at[u] \in WithTask
    BY <1>1 DEF WithTask, Engaged, Threads
  <2> QED  BY <1>1, <2>1 DEF IInv, Hands, placeVars, poolVars
<1>11. \A u \in Threads : at'[u] \in {"layer", "submit", "internal error"}
                            => at'[u] = at[u]
  BY <1>1
<1>12. Locked'
  BY <1>1, <1>11 DEF IInv, Locked, placeVars
<1>13. Pending' = Pending /\ \A x : Ready(x)' = Ready(x)
  BY <1>1, <1>7 DEF Pending, Busy, Ready, placeVars, poolVars, tableVars
<1>14. InLayer'
  BY <1>1, <1>13 DEF IInv, InLayer, placeVars
<1>15. Counted'
  BY <1>1, <1>11, <1>13 DEF IInv, Counted, placeVars, clusterVars, tableVars
<1>16. StopMeans'
  BY <1>1, <1>3, <1>4 DEF IInv, StopMeans, Before, placeVars, poolVars, tableVars
<1> QED  BY <1>6, <1>8, <1>9, <1>10, <1>12, <1>14, <1>15, <1>16 DEF IInv

(* The effect of a command that comes late, and steps of nobody. *)
LEMMA StillKeeps ==
  ASSUME IInv, TypeOK', UNCHANGED <<placeVars, at>>
  PROVE  IInv'
<1> USE DEF IInv, placeVars, clusterVars, tableVars, poolVars
<1>1. \A s : Prerequisites(s)' = Prerequisites(s)
  BY DEF Prerequisites, reversed
<1>2. AllTasks' = AllTasks
  BY DEF AllTasks
<1>3. Typed' /\ Quiet' /\ Hands' /\ Locked'
  BY <1>2 DEF Typed, Quiet, Before, Hands, Locked
<1>4. Tables' /\ TablesEnabled' /\ DoneInOrder' /\ InOrder'
  BY <1>1 DEF Tables, TablesEnabled, DoneInOrder, InOrder, Parsed
<1>5. Pending' = Pending /\ \A x : Ready(x)' = Ready(x)
  BY <1>2 DEF Pending, Busy, Ready
<1>6. InLayer' /\ Counted'
  BY <1>5 DEF InLayer, Counted
<1>7. StopMeans'
  BY DEF StopMeans, Before
<1> QED  BY <1>3, <1>4, <1>6, <1>7

LEMMA TurnKeeps == ASSUME NEW x \in Tasks PROVE IInv /\ Turn(x) => IInv'
<1> SUFFICES ASSUME IInv, Turn(x) PROVE IInv'
  OBVIOUS
<1>1. TypeOK'
  BY DEF IInv, Typed, TypeOK, Turn, clusterVars, tableVars, poolVars
<1> QED  BY <1>1, StillKeeps DEF Turn, placeVars, history

LEMMA StutterKeeps == IInv /\ UNCHANGED vars => IInv'
<1> SUFFICES ASSUME IInv, UNCHANGED vars PROVE IInv'
  OBVIOUS
<1>1. TypeOK'
  BY DEF IInv, Typed, TypeOK, vars, clusterVars, tableVars, poolVars, worldVars
<1> QED  BY <1>1, StillKeeps DEF vars, placeVars, history

(* Taking a task from the queue: it stays under way. *)
LEMMA DequeueKeeps == ASSUME NEW w \in Workers PROVE IInv /\ Dequeue(w) => IInv'
<1> SUFFICES ASSUME IInv, Dequeue(w) PROVE IInv'
  OBVIOUS
<1> USE ElStartAssumption
<1> USE DEF IInv
<1>1. /\ ~Before /\ Parsed /\ at["main"] # "validate"
      /\ w \in Threads /\ w # "main"
  BY AtWork DEF Dequeue
<1>2. PICK x \in tasks_ : /\ tasks_' = tasks_ \ {x}
                          /\ held' = [held EXCEPT ![w] = x]
  BY DEF Dequeue
<1>3. x \in Tasks /\ x # NoTask /\ held[w] = NoTask
  BY DEF Typed, TypeOK, Hands, Dequeue, WithTask, Engaged
<1>4. /\ at'[w] = "decide" /\ held'[w] = x
      /\ \A u \in Threads \ {w} : at'[u] = at[u]
      /\ \A v \in Workers \ {w} : held'[v] = held[v]
  BY <1>1, <1>2 DEF Dequeue, Go, Typed, TypeOK
<1>5. (Tables /\ TablesEnabled /\ InOrder /\ DoneInOrder)'
  BY <1>1, TablesStay DEF Dequeue, history
<1>6. Typed'
  <2>1. TypeOK'
    BY <1>2, <1>3 DEF Typed, TypeOK, Dequeue, clusterVars, tableVars, worldVars
  <2>2. at' \in [Threads -> MainPlaces \union WorkerPlaces]
    BY DEF Dequeue, Go, Typed, WorkerPlaces, WithTask
  <2>3. at'["main"] \in MainPlaces /\ \A v \in Workers : at'[v] \in WorkerPlaces
    BY <1>1, <1>4 DEF Typed, WorkerPlaces, WithTask, Threads
  <2>4. done' \subseteq AllTasks'
    BY DEF Typed, Dequeue, history, clusterVars, AllTasks
  <2> QED  BY <2>1, <2>2, <2>3, <2>4 DEF Typed
<1>7. ~Before'
  BY <1>1, <1>4 DEF Before, Threads
<1>8. Hands'
  <2>1. \A v \in Workers : held'[v] \notin tasks_'
    BY <1>2, <1>4 DEF Hands
  <2>2. \A v \in Workers : at'[v] \in WithTask <=> held'[v] # NoTask
    BY <1>3, <1>4 DEF Hands, WithTask, Threads
  <2>3. \A u, v \in Workers : held'[v] # NoTask /\ held'[u] = held'[v] => u = v
    BY <1>4 DEF Hands
  <2> QED  BY <2>1, <2>2, <2>3 DEF Hands
<1>9. Locked'
  BY <1>4 DEF Locked, Dequeue
<1>10. Pending' = Pending
  <2>1. Busy' = Busy \union {x}
    BY <1>3, <1>4 DEF Busy
  <2> QED  BY <1>2, <2>1 DEF Pending
<1>11. \A y : Ready(y)' = Ready(y)
  BY DEF Ready, AllTasks, Dequeue, history, clusterVars, tableVars
<1>12. InLayer'
  BY <1>10, <1>11 DEF InLayer, Dequeue
<1>13. Counted'
  BY <1>4, <1>10 DEF Counted, Dequeue, history, clusterVars, tableVars
<1>14. StopMeans'
  BY <1>1 DEF StopMeans, Dequeue, history, tableVars
<1> QED  BY <1>5, <1>6, <1>7, <1>8, <1>9, <1>12, <1>13, <1>14 DEF Quiet

-----------------------------------------------------------------------------
(* A task that leaves a thread's hands is under way no more. *)
LEMMA OneLess ==
  ASSUME IInv, NEW w \in Workers, at[w] \in WithTask,
         held' = [held EXCEPT ![w] = NoTask], tasks_' = tasks_
  PROVE  /\ Pending' = Pending \ {held[w]}
         /\ Cardinality(Pending') = Cardinality(Pending) - 1
         /\ Cardinality(Pending) \in Nat \ {0}
         /\ layer_counter_ >= Cardinality(Pending)
         /\ layer_counter_ \in Nat
<1> USE DEF IInv
<1>1. held[w] # NoTask /\ held[w] \in Pending
  BY InHand DEF Hands
<1>2. Busy' = Busy \ {held[w]}
  <2>1. /\ held'[w] = NoTask
        /\ \A v \in Workers \ {w} : held'[v] = held[v]
    BY DEF Typed, TypeOK
  <2>2. \A v \in Workers \ {w} : held[v] # held[w]
    BY <1>1 DEF Hands
  <2> QED  BY <2>1, <2>2 DEF Busy
<1>3. Pending' = Pending \ {held[w]}
  BY <1>2 DEF Pending, Hands
<1>4. IsFiniteSet(Pending) /\ Cardinality(Pending) \in Nat
  BY PendingAreTasks DEF Typed
<1>5. Cardinality(Pending \ {held[w]}) = Cardinality(Pending) - 1
  BY <1>1, <1>4, FS_RemoveElement
<1>6. Cardinality(Pending) # 0
  BY <1>1, <1>4, FS_EmptySet
<1>7. layer_counter_ \in Nat /\ layer_counter_ >= Cardinality(Pending)
  <2>1. layer_counter_ \in Nat
    BY DEF Typed, TypeOK
  <2>2. \/ layer_counter_ = Cardinality(Pending)
        \/ layer_counter_ > Cardinality(Pending)
    BY DEF Counted
  <2> HIDE DEF IInv
  <2> QED  BY <1>4, <2>1, <2>2
<1>8. Cardinality(Pending') = Cardinality(Pending) - 1
  BY <1>3, <1>5, Zenon
<1>9. Cardinality(Pending) \in Nat \ {0}
  BY <1>4, <1>6
<1> QED  BY <1>3, <1>7, <1>8, <1>9

(* A thread that lets go of its task without having done it, in a pool     *)
(* that is stopped.                                                        *)
LetsGo(w, q) ==
  /\ at[w] \in WithTask /\ q \in {"loop", "off"}
  /\ at' = [at EXCEPT ![w] = q]
  /\ held' = [held EXCEPT ![w] = NoTask]
  /\ stop_' = TRUE
  /\ failed' \in {failed, failed \union {held[w]}}
  /\ failed' # {}
  /\ UNCHANGED <<clusterVars, tableVars, left, layer_counter_, lock_, unsent,
                 tasks_, done>>

LEMMA LetsGoKeeps ==
  ASSUME IInv, TypeOK', NEW w \in Workers, NEW q, LetsGo(w, q)
  PROVE  IInv'
<1> USE ElStartAssumption
<1> USE DEF IInv
<1>1. /\ ~Before /\ Parsed /\ at["main"] # "validate"
      /\ w \in Threads /\ w # "main"
  BY AtWork DEF LetsGo, WithTask, Engaged
<1>2. /\ at'[w] = q /\ held'[w] = NoTask
      /\ \A u \in Threads \ {w} : at'[u] = at[u]
      /\ \A v \in Workers \ {w} : held'[v] = held[v]
  BY <1>1 DEF LetsGo, Typed, TypeOK
<1>3. (Tables /\ TablesEnabled /\ InOrder /\ DoneInOrder)'
  BY <1>1, TablesStay DEF LetsGo
<1>4. Typed'
  <2>1. at' \in [Threads -> MainPlaces \union WorkerPlaces]
    BY DEF LetsGo, Typed, WorkerPlaces
  <2>2. at'["main"] \in MainPlaces /\ \A v \in Workers : at'[v] \in WorkerPlaces
    BY <1>1, <1>2 DEF LetsGo, Typed, WorkerPlaces, Threads
  <2>3. done' \subseteq AllTasks'
    BY DEF Typed, LetsGo, clusterVars, AllTasks
  <2> QED  BY <2>1, <2>2, <2>3 DEF Typed
<1>5. ~Before'
  BY <1>1, <1>2 DEF Before, Threads
<1>6. Hands'
  <2>1. \A v \in Workers : at'[v] \in WithTask <=> held'[v] # NoTask
    BY <1>2 DEF LetsGo, Hands, WithTask, Engaged, Threads
  <2>2. \A u, v \in Workers : held'[v] # NoTask /\ held'[u] = held'[v] => u = v
    BY <1>2 DEF Hands
  <2>3. \A v \in Workers : held'[v] \notin tasks_'
    BY <1>2 DEF Hands, LetsGo, Typed, TypeOK
  <2> QED  BY <2>1, <2>2, <2>3 DEF Hands
<1>7. Locked'
  BY <1>2 DEF Locked, LetsGo
<1>8. /\ Pending' = Pending \ {held[w]}
      /\ Cardinality(Pending') < layer_counter_
      /\ layer_counter_ # 0
  <2>1. /\ Pending' = Pending \ {held[w]}
        /\ Cardinality(Pending') = Cardinality(Pending) - 1
        /\ Cardinality(Pending) \in Nat \ {0}
        /\ layer_counter_ >= Cardinality(Pending)
        /\ layer_counter_ \in Nat
    BY OneLess DEF LetsGo
  <2> HIDE DEF IInv
  <2> QED  BY <2>1
<1>9. InLayer'
  <2>1. held[w] \in Pending
    BY InHand DEF LetsGo
  <2>2. \A x : Ready(x) /\ x # held[w] => Ready(x)'
    BY DEF Ready, AllTasks, LetsGo, clusterVars, tableVars
  <2> QED  BY <1>8, <2>1, <2>2 DEF InLayer, LetsGo
<1>10. Counted'
  BY <1>2, <1>8 DEF Counted, LetsGo, clusterVars, tableVars
<1>11. StopMeans'
  BY DEF StopMeans, LetsGo
<1> QED  BY <1>3, <1>4, <1>5, <1>6, <1>7, <1>9, <1>10, <1>11 DEF Quiet

(* A task is dropped only when another has failed: a pool that was stopped *)
(* because nothing is left has no task.                                    *)
LEMMA DecideKeeps == ASSUME NEW w \in Workers PROVE IInv /\ Decide(w) => IInv'
<1> SUFFICES ASSUME IInv, Decide(w) PROVE IInv'
  OBVIOUS
<1>1. at[w] \in WithTask
  BY DEF Decide, WithTask
<1>2. TypeOK'
  BY DEF IInv, Typed, TypeOK, Decide, clusterVars, tableVars, poolVars, worldVars
<1>3. CASE stop_
  <2>1. failed # {}
    <3>1. services_ # {}
      BY <1>1, InHand DEF Ready
    <3>2. ~Before
      BY AtWork DEF Decide, IInv
    <3> QED  BY <1>3, <3>1, <3>2 DEF IInv, StopMeans
  <2>2. LetsGo(w, "loop")
    BY <1>1, <1>3, <2>1 DEF Decide, Go, LetsGo, history, poolVars, IInv, Typed, TypeOK
  <2> QED  BY <1>2, <2>2, LetsGoKeeps
<1>4. CASE ~stop_
  <2>1. Moves(w, "look")
    BY <1>1, <1>4 DEF Decide, Go, Moves, placeVars, history, Engaged
  <2> QED  BY <1>2, <2>1, MovesKeeps DEF Threads
<1> QED  BY <1>3, <1>4

LEMMA FailKeeps == ASSUME NEW w \in Workers PROVE IInv /\ Fail(w) => IInv'
<1> SUFFICES ASSUME IInv, Fail(w) PROVE IInv'
  OBVIOUS
<1>1. TypeOK'
  BY DEF IInv, Typed, TypeOK, Fail, clusterVars, tableVars, worldVars
<1>2. PICK q \in {"loop", "off"} : Go(w, q)
  BY DEF Fail
<1>3. LetsGo(w, q)
  BY <1>2 DEF Fail, Go, LetsGo, WithTask, Engaged
<1> QED  BY <1>1, <1>3, LetsGoKeeps

-----------------------------------------------------------------------------
(* As long as services are left, one of them waits for none. *)
LEMMA SomeLayer ==
  ASSUME IInv, Parsed, at["main"] # "validate", services_ # {}
  PROVE  Layer # {}
<1> USE DEF IInv
<1>1. services_ \subseteq cluster.enabled
  BY DEF TablesEnabled
<1>2. left = {}
  BY DEF InOrder
<1>3. services_ \in SUBSET cluster.enabled /\ services_ \intersect left = {}
  BY <1>1, <1>2
<1>4. /\ \E s \in services_ : cluster.after[s] \intersect services_ = {}
      /\ \E s \in services_ : \A p \in services_ : s \notin cluster.after[p]
  BY <1>3 DEF InOrder
<1>5. PICK s \in services_ : Prerequisites(s) \intersect services_ = {}
  <2>1. CASE reversed
    <3>1. PICK s \in services_ : \A p \in services_ : s \notin cluster.after[p]
      BY <1>4
    <3> QED  BY <2>1, <3>1 DEF Prerequisites
  <2>2. CASE ~reversed
    <3>1. PICK s \in services_ : cluster.after[s] \intersect services_ = {}
      BY <1>4
    <3> QED  BY <2>2, <3>1 DEF Prerequisites
  <2> QED  BY <2>1, <2>2
<1>6. hosts[s] # {} /\ waitsFor[s] = {}
  BY <1>1, <1>5 DEF Tables
<1>7. PICK h \in hosts[s] : TRUE
  BY <1>6
<1>8. <<s, h>> \in Tasks
  BY <1>7 DEF Tasks, Typed, TypeOK
<1>9. <<s, h>> \in Layer
  BY <1>6, <1>7, <1>8 DEF Layer
<1> QED  BY <1>9

(* A layer is begun when nothing is under way; all of it is ready. *)
LEMMA BeginLayerKeeps ==
  ASSUME NEW t \in Threads PROVE IInv /\ BeginLayer(t) => IInv'
<1> SUFFICES ASSUME IInv, BeginLayer(t) PROVE IInv'
  OBVIOUS
<1> USE ElStartAssumption
<1> USE DEF IInv
<1>1. /\ ~Before /\ Parsed /\ at["main"] # "validate"
      /\ t \in Workers => t # "main"
  <2>1. CASE t = "main"
    BY <2>1 DEF BeginLayer, Before, Parsed
  <2>2. CASE t \in Workers
    BY <2>2, AtWork DEF BeginLayer
  <2> QED  BY <2>1, <2>2 DEF Threads
<1>2. layer_counter_ = 0 /\ (services_ # {} \/ (t = "main" /\ cluster.enabled = {}))
  BY DEF BeginLayer, Counted
<1>3. failed = {} /\ Pending = {}
  <2>1. /\ IsFiniteSet(Pending) /\ Cardinality(Pending) \in Nat
    BY PendingAreTasks DEF Typed
  <2>2. /\ failed = {} => layer_counter_ = Cardinality(Pending)
        /\ failed # {} => layer_counter_ > Cardinality(Pending)
    BY DEF Counted
  <2>3. failed = {} /\ Cardinality(Pending) = 0
    BY <1>2, <2>1, <2>2
  <2> QED  BY <2>1, <2>3, FS_EmptySet
<1>4. PICK q \in {"submit", "internal error"} :
        /\ at' = [at EXCEPT ![t] = q]
        /\ q = "internal error" => t = "main" /\ cluster.enabled = {}
  <2>1. Layer = {} => t = "main" /\ cluster.enabled = {}
    BY <1>1, <1>2, SomeLayer
  <2> QED  BY <1>2, <2>1 DEF BeginLayer, Go
<1>5. at'[t] = q /\ \A u \in Threads \ {t} : at'[u] = at[u]
  BY <1>4 DEF Typed
<1>6. (Tables /\ TablesEnabled /\ InOrder /\ DoneInOrder)'
  BY <1>1, TablesStay DEF BeginLayer, history
<1>7. Typed'
  <2>1. Layer \subseteq Tasks
    BY DEF Layer
  <2>2. TypeOK'
    BY <2>1 DEF Typed, TypeOK, BeginLayer, clusterVars, tableVars, poolVars, worldVars
  <2>3. at' \in [Threads -> MainPlaces \union WorkerPlaces]
    BY <1>4 DEF Typed, WorkerPlaces
  <2>4. at'["main"] \in MainPlaces /\ \A v \in Workers : at'[v] \in WorkerPlaces
    BY <1>5 DEF Typed, MainPlaces, WorkerPlaces, Threads
  <2>5. done' \subseteq AllTasks'
    BY DEF Typed, BeginLayer, history, clusterVars, AllTasks
  <2> QED  BY <2>2, <2>3, <2>4, <2>5 DEF Typed
<1>8. ~Before'
  BY <1>1, <1>5 DEF Before, Threads
<1>9. Hands'
  <2>1. \A v \in Workers : at'[v] \in WithTask <=> at[v] \in WithTask
    BY <1>5 DEF BeginLayer, WithTask, Engaged, Threads
  <2> QED  BY <2>1 DEF Hands, BeginLayer, poolVars
<1>10. Locked'
  BY <1>5 DEF Locked, BeginLayer
<1>11. Pending' = {}
  BY <1>3 DEF Pending, Busy, BeginLayer, poolVars
<1>12. InLayer'
  <2>1. \A x \in Layer : Ready(x)
    <3>1. \A x \in Layer : x[1] \in cluster.enabled /\ x[2] \in cluster.hosts[x[1]]
      BY <1>1 DEF Layer, Tables, TablesEnabled
    <3> QED  BY <1>3, <3>1 DEF Ready, AllTasks, Layer
  <2>2. \A x : Ready(x)' = Ready(x)
    BY DEF Ready, AllTasks, BeginLayer, history, clusterVars, tableVars
  <2> QED  BY <1>11, <2>1, <2>2 DEF InLayer, BeginLayer
<1>13. Counted'
  <2>1. Cardinality(Pending') = 0
    BY <1>11, FS_EmptySet
  <2>2. failed' = {} /\ layer_counter_' = 0
    BY <1>2, <1>3 DEF BeginLayer, history
  <2>3. \A u \in Threads : at'[u] = "layer" => u # t /\ at[u] = "layer"
    BY <1>5
  <2>4. \A u \in Threads : at'[u] = "layer" => FALSE
    BY <2>3 DEF Locked, BeginLayer
  <2>5. \A u \in Threads :
          at'[u] = "internal error" => u = "main" /\ cluster'.enabled = {}
    BY <1>4, <1>5 DEF Counted, BeginLayer, clusterVars
  <2> QED  BY <2>1, <2>2, <2>4, <2>5 DEF Counted
<1>14. StopMeans'
  BY <1>1 DEF StopMeans, BeginLayer, history, tableVars, poolVars
<1> QED  BY <1>6, <1>7, <1>8, <1>9, <1>10, <1>12, <1>13, <1>14 DEF Quiet

(* A task that is submitted is under way, or has been dropped by a pool in *)
(* which another has failed: the counter counts it in any case.            *)
LEMMA SubmitKeeps ==
  ASSUME NEW t \in Threads PROVE IInv /\ Submit(t) => IInv'
<1> SUFFICES ASSUME IInv, Submit(t) PROVE IInv'
  OBVIOUS
<1> USE ElStartAssumption
<1> USE DEF IInv
<1>1. /\ ~Before /\ Parsed /\ at["main"] # "validate"
      /\ t \in Workers => t # "main"
  <2>1. CASE t = "main"
    BY <2>1 DEF Submit, Before, Parsed
  <2>2. CASE t \in Workers
    BY <2>2, AtWork DEF Submit
  <2> QED  BY <2>1, <2>2 DEF Threads
<1>2. PICK x \in unsent : /\ unsent' = unsent \ {x}
                          /\ tasks_' = IF stop_ THEN tasks_ ELSE tasks_ \union {x}
  BY DEF Submit
<1>3. Ready(x) /\ x \notin Pending /\ x \in Tasks /\ x # NoTask
  BY DEF InLayer, Typed, TypeOK
<1>4. lock_ = t /\ at[t] = "submit"
  BY DEF Submit, Locked
<1>5. PICK q \in {"submit", "wait", "loop"} :
        /\ at' = [at EXCEPT ![t] = q]
        /\ q = "submit" => lock_' = t
        /\ q # "submit" => q = IF t = "main" THEN "wait" ELSE "loop"
  <2>1. CASE unsent' = {}
    BY <2>1 DEF Submit, Go
  <2>2. CASE unsent' # {}
    <3>1. at' = [at EXCEPT ![t] = "submit"]
      BY <1>4, <2>2 DEF Submit, Typed
    <3>2. lock_' = t
      BY <1>4, <2>2 DEF Submit
    <3> QED  BY <3>1, <3>2
  <2> QED  BY <2>1, <2>2
<1>6. at'[t] = q /\ \A u \in Threads \ {t} : at'[u] = at[u]
  BY <1>5 DEF Typed
<1>7. \A u \in Threads \ {t} : at[u] \notin {"layer", "submit"}
  BY <1>4 DEF Locked
<1>8. (Tables /\ TablesEnabled /\ InOrder /\ DoneInOrder)'
  BY <1>1, TablesStay DEF Submit, history
<1>9. Typed'
  <2>1. unsent' \subseteq Tasks /\ tasks_' \subseteq Tasks
    BY <1>2, <1>3 DEF Typed, TypeOK
  <2>2. layer_counter_' \in Nat
    BY DEF Typed, TypeOK, Submit
  <2>3. lock_' \in Threads \union {NoThread}
    BY DEF Typed, TypeOK, Submit
  <2>4. TypeOK'
    BY <2>1, <2>2, <2>3 DEF Typed, TypeOK, Submit, clusterVars, tableVars, worldVars
  <2>5. at' \in [Threads -> MainPlaces \union WorkerPlaces]
    BY <1>5 DEF Typed, MainPlaces, WorkerPlaces
  <2>6. at'["main"] \in MainPlaces
    BY <1>5, <1>6 DEF Typed, MainPlaces, Threads
  <2>7. \A v \in Workers : at'[v] \in WorkerPlaces
    BY <1>5, <1>6 DEF Typed, WorkerPlaces, Threads
  <2>8. done' \subseteq AllTasks'
    BY DEF Typed, Submit, history, clusterVars, AllTasks
  <2> QED  BY <2>4, <2>5, <2>6, <2>7, <2>8 DEF Typed
<1>10. ~Before'
  BY <1>1, <1>6 DEF Before, Threads
<1>11. Hands'
  <2>1. \A v \in Workers : at'[v] \in WithTask <=> at[v] \in WithTask
    BY <1>4, <1>6 DEF WithTask, Engaged, Threads
  <2>2. \A v \in Workers : held[v] # x
    BY <1>3 DEF Pending, Busy
  <2>3. \A v \in Workers : held[v] \notin tasks_'
    BY <1>2, <2>2 DEF Hands
  <2> QED  BY <2>1, <2>3 DEF Hands, Submit
<1>12. Locked'
  BY <1>5, <1>6, <1>7 DEF Locked
<1>13. Pending' = IF stop_ THEN Pending ELSE Pending \union {x}
  BY <1>2 DEF Pending, Busy, Submit
<1>14. InLayer'
  <2>1. \A y : Ready(y)' = Ready(y)
    BY DEF Ready, AllTasks, Submit, history, clusterVars, tableVars
  <2> QED  BY <1>2, <1>3, <1>13, <2>1 DEF InLayer
<1>15. Counted'
  <2>1. stop_ => failed # {}
    BY <1>1, <1>3 DEF StopMeans, Ready
  <2>2. IsFiniteSet(Pending) /\ Cardinality(Pending) \in Nat
    BY PendingAreTasks DEF Typed
  <2>3. Cardinality(Pending \union {x}) = Cardinality(Pending) + 1
    BY <1>3, <2>2, FS_AddElement
  <2>4. /\ layer_counter_ \in Nat
        /\ failed = {} => layer_counter_ = Cardinality(Pending)
        /\ failed # {} => layer_counter_ > Cardinality(Pending)
    BY DEF Counted, Typed, TypeOK
  <2>5. layer_counter_' = layer_counter_ + 1 /\ failed' = failed
    BY DEF Submit, history
  <2>6. \/ stop_ /\ Cardinality(Pending') = Cardinality(Pending)
        \/ ~stop_ /\ Cardinality(Pending') = Cardinality(Pending) + 1
    BY <1>13, <2>3, Zenon
  <2>7. IF failed' = {} THEN layer_counter_' = Cardinality(Pending')
                        ELSE layer_counter_' > Cardinality(Pending')
    <3> HIDE DEF IInv
    <3>1. CASE failed = {}
      BY <3>1, <2>1, <2>2, <2>4, <2>5, <2>6
    <3>2. CASE failed # {}
      BY <3>2, <2>2, <2>4, <2>5, <2>6
    <3> QED  BY <3>1, <3>2
  <2>8. \A u \in Threads : at'[u] # "layer"
    BY <1>6, <1>7
  <2>9. \A u \in Threads :
          at'[u] = "internal error" => u = "main" /\ cluster'.enabled = {}
    BY <1>6 DEF Counted, Submit, clusterVars
  <2> QED  BY <2>7, <2>8, <2>9 DEF Counted
<1>16. StopMeans'
  BY <1>1 DEF StopMeans, Submit, history, tableVars
<1> QED  BY <1>8, <1>9, <1>10, <1>11, <1>12, <1>14, <1>15, <1>16 DEF Quiet

LEMMA StartPoolKeeps == IInv /\ StartPool => IInv'
<1> SUFFICES ASSUME IInv, StartPool PROVE IInv'
  OBVIOUS
<1> USE ElStartAssumption
<1> USE DEF IInv
<1>1. Before /\ Parsed /\ at["main"] = "pool"
  BY DEF StartPool, Before, Parsed
<1>2. TypeOK'
  BY DEF Typed, TypeOK, StartPool, Threads, clusterVars, tableVars, worldVars
<1>3. /\ tasks_ = {} /\ unsent = {} /\ layer_counter_ = 0 /\ lock_ = NoThread
      /\ done = {} /\ failed = {}
      /\ \A w \in Workers : at[w] = "off" /\ held[w] = NoTask
  BY <1>1 DEF Quiet
<1>4. /\ tasks_' = {} /\ unsent' = {} /\ layer_counter_' = 0
      /\ done' = {} /\ failed' = {}
      /\ \A w \in Workers : held'[w] = NoTask
  BY <1>3 DEF StartPool, history
<1>5. Pending' = {} /\ Cardinality(Pending') = 0
  <2>1. Pending' = {}
    BY <1>4 DEF Pending, Busy
  <2> QED  BY <2>1, FS_EmptySet
<1>6. InLayer' /\ DoneInOrder'
  BY <1>4, <1>5 DEF InLayer, DoneInOrder
<1>7. (Tables /\ TablesEnabled /\ InOrder)'
  BY <1>1, TablesStay DEF StartPool, history
<1>8. CASE /\ stop_' = FALSE /\ lock_' = "main"
           /\ at' = [t \in Threads |-> IF t = "main" THEN "layer" ELSE "loop"]
  <2>1. at'["main"] = "layer" /\ \A w \in Workers : at'[w] = "loop"
    BY <1>8 DEF Threads
  <2>2. Typed'
    BY <1>2, <1>4, <1>8, <2>1 DEF Typed, MainPlaces, WorkerPlaces, WithTask
  <2>3. Quiet' /\ StopMeans'
    BY <1>8, <2>1 DEF Quiet, Before, StopMeans
  <2>4. Hands'
    BY <1>4, <2>1 DEF Hands, WithTask, Engaged
  <2>5. Locked'
    BY <1>8, <2>1 DEF Locked, Threads
  <2>6. services_ # {} \/ cluster.enabled = {}
    BY <1>1, <1>3 DEF Tables
  <2>7. Counted'
    BY <1>4, <1>5, <2>1, <2>6 DEF Counted, Threads, StartPool, clusterVars, tableVars
  <2> QED  BY <1>6, <1>7, <2>2, <2>3, <2>4, <2>5, <2>7
<1>9. CASE Go("main", "threw") /\ UNCHANGED <<stop_, lock_>>
  <2>1. at'["main"] = "threw" /\ \A w \in Workers : at'[w] = "off"
    BY <1>3, <1>9 DEF Go, Typed, Threads
  <2>2. Typed'
    BY <1>2, <1>4, <1>9, <2>1 DEF Typed, MainPlaces, WorkerPlaces, Go
  <2>3. Quiet' /\ StopMeans'
    BY <1>3, <1>4, <1>9, <2>1 DEF Quiet, Before, StopMeans
  <2>4. Hands'
    BY <1>4, <2>1 DEF Hands, WithTask, Engaged
  <2>5. Locked'
    BY <2>1 DEF Locked, Threads
  <2>6. Counted'
    BY <1>4, <1>5, <2>1 DEF Counted, Threads
  <2> QED  BY <1>6, <1>7, <2>2, <2>3, <2>4, <2>5, <2>6
<1> QED  BY <1>8, <1>9 DEF StartPool

-----------------------------------------------------------------------------
(* Reading the description. *)
LEMMA ParseKeeps == IInv /\ Parse => IInv'
<1> SUFFICES ASSUME IInv, Parse PROVE IInv'
  OBVIOUS
<1> USE ElStartAssumption
<1> USE DEF IInv
<1>1. at["main"] = "parse" /\ Before
  BY DEF Parse, Before
<1>2. /\ tasks_ = {} /\ unsent = {} /\ layer_counter_ = 0 /\ lock_ = NoThread
      /\ done = {} /\ failed = {}
      /\ \A w \in Workers : at[w] = "off" /\ held[w] = NoTask
  BY <1>1 DEF Quiet
<1>3. PICK q \in {"threw", "validate"} :
        /\ at' = [at EXCEPT !["main"] = q]
        /\ q = "validate" =>
             /\ \A s \in cluster.enabled : cluster.hosts[s] # {}
             /\ services_' = cluster.enabled /\ left' = cluster.enabled
             /\ waitsFor' = [s \in Services |-> Prerequisites(s)]
             /\ hosts' = cluster.hosts
        /\ q = "threw" => UNCHANGED <<tableVars, left>>
  BY DEF Parse, Go
<1>4. at'["main"] = q /\ \A w \in Workers : at'[w] = "off"
  BY <1>2, <1>3 DEF Typed, Threads
<1>5. /\ tasks_' = {} /\ unsent' = {} /\ layer_counter_' = 0 /\ lock_' = NoThread
      /\ done' = {} /\ failed' = {} /\ stop_' = stop_ /\ cluster' = cluster
      /\ held' = held /\ \A w \in Workers : held'[w] = NoTask
  BY <1>2 DEF Parse, poolVars, history, clusterVars
<1>6. Typed'
  <2>1. /\ services_' \subseteq Services /\ left' \subseteq Services
        /\ waitsFor' \in [Services -> SUBSET Services]
        /\ hosts' \in [Services -> SUBSET Hosts]
    BY <1>3, ClusterFacts DEF Typed, TypeOK, tableVars
  <2>2. TypeOK'
    BY <1>5, <2>1 DEF Typed, TypeOK, Parse, clusterVars, worldVars
  <2>3. at' \in [Threads -> MainPlaces \union WorkerPlaces]
    BY <1>3 DEF Typed, MainPlaces
  <2> QED  BY <1>4, <1>5, <2>2, <2>3 DEF Typed, MainPlaces, WorkerPlaces
<1>7. Quiet' /\ Hands'
  BY <1>4, <1>5 DEF Quiet, Hands, WithTask, Engaged
<1>8. Tables'
  <2>1. \A s : Prerequisites(s)' = Prerequisites(s)
    BY DEF Prerequisites, reversed, Parse, clusterVars
  <2>2. SUFFICES ASSUME q = "validate", NEW s \in cluster.enabled
                 PROVE  /\ cluster.hosts[s] # {}
                        /\ hosts'[s] = {h \in cluster.hosts[s] : <<s, h>> \notin done'}
                        /\ s \in services_' <=> hosts'[s] # {}
                        /\ waitsFor'[s] = Prerequisites(s) \intersect services_'
    BY <1>3, <1>4, <1>5, <2>1 DEF Tables, Parsed
  <2>3. s \in Services /\ Prerequisites(s) \subseteq cluster.enabled
    BY ClusterFacts DEF Typed, TypeOK
  <2> QED  BY <1>3, <1>5, <2>2, <2>3
<1>9. TablesEnabled'
  BY <1>3, <1>4, <1>5 DEF TablesEnabled, Parsed
<1>10. InOrder'
  BY <1>3, <1>4, <1>5, ClusterFacts DEF InOrder, Parsed, Typed, TypeOK
<1>11. Locked'
  BY <1>4 DEF Locked, Threads
<1>12. Pending' = {}
  BY <1>5 DEF Pending, Busy
<1>13. InLayer' /\ DoneInOrder'
  BY <1>5, <1>12 DEF InLayer, DoneInOrder
<1>14. Counted'
  BY <1>4, <1>5, <1>12, FS_EmptySet DEF Counted, Threads
<1>15. StopMeans'
  BY <1>4 DEF StopMeans, Before
<1> QED  BY <1>6, <1>7, <1>8, <1>9, <1>10, <1>11, <1>13, <1>14, <1>15

(* Taking a layer off the copy keeps what is off it in order: what was off *)
(* before does not wait for what is left, and nothing in the layer does.   *)
LEMMA OneMoreLayer ==
  ASSUME Typed, InOrder, at["main"] = "validate",
         NEW layer, layer = {s \in left : cluster.after[s] \intersect left = {}},
         NEW S \in SUBSET cluster.enabled, S # {}, S \intersect (left \ layer) = {}
  PROVE  /\ \E s \in S : cluster.after[s] \intersect S = {}
         /\ \E s \in S : \A p \in S : s \notin cluster.after[p]
<1>1. Parsed
  BY DEF Parsed
<1>2. \A p \in cluster.enabled \ left : cluster.after[p] \intersect left = {}
  BY <1>1 DEF InOrder
<1>3. \A p \in S : cluster.after[p] \intersect left = {}
  BY <1>2
<1>4. \E s \in S : cluster.after[s] \intersect S = {}
  <2>1. CASE S \ left = {}
    BY <1>3, <2>1
  <2>2. CASE S \ left # {}
    <3>1. /\ S \ left \in SUBSET cluster.enabled
          /\ (S \ left) \intersect left = {}
      OBVIOUS
    <3>2. PICK s \in S \ left : cluster.after[s] \intersect (S \ left) = {}
      BY <1>1, <2>2, <3>1 DEF InOrder
    <3> QED  BY <1>3, <3>2
  <2> QED  BY <2>1, <2>2
<1>5. \E s \in S : \A p \in S : s \notin cluster.after[p]
  <2>1. CASE S \intersect left = {}
    BY <1>1, <2>1 DEF InOrder
  <2>2. CASE S \intersect left # {}
    BY <1>3, <2>2
  <2> QED  BY <2>1, <2>2
<1> QED  BY <1>4, <1>5

LEMMA ValidateKeeps == IInv /\ Validate => IInv'
<1> SUFFICES ASSUME IInv, Validate PROVE IInv'
  OBVIOUS
<1> USE ElStartAssumption
<1> USE DEF IInv
<1>1. at["main"] = "validate" /\ Before /\ Parsed
  BY DEF Validate, Before, Parsed
<1>2. /\ tasks_ = {} /\ unsent = {} /\ layer_counter_ = 0 /\ lock_ = NoThread
      /\ done = {} /\ failed = {}
      /\ \A w \in Workers : at[w] = "off" /\ held[w] = NoTask
  BY <1>1 DEF Quiet
<1>3. PICK layer : /\ layer = {s \in left : cluster.after[s] \intersect left = {}}
                   /\ left' = left \ layer
  BY DEF Validate
<1>4. PICK q \in {"threw", "validate", "target"} :
        /\ at' = [at EXCEPT !["main"] = q]
        /\ q = "target" => left = {}
  BY DEF Validate, Go
<1>5. at'["main"] = q /\ \A w \in Workers : at'[w] = "off"
  BY <1>2, <1>4 DEF Typed, Threads
<1>6. /\ tasks_' = {} /\ unsent' = {} /\ layer_counter_' = 0 /\ lock_' = NoThread
      /\ done' = {} /\ failed' = {} /\ stop_' = stop_ /\ UNCHANGED clusterVars
      /\ held' = held /\ \A w \in Workers : held'[w] = NoTask
      /\ UNCHANGED tableVars
  BY <1>2 DEF Validate, poolVars, history, clusterVars
<1>7. Typed'
  <2>1. TypeOK'
    BY <1>3, <1>6 DEF Typed, TypeOK, Validate, clusterVars, tableVars, worldVars
  <2>2. at' \in [Threads -> MainPlaces \union WorkerPlaces]
    BY <1>4 DEF Typed, MainPlaces
  <2> QED  BY <1>5, <1>6, <2>1, <2>2 DEF Typed, MainPlaces, WorkerPlaces
<1>8. Quiet' /\ Hands'
  BY <1>5, <1>6 DEF Quiet, Hands, WithTask, Engaged
<1>9. Tables' /\ TablesEnabled'
  <2>1. \A s : Prerequisites(s)' = Prerequisites(s)
    BY <1>6 DEF Prerequisites, reversed, clusterVars
  <2> QED  BY <1>1, <1>2, <1>6, <2>1
           DEF Tables, TablesEnabled, Parsed, clusterVars, tableVars
<1>10. InOrder'
  <2>1. left \subseteq cluster.enabled
    BY <1>1 DEF InOrder
  <2>2. \A p \in cluster.enabled \ left' : cluster.after[p] \intersect left' = {}
    BY <1>1, <1>3 DEF InOrder
  <2>3. \A S \in SUBSET cluster.enabled :
          S # {} /\ S \intersect left' = {} =>
            /\ \E s \in S : cluster.after[s] \intersect S = {}
            /\ \E s \in S : \A p \in S : s \notin cluster.after[p]
    BY <1>1, <1>3, OneMoreLayer
  <2>4. cluster' = cluster /\ left' \subseteq cluster.enabled
    BY <1>3, <1>6, <2>1 DEF clusterVars
  <2>5. Parsed' /\ at'["main"] # "validate" => left' = {}
    BY <1>3, <1>4, <1>5 DEF Parsed
  <2> QED  BY <2>2, <2>3, <2>4, <2>5 DEF InOrder
<1>11. Locked'
  BY <1>5 DEF Locked, Threads
<1>12. Pending' = {}
  BY <1>6 DEF Pending, Busy
<1>13. InLayer' /\ DoneInOrder'
  BY <1>6, <1>12 DEF InLayer, DoneInOrder
<1>14. Counted'
  BY <1>5, <1>6, <1>12, FS_EmptySet DEF Counted, Threads
<1>15. StopMeans'
  BY <1>5 DEF StopMeans, Before
<1> QED  BY <1>7, <1>8, <1>9, <1>10, <1>11, <1>13, <1>14, <1>15

-----------------------------------------------------------------------------
(* The tables after a task is done. *)
LEMMA DoneTables ==
  ASSUME IInv, NEW w \in Workers, Done(w)
  PROVE  /\ (Tables /\ TablesEnabled /\ DoneInOrder)'
         /\ services_' \subseteq services_
         /\ TypeOK'
         /\ done' \subseteq AllTasks
         /\ \A x : Ready(x) /\ x # held[w] => Ready(x)'
<1> USE ElStartAssumption
<1> USE DEF IInv
<1> DEFINE s == held[w][1]
           h == held[w][2]
<1>1. at[w] = "done" /\ at[w] \in WithTask
  BY DEF Done, WithTask, Engaged
<1>2. /\ Parsed
      /\ held[w] \in Tasks /\ Ready(held[w])
  BY <1>1, AtWork, InHand
<1>3. /\ held[w] = <<s, h>> /\ s \in Services /\ h \in Hosts
      /\ s \in cluster.enabled /\ s \in services_ /\ h \in hosts[s]
      /\ waitsFor[s] = {} /\ held[w] \in AllTasks
  BY <1>2 DEF Tasks, Ready, AllTasks
<1>4. /\ hosts' = [hosts EXCEPT ![s] = hosts[s] \ {h}]
      /\ done' = done \union {<<s, h>>}
      /\ UNCHANGED <<cluster, operation_>>
  BY <1>3 DEF Done, clusterVars
<1>5. /\ hosts'[s] = hosts[s] \ {h}
      /\ \A r \in Services \ {s} : hosts'[r] = hosts[r]
  BY <1>3, <1>4 DEF Typed, TypeOK
<1>6. \/ /\ hosts'[s] = {}
         /\ services_' = services_ \ {s}
         /\ waitsFor' = [r \in Services |-> waitsFor[r] \ {s}]
      \/ /\ hosts'[s] # {}
         /\ UNCHANGED <<services_, waitsFor>>
  BY DEF Done
<1>7. /\ services_' \subseteq services_
      /\ \A r \in Services : waitsFor'[r] = waitsFor[r] \ (services_ \ services_')
      /\ waitsFor' \in [Services -> SUBSET Services]
  <2>1. CASE hosts'[s] = {}
    BY <1>3, <1>6, <2>1 DEF Typed, TypeOK
  <2>2. CASE hosts'[s] # {}
    BY <1>6, <2>2 DEF Typed, TypeOK
  <2> QED  BY <2>1, <2>2
<1>8. \A r : Prerequisites(r)' = Prerequisites(r)
  BY <1>4 DEF Prerequisites, reversed
<1>9. AllTasks' = AllTasks
  BY <1>4 DEF AllTasks
<1>10. cluster.enabled \subseteq Services
  BY ClusterFacts DEF Typed, TypeOK
<1> HIDE DEF s, h
<1>11. Tables'
  <2> SUFFICES ASSUME NEW r \in cluster.enabled
               PROVE  /\ cluster.hosts[r] # {}
                      /\ hosts'[r] = {g \in cluster.hosts[r] : <<r, g>> \notin done'}
                      /\ r \in services_' <=> hosts'[r] # {}
                      /\ waitsFor'[r] = Prerequisites(r) \intersect services_'
    BY <1>4, <1>8 DEF Tables
  <2>1. /\ cluster.hosts[r] # {}
        /\ hosts[r] = {g \in cluster.hosts[r] : <<r, g>> \notin done}
        /\ r \in services_ <=> hosts[r] # {}
        /\ waitsFor[r] = Prerequisites(r) \intersect services_
    BY <1>2 DEF Tables
  <2>2. hosts'[r] = {g \in cluster.hosts[r] : <<r, g>> \notin done'}
    <3>1. CASE r = s
      BY <1>4, <1>5, <2>1, <3>1
    <3>2. CASE r # s
      BY <1>4, <1>5, <1>10, <2>1, <3>2
    <3> QED  BY <3>1, <3>2
  <2>3. r \in services_' <=> hosts'[r] # {}
    <3>1. CASE r = s
      BY <1>3, <1>6, <3>1
    <3>2. CASE r # s
      BY <1>5, <1>6, <1>10, <2>1, <3>2
    <3> QED  BY <3>1, <3>2
  <2>4. waitsFor'[r] = Prerequisites(r) \intersect services_'
    BY <1>7, <1>10, <2>1
  <2> QED  BY <2>1, <2>2, <2>3, <2>4
<1>12. TablesEnabled'
  BY <1>2, <1>4, <1>7 DEF TablesEnabled
<1>13. DoneInOrder'
  <2>1. Prerequisites(s) \intersect services_ = {}
    BY <1>2, <1>3 DEF Tables
  <2> SUFFICES ASSUME NEW x \in done' PROVE Prerequisites(x[1]) \intersect services_' = {}
    BY <1>8 DEF DoneInOrder
  <2>2. CASE x \in done
    BY <1>7, <2>2 DEF DoneInOrder
  <2>3. CASE x = <<s, h>>
    BY <1>7, <2>1, <2>3
  <2> QED  BY <1>4, <2>2, <2>3
<1>14. TypeOK'
  <2>1. layer_counter_' \in Nat
    <3>1. /\ Cardinality(Pending) \in Nat \ {0}
          /\ layer_counter_ >= Cardinality(Pending)
          /\ layer_counter_ \in Nat
      BY <1>1, OneLess DEF Done
    <3>2. layer_counter_' = layer_counter_ - 1
      BY DEF Done
    <3> HIDE DEF IInv
    <3> QED  BY <3>1, <3>2
  <2>2. lock_' \in Threads \union {NoThread} /\ stop_' \in BOOLEAN
    BY DEF Typed, TypeOK, Done, LayerIsDone, Threads
  <2>3. hosts' \in [Services -> SUBSET Hosts]
    BY <1>3, <1>4 DEF Typed, TypeOK
  <2>4. held' \in [Workers -> Tasks \union {NoTask}]
    BY DEF Done, Typed, TypeOK
  <2> QED  BY <1>7, <2>1, <2>2, <2>3, <2>4 DEF Typed, TypeOK, Done, clusterVars, worldVars
<1>15. ASSUME NEW x, Ready(x), x # held[w] PROVE Ready(x)'
  <2>1. x \in AllTasks /\ x[1] \in services_ /\ x[2] \in hosts[x[1]]
        /\ waitsFor[x[1]] = {} /\ x \notin failed
    BY <1>15 DEF Ready
  <2>2. x = <<x[1], x[2]>> /\ x[1] \in Services
    BY <2>1 DEF AllTasks, Tasks
  <2>3. x[2] \in hosts'[x[1]]
    <3>1. CASE x[1] = s
      BY <1>3, <1>5, <1>15, <2>1, <2>2, <3>1
    <3>2. CASE x[1] # s
      BY <1>5, <2>1, <2>2, <3>2
    <3> QED  BY <3>1, <3>2
  <2>4. x[1] \in services_'
    BY <1>6, <2>1, <2>3
  <2>5. waitsFor'[x[1]] = {}
    BY <1>7, <2>1, <2>2
  <2>6. failed' = failed
    BY DEF Done
  <2> QED  BY <1>9, <2>1, <2>3, <2>4, <2>5, <2>6 DEF Ready
<1>16. done' \subseteq AllTasks
  BY <1>3, <1>4 DEF Typed
<1> QED  BY <1>7, <1>11, <1>12, <1>13, <1>14, <1>15, <1>16

(* The counter comes to zero exactly with the last task of a layer; then   *)
(* the next one is begun, or nothing is left.                              *)
LEMMA DoneKeeps == ASSUME NEW w \in Workers PROVE IInv /\ Done(w) => IInv'
<1> SUFFICES ASSUME IInv, Done(w) PROVE IInv'
  OBVIOUS
<1> USE ElStartAssumption
<1> USE DEF IInv
<1>1. at[w] = "done" /\ at[w] \in WithTask /\ lock_ = NoThread
  BY DEF Done, WithTask, Engaged
<1>2. /\ ~Before /\ Parsed /\ at["main"] # "validate"
      /\ w \in Threads /\ w # "main"
  BY <1>1, AtWork
<1>3. /\ (Tables /\ TablesEnabled /\ DoneInOrder)'
      /\ services_' \subseteq services_
      /\ TypeOK'
      /\ done' \subseteq AllTasks
      /\ \A x : Ready(x) /\ x # held[w] => Ready(x)'
  BY DoneTables
<1>4. PICK q \in {"loop", "layer"} :
        /\ at' = [at EXCEPT ![w] = q]
        /\ q = "layer" => layer_counter_' = 0 /\ services_' # {} /\ lock_' = w
        /\ q = "loop" => lock_' = lock_
        /\ stop_' # stop_ => services_' = {}
  BY DEF Done, LayerIsDone, Go
<1>5. /\ at'[w] = q /\ held'[w] = NoTask
      /\ \A u \in Threads \ {w} : at'[u] = at[u]
      /\ \A v \in Workers \ {w} : held'[v] = held[v]
  BY <1>2, <1>4 DEF Done, Typed, TypeOK
<1>6. Typed'
  <2>1. at' \in [Threads -> MainPlaces \union WorkerPlaces]
    BY <1>4 DEF Typed, WorkerPlaces
  <2>2. at'["main"] \in MainPlaces /\ \A v \in Workers : at'[v] \in WorkerPlaces
    BY <1>2, <1>4, <1>5 DEF Typed, WorkerPlaces, Threads
  <2>3. AllTasks' = AllTasks
    BY DEF Done, clusterVars, AllTasks
  <2> QED  BY <1>3, <2>1, <2>2, <2>3 DEF Typed
<1>7. ~Before'
  BY <1>2, <1>5 DEF Before, Threads
<1>8. Hands'
  <2>1. \A v \in Workers : at'[v] \in WithTask <=> held'[v] # NoTask
    BY <1>4, <1>5 DEF Hands, WithTask, Engaged, Threads
  <2>2. \A u, v \in Workers : held'[v] # NoTask /\ held'[u] = held'[v] => u = v
    BY <1>5 DEF Hands
  <2>3. \A v \in Workers : held'[v] \notin tasks_'
    BY <1>5 DEF Hands, Done, Typed, TypeOK
  <2> QED  BY <2>1, <2>2, <2>3 DEF Hands
<1>9. InOrder'
  BY SMTT(30), <1>2, <1>5 DEF InOrder, Parsed, Done, clusterVars, Threads
<1>10. \A u \in Threads \ {w} : at[u] \notin {"layer", "submit"}
  BY <1>1 DEF Locked, Threads, NoThread
<1>11. Locked'
  BY <1>4, <1>5, <1>10 DEF Locked
<1>12. /\ Pending' = Pending \ {held[w]}
       /\ Cardinality(Pending') = Cardinality(Pending) - 1
       /\ Cardinality(Pending) \in Nat \ {0}
       /\ layer_counter_ \in Nat
  BY <1>1, OneLess DEF Done
<1>13. InLayer'
  <2>1. held[w] \in Pending
    BY <1>1, InHand
  <2>2. held[w] \notin unsent /\ unsent' = unsent
    BY <2>1 DEF InLayer, Done
  <2> QED  BY <1>3, <1>12, <2>2 DEF InLayer
<1>14. Counted'
  <2>1. /\ layer_counter_' = layer_counter_ - 1 /\ failed' = failed
        /\ cluster' = cluster
    BY DEF Done, clusterVars
  <2>2. /\ failed = {} => layer_counter_ = Cardinality(Pending)
        /\ failed # {} => layer_counter_ > Cardinality(Pending)
    BY DEF Counted
  <2>3. IF failed' = {} THEN layer_counter_' = Cardinality(Pending')
                        ELSE layer_counter_' > Cardinality(Pending')
    <3> HIDE DEF IInv
    <3>1. CASE failed = {}
      BY <3>1, <1>12, <2>1, <2>2
    <3>2. CASE failed # {}
      BY <3>2, <1>12, <2>1, <2>2
    <3> QED  BY <3>1, <3>2
  <2>4. \A u \in Threads : at'[u] = "layer" => layer_counter_' = 0 /\ services_' # {}
    BY <1>4, <1>5, <1>10
  <2>5. \A u \in Threads :
          at'[u] = "internal error" => u = "main" /\ cluster'.enabled = {}
    BY <1>4, <1>5, <2>1 DEF Counted
  <2> QED  BY <2>3, <2>4, <2>5 DEF Counted
<1>15. StopMeans'
  BY <1>2, <1>3, <1>4 DEF StopMeans, Done, Typed, TypeOK
<1> QED  BY <1>3, <1>6, <1>7, <1>8, <1>9, <1>11, <1>13, <1>14, <1>15 DEF Quiet

-----------------------------------------------------------------------------
LEMMA StepKeepsIInv == IInv /\ [Next]_vars => IInv'
<1> SUFFICES ASSUME IInv, [Next]_vars PROVE IInv'
  OBVIOUS
<1>1. CASE Main
  BY <1>1, ParseKeeps, ValidateKeeps, SetTargetKeeps, StartPoolKeeps,
     BeginLayerKeeps, SubmitKeeps, WaitKeeps DEF Main, Threads
<1>2. ASSUME NEW w \in Workers, Work(w) PROVE IInv'
  <2>1. w \in Threads
    BY DEF Threads
  <2> QED
    BY <1>2, <2>1, DequeueKeeps, LeaveKeeps, DecideKeeps, OperateKeeps, FailKeeps,
       DoneKeeps, BeginLayerKeeps, SubmitKeeps, TakesChildKeeps DEF Work, Operate
<1>3. ASSUME NEW x \in Tasks, Turn(x) PROVE IInv'
  BY <1>3, TurnKeeps
<1>4. CASE UNCHANGED vars
  BY <1>4, StutterKeeps
<1> QED  BY <1>1, <1>2, <1>3, <1>4 DEF Next

THEOREM Invariance == Spec => []IInv
<1>1. Init => IInv
  BY InitIInv
<1>2. IInv /\ [Next]_vars => IInv'
  BY StepKeepsIInv
<1> QED  BY <1>1, <1>2, PTL DEF Spec

(* As long as nothing has failed, layer_counter_ is the number of tasks    *)
(* that are submitted and not done, each of which is in the tables; the    *)
(* exception of execute_on_layer() is met only when all services are       *)
(* disabled.                                                               *)
THEOREM LayersAreExact == Spec => []LayerExact
<1>1. IInv => LayerExact
  BY DEF IInv, Typed, Counted, LayerExact, Pending, InLayer, Ready
<1> QED  BY <1>1, Invariance, PTL

-----------------------------------------------------------------------------
(* Reached(S) is within any set closed under prerequisites that has those  *)
(* of S.                                                                   *)
LEMMA ReachedWithin ==
  ASSUME NEW S, NEW R \in SUBSET cluster.enabled,
         \A s \in S \union R : Prerequisites(s) \subseteq R
  PROVE  Reached(S) \subseteq R
BY DEF Reached

(* The flags are transitive: what a service of S or a service reached from *)
(* S needs is reached from S.                                              *)
LEMMA ReachedIsClosed ==
  ASSUME NEW S, NEW s \in S \union Reached(S)
  PROVE  Reached({s}) \subseteq Reached(S)
<1> SUFFICES ASSUME NEW p \in Reached({s}),
                    NEW R \in SUBSET cluster.enabled,
                    \A r \in S \union R : Prerequisites(r) \subseteq R
             PROVE  p \in R
  BY DEF Reached
<1>1. s \in S \union R
  BY ReachedWithin
<1>2. \A r \in {s} \union R : Prerequisites(r) \subseteq R
  BY <1>1
<1>3. Reached({s}) \subseteq R
  BY <1>2, ReachedWithin
<1> QED  BY <1>3

(* A service that is off the tables is done on all its hosts. *)
LEMMA OffTheTables ==
  ASSUME IInv, Parsed, NEW y \in AllTasks, y[1] \notin services_
  PROVE  y \in done
<1>1. y = <<y[1], y[2]>> /\ y[1] \in cluster.enabled /\ y[2] \in cluster.hosts[y[1]]
  BY DEF AllTasks, Tasks
<1>2. hosts[y[1]] = {h \in cluster.hosts[y[1]] : <<y[1], h>> \notin done}
  BY <1>1 DEF IInv, Tables
<1>3. hosts[y[1]] = {}
  BY <1>1 DEF IInv, Tables
<1> QED  BY <1>1, <1>2, <1>3

(* The services that are off the tables need only such. *)
LEMMA OffTheTablesIsClosed ==
  ASSUME IInv, Parsed, NEW s \in cluster.enabled \ services_
  PROVE  Prerequisites(s) \intersect services_ = {}
<1>1. PICK h \in cluster.hosts[s] : TRUE
  BY DEF IInv, Tables
<1>2. s \in Services /\ h \in Hosts
  BY <1>1, ClusterFacts DEF IInv, Typed, TypeOK
<1>3. <<s, h>> \in AllTasks
  BY <1>1, <1>2 DEF AllTasks, Tasks
<1>4. <<s, h>> \in done
  BY <1>3, OffTheTables
<1> QED  BY <1>4 DEF IInv, DoneInOrder

(* All that a task in hand needs, directly or not, is done. *)
LEMMA AllItNeedsIsDone ==
  ASSUME IInv, NEW w \in Workers, at[w] \in WithTask,
         NEW y \in AllTasks, y[1] \in Reached({held[w][1]})
  PROVE  y \in done
<1> DEFINE s == held[w][1]
           R == cluster.enabled \ services_
<1>1. Parsed
  BY AtWork DEF IInv, WithTask, Engaged
<1>2. \A r : Prerequisites(r) \subseteq cluster.enabled
  BY ClusterFacts DEF IInv, Typed, TypeOK
<1>3. Prerequisites(s) \intersect services_ = {}
  <2>1. Ready(held[w])
    BY InHand
  <2> QED  BY <1>1, <2>1 DEF Ready, AllTasks, IInv, Tables
<1>4. \A r \in R : Prerequisites(r) \intersect services_ = {}
  BY <1>1, OffTheTablesIsClosed
<1>5. \A r \in {s} \union R : Prerequisites(r) \subseteq R
  BY <1>2, <1>3, <1>4
<1>6. Reached({s}) \subseteq R
  <2>1. R \in SUBSET cluster.enabled
    OBVIOUS
  <2> HIDE DEF R, s
  <2> QED  BY <1>5, <2>1, ReachedWithin
<1> QED  BY <1>1, <1>6, OffTheTables

LEMMA InitFInv == Init => FInv
BY ElStartAssumption DEF Init, FInv, ForkOnly, Flags, Fit, Threads

(* Nothing that is right becomes wrong. *)
LEMMA FitStays ==
  ASSUME FInv, UNCHANGED <<clusterVars, nodeps_, executed>>,
         right \subseteq right', misjudged \subseteq misjudged'
  PROVE  /\ Flags'
         /\ \A y : AsItShouldBe(y) => AsItShouldBe(y)'
         /\ \A v \in Workers : at'[v] = at[v] /\ held'[v] = held[v] => Fit(v)'
<1> USE DEF clusterVars
<1>1. AllTasks' = AllTasks /\ (listing <=> listing')
  BY DEF AllTasks, listing
<1>2. \A S : Reached(S)' = Reached(S)
  <2>1. \A r : Prerequisites(r)' = Prerequisites(r)
    BY DEF Prerequisites, reversed
  <2> QED  BY <2>1 DEF Reached
<1>3. Flags'
  BY <1>1, <1>2 DEF FInv, Flags
<1>4. \A y : AsItShouldBe(y) => AsItShouldBe(y)'
  BY DEF AsItShouldBe
<1>5. \A v \in Workers : at'[v] = at[v] /\ held'[v] = held[v] => Fit(v)'
  BY <1>1, <1>4 DEF FInv, Fit
<1> QED  BY <1>3, <1>4, <1>5

(* The command line flags, besides what it names, all that this needs. *)
LEMMA SetTargetKeepsFlags ==
  ASSUME IInv, FInv, SetTarget
  PROVE  FInv'
<1>1. PICK target \in SUBSET AllTasks, nodeps \in BOOLEAN :
        /\ nodeps_' = nodeps
        /\ executed' = target \union
             {x \in AllTasks : /\ ~nodeps
                               /\ x[1] \in Reached({y[1] : y \in target})}
  BY DEF SetTarget
<1> DEFINE T == {y[1] : y \in target}
<1>2. AllTasks' = AllTasks /\ \A S : Reached(S)' = Reached(S)
  <2>1. \A r : Prerequisites(r)' = Prerequisites(r)
    BY DEF Prerequisites, reversed, SetTarget, clusterVars
  <2> QED  BY <2>1 DEF Reached, AllTasks, SetTarget, clusterVars
<1>3. Flags'
  <2> SUFFICES ASSUME ~nodeps, NEW x \in executed', NEW y \in AllTasks,
                      y[1] \in Reached({x[1]})
               PROVE  y \in executed'
    BY <1>1, <1>2 DEF Flags
  <2>1. x[1] \in T \union Reached(T)
    BY <1>1
  <2>2. Reached({x[1]}) \subseteq Reached(T)
    <3> HIDE DEF T
    <3> QED  BY <2>1, ReachedIsClosed
  <2> QED  BY <1>1, <2>2
<1>4. Before /\ at["main"] = "target"
  BY DEF SetTarget, Before
<1>5. done' = {} /\ \A w \in Workers : at'[w] = "off"
  <2>1. done = {} /\ \A w \in Workers : at[w] = "off"
    BY <1>4 DEF IInv, Quiet
  <2> QED  BY <2>1, ElStartAssumption DEF SetTarget, Go, history, IInv, Typed, Threads
<1>6. ForkOnly'
  BY DEF FInv, ForkOnly, SetTarget, clusterVars, history
<1> QED  BY <1>3, <1>5, <1>6 DEF FInv, Fit

(* An operation comes to be done only with the service as it should be, or *)
(* taken to be.                                                            *)
LEMMA OperateKeepsFit ==
  ASSUME IInv, FInv, NEW w \in Workers, Operate(w)
  PROVE  FInv'
<1> USE ElStartAssumption
<1>1. /\ UNCHANGED <<clusterVars, nodeps_, executed, done, held>>
      /\ right \subseteq right' /\ misjudged \subseteq misjudged'
  <2>1. CASE Look(w) \/ Check(w) \/ Probe(w)
    BY <2>1 DEF Look, Check, Probe, Hears, worldVars, history
  <2>2. CASE Command(w)
    BY <2>2 DEF Command, TakesEffect, worldVars, history
  <2> QED  BY <2>1, <2>2 DEF Operate
<1>2. /\ w \in Threads
      /\ \A v \in Workers \ {w} : at'[v] = at[v]
      /\ \A q : Go(w, q) => at'[w] = q
  BY DEF Operate, Look, Check, Command, Probe, Go, IInv, Typed, Threads
<1>3. /\ Flags'
      /\ \A y : AsItShouldBe(y) => AsItShouldBe(y)'
      /\ \A v \in Workers : at'[v] = at[v] /\ held'[v] = held[v] => Fit(v)'
  BY <1>1, FitStays
<1>4. Fit(w)
  BY DEF FInv
<1>5. Fit(w)'
  <2> USE DEF Fit, AsItShouldBe, clusterVars
  <2>1. CASE Look(w)
    BY <1>1, <1>2, <2>1 DEF Look, listing
  <2>2. CASE Check(w)
    BY <1>1, <1>2, <1>4, <2>2 DEF Check, Hears, worldVars, listing
  <2>3. CASE Command(w)
    BY <1>1, <1>2, <1>4, <2>3 DEF Command, TakesEffect, worldVars, listing
  <2>4. CASE Probe(w)
    BY <1>1, <1>2, <1>4, <2>4 DEF Probe, Hears, worldVars, listing
  <2> QED  BY <2>1, <2>2, <2>3, <2>4 DEF Operate
<1>6. ForkOnly'
  <2> SUFFICES ASSUME operation_ = "start" PROVE misjudged' \subseteq unforked'
    BY <1>1 DEF ForkOnly, clusterVars
  <2>1. misjudged \subseteq unforked
    BY DEF FInv, ForkOnly
  <2>2. ~reversed
    BY DEF reversed
  <2>3. ASSUME NEW good \in BOOLEAN, Hears(w, good)
        PROVE  misjudged' \subseteq unforked'
    BY <2>1, <2>2, <2>3 DEF Hears, StatusTells
  <2>4. CASE Look(w)
    BY <2>1, <2>4 DEF Look, history
  <2>5. CASE Check(w)
    BY <2>1, <2>3, <2>5 DEF Check
  <2>6. CASE Command(w)
    BY <2>1, <2>6 DEF Command
  <2>7. CASE Probe(w)
    BY <2>1, <2>3, <2>7 DEF Probe
  <2> QED  BY <2>4, <2>5, <2>6, <2>7 DEF Operate
<1> QED  BY <1>1, <1>2, <1>3, <1>5, <1>6 DEF FInv

(* The other steps leave operations alone. *)
LEMMA OtherStepsKeepFit ==
  ASSUME IInv, FInv,
         UNCHANGED <<clusterVars, nodeps_, executed, misjudged, unforked>>,
         right \subseteq right',
         \A y \in done' : AsItShouldBe(y),
         \A v \in Workers : at'[v] \in {"check", "command", "probe", "done"} =>
                              at'[v] = at[v] /\ held'[v] = held[v]
  PROVE  FInv'
<1>1. /\ Flags'
      /\ \A y : AsItShouldBe(y) => AsItShouldBe(y)'
      /\ \A v \in Workers : at'[v] = at[v] /\ held'[v] = held[v] => Fit(v)'
  BY FitStays
<1>2. \A v \in Workers : Fit(v)'
  <2> SUFFICES ASSUME NEW v \in Workers PROVE Fit(v)'
    OBVIOUS
  <2>1. CASE at'[v] \in {"check", "command", "probe", "done"}
    BY <1>1, <2>1
  <2>2. CASE at'[v] \notin {"check", "command", "probe", "done"}
    BY <2>2 DEF Fit
  <2> QED  BY <2>1, <2>2
<1>3. ForkOnly'
  BY DEF FInv, ForkOnly, clusterVars
<1> QED  BY <1>1, <1>2, <1>3 DEF FInv

LEMMA StepKeepsFInv == IInv /\ FInv /\ [Next]_vars => FInv'
<1> SUFFICES ASSUME IInv, FInv, [Next]_vars PROVE FInv'
  OBVIOUS
<1> USE ElStartAssumption
<1> USE DEF Go, history, worldVars, clusterVars
<1>1. \A y \in done : AsItShouldBe(y)
  BY DEF FInv
<1>2. /\ at \in [Threads -> MainPlaces \union WorkerPlaces]
      /\ held \in [Workers -> Tasks \union {NoTask}]
      /\ "main" \notin Workers /\ Threads = Workers \union {"main"}
  BY DEF IInv, Typed, TypeOK, Threads
<1>3. CASE Main
  <2>1. CASE SetTarget
    BY <2>1, SetTargetKeepsFlags
  <2>2. CASE StartPool
    <3>1. UNCHANGED <<clusterVars, nodeps_, executed, misjudged, unforked, right, done>>
      BY <2>2 DEF StartPool
    <3>2. \A v \in Workers : at'[v] \in {at[v], "loop"} /\ held'[v] = held[v]
      BY <1>2, <2>2 DEF StartPool
    <3> QED  BY <1>1, <3>1, <3>2, OtherStepsKeepFit
  <2>3. CASE Parse \/ Validate \/ BeginLayer("main") \/ Submit("main") \/ Wait
    <3>1. UNCHANGED <<clusterVars, nodeps_, executed, misjudged, unforked, right, done>>
      BY <2>3 DEF Parse, Validate, BeginLayer, Submit, Wait
    <3>2. \A v \in Workers : at'[v] = at[v] /\ held'[v] = held[v]
      BY <1>2, <2>3 DEF Parse, Validate, BeginLayer, Submit, Wait
    <3> QED  BY <1>1, <3>1, <3>2, OtherStepsKeepFit
  <2> QED  BY <1>3, <2>1, <2>2, <2>3 DEF Main
<1>4. ASSUME NEW w \in Workers, Work(w) PROVE FInv'
  <2>1. CASE Operate(w)
    BY <2>1, OperateKeepsFit
  <2>2. CASE Done(w)
    <3>1. UNCHANGED <<clusterVars, nodeps_, executed, misjudged, unforked, right>>
      BY <2>2 DEF Done
    <3>2. \A v \in Workers : \/ at'[v] = at[v] /\ held'[v] = held[v]
                             \/ at'[v] \in {"loop", "layer"}
      BY <1>2, <2>2 DEF Done, LayerIsDone
    <3>3. \A y \in done' : AsItShouldBe(y)
      BY <1>1, <2>2 DEF Done, FInv, Fit
    <3> QED  BY <3>1, <3>2, <3>3, OtherStepsKeepFit
  <2>3. CASE \/ Dequeue(w) \/ Leave(w) \/ Decide(w) \/ Fail(w)
             \/ BeginLayer(w) \/ Submit(w)
    <3>1. UNCHANGED <<clusterVars, nodeps_, executed, misjudged, unforked, right, done>>
      BY <2>3 DEF Dequeue, Leave, Decide, Fail, BeginLayer, Submit
    <3>2. ASSUME NEW v \in Workers
          PROVE  \/ at'[v] = at[v] /\ held'[v] = held[v]
                 \/ at'[v] \in {"loop", "off", "decide", "look", "submit", "internal error"}
      <4>1. CASE Dequeue(w) \/ Leave(w)
        BY <1>2, <4>1 DEF Dequeue, Leave
      <4>2. CASE Decide(w) \/ Fail(w)
        BY <1>2, <4>2 DEF Decide, Fail
      <4>3. CASE BeginLayer(w) \/ Submit(w)
        BY <1>2, <1>4, <4>3 DEF BeginLayer, Submit
      <4> QED  BY <2>3, <4>1, <4>2, <4>3
    <3> QED  BY <1>1, <3>1, <3>2, OtherStepsKeepFit
  <2>4. CASE TakesChild(w)
    <3>1. /\ UNCHANGED <<clusterVars, nodeps_, executed, misjudged, unforked, held, done>>
          /\ right \subseteq right'
          /\ \A v \in Workers : at'[v] \in {at[v], "throw"}
      BY <1>2, <2>4, TakesChildGoes DEF placeVars
    <3> QED  BY <1>1, <3>1, OtherStepsKeepFit
  <2> QED  BY <1>4, <2>1, <2>2, <2>3, <2>4 DEF Work, Operate
<1>5. ASSUME NEW x \in Tasks, Turn(x) PROVE FInv'
  <2>1. /\ UNCHANGED <<clusterVars, nodeps_, executed, misjudged, unforked, done, at, held>>
        /\ right \subseteq right'
    BY <1>5 DEF Turn
  <2> QED  BY <1>1, <2>1, OtherStepsKeepFit
<1>6. CASE UNCHANGED vars
  <2>1. UNCHANGED <<clusterVars, nodeps_, executed, misjudged, unforked, right, done, at, held>>
    BY <1>6 DEF vars
  <2> QED  BY <1>1, <2>1, OtherStepsKeepFit
<1> QED  BY <1>3, <1>4, <1>5, <1>6 DEF Next

(* A service's command is run only when all it needs, directly or not, is  *)
(* as it should be on every host, was taken to be, was not to be executed, *)
(* or has no command; and a start takes a service to run that does not only *)
(* where a command could not be run for want of fork().                    *)
THEOREM PrerequisitesComeFirst == Spec => []PrerequisitesFirst
<1>1. IInv /\ FInv => PrerequisitesFirst
  <2> SUFFICES ASSUME IInv, FInv, NEW w \in Workers, at[w] = "command",
                      NEW y \in AllTasks, y[1] \in Reached({held[w][1]}),
                      operation_ \in {"start", "stop"}
               PROVE  /\ nodeps_ \/ y \in executed
                      /\ \/ y \in right \union misjudged
                         \/ y \notin executed \/ y[1] \notin cluster.command
    BY DEF PrerequisitesFirst, FInv, ForkOnly
  <2>1. y \in done
    BY AllItNeedsIsDone DEF WithTask, Engaged
  <2>2. AsItShouldBe(y)
    BY <2>1 DEF FInv
  <2>3. held[w] \in executed
    BY DEF FInv, Fit
  <2>4. nodeps_ \/ y \in executed
    BY <2>3 DEF FInv, Flags
  <2> QED  BY <2>2, <2>4 DEF AsItShouldBe
<1>2. Init => FInv
  BY InitFInv
<1>3. IInv /\ FInv /\ [Next]_vars => FInv'
  BY StepKeepsFInv
<1> QED  BY <1>1, <1>2, <1>3, Invariance, PTL DEF Spec

-----------------------------------------------------------------------------
(* Layers and threads implement DependencyOrder: a step begins where a     *)
(* thread finds the pool not stopped, and is done in notify().             *)

(* What DependencyOrder sees. *)
Needs == [x \in Tasks |-> {y \in AllTasks : y[1] \in Prerequisites(x[1])}]
Doing == {held[w] : w \in {v \in Workers : at[v] \in Engaged}}

LEMMA OrderFolded ==
  ASSUME NEW x
  PROVE  /\ Order!Begin(x) <=> /\ x \notin Doing \union done \union failed
                               /\ Needs[x] \subseteq done
                               /\ Doing' = Doing \union {x}
                               /\ UNCHANGED <<Needs, done, failed>>
         /\ Order!Finish(x) <=> /\ x \in Doing
                                /\ Doing' = Doing \ {x}
                                /\ done' = done \union {x}
                                /\ UNCHANGED <<Needs, failed>>
         /\ Order!Fail(x) <=> /\ x \in Doing
                              /\ Doing' = Doing \ {x}
                              /\ failed' = failed \union {x}
                              /\ UNCHANGED <<Needs, done>>
BY Zenon DEF Order!Begin, Order!Finish, Order!Fail, Needs, Doing, Engaged

LEMMA OrderInit == Init => Order!Init
<1> SUFFICES ASSUME Init PROVE Order!Init
  OBVIOUS
<1>1. Needs \in [Tasks -> SUBSET Tasks]
  BY ClusterFacts DEF Needs, Init
<1>2. Doing = {}
  BY DEF Doing, Engaged, Init, Threads
<1>3. done = {} /\ failed = {}
  BY DEF Init
<1> QED  BY <1>1, <1>2, <1>3 DEF Order!Init, Needs, Doing, Engaged

(* The order is that of the description, which nobody changes. *)
LEMMA NeedsStay == [Next]_vars => Needs' = Needs
<1> SUFFICES ASSUME [Next]_vars PROVE Needs' = Needs
  OBVIOUS
<1>1. UNCHANGED clusterVars
  BY DEF Next, vars, Main, Work, Parse, Validate, SetTarget, StartPool, BeginLayer,
         Submit, Wait, Dequeue, Leave, Decide, Look, Check, Command, Probe,
         TakesChild, Fail, Done, Turn
<1> QED  BY <1>1 DEF Needs, AllTasks, Prerequisites, reversed, clusterVars

(* Who is engaged is what matters. *)
LEMMA DoingStays ==
  ASSUME \A v \in Workers : /\ at'[v] \in Engaged <=> at[v] \in Engaged
                            /\ at[v] \in Engaged => held'[v] = held[v]
  PROVE  Doing' = Doing
BY DEF Doing

LEMMA DoingLess ==
  ASSUME IInv, NEW w \in Workers, at[w] \in Engaged, at'[w] \notin Engaged,
         \A v \in Workers \ {w} : at'[v] = at[v] /\ held'[v] = held[v]
  PROVE  held[w] \in Doing /\ Doing' = Doing \ {held[w]}
<1>1. \A v \in Workers : v # w /\ at[v] \in Engaged => held[v] # held[w]
  BY DEF IInv, Hands, WithTask
<1> QED  BY <1>1 DEF Doing

(* A task that is in the tables has not been done, and all it needs has.   *)
LEMMA ReadyIsNotDone ==
  ASSUME IInv, Parsed, NEW x, Ready(x)
  PROVE  x \notin done /\ Needs[x] \subseteq done
<1>1. /\ x \in Tasks /\ x = <<x[1], x[2]>>
      /\ x[1] \in cluster.enabled /\ x[2] \in hosts[x[1]] /\ waitsFor[x[1]] = {}
  BY DEF Ready, AllTasks, Tasks
<1>2. /\ hosts[x[1]] = {h \in cluster.hosts[x[1]] : <<x[1], h>> \notin done}
      /\ Prerequisites(x[1]) \intersect services_ = {}
  BY <1>1 DEF IInv, Tables
<1>3. \A y \in Needs[x] : y \in AllTasks /\ y[1] \notin services_
  BY <1>1, <1>2 DEF Needs
<1> QED  BY <1>1, <1>2, <1>3, OffTheTables

(* A task that begins has not been begun, and all it needs is done. *)
LEMMA DecideBegins ==
  ASSUME IInv, NEW w \in Workers, Decide(w), ~stop_, Needs' = Needs
  PROVE  Order!Next
<1>1. at[w] = "decide" /\ at[w] \in WithTask /\ at[w] \notin Engaged
  BY DEF Decide, WithTask, Engaged
<1>2. Parsed /\ w \in Threads
  BY <1>1, AtWork DEF IInv
<1>3. /\ held[w] \in Tasks /\ Ready(held[w])
      /\ held[w] # NoTask
  BY <1>1, InHand DEF IInv, Hands
<1>4. held[w] \notin Doing
  <2>1. \A v \in Workers : at[v] \in Engaged => held[v] # held[w]
    BY <1>1, <1>3 DEF IInv, Hands
  <2> QED  BY <2>1 DEF Doing
<1>5. held[w] \notin done
  BY <1>2, <1>3, ReadyIsNotDone
<1>6. held[w] \notin failed
  BY <1>3 DEF Ready
<1>7. Needs[held[w]] \subseteq done
  BY <1>2, <1>3, ReadyIsNotDone
<1>8. Doing' = Doing \union {held[w]}
  <2>1. /\ at'[w] \in Engaged /\ held' = held
        /\ \A v \in Workers \ {w} : at'[v] = at[v]
    BY <1>2 DEF Decide, Go, IInv, Typed, Engaged, Threads
  <2> QED  BY <1>1, <2>1 DEF Doing
<1>9. done' = done /\ failed' = failed
  BY DEF Decide, history
<1>10. PICK x \in Tasks : x = held[w]
  BY <1>3
<1>11. Order!Begin(x)
  BY <1>4, <1>5, <1>6, <1>7, <1>8, <1>9, <1>10, OrderFolded
<1> QED  BY <1>11 DEF Order!Next

LEMMA StepImplements ==
  ASSUME IInv, [Next]_vars
  PROVE  [Order!Next]_(Order!vars)
<1> USE ElStartAssumption
<1> USE DEF Go, history
<1>1. Needs' = Needs
  BY NeedsStay
<1>2. ASSUME Doing' = Doing, done' = done, failed' = failed
      PROVE  UNCHANGED Order!vars
  BY <1>1, <1>2 DEF Order!vars, Doing, Needs, Engaged
<1>3. /\ at \in [Threads -> MainPlaces \union WorkerPlaces]
      /\ held \in [Workers -> Tasks \union {NoTask}]
      /\ "main" \notin Workers /\ Threads = Workers \union {"main"}
  BY DEF IInv, Typed, TypeOK, Threads
<1>4. ASSUME NEW w \in Workers, Work(w) PROVE [Order!Next]_(Order!vars)
  <2>1. CASE Decide(w)
    <3>1. CASE stop_
      <4>1. /\ done' = done /\ failed' = failed
            /\ at[w] \notin Engaged /\ at'[w] \notin Engaged
            /\ \A v \in Workers \ {w} : at'[v] = at[v] /\ held'[v] = held[v]
        BY <1>3, <2>1, <3>1 DEF Decide, Engaged
      <4> QED  BY <1>2, <4>1, DoingStays
    <3>2. CASE ~stop_
      BY <1>1, <2>1, <3>2, DecideBegins
    <3> QED  BY <3>1, <3>2
  <2>2. CASE Done(w) \/ Fail(w)
    <3>1. /\ at[w] \in Engaged /\ at[w] \in WithTask /\ at'[w] \notin Engaged
          /\ \A v \in Workers \ {w} : at'[v] = at[v] /\ held'[v] = held[v]
      BY <1>3, <2>2 DEF Done, Fail, LayerIsDone, Engaged, WithTask
    <3>2. held[w] \in Doing /\ Doing' = Doing \ {held[w]}
      BY <3>1, DoingLess
    <3>3. PICK x \in Tasks : x = held[w]
      BY <3>1, InHand
    <3>4. \/ done' = done \union {x} /\ failed' = failed
          \/ done' = done /\ failed' = failed \union {x}
      BY <2>2, <3>3 DEF Done, Fail
    <3>5. Order!Finish(x) \/ Order!Fail(x)
      BY <1>1, <3>2, <3>3, <3>4, OrderFolded
    <3> QED  BY <3>5 DEF Order!Next
  <2>3. CASE Operate(w)
    <3>1. PICK q : Moves(w, q)
      BY <2>3, OperateMoves
    <3>2. at[w] \in Engaged
      BY <2>3 DEF Operate, Look, Check, Command, Probe, Engaged
    <3>3. at'[w] \in Engaged
      BY <1>3, <3>1, <3>2 DEF Moves, Engaged
    <3>4. /\ \A v \in Workers \ {w} : at'[v] = at[v]
          /\ held' = held /\ done' = done /\ failed' = failed
      BY <1>3, <3>1 DEF Moves, placeVars
    <3> QED  BY <1>2, <3>2, <3>3, <3>4, DoingStays
  <2>4. CASE Dequeue(w) \/ Leave(w) \/ BeginLayer(w) \/ Submit(w)
    <3>1. /\ at[w] \notin Engaged /\ at'[w] \notin Engaged
          /\ \A v \in Workers \ {w} : at'[v] = at[v] /\ held'[v] = held[v]
          /\ done' = done /\ failed' = failed
      <4>1. CASE Dequeue(w) \/ Leave(w)
        BY <1>3, <4>1 DEF Dequeue, Leave, Engaged
      <4>2. CASE BeginLayer(w) \/ Submit(w)
        BY <1>3, <4>2 DEF BeginLayer, Submit, Engaged
      <4> QED  BY <2>4, <4>1, <4>2
    <3> QED  BY <1>2, <3>1, DoingStays
  <2>5. CASE TakesChild(w)
    <3>1. /\ done' = done /\ failed' = failed /\ held' = held
          /\ \A v \in Workers : at'[v] \in Engaged <=> at[v] \in Engaged
      BY <1>3, <2>5, TakesChildGoes DEF placeVars, Engaged
    <3> QED  BY <1>2, <3>1, DoingStays
  <2> QED  BY <1>4, <2>1, <2>2, <2>3, <2>4, <2>5 DEF Work, Operate
<1>5. CASE Main
  <2>1. done' = done /\ failed' = failed /\ held' = held
    BY <1>5 DEF Main, Parse, Validate, SetTarget, StartPool, BeginLayer, Submit, Wait
  <2>2. \A v \in Workers : at'[v] \in Engaged <=> at[v] \in Engaged
    <3>1. CASE StartPool
      <4>1. \A v \in Workers : at[v] = "off"
        BY <3>1 DEF StartPool, IInv, Quiet, Before
      <4> QED  BY <1>3, <3>1, <4>1 DEF StartPool, Engaged
    <3>2. CASE \/ Parse \/ Validate \/ SetTarget \/ BeginLayer("main")
               \/ Submit("main") \/ Wait
      BY <1>3, <3>2 DEF Parse, Validate, SetTarget, BeginLayer, Submit, Wait
    <3> QED  BY <1>5, <3>1, <3>2 DEF Main
  <2> QED  BY <1>2, <2>1, <2>2, DoingStays
<1>6. ASSUME NEW x \in Tasks, Turn(x) PROVE [Order!Next]_(Order!vars)
  BY <1>2, <1>6, DoingStays DEF Turn
<1>7. CASE UNCHANGED vars
  BY <1>2, <1>7, DoingStays DEF vars
<1> QED  BY <1>4, <1>5, <1>6, <1>7 DEF Next

(* Whatever the layers, the threads and the failures, each operation is    *)
(* carried out at most once, and begins when all it needs is done.         *)
THEOREM ElStartImplementsDependencyOrder == Spec => ImplementsDependencyOrder
<1>1. Init => Order!Init
  BY OrderInit
<1>2. IInv /\ [Next]_vars => [Order!Next]_(Order!vars)
  BY StepImplements
<1> QED  BY <1>1, <1>2, Invariance, PTL
         DEF Spec, ImplementsDependencyOrder, Order!Spec

(* What follows from the order.                                            *)
InOrderOf(doings, dones, fails) ==
  /\ \A x \in doings \union dones \union fails : Needs[x] \subseteq dones
  /\ doings \intersect (dones \union fails) = {} /\ dones \intersect fails = {}
  /\ \A x \in Tasks :
       Needs[x] \intersect fails # {} => x \notin doings \union dones \union fails

LEMMA ConsequencesFolded ==
  /\ Order!EachInOrder <=> InOrderOf(Doing, done, failed)
  /\ Order!BegunOnce <=> /\ Doing' \intersect (done \union failed) = {}
                        /\ done \subseteq done' /\ failed \subseteq failed'
BY Zenon DEF Order!EachInOrder, Order!BegunOnce, InOrderOf, Needs, Doing, Engaged

LEMMA ConsequencesFoldedNext ==
  ASSUME Needs' = Needs
  PROVE  Order!EachInOrder' <=> InOrderOf(Doing', done', failed')
<1>1. Order!EachInOrder' <=> InOrderOf(Doing, done, failed)'
  BY Zenon DEF Order!EachInOrder, InOrderOf, Needs, Doing, Engaged
<1> QED  BY <1>1 DEF InOrderOf

LEMMA OrderKeeps ==
  ASSUME Order!EachInOrder, [Order!Next]_(Order!vars)
  PROVE  Order!EachInOrder' /\ Order!BegunOnce
<1>1. InOrderOf(Doing, done, failed)
  BY ConsequencesFolded
<1> SUFFICES /\ Needs' = Needs /\ InOrderOf(Doing', done', failed')
             /\ Doing' \intersect (done \union failed) = {}
             /\ done \subseteq done' /\ failed \subseteq failed'
  BY ConsequencesFolded, ConsequencesFoldedNext
<1>2. CASE UNCHANGED Order!vars
  <2>1. Needs' = Needs /\ Doing' = Doing /\ done' = done /\ failed' = failed
    BY <1>2, Zenon DEF Order!vars, Needs, Doing, Engaged
  <2> QED  BY <1>1, <2>1 DEF InOrderOf
<1>3. ASSUME NEW x \in Tasks, Order!Begin(x) \/ Order!Finish(x) \/ Order!Fail(x)
      PROVE  /\ Needs' = Needs /\ InOrderOf(Doing', done', failed')
             /\ Doing' \intersect (done \union failed) = {}
             /\ done \subseteq done' /\ failed \subseteq failed'
  <2>1. CASE Order!Begin(x)
    BY <1>1, <2>1, OrderFolded DEF InOrderOf
  <2>2. CASE Order!Finish(x)
    BY <1>1, <2>2, OrderFolded DEF InOrderOf
  <2>3. CASE Order!Fail(x)
    BY <1>1, <2>3, OrderFolded DEF InOrderOf
  <2> QED  BY <1>3, <2>1, <2>2, <2>3
<1> QED  BY <1>2, <1>3 DEF Order!Next

(* No operation is carried out twice on a host, none begins before those   *)
(* it needs are done, and none that needs a failed one ever begins: one    *)
(* failure anywhere stops all that comes after it, on every host.          *)
THEOREM FailuresStopWhatFollows ==
  Spec => []Order!EachInOrder /\ [][Order!BegunOnce]_(Order!vars)
<1>1. Order!Init => Order!EachInOrder
  BY DEF Order!Init, Order!EachInOrder
<1>2. Order!Spec => []Order!EachInOrder /\ [][Order!BegunOnce]_(Order!vars)
  BY <1>1, OrderKeeps, PTL DEF Order!Spec
<1> QED  BY <1>2, ElStartImplementsDependencyOrder DEF ImplementsDependencyOrder
=============================================================================

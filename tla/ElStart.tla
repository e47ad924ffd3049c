------------------------------ MODULE ElStart ------------------------------
(***************************************************************************)
(* ElStart (Tools/Start): starts, stops, checks or lists the services of a *)
(* cluster.  A service runs on several hosts and may have to come after    *)
(* other services.  The services that wait for no other form a layer: a    *)
(* thread pool executes one task per host of each of them, and the task    *)
(* that finishes the layer submits the next one.                           *)
(*                                                                         *)
(* The pool is module ThreadPool's, reduced to a set of waiting tasks: its *)
(* queue is never full, and the services of a layer are submitted in the   *)
(* order of a hash table.  The commands run outside the program: they may  *)
(* fail, end abnormally, or not have the effect they report.               *)
(***************************************************************************)
EXTENDS Integers, FiniteSets

CONSTANTS
  Services, Hosts,
  Workers,       \* the threads of the pool
  Clusters,      \* what a cluster description may say, see ClusterType
  Probes,        \* service_probes
  Faults         \* what may fail, see Kinds

Tasks == Services \X Hosts
NoThread == "no thread"
NoTask == <<"no", "task">>
Operations == {"start", "stop", "status", "list", "list stop"}

(* after: the prerequisites; hosts: where it runs; enabled: the services   *)
(* that are; command and check: the services that have a command for the   *)
(* operation, and a status command.                                        *)
ClusterType ==
  [after : [Services -> SUBSET Services], hosts : [Services -> SUBSET Hosts],
   enabled : SUBSET Services, command : SUBSET Services,
   check : SUBSET Services]

(* pthread_create; the template of a command; its exit status; a command   *)
(* killed by a signal; a command without effect; the transport to a host,  *)
(* which fails a status command; fork().                                   *)
Kinds == {"thread", "template", "exit", "signal", "effect", "transport", "fork"}

ASSUME ElStartAssumption ==
  /\ Clusters \subseteq ClusterType
  /\ Probes \in Nat
  /\ Faults \subseteq Kinds
  /\ IsFiniteSet(Services) /\ IsFiniteSet(Hosts)
  /\ "main" \notin Workers /\ NoThread \notin Workers
  /\ NoTask \notin Tasks

VARIABLES
  cluster, operation_,   \* the arguments
  nodeps_,
  services_,             \* the services that are left ...
  waitsFor,              \* ... their after, or before, when reversed() ...
  hosts,                 \* ... and the hosts that are left of each
  left,                  \* validate_cluster_definition's copy
  executed,              \* the tasks whose execute_service_command is set
  layer_counter_,
  lock_,                 \* the thread that has it, or NoThread
  unsent,                \* the rest of the layer that is being submitted
  tasks_, stop_,         \* the pool
  at, held, probe,       \* its threads and the main one
  right,                 \* the services on hosts that are as they should be
  turning,               \* ... and those that will be, or not
  done, failed,          \* history: what became of the tasks
  misjudged,             \* history: taken to be as they should, and are not
  unforked               \* ... because fork() failed

clusterVars == <<cluster, operation_>>
tableVars == <<services_, waitsFor, hosts>>
poolVars == <<tasks_, stop_>>
worldVars == <<right, turning>>
history == <<done, failed, misjudged, unforked>>
vars == <<clusterVars, nodeps_, tableVars, left, executed, layer_counter_,
          lock_, unsent, poolVars, at, held, probe, worldVars, history>>

Threads == Workers \union {"main"}
Go(t, place) == at' = [at EXCEPT ![t] = place]

reversed == operation_ \in {"stop", "list stop"}
listing == operation_ \in {"list", "list stop"}

(* What must be finished before a service, in this operation: services     *)
(* that are disabled are forgotten.                                        *)
Prerequisites(s) ==
  {p \in cluster.enabled :
     IF reversed THEN s \in cluster.after[p] ELSE p \in cluster.after[s]}

AllTasks == {x \in Tasks : x[1] \in cluster.enabled /\ x[2] \in cluster.hosts[x[1]]}

Init ==
  /\ cluster \in Clusters /\ operation_ \in Operations /\ nodeps_ = FALSE
  /\ services_ = {} /\ left = {} /\ executed = {}
  /\ waitsFor = [s \in Services |-> {}] /\ hosts = [s \in Services |-> {}]
  /\ layer_counter_ = 0 /\ lock_ = NoThread /\ unsent = {}
  /\ tasks_ = {} /\ stop_ = TRUE
  /\ at = [t \in Threads |-> IF t = "main" THEN "parse" ELSE "off"]
  /\ held = [w \in Workers |-> NoTask] /\ probe = [w \in Workers |-> 0]
  /\ right \in SUBSET {x \in AllTasks : /\ operation_ \in {"start", "stop"}
                                       /\ x[1] \in cluster.check}
  /\ turning = {}
  /\ done = {} /\ failed = {} /\ misjudged = {} /\ unforked = {}

-----------------------------------------------------------------------------
(* Mutant: services are stopped in the order they are started in. *)
ParseForward ==
  /\ at["main"] = "parse"
  /\ IF \E s \in cluster.enabled : cluster.hosts[s] = {}
     THEN Go("main", "threw") /\ UNCHANGED <<tableVars, left>>
     ELSE /\ services_' = cluster.enabled /\ left' = cluster.enabled
          /\ waitsFor' = [s \in Services |-> cluster.after[s] \intersect cluster.enabled]
          /\ hosts' = cluster.hosts
          /\ Go("main", "validate")
  /\ UNCHANGED <<clusterVars, nodeps_, executed, layer_counter_, lock_, unsent,
                 poolVars, held, probe, worldVars, history>>

(* parse_cluster_definition; a service without a host is refused.          *)
Parse ==
  /\ at["main"] = "parse"
  /\ IF \E s \in cluster.enabled : cluster.hosts[s] = {}
     THEN Go("main", "threw") /\ UNCHANGED <<tableVars, left>>
     ELSE /\ services_' = cluster.enabled /\ left' = cluster.enabled
          /\ waitsFor' = [s \in Services |-> Prerequisites(s)]
          /\ hosts' = cluster.hosts
          /\ Go("main", "validate")
  /\ UNCHANGED <<clusterVars, nodeps_, executed, layer_counter_, lock_, unsent,
                 poolVars, held, probe, worldVars, history>>

(* Mutant: services that wait for themselves are let through. *)
ValidateAnyway ==
  /\ at["main"] = "validate"
  /\ LET layer == {s \in left : cluster.after[s] \intersect left = {}}
     IN left' = left \ layer
  /\ Go("main", IF left' = left THEN "target" ELSE "validate")
  /\ UNCHANGED <<clusterVars, nodeps_, tableVars, executed, layer_counter_,
                 lock_, unsent, poolVars, held, probe, worldVars, history>>

(* validate_cluster_definition: layer by layer nothing must be left.       *)
Validate ==
  /\ at["main"] = "validate"
  /\ LET layer == {s \in left : cluster.after[s] \intersect left = {}}
     IN /\ left' = left \ layer
        /\ Go("main", CASE left = {} -> "target"
                        [] left # {} /\ layer = {} -> "threw"
                        [] OTHER -> "validate")
  /\ UNCHANGED <<clusterVars, nodeps_, tableVars, executed, layer_counter_,
                 lock_, unsent, poolVars, held, probe, worldVars, history>>

(* Mutant: set_execute_flags() does not go beyond direct prerequisites. *)
ReachedDirectly(S) == UNION {Prerequisites(s) : s \in S}

(* The services that set_execute_flags() reaches from S: the least set     *)
(* that has the prerequisites of S and of its own members.                 *)
Reached(S) ==
  LET Closed(R) == \A s \in S \union R : Prerequisites(s) \subseteq R
  IN {p \in cluster.enabled :
        \A R \in SUBSET cluster.enabled : Closed(R) => p \in R}

(* set_target: the rules of the command line choose any services on hosts, *)
(* and with them, unless --nodeps, all hosts of all their prerequisites.   *)
SetTarget ==
  /\ at["main"] = "target"
  /\ \E target \in SUBSET AllTasks, nodeps \in BOOLEAN :
       /\ nodeps_' = nodeps
       /\ executed' = target \union
            {x \in AllTasks : /\ ~nodeps
                              /\ x[1] \in Reached({y[1] : y \in target})}
  /\ Go("main", "pool")
  /\ UNCHANGED <<clusterVars, tableVars, left, layer_counter_, lock_, unsent,
                 poolVars, held, probe, worldVars, history>>

StartPool ==
  /\ at["main"] = "pool"
  /\ \/ /\ stop_' = FALSE /\ lock_' = "main"
        /\ at' = [t \in Threads |-> IF t = "main" THEN "layer" ELSE "loop"]
     \/ /\ "thread" \in Faults
        /\ Go("main", "threw")
        /\ UNCHANGED <<stop_, lock_>>
  /\ UNCHANGED <<clusterVars, nodeps_, tableVars, left, executed,
                 layer_counter_, unsent, tasks_, held, probe, worldVars,
                 history>>

-----------------------------------------------------------------------------
(* execute_on_layer, under the lock: all hosts of all services that wait   *)
(* for none.  An exception out of it ends the program, or stops the pool;  *)
(* nobody goes on from there.                                              *)
Layer == {x \in Tasks : /\ x[1] \in services_ /\ waitsFor[x[1]] = {}
                        /\ x[2] \in hosts[x[1]]}

BeginLayer(t) ==
  /\ at[t] = "layer"
  /\ Go(t, IF layer_counter_ # 0 \/ Layer = {} THEN "internal error"
                                               ELSE "submit")
  /\ unsent' = Layer
  /\ UNCHANGED <<clusterVars, nodeps_, tableVars, left, executed,
                 layer_counter_, lock_, poolVars, held, probe, worldVars,
                 history>>

(* ThreadPool::execute, whose answer is ignored.                           *)
Submit(t) ==
  /\ at[t] = "submit"
  /\ \E x \in unsent :
       /\ unsent' = unsent \ {x}
       /\ tasks_' = IF stop_ THEN tasks_ ELSE tasks_ \union {x}
  /\ layer_counter_' = layer_counter_ + 1
  /\ IF unsent' = {}
     THEN lock_' = NoThread /\ Go(t, IF t = "main" THEN "wait" ELSE "loop")
     ELSE UNCHANGED <<lock_, at>>
  /\ UNCHANGED <<clusterVars, nodeps_, tableVars, left, executed, stop_, held,
                 probe, worldVars, history>>

(* threads_->wait(), and the end of main().                                *)
Wait ==
  /\ at["main"] = "wait"
  /\ \A w \in Workers : at[w] = "off"
  /\ Go("main", "exit")
  /\ UNCHANGED <<clusterVars, nodeps_, tableVars, left, executed,
                 layer_counter_, lock_, unsent, poolVars, held, probe,
                 worldVars, history>>

-----------------------------------------------------------------------------
(* The pool's threads, see ThreadPool: the tasks are not required, and a   *)
(* pool that is stopped drops them.                                        *)
Dequeue(w) ==
  /\ at[w] = "loop"
  /\ \E x \in tasks_ :
       /\ tasks_' = tasks_ \ {x}
       /\ held' = [held EXCEPT ![w] = x]
  /\ Go(w, "decide")
  /\ UNCHANGED <<clusterVars, nodeps_, tableVars, left, executed,
                 layer_counter_, lock_, unsent, stop_, probe, worldVars,
                 history>>

Leave(w) ==
  /\ at[w] = "loop"
  /\ tasks_ = {} /\ stop_
  /\ Go(w, "off")
  /\ UNCHANGED <<clusterVars, nodeps_, tableVars, left, executed,
                 layer_counter_, lock_, unsent, poolVars, held, probe,
                 worldVars, history>>

Decide(w) ==
  /\ at[w] = "decide"
  /\ IF stop_ THEN Go(w, "loop") /\ held' = [held EXCEPT ![w] = NoTask]
              ELSE Go(w, "look") /\ UNCHANGED held
  /\ UNCHANGED <<clusterVars, nodeps_, tableVars, left, executed,
                 layer_counter_, lock_, unsent, poolVars, probe, worldVars,
                 history>>

-----------------------------------------------------------------------------
(* execute_service_operation: a copy of the service is taken under the     *)
(* lock; a task that is not executed, or only listed, is done ...          *)
Look(w) ==
  /\ at[w] = "look"
  /\ lock_ = NoThread
  /\ LET s == held[w][1]
     IN \/ /\ held[w] \notin executed \/ listing \/ s \notin cluster.command
           /\ Go(w, "done")
        \/ /\ held[w] \in executed /\ ~listing
           /\ s \in cluster.command
           /\ \/ Go(w, IF operation_ # "status" /\ s \in cluster.check
                       THEN "check" ELSE "command")
              \/ "template" \in Faults /\ Go(w, "fail")
  /\ UNCHANGED <<clusterVars, nodeps_, tableVars, left, executed,
                 layer_counter_, lock_, unsent, poolVars, held, probe,
                 worldVars, history>>

(* What a status command tells: whether the service is as it should be; a  *)
(* failing transport looks like a service that does not run.               *)
StatusTells(x, good) ==
  \/ good = (x \in right)
  \/ "transport" \in Faults /\ good = reversed

(* What a thread learns from it.  When fork() has failed, -1, waitpid(-1)  *)
(* returns -1 too if no child is left, which looks like the end of the     *)
(* command with exit status 0: the service is said to run.                 *)
Hears(w, good) ==
  LET wrongly == IF good THEN {held[w]} \ right ELSE {} IN
  /\ misjudged' = misjudged \union wrongly
  /\ \/ StatusTells(held[w], good) /\ UNCHANGED unforked
     \/ /\ "fork" \in Faults /\ good = ~reversed
        /\ unforked' = unforked \union wrongly

(* ... as is one that is right already ...                                 *)
Check(w) ==
  /\ at[w] = "check"
  /\ \/ \E good \in BOOLEAN :
          Hears(w, good) /\ Go(w, IF good THEN "done" ELSE "command")
     \/ "signal" \in Faults /\ Go(w, "throw") /\ UNCHANGED <<misjudged, unforked>>
  /\ UNCHANGED <<clusterVars, nodeps_, tableVars, left, executed,
                 layer_counter_, lock_, unsent, poolVars, held, probe,
                 worldVars, done, failed>>

(* Where there is a status command the effect may come later, or never.    *)
TakesEffect(x) ==
  \/ right' = right \union {x} /\ UNCHANGED turning
  \/ /\ "effect" \in Faults /\ x[1] \in cluster.check
     /\ turning' = turning \union {x}
     /\ UNCHANGED right

(* ... otherwise the command is run.  One that was not, fork() having      *)
(* failed, counts as one that was, and is found out by probing only.       *)
Command(w) ==
  /\ at[w] = "command"
  /\ LET x == held[w]
         probed == operation_ # "status" /\ x[1] \in cluster.check
     IN \/ /\ IF operation_ = "status" THEN UNCHANGED worldVars ELSE TakesEffect(x)
           /\ Go(w, IF probed THEN "probe" ELSE "done")
           /\ UNCHANGED <<misjudged, unforked>>
        \/ /\ "fork" \in Faults
           /\ Go(w, IF probed THEN "probe" ELSE "done")
           /\ IF probed \/ operation_ = "status"
              THEN UNCHANGED <<misjudged, unforked>>
              ELSE /\ misjudged' = misjudged \union {x}
                   /\ unforked' = unforked \union {x}
           /\ UNCHANGED worldVars
        \/ /\ "exit" \in Faults
           /\ Go(w, IF operation_ = "status" THEN "done" ELSE "fail")
           /\ UNCHANGED <<worldVars, misjudged, unforked>>
        \/ /\ "signal" \in Faults
           /\ Go(w, "throw")
           /\ UNCHANGED <<worldVars, misjudged, unforked>>
  /\ probe' = [probe EXCEPT ![w] = 0]
  /\ UNCHANGED <<clusterVars, nodeps_, tableVars, left, executed,
                 layer_counter_, lock_, unsent, poolVars, held, done, failed>>

(* A service comes up, or goes down, at last.                              *)
Turn(x) ==
  /\ x \in turning
  /\ right' = right \union {x} /\ turning' = turning \ {x}
  /\ UNCHANGED <<clusterVars, nodeps_, tableVars, left, executed,
                 layer_counter_, lock_, unsent, poolVars, at, held, probe,
                 history>>

(* The service is probed, a number of times; then it is given up: a start  *)
(* has failed, a stop goes on as if it had not.                            *)
Probe(w) ==
  /\ at[w] = "probe"
  /\ \/ /\ probe[w] < Probes
        /\ \E good \in BOOLEAN :
             /\ Hears(w, good)
             /\ IF good
                THEN Go(w, "done") /\ UNCHANGED probe
                ELSE UNCHANGED at /\ probe' = [probe EXCEPT ![w] = @ + 1]
     \/ /\ probe[w] < Probes /\ "signal" \in Faults
        /\ Go(w, "throw")
        /\ UNCHANGED <<probe, misjudged, unforked>>
     \/ /\ probe[w] = Probes
        /\ IF operation_ = "stop"
           THEN Go(w, "done") /\ misjudged' = misjudged \union ({held[w]} \ right)
           ELSE Go(w, "fail") /\ UNCHANGED misjudged
        /\ UNCHANGED <<probe, unforked>>
  /\ UNCHANGED <<clusterVars, nodeps_, tableVars, left, executed,
                 layer_counter_, lock_, unsent, poolVars, held, worldVars,
                 done, failed>>

(* A thread whose command is being run, a status command included. *)
Commanding(w) ==
  at[w] \in {"check", "command"} \/ (at[w] = "probe" /\ probe[w] < Probes)

(* With the child of another thread about, waitpid(-1) may take that: it   *)
(* returns another process than was asked for, and the other thread finds  *)
(* its own gone.  Both throw, whatever the command has done.               *)
TakesChild(w) ==
  /\ "fork" \in Faults
  /\ Commanding(w)
  /\ \E v \in Workers \ {w} :
       /\ Commanding(v)
       /\ at' = [at EXCEPT ![w] = "throw", ![v] = "throw"]
       /\ \/ UNCHANGED worldVars
          \/ at[v] = "command" /\ operation_ # "status" /\ TakesEffect(held[v])
  /\ UNCHANGED <<clusterVars, nodeps_, tableVars, left, executed,
                 layer_counter_, lock_, unsent, poolVars, held, probe, history>>

(* An operation that failed stops the pool and leaves the counter alone;   *)
(* one that threw also ends its thread, whose pool tells notify().         *)
Fail(w) ==
  /\ at[w] \in {"fail", "throw"}
  /\ stop_' = TRUE
  /\ failed' = failed \union {held[w]}
  /\ held' = [held EXCEPT ![w] = NoTask]
  /\ Go(w, IF at[w] = "fail" THEN "loop" ELSE "off")
  /\ UNCHANGED <<clusterVars, nodeps_, tableVars, left, executed,
                 layer_counter_, lock_, unsent, tasks_, probe, worldVars,
                 done, misjudged, unforked>>

LayerIsDone(w) ==
  IF layer_counter_' # 0
  THEN Go(w, "loop") /\ UNCHANGED <<lock_, stop_>>
  ELSE IF services_' = {}
       THEN Go(w, "loop") /\ stop_' = TRUE /\ UNCHANGED lock_
       ELSE Go(w, "layer") /\ lock_' = w /\ UNCHANGED stop_

(* Mutant: the counter counts services. *)
DoneKeepsCounter(w) ==
  /\ at[w] = "done"
  /\ lock_ = NoThread
  /\ LET s == held[w][1]
     IN /\ hosts' = [hosts EXCEPT ![s] = @ \ {held[w][2]}]
        /\ IF hosts'[s] = {}
           THEN /\ services_' = services_ \ {s}
                /\ waitsFor' = [r \in Services |-> waitsFor[r] \ {s}]
                /\ layer_counter_' = layer_counter_ - 1
           ELSE UNCHANGED <<services_, waitsFor, layer_counter_>>
  /\ LayerIsDone(w)
  /\ done' = done \union {held[w]}
  /\ held' = [held EXCEPT ![w] = NoTask]
  /\ UNCHANGED <<clusterVars, nodeps_, left, executed, unsent, tasks_, probe,
                 worldVars, failed, misjudged, unforked>>

(* notify() takes the host, and after the last one the service, off the    *)
(* tables; the end of a layer begins the next one or stops the pool.       *)
Done(w) ==
  /\ at[w] = "done"
  /\ lock_ = NoThread
  /\ LET s == held[w][1]
     IN /\ hosts' = [hosts EXCEPT ![s] = @ \ {held[w][2]}]
        /\ IF hosts'[s] = {}
           THEN /\ services_' = services_ \ {s}
                /\ waitsFor' = [r \in Services |-> waitsFor[r] \ {s}]
           ELSE UNCHANGED <<services_, waitsFor>>
  /\ layer_counter_' = layer_counter_ - 1
  /\ LayerIsDone(w)
  /\ done' = done \union {held[w]}
  /\ held' = [held EXCEPT ![w] = NoTask]
  /\ UNCHANGED <<clusterVars, nodeps_, left, executed, unsent, tasks_, probe,
                 worldVars, failed, misjudged, unforked>>

-----------------------------------------------------------------------------
Work(w) ==
  \/ Dequeue(w) \/ Leave(w) \/ Decide(w) \/ Look(w) \/ Check(w)
  \/ Command(w) \/ Probe(w) \/ TakesChild(w) \/ Fail(w) \/ Done(w)
  \/ BeginLayer(w) \/ Submit(w)

Main ==
  \/ Parse \/ Validate \/ SetTarget \/ StartPool
  \/ BeginLayer("main") \/ Submit("main") \/ Wait

Next ==
  \/ Main
  \/ \E w \in Workers : Work(w)
  \/ \E x \in Tasks : Turn(x)

Spec == Init /\ [][Next]_vars

(* Every thread runs on; commands end, sleeps too.  Nothing is assumed of  *)
(* the effects of commands.                                                *)
LiveSpec == Spec /\ WF_vars(Main) /\ \A w \in Workers : WF_vars(Work(w))

-----------------------------------------------------------------------------
TypeOK ==
  /\ cluster \in Clusters /\ operation_ \in Operations /\ nodeps_ \in BOOLEAN
  /\ services_ \subseteq Services /\ left \subseteq Services
  /\ waitsFor \in [Services -> SUBSET Services]
  /\ hosts \in [Services -> SUBSET Hosts]
  /\ executed \subseteq Tasks /\ unsent \subseteq Tasks /\ tasks_ \subseteq Tasks
  /\ layer_counter_ \in Nat /\ stop_ \in BOOLEAN
  /\ lock_ \in Threads \union {NoThread}
  /\ held \in [Workers -> Tasks \union {NoTask}]
  /\ probe \in [Workers -> 0 .. Probes]
  /\ right \subseteq Tasks /\ turning \subseteq Tasks

Busy == {held[w] : w \in Workers} \ {NoTask}

(* As long as no operation has failed, layer_counter_ is the number of     *)
(* tasks that were submitted and are not done: it is zero exactly when the *)
(* layer is, and only then another one is begun.  The exceptions and       *)
(* assertions of execute_on_layer(), notify() and                          *)
(* execute_service_operation() never come true: each layer has a task,     *)
(* unless all services are disabled, and a task in hand finds its service  *)
(* and its host in the tables.                                             *)
LayerExact ==
  /\ TypeOK
  /\ failed = {} => layer_counter_ = Cardinality(tasks_ \union Busy)
  /\ \A t \in Threads :
       at[t] = "internal error" => t = "main" /\ cluster.enabled = {}
  /\ \A x \in Busy : x[1] \in services_ /\ x[2] \in hosts[x[1]]

(* The command of a service is run only when all it needs is as it should  *)
(* be on every host: its prerequisites run, or, when stopping, what comes  *)
(* after it is stopped.  Unless it was not to be executed, or has no       *)
(* command, or was misjudged: a command that could not be run, for want of *)
(* fork(), was taken to have succeeded, or, when stopping only, a status   *)
(* command failed for its transport, or the service was given up.          *)
PrerequisitesFirst ==
  /\ operation_ = "start" => misjudged \subseteq unforked
  /\ \A w \in Workers :
       at[w] = "command" =>
         \A y \in AllTasks :
           /\ y[1] \in Reached({held[w][1]})
           /\ operation_ \in {"start", "stop"}
           => /\ nodeps_ \/ y \in executed
              /\ \/ y \in right \union misjudged
                 \/ y \notin executed \/ y[1] \notin cluster.command

(* Layers and threads implement an order of single steps. *)
Order == INSTANCE DependencyOrder WITH
  Steps <- Tasks,
  needs <- [x \in Tasks |-> {y \in AllTasks : y[1] \in Prerequisites(x[1])}],
  doing <- {held[w] : w \in {v \in Workers :
              at[v] \in {"look", "check", "command", "probe", "fail", "throw",
                         "done"}}}

ImplementsDependencyOrder == Order!Spec

(* Services that wait for each other. *)
Interdependent ==
  \E S \in SUBSET cluster.enabled \ {{}} :
    \A s \in S : cluster.after[s] \intersect S # {}

(* Every run of the program ends: it refuses a cluster exactly when the    *)
(* description is wrong or there are no threads, or with an internal error *)
(* when all services are disabled, and otherwise carries out all that is   *)
(* there unless an operation fails.                                        *)
RunEnds ==
  <> \/ /\ at["main"] = "threw"
        /\ \/ Interdependent \/ \E s \in cluster.enabled : cluster.hosts[s] = {}
           \/ "thread" \in Faults /\ left = {}
     \/ at["main"] = "internal error" /\ cluster.enabled = {}
     \/ /\ at["main"] = "exit"
        /\ ~Interdependent
        /\ failed = {} => done = AllTasks
=============================================================================

---------------------------- MODULE ProcessPool ----------------------------
(***************************************************************************)
(* El::Service::ProcessPool with its children (Tools/PoolProcess) and its  *)
(* client, El::Python::SandboxService::run.                                *)
(*                                                                         *)
(* Each worker thread keeps one child process, made when it is first       *)
(* needed, and talks to it through two pipes: a command, INIT or a task,   *)
(* one way, and its answer back.  A child may die, hang, answer with an    *)
(* error or write what is no answer.  The life of the threads is that of   *)
(* module ThreadPool, and is reduced here to one controller that starts,   *)
(* stops and waits in turn, and a queue that is never full.                *)
(***************************************************************************)
EXTENDS Integers, Sequences, FiniteSets

CONSTANTS
  Workers,      \* the threads of the pool
  Clients,      \* threads that run a task and wait for it
  Tasks,        \* each is run by one client
  Required,     \* the tasks whose execution_required() is true
  Faults        \* what may fail, see Kinds

(* The callback throws, write_arg() throws, and pipe(), fork(), the child  *)
(* and what it answers.                                                    *)
Kinds == {"callback", "args", "pipe", "fork", "die", "hang", "garbage", "error"}

NoTask == "no task"

(* What the pipes carry besides a task or its result, and what a task says *)
(* when it has none.                                                       *)
Words == {NoTask, "INIT", "S", "E", "garbage", "broken", "timeout", "dropped"}

ASSUME ProcessPoolAssumption ==
  /\ IsFiniteSet(Workers)
  /\ Workers \intersect Clients = {}
  /\ "controller" \notin Workers \union Clients
  /\ Tasks \intersect Words = {}
  /\ Required \subseteq Tasks
  /\ Faults \subseteq Kinds

VARIABLES
  started_, stop_,   \* ServiceBase
  tasks_, open,      \* the queue; its max_size is not zero
  at,                \* where each thread is
  held,              \* held[w]: the task of worker w
  knows,             \* knows[w]: pid, "none", "child", or "-1" from fork()
  timedOut,          \* timedOut[w]: timeout_occured
  proc,              \* proc[w]: the process behind the pipes of w
  doing,             \* doing[w]: the task it executes
  cmd, answer,       \* what is in its two pipes
  piped,             \* piped[w]: w has not closed its ends
  runs,              \* history: how often a child began to execute task t
  completed_,        \* the tasks with completed_ set
  result,            \* result[t]: what the task's members say
  mine,              \* mine[c]: the task client c runs
  accepted, over, dropped, \* history: what became of the tasks
  orphans            \* history: children nobody knows the pid of

poolVars == <<started_, stop_, tasks_, open>>
workVars == <<held, knows, timedOut>>
procVars == <<proc, doing, runs>>
pipeVars == <<cmd, answer, piped>>
taskVars == <<completed_, result>>
history == <<accepted, over, dropped, orphans>>
vars == <<poolVars, at, workVars, procVars, pipeVars, taskVars, mine, history>>

Threads == Workers \union Clients \union {"controller"}

Init ==
  /\ started_ = 0 /\ stop_ = TRUE
  /\ tasks_ = <<>> /\ open = TRUE
  /\ at = [t \in Threads |-> IF t \in Workers THEN "off" ELSE "idle"]
  /\ held = [w \in Workers |-> NoTask]
  /\ knows = [w \in Workers |-> "none"]
  /\ timedOut = [w \in Workers |-> FALSE]
  /\ proc = [w \in Workers |-> "none"]
  /\ doing = [w \in Workers |-> NoTask]
  /\ runs = [t \in Tasks |-> 0]
  /\ cmd = [w \in Workers |-> NoTask]
  /\ answer = [w \in Workers |-> NoTask]
  /\ piped = [w \in Workers |-> FALSE]
  /\ completed_ = {}
  /\ result = [t \in Tasks |-> NoTask]
  /\ mine = [c \in Clients |-> NoTask]
  /\ accepted = {} /\ over = {} /\ dropped = {} /\ orphans = 0

Go(t, place) == at' = [at EXCEPT ![t] = place]

-----------------------------------------------------------------------------
(* start(), stop() and wait(), see ThreadPool. *)
Start ==
  /\ at["controller"] = "idle"
  /\ \A w \in Workers : at[w] = "off"
  /\ open
  /\ started_' = Cardinality(Workers) /\ stop_' = FALSE
  /\ at' = [t \in Threads |-> IF t \in Workers THEN "loop" ELSE at[t]]
  /\ UNCHANGED <<tasks_, open, workVars, procVars, pipeVars, taskVars, mine,
                 history>>

Stop ==
  /\ at["controller"] = "idle"
  /\ started_ # 0 /\ ~stop_
  /\ stop_' = TRUE
  /\ Go("controller", "stop")
  /\ UNCHANGED <<started_, tasks_, open, workVars, procVars, pipeVars,
                 taskVars, mine, history>>

StopMaxSize ==
  /\ at["controller"] = "stop"
  /\ open' = FALSE
  /\ Go("controller", "wait")
  /\ UNCHANGED <<started_, stop_, tasks_, workVars, procVars, pipeVars,
                 taskVars, mine, history>>

Wait ==
  /\ at["controller"] = "wait"
  /\ \A w \in Workers : at[w] = "off"
  /\ open' = TRUE
  /\ Go("controller", "idle")
  /\ UNCHANGED <<started_, stop_, tasks_, workVars, procVars, pipeVars,
                 taskVars, mine, history>>

-----------------------------------------------------------------------------
(* ProcessPool::run: a task from the queue ... *)
Dequeue(w) ==
  /\ at[w] = "loop"
  /\ tasks_ # <<>>
  /\ held' = [held EXCEPT ![w] = Head(tasks_)]
  /\ tasks_' = Tail(tasks_)
  /\ Go(w, "got")
  /\ UNCHANGED <<started_, stop_, open, knows, timedOut, procVars, pipeVars,
                 taskVars, mine, history>>

(* ... or none any more: close_process(true), which neither kills nor      *)
(* notifies.                                                               *)
Leave(w) ==
  /\ at[w] = "loop"
  /\ tasks_ = <<>> /\ ~open
  /\ Go(w, "leave")
  /\ UNCHANGED <<poolVars, workVars, procVars, pipeVars, taskVars, mine,
                 history>>

Fails(t, what) == result' = [result EXCEPT ![t] = what]

(* Mutant: a stopped pool drops any task. *)
DecideDropsAny(w) ==
  /\ at[w] = "got"
  /\ IF ~stop_
     THEN /\ Go(w, IF knows[w] = "none" THEN "create" ELSE "send")
          /\ UNCHANGED <<result, dropped>>
     ELSE /\ Fails(held[w], "dropped")
          /\ Go(w, "signal")
          /\ dropped' = dropped \union {held[w]}
  /\ UNCHANGED <<poolVars, workVars, procVars, pipeVars, completed_, mine,
                 accepted, over, orphans>>

(* A task that is not required is dropped, with an error, by a pool that   *)
(* is stopped.                                                             *)
Decide(w) ==
  /\ at[w] = "got"
  /\ IF held[w] \in Required \/ ~stop_
     THEN /\ Go(w, IF knows[w] = "none" THEN "create" ELSE "send")
          /\ UNCHANGED <<result, dropped>>
     ELSE /\ Fails(held[w], "dropped")
          /\ Go(w, "signal")
          /\ dropped' = dropped \union {held[w]}
  /\ UNCHANGED <<poolVars, workVars, procVars, pipeVars, completed_, mine,
                 accepted, over, orphans>>

(* Mutant: the drop is not signalled. *)
SignalForgetsDropped(w) ==
  /\ at[w] = "signal"
  /\ completed_' = completed_ \union ({held[w]} \ dropped)
  /\ over' = over \union ({held[w]} \ dropped)
  /\ held' = [held EXCEPT ![w] = NoTask]
  /\ Go(w, "loop")
  /\ UNCHANGED <<poolVars, knows, timedOut, procVars, pipeVars, result, mine,
                 accepted, dropped, orphans>>

(* task->signal_completion(). *)
Signal(w) ==
  /\ at[w] = "signal"
  /\ completed_' = completed_ \union {held[w]}
  /\ over' = over \union ({held[w]} \ dropped)
  /\ held' = [held EXCEPT ![w] = NoTask]
  /\ Go(w, "loop")
  /\ UNCHANGED <<poolVars, knows, timedOut, procVars, pipeVars, result, mine,
                 accepted, dropped, orphans>>

-----------------------------------------------------------------------------
(* create_process: two pipes, fork(), and INIT, which the pipe takes.      *)
(* fork()'s -1 passes for a pid, and then nobody reads the pipe.           *)
Create(w) ==
  /\ at[w] = "create"
  /\ \/ /\ proc' = [proc EXCEPT ![w] = "fresh"]
        /\ knows' = [knows EXCEPT ![w] = "child"]
        /\ cmd' = [cmd EXCEPT ![w] = "INIT"]
        /\ Go(w, "init")
        /\ UNCHANGED result
     \/ /\ "fork" \in Faults
        /\ knows' = [knows EXCEPT ![w] = "-1"]
        /\ Fails(held[w], "broken")
        /\ Go(w, "close")
        /\ UNCHANGED <<proc, cmd>>
  /\ piped' = [piped EXCEPT ![w] = TRUE]
  /\ timedOut' = [timedOut EXCEPT ![w] = FALSE]
  /\ UNCHANGED <<poolVars, held, doing, runs, answer, completed_, mine,
                 history>>

(* pipe() fails: the exception ends the worker (Throws). *)
CreateThrows(w) ==
  /\ "pipe" \in Faults
  /\ at[w] = "create"
  /\ Go(w, "throw")
  /\ UNCHANGED <<poolVars, workVars, procVars, pipeVars, taskVars, mine,
                 history>>

(* The end of send_command: an answer, the end of a pipe whose process has *)
(* died, or the timeout, which may come at any time before.                *)
Receives(w, what) == answer[w] = what /\ answer' = [answer EXCEPT ![w] = NoTask]
EndOfFile(w) == proc[w] = "dead" /\ answer[w] = NoTask
Expires(w) == proc[w] # "dead" /\ answer[w] = NoTask

(* INIT is answered: the child is ready; or is not and is closed, with the *)
(* reason it gave or without one.                                          *)
Initialized(w) ==
  /\ at[w] = "init"
  /\ \/ /\ Receives(w, "S")
        /\ Go(w, "send")
        /\ UNCHANGED <<result, timedOut>>
     \/ /\ \/ Receives(w, "E") \/ Receives(w, "garbage")
           \/ EndOfFile(w) /\ UNCHANGED answer
        /\ Fails(held[w], "broken")
        /\ Go(w, "close")
        /\ UNCHANGED timedOut
     \/ /\ Expires(w) /\ UNCHANGED answer
        /\ Fails(held[w], "broken")
        /\ timedOut' = [timedOut EXCEPT ![w] = TRUE]
        /\ Go(w, "close")
  /\ UNCHANGED <<poolVars, held, knows, procVars, cmd, piped, completed_,
                 mine, history>>

(* create_process throws after fork() - an answer that is neither "S" nor  *)
(* "E", or the callback - and takes the pid with it.                       *)
InitializedThrows(w) ==
  /\ at[w] = "init"
  /\ \/ Receives(w, "garbage")
     \/ "callback" \in Faults /\ Receives(w, "S")
  /\ knows' = [knows EXCEPT ![w] = "none"]
  /\ Go(w, "throw")
  /\ UNCHANGED <<poolVars, held, timedOut, procVars, cmd, piped, taskVars,
                 mine, history>>

(* execute(task): what is sent; write_arg() may throw, and the pipe may    *)
(* have no reader any more, or stay full.                                  *)
Send(w) ==
  /\ at[w] = "send"
  /\ \/ /\ proc[w] # "dead"
        /\ cmd' = [cmd EXCEPT ![w] = held[w]]
        /\ Go(w, "sent")
        /\ UNCHANGED result
     \/ /\ proc[w] = "dead" \/ "args" \in Faults
        /\ Fails(held[w], "broken")
        /\ Go(w, "close")
        /\ UNCHANGED cmd
  /\ timedOut' = [timedOut EXCEPT ![w] = FALSE]
  /\ UNCHANGED <<poolVars, held, knows, procVars, answer, piped, completed_,
                 mine, history>>

(* Mutants: the signature of the answer is not compared; a child that did  *)
(* not answer in time is kept for the next task.                           *)
ReceivedUnchecked(w) ==
  /\ at[w] = "sent"
  /\ answer[w] # NoTask
  /\ answer' = [answer EXCEPT ![w] = NoTask]
  /\ Fails(held[w], answer[w])
  /\ Go(w, "signal")
  /\ UNCHANGED <<poolVars, workVars, procVars, cmd, piped, completed_, mine,
                 history>>

LateKeepsChild(w) ==
  /\ at[w] = "sent"
  /\ Expires(w)
  /\ Fails(held[w], "timeout")
  /\ Go(w, "signal")
  /\ UNCHANGED <<poolVars, workVars, procVars, pipeVars, completed_, mine,
                 history>>

(* ... what comes back: the result or the error of this very command, by   *)
(* its signature.                                                          *)
Received(w) ==
  /\ at[w] = "sent"
  /\ \E what \in {held[w], "E"} : Receives(w, what) /\ Fails(held[w], what)
  /\ Go(w, "signal")
  /\ UNCHANGED <<poolVars, workVars, procVars, cmd, piped, completed_, mine,
                 history>>

(* Anything else, and the end of the pipe, is an error for the task and    *)
(* the end of the child ...                                                *)
Broken(w) ==
  /\ at[w] = "sent"
  /\ \/ answer[w] \notin {NoTask, held[w], "E"}
     \/ EndOfFile(w)
  /\ answer' = [answer EXCEPT ![w] = NoTask]
  /\ Fails(held[w], "broken")
  /\ Go(w, "close")
  /\ UNCHANGED <<poolVars, workVars, procVars, cmd, piped, completed_, mine,
                 history>>

(* ... as is the timeout of a poll(). *)
Late(w) ==
  /\ at[w] = "sent"
  /\ Expires(w)
  /\ Fails(held[w], "timeout")
  /\ timedOut' = [timedOut EXCEPT ![w] = TRUE]
  /\ Go(w, "close")
  /\ UNCHANGED <<poolVars, held, knows, procVars, pipeVars, completed_, mine,
                 history>>

-----------------------------------------------------------------------------
(* Mutant: a child that timed out is not killed. *)
CloseProcessMild(w) ==
  /\ at[w] \in {"close", "leave"}
  /\ piped' = [piped EXCEPT ![w] = FALSE]
  /\ cmd' = [cmd EXCEPT ![w] = NoTask]
  /\ answer' = [answer EXCEPT ![w] = NoTask]
  /\ Go(w, IF at[w] = "leave" THEN "reap_last" ELSE "reap")
  /\ UNCHANGED <<poolVars, workVars, procVars, taskVars, mine, history>>

(* close_process: the pipes are closed, and a child that timed out is      *)
(* killed ...                                                              *)
CloseProcess(w) ==
  /\ at[w] \in {"close", "leave"}
  /\ piped' = [piped EXCEPT ![w] = FALSE]
  /\ cmd' = [cmd EXCEPT ![w] = NoTask]
  /\ answer' = [answer EXCEPT ![w] = NoTask]
  /\ IF at[w] = "close" /\ timedOut[w]
     THEN /\ proc' = [proc EXCEPT ![w] = "dead"]
          /\ doing' = [doing EXCEPT ![w] = NoTask]
     ELSE UNCHANGED <<proc, doing>>
  /\ Go(w, IF at[w] = "leave" THEN "reap_last" ELSE "reap")
  /\ UNCHANGED <<poolVars, workVars, runs, taskVars, mine, history>>

(* ... and waitpid() waits for its end ...                                 *)
ReapChild(w) ==
  /\ knows[w] = "child" /\ proc[w] \in {"dead", "reaped"}
  /\ proc' = [proc EXCEPT ![w] = "none"]

(* ... but for -1, the pid of a failed fork, it waits for the end of any   *)
(* child, which is then nobody's, or for nothing if there is no child.     *)
ReapAny(w) ==
  /\ knows[w] = "-1"
  /\ \/ \E v \in Workers : /\ proc[v] = "dead"
                           /\ proc' = [proc EXCEPT ![v] = "reaped"]
                           /\ UNCHANGED orphans
     \/ /\ orphans > 0 /\ orphans' = orphans - 1
        /\ UNCHANGED proc
     \/ /\ \A v \in Workers : proc[v] \in {"none", "reaped"}
        /\ orphans = 0
        /\ UNCHANGED <<proc, orphans>>

(* Mutant: the task is completed before its process has ended. *)
ReapEarly(w) ==
  /\ at[w] = "reap"
  /\ knows' = [knows EXCEPT ![w] = "none"]
  /\ timedOut' = [timedOut EXCEPT ![w] = FALSE]
  /\ Go(w, "signal")
  /\ UNCHANGED <<poolVars, held, procVars, pipeVars, taskVars, mine, history>>

(* The pool's owner is told; its callback may throw. *)
Reap(w) ==
  /\ at[w] = "reap"
  /\ \/ ReapChild(w) /\ UNCHANGED orphans
     \/ ReapAny(w)
  /\ knows' = [knows EXCEPT ![w] = "none"]
  /\ timedOut' = [timedOut EXCEPT ![w] = FALSE]
  /\ Go(w, "signal") \/ ("callback" \in Faults /\ Go(w, "throw"))
  /\ UNCHANGED <<poolVars, held, doing, runs, pipeVars, taskVars, mine,
                 accepted, over, dropped>>

ReapLast(w) ==
  /\ at[w] = "reap_last"
  /\ \/ ReapChild(w)
     \/ knows[w] = "none" /\ UNCHANGED proc
  /\ knows' = [knows EXCEPT ![w] = "none"]
  /\ Go(w, "ends")
  /\ UNCHANGED <<poolVars, held, timedOut, doing, runs, pipeVars, taskVars,
                 mine, history>>

(* run()'s handler of exceptions: pipes that are open are closed, and the  *)
(* child behind them, whose pid nobody knows, ends as a zombie.  The task  *)
(* in hand is never completed.                                             *)
Throws(w) ==
  /\ at[w] = "throw"
  /\ piped' = [piped EXCEPT ![w] = FALSE]
  /\ cmd' = [cmd EXCEPT ![w] = NoTask]
  /\ answer' = [answer EXCEPT ![w] = NoTask]
  /\ proc' = [proc EXCEPT ![w] = "none"]
  /\ orphans' = IF proc[w] = "none" THEN orphans ELSE orphans + 1
  /\ over' = over \union {held[w]}
  /\ held' = [held EXCEPT ![w] = NoTask]
  /\ Go(w, "ends")
  /\ UNCHANGED <<poolVars, knows, timedOut, doing, runs, taskVars, mine,
                 accepted, dropped>>

(* The end of exec_thread_func. *)
Ends(w) ==
  /\ at[w] = "ends"
  /\ started_' = started_ - 1
  /\ Go(w, "off")
  /\ UNCHANGED <<stop_, tasks_, open, workVars, procVars, pipeVars, taskVars,
                 mine, history>>

-----------------------------------------------------------------------------
(* ElPoolProcess: INIT loads the factory, or fails. *)
ChildInit(w) ==
  /\ proc[w] = "fresh" /\ cmd[w] = "INIT"
  /\ cmd' = [cmd EXCEPT ![w] = NoTask]
  /\ \E what \in {"S"} \union {f \in {"E", "garbage"} :
                    \/ f = "E" /\ "error" \in Faults
                    \/ f \in Faults} :
       answer' = [answer EXCEPT ![w] = what]
  /\ proc' = [proc EXCEPT ![w] = "ready"]
  /\ UNCHANGED <<poolVars, at, workVars, doing, runs, piped, taskVars, mine,
                 history>>

ChildReads(w) ==
  /\ proc[w] = "ready" /\ cmd[w] \in Tasks
  /\ proc' = [proc EXCEPT ![w] = "busy"]
  /\ doing' = [doing EXCEPT ![w] = cmd[w]]
  /\ runs' = [runs EXCEPT ![cmd[w]] = @ + 1]
  /\ cmd' = [cmd EXCEPT ![w] = NoTask]
  /\ UNCHANGED <<poolVars, at, workVars, answer, piped, taskVars, mine,
                 history>>

(* execute_task and write_data: the result, or an exception as an error;   *)
(* nobody may read it any more.                                            *)
ChildAnswers(w) ==
  /\ proc[w] = "busy"
  /\ \/ /\ piped[w] /\ answer[w] = NoTask
        /\ \E what \in {doing[w]} \union (IF "error" \in Faults THEN {"E"} ELSE {}) :
             answer' = [answer EXCEPT ![w] = what]
        /\ proc' = [proc EXCEPT ![w] = "ready"]
     \/ /\ ~piped[w]
        /\ proc' = [proc EXCEPT ![w] = "dead"]
        /\ UNCHANGED answer
  /\ doing' = [doing EXCEPT ![w] = NoTask]
  /\ UNCHANGED <<poolVars, at, workVars, runs, cmd, piped, taskVars, mine,
                 history>>

(* The end of its input ends the child. *)
ChildEnds(w) ==
  /\ proc[w] \in {"fresh", "ready"} /\ ~piped[w]
  /\ proc' = [proc EXCEPT ![w] = "dead"]
  /\ UNCHANGED <<poolVars, at, workVars, doing, runs, pipeVars, taskVars,
                 mine, history>>

(* A task's own code writes to the pipe ... *)
ChildBabbles(w) ==
  /\ "garbage" \in Faults
  /\ proc[w] = "busy" /\ piped[w] /\ answer[w] = NoTask
  /\ answer' = [answer EXCEPT ![w] = "garbage"]
  /\ UNCHANGED <<poolVars, at, workVars, procVars, cmd, piped, taskVars, mine,
                 history>>

(* ... or never ends, while its parent still waits for it ... *)
ChildHangs(w) ==
  /\ "hang" \in Faults
  /\ proc[w] \in {"fresh", "busy"}
  /\ at[w] \in {"init", "sent"} /\ answer[w] = NoTask
  /\ proc' = [proc EXCEPT ![w] = "hung"]
  /\ UNCHANGED <<poolVars, at, workVars, doing, runs, pipeVars, taskVars,
                 mine, history>>

(* ... or ends the process; so does a failing execlp(). *)
ChildDies(w) ==
  /\ "die" \in Faults
  /\ proc[w] \in {"fresh", "ready", "busy"}
  /\ proc' = [proc EXCEPT ![w] = "dead"]
  /\ doing' = [doing EXCEPT ![w] = NoTask]
  /\ UNCHANGED <<poolVars, at, workVars, runs, pipeVars, taskVars, mine,
                 history>>

-----------------------------------------------------------------------------
(* execute(task), called by SandboxService::run; a pool that was started   *)
(* and is stopped refuses, and so does a closed queue.                     *)
Execute(c, t) ==
  /\ at[c] = "idle"
  /\ t \notin accepted
  /\ started_ = 0 \/ ~stop_
  /\ open
  /\ tasks_' = Append(tasks_, t)
  /\ accepted' = accepted \union {t}
  /\ mine' = [mine EXCEPT ![c] = t]
  /\ Go(c, "check")
  /\ UNCHANGED <<started_, stop_, open, workVars, procVars, pipeVars, taskVars,
                 over, dropped, orphans>>

(* run() looks at started() before it waits, and gives up if the pool does *)
(* not run, whatever becomes of the task.                                  *)
Check(c) ==
  /\ at[c] = "check"
  /\ Go(c, IF started_ # 0 /\ ~stop_ THEN "wait" ELSE "idle")
  /\ UNCHANGED <<poolVars, workVars, procVars, pipeVars, taskVars, mine,
                 history>>

(* TaskBase::wait returns. *)
WaitReturns(c) ==
  /\ at[c] = "wait"
  /\ mine[c] \in completed_
  /\ Go(c, "idle")
  /\ UNCHANGED <<poolVars, workVars, procVars, pipeVars, taskVars, mine,
                 history>>

-----------------------------------------------------------------------------
Work(w) ==
  \/ Dequeue(w) \/ Leave(w) \/ Decide(w) \/ Signal(w)
  \/ Create(w) \/ CreateThrows(w) \/ Initialized(w) \/ InitializedThrows(w)
  \/ Send(w) \/ Received(w) \/ Broken(w) \/ Late(w)
  \/ CloseProcess(w) \/ Reap(w) \/ ReapLast(w) \/ Throws(w) \/ Ends(w)

Child(w) == ChildInit(w) \/ ChildReads(w) \/ ChildAnswers(w) \/ ChildEnds(w)

Next ==
  \/ Start \/ Stop \/ StopMaxSize \/ Wait
  \/ \E w \in Workers :
       Work(w) \/ Child(w) \/ ChildBabbles(w) \/ ChildHangs(w) \/ ChildDies(w)
  \/ \E c \in Clients :
       (\E t \in Tasks : Execute(c, t)) \/ Check(c) \/ WaitReturns(c)

Spec == Init /\ [][Next]_vars

(* Threads and processes that can go on do; polls expire. *)
LiveSpec ==
  /\ Spec
  /\ WF_vars(StopMaxSize) /\ WF_vars(Wait)
  /\ \A w \in Workers : WF_vars(Work(w)) /\ WF_vars(Child(w))
  /\ \A c \in Clients : WF_vars(Check(c)) /\ WF_vars(WaitReturns(c))

-----------------------------------------------------------------------------
InQueue == {tasks_[i] : i \in DOMAIN tasks_}
InHand == {held[w] : w \in Workers} \ {NoTask}

(* Every variable is in its type. *)
TypeOK ==
  /\ started_ \in 0 .. Cardinality(Workers) /\ stop_ \in BOOLEAN
  /\ tasks_ \in Seq(Tasks) /\ open \in BOOLEAN
  /\ \A c \in Clients : at[c] \in {"idle", "check", "wait"}
  /\ held \in [Workers -> Tasks \union {NoTask}]
  /\ knows \in [Workers -> {"none", "child", "-1"}]
  /\ timedOut \in [Workers -> BOOLEAN] /\ piped \in [Workers -> BOOLEAN]
  /\ proc \in [Workers -> {"none", "fresh", "ready", "busy", "hung", "dead",
                           "reaped"}]
  /\ doing \in [Workers -> Tasks \union {NoTask}]
  /\ cmd \in [Workers -> Tasks \union {NoTask, "INIT"}]
  /\ answer \in [Workers -> Tasks \union {NoTask, "S", "E", "garbage"}]
  /\ orphans \in Nat

(* A task is executed by a child at most once.  When it is completed no    *)
(* child executes it any more, and what its client finds in it is its own  *)
(* result, or why there is none: no late answer and no garbage.            *)
CompletedIsFinal ==
  /\ TypeOK
  /\ \A t \in Tasks :
       /\ runs[t] <= 1
       /\ t \in completed_ =>
            /\ \A w \in Workers : doing[w] # t
            /\ result[t] \in {t, "E", "broken", "timeout", "dropped"}

(* The pool treats its tasks as TaskPool promises. *)
Promise == INSTANCE TaskPool WITH
  stopped <- stop_,
  waiting <- InQueue,
  taken <- InHand \ dropped

ImplementsTaskPool == Promise!Spec

(* A worker that waits for the pid -1 of a failed fork. *)
Stuck == \E w \in Workers : at[w] = "reap" /\ knows[w] = "-1"

(* Who waits for a task's completion returns, whatever the children do:    *)
(* unless an exception ended the worker that had the task, or the last     *)
(* worker, or fork() failed.                                               *)
WaiterReturns ==
  \A c \in Clients :
    at[c] = "wait" ~> \/ at[c] = "idle"
                      \/ mine[c] \in over \ completed_
                      \/ started_ = 0 \/ Stuck

(* stop() and wait() return, whatever the children do.                     *)
StopReturns ==
  at["controller"] # "idle" ~> \/ at["controller"] = "idle"
                               \/ Stuck
=============================================================================

----------------------- MODULE CompoundService_proofs -----------------------
(***************************************************************************)
(* Theorems about CompoundService: for any clients, threads of the pool,   *)
(* states and messages and any size of the queue, when one controller      *)
(* calls start, stop and wait, and does not call start while a state is    *)
(* being replaced.                                                         *)
(***************************************************************************)
EXTENDS CompoundService, TLAPS

InTurn == ~OverlapStart /\ \E k : Controllers = {k}

(* Who has what in hand.                                                   *)
Resetting == {"set_state", "set_stop", "set_wait", "set_lock"}

Parts ==
  /\ \A k \in Controllers :
       /\ at[k] \in {"idle", "start", "start_pool", "start_state", "stop", "stop_pool",
                    "stop_state", "wait", "wait_pool", "wait_read", "wait_state", "wait_done"}
       /\ arg[k] = NoTask
       /\ holder = k <=> at[k] \in {"start_pool", "stop_pool"}
  /\ \A c \in Clients :
       /\ at[c] \in {"idle", "state_stop", "execute", "blocked"}
       /\ arg[c] = NoTask <=> at[c] = "idle"
       /\ at[c] = "state_stop" => arg[c] \in States
  /\ \A w \in Workers :
       /\ at[w] \in {"off", "run"} \union Resetting
       /\ arg[w] = NoTask <=> at[w] \notin Resetting
       /\ arg[w] # NoTask => arg[w] \in States
  /\ at["timer"] \in {"off", "run", "execute", "blocked"}
  /\ arg["timer"] \in Messages \union {NoTask}
  /\ arg["timer"] = NoTask <=> at["timer"] \in {"off", "run"}
  /\ pool = "off" => \A w \in Workers : at[w] = "off"
  /\ timer = "off" => at["timer"] = "off"

(* A state that was given is new until it is installed: it is in one hand, *)
(* or in one place of the queue, it is not the current one, and nobody has *)
(* seen it.                                                                *)
Waiting(s) == \E i \in DOMAIN tasks_ : tasks_[i] = s

Once ==
  /\ \A t \in Threads : seen[t] \in given \union {NoState}
  /\ state_ \in given \union {NoState}
  /\ \A t \in Threads : arg[t] \in States =>
       /\ arg[t] \in given /\ arg[t] # state_ /\ ~Waiting(arg[t])
       /\ \A u \in Threads : seen[u] # arg[t] /\ (arg[u] = arg[t] => u = t)
  /\ \A i \in DOMAIN tasks_ : tasks_[i] \in States =>
       /\ tasks_[i] \in given /\ tasks_[i] # state_
       /\ \A u \in Threads : seen[u] # tasks_[i]
       /\ \A j \in DOMAIN tasks_ : tasks_[j] = tasks_[i] => j = i

(* Only the current state is on, and it is off when it is about to be      *)
(* replaced.                                                               *)
Single ==
  /\ \A s \in States : sub[s] # "off" => s = state_
  /\ \A w \in Workers : at[w] = "set_lock" /\ seen[w] = state_ => Joined(state_)

(* The phases of the service.                                              *)
AllOff == \A s \in States : sub[s] = "off"
Underway == \E t \in Threads : arg[t] \in States \/ \E s \in States : Waiting(s)

(* Somebody will install a state in place of the current one.              *)
Pending ==
  \/ \E c \in Clients : at[c] \in {"execute", "blocked"} /\ arg[c] \in States
  \/ \E s \in States : Waiting(s)
  \/ \E w \in Workers : at[w] = "set_state"
  \/ \E w \in Workers : at[w] \in Resetting /\ seen[w] = state_

Resting(k) == at[k] \in {"start", "start_pool"} \/ (at[k] = "idle" /\ last[k] = "wait")
Working(k) == at[k] \in {"stop", "stop_pool"} \/ (at[k] = "idle" /\ last[k] = "start")
Stopping(k) ==
  \/ at[k] \in {"stop_state", "wait", "wait_pool", "wait_read", "wait_state", "wait_done"}
  \/ at[k] = "idle" /\ last[k] = "stop"

Phase(k) ==
  /\ at[k] \in {"start", "start_pool", "start_state"} => last[k] = "start" /\ ~Underway
  /\ at[k] \in {"stop", "stop_pool", "stop_state"} => last[k] = "stop"
  /\ at[k] \in {"wait", "wait_pool", "wait_read", "wait_state", "wait_done"}
       => last[k] = "wait"
  /\ Resting(k) =>
       ~started_ /\ stop_ /\ pool = "off" /\ timer = "off" /\ open /\ AllOff
  /\ at[k] = "start_state" =>
       /\ started_ /\ ~stop_ /\ pool = "running" /\ timer = "running" /\ open
       /\ IF seen[k] = NoState
          THEN state_ # NoState => sub[state_] = "running"
          ELSE seen[k] = state_ /\ AllOff
  /\ Working(k) =>
       /\ started_ /\ ~stop_ /\ pool = "running" /\ open
       /\ timer = "running" <=> at[k] # "stop_pool"
       /\ state_ # NoState => sub[state_] = "running" \/ Pending
  /\ Stopping(k) =>
       /\ started_ /\ stop_ /\ pool # "running" /\ timer # "running"
       /\ \A s \in States : sub[s] = "running" => at[k] = "stop_state" /\ s = seen[k]
       /\ at[k] \notin {"stop_state", "idle", "wait"} => timer = "off"
       /\ at[k] \in {"wait_read", "wait_state", "wait_done"} => pool = "off" /\ open
       /\ at[k] = "wait_state" => \A s \in States : sub[s] # "off" => s = seen[k]
       /\ at[k] = "wait_done" => AllOff

Phases == \A k \in Controllers : Phase(k)

IInv == TypeOK /\ Parts /\ Once /\ Single /\ Phases


-----------------------------------------------------------------------------
LEMMA ThreadFacts ==
  /\ \A k \in Controllers : k \in Threads /\ k \notin Clients \union Workers /\ k # "timer"
                            /\ k # Nobody
  /\ \A c \in Clients : c \in Threads /\ c \notin Controllers \union Workers /\ c # "timer"
  /\ \A w \in Workers : w \in Threads /\ w \notin Controllers \union Clients /\ w # "timer"
  /\ "timer" \in Threads
BY CompoundAssumption DEF Threads

Places ==
  {"idle", "start", "start_pool", "start_state", "stop",
   "stop_pool", "stop_state", "wait", "wait_pool", "wait_read",
   "wait_state", "wait_done", "execute", "blocked", "state_stop",
   "off", "run", "set_state", "set_stop", "set_wait", "set_lock"}

LEMMA GoFacts ==
  ASSUME TypeOK, NEW t \in Threads, NEW place \in Places, Go(t, place)
  PROVE  /\ at' \in [Threads -> Places] /\ at'[t] = place
         /\ \A u \in Threads \ {t} : at'[u] = at[u]
BY DEF Go, TypeOK, Places

LEMMA StartedFacts ==
  ASSUME TypeOK, NEW s \in States \union {NoState}
  PROVE  /\ Started(s) \in [States -> {"off", "running", "stopping"}]
         /\ \A r \in States : Started(s)[r] = IF r = s /\ sub[s] = "off" THEN "running"
                                              ELSE sub[r]
BY CompoundAssumption DEF Started, TypeOK

LEMMA StoppedFacts ==
  ASSUME TypeOK, NEW s \in States \union {NoState}
  PROVE  /\ Stopped(s) \in [States -> {"off", "running", "stopping"}]
         /\ \A r \in States : Stopped(s)[r] = IF r = s /\ sub[s] = "running" THEN "stopping"
                                              ELSE sub[r]
BY CompoundAssumption DEF Stopped, TypeOK

LEMMA InitIInv == InTurn /\ Init => IInv
<1> SUFFICES ASSUME InTurn, Init PROVE IInv
  OBVIOUS
<1>1. /\ \A t \in Workers \union {"timer"} : at[t] = "off"
      /\ \A t \in Controllers \union Clients : at[t] = "idle"
      /\ \A t \in Threads : seen[t] = NoState /\ arg[t] = NoTask
      /\ DOMAIN tasks_ = {}
  BY ThreadFacts DEF Init, Threads
<1>2. TypeOK
  <2>1. tasks_ \in Seq(States \union Messages) /\ Len(tasks_) <= QueueSize
    BY CompoundAssumption DEF Init
  <2>2. at \in [Threads -> Places]
    BY DEF Init, Places
  <2> QED  BY <2>1, <2>2 DEF Init, TypeOK, Places
<1>3. Parts
  BY <1>1, ThreadFacts DEF Init, Parts, Resetting
<1>4. Once
  BY <1>1, CompoundAssumption DEF Init, Once, Waiting
<1>5. Single
  BY <1>1 DEF Init, Single
<1>6. Phases
  BY <1>1, ThreadFacts
     DEF Init, Phases, Phase, Resting, Working, Stopping, AllOff, Underway, Waiting
<1> QED  BY <1>2, <1>3, <1>4, <1>5, <1>6 DEF IInv

-----------------------------------------------------------------------------
(* The steps of each part leave the variables of the others in their types. *)
LEMMA ControlTyped ==
  ASSUME TypeOK, NEW k \in Controllers, Calls(k) \/ Control(k)
  PROVE  TypeOK'
<1> USE ThreadFacts DEF Go, lockVars, poolVars, timerVars
<1>1. CASE Calls(k)
  BY <1>1 DEF Calls, NextCall, TypeOK
<1>2. CASE StartBegin(k) \/ StopBegin(k)
  BY <1>2 DEF StartBegin, StopBegin, TypeOK
<1>3. CASE StartPool(k)
  BY <1>3 DEF StartPool, TypeOK
<1>4. CASE StartState(k)
  BY <1>4, StartedFacts DEF StartState, TypeOK
<1>5. CASE StopPool(k)
  BY <1>5 DEF StopPool, TypeOK
<1>6. CASE StopState(k)
  BY <1>6, StoppedFacts DEF StopState, TypeOK
<1>7. CASE WaitTimer(k) \/ WaitPool(k) \/ WaitReadState(k)
  <2>1. CASE WaitTimer(k)
    BY <2>1 DEF WaitTimer, TypeOK
  <2>2. CASE WaitPool(k)
    BY <2>2 DEF WaitPool, TypeOK
  <2>3. CASE WaitReadState(k)
    BY <2>3 DEF WaitReadState, TypeOK
  <2> QED  BY <1>7, <2>1, <2>2, <2>3
<1>8. CASE WaitState(k)
  BY <1>8 DEF WaitState, TypeOK
<1>9. CASE WaitDone(k)
  BY <1>9 DEF WaitDone, TypeOK
<1> QED  BY <1>1, <1>2, <1>3, <1>4, <1>5, <1>6, <1>7, <1>8, <1>9 DEF Control

LEMMA WorkTyped ==
  ASSUME TypeOK, Parts, NEW w \in Workers, Work(w)
  PROVE  TypeOK'
<1> USE ThreadFacts DEF Go, lockVars, poolVars, timerVars
<1>1. CASE Take(w)
  <2>1. /\ Head(tasks_) \in States \union Messages /\ Tail(tasks_) \in Seq(States \union Messages)
        /\ Len(Tail(tasks_)) <= QueueSize
    BY <1>1, CompoundAssumption DEF Take, TypeOK
  <2> QED  BY <1>1, <2>1 DEF Take, TypeOK
<1>2. CASE Leave(w)
  BY <1>2 DEF Leave, TypeOK
<1>3. CASE SetStateRead(w) \/ SetStateWait(w)
  BY <1>3 DEF SetStateRead, SetStateWait, TypeOK
<1>4. CASE SetStateStop(w)
  BY <1>4, StoppedFacts DEF SetStateStop, TypeOK
<1>5. CASE SetStateInstall(w)
  <2>1. arg[w] \in States
    BY <1>5 DEF SetStateInstall, Parts, Resetting
  <2> QED  BY <1>5, <2>1, StartedFacts DEF SetStateInstall, TypeOK
<1> QED  BY <1>1, <1>2, <1>3, <1>4, <1>5 DEF Work

LEMMA ExecutesDoes ==
  ASSUME TypeOK, Parts, NEW t \in Clients \union {"timer"}, Executes(t)
  PROVE  /\ t \in Threads /\ at[t] \in {"execute", "blocked"} /\ arg[t] \in States \union Messages
         /\ UNCHANGED <<lockVars, holder, last, seen, sub, pool, open, timerVars, given>>
         /\ \/ /\ open /\ Go(t, "blocked") /\ UNCHANGED <<tasks_, arg>>
            \/ /\ Go(t, IF t = "timer" THEN "run" ELSE "idle")
               /\ arg' = [arg EXCEPT ![t] = NoTask]
               /\ \/ ~open /\ tasks_' = tasks_
                  \/ open /\ Len(tasks_) < QueueSize /\ tasks_' = Append(tasks_, arg[t])
<1>1. t \in Threads /\ at[t] \in {"execute", "blocked"} /\ arg[t] \in States \union Messages
  BY ThreadFacts DEF Executes, TypeOK, Parts
<1>2. /\ UNCHANGED <<lockVars, holder, last, seen, sub, pool, open, timerVars, given>>
      /\ Execute(t, IF t = "timer" THEN "run" ELSE "idle")
      /\ arg' = [arg EXCEPT ![t] = IF at'[t] = "blocked" THEN arg[t] ELSE NoTask]
  BY DEF Executes
<1>3. CASE Go(t, "blocked") /\ open /\ UNCHANGED tasks_
  <2>1. at'[t] = "blocked"
    BY <1>1, <1>3, GoFacts DEF Places
  <2>2. arg' = arg
    BY <1>1, <1>2, <2>1 DEF TypeOK
  <2> QED  BY <1>1, <1>2, <1>3, <2>2
<1>4. CASE /\ Go(t, IF t = "timer" THEN "run" ELSE "idle")
           /\ \/ ~open /\ tasks_' = tasks_
              \/ open /\ Len(tasks_) < QueueSize /\ tasks_' = Append(tasks_, arg[t])
  <2>1. PICK place \in {"run", "idle"} : Go(t, place)
    BY <1>4
  <2>2. at'[t] # "blocked"
    BY <1>1, <2>1, GoFacts DEF Places
  <2> QED  BY <1>1, <1>2, <1>4, <2>2
<1> QED  BY <1>2, <1>3, <1>4 DEF Execute

LEMMA OthersTyped ==
  ASSUME TypeOK, Parts,
         \/ \E c \in Clients : StateCall(c) \/ StateStop(c) \/ DeliverAtTime(c)
                               \/ DeliverNow(c)
         \/ \E t \in Clients \union {"timer"} : Executes(t)
         \/ TimerTriggers \/ TimerEnds
         \/ \E s \in States : StateEnds(s)
  PROVE  TypeOK'
<1> USE ThreadFacts DEF Go, lockVars, poolVars, timerVars
<1>1. ASSUME NEW c \in Clients, StateCall(c) PROVE TypeOK'
  BY <1>1 DEF StateCall, TypeOK
<1>2. ASSUME NEW c \in Clients, StateStop(c) PROVE TypeOK'
  BY <1>2, StoppedFacts DEF StateStop, TypeOK
<1>3. ASSUME NEW c \in Clients, DeliverAtTime(c) \/ DeliverNow(c) PROVE TypeOK'
  BY <1>3 DEF DeliverAtTime, DeliverNow, TypeOK
<1>4. ASSUME NEW t \in Clients \union {"timer"}, Executes(t) PROVE TypeOK'
  <2>1. PICK e \in States \union Messages : e = arg[t]
    BY <1>4, ExecutesDoes
  <2>2. Len(tasks_) < QueueSize =>
          /\ Append(tasks_, e) \in Seq(States \union Messages)
          /\ Len(Append(tasks_, e)) <= QueueSize
    BY CompoundAssumption DEF TypeOK
  <2> QED  BY SMTT(30), <1>4, <2>1, <2>2, ExecutesDoes DEF TypeOK
<1>5. CASE TimerTriggers \/ TimerEnds
  BY SMTT(30), <1>5 DEF TimerTriggers, TimerEnds, TypeOK
<1>6. ASSUME NEW s \in States, StateEnds(s) PROVE TypeOK'
  BY <1>6 DEF StateEnds, TypeOK
<1> QED  BY <1>1, <1>2, <1>3, <1>4, <1>5, <1>6


-----------------------------------------------------------------------------
(* Who has what in hand. *)
ControlPlaces ==
  {"idle", "start", "start_pool", "start_state", "stop", "stop_pool", "stop_state",
   "wait", "wait_pool", "wait_read", "wait_state", "wait_done"}

LEMMA ControlParts ==
  ASSUME TypeOK, Parts, NEW k \in Controllers, Controllers = {k}, Calls(k) \/ Control(k)
  PROVE  Parts'
<1> USE DEF lockVars, poolVars, timerVars
<1>1. k \in Threads /\ k \notin Clients /\ k \notin Workers /\ k # "timer" /\ k # Nobody
  BY ThreadFacts
<1>2. ASSUME NEW place \in ControlPlaces, Go(k, place), UNCHANGED arg,
             holder' = k <=> place \in {"start_pool", "stop_pool"},
             pool' = "off" => pool = "off", timer' = "off" => timer = "off"
      PROVE  Parts'
  <2>1. at'[k] = place /\ \A t \in Threads \ {k} : at'[t] = at[t]
    BY <1>2, <1>1, GoFacts DEF Places, ControlPlaces
  <2>2. \A j \in Controllers :
          at'[j] \in ControlPlaces /\ arg'[j] = NoTask
          /\ (holder' = j <=> at'[j] \in {"start_pool", "stop_pool"})
    BY <1>2, <2>1 DEF Parts
  <2> QED  BY <1>1, <1>2, <2>1, <2>2, ThreadFacts DEF Parts, ControlPlaces
<1>3. holder = k <=> at[k] \in {"start_pool", "stop_pool"}
  BY DEF Parts
<1>4. CASE Calls(k)
  <2>1. UNCHANGED <<arg, holder, pool, timer>> /\ at[k] = "idle"
    BY <1>4 DEF Calls
  <2>2. PICK place \in {"start", "stop", "wait"} : Go(k, place)
    BY <1>4 DEF Calls, NextCall, TypeOK
  <2> QED  BY <1>2, <1>3, <2>1, <2>2 DEF ControlPlaces
<1>5. CASE StartBegin(k) \/ StopBegin(k)
  BY <1>1, <1>2, <1>3, <1>5 DEF StartBegin, StopBegin, ControlPlaces
<1>6. CASE StartPool(k)
  <2>1. /\ arg' = arg /\ holder' = Nobody /\ at'[k] = "start_state"
        /\ pool' # "off" /\ timer' # "off"
    BY <1>1, <1>6 DEF StartPool
  <2>2. /\ \A c \in Clients : at'[c] = at[c]
        /\ \A w \in Workers : at'[w] = IF pool = "off" THEN "run" ELSE at[w]
        /\ at'["timer"] = IF timer = "off" THEN "run" ELSE at["timer"]
    BY <1>1, <1>6, ThreadFacts DEF StartPool
  <2>3. /\ \A w \in Workers : at'[w] = at[w] \/ (at[w] = "off" /\ at'[w] = "run")
        /\ at'["timer"] = at["timer"] \/ (at["timer"] = "off" /\ at'["timer"] = "run")
    BY <2>2 DEF Parts
  <2> QED  BY <1>1, <2>1, <2>2, <2>3 DEF Parts, Resetting
<1>7. CASE StopPool(k) \/ StartState(k) \/ StopState(k)
  BY <1>1, <1>2, <1>3, <1>7 DEF StopPool, StartState, StopState, ControlPlaces
<1>8. CASE WaitTimer(k) \/ WaitPool(k) \/ WaitReadState(k) \/ WaitState(k) \/ WaitDone(k)
  BY <1>1, <1>2, <1>3, <1>8
     DEF WaitTimer, WaitPool, WaitReadState, WaitState, WaitDone, ControlPlaces
<1> QED  BY <1>4, <1>5, <1>6, <1>7, <1>8 DEF Control


(* A client, the timer or a thread of the pool goes on. *)
LEMMA MoverParts ==
  ASSUME TypeOK, Parts, NEW t \in Threads \ Controllers, NEW place \in Places, Go(t, place),
         \A u \in Threads \ {t} : arg'[u] = arg[u],
         holder' = holder,
         t \in Clients =>
           /\ place \in {"idle", "state_stop", "execute", "blocked"}
           /\ arg'[t] = NoTask <=> place = "idle"
           /\ place = "state_stop" => arg'[t] \in States,
         t \in Workers =>
           /\ place \in {"off", "run"} \union Resetting
           /\ arg'[t] = NoTask <=> place \notin Resetting
           /\ arg'[t] # NoTask => arg'[t] \in States,
         t = "timer" =>
           /\ place \in {"off", "run", "execute", "blocked"}
           /\ arg'[t] \in Messages \union {NoTask}
           /\ arg'[t] = NoTask <=> place \in {"off", "run"},
         pool' = "off" => \A w \in Workers : at'[w] = "off",
         timer' = "off" => at'["timer"] = "off"
  PROVE  Parts'
<1>1. at'[t] = place /\ \A u \in Threads \ {t} : at'[u] = at[u]
  BY GoFacts
<1>2. \A k \in Controllers : at'[k] = at[k] /\ arg'[k] = arg[k]
  BY <1>1, ThreadFacts
<1>3. \A c \in Clients : c # t => at'[c] = at[c] /\ arg'[c] = arg[c]
  BY <1>1, ThreadFacts
<1>4. \A w \in Workers : w # t => at'[w] = at[w] /\ arg'[w] = arg[w]
  BY <1>1, ThreadFacts
<1>5. "timer" # t => at'["timer"] = at["timer"] /\ arg'["timer"] = arg["timer"]
  BY <1>1, ThreadFacts
<1> QED  BY <1>1, <1>2, <1>3, <1>4, <1>5 DEF Parts

LEMMA WorkParts ==
  ASSUME TypeOK, Parts, NEW w \in Workers, Work(w)
  PROVE  Parts'
<1> USE DEF lockVars, poolVars, timerVars, Resetting
<1>1. /\ w \in Threads \ Controllers /\ w \notin Clients /\ w # "timer"
      /\ "timer" \in Threads /\ "timer" \notin Workers
  BY ThreadFacts
<1>2. ASSUME NEW place \in {"run", "set_state", "set_stop", "set_wait", "set_lock"},
             Go(w, place), at[w] # "off",
             \A u \in Threads \ {w} : arg'[u] = arg[u],
             arg'[w] = NoTask <=> place = "run",
             arg'[w] # NoTask => arg'[w] \in States,
             UNCHANGED <<holder, pool, timer>>
      PROVE  Parts'
  <2>1. pool # "off" /\ place \in Places
    BY <1>2 DEF Parts, Places
  <2>2. timer' = "off" => at'["timer"] = "off"
    BY <1>1, <1>2, <2>1, GoFacts DEF Parts
  <2> QED  BY <1>1, <1>2, <2>1, <2>2, MoverParts
<1>3. CASE Take(w)
  <2>1. /\ at[w] = "run" /\ arg[w] = NoTask /\ UNCHANGED <<holder, pool, timer>>
        /\ w \in Threads
    BY <1>1, <1>3 DEF Take, Parts
  <2>2. CASE UNCHANGED <<at, arg>>
    BY <2>1, <2>2 DEF Parts
  <2>3. CASE ~UNCHANGED <<at, arg>>
    <3>1. PICK s \in States : Go(w, "set_state") /\ arg' = [arg EXCEPT ![w] = s]
      BY <1>3, <2>3 DEF Take
    <3>2. arg'[w] = s /\ \A u \in Threads \ {w} : arg'[u] = arg[u]
      BY <2>1, <3>1 DEF TypeOK
    <3>3. s # NoTask
      BY CompoundAssumption
    <3> QED  BY <1>2, <2>1, <3>1, <3>2, <3>3
  <2> QED  BY <2>2, <2>3
<1>4. CASE Leave(w)
  <2>1. /\ Go(w, "off") /\ at[w] = "run" /\ UNCHANGED <<holder, timer, arg>> /\ arg[w] = NoTask
        /\ pool' = IF \A v \in Workers \ {w} : at[v] = "off" THEN "off" ELSE pool
    BY <1>4 DEF Leave, Parts
  <2>2. at'[w] = "off" /\ \A u \in Threads \ {w} : at'[u] = at[u]
    BY <1>1, <2>1, GoFacts DEF Places
  <2>3. pool # "off"
    BY <2>1 DEF Parts
  <2>4. pool' = "off" => \A v \in Workers : at'[v] = "off"
    BY <2>1, <2>2, <2>3, ThreadFacts
  <2>5. timer' = "off" => at'["timer"] = "off"
    BY <1>1, <2>1, <2>2 DEF Parts
  <2> QED  BY <1>1, <2>1, <2>4, <2>5, MoverParts DEF Places
<1>5. CASE SetStateRead(w) \/ SetStateStop(w) \/ SetStateWait(w)
  <2>1. PICK place \in {"set_stop", "set_wait", "set_lock"} : Go(w, place)
    BY <1>5 DEF SetStateRead, SetStateStop, SetStateWait
  <2>2. at[w] \in Resetting /\ UNCHANGED <<holder, pool, timer, arg>>
    BY <1>5 DEF SetStateRead, SetStateStop, SetStateWait
  <2>3. arg[w] \in States /\ arg[w] # NoTask
    BY <2>2 DEF Parts
  <2> QED  BY <1>2, <2>1, <2>2, <2>3
<1>6. CASE SetStateInstall(w)
  <2>1. /\ Go(w, "run") /\ at[w] = "set_lock" /\ UNCHANGED <<holder, pool, timer>>
        /\ arg' = [arg EXCEPT ![w] = NoTask]
    BY <1>6 DEF SetStateInstall
  <2>2. arg'[w] = NoTask /\ \A u \in Threads \ {w} : arg'[u] = arg[u]
    BY <1>1, <2>1 DEF TypeOK
  <2> QED  BY <1>2, <2>1, <2>2
<1> QED  BY <1>3, <1>4, <1>5, <1>6 DEF Work

LEMMA OthersParts ==
  ASSUME TypeOK, Parts,
         \/ \E c \in Clients : StateCall(c) \/ StateStop(c) \/ DeliverAtTime(c)
                               \/ DeliverNow(c)
         \/ \E t \in Clients \union {"timer"} : Executes(t)
         \/ TimerTriggers \/ TimerEnds
         \/ \E s \in States : StateEnds(s)
  PROVE  Parts'
<1> USE DEF lockVars, poolVars, timerVars
<1>0. /\ "timer" \in Threads \ Controllers /\ "timer" \notin Clients \union Workers
      /\ \A w \in Workers : w \in Threads /\ w \notin Clients
  BY ThreadFacts
<1>1. ASSUME UNCHANGED <<at, arg, holder, pool>>, timer' = timer PROVE Parts'
  BY <1>1 DEF Parts
<1>2. ASSUME NEW c \in Clients, NEW place \in {"idle", "state_stop", "execute", "blocked"},
             Go(c, place), \A u \in Threads \ {c} : arg'[u] = arg[u],
             arg'[c] = NoTask <=> place = "idle",
             place = "state_stop" => arg'[c] \in States,
             UNCHANGED <<holder, pool, timer>>
      PROVE  Parts'
  <2>1. /\ c \in Threads \ Controllers /\ c \notin Workers /\ c # "timer"
        /\ place \in Places
    BY ThreadFacts DEF Places
  <2>2. \A u \in Threads \ {c} : at'[u] = at[u]
    BY <1>2, <2>1, GoFacts
  <2>3. pool' = "off" => \A w \in Workers : at'[w] = "off"
    BY <1>0, <1>2, <2>1, <2>2 DEF Parts
  <2>4. timer' = "off" => at'["timer"] = "off"
    BY <1>0, <1>2, <2>1, <2>2 DEF Parts
  <2> QED  BY <1>2, <2>1, <2>3, <2>4, MoverParts
<1>3. ASSUME NEW place \in {"off", "run", "execute", "blocked"},
             Go("timer", place), \A u \in Threads \ {"timer"} : arg'[u] = arg[u],
             arg'["timer"] \in Messages \union {NoTask},
             arg'["timer"] = NoTask <=> place \in {"off", "run"},
             UNCHANGED <<holder, pool>>, timer' = "off" => place = "off"
      PROVE  Parts'
  <2>1. place \in Places
    BY DEF Places
  <2>2. at'["timer"] = place /\ \A u \in Threads \ {"timer"} : at'[u] = at[u]
    BY <1>0, <1>3, <2>1, GoFacts
  <2>3. pool' = "off" => \A w \in Workers : at'[w] = "off"
    BY <1>0, <1>3, <2>2 DEF Parts
  <2> QED  BY <1>0, <1>3, <2>1, <2>2, <2>3, MoverParts
<1>4. ASSUME NEW c \in Clients, StateCall(c) \/ StateStop(c) \/ DeliverAtTime(c) \/ DeliverNow(c)
      PROVE  Parts'
  <2>1. UNCHANGED <<holder, pool, timer>> /\ c \in Threads
    BY <1>4, ThreadFacts DEF StateCall, StateStop, DeliverAtTime, DeliverNow
  <2>2. CASE UNCHANGED <<at, arg>>
    BY <1>1, <2>1, <2>2
  <2>3. ASSUME NEW x \in States \union Messages, arg' = [arg EXCEPT ![c] = x],
               \/ Go(c, "state_stop") /\ x \in States
               \/ Go(c, "execute")
        PROVE  Parts'
    <3>1. arg'[c] = x /\ x # NoTask /\ \A u \in Threads \ {c} : arg'[u] = arg[u]
      BY <2>1, <2>3, CompoundAssumption DEF TypeOK
    <3> QED  BY <1>2, <2>1, <2>3, <3>1
  <2>4. CASE StateStop(c)
    <3>1. at[c] = "state_stop" /\ Go(c, "execute") /\ arg' = arg
      BY <2>4 DEF StateStop
    <3>2. arg[c] # NoTask
      BY <3>1 DEF Parts
    <3> QED  BY <1>2, <2>1, <3>1, <3>2
  <2> QED  BY <1>4, <2>2, <2>3, <2>4 DEF StateCall, DeliverAtTime, DeliverNow
<1>5. ASSUME NEW t \in Clients \union {"timer"}, Executes(t) PROVE Parts'
  <2>1. /\ UNCHANGED <<holder, pool, timer>> /\ at[t] \in {"execute", "blocked"}
        /\ t \in Threads /\ arg[t] \in States \union Messages /\ arg[t] # NoTask
        /\ t = "timer" => timer # "off" /\ arg[t] \in Messages
    BY <1>5, ExecutesDoes, CompoundAssumption DEF Parts
  <2>2. CASE Go(t, "blocked") /\ arg' = arg
    BY <1>2, <1>3, <2>1, <2>2
  <2>3. CASE /\ Go(t, IF t = "timer" THEN "run" ELSE "idle")
             /\ arg' = [arg EXCEPT ![t] = NoTask]
    <3>1. arg'[t] = NoTask /\ \A u \in Threads \ {t} : arg'[u] = arg[u]
      BY <2>1, <2>3 DEF TypeOK
    <3>2. CASE t = "timer"
      BY <1>3, <2>1, <2>3, <3>1, <3>2
    <3>3. CASE t \in Clients
      BY <1>0, <1>2, <2>1, <2>3, <3>1, <3>3
    <3> QED  BY <3>2, <3>3
  <2> QED  BY <1>5, <2>2, <2>3, ExecutesDoes
<1>6. CASE TimerTriggers
  <2>1. PICK m \in Messages : arg' = [arg EXCEPT !["timer"] = m]
    BY <1>6 DEF TimerTriggers, TypeOK
  <2>2. arg'["timer"] = m /\ m # NoTask /\ \A u \in Threads \ {"timer"} : arg'[u] = arg[u]
    BY <1>0, <2>1, CompoundAssumption DEF TypeOK
  <2> QED  BY <1>3, <1>6, <2>2 DEF TimerTriggers
<1>7. CASE TimerEnds
  <2>1. arg' = arg /\ arg["timer"] = NoTask
    BY <1>7 DEF TimerEnds, Parts
  <2> QED  BY <1>3, <1>7, <2>1 DEF TimerEnds
<1>8. ASSUME NEW s \in States, StateEnds(s) PROVE Parts'
  BY <1>1, <1>8 DEF StateEnds
<1> QED  BY <1>4, <1>5, <1>6, <1>7, <1>8


-----------------------------------------------------------------------------
(* A state that was given is new until it is installed. *)
LEMMA OnceKept ==
  ASSUME TypeOK, Once, state_' = state_, tasks_' = tasks_, given \subseteq given',
         \A t \in Threads : seen'[t] \in {seen[t], NoState, state_},
         \A t \in Threads : arg'[t] = arg[t] \/ arg'[t] \notin States
  PROVE  Once'
<1>1. /\ \A t \in Threads : seen'[t] \in given' \union {NoState}
      /\ state_' \in given' \union {NoState}
  BY DEF Once
<1>2. \A s : Waiting(s)' <=> Waiting(s)
  BY DEF Waiting
<1>3. NoState \notin States
  BY CompoundAssumption
<1>4. ASSUME NEW t \in Threads, arg'[t] \in States
      PROVE  /\ arg'[t] \in given' /\ arg'[t] # state_' /\ ~Waiting(arg[t])
             /\ arg'[t] = arg[t]
             /\ \A u \in Threads : seen'[u] # arg'[t] /\ (arg'[u] = arg'[t] => u = t)
  BY <1>3, <1>4 DEF Once
<1>5. ASSUME NEW i \in DOMAIN tasks_, tasks_[i] \in States
      PROVE  /\ tasks_[i] \in given' /\ tasks_[i] # state_'
             /\ \A u \in Threads : seen'[u] # tasks_[i]
             /\ \A j \in DOMAIN tasks_ : tasks_[j] = tasks_[i] => j = i
  BY <1>3, <1>5 DEF Once
<1> QED  BY <1>1, <1>2, <1>4, <1>5 DEF Once, Waiting

LEMMA Appended ==
  ASSUME NEW S, NEW s \in Seq(S), NEW e \in S
  PROVE  /\ DOMAIN Append(s, e) = 1 .. Len(s) + 1 /\ DOMAIN s = 1 .. Len(s) /\ Len(s) \in Nat
         /\ \A i \in 1 .. Len(s) : Append(s, e)[i] = s[i]
         /\ Append(s, e)[Len(s) + 1] = e
OBVIOUS

LEMMA TakenOff ==
  ASSUME NEW S, NEW s \in Seq(S), s # <<>>
  PROVE  /\ Head(s) \in S /\ DOMAIN Tail(s) = 1 .. Len(s) - 1 /\ DOMAIN s = 1 .. Len(s)
         /\ Len(s) \in Nat \ {0} /\ Head(s) = s[1]
         /\ \A i \in 1 .. Len(s) - 1 : Tail(s)[i] = s[i + 1]
OBVIOUS

LEMMA OnceQueued ==
  ASSUME TypeOK, Once, NEW t \in Threads, arg[t] \in States \union Messages,
         tasks_' = Append(tasks_, arg[t]), arg' = [arg EXCEPT ![t] = NoTask],
         UNCHANGED <<state_, seen, given>>
  PROVE  Once'
<1>1. PICK e \in States \union Messages : e = arg[t]
  OBVIOUS
<1>2. /\ DOMAIN tasks_' = 1 .. Len(tasks_) + 1 /\ DOMAIN tasks_ = 1 .. Len(tasks_)
      /\ Len(tasks_) \in Nat
      /\ \A i \in 1 .. Len(tasks_) : tasks_'[i] = tasks_[i]
      /\ tasks_'[Len(tasks_) + 1] = e
  BY <1>1, Appended DEF TypeOK
<1>3. /\ arg'[t] = NoTask /\ NoTask \notin States
      /\ \A u \in Threads \ {t} : arg'[u] = arg[u]
  BY CompoundAssumption DEF TypeOK
<1>4. /\ \A u \in Threads : seen'[u] \in given' \union {NoState}
      /\ state_' \in given' \union {NoState}
  BY DEF Once
<1>6. ASSUME NEW u \in Threads, arg'[u] \in States
      PROVE  /\ arg'[u] \in given' /\ arg'[u] # state_'
             /\ \A i \in DOMAIN tasks_' : tasks_'[i] # arg'[u]
             /\ \A v \in Threads : seen'[v] # arg'[u] /\ (arg'[v] = arg'[u] => v = u)
  <2>1. u # t /\ arg'[u] = arg[u] /\ arg[u] # e
    BY <1>1, <1>3, <1>6 DEF Once
  <2>2. \A i \in DOMAIN tasks_' : tasks_'[i] # arg[u]
    BY <1>2, <1>6, <2>1 DEF Once, Waiting
  <2> QED  BY <1>3, <1>6, <2>1, <2>2 DEF Once, Waiting
<1>7. ASSUME NEW i \in DOMAIN tasks_', tasks_'[i] \in States
      PROVE  /\ tasks_'[i] \in given' /\ tasks_'[i] # state_'
             /\ \A u \in Threads : seen'[u] # tasks_'[i]
             /\ \A j \in DOMAIN tasks_' : tasks_'[j] = tasks_'[i] => j = i
  <2>1. e \in States => \A j \in DOMAIN tasks_ : tasks_[j] # e
    BY <1>1 DEF Once, Waiting
  <2>2. CASE i = Len(tasks_) + 1
    BY <1>1, <1>2, <1>7, <2>1, <2>2 DEF Once
  <2>3. CASE i \in DOMAIN tasks_
    BY <1>2, <1>7, <2>1, <2>3 DEF Once
  <2> QED  BY <1>2, <2>2, <2>3
<1> QED  BY <1>4, <1>6, <1>7 DEF Once, Waiting

LEMMA OnceTaken ==
  ASSUME TypeOK, Parts, Once, NEW w \in Workers, Take(w)
  PROVE  Once'
<1>1. /\ DOMAIN tasks_' = 1 .. Len(tasks_) - 1 /\ DOMAIN tasks_ = 1 .. Len(tasks_)
      /\ Len(tasks_) \in Nat \ {0}
      /\ \A i \in 1 .. Len(tasks_) - 1 : tasks_'[i] = tasks_[i + 1]
      /\ Head(tasks_) = tasks_[1]
  BY TakenOff DEF Take, TypeOK
<1>2. /\ UNCHANGED <<state_, seen, given>> /\ w \in Threads
      /\ \A u \in Threads : arg'[u] = arg[u] \/ (u = w /\ arg'[w] = tasks_[1])
  BY <1>1, ThreadFacts DEF Take, lockVars, TypeOK
<1>3. /\ \A u \in Threads : seen'[u] \in given' \union {NoState}
      /\ state_' \in given' \union {NoState}
  BY <1>2 DEF Once
<1>4. \A i \in DOMAIN tasks_' :
        i + 1 \in DOMAIN tasks_ /\ tasks_'[i] = tasks_[i + 1] /\ i + 1 # 1
  BY <1>1
<1>5. tasks_[1] \in States => \A i \in DOMAIN tasks_' : tasks_'[i] # tasks_[1]
  BY <1>1, <1>4 DEF Once
<1>7. ASSUME NEW u \in Threads, arg'[u] \in States
      PROVE  /\ arg'[u] \in given' /\ arg'[u] # state_'
             /\ \A i \in DOMAIN tasks_' : tasks_'[i] # arg'[u]
             /\ \A v \in Threads : seen'[v] # arg'[u] /\ (arg'[v] = arg'[u] => v = u)
  <2>1. \A v \in Threads : arg[v] \in States => arg[v] # tasks_[1]
    BY <1>1 DEF Once, Waiting
  <2>2. CASE arg'[u] = arg[u]
    <3>1. \A i \in DOMAIN tasks_' : tasks_'[i] # arg[u]
      BY <1>4, <1>7, <2>2 DEF Once, Waiting
    <3> QED  BY <1>2, <1>7, <2>1, <2>2, <3>1 DEF Once
  <2>3. CASE u = w /\ arg'[w] = tasks_[1]
    BY <1>1, <1>2, <1>5, <1>7, <2>1, <2>3 DEF Once
  <2> QED  BY <1>2, <2>2, <2>3
<1>8. ASSUME NEW i \in DOMAIN tasks_', tasks_'[i] \in States
      PROVE  /\ tasks_'[i] \in given' /\ tasks_'[i] # state_'
             /\ \A u \in Threads : seen'[u] # tasks_'[i]
             /\ \A j \in DOMAIN tasks_' : tasks_'[j] = tasks_'[i] => j = i
  <2>1. /\ tasks_[i + 1] \in given' /\ tasks_[i + 1] # state_'
        /\ \A u \in Threads : seen'[u] # tasks_[i + 1]
        /\ \A j \in DOMAIN tasks_ : tasks_[j] = tasks_[i + 1] => j = i + 1
    BY <1>2, <1>4, <1>8 DEF Once
  <2>2. \A j \in DOMAIN tasks_' : j \in Int /\ i \in Int
    BY <1>1
  <2> QED  BY <1>4, <2>1, <2>2
<1> QED  BY <1>3, <1>7, <1>8 DEF Once, Waiting


LEMMA OnceInstalled ==
  ASSUME TypeOK, Parts, Once, NEW w \in Workers, SetStateInstall(w)
  PROVE  Once'
<1>1. /\ w \in Threads /\ arg[w] \in States /\ UNCHANGED <<tasks_, given>>
      /\ state_' \in {state_, arg[w]}
      /\ \A t \in Threads : seen'[t] \in {seen[t], NoState}
      /\ \A t \in Threads \ {w} : arg'[t] = arg[t]
      /\ arg'[w] = NoTask /\ NoTask \notin States /\ NoState \notin States
  BY ThreadFacts, CompoundAssumption
     DEF SetStateInstall, Parts, Resetting, TypeOK, poolVars
<1>2. /\ \A t \in Threads : seen'[t] \in given' \union {NoState}
      /\ state_' \in given' \union {NoState}
  BY <1>1 DEF Once
<1>3. ASSUME NEW t \in Threads, arg'[t] \in States
      PROVE  /\ arg'[t] \in given' /\ arg'[t] # state_'
             /\ \A i \in DOMAIN tasks_' : tasks_'[i] # arg'[t]
             /\ \A u \in Threads : seen'[u] # arg'[t] /\ (arg'[u] = arg'[t] => u = t)
  <2>1. t # w /\ arg'[t] = arg[t] /\ arg[t] # arg[w]
    BY <1>1, <1>3 DEF Once
  <2> QED  BY <1>1, <1>3, <2>1 DEF Once, Waiting
<1>4. ASSUME NEW i \in DOMAIN tasks_', tasks_'[i] \in States
      PROVE  /\ tasks_'[i] \in given' /\ tasks_'[i] # state_'
             /\ \A u \in Threads : seen'[u] # tasks_'[i]
             /\ \A j \in DOMAIN tasks_' : tasks_'[j] = tasks_'[i] => j = i
  BY <1>1, <1>4 DEF Once, Waiting
<1> QED  BY <1>2, <1>3, <1>4 DEF Once, Waiting

LEMMA OnceGiven ==
  ASSUME TypeOK, Parts, Once, NEW c \in Clients, StateCall(c)
  PROVE  Once'
<1>1. PICK s \in States \ given :
        /\ given' = given \union {s}
        /\ \/ state_ = NoState /\ state_' = s /\ UNCHANGED <<seen, arg>>
           \/ /\ seen' = [seen EXCEPT ![c] = state_] /\ arg' = [arg EXCEPT ![c] = s]
              /\ state_' = state_
  BY DEF StateCall
<1>2. tasks_' = tasks_ /\ c \in Threads /\ NoState \notin States /\ arg[c] = NoTask
  BY ThreadFacts, CompoundAssumption DEF StateCall, poolVars, Parts
<1>3. /\ \A t \in Threads : seen'[t] \in {seen[t], state_}
      /\ state_' \in {state_, s}
      /\ \A t \in Threads : arg'[t] = arg[t] \/ (t = c /\ arg'[t] = s /\ state_' = state_)
  BY <1>1, <1>2 DEF TypeOK
<1>4. /\ state_ # s /\ \A t \in Threads : seen[t] # s /\ arg[t] # s
      /\ \A i \in DOMAIN tasks_ : tasks_[i] # s
  BY <1>1, <1>2 DEF Once
<1>5. /\ \A t \in Threads : seen'[t] \in given' \union {NoState}
      /\ state_' \in given' \union {NoState}
  BY <1>1, <1>3 DEF Once
<1>6. ASSUME NEW t \in Threads, arg'[t] \in States
      PROVE  /\ arg'[t] \in given' /\ arg'[t] # state_'
             /\ \A i \in DOMAIN tasks_' : tasks_'[i] # arg'[t]
             /\ \A u \in Threads : seen'[u] # arg'[t] /\ (arg'[u] = arg'[t] => u = t)
  <2>1. CASE arg'[t] = arg[t]
    BY <1>1, <1>2, <1>3, <1>4, <1>6, <2>1 DEF Once, Waiting
  <2>2. CASE t = c /\ arg'[t] = s /\ state_' = state_
    BY <1>1, <1>2, <1>3, <1>4, <1>6, <2>2 DEF Once
  <2> QED  BY <1>3, <2>1, <2>2
<1>7. ASSUME NEW i \in DOMAIN tasks_', tasks_'[i] \in States
      PROVE  /\ tasks_'[i] \in given' /\ tasks_'[i] # state_'
             /\ \A u \in Threads : seen'[u] # tasks_'[i]
             /\ \A j \in DOMAIN tasks_' : tasks_'[j] = tasks_'[i] => j = i
  BY <1>1, <1>2, <1>3, <1>4, <1>7 DEF Once
<1> QED  BY <1>5, <1>6, <1>7 DEF Once, Waiting

LEMMA StepOnce ==
  ASSUME TypeOK, Parts, Once, [Next]_vars
  PROVE  Once'
<1> USE DEF lockVars, poolVars, timerVars
<1>1. ASSUME NEW k \in Controllers, Calls(k) \/ Control(k) PROVE Once'
  <2>1. /\ UNCHANGED <<state_, tasks_, given, arg>>
        /\ \A t \in Threads : seen'[t] \in {seen[t], NoState, state_}
    BY <1>1, ThreadFacts
       DEF Calls, Control, StartBegin, StartPool, StartState, StopBegin, StopPool, StopState,
           WaitTimer, WaitPool, WaitReadState, WaitState, WaitDone, TypeOK
  <2> QED  BY <2>1, OnceKept
<1>2. ASSUME NEW w \in Workers, Leave(w) \/ SetStateRead(w) \/ SetStateStop(w) \/ SetStateWait(w)
      PROVE  Once'
  <2>1. /\ UNCHANGED <<state_, tasks_, given, arg>>
        /\ \A t \in Threads : seen'[t] \in {seen[t], NoState, state_}
    BY <1>2, ThreadFacts DEF Leave, SetStateRead, SetStateStop, SetStateWait, TypeOK
  <2> QED  BY <2>1, OnceKept
<1>3. ASSUME NEW w \in Workers, Work(w) PROVE Once'
  BY <1>2, <1>3, OnceTaken, OnceInstalled DEF Work
<1>4. ASSUME NEW c \in Clients, StateStop(c) \/ DeliverAtTime(c) \/ DeliverNow(c)
      PROVE  Once'
  <2>1. /\ UNCHANGED <<state_, tasks_>> /\ given \subseteq given'
        /\ \A t \in Threads : seen'[t] \in {seen[t], NoState}
        /\ \A t \in Threads : arg'[t] = arg[t] \/ arg'[t] \in Messages
    BY <1>4, ThreadFacts DEF StateStop, DeliverAtTime, DeliverNow, TypeOK
  <2> QED  BY <2>1, OnceKept, CompoundAssumption
<1>5. ASSUME NEW t \in Clients \union {"timer"}, Executes(t) PROVE Once'
  <2>1. /\ UNCHANGED <<state_, seen, given>> /\ t \in Threads
        /\ arg[t] \in States \union Messages
    BY <1>5, ExecutesDoes
  <2>2. CASE UNCHANGED <<tasks_, arg>>
    BY <2>1, <2>2, OnceKept
  <2>3. CASE tasks_' = tasks_ /\ arg' = [arg EXCEPT ![t] = NoTask]
    <3>1. \A u \in Threads : arg'[u] = arg[u] \/ arg'[u] = NoTask
      BY <2>3 DEF TypeOK
    <3> QED  BY <2>1, <2>3, <3>1, OnceKept, CompoundAssumption
  <2>4. CASE tasks_' = Append(tasks_, arg[t]) /\ arg' = [arg EXCEPT ![t] = NoTask]
    BY <2>1, <2>4, OnceQueued
  <2> QED  BY <1>5, <2>2, <2>3, <2>4, ExecutesDoes
<1>6. CASE TimerTriggers \/ TimerEnds
  <2>1. /\ UNCHANGED <<state_, tasks_, seen, given>>
        /\ \A t \in Threads : arg'[t] = arg[t] \/ arg'[t] \in Messages
    BY <1>6, ThreadFacts DEF TimerTriggers, TimerEnds, TypeOK
  <2> QED  BY <2>1, OnceKept, CompoundAssumption
<1>7. CASE (\E s \in States : StateEnds(s)) \/ UNCHANGED vars
  <2>1. UNCHANGED <<state_, tasks_, seen, given, arg>>
    BY <1>7 DEF StateEnds, vars
  <2> QED  BY <2>1, OnceKept
<1> QED  BY <1>1, <1>3, <1>4, <1>5, <1>6, <1>7, OnceGiven DEF Next


-----------------------------------------------------------------------------
(* States are only ever stopped, or their threads leave, but for those who *)
(* start one. *)
Fades ==
  \A s \in States :
    sub'[s] \in {sub[s], "off"} \/ (sub[s] = "running" /\ sub'[s] = "stopping")

LEMMA StoppedFades ==
  ASSUME TypeOK, NEW s \in States \union {NoState}, sub' = Stopped(s)
  PROVE  /\ Fades /\ (s # NoState => sub'[s] # "running")
         /\ \A r \in States : r # s => sub'[r] = sub[r]
BY StoppedFacts DEF Fades, TypeOK

LEMMA SingleFades ==
  ASSUME TypeOK, Single, Fades, state_' = state_,
         \A w \in Workers : at'[w] = "set_lock" /\ seen'[w] = state_ =>
           \/ at[w] = "set_lock" /\ seen[w] = state_
           \/ Joined(state_)
  PROVE  Single'
<1>1. Joined(state_) => Joined(state_)'
  BY DEF Joined, Fades, TypeOK
<1> QED  BY <1>1 DEF Single, Fades

LEMMA SingleInstalled ==
  ASSUME TypeOK, Parts, Once, Single, NEW w \in Workers, SetStateInstall(w)
  PROVE  Single'
<1>1. /\ w \in Threads /\ at[w] = "set_lock" /\ arg[w] \in States /\ arg[w] # NoState
      /\ at'[w] = "run" /\ \A v \in Workers : v # w => at'[v] = at[v] /\ seen'[v] = seen[v]
  BY ThreadFacts, CompoundAssumption, GoFacts
     DEF SetStateInstall, Parts, Resetting, TypeOK, Go, Places
<1>2. CASE UNCHANGED <<state_, sub>>
  BY <1>1, <1>2 DEF Single, Joined
<1>3. CASE /\ state_ = seen[w] /\ state_' = arg[w]
           /\ sub' = IF started_ /\ ~stop_ THEN Started(arg[w]) ELSE sub
  <2>1. \A s \in States : sub[s] = "off"
    BY <1>1, <1>3, CompoundAssumption DEF Single, Joined
  <2>2. \A s \in States : sub'[s] # "off" => s = arg[w]
    BY <1>1, <1>3, <2>1, StartedFacts
  <2>3. \A v \in Workers : seen[v] # arg[w]
    BY <1>1, ThreadFacts DEF Once
  <2> QED  BY <1>1, <1>3, <2>2, <2>3 DEF Single
<1> QED  BY <1>2, <1>3 DEF SetStateInstall

LEMMA SingleGiven ==
  ASSUME TypeOK, Parts, Once, Single, NEW c \in Clients, StateCall(c)
  PROVE  Single'
<1>1. PICK s \in States \ given :
        \/ /\ state_ = NoState /\ state_' = s /\ UNCHANGED <<at, seen>>
           /\ sub' = IF started_ /\ ~stop_ THEN [sub EXCEPT ![s] = "running"] ELSE sub
        \/ /\ seen' = [seen EXCEPT ![c] = state_] /\ Go(c, "state_stop")
           /\ UNCHANGED <<state_, sub>>
  BY DEF StateCall
<1>2. CASE /\ state_ = NoState /\ state_' = s /\ UNCHANGED <<at, seen>>
           /\ sub' = IF started_ /\ ~stop_ THEN [sub EXCEPT ![s] = "running"] ELSE sub
  <2>1. \A r \in States : sub[r] = "off"
    BY <1>2, CompoundAssumption DEF Single
  <2>2. \A r \in States : sub'[r] # "off" => r = s
    BY <1>2, <2>1 DEF TypeOK
  <2>3. \A v \in Workers : seen[v] # s
    BY ThreadFacts, CompoundAssumption DEF Once
  <2> QED  BY <1>2, <2>2, <2>3 DEF Single
<1>3. CASE /\ seen' = [seen EXCEPT ![c] = state_] /\ Go(c, "state_stop")
           /\ UNCHANGED <<state_, sub>>
  <2>1. \A w \in Workers : at'[w] = at[w] /\ seen'[w] = seen[w]
    BY <1>3, ThreadFacts, GoFacts DEF TypeOK, Go
  <2> QED  BY <1>3, <2>1 DEF Single, Joined
<1> QED  BY <1>1, <1>2, <1>3

LEMMA StepSingle ==
  ASSUME TypeOK, Parts, Once, Single, NEW k \in Controllers, Controllers = {k}, Phase(k),
         [Next]_vars
  PROVE  Single'
<1> USE DEF lockVars, poolVars, timerVars
<1>1. ASSUME sub' = sub, state_' = state_,
             \A w \in Workers : at'[w] = "set_lock" => at[w] = "set_lock",
             \A w \in Workers : seen'[w] = seen[w]
      PROVE  Single'
  BY <1>1 DEF Single, Joined
<1>2. ASSUME \/ Calls(k) \/ StartBegin(k) \/ StopBegin(k) \/ StopPool(k)
             \/ WaitTimer(k) \/ WaitPool(k) \/ WaitReadState(k) \/ WaitState(k) \/ WaitDone(k)
      PROVE  Single'
  <2>1. /\ sub' = sub /\ state_' = state_
        /\ \A w \in Workers : at'[w] = at[w] /\ seen'[w] = seen[w]
    BY <1>2, ThreadFacts
       DEF Calls, StartBegin, StopBegin, StopPool, WaitTimer, WaitPool, WaitReadState,
           WaitState, WaitDone, Go, TypeOK
  <2> QED  BY <1>1, <2>1
<1>3. CASE StartPool(k)
  <2>1. /\ sub' = sub /\ state_' = state_
        /\ \A w \in Workers : at'[w] \in {at[w], "run"} /\ seen'[w] = seen[w]
    BY <1>3, ThreadFacts DEF StartPool, TypeOK
  <2> QED  BY <1>1, <2>1
<1>4. CASE StartState(k)
  <2>1. /\ sub' = Started(seen[k]) /\ state_' = state_ /\ at[k] = "start_state"
        /\ seen[k] \in States \union {NoState}
        /\ \A w \in Workers : at'[w] = at[w]
    BY <1>4, ThreadFacts DEF StartState, Go, TypeOK
  <2>2. \A w \in Workers : at[w] # "set_lock"
    BY <2>1, ThreadFacts DEF Phase, Underway, Parts, Resetting
  <2>3. seen[k] = NoState \/ seen[k] = state_
    BY <2>1 DEF Phase
  <2>4. \A s \in States : sub'[s] = IF s = seen[k] /\ sub[seen[k]] = "off" THEN "running"
                                   ELSE sub[s]
    BY <2>1, StartedFacts
  <2>5. \A s \in States : sub'[s] # "off" => s = state_
    BY <2>3, <2>4, CompoundAssumption DEF Single
  <2> QED  BY <2>1, <2>2, <2>5 DEF Single
<1>5. CASE StopState(k)
  <2>1. /\ sub' = Stopped(seen[k]) /\ state_' = state_ /\ seen[k] \in States \union {NoState}
        /\ \A w \in Workers : at'[w] = at[w] /\ seen'[w] = seen[w]
    BY <1>5, ThreadFacts DEF StopState, Go, TypeOK
  <2> QED  BY <2>1, StoppedFades, SingleFades
<1>6. ASSUME NEW w \in Workers, Take(w) \/ Leave(w) \/ SetStateRead(w)
      PROVE  Single'
  <2>1. /\ sub' = sub /\ state_' = state_ /\ at'[w] # "set_lock"
        /\ \A v \in Workers : v # w => at'[v] = at[v] /\ seen'[v] = seen[v]
    BY <1>6, ThreadFacts DEF Take, Leave, SetStateRead, Go, TypeOK
  <2> QED  BY <2>1 DEF Single, Joined
<1>7. ASSUME NEW w \in Workers, SetStateStop(w) PROVE Single'
  <2>1. /\ sub' = Stopped(seen[w]) /\ state_' = state_ /\ seen[w] \in States \union {NoState}
        /\ \A v \in Workers : seen'[v] = seen[v] /\ (at'[v] = "set_lock" => at[v] = "set_lock")
    BY <1>7, ThreadFacts DEF SetStateStop, Go, TypeOK
  <2> QED  BY <2>1, StoppedFades, SingleFades
<1>8. ASSUME NEW w \in Workers, SetStateWait(w) PROVE Single'
  <2>1. /\ sub' = sub /\ state_' = state_ /\ seen' = seen /\ Joined(seen[w])
        /\ \A v \in Workers : v # w => at'[v] = at[v]
    BY <1>8, ThreadFacts DEF SetStateWait, Go, TypeOK
  <2> QED  BY <2>1 DEF Single, Joined
<1>9. ASSUME NEW c \in Clients, StateStop(c) PROVE Single'
  <2>1. /\ sub' = Stopped(seen[c]) /\ state_' = state_ /\ seen[c] \in States \union {NoState}
        /\ \A w \in Workers : at'[w] = at[w] /\ seen'[w] = seen[w]
    BY <1>9, ThreadFacts DEF StateStop, Go, TypeOK
  <2> QED  BY <2>1, StoppedFades, SingleFades
<1>10. ASSUME NEW c \in Clients, DeliverAtTime(c) \/ DeliverNow(c) PROVE Single'
  <2>1. /\ sub' = sub /\ state_' = state_
        /\ \A w \in Workers : at'[w] = at[w] /\ seen'[w] = seen[w]
    BY <1>10, ThreadFacts DEF DeliverAtTime, DeliverNow, Go, TypeOK
  <2> QED  BY <1>1, <2>1
<1>11. ASSUME NEW t \in Clients \union {"timer"}, Executes(t) PROVE Single'
  <2>1. UNCHANGED <<sub, state_, seen>> /\ \E place : Go(t, place)
    BY <1>11, ExecutesDoes
  <2>2. \A w \in Workers : at'[w] = at[w]
    BY <2>1, ThreadFacts DEF Go, TypeOK
  <2> QED  BY <1>1, <2>1, <2>2
<1>12. CASE TimerTriggers \/ TimerEnds
  <2>1. /\ UNCHANGED <<sub, state_, seen>>
        /\ \A w \in Workers : at'[w] = at[w]
    BY <1>12, ThreadFacts DEF TimerTriggers, TimerEnds, Go, TypeOK
  <2> QED  BY <1>1, <2>1
<1>13. ASSUME NEW s \in States, StateEnds(s) PROVE Single'
  <2>1. UNCHANGED <<at, state_, seen>> /\ Fades
    BY <1>13 DEF StateEnds, Fades, TypeOK
  <2> QED  BY <2>1, SingleFades
<1>14. CASE UNCHANGED vars
  BY <1>1, <1>14 DEF vars
<1> QED  BY <1>2, <1>3, <1>4, <1>5, <1>6, <1>7, <1>8, <1>9, <1>10, <1>11, <1>12, <1>13,
            <1>14, SingleInstalled, SingleGiven DEF Next, Control, Work


-----------------------------------------------------------------------------
(* The phases.  What others than the controller do moves none. *)
LEMMA PhaseKept ==
  ASSUME TypeOK, Single, NEW k \in Controllers, Phase(k),
         at'[k] = at[k], UNCHANGED <<last, started_, stop_, open>>, seen'[k] = seen[k],
         at[k] \in {"start", "start_pool", "start_state"} => ~Underway',
         pool' = pool \/ (~open /\ pool' = "off"),
         timer' = timer \/ (timer = "stopping" /\ timer' = "off"),
         at[k] = "start_state" \/ Working(k) \/ Fades,
         at[k] = "start_state" =>
           IF seen[k] = NoState THEN state_' # NoState => sub'[state_'] = "running"
           ELSE state_' = state_ /\ AllOff',
         Working(k) => (state_' # NoState => sub'[state_'] = "running" \/ Pending')
  PROVE  Phase(k)'
<1>1. /\ Resting(k)' <=> Resting(k)
      /\ Working(k)' <=> Working(k)
      /\ Stopping(k)' <=> Stopping(k)
  BY DEF Resting, Working, Stopping
<1>2. Resting(k) =>
        started_' = FALSE /\ stop_' /\ pool' = "off" /\ timer' = "off" /\ open' /\ AllOff'
  <2>1. Resting(k) => ~Working(k) /\ at[k] # "start_state"
    BY DEF Resting, Working
  <2> QED  BY <2>1 DEF Phase, AllOff, Fades, TypeOK
<1>3. at[k] = "start_state" =>
       /\ started_' /\ ~stop_' /\ pool' = "running" /\ timer' = "running" /\ open'
       /\ IF seen'[k] = NoState
          THEN state_' # NoState => sub'[state_'] = "running"
          ELSE seen'[k] = state_' /\ AllOff'
  BY DEF Phase
<1>4. Working(k) =>
       /\ started_' /\ ~stop_' /\ pool' = "running" /\ open'
       /\ timer' = "running" <=> at'[k] # "stop_pool"
       /\ state_' # NoState => sub'[state_'] = "running" \/ Pending'
  BY DEF Phase
<1>5. Stopping(k) =>
       /\ started_' /\ stop_' /\ pool' # "running" /\ timer' # "running"
       /\ \A s \in States : sub'[s] = "running" => at'[k] = "stop_state" /\ s = seen'[k]
       /\ at'[k] \notin {"stop_state", "idle", "wait"} => timer' = "off"
       /\ at'[k] \in {"wait_read", "wait_state", "wait_done"} => pool' = "off" /\ open'
       /\ at'[k] = "wait_state" => \A s \in States : sub'[s] # "off" => s = seen'[k]
       /\ at'[k] = "wait_done" => AllOff'
  <2>1. Stopping(k) => ~Working(k) /\ at[k] # "start_state"
    BY DEF Stopping, Working
  <2>2. Stopping(k) => Fades
    BY <2>1
  <2>3. Stopping(k) =>
         /\ started_ /\ stop_ /\ pool # "running" /\ timer # "running"
         /\ \A s \in States : sub[s] = "running" => at[k] = "stop_state" /\ s = seen[k]
         /\ at[k] \notin {"stop_state", "idle", "wait"} => timer = "off"
         /\ at[k] \in {"wait_read", "wait_state", "wait_done"} => pool = "off" /\ open
         /\ at[k] = "wait_state" => \A s \in States : sub[s] # "off" => s = seen[k]
         /\ at[k] = "wait_done" => AllOff
    BY DEF Phase
  <2>4. Stopping(k) =>
         /\ started_' /\ stop_' /\ pool' # "running" /\ timer' # "running"
         /\ at'[k] \notin {"stop_state", "idle", "wait"} => timer' = "off"
         /\ at'[k] \in {"wait_read", "wait_state", "wait_done"} => pool' = "off" /\ open'
    BY <2>3
  <2> QED  BY <2>2, <2>3, <2>4 DEF AllOff, Fades
<1>6. /\ at'[k] \in {"start", "start_pool", "start_state"} => last'[k] = "start" /\ ~Underway'
      /\ at'[k] \in {"stop", "stop_pool", "stop_state"} => last'[k] = "stop"
      /\ at'[k] \in {"wait", "wait_pool", "wait_read", "wait_state", "wait_done"}
           => last'[k] = "wait"
  BY DEF Phase
<1> QED  BY <1>1, <1>2, <1>3, <1>4, <1>5, <1>6 DEF Phase


(* The bystanders' steps, and those of the timer and of messages. *)
LEMMA PendingStays ==
  ASSUME Pending, state_' = state_, tasks_' = tasks_,
         \A c \in Clients : at[c] \in {"execute", "blocked"} /\ arg[c] \in States =>
           at'[c] \in {"execute", "blocked"} /\ arg'[c] \in States,
         \A w \in Workers : at'[w] = at[w] /\ seen'[w] = seen[w]
  PROVE  Pending'
BY DEF Pending, Waiting, Resetting

LEMMA StayingPhase ==
  ASSUME TypeOK, Single, NEW k \in Controllers, Phase(k),
         at'[k] = at[k], UNCHANGED <<last, started_, stop_, open, state_, sub, tasks_>>,
         seen'[k] = seen[k],
         \A t \in Threads : arg'[t] \in States => arg[t] \in States,
         pool' = pool \/ (~open /\ pool' = "off"),
         timer' = timer \/ (timer = "stopping" /\ timer' = "off"),
         Working(k) /\ Pending => Pending'
  PROVE  Phase(k)'
<1>1. Underway' => Underway
  BY DEF Underway, Waiting
<1>2. at[k] \in {"start", "start_pool", "start_state"} => ~Underway'
  BY <1>1 DEF Phase
<1>3. Fades
  BY DEF Fades, TypeOK
<1>4. at[k] = "start_state" =>
           IF seen[k] = NoState THEN state_' # NoState => sub'[state_'] = "running"
           ELSE state_' = state_ /\ AllOff'
  BY DEF Phase, AllOff
<1>5. Working(k) => (state_' # NoState => sub'[state_'] = "running" \/ Pending')
  BY DEF Phase
<1> QED  BY <1>2, <1>3, <1>4, <1>5, PhaseKept

LEMMA TimerPhase ==
  ASSUME TypeOK, Parts, Single, NEW k \in Controllers, Phase(k), TimerTriggers \/ TimerEnds
  PROVE  Phase(k)'
<1>1. /\ UNCHANGED <<last, started_, stop_, open, state_, sub, tasks_, seen, pool>>
      /\ timer' = timer \/ (timer = "stopping" /\ timer' = "off")
      /\ \A t \in Threads : t # "timer" => at'[t] = at[t] /\ arg'[t] = arg[t]
      /\ arg'["timer"] \in Messages \/ arg' = arg
  BY ThreadFacts
     DEF TimerTriggers, TimerEnds, Go, TypeOK, lockVars, poolVars, timerVars
<1>2. \A t \in Threads : arg'[t] \in States => arg[t] \in States
  BY <1>1, CompoundAssumption
<1>3. /\ at'[k] = at[k]
      /\ \A w \in Workers : at'[w] = at[w]
      /\ \A c \in Clients : at'[c] = at[c] /\ arg'[c] = arg[c]
  BY <1>1, ThreadFacts
<1>4. Pending => Pending'
  BY <1>1, <1>3, PendingStays
<1> QED  BY <1>1, <1>2, <1>3, <1>4, StayingPhase

LEMMA DeliverPhase ==
  ASSUME TypeOK, Parts, Single, NEW k \in Controllers, Phase(k),
         NEW c \in Clients, DeliverAtTime(c) \/ DeliverNow(c)
  PROVE  Phase(k)'
<1>1. /\ UNCHANGED <<last, started_, stop_, open, state_, sub, tasks_, seen, pool, timer>>
      /\ at[c] = "idle" /\ c \in Threads
      /\ \A t \in Threads : t # c => at'[t] = at[t] /\ arg'[t] = arg[t]
      /\ arg'[c] \in Messages \/ arg' = arg
  BY ThreadFacts
     DEF DeliverAtTime, DeliverNow, Go, TypeOK, lockVars, poolVars, timerVars
<1>2. \A t \in Threads : arg'[t] \in States => arg[t] \in States
  BY <1>1, CompoundAssumption
<1>3. at'[k] = at[k] /\ \A w \in Workers : at'[w] = at[w]
  BY <1>1, ThreadFacts
<1>4. \A d \in Clients : at[d] \in {"execute", "blocked"} /\ arg[d] \in States =>
           at'[d] \in {"execute", "blocked"} /\ arg'[d] \in States
  BY <1>1, ThreadFacts
<1>5. Pending => Pending'
  BY <1>1, <1>3, <1>4, PendingStays
<1> QED  BY <1>1, <1>2, <1>3, <1>5, StayingPhase

LEMMA EndsPhase ==
  ASSUME TypeOK, Parts, Single, NEW k \in Controllers, Phase(k), NEW s \in States, StateEnds(s)
  PROVE  Phase(k)'
<1>1. /\ UNCHANGED <<last, started_, stop_, open, state_, at, arg, tasks_, seen, pool, timer>>
      /\ sub[s] = "stopping" /\ sub' = [sub EXCEPT ![s] = "off"]
  BY DEF StateEnds, lockVars, poolVars, timerVars
<1>2. Fades /\ \A r \in States : sub[r] \in {"running", "off"} => sub'[r] = sub[r]
  BY <1>1 DEF Fades, TypeOK
<1>3. Underway' => Underway
  BY <1>1 DEF Underway, Waiting
<1>4. at[k] \in {"start", "start_pool", "start_state"} => ~Underway'
  BY <1>3 DEF Phase
<1>5. state_ # NoState /\ sub[state_] = "running" => sub'[state_] = "running"
  BY <1>2 DEF TypeOK
<1>6. at[k] = "start_state" =>
           IF seen[k] = NoState THEN state_' # NoState => sub'[state_'] = "running"
           ELSE state_' = state_ /\ AllOff'
  BY <1>1, <1>2, <1>5 DEF Phase, AllOff
<1>7. Pending => Pending'
  BY <1>1, PendingStays
<1>8. Working(k) => (state_' # NoState => sub'[state_'] = "running" \/ Pending')
  BY <1>1, <1>5, <1>7 DEF Phase
<1> QED  BY <1>1, <1>2, <1>4, <1>6, <1>8, PhaseKept

LEMMA ExecutesPhase ==
  ASSUME TypeOK, Parts, Single, NEW k \in Controllers, Phase(k),
         NEW t \in Clients \union {"timer"}, Executes(t)
  PROVE  Phase(k)'
<1>1. /\ UNCHANGED <<last, started_, stop_, open, state_, sub, seen, pool, timer>>
      /\ t \in Threads /\ arg[t] \in States \union Messages
      /\ t = "timer" => arg[t] \in Messages
  BY ExecutesDoes, CompoundAssumption DEF Parts, lockVars, timerVars
<1>2. PICK place \in {"blocked", "run", "idle"} : Go(t, place)
  BY ExecutesDoes
<1>3. /\ at'[k] = at[k] /\ at'[t] = place
      /\ \A u \in Threads : u # t => at'[u] = at[u]
      /\ \A w \in Workers : at'[w] = at[w] /\ seen'[w] = seen[w]
  BY <1>1, <1>2, ThreadFacts DEF Go, TypeOK
<1>4. CASE UNCHANGED <<tasks_, arg>> /\ Go(t, "blocked")
  <2>1. at'[t] = "blocked"
    BY <1>1, <1>4 DEF Go, TypeOK
  <2>2. \A d \in Clients : at[d] \in {"execute", "blocked"} /\ arg[d] \in States =>
           at'[d] \in {"execute", "blocked"} /\ arg'[d] \in States
    BY <1>3, <1>4, <2>1, ThreadFacts
  <2>3. Pending => Pending'
    BY <1>1, <1>3, <1>4, <2>2, PendingStays
  <2> QED  BY <1>1, <1>3, <1>4, <2>3, StayingPhase
<1>5. CASE /\ arg' = [arg EXCEPT ![t] = NoTask] /\ ~open /\ tasks_' = tasks_
  <2>1. \A u \in Threads : arg'[u] \in States => arg[u] \in States
    BY <1>5, CompoundAssumption DEF TypeOK
  <2>2. ~Working(k)
    BY <1>5 DEF Phase
  <2> QED  BY <1>1, <1>3, <1>5, <2>1, <2>2, StayingPhase
<1>6. CASE /\ arg' = [arg EXCEPT ![t] = NoTask] /\ open /\ Len(tasks_) < QueueSize
           /\ tasks_' = Append(tasks_, arg[t])
  <2>1. PICK e \in States \union Messages : e = arg[t]
    BY <1>1
  <2>2. /\ DOMAIN tasks_' = 1 .. Len(tasks_) + 1 /\ DOMAIN tasks_ = 1 .. Len(tasks_)
        /\ Len(tasks_) \in Nat
        /\ \A i \in 1 .. Len(tasks_) : tasks_'[i] = tasks_[i]
        /\ tasks_'[Len(tasks_) + 1] = e
    BY <1>6, <2>1, Appended DEF TypeOK
  <2>3. \A s \in States :
          /\ Waiting(s) \/ s = e => Waiting(s)'
          /\ Waiting(s)' => Waiting(s) \/ s = e
    BY <2>2 DEF Waiting
  <2>4. \A u \in Threads : (u # t => arg'[u] = arg[u]) /\ arg'[t] \notin States
    BY <1>1, <1>6, CompoundAssumption DEF TypeOK
  <2>5. Underway' => Underway
    BY <2>1, <2>3, <2>4, <1>1 DEF Underway
  <2>6. Pending => Pending'
    <3>1. CASE \E c \in Clients : at[c] \in {"execute", "blocked"} /\ arg[c] \in States
      <4>1. PICK c \in Clients : at[c] \in {"execute", "blocked"} /\ arg[c] \in States
        BY <3>1
      <4>2. CASE c = t
        <5>1. Waiting(e)' /\ e \in States
          BY <2>1, <2>3, <4>1, <4>2
        <5> QED  BY <5>1 DEF Pending
      <4>3. CASE c # t
        BY <1>3, <2>4, <4>1, <4>3, ThreadFacts DEF Pending
      <4> QED  BY <4>2, <4>3
    <3>2. CASE \E s \in States : Waiting(s)
      BY <2>3, <3>2 DEF Pending
    <3>3. CASE \/ \E w \in Workers : at[w] = "set_state"
               \/ \E w \in Workers : at[w] \in Resetting /\ seen[w] = state_
      BY <1>1, <1>3, <3>3 DEF Pending
    <3> QED  BY <3>1, <3>2, <3>3 DEF Pending
  <2>7. at[k] \in {"start", "start_pool", "start_state"} => ~Underway'
    BY <2>5 DEF Phase
  <2>8. Fades
    BY <1>1 DEF Fades
  <2>9. at[k] = "start_state" =>
           IF seen[k] = NoState THEN state_' # NoState => sub'[state_'] = "running"
           ELSE state_' = state_ /\ AllOff'
    BY <1>1 DEF Phase, AllOff
  <2>10. Working(k) => (state_' # NoState => sub'[state_'] = "running" \/ Pending')
    BY <1>1, <2>6 DEF Phase
  <2> QED  BY <1>1, <1>3, <2>7, <2>8, <2>9, <2>10, PhaseKept
<1> QED  BY <1>4, <1>5, <1>6, ExecutesDoes


(* A client gives a state, and stops the current one. *)
LEMMA GivenPhase ==
  ASSUME InTurn, TypeOK, Parts, Once, Single, NEW k \in Controllers, Controllers = {k},
         Phase(k), NEW c \in Clients, StateCall(c)
  PROVE  Phase(k)'
<1>1. PICK s \in States \ given :
        \/ /\ state_ = NoState /\ state_' = s /\ UNCHANGED <<at, seen, arg>>
           /\ sub' = IF started_ /\ ~stop_ THEN [sub EXCEPT ![s] = "running"] ELSE sub
        \/ /\ state_ # NoState
           /\ seen' = [seen EXCEPT ![c] = state_] /\ arg' = [arg EXCEPT ![c] = s]
           /\ Go(c, "state_stop") /\ UNCHANGED <<state_, sub>>
  BY DEF StateCall
<1>2. /\ UNCHANGED <<last, started_, stop_, open, tasks_, pool, timer>>
      /\ at[c] = "idle" /\ c \in Threads /\ c # k /\ c \notin Workers
      /\ state_ = NoState \/ (started_ /\ at[k] # "start_state")
  BY ThreadFacts DEF StateCall, InTurn, Settled, poolVars, timerVars
<1>3. CASE /\ state_ = NoState /\ state_' = s /\ UNCHANGED <<at, seen, arg>>
           /\ sub' = IF started_ /\ ~stop_ THEN [sub EXCEPT ![s] = "running"] ELSE sub
  <2>1. Underway' => Underway
    BY <1>2, <1>3 DEF Underway, Waiting
  <2>2. at[k] \in {"start", "start_pool", "start_state"} => ~Underway'
    BY <2>1 DEF Phase
  <2>3. started_ /\ ~stop_ => sub'[state_'] = "running"
    BY <1>3 DEF TypeOK
  <2>4. at[k] = "start_state" \/ Working(k) \/ Fades
    <3>1. at[k] = "start_state" \/ Working(k) \/ Resting(k) \/ Stopping(k)
      BY DEF Parts, TypeOK, Phase, Resting, Working, Stopping
    <3>2. Resting(k) \/ Stopping(k) => sub' = sub
      BY <1>3 DEF Phase
    <3> QED  BY <3>1, <3>2 DEF Fades
  <2>5. at[k] = "start_state" =>
           IF seen[k] = NoState THEN state_' # NoState => sub'[state_'] = "running"
           ELSE state_' = state_ /\ AllOff'
    BY <1>3, <2>3 DEF Phase
  <2>6. Working(k) => (state_' # NoState => sub'[state_'] = "running" \/ Pending')
    BY <2>3 DEF Phase
  <2> QED  BY <1>2, <1>3, <2>2, <2>4, <2>5, <2>6, PhaseKept
<1>4. CASE /\ state_ # NoState
           /\ seen' = [seen EXCEPT ![c] = state_] /\ arg' = [arg EXCEPT ![c] = s]
           /\ Go(c, "state_stop") /\ UNCHANGED <<state_, sub>>
  <2>1. /\ at'[k] = at[k] /\ seen'[k] = seen[k]
        /\ \A w \in Workers : at'[w] = at[w] /\ seen'[w] = seen[w]
        /\ \A d \in Clients : d # c => at'[d] = at[d] /\ arg'[d] = arg[d]
    BY <1>2, <1>4, ThreadFacts DEF Go, TypeOK
  <2>2. at[k] \notin {"start", "start_pool", "start_state"}
    BY <1>2, <1>4 DEF Phase, Resting
  <2>3. Fades
    BY <1>4 DEF Fades
  <2>4. Pending => Pending'
    BY <1>2, <1>4, <2>1, PendingStays
  <2>5. Working(k) => (state_' # NoState => sub'[state_'] = "running" \/ Pending')
    BY <1>4, <2>4 DEF Phase
  <2> QED  BY <1>2, <1>4, <2>1, <2>2, <2>3, <2>5, PhaseKept
<1> QED  BY <1>1, <1>3, <1>4

LEMMA StateStopPhase ==
  ASSUME TypeOK, Parts, Single, NEW k \in Controllers, Phase(k), NEW c \in Clients, StateStop(c)
  PROVE  Phase(k)'
<1>1. /\ UNCHANGED <<last, started_, stop_, open, state_, arg, tasks_, pool, timer>>
      /\ sub' = Stopped(seen[c]) /\ seen[c] \in States \union {NoState}
      /\ c \in Threads /\ arg[c] \in States
      /\ at'[k] = at[k] /\ seen'[k] = seen[k] /\ at'[c] = "execute"
  BY ThreadFacts DEF StateStop, Parts, Go, TypeOK, lockVars, poolVars, timerVars
<1>2. Underway /\ Pending' /\ Fades
  BY <1>1, StoppedFades DEF Underway, Pending
<1>3. at[k] \notin {"start", "start_pool", "start_state"}
  BY <1>2 DEF Phase
<1> QED  BY <1>1, <1>2, <1>3, PhaseKept

(* A thread of the pool takes a task, leaves or replaces the state. *)
LEMMA WorkPhase ==
  ASSUME TypeOK, Parts, Once, Single, NEW k \in Controllers, Phase(k),
         NEW w \in Workers, Work(w)
  PROVE  Phase(k)'
<1> USE DEF lockVars, poolVars, timerVars
<1>1. /\ w \in Threads /\ w # k /\ w \notin Clients
      /\ UNCHANGED <<last, started_, stop_, open, timer>>
  BY ThreadFacts
     DEF Work, Take, Leave, SetStateRead, SetStateStop, SetStateWait, SetStateInstall
<1>2. /\ at'[k] = at[k] /\ seen'[k] = seen[k]
      /\ \A v \in Workers \union Clients : v # w => at'[v] = at[v]
      /\ \A t \in Threads : t # w => seen'[t] = seen[t] /\ arg'[t] = arg[t]
  BY <1>1, ThreadFacts
     DEF Work, Take, Leave, SetStateRead, SetStateStop, SetStateWait, SetStateInstall, Go,
         TypeOK
<1>3. \A v \in Workers : v # w => at'[v] = at[v] /\ seen'[v] = seen[v]
  BY <1>2, ThreadFacts
<1>4. \A c \in Clients : at'[c] = at[c] /\ arg'[c] = arg[c]
  BY <1>1, <1>2, ThreadFacts
<1>5. CASE Take(w)
  <2>1. /\ DOMAIN tasks_' = 1 .. Len(tasks_) - 1 /\ DOMAIN tasks_ = 1 .. Len(tasks_)
        /\ Len(tasks_) \in Nat \ {0}
        /\ \A i \in 1 .. Len(tasks_) - 1 : tasks_'[i] = tasks_[i + 1]
        /\ Head(tasks_) = tasks_[1]
    BY <1>5, TakenOff DEF Take, TypeOK
  <2>2. /\ UNCHANGED <<state_, sub, seen, pool>> /\ at[w] = "run"
        /\ IF tasks_[1] \in States /\ pool # "stopping"
           THEN at'[w] = "set_state" /\ arg'[w] = tasks_[1]
           ELSE UNCHANGED <<at, arg>>
    BY <1>1, <1>5, <2>1 DEF Take, Go, TypeOK
  <2>3. \A s : Waiting(s)' => Waiting(s)
    <3>1. \A i \in DOMAIN tasks_' : i + 1 \in DOMAIN tasks_ /\ tasks_'[i] = tasks_[i + 1]
      BY <2>1
    <3> QED  BY <3>1 DEF Waiting
  <2>4. \A s : Waiting(s) => Waiting(s)' \/ s = tasks_[1]
    <3>1. \A i \in DOMAIN tasks_ : i = 1 \/ (i - 1 \in DOMAIN tasks_' /\ tasks_'[i - 1] = tasks_[i])
      BY <2>1
    <3> QED  BY <3>1 DEF Waiting
  <2>5. Waiting(tasks_[1])
    BY <2>1 DEF Waiting
  <2>6. Underway' => Underway
    BY <1>2, <2>2, <2>3, <2>5 DEF Underway
  <2>7. at[k] \in {"start", "start_pool", "start_state"} => ~Underway'
    BY <2>6 DEF Phase
  <2>8. Fades
    BY <2>2 DEF Fades
  <2>9. at[k] = "start_state" =>
           IF seen[k] = NoState THEN state_' # NoState => sub'[state_'] = "running"
           ELSE state_' = state_ /\ AllOff'
    BY <2>2 DEF Phase, AllOff
  <2>10. Working(k) /\ Pending => Pending'
    <3> SUFFICES ASSUME Working(k), Pending PROVE Pending'
      OBVIOUS
    <3>1. pool # "stopping"
      BY DEF Phase
    <3>2. CASE \E c \in Clients : at[c] \in {"execute", "blocked"} /\ arg[c] \in States
      BY <1>4, <3>2 DEF Pending
    <3>3. CASE \E s \in States : Waiting(s)
      <4>1. PICK s \in States : Waiting(s)
        BY <3>3
      <4>2. CASE s = tasks_[1]
        BY <2>2, <3>1, <4>1, <4>2 DEF Pending
      <4>3. CASE Waiting(s)'
        BY <4>1, <4>3 DEF Pending
      <4> QED  BY <2>4, <4>1, <4>2, <4>3
    <3>4. CASE \/ \E v \in Workers : at[v] = "set_state"
               \/ \E v \in Workers : at[v] \in Resetting /\ seen[v] = state_
      <4>1. PICK v \in Workers : at[v] = "set_state" \/ (at[v] \in Resetting /\ seen[v] = state_)
        BY <3>4
      <4>2. v # w
        BY <2>2, <4>1 DEF Resetting
      <4> QED  BY <1>3, <2>2, <4>1, <4>2 DEF Pending
    <3> QED  BY <3>2, <3>3, <3>4 DEF Pending
  <2>11. Working(k) => (state_' # NoState => sub'[state_'] = "running" \/ Pending')
    BY <2>2, <2>10 DEF Phase
  <2> QED  BY <1>1, <1>2, <2>2, <2>7, <2>8, <2>9, <2>11, PhaseKept
<1>6. CASE Leave(w)
  <2>1. /\ UNCHANGED <<state_, sub, seen, arg, tasks_>> /\ ~open
        /\ pool' = pool \/ pool' = "off"
    BY <1>6 DEF Leave
  <2>2. ~Working(k)
    BY <2>1 DEF Phase
  <2> QED  BY <1>1, <1>2, <2>1, <2>2, StayingPhase
<1>7. CASE SetStateRead(w) \/ SetStateStop(w) \/ SetStateWait(w) \/ SetStateInstall(w)
  <2>1. /\ at[w] \in Resetting /\ arg[w] \in States /\ arg[w] # NoState
        /\ UNCHANGED <<tasks_, pool>>
    BY <1>7, CompoundAssumption
       DEF Parts, SetStateRead, SetStateStop, SetStateWait, SetStateInstall, Resetting
  <2>2. at[k] \notin {"start", "start_pool", "start_state"}
    BY <1>1, <2>1 DEF Phase, Underway
  <2>3. ASSUME state_' = state_, arg' = arg,
               \/ at[w] = "set_state" /\ at'[w] \in Resetting /\ seen'[w] = state_
               \/ at[w] # "set_state" /\ at'[w] \in Resetting /\ seen' = seen
        PROVE  Pending => Pending'
    BY <1>3, <1>4, <2>1, <2>3 DEF Pending, Waiting
  <2>4. CASE SetStateRead(w) \/ SetStateWait(w)
    <3>1. /\ UNCHANGED <<state_, sub, arg>>
          /\ \/ at[w] = "set_state" /\ at'[w] \in Resetting /\ seen'[w] = state_
             \/ at[w] # "set_state" /\ at'[w] \in Resetting /\ seen' = seen
      BY <1>1, <2>4 DEF SetStateRead, SetStateWait, Resetting, Go, TypeOK
    <3> QED  BY <1>1, <1>2, <2>1, <2>3, <3>1, StayingPhase
  <2>5. CASE SetStateStop(w)
    <3>1. /\ UNCHANGED <<state_, arg, seen>> /\ sub' = Stopped(seen[w])
          /\ seen[w] \in States \union {NoState}
          /\ at[w] # "set_state" /\ at'[w] \in Resetting
      BY <1>1, <2>5 DEF SetStateStop, Resetting, Go, TypeOK
    <3>2. Fades /\ \A r \in States : r # seen[w] => sub'[r] = sub[r]
      BY <3>1, StoppedFades
    <3>3. Working(k) => (state_' # NoState => sub'[state_'] = "running" \/ Pending')
      <4>1. CASE seen[w] = state_
        BY <3>1, <4>1 DEF Pending
      <4>2. CASE seen[w] # state_
        BY <2>3, <3>1, <3>2, <4>2 DEF Phase, TypeOK
      <4> QED  BY <4>1, <4>2
    <3> QED  BY <1>1, <1>2, <2>1, <2>2, <3>2, <3>3, PhaseKept
  <2>6. CASE SetStateInstall(w)
    <3>1. /\ at[w] = "set_lock" /\ at'[w] = "run"
          /\ IF state_ = seen[w]
             THEN /\ state_' = arg[w]
                  /\ sub' = IF started_ /\ ~stop_ THEN Started(arg[w]) ELSE sub
             ELSE UNCHANGED <<state_, sub>>
      BY <1>1, <2>6 DEF SetStateInstall, Go, TypeOK
    <3>2. Working(k) \/ Fades
      <4>1. Working(k) \/ Stopping(k) \/ Resting(k)
        BY <2>2 DEF Parts, TypeOK, Phase, Resting, Working, Stopping
      <4>2. Stopping(k) \/ Resting(k) => sub' = sub
        BY <3>1 DEF Phase
      <4> QED  BY <4>1, <4>2 DEF Fades
    <3>3. ASSUME Working(k), state_' # NoState PROVE sub'[state_'] = "running" \/ Pending'
      <4>1. CASE state_ = seen[w]
        <5>1. sub[arg[w]] = "off"
          BY <1>1, <2>1 DEF Once, Single
        <5>2. sub' = Started(arg[w]) /\ state_' = arg[w]
          BY <3>1, <3>3, <4>1 DEF Phase
        <5> QED  BY <2>1, <5>1, <5>2, StartedFacts
      <4>2. CASE state_ # seen[w]
        <5>1. UNCHANGED <<state_, sub>>
          BY <3>1, <4>2
        <5>2. Pending => Pending'
          BY <1>3, <1>4, <2>1, <3>1, <4>2, <5>1 DEF Pending, Waiting
        <5> QED  BY <3>3, <5>1, <5>2 DEF Phase
      <4> QED  BY <4>1, <4>2
    <3> QED  BY <1>1, <1>2, <2>1, <2>2, <3>2, <3>3, PhaseKept
  <2> QED  BY <1>7, <2>4, <2>5, <2>6
<1> QED  BY <1>5, <1>6, <1>7 DEF Work


(* The controller's steps. *)
LEMMA NothingUnderway ==
  ASSUME Parts, ~Replacing
  PROVE  ~Underway
<1>1. ASSUME NEW t \in Threads, arg[t] \in States PROVE FALSE
  <2>1. arg[t] # NoTask /\ arg[t] \notin Messages
    BY <1>1, CompoundAssumption
  <2>2. CASE t \in Controllers
    BY <2>1, <2>2 DEF Parts
  <2>3. CASE t \in Clients
    BY <2>1, <2>3 DEF Parts, Replacing
  <2>4. CASE t \in Workers
    BY <1>1, <2>4 DEF Replacing
  <2>5. CASE t = "timer"
    BY <2>1, <2>5 DEF Parts
  <2> QED  BY <2>2, <2>3, <2>4, <2>5 DEF Threads
<1>2. \A s \in States : ~Waiting(s)
  BY DEF Waiting, Replacing
<1> QED  BY <1>1, <1>2 DEF Underway

LEMMA StartPhase ==
  ASSUME InTurn, TypeOK, Parts, Single, NEW k \in Controllers, Controllers = {k}, Phase(k),
         Calls(k) \/ StartBegin(k) \/ StartPool(k) \/ StartState(k)
  PROVE  Phase(k)'
<1> USE DEF lockVars, poolVars, timerVars
<1>1. k \in Threads /\ k \notin Workers /\ k \notin Clients /\ k # "timer"
  BY ThreadFacts
<1>2. CASE Calls(k)
  <2>1. /\ UNCHANGED <<started_, stop_, open, state_, sub, seen, arg, tasks_, pool, timer>>
        /\ at[k] = "idle" /\ at'[k] = NextCall[last[k]] /\ last'[k] = NextCall[last[k]]
        /\ NextCall[last[k]] = "start" => ~Replacing
        /\ last[k] \in {"start", "stop", "wait"}
    BY <1>1, <1>2 DEF Calls, Go, TypeOK, InTurn
  <2>2. Underway' <=> Underway
    BY <2>1 DEF Underway, Waiting
  <2>3. \A t \in Threads : t # k => at'[t] = at[t]
    BY <1>1, <1>2 DEF Calls, Go, TypeOK
  <2>4. Pending => Pending'
    BY <1>1, <2>1, <2>3, ThreadFacts, PendingStays
  <2>5. CASE last[k] = "wait"
    <3>1. at'[k] = "start" /\ last'[k] = "start" /\ ~Underway' /\ Resting(k)
      BY <2>1, <2>2, <2>5, NothingUnderway DEF NextCall, Resting
    <3> QED  BY <2>1, <3>1 DEF Phase, Resting, Working, Stopping, AllOff
  <2>6. CASE last[k] = "start"
    <3>1. at'[k] = "stop" /\ last'[k] = "stop" /\ Working(k)
      BY <2>1, <2>6 DEF NextCall, Working
    <3> QED  BY <2>1, <2>4, <3>1 DEF Phase, Resting, Working, Stopping
  <2>7. CASE last[k] = "stop"
    <3>1. at'[k] = "wait" /\ last'[k] = "wait" /\ Stopping(k)
      BY <2>1, <2>7 DEF NextCall, Stopping
    <3> QED  BY <2>1, <3>1 DEF Phase, Resting, Working, Stopping
  <2> QED  BY <2>1, <2>5, <2>6, <2>7
<1>3. CASE StartBegin(k)
  <2>1. Resting(k) /\ ~started_
    BY <1>3 DEF StartBegin, Phase, Resting
  <2>2. /\ UNCHANGED <<last, started_, stop_, open, state_, sub, seen, arg, tasks_, pool, timer>>
        /\ at[k] = "start" /\ at'[k] = "start_pool"
    BY <1>1, <1>3, <2>1 DEF StartBegin, Go, TypeOK
  <2>3. Underway' <=> Underway
    BY <2>2 DEF Underway, Waiting
  <2> QED  BY <2>1, <2>2, <2>3 DEF Phase, Resting, Working, Stopping, AllOff
<1>4. CASE StartPool(k)
  <2>1. Resting(k) /\ at[k] = "start_pool"
    BY <1>4 DEF StartPool, Resting
  <2>2. /\ UNCHANGED <<last, open, state_, sub, arg, tasks_>>
        /\ at'[k] = "start_state" /\ seen'[k] = state_ /\ started_' = TRUE /\ stop_' = FALSE
        /\ pool' = "running" /\ timer' = "running"
    BY <1>1, <1>4, <2>1 DEF StartPool, Phase, TypeOK
  <2>3. Underway' <=> Underway
    BY <2>2 DEF Underway, Waiting
  <2>4. ~Underway /\ last[k] = "start" /\ open /\ AllOff
    BY <2>1 DEF Phase
  <2>5. AllOff'
    BY <2>2, <2>4 DEF AllOff
  <2> QED  BY <2>2, <2>3, <2>4, <2>5 DEF Phase, Resting, Working, Stopping
<1>5. CASE StartState(k)
  <2>1. /\ UNCHANGED <<last, started_, stop_, open, state_, arg, tasks_, pool, timer>>
        /\ at[k] = "start_state" /\ at'[k] = "idle" /\ sub' = Started(seen[k])
        /\ seen[k] \in States \union {NoState}
    BY <1>1, <1>5 DEF StartState, Go, TypeOK
  <2>2. started_ /\ ~stop_ /\ pool = "running" /\ timer = "running" /\ open /\ last[k] = "start"
    BY <2>1 DEF Phase
  <2>3. state_' # NoState => sub'[state_'] = "running"
    <3>1. CASE seen[k] = NoState
      BY <2>1, <3>1 DEF Phase, Started
    <3>2. CASE seen[k] # NoState
      <4>1. seen[k] = state_ /\ sub[state_] = "off" /\ state_ \in States
        BY <2>1, <3>2 DEF Phase, AllOff
      <4> QED  BY <2>1, <4>1, StartedFacts
    <3> QED  BY <3>1, <3>2
  <2> QED  BY <2>1, <2>2, <2>3 DEF Phase, Resting, Working, Stopping
<1> QED  BY <1>2, <1>3, <1>4, <1>5

LEMMA StopPhase ==
  ASSUME TypeOK, Parts, Single, NEW k \in Controllers, Phase(k),
         StopBegin(k) \/ StopPool(k) \/ StopState(k)
  PROVE  Phase(k)'
<1> USE DEF lockVars, poolVars, timerVars
<1>1. k \in Threads /\ k \notin Workers /\ k \notin Clients /\ k # "timer"
  BY ThreadFacts
<1>2. CASE StopBegin(k)
  <2>1. Working(k) /\ at[k] = "stop" /\ started_ /\ ~stop_ /\ timer = "running"
    BY <1>2 DEF StopBegin, Phase, Working
  <2>2. /\ UNCHANGED <<last, started_, stop_, open, state_, sub, seen, arg, tasks_, pool>>
        /\ at'[k] = "stop_pool" /\ timer' = "stopping"
        /\ \A t \in Threads : t # k => at'[t] = at[t]
    BY <1>1, <1>2, <2>1 DEF StopBegin, Go, TypeOK
  <2>3. Pending => Pending'
    BY <1>1, <2>2, ThreadFacts, PendingStays
  <2> QED  BY <2>1, <2>2, <2>3 DEF Phase, Resting, Working, Stopping
<1>3. CASE StopPool(k)
  <2>1. Working(k) /\ at[k] = "stop_pool"
    BY <1>3 DEF StopPool, Working
  <2>2. started_ /\ timer # "running" /\ last[k] = "stop" /\ pool = "running"
    BY <2>1 DEF Phase
  <2>3. /\ UNCHANGED <<last, started_, state_, sub, timer>>
        /\ stop_' = TRUE /\ open' = FALSE /\ pool' = "stopping"
        /\ seen'[k] = state_ /\ at'[k] = "stop_state"
    BY <1>1, <1>3, <2>2 DEF StopPool, Go, TypeOK
  <2>4. \A s \in States : sub'[s] = "running" => s = seen'[k]
    BY <2>3 DEF Single
  <2> QED  BY <2>2, <2>3, <2>4 DEF Phase, Resting, Working, Stopping
<1>4. CASE StopState(k)
  <2>1. Stopping(k) /\ at[k] = "stop_state"
    BY <1>4 DEF StopState, Stopping
  <2>2. /\ started_ /\ stop_ /\ pool # "running" /\ timer # "running" /\ last[k] = "stop"
        /\ \A s \in States : sub[s] = "running" => s = seen[k]
    BY <2>1 DEF Phase
  <2>3. /\ UNCHANGED <<last, started_, stop_, open, state_, pool, timer>>
        /\ at'[k] = "idle" /\ sub' = Stopped(seen[k]) /\ seen[k] \in States \union {NoState}
    BY <1>1, <1>4 DEF StopState, Go, TypeOK
  <2>4. \A s \in States : sub'[s] # "running"
    BY <2>2, <2>3, StoppedFacts
  <2> QED  BY <2>2, <2>3, <2>4 DEF Phase, Resting, Working, Stopping
<1> QED  BY <1>2, <1>3, <1>4

LEMMA WaitPhase ==
  ASSUME TypeOK, Parts, Single, NEW k \in Controllers, Phase(k),
         WaitTimer(k) \/ WaitPool(k) \/ WaitReadState(k) \/ WaitState(k) \/ WaitDone(k)
  PROVE  Phase(k)'
<1> USE DEF lockVars, poolVars, timerVars
<1>1. k \in Threads
  BY ThreadFacts
<1>2. /\ Stopping(k) /\ UNCHANGED <<last, stop_, sub, pool, timer, state_>>
      /\ at[k] \in {"wait", "wait_pool", "wait_read", "wait_state", "wait_done"}
  BY DEF WaitTimer, WaitPool, WaitReadState, WaitState, WaitDone, Stopping
<1>3. /\ started_ /\ stop_ /\ pool # "running" /\ timer # "running" /\ last[k] = "wait"
      /\ \A s \in States : sub[s] # "running"
      /\ at[k] # "wait" => timer = "off"
      /\ at[k] \in {"wait_read", "wait_state", "wait_done"} => pool = "off" /\ open
      /\ at[k] = "wait_state" => \A s \in States : sub[s] # "off" => s = seen[k]
      /\ at[k] = "wait_done" => AllOff
  BY <1>2 DEF Phase
<1>4. CASE WaitTimer(k)
  <2>1. at[k] = "wait" /\ at'[k] = "wait_pool" /\ UNCHANGED started_ /\ timer = "off"
    BY <1>1, <1>4 DEF WaitTimer, Go, TypeOK
  <2> QED  BY <1>2, <1>3, <2>1 DEF Phase, Resting, Working, Stopping
<1>5. CASE WaitPool(k)
  <2>1. /\ at[k] = "wait_pool" /\ at'[k] = "wait_read" /\ UNCHANGED started_
        /\ pool = "off" /\ open' = TRUE
    BY <1>1, <1>5 DEF WaitPool, Go, TypeOK
  <2> QED  BY <1>2, <1>3, <2>1 DEF Phase, Resting, Working, Stopping
<1>6. CASE WaitReadState(k)
  <2>1. /\ at[k] = "wait_read" /\ at'[k] = "wait_state" /\ UNCHANGED <<started_, open>>
        /\ seen'[k] = state_
    BY <1>1, <1>6 DEF WaitReadState, Go, TypeOK
  <2>2. \A s \in States : sub'[s] # "off" => s = seen'[k]
    BY <1>2, <2>1 DEF Single
  <2> QED  BY <1>2, <1>3, <2>1, <2>2 DEF Phase, Resting, Working, Stopping
<1>7. CASE WaitState(k)
  <2>1. /\ at[k] = "wait_state" /\ at'[k] = "wait_done" /\ UNCHANGED <<started_, open>>
        /\ Joined(seen[k])
    BY <1>1, <1>7 DEF WaitState, Go, TypeOK
  <2>2. AllOff'
    BY <1>2, <1>3, <2>1, CompoundAssumption DEF Joined, AllOff
  <2> QED  BY <1>2, <1>3, <2>1, <2>2 DEF Phase, Resting, Working, Stopping
<1>8. CASE WaitDone(k)
  <2>1. at[k] = "wait_done" /\ at'[k] = "idle" /\ started_' = FALSE /\ open' = open
    BY <1>1, <1>8 DEF WaitDone, Go, TypeOK
  <2>2. AllOff'
    BY <1>2, <1>3, <2>1 DEF AllOff
  <2> QED  BY <1>2, <1>3, <2>1, <2>2 DEF Phase, Resting, Working, Stopping
<1> QED  BY <1>4, <1>5, <1>6, <1>7, <1>8

-----------------------------------------------------------------------------
LEMMA StepIInv == InTurn /\ IInv /\ [Next]_vars => IInv'
<1> SUFFICES ASSUME InTurn, IInv, [Next]_vars PROVE IInv'
  OBVIOUS
<1>1. PICK k \in Controllers : Controllers = {k}
  BY DEF InTurn
<1>2. TypeOK /\ Parts /\ Once /\ Single /\ Phase(k)
  BY <1>1 DEF IInv, Phases
<1>3. CASE UNCHANGED vars
  <2>1. UNCHANGED <<TypeOK, Parts, Once, Single, Phase(k)>>
    BY <1>3 DEF vars, lockVars, poolVars, timerVars, TypeOK, Parts, Resetting, Once, Waiting,
       Single, Joined, Phase, Resting, Working, Stopping, AllOff, Underway, Pending
  <2> QED  BY <1>1, <1>2, <2>1 DEF IInv, Phases
<1>4. ASSUME TypeOK', Parts', Phase(k)' PROVE IInv'
  BY <1>1, <1>2, <1>4, StepOnce, StepSingle DEF IInv, Phases
<1>5. CASE Calls(k) \/ Control(k)
  BY <1>1, <1>2, <1>4, <1>5, ControlTyped, ControlParts, StartPhase, StopPhase, WaitPhase
     DEF Control
<1>6. ASSUME NEW w \in Workers, Work(w) PROVE IInv'
  BY <1>2, <1>4, <1>6, WorkTyped, WorkParts, WorkPhase
<1>7. CASE \/ \E c \in Clients : StateCall(c) \/ StateStop(c) \/ DeliverAtTime(c)
                                 \/ DeliverNow(c)
           \/ \E t \in Clients \union {"timer"} : Executes(t)
           \/ TimerTriggers \/ TimerEnds
           \/ \E s \in States : StateEnds(s)
  <2>1. TypeOK' /\ Parts'
    BY <1>2, <1>7, OthersTyped, OthersParts
  <2>2. Phase(k)'
    BY <1>1, <1>2, <1>7, GivenPhase, StateStopPhase, DeliverPhase, ExecutesPhase, TimerPhase,
       EndsPhase
  <2> QED  BY <1>4, <2>1, <2>2
<1> QED  BY <1>1, <1>3, <1>5, <1>6, <1>7 DEF Next

(* When one controller calls start, stop and wait in turn, and start not   *)
(* while a state is being replaced, every thread keeps to its part, a new  *)
(* state is in one hand only, only the current state is on and the parts   *)
(* follow the phases of the service.                                       *)
THEOREM Invariance ==
  ASSUME InTurn
  PROVE  Spec => []IInv
<1>1. Init => IInv
  BY InitIInv
<1>2. IInv /\ [Next]_vars => IInv'
  BY StepIInv
<1> QED  BY <1>1, <1>2, PTL DEF Spec

(* A state is started only when the one before it has been joined, however *)
(* many clients replace it at once.                                        *)
THEOREM StatesRunOneAtATime ==
  ASSUME InTurn
  PROVE  Spec => []OneStateAtATime
<1>1. IInv => OneStateAtATime
  BY DEF IInv, Single, OneStateAtATime
<1> QED  BY <1>1, Invariance, PTL

(* Once wait() has returned no state is left running, not even one that a  *)
(* dropped SetState task should have installed.                            *)
THEOREM StopReachesTheState ==
  ASSUME InTurn
  PROVE  Spec => []StoppedMeansStopped
<1>1. IInv => StoppedMeansStopped
  <2> SUFFICES ASSUME IInv, AtRest PROVE \A s \in States : sub[s] = "off"
    BY DEF StoppedMeansStopped
  <2>1. PICK k \in Controllers : Phase(k)
    BY DEF InTurn, IInv, Phases
  <2>2. at[k] = "idle" /\ ~started_ /\ last[k] \in {"start", "stop", "wait"}
    BY DEF AtRest, IInv, TypeOK
  <2>3. Resting(k)
    BY <2>1, <2>2 DEF Phase, Resting, Working, Stopping
  <2> QED  BY <2>1, <2>3 DEF Phase, AllOff
<1> QED  BY <1>1, Invariance, PTL

(* Between start() and stop() the pool and the timer run, and so does the  *)
(* current state unless somebody is about to replace it.                   *)
THEOREM StartReachesTheParts ==
  ASSUME InTurn
  PROVE  Spec => []StartedMeansRunning
<1>1. IInv => StartedMeansRunning
  <2> SUFFICES ASSUME IInv, started_, ~stop_, \A k \in Controllers : at[k] = "idle"
               PROVE  /\ pool = "running" /\ timer = "running"
                      /\ state_ = NoState \/ sub[state_] = "running" \/ Replacing
    BY DEF StartedMeansRunning
  <2>1. PICK k \in Controllers : Phase(k)
    BY DEF InTurn, IInv, Phases
  <2>2. at[k] = "idle" /\ last[k] \in {"start", "stop", "wait"}
    BY DEF IInv, TypeOK
  <2>3. Working(k)
    BY <2>1, <2>2 DEF Phase, Resting, Working, Stopping
  <2>4. Pending => Replacing
    BY DEF IInv, Parts, Pending, Replacing, Waiting, Resetting
  <2> QED  BY <2>1, <2>2, <2>3, <2>4 DEF Phase
<1> QED  BY <1>1, Invariance, PTL
=============================================================================

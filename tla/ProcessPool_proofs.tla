------------------------- MODULE ProcessPool_proofs -------------------------
(***************************************************************************)
(* Theorems about ProcessPool: for any finite number of workers, any       *)
(* clients and tasks, and whatever fails.                                  *)
(***************************************************************************)
EXTENDS ProcessPool, FiniteSetTheorems, TLAPS

WorkerPlaces == {"off", "loop", "got", "create", "init", "send", "sent", "close",
                 "reap", "signal", "leave", "reap_last", "ends", "throw"}
(* Where a worker has a task in hand; and where it has not sent it yet.    *)
WithTask == {"got", "create", "init", "send", "sent", "close", "reap", "signal",
             "throw"}
Unsent == {"got", "create", "init", "send"}

Typed ==
  /\ TypeOK
  /\ at \in [Threads -> WorkerPlaces \union {"idle", "stop", "wait", "check"}]
  /\ \A w \in Workers : at[w] \in WorkerPlaces
  /\ runs \in [Tasks -> Nat]
  /\ result \in [Tasks -> Tasks \union Words]
  /\ accepted \subseteq Tasks

(* started_ is the number of threads that have not ended. *)
Working == {w \in Workers : at[w] # "off"}
Counted == started_ = Cardinality(Working)

(* A task is in one place of the queue or in the hands of one worker, from *)
(* when it is accepted until it is over; a dropped one is only signalled.  *)
Hands ==
  /\ \A w \in Workers : at[w] \in WithTask <=> held[w] # NoTask
  /\ \A v, w \in Workers : held[w] # NoTask /\ held[v] = held[w] => v = w
  /\ \A w \in Workers : held[w] \notin InQueue
  /\ \A i, j \in DOMAIN tasks_ : tasks_[i] = tasks_[j] => i = j
  /\ InQueue \union InHand \union completed_ \union over \union dropped
       \subseteq accepted
  /\ (InQueue \union InHand) \intersect (completed_ \union over) = {}
  /\ InQueue \intersect dropped = {}
  /\ \A w \in Workers : held[w] \in dropped => at[w] = "signal"

(* What the process of a worker, and the pipes between them, can be at.    *)
Pipe(w) ==
  /\ knows[w] = "none" /\ at[w] # "throw" => proc[w] = "none"
  /\ knows[w] = "-1" => /\ proc[w] = "none" /\ ~timedOut[w]
                         /\ at[w] \in {"close", "reap"}
  /\ at[w] = "create" => knows[w] = "none"
  /\ at[w] \in {"init", "send", "sent"} => knows[w] = "child"
  /\ at[w] = "close" => knows[w] # "none"
  /\ doing[w] # NoTask => /\ doing[w] = held[w] /\ cmd[w] = NoTask
                          /\ proc[w] \in {"busy", "hung"}
                          /\ at[w] \in {"sent", "close", "reap"}
  /\ proc[w] = "busy" => doing[w] # NoTask
  /\ at[w] \notin {"init", "sent", "close"} => cmd[w] = NoTask /\ answer[w] = NoTask
  /\ at[w] \in {"reap", "reap_last"} => ~piped[w]
  /\ at[w] = "init" => /\ cmd[w] \in {NoTask, "INIT"}
                       /\ answer[w] # NoTask => cmd[w] = NoTask
  /\ at[w] = "sent" => /\ cmd[w] \in {NoTask, held[w]}
                       /\ answer[w] # NoTask => cmd[w] = NoTask
                       /\ answer[w] \in {held[w], "E"} => doing[w] = NoTask
  /\ at[w] = "close" => cmd[w] \in {NoTask, held[w], "INIT"}

Pipes == \A w \in Workers : Pipe(w)

(* A task that no child has read has not been executed. *)
RunsOnce ==
  /\ \A t \in Tasks : /\ runs[t] \in {0, 1}
                      /\ t \notin accepted \/ t \in InQueue => runs[t] = 0
  /\ \A w \in Workers :
       held[w] # NoTask /\ (at[w] \in Unsent \/ cmd[w] = held[w])
         => runs[held[w]] = 0

(* What a task may say in the end. *)
Final(t) == {t, "E", "broken", "timeout", "dropped"}

Results ==
  /\ \A t \in completed_ : result[t] \in Final(t)
  /\ \A w \in Workers : at[w] \in {"close", "reap", "signal"}
                          => result[held[w]] \in Final(held[w])

IInv == Typed /\ Counted /\ Hands /\ Pipes /\ RunsOnce /\ Results

-----------------------------------------------------------------------------
(* The library's facts about the sequences that a queue goes through. *)
LEMMA Appended ==
  ASSUME NEW S, NEW s \in Seq(S), NEW e \in S
  PROVE  /\ Append(s, e) \in Seq(S)
         /\ DOMAIN Append(s, e) = 1 .. Len(s) + 1 /\ DOMAIN s = 1 .. Len(s)
         /\ Len(s) \in Nat
         /\ \A i \in 1 .. Len(s) : Append(s, e)[i] = s[i]
         /\ Append(s, e)[Len(s) + 1] = e
OBVIOUS

LEMMA TakenOff ==
  ASSUME NEW S, NEW s \in Seq(S), s # << >>
  PROVE  /\ Head(s) \in S /\ Tail(s) \in Seq(S)
         /\ DOMAIN Tail(s) = 1 .. Len(s) - 1 /\ DOMAIN s = 1 .. Len(s)
         /\ Len(s) \in Nat \ {0}
         /\ Head(s) = s[1]
         /\ \A i \in 1 .. Len(s) - 1 : Tail(s)[i] = s[i + 1]
OBVIOUS

(* Threads that are none of the pool's. *)
LEMMA ThreadFacts ==
  /\ \A w \in Workers : w \in Threads /\ w \notin Clients /\ w # "controller"
  /\ \A c \in Clients : c \in Threads /\ c \notin Workers /\ c # "controller"
  /\ "controller" \in Threads \ (Workers \union Clients)
  /\ NoTask \notin Tasks
  /\ \A t \in Tasks : t \notin {"INIT", "S", "E", "garbage", "broken", "timeout",
                                "dropped"}
BY ProcessPoolAssumption DEF Threads, Words

LEMMA InitIInv == Init => IInv
<1> SUFFICES ASSUME Init PROVE IInv
  OBVIOUS
<1>1. /\ \A w \in Workers : at[w] = "off"
      /\ \A c \in Clients : at[c] = "idle"
  BY ThreadFacts DEF Init
<1>2. IsFiniteSet(Workers) /\ Cardinality(Workers) \in Nat
  BY ProcessPoolAssumption, FS_CardinalityType
<1>3. Typed
  <2>1. started_ \in 0 .. Cardinality(Workers) /\ orphans \in Nat
    BY <1>2 DEF Init
  <2>2. tasks_ \in Seq(Tasks)
    BY DEF Init
  <2>3. at \in [Threads -> WorkerPlaces \union {"idle", "stop", "wait", "check"}]
    BY DEF Init, WorkerPlaces
  <2>4. TypeOK
    BY <1>1, <2>1, <2>2 DEF Init, TypeOK
  <2>5. runs \in [Tasks -> Nat] /\ result \in [Tasks -> Tasks \union Words]
    BY DEF Init, Words
  <2> QED  BY <1>1, <2>3, <2>4, <2>5 DEF Init, Typed, WorkerPlaces
<1>4. Counted
  <2>1. Working = {}
    BY <1>1 DEF Working
  <2> QED  BY <2>1, FS_EmptySet DEF Counted, Init
<1>5. InQueue = {} /\ InHand = {}
  BY DEF Init, InQueue, InHand
<1>6. Hands
  BY <1>1, <1>5, ThreadFacts DEF Hands, Init, WithTask
<1>7. Pipes
  BY <1>1 DEF Pipes, Pipe, Init
<1>8. RunsOnce /\ Results
  BY <1>1 DEF RunsOnce, Results, Init
<1> QED  BY <1>3, <1>4, <1>6, <1>7, <1>8 DEF IInv

-----------------------------------------------------------------------------
(* The steps of a worker or its child leave the other workers alone,       *)
(* except that waiting for the pid -1 may reap another's dead child.       *)
Elsewhere(w) ==
  \A v \in Workers \ {w} :
    /\ at'[v] = at[v] /\ held'[v] = held[v] /\ knows'[v] = knows[v]
    /\ doing'[v] = doing[v] /\ cmd'[v] = cmd[v] /\ answer'[v] = answer[v]
    /\ piped'[v] = piped[v] /\ timedOut'[v] = timedOut[v]
    /\ \/ proc'[v] = proc[v]
       \/ proc[v] = "dead" /\ proc'[v] = "reaped"

LEMMA PipesElsewhere ==
  ASSUME Pipes, NEW w \in Workers, Elsewhere(w), Pipe(w)'
  PROVE  Pipes'
<1> SUFFICES ASSUME NEW v \in Workers \ {w} PROVE Pipe(v)'
  BY DEF Pipes
<1>1. Pipe(v)
  BY DEF Pipes
<1> QED  BY <1>1 DEF Elsewhere, Pipe

-----------------------------------------------------------------------------
(* Types.  started_ is counted down only by a thread that it counts.       *)
LEMMA WorkersFinite ==
  ASSUME Counted
  PROVE  /\ IsFiniteSet(Working)
         /\ started_ \in 0 .. Cardinality(Workers)
         /\ \A w \in Working : /\ started_ - 1 = Cardinality(Working \ {w})
                               /\ started_ # 0
<1>1. IsFiniteSet(Workers) /\ Working \in SUBSET Workers
  BY ProcessPoolAssumption DEF Working
<1>2. /\ IsFiniteSet(Working) /\ Cardinality(Working) <= Cardinality(Workers)
      /\ Cardinality(Working) \in Nat /\ Cardinality(Workers) \in Nat
  BY <1>1, FS_Subset, FS_CardinalityType
<1>3. ASSUME NEW w \in Working
      PROVE  Cardinality(Working \ {w}) = Cardinality(Working) - 1 /\ Cardinality(Working) # 0
  BY <1>2, FS_RemoveElement, FS_EmptySet
<1> QED  BY <1>2, <1>3 DEF Counted

(* The queue and what it holds. *)
LEMMA QueueFacts ==
  ASSUME Typed
  PROVE  /\ tasks_ \in Seq(Tasks) /\ InQueue \subseteq Tasks
         /\ \A t \in Tasks :
              tasks_' = Append(tasks_, t) =>
                /\ tasks_' \in Seq(Tasks) /\ InQueue' = InQueue \union {t}
         /\ tasks_ # <<>> =>
              /\ Head(tasks_) \in InQueue
              /\ tasks_' = Tail(tasks_) =>
                   tasks_' \in Seq(Tasks) /\ InQueue' \subseteq InQueue
         /\ tasks_' = tasks_ => InQueue' = InQueue
<1>1. tasks_ \in Seq(Tasks)
  BY DEF Typed, TypeOK
<1>2. InQueue \subseteq Tasks
  BY <1>1 DEF InQueue
<1>3. ASSUME NEW t \in Tasks, tasks_' = Append(tasks_, t)
      PROVE  tasks_' \in Seq(Tasks) /\ InQueue' = InQueue \union {t}
  <2>1. /\ DOMAIN tasks_' = 1 .. Len(tasks_) + 1 /\ DOMAIN tasks_ = 1 .. Len(tasks_)
        /\ Len(tasks_) \in Nat
        /\ \A i \in 1 .. Len(tasks_) : tasks_'[i] = tasks_[i]
        /\ tasks_'[Len(tasks_) + 1] = t /\ tasks_' \in Seq(Tasks)
    BY <1>1, <1>3, Appended
  <2>2. InQueue' \subseteq InQueue \union {t}
    BY <2>1 DEF InQueue
  <2>3. InQueue \union {t} \subseteq InQueue'
    BY <2>1 DEF InQueue
  <2> QED  BY <2>1, <2>2, <2>3
<1>4. ASSUME tasks_ # <<>>
      PROVE  /\ Head(tasks_) \in InQueue
             /\ tasks_' = Tail(tasks_) =>
                  tasks_' \in Seq(Tasks) /\ InQueue' \subseteq InQueue
  <2>1. /\ Tail(tasks_) \in Seq(Tasks)
        /\ DOMAIN Tail(tasks_) = 1 .. Len(tasks_) - 1
        /\ DOMAIN tasks_ = 1 .. Len(tasks_)
        /\ Len(tasks_) \in Nat \ {0}
        /\ Head(tasks_) = tasks_[1]
        /\ \A i \in 1 .. Len(tasks_) - 1 : Tail(tasks_)[i] = tasks_[i + 1]
    BY <1>1, <1>4, TakenOff
  <2>2. Head(tasks_) \in InQueue
    BY <2>1 DEF InQueue
  <2>3. ASSUME tasks_' = Tail(tasks_) PROVE InQueue' \subseteq InQueue
    BY <2>1, <2>3 DEF InQueue
  <2> QED  BY <2>1, <2>2, <2>3
<1> QED  BY <1>1, <1>2, <1>3, <1>4 DEF InQueue

(* What the steps of all actors do to places. *)
Places == WorkerPlaces \union {"idle", "stop", "wait", "check"}
Clerks == {"idle", "check", "wait"}

PlacesTyped ==
  /\ at \in [Threads -> Places]
  /\ \A w \in Workers : at[w] \in WorkerPlaces
  /\ \A c \in Clients : at[c] \in Clerks

LEMMA PlacesFacts == Typed => PlacesTyped
BY DEF Typed, TypeOK, PlacesTyped, Places, Clerks

LEMMA GoFacts ==
  ASSUME PlacesTyped, NEW t \in Threads, NEW place, Go(t, place)
  PROVE  at'[t] = place /\ \A u \in Threads \ {t} : at'[u] = at[u]
BY DEF Go, PlacesTyped

LEMMA GoTyped ==
  ASSUME PlacesTyped, NEW t \in Threads, NEW place, Go(t, place),
         \/ t \in Workers /\ place \in WorkerPlaces
         \/ t \in Clients /\ place \in Clerks
         \/ t = "controller" /\ place \in Places
  PROVE  PlacesTyped'
<1>1. at'[t] = place /\ \A u \in Threads \ {t} : at'[u] = at[u]
  BY GoFacts
<1>2. at' \in [Threads -> Places]
  BY DEF Go, PlacesTyped, Places, Clerks
<1> QED  BY <1>1, <1>2, ThreadFacts DEF PlacesTyped

(* The rest of the types. *)
DataTyped ==
  /\ stop_ \in BOOLEAN /\ open \in BOOLEAN
  /\ held \in [Workers -> Tasks \union {NoTask}]
  /\ knows \in [Workers -> {"none", "child", "-1"}]
  /\ timedOut \in [Workers -> BOOLEAN] /\ piped \in [Workers -> BOOLEAN]
  /\ proc \in [Workers -> {"none", "fresh", "ready", "busy", "hung", "dead",
                           "reaped"}]
  /\ doing \in [Workers -> Tasks \union {NoTask}]
  /\ cmd \in [Workers -> Tasks \union {NoTask, "INIT"}]
  /\ answer \in [Workers -> Tasks \union {NoTask, "S", "E", "garbage"}]
  /\ orphans \in Nat
  /\ runs \in [Tasks -> Nat]
  /\ result \in [Tasks -> Tasks \union Words]
  /\ accepted \subseteq Tasks

LEMMA TypedFacts ==
  Typed <=> /\ PlacesTyped /\ DataTyped
            /\ started_ \in 0 .. Cardinality(Workers)
            /\ tasks_ \in Seq(Tasks)
BY DEF Typed, TypeOK, PlacesTyped, DataTyped, Places, Clerks

groups == <<poolVars, workVars, procVars, pipeVars, taskVars, mine, history>>

LEMMA WorkTyped ==
  ASSUME Typed, NEW w \in Workers, Work(w)
  PROVE  PlacesTyped' /\ DataTyped'
<1> USE DEF poolVars, workVars, procVars, pipeVars, taskVars, history
<1>1. PlacesTyped /\ DataTyped /\ w \in Threads
  BY PlacesFacts, TypedFacts, ThreadFacts
<1>2. \E place \in WorkerPlaces : Go(w, place)
  BY DEF Work, WorkerPlaces, Dequeue, Leave, Decide, Signal, Create, CreateThrows,
         Initialized, InitializedThrows, Send, Received, Broken, Late, CloseProcess,
         Reap, ReapLast, Throws, Ends
<1>3. PlacesTyped'
  BY <1>1, <1>2, GoTyped
<1> USE <1>1, <1>3 DEF DataTyped
<1>4. CASE Dequeue(w)
  BY <1>4, QueueFacts DEF Dequeue
<1>5. CASE Leave(w) \/ CreateThrows(w) \/ Ends(w)
  BY <1>5 DEF Leave, CreateThrows, Ends
<1>6. CASE Decide(w)
  BY <1>6 DEF Decide, Fails, Words
<1>7. CASE Signal(w)
  BY <1>7 DEF Signal
<1>8. CASE Create(w)
  BY <1>8 DEF Create, Fails, Words
<1>9. CASE Initialized(w)
  BY <1>9 DEF Initialized, Receives, Fails, Words
<1>10. CASE InitializedThrows(w)
  BY <1>10 DEF InitializedThrows, Receives
<1>11. CASE Send(w)
  BY <1>11 DEF Send, Fails, Words
<1>12. CASE Received(w)
  <2>1. PICK what \in {held[w], "E"} : Receives(w, what) /\ Fails(held[w], what)
    BY <1>12 DEF Received
  <2>2. what \in Tasks \union Words
    BY DEF Words
  <2>3. result' \in [Tasks -> Tasks \union Words]
    BY <2>1, <2>2 DEF Fails
  <2>4. answer' \in [Workers -> Tasks \union {NoTask, "S", "E", "garbage"}]
    BY <2>1 DEF Receives
  <2> QED  BY <1>12, <2>3, <2>4 DEF Received
<1>13. CASE Broken(w) \/ Late(w)
  BY ZenonT(40), <1>13 DEF Broken, Late, Fails, Words
<1>14. CASE CloseProcess(w)
  BY <1>14 DEF CloseProcess
<1>15. CASE Reap(w)
  <2>1. orphans' \in Nat
    BY <1>15 DEF Reap, ReapChild, ReapAny
  <2>2. proc' \in [Workers -> {"none", "fresh", "ready", "busy", "hung", "dead",
                               "reaped"}]
    BY <1>15 DEF Reap, ReapChild, ReapAny
  <2> QED  BY <1>15, <2>1, <2>2 DEF Reap
<1>16. CASE ReapLast(w)
  BY <1>16 DEF ReapLast, ReapChild
<1>17. CASE Throws(w)
  BY <1>17 DEF Throws
<1>18. DataTyped'
  BY <1>4, <1>5, <1>6, <1>7, <1>8, <1>9, <1>10, <1>11, <1>12, <1>13, <1>14, <1>15,
     <1>16, <1>17 DEF Work
<1> QED  BY <1>3, <1>18

(* A step of the process behind a worker's pipes. *)
Process(w) ==
  \/ ChildInit(w) \/ ChildReads(w) \/ ChildAnswers(w) \/ ChildEnds(w)
  \/ ChildBabbles(w) \/ ChildHangs(w) \/ ChildDies(w)

LEMMA ProcessTyped ==
  ASSUME Typed, NEW w \in Workers, Process(w)
  PROVE  PlacesTyped' /\ DataTyped'
<1> USE DEF poolVars, workVars, procVars, pipeVars, taskVars, history
<1>1. PlacesTyped /\ DataTyped
  BY PlacesFacts, TypedFacts
<1>2. at' = at
  BY DEF Process, ChildInit, ChildReads, ChildAnswers, ChildEnds, ChildBabbles,
         ChildHangs, ChildDies
<1>3. PlacesTyped'
  BY <1>1, <1>2 DEF PlacesTyped
<1> USE <1>1, <1>3 DEF DataTyped
<1>4. CASE ChildInit(w)
  BY <1>4 DEF ChildInit
<1>5. CASE ChildReads(w)
  BY <1>5 DEF ChildReads
<1>6. CASE ChildAnswers(w)
  BY <1>6 DEF ChildAnswers
<1>7. CASE ChildEnds(w) \/ ChildHangs(w) \/ ChildDies(w)
  BY <1>7 DEF ChildEnds, ChildHangs, ChildDies
<1>8. CASE ChildBabbles(w)
  BY <1>8 DEF ChildBabbles
<1>9. DataTyped'
  BY <1>4, <1>5, <1>6, <1>7, <1>8 DEF Process
<1> QED  BY <1>3, <1>9

(* Controller and clients. *)
Outside ==
  \/ Start \/ Stop \/ StopMaxSize \/ Wait
  \/ \E c \in Clients :
       (\E t \in Tasks : Execute(c, t)) \/ Check(c) \/ WaitReturns(c)

LEMMA NextIs ==
  Next <=> Outside \/ \E w \in Workers : Work(w) \/ Process(w)
BY DEF Next, Outside, Process, Child

LEMMA OutsideTyped ==
  ASSUME Typed, Outside
  PROVE  PlacesTyped' /\ DataTyped'
<1> USE DEF poolVars, workVars, procVars, pipeVars, taskVars, history
<1>1. PlacesTyped /\ DataTyped
  BY PlacesFacts, TypedFacts
<1>2. CASE Start
  <2>1. PlacesTyped'
    BY <1>1, <1>2, ThreadFacts DEF Start, PlacesTyped, Places, WorkerPlaces
  <2> QED  BY <1>1, <1>2, <2>1 DEF Start, DataTyped
<1>3. CASE Stop \/ StopMaxSize \/ Wait
  <2>1. \E place \in Places : Go("controller", place)
    BY <1>3 DEF Stop, StopMaxSize, Wait, Places
  <2>2. PlacesTyped'
    BY <1>1, <2>1, GoTyped, ThreadFacts
  <2> QED  BY <1>1, <1>3, <2>2 DEF Stop, StopMaxSize, Wait, DataTyped
<1>4. ASSUME NEW c \in Clients,
             (\E t \in Tasks : Execute(c, t)) \/ Check(c) \/ WaitReturns(c)
      PROVE  PlacesTyped' /\ DataTyped'
  <2>1. \E place \in Clerks : Go(c, place)
    BY <1>4 DEF Execute, Check, WaitReturns, Clerks
  <2>2. PlacesTyped'
    BY <1>1, <2>1, GoTyped, ThreadFacts
  <2> QED  BY <1>1, <1>4, <2>2 DEF Execute, Check, WaitReturns, DataTyped
<1> QED  BY <1>2, <1>3, <1>4 DEF Outside

(* What a worker does to the pool: it takes a task, or ends.               *)
LEMMA WorkOnPool ==
  ASSUME NEW w \in Workers, Work(w)
  PROVE  /\ UNCHANGED <<stop_, open, accepted, mine>>
         /\ \/ Dequeue(w) /\ started_' = started_
            \/ Ends(w) /\ tasks_' = tasks_
            \/ /\ UNCHANGED <<tasks_, started_>>
               /\ at[w] # "off"
               /\ \E place \in WorkerPlaces \ {"off"} : Go(w, place)
<1> USE DEF poolVars, workVars, procVars, pipeVars, taskVars, history, WorkerPlaces
<1>1. CASE Dequeue(w)
  BY <1>1 DEF Dequeue
<1>2. CASE Ends(w)
  BY <1>2 DEF Ends
<1>3. CASE Leave(w) \/ Decide(w) \/ Signal(w)
  BY <1>3 DEF Leave, Decide, Signal
<1>4. CASE Create(w) \/ CreateThrows(w) \/ Initialized(w) \/ InitializedThrows(w)
  BY <1>4 DEF Create, CreateThrows, Initialized, InitializedThrows
<1>5. CASE Send(w) \/ Received(w) \/ Broken(w) \/ Late(w) \/ CloseProcess(w)
  BY <1>5 DEF Send, Received, Broken, Late, CloseProcess
<1>6. CASE Reap(w) \/ ReapLast(w) \/ Throws(w)
  BY <1>6 DEF Reap, ReapLast, Throws
<1> QED  BY <1>1, <1>2, <1>3, <1>4, <1>5, <1>6 DEF Work

(* A process touches its own pipes only, and the count of its task's runs. *)
LEMMA ProcessOnPool ==
  ASSUME Typed, NEW w \in Workers, Process(w)
  PROVE  /\ UNCHANGED <<poolVars, at, workVars, piped, taskVars, mine, history>>
         /\ Elsewhere(w)
         /\ ChildReads(w) \/ runs' = runs
<1> USE DEF poolVars, workVars, procVars, pipeVars, taskVars, history
<1>1. DataTyped
  BY TypedFacts
<1>2. UNCHANGED <<poolVars, at, workVars, piped, taskVars, mine, history>>
  BY DEF Process, ChildInit, ChildReads, ChildAnswers, ChildEnds, ChildBabbles,
         ChildHangs, ChildDies
<1>3. ChildReads(w) \/ runs' = runs
  BY DEF Process, ChildInit, ChildAnswers, ChildEnds, ChildBabbles, ChildHangs,
         ChildDies
<1>4. \A v \in Workers \ {w} : /\ doing'[v] = doing[v] /\ cmd'[v] = cmd[v]
                               /\ answer'[v] = answer[v] /\ proc'[v] = proc[v]
  BY <1>1 DEF DataTyped, Process, ChildInit, ChildReads, ChildAnswers, ChildEnds,
              ChildBabbles, ChildHangs, ChildDies
<1> QED  BY <1>2, <1>3, <1>4 DEF Elsewhere

LEMMA StepTyped ==
  ASSUME Typed, Counted, [Next]_vars
  PROVE  Typed' /\ Counted'
<1> USE DEF poolVars, workVars, procVars, pipeVars, taskVars, history
<1>1. PlacesTyped /\ DataTyped /\ tasks_ \in Seq(Tasks)
  BY TypedFacts
<1>2. PlacesTyped' /\ DataTyped'
  <2>1. CASE UNCHANGED vars
    BY <1>1, <2>1 DEF vars, PlacesTyped, DataTyped
  <2> QED  BY <2>1, NextIs, WorkTyped, ProcessTyped, OutsideTyped
<1>3. tasks_' \in Seq(Tasks)
  <2>1. ASSUME NEW w \in Workers, Work(w) PROVE tasks_' \in Seq(Tasks)
    <3>1. CASE Dequeue(w)
      BY <3>1, QueueFacts DEF Dequeue
    <3> QED  BY <1>1, <2>1, <3>1, WorkOnPool
  <2>2. ASSUME NEW w \in Workers, Process(w) PROVE tasks_' \in Seq(Tasks)
    BY <1>1, <2>2, ProcessOnPool
  <2>3. ASSUME Outside PROVE tasks_' \in Seq(Tasks)
    <3>1. ASSUME NEW c \in Clients, NEW t \in Tasks, Execute(c, t)
          PROVE  tasks_' \in Seq(Tasks)
      BY <3>1, QueueFacts DEF Execute
    <3> QED  BY <1>1, <2>3, <3>1
             DEF Outside, Start, Stop, StopMaxSize, Wait, Check, WaitReturns
  <2> QED  BY <1>1, <2>1, <2>2, <2>3, NextIs DEF vars
<1>4. ASSUME started_' = started_,
             \A w \in Workers : at[w] = "off" <=> at'[w] = "off"
      PROVE  Counted'
  <2>1. Working' = Working
    BY <1>4 DEF Working
  <2> QED  BY <1>4, <2>1 DEF Counted
<1>5. ASSUME NEW w \in Workers, Work(w) PROVE Counted'
  <2>1. ASSUME NEW place, Go(w, place)
        PROVE  at'[w] = place /\ \A v \in Workers \ {w} : at'[v] = at[v]
    BY <1>1, <2>1, GoFacts, ThreadFacts
  <2>2. CASE Ends(w)
    <3>1. w \in Working /\ Working' = Working \ {w}
      BY <2>1, <2>2 DEF Ends, Working
    <3>2. started_' = Cardinality(Working \ {w})
      BY <2>2, <3>1, WorkersFinite DEF Ends
    <3> QED  BY <3>1, <3>2 DEF Counted
  <2>3. CASE Dequeue(w)
    BY <1>4, <1>5, <2>1, <2>3 DEF Dequeue
  <2>4. CASE UNCHANGED <<tasks_, started_>> /\ ~Ends(w) /\ ~Dequeue(w)
    <3>1. at[w] # "off" /\ \E place \in WorkerPlaces \ {"off"} : Go(w, place)
      BY <1>5, <2>4, WorkOnPool
    <3> QED  BY <1>4, <2>1, <2>4, <3>1
  <2> QED  BY <1>5, <2>2, <2>3, <2>4, WorkOnPool
<1>6. ASSUME NEW w \in Workers, Process(w) PROVE Counted'
  BY <1>4, <1>6, ProcessOnPool
<1>7. ASSUME Outside PROVE Counted'
  <2>1. CASE Start
    <3>1. Working' = Workers
      BY <2>1, ThreadFacts DEF Start, Working
    <3> QED  BY <2>1, <3>1 DEF Start, Counted
  <2>2. CASE Stop \/ StopMaxSize \/ Wait
    BY <1>1, <1>4, <2>2, ThreadFacts DEF Stop, StopMaxSize, Wait, Go, PlacesTyped
  <2>3. ASSUME NEW c \in Clients,
               (\E t \in Tasks : Execute(c, t)) \/ Check(c) \/ WaitReturns(c)
        PROVE  Counted'
    BY <1>1, <1>4, <2>3, ThreadFacts DEF Execute, Check, WaitReturns, Go, PlacesTyped
  <2> QED  BY <1>7, <2>1, <2>2, <2>3 DEF Outside
<1>8. Counted'
  <2>1. CASE UNCHANGED vars
    BY <1>4, <2>1 DEF vars
  <2> QED  BY <2>1, <1>5, <1>6, <1>7, NextIs
<1>9. started_' \in 0 .. Cardinality(Workers)
  <2>1. Cardinality(Workers) \in Nat /\ IsFiniteSet(Workers)
    BY ProcessPoolAssumption, FS_CardinalityType
  <2>2. Working' \in SUBSET Workers
    BY DEF Working
  <2>3. Cardinality(Working') \in Nat /\ Cardinality(Working') <= Cardinality(Workers)
    BY <2>1, <2>2, FS_Subset, FS_CardinalityType
  <2> QED  BY <1>8, <2>1, <2>3 DEF Counted
<1>10. Typed'
  <2>1. TypedFacts'
    BY TypedFacts, PTL
  <2> QED  BY <1>2, <1>3, <1>9, <2>1
<1> QED  BY <1>8, <1>10


-----------------------------------------------------------------------------
LEMMA WorkElsewhere ==
  ASSUME Typed, NEW w \in Workers, Work(w)
  PROVE  Elsewhere(w)
<1> USE DEF poolVars, workVars, procVars, pipeVars, taskVars, history
<1>1. PlacesTyped /\ DataTyped
  BY TypedFacts
<1>2. \A v \in Workers \ {w} : at'[v] = at[v]
  <2>1. \E place \in WorkerPlaces : Go(w, place)
    BY DEF Work, WorkerPlaces, Dequeue, Leave, Decide, Signal, Create, CreateThrows,
           Initialized, InitializedThrows, Send, Received, Broken, Late,
           CloseProcess, Reap, ReapLast, Throws, Ends
  <2> QED  BY <1>1, <2>1, GoFacts, ThreadFacts
<1>3. \A v \in Workers \ {w} : held'[v] = held[v] /\ doing'[v] = doing[v]
  BY <1>1 DEF DataTyped, Work, Dequeue, Leave, Decide, Signal, Create, CreateThrows,
              Initialized, InitializedThrows, Send, Received, Broken, Late,
              CloseProcess, Reap, ReapLast, Throws, Ends
<1>4. \A v \in Workers \ {w} : /\ knows'[v] = knows[v] /\ piped'[v] = piped[v]
                               /\ timedOut'[v] = timedOut[v]
  BY <1>1 DEF DataTyped, Work, Dequeue, Leave, Decide, Signal, Create, CreateThrows,
              Initialized, InitializedThrows, Send, Received, Broken, Late,
              CloseProcess, Reap, ReapLast, Throws, Ends
<1>5. \A v \in Workers \ {w} : cmd'[v] = cmd[v]
  BY <1>1 DEF DataTyped, Work, Dequeue, Leave, Decide, Signal, Create, CreateThrows,
              Initialized, InitializedThrows, Send, Received, Broken, Late,
              CloseProcess, Reap, ReapLast, Throws, Ends
<1>6. \A v \in Workers \ {w} : answer'[v] = answer[v]
  BY <1>1 DEF DataTyped, Work, Dequeue, Leave, Decide, Signal, Create, CreateThrows,
              Initialized, InitializedThrows, Send, Received, Broken, Late, Receives,
              CloseProcess, Reap, ReapLast, Throws, Ends
<1>7. \A v \in Workers \ {w} : \/ proc'[v] = proc[v]
                               \/ proc[v] = "dead" /\ proc'[v] = "reaped"
  BY <1>1 DEF DataTyped, Work, Dequeue, Leave, Decide, Signal, Create, CreateThrows,
              Initialized, InitializedThrows, Send, Received, Broken, Late,
              CloseProcess, Reap, ReapLast, ReapChild, ReapAny, Throws, Ends
<1> QED  BY <1>2, <1>3, <1>4, <1>5, <1>6, <1>7 DEF Elsewhere

(* What each step of a worker makes of its pipes and its child. *)
LEMMA WorkPipe ==
  ASSUME Typed, Hands, Pipes, NEW w \in Workers, Work(w)
  PROVE  Pipe(w)'
<1> USE DEF poolVars, workVars, procVars, pipeVars, taskVars, history
<1>1. PlacesTyped /\ DataTyped /\ w \in Threads
  BY TypedFacts, ThreadFacts
<1>2. Pipe(w) /\ (at[w] \in WithTask <=> held[w] # NoTask)
  BY DEF Pipes, Hands
<1>3. ASSUME NEW place, Go(w, place) PROVE at'[w] = place
  BY <1>1, <1>3, GoFacts
<1>4. held[w] # "INIT" /\ held[w] \notin {"S", "E", "garbage"}
  BY <1>1, ThreadFacts DEF DataTyped, NoTask
<1> USE <1>1, <1>2 DEF DataTyped, Pipe, WithTask, NoTask
<1>5. CASE Dequeue(w)
  BY <1>3, <1>5 DEF Dequeue
<1>6. CASE Leave(w)
  BY <1>3, <1>6 DEF Leave
<1>7. CASE Decide(w)
  BY <1>3, <1>7 DEF Decide
<1>8. CASE Signal(w)
  BY <1>3, <1>8 DEF Signal
<1>9. CASE Create(w)
  BY ZenonT(40), <1>3, <1>9 DEF Create
<1>10. CASE CreateThrows(w)
  BY <1>3, <1>10 DEF CreateThrows
<1>11. CASE Initialized(w)
  BY <1>3, <1>4, <1>11 DEF Initialized, Receives
<1>12. CASE InitializedThrows(w)
  BY <1>3, <1>4, <1>12 DEF InitializedThrows, Receives
<1>13. CASE Send(w)
  BY <1>3, <1>4, <1>13 DEF Send
<1>14. CASE Received(w)
  <2>1. answer[w] \in {held[w], "E"} /\ answer'[w] = NoTask
    BY <1>14 DEF Received, Receives
  <2>2. answer[w] # NoTask /\ at[w] = "sent" /\ at'[w] = "signal"
    BY <1>3, <1>14, <2>1 DEF Received
  <2>3. doing[w] = NoTask /\ cmd[w] = NoTask
    BY <2>1, <2>2
  <2>4. UNCHANGED <<workVars, procVars, cmd, piped>>
    BY <1>14 DEF Received
  <2> QED  BY <2>1, <2>2, <2>3, <2>4
<1>15. CASE Broken(w)
  BY <1>3, <1>4, <1>15 DEF Broken, EndOfFile
<1>16. CASE Late(w)
  BY <1>3, <1>4, <1>16 DEF Late, Expires
<1>17. CASE CloseProcess(w)
  BY ZenonT(40), <1>3, <1>17 DEF CloseProcess
<1>18. CASE Reap(w)
  BY <1>3, <1>18 DEF Reap, ReapChild, ReapAny
<1>19. CASE ReapLast(w)
  BY <1>3, <1>19 DEF ReapLast, ReapChild
<1>20. CASE Throws(w)
  BY <1>3, <1>20 DEF Throws
<1>21. CASE Ends(w)
  BY <1>3, <1>21 DEF Ends
<1> QED  BY <1>5, <1>6, <1>7, <1>8, <1>9, <1>10, <1>11, <1>12, <1>13, <1>14, <1>15,
            <1>16, <1>17, <1>18, <1>19, <1>20, <1>21 DEF Work

(* ... and each step of a child. *)
LEMMA ProcessPipe ==
  ASSUME Typed, Hands, Pipes, NEW w \in Workers, Process(w)
  PROVE  Pipe(w)'
<1> USE DEF poolVars, workVars, procVars, pipeVars, taskVars, history
<1>1. DataTyped /\ Pipe(w) /\ (at[w] \in WithTask <=> held[w] # NoTask)
  BY TypedFacts DEF Pipes, Hands
<1>2. held[w] # "INIT" /\ held[w] \notin {"S", "E", "garbage"}
  BY <1>1, ThreadFacts DEF DataTyped, NoTask
<1>3. "INIT" \notin Tasks /\ NoTask \notin Tasks
  BY ThreadFacts
<1> USE <1>1, <1>2, <1>3 DEF DataTyped, Pipe, WithTask, NoTask
<1>4. CASE ChildInit(w)
  BY <1>4 DEF ChildInit
<1>5. CASE ChildReads(w)
  BY ZenonT(40), <1>5 DEF ChildReads
<1>6. CASE ChildAnswers(w)
  BY <1>6 DEF ChildAnswers
<1>7. CASE ChildEnds(w)
  BY <1>7 DEF ChildEnds
<1>8. CASE ChildBabbles(w)
  BY <1>8 DEF ChildBabbles
<1>9. CASE ChildHangs(w)
  BY <1>9 DEF ChildHangs
<1>10. CASE ChildDies(w)
  BY <1>10 DEF ChildDies
<1> QED  BY <1>4, <1>5, <1>6, <1>7, <1>8, <1>9, <1>10 DEF Process

(* Controller and clients move no worker but from "off". *)
LEMMA OutsideOnPipes ==
  ASSUME Typed, Outside
  PROVE  /\ UNCHANGED <<workVars, procVars, pipeVars, taskVars>>
         /\ UNCHANGED <<over, dropped, orphans>>
         /\ \A w \in Workers : \/ at'[w] = at[w]
                               \/ at[w] = "off" /\ at'[w] = "loop"
<1> USE DEF poolVars, workVars, procVars, pipeVars, taskVars, history
<1>1. PlacesTyped
  BY TypedFacts
<1>2. UNCHANGED <<workVars, procVars, pipeVars, taskVars, over, dropped, orphans>>
  BY DEF Outside, Start, Stop, StopMaxSize, Wait, Execute, Check, WaitReturns
<1>3. \A w \in Workers : at'[w] = at[w] \/ (at[w] = "off" /\ at'[w] = "loop")
  <2>1. CASE Start
    BY <2>1, ThreadFacts DEF Start
  <2>2. CASE Stop \/ StopMaxSize \/ Wait
    BY <1>1, <2>2, ThreadFacts DEF Stop, StopMaxSize, Wait, Go, PlacesTyped
  <2>3. ASSUME NEW c \in Clients,
               (\E t \in Tasks : Execute(c, t)) \/ Check(c) \/ WaitReturns(c)
        PROVE  \A w \in Workers : at'[w] = at[w]
    BY <1>1, <2>3, ThreadFacts DEF Execute, Check, WaitReturns, Go, PlacesTyped
  <2> QED  BY <2>1, <2>2, <2>3 DEF Outside
<1> QED  BY <1>2, <1>3

LEMMA StepPipes ==
  ASSUME Typed, Hands, Pipes, [Next]_vars
  PROVE  Pipes'
<1>1. ASSUME NEW w \in Workers, Work(w) PROVE Pipes'
  BY <1>1, WorkElsewhere, WorkPipe, PipesElsewhere
<1>2. ASSUME NEW w \in Workers, Process(w) PROVE Pipes'
  <2>1. Elsewhere(w)
    BY <1>2, ProcessOnPool
  <2> QED  BY <1>2, <2>1, ProcessPipe, PipesElsewhere
<1>3. CASE Outside
  BY <1>3, OutsideOnPipes DEF Pipes, Pipe, workVars, procVars, pipeVars
<1>4. CASE UNCHANGED vars
  BY <1>4 DEF vars, workVars, procVars, pipeVars, Pipes, Pipe
<1> QED  BY <1>1, <1>2, <1>3, <1>4, NextIs


-----------------------------------------------------------------------------
(* Where the tasks are. *)
LEMMA SameHands ==
  ASSUME Hands,
         UNCHANGED <<held, tasks_, accepted, completed_, over, dropped>>,
         \A w \in Workers : /\ at'[w] \in WithTask <=> at[w] \in WithTask
                            /\ at[w] = "signal" /\ held[w] \in dropped
                                 => at'[w] = "signal"
  PROVE  Hands'
BY DEF Hands, InQueue, InHand

(* A task is let go of by who held it, and is over. *)
LEMMA LetGo ==
  ASSUME Typed, Hands, NEW w \in Workers, at[w] \in WithTask,
         at'[w] \notin WithTask, \A v \in Workers \ {w} : at'[v] = at[v],
         held' = [held EXCEPT ![w] = NoTask],
         UNCHANGED <<tasks_, accepted, dropped>>,
         completed_' \union over' \subseteq completed_ \union over \union {held[w]}
  PROVE  Hands' /\ InQueue' = InQueue /\ InHand' = InHand \ {held[w]}
<1>1. held \in [Workers -> Tasks \union {NoTask}]
  BY TypedFacts DEF DataTyped
<1>2. held'[w] = NoTask /\ \A v \in Workers \ {w} : held'[v] = held[v]
  BY <1>1
<1>3. InQueue' = InQueue
  BY DEF InQueue
<1>4. held[w] # NoTask /\ held[w] \in InHand /\ NoTask \notin InQueue
  <2>1. NoTask \notin Tasks
    BY ThreadFacts
  <2> QED  BY <1>1, <2>1, QueueFacts DEF Hands, InHand
<1>5. InHand' = InHand \ {held[w]}
  BY <1>2, <1>4 DEF InHand, Hands
<1>6. \A v \in Workers : at'[v] \in WithTask <=> held'[v] # NoTask
  BY <1>2 DEF Hands
<1>7. \A u, v \in Workers : held'[v] # NoTask /\ held'[u] = held'[v] => u = v
  BY <1>2 DEF Hands
<1>8. \A v \in Workers : held'[v] \notin InQueue'
  BY <1>2, <1>3, <1>4 DEF Hands
<1>9. \A v \in Workers : held'[v] \in dropped' => at'[v] = "signal"
  <2>1. NoTask \notin dropped
    BY ThreadFacts, TypedFacts DEF Hands, DataTyped
  <2> QED  BY <1>2, <2>1 DEF Hands
<1>10. InQueue' \union InHand' \union completed_' \union over' \union dropped'
         \subseteq accepted'
  BY <1>3, <1>4, <1>5 DEF Hands
<1>11. (InQueue' \union InHand') \intersect (completed_' \union over') = {}
  BY <1>3, <1>4, <1>5 DEF Hands
<1> QED  BY <1>3, <1>5, <1>6, <1>7, <1>8, <1>9, <1>10, <1>11 DEF Hands

(* What is taken from the queue is in it no longer, and in no other hands. *)
LEMMA Taken ==
  ASSUME Typed, Hands, NEW w \in Workers, Dequeue(w)
  PROVE  /\ Head(tasks_) \in InQueue /\ InQueue' = InQueue \ {Head(tasks_)}
         /\ held'[w] = Head(tasks_) /\ at'[w] = "got"
         /\ \A v \in Workers \ {w} : held'[v] = held[v] /\ at'[v] = at[v]
         /\ InHand' = InHand \union {Head(tasks_)}
         /\ Hands'
<1>1. /\ tasks_ \in Seq(Tasks) /\ tasks_ # <<>> /\ tasks_' = Tail(tasks_)
      /\ at[w] = "loop" /\ held' = [held EXCEPT ![w] = Head(tasks_)]
      /\ UNCHANGED <<completed_, accepted, over, dropped>>
  BY TypedFacts DEF Dequeue, taskVars, history
<1>2. /\ tasks_' \in Seq(Tasks)
      /\ DOMAIN tasks_' = 1 .. Len(tasks_) - 1
      /\ DOMAIN tasks_ = 1 .. Len(tasks_)
      /\ Len(tasks_) \in Nat \ {0}
      /\ Head(tasks_) = tasks_[1]
      /\ \A i \in 1 .. Len(tasks_) - 1 : tasks_'[i] = tasks_[i + 1]
  BY <1>1, TakenOff
<1>3. Head(tasks_) \in InQueue /\ InQueue \subseteq Tasks /\ NoTask \notin Tasks
  BY <1>1, QueueFacts, ThreadFacts
<1>4. \A i, j \in DOMAIN tasks_ : tasks_[i] = tasks_[j] => i = j
  BY DEF Hands
<1>5. InQueue' = InQueue \ {Head(tasks_)}
  <2>1. InQueue' \subseteq InQueue \ {Head(tasks_)}
    BY <1>2, <1>4 DEF InQueue
  <2>2. ASSUME NEW i \in DOMAIN tasks_, tasks_[i] # Head(tasks_)
        PROVE  tasks_[i] \in InQueue'
    <3>1. i - 1 \in DOMAIN tasks_' /\ tasks_'[i - 1] = tasks_[i]
      BY <1>2, <2>2
    <3> QED  BY <3>1 DEF InQueue
  <2> QED  BY <2>1, <2>2 DEF InQueue
<1>6. ASSUME NEW i \in DOMAIN tasks_', NEW j \in DOMAIN tasks_',
             tasks_'[i] = tasks_'[j]
      PROVE  i = j
  <2>1. /\ i \in Int /\ j \in Int
        /\ i + 1 \in DOMAIN tasks_ /\ j + 1 \in DOMAIN tasks_
        /\ tasks_[i + 1] = tasks_[j + 1]
    BY <1>2, <1>6
  <2>2. i + 1 = j + 1
    BY <1>4, <2>1
  <2> QED  BY <2>1, <2>2
<1>7. held'[w] = Head(tasks_) /\ \A v \in Workers \ {w} : held'[v] = held[v]
  BY <1>1, TypedFacts DEF DataTyped
<1>8. at'[w] = "got" /\ \A v \in Workers \ {w} : at'[v] = at[v]
  BY TypedFacts, GoFacts, ThreadFacts DEF Dequeue
<1>9. held[w] = NoTask
  BY <1>1 DEF Hands, WithTask
<1>10. InHand' = InHand \union {Head(tasks_)}
  BY <1>3, <1>7, <1>9 DEF InHand
<1>11. Hands'
  <2>1. \A v \in Workers : at'[v] \in WithTask <=> held'[v] # NoTask
    BY <1>3, <1>7, <1>8 DEF Hands, WithTask
  <2>2. \A u, v \in Workers : held'[v] # NoTask /\ held'[u] = held'[v] => u = v
    BY <1>3, <1>7 DEF Hands
  <2>3. \A v \in Workers : held'[v] \notin InQueue'
    BY <1>3, <1>5, <1>7 DEF Hands
  <2>4. InQueue' \union InHand' = InQueue \union InHand
    BY <1>3, <1>5, <1>10
  <2>5. InQueue' \intersect dropped' = {}
    BY <1>1, <1>5 DEF Hands
  <2>6. \A v \in Workers : held'[v] \in dropped' => at'[v] = "signal"
    BY <1>1, <1>3, <1>7, <1>8 DEF Hands
  <2> QED  BY <1>1, <1>6, <2>1, <2>2, <2>3, <2>4, <2>5, <2>6 DEF Hands
<1> QED  BY <1>3, <1>5, <1>7, <1>8, <1>10, <1>11

(* A task that is accepted was nowhere. *)
LEMMA Given ==
  ASSUME Typed, Hands, NEW c \in Clients, NEW t \in Tasks, Execute(c, t)
  PROVE  /\ InQueue' = InQueue \union {t} /\ t \notin InQueue \union InHand
         /\ accepted' = accepted \union {t} /\ t \notin accepted
         /\ Hands'
<1> USE DEF workVars, procVars, pipeVars, taskVars, history
<1>1. /\ UNCHANGED <<held, completed_, over, dropped>> /\ t \notin accepted
      /\ tasks_' = Append(tasks_, t) /\ accepted' = accepted \union {t}
      /\ tasks_ \in Seq(Tasks)
  BY TypedFacts DEF Execute
<1>2. InQueue' = InQueue \union {t} /\ InHand' = InHand
  BY <1>1, QueueFacts DEF InHand
<1>3. /\ DOMAIN tasks_' = 1 .. Len(tasks_) + 1 /\ DOMAIN tasks_ = 1 .. Len(tasks_)
      /\ Len(tasks_) \in Nat
      /\ \A i \in 1 .. Len(tasks_) : tasks_'[i] = tasks_[i]
      /\ tasks_'[Len(tasks_) + 1] = t
  BY <1>1, Appended
<1>4. t \notin InQueue \union InHand \union completed_ \union over \union dropped
  BY <1>1 DEF Hands
<1>5. \A i \in 1 .. Len(tasks_) : tasks_[i] # t
  BY <1>3, <1>4 DEF InQueue
<1>6. \A i, j \in DOMAIN tasks_' : tasks_'[i] = tasks_'[j] => i = j
  BY <1>3, <1>5 DEF Hands
<1>7. \A w \in Workers : at'[w] = at[w]
  BY TypedFacts, GoFacts, ThreadFacts DEF Execute
<1>8. NoTask # t
  BY ThreadFacts
<1>9. \A w \in Workers : held[w] # t
  BY <1>4, <1>8 DEF InHand
<1> QED  BY <1>1, <1>2, <1>4, <1>6, <1>7, <1>9 DEF Hands

(* A worker's step moves a task from hand to hand only where it says so.   *)
LEMMA WorkHands ==
  ASSUME Typed, Hands, NEW w \in Workers, Work(w)
  PROVE  Hands'
<1> USE DEF poolVars, workVars, procVars, pipeVars, taskVars, history
<1>1. PlacesTyped /\ DataTyped /\ w \in Threads
  BY TypedFacts, ThreadFacts
<1>2. ASSUME NEW place, Go(w, place)
      PROVE  at'[w] = place /\ \A v \in Workers \ {w} : at'[v] = at[v]
  BY <1>1, <1>2, GoFacts, ThreadFacts
<1>3. ASSUME UNCHANGED <<held, tasks_, accepted, completed_, over, dropped>>,
             NEW place, Go(w, place), place \in WithTask <=> at[w] \in WithTask,
             at[w] # "signal"
      PROVE  Hands'
  <2>1. \A v \in Workers : /\ at'[v] \in WithTask <=> at[v] \in WithTask
                           /\ at[v] = "signal" /\ held[v] \in dropped
                                => at'[v] = "signal"
    BY <1>2, <1>3
  <2> QED  BY <1>3, <2>1, SameHands
<1>4. CASE Dequeue(w)
  BY <1>4, Taken
<1>5. CASE Leave(w)
  BY <1>3, <1>5 DEF Leave, WithTask
<1>6. CASE Decide(w)
  <2>1. CASE UNCHANGED dropped
    BY <1>3, <1>6, <2>1 DEF Decide, WithTask
  <2>2. CASE dropped' = dropped \union {held[w]} /\ Go(w, "signal")
    <3>1. /\ UNCHANGED <<held, tasks_, accepted, completed_, over>>
          /\ at[w] = "got"
      BY <1>6 DEF Decide
    <3>2. at'[w] = "signal" /\ \A v \in Workers \ {w} : at'[v] = at[v]
      BY <1>2, <2>2
    <3>3. held[w] # NoTask /\ held[w] \in InHand /\ held[w] \notin InQueue
      BY <3>1 DEF Hands, InHand, WithTask
    <3>4. InQueue' = InQueue /\ InHand' = InHand
      BY <3>1 DEF InQueue, InHand
    <3>5. \A v \in Workers : at'[v] \in WithTask <=> held'[v] # NoTask
      BY <3>1, <3>2 DEF Hands, WithTask
    <3>6. \A v \in Workers : held'[v] \in dropped' => at'[v] = "signal"
      BY <2>2, <3>1, <3>2, <3>3 DEF Hands
    <3> QED  BY <2>2, <3>1, <3>3, <3>4, <3>5, <3>6 DEF Hands
  <2> QED  BY <1>6, <2>1, <2>2 DEF Decide
<1>7. CASE Signal(w)
  <2>1. /\ at[w] \in WithTask /\ at'[w] \notin WithTask
        /\ \A v \in Workers \ {w} : at'[v] = at[v]
        /\ held' = [held EXCEPT ![w] = NoTask]
        /\ UNCHANGED <<tasks_, accepted, dropped>>
        /\ completed_' \union over' \subseteq completed_ \union over \union {held[w]}
    BY <1>2, <1>7 DEF Signal, WithTask
  <2> QED  BY <2>1, LetGo
<1>8. CASE Throws(w)
  <2>1. /\ at[w] \in WithTask /\ at'[w] \notin WithTask
        /\ \A v \in Workers \ {w} : at'[v] = at[v]
        /\ held' = [held EXCEPT ![w] = NoTask]
        /\ UNCHANGED <<tasks_, accepted, dropped>>
        /\ completed_' \union over' \subseteq completed_ \union over \union {held[w]}
    BY <1>2, <1>8 DEF Throws, WithTask
  <2> QED  BY <2>1, LetGo
<1>9. CASE Create(w) \/ CreateThrows(w) \/ Initialized(w) \/ InitializedThrows(w)
  BY <1>3, <1>9 DEF Create, CreateThrows, Initialized, InitializedThrows, WithTask
<1>10. CASE Send(w) \/ Received(w) \/ Broken(w) \/ Late(w)
  BY <1>3, <1>10 DEF Send, Received, Broken, Late, WithTask
<1>11. CASE CloseProcess(w) \/ Reap(w)
  BY <1>3, <1>11 DEF CloseProcess, Reap, WithTask
<1>12. CASE ReapLast(w) \/ Ends(w)
  BY <1>3, <1>12 DEF ReapLast, Ends, WithTask
<1> QED  BY <1>4, <1>5, <1>6, <1>7, <1>8, <1>9, <1>10, <1>11, <1>12 DEF Work

LEMMA StepHands ==
  ASSUME Typed, Hands, [Next]_vars
  PROVE  Hands'
<1> USE DEF poolVars, workVars, procVars, pipeVars, taskVars, history
<1>1. ASSUME NEW w \in Workers, Process(w) PROVE Hands'
  BY <1>1, ProcessOnPool, SameHands
<1>2. CASE Outside
  <2>1. ASSUME UNCHANGED <<tasks_, accepted>> PROVE Hands'
    BY <1>2, <2>1, OutsideOnPipes, SameHands DEF WithTask
  <2> QED  BY <1>2, <2>1, Given
           DEF Outside, Start, Stop, StopMaxSize, Wait, Check, WaitReturns
<1>3. CASE UNCHANGED vars
  BY <1>3, SameHands DEF vars
<1> QED  BY <1>1, <1>2, <1>3, WorkHands, NextIs


-----------------------------------------------------------------------------
(* A task is executed once.  The step of a worker that has sent its task   *)
(* or has none to send puts no task where a child may read it.             *)
ToRead(w) == held[w] # NoTask /\ (at[w] \in Unsent \/ cmd[w] = held[w])

LEMMA SameRuns ==
  ASSUME RunsOnce, UNCHANGED runs, InQueue' \subseteq InQueue,
         \A t \in Tasks : t \notin accepted' => t \notin accepted,
         \A w \in Workers : ToRead(w)' => /\ held'[w] \in Tasks
                                          /\ \/ ToRead(w) /\ held'[w] = held[w]
                                             \/ held'[w] \in InQueue
  PROVE  RunsOnce'
BY DEF RunsOnce, ToRead

LEMMA WorkRuns ==
  ASSUME Typed, Hands, Pipes, RunsOnce, NEW w \in Workers, Work(w)
  PROVE  RunsOnce'
<1> USE DEF poolVars, workVars, procVars, pipeVars, taskVars, history
<1>1. PlacesTyped /\ DataTyped /\ w \in Threads
  BY TypedFacts, ThreadFacts
<1>2. Elsewhere(w) /\ accepted' = accepted
  BY WorkElsewhere, WorkOnPool
<1>3. runs' = runs
  BY DEF Work, Dequeue, Leave, Decide, Signal, Create, CreateThrows, Initialized,
         InitializedThrows, Send, Received, Broken, Late, CloseProcess, Reap, ReapLast,
         Throws, Ends
<1>4. ASSUME NEW place, Go(w, place) PROVE at'[w] = place
  BY <1>1, <1>4, GoFacts
<1>5. held[w] \in Tasks \union {NoTask} /\ held[w] # "INIT" /\ NoTask \notin Tasks
  BY <1>1, ThreadFacts DEF DataTyped, NoTask
<1>6. Pipe(w) /\ DataTyped'
  BY WorkTyped DEF Pipes
<1>7. InQueue' \subseteq InQueue
  <2>1. CASE Dequeue(w)
    BY <2>1, Taken
  <2>2. CASE UNCHANGED tasks_
    BY <2>2 DEF InQueue
  <2> QED  BY <2>1, <2>2, WorkOnPool
<1>8. ASSUME ToRead(w)'
      PROVE  \/ ToRead(w) /\ held'[w] = held[w]
             \/ held'[w] \in InQueue
  <2> USE <1>8 DEF ToRead, Unsent
  <2>1. CASE Dequeue(w)
    BY <2>1, Taken
  <2>2. CASE Leave(w) \/ CreateThrows(w) \/ Ends(w)
    BY <1>4, <1>5, <1>6, <2>2 DEF Leave, CreateThrows, Ends, DataTyped, Pipe, NoTask
  <2>3. CASE Decide(w)
    BY <2>3 DEF Decide
  <2>4. CASE Signal(w) \/ Throws(w)
    BY <1>1, <2>4 DEF Signal, Throws, DataTyped
  <2>5. CASE Create(w)
    BY <2>5 DEF Create
  <2>6. CASE Initialized(w)
    BY <2>6 DEF Initialized
  <2>7. CASE InitializedThrows(w)
    BY <1>4, <2>7 DEF InitializedThrows
  <2>8. CASE Send(w)
    BY <2>8 DEF Send
  <2>9. CASE Received(w) \/ Broken(w) \/ Late(w)
    BY <1>4, <2>9 DEF Received, Broken, Late
  <2>10. CASE CloseProcess(w)
    BY <1>1, <1>4, <2>10 DEF CloseProcess, DataTyped
  <2>11. CASE Reap(w)
    BY <1>4, <2>11 DEF Reap
  <2>12. CASE ReapLast(w)
    BY <1>4, <2>12 DEF ReapLast
  <2> QED  BY <2>1, <2>2, <2>3, <2>4, <2>5, <2>6, <2>7, <2>8, <2>9, <2>10, <2>11,
              <2>12 DEF Work
<1>9. \A v \in Workers \ {w} : ToRead(v)' => ToRead(v) /\ held'[v] = held[v]
  BY <1>2 DEF Elsewhere, ToRead
<1>10. \A v \in Workers : ToRead(v)' => held'[v] \in Tasks
  BY <1>6 DEF DataTyped, ToRead
<1> QED  BY <1>2, <1>3, <1>7, <1>8, <1>9, <1>10, SameRuns

LEMMA ProcessRuns ==
  ASSUME Typed, Hands, Pipes, RunsOnce, NEW w \in Workers, Process(w)
  PROVE  RunsOnce'
<1> USE DEF poolVars, workVars, procVars, pipeVars, taskVars, history
<1>1. DataTyped /\ Pipe(w)
  BY TypedFacts DEF Pipes
<1>2. /\ UNCHANGED <<at, held, accepted, tasks_>> /\ Elsewhere(w)
      /\ ChildReads(w) \/ runs' = runs
  BY ProcessOnPool
<1>3. InQueue' = InQueue
  BY <1>2 DEF InQueue
<1>4. cmd'[w] = cmd[w] \/ cmd'[w] = NoTask
  BY <1>1 DEF DataTyped, Process, ChildInit, ChildReads, ChildAnswers, ChildEnds,
              ChildBabbles, ChildHangs, ChildDies
<1>5. \A v \in Workers : ToRead(v)' => ToRead(v) /\ held'[v] = held[v]
  BY <1>2, <1>4 DEF Elsewhere, ToRead
<1>6. \A v \in Workers : ToRead(v) => held[v] \in Tasks
  BY <1>1 DEF DataTyped, ToRead
<1>7. CASE runs' = runs
  BY <1>2, <1>3, <1>5, <1>6, <1>7, SameRuns
<1>8. CASE ChildReads(w)
  <2>1. /\ cmd[w] \in Tasks /\ runs' = [runs EXCEPT ![cmd[w]] = @ + 1]
        /\ cmd'[w] = NoTask
    BY <1>1, <1>8 DEF ChildReads, DataTyped
  <2>2. cmd[w] = held[w] /\ held[w] # NoTask /\ at[w] \in {"sent", "close"}
    BY <1>1, <2>1, ThreadFacts DEF Pipe, NoTask
  <2>3. runs[held[w]] = 0
    BY <2>2 DEF RunsOnce
  <2>4. runs'[held[w]] = 1 /\ \A t \in Tasks \ {held[w]} : runs'[t] = runs[t]
    BY <1>1, <2>1, <2>2, <2>3 DEF DataTyped
  <2>5. held[w] \in accepted /\ held[w] \notin InQueue
    BY <2>2 DEF Hands, InHand
  <2>6. ~ToRead(w)'
    BY <1>2, <2>1, <2>2 DEF ToRead, Unsent
  <2>7. \A v \in Workers \ {w} : ToRead(v) => held[v] # held[w]
    BY <2>2 DEF Hands, ToRead
  <2>8. \A v \in Workers : ToRead(v)' => runs'[held'[v]] = 0
    BY <1>5, <1>6, <2>4, <2>6, <2>7 DEF RunsOnce, ToRead
  <2>9. \A t \in Tasks : /\ runs'[t] \in {0, 1}
                         /\ t \notin accepted' \/ t \in InQueue' => runs'[t] = 0
    BY <1>2, <1>3, <2>4, <2>5 DEF RunsOnce
  <2> QED  BY <2>8, <2>9 DEF RunsOnce, ToRead
<1> QED  BY <1>2, <1>7, <1>8

LEMMA StepRunsOnce ==
  ASSUME Typed, Hands, Pipes, RunsOnce, [Next]_vars
  PROVE  RunsOnce'
<1> USE DEF poolVars, workVars, procVars, pipeVars, taskVars, history
<1>1. CASE Outside
  <2>1. /\ UNCHANGED <<held, cmd, runs>>
        /\ \A w \in Workers : at'[w] = at[w] \/ (at[w] = "off" /\ at'[w] = "loop")
    BY <1>1, OutsideOnPipes
  <2>2. \A w \in Workers : ToRead(w)' => ToRead(w) /\ held'[w] = held[w]
    BY <2>1 DEF ToRead, Unsent
  <2>3. \A w \in Workers : ToRead(w) => held[w] \in Tasks
    BY TypedFacts DEF DataTyped, ToRead
  <2>4. ASSUME UNCHANGED <<tasks_, accepted>> PROVE RunsOnce'
    <3>1. InQueue' = InQueue
      BY <2>4 DEF InQueue
    <3> QED  BY <2>1, <2>2, <2>3, <2>4, <3>1, SameRuns
  <2>5. ASSUME NEW c \in Clients, NEW t \in Tasks, Execute(c, t) PROVE RunsOnce'
    <3>1. /\ InQueue' = InQueue \union {t} /\ t \notin accepted
          /\ accepted' = accepted \union {t}
      BY <2>5, Given
    <3>2. \A u \in Tasks : /\ runs'[u] \in {0, 1}
                           /\ u \notin accepted' \/ u \in InQueue' => runs'[u] = 0
      BY <2>1, <3>1 DEF RunsOnce
    <3>3. \A w \in Workers : ToRead(w)' => runs'[held'[w]] = 0
      BY <2>1, <2>2 DEF RunsOnce, ToRead
    <3> QED  BY <3>2, <3>3 DEF RunsOnce, ToRead
  <2> QED  BY <1>1, <2>4, <2>5
           DEF Outside, Start, Stop, StopMaxSize, Wait, Check, WaitReturns
<1>2. CASE UNCHANGED vars
  BY <1>2 DEF vars, RunsOnce, InQueue
<1> QED  BY <1>1, <1>2, WorkRuns, ProcessRuns, NextIs

-----------------------------------------------------------------------------
(* What a task says is changed only by the worker that holds it.           *)
LEMMA SameResults ==
  ASSUME Hands, Results, UNCHANGED <<result, completed_>>,
         \A w \in Workers :
           at'[w] \in {"close", "reap", "signal"} =>
             /\ at[w] \in {"close", "reap", "signal"}
             /\ held'[w] = held[w]
  PROVE  Results'
BY DEF Results, Final

(* A worker with its task fails it, or leaves the result it has.           *)
LEMMA OwnResult ==
  ASSUME Typed, Hands, Results, NEW w \in Workers, at[w] \in WithTask,
         NEW what \in Final(held[w]), Fails(held[w], what),
         UNCHANGED <<held, completed_>>,
         \A v \in Workers \ {w} : at'[v] = at[v]
  PROVE  Results'
<1>1. held[w] \in Tasks /\ result \in [Tasks -> Tasks \union Words]
  BY TypedFacts DEF DataTyped, Hands
<1>2. /\ result'[held[w]] \in Final(held[w])
      /\ \A t \in Tasks \ {held[w]} : result'[t] = result[t]
  BY <1>1 DEF Fails
<1>3. completed_ \subseteq Tasks /\ held[w] \notin completed_
  BY <1>1, TypedFacts DEF Hands, InHand, DataTyped
<1>4. \A v \in Workers \ {w} : at[v] \in WithTask => held[v] \in Tasks \ {held[w]}
  BY <1>1, TypedFacts DEF Hands, DataTyped
<1>5. \A t \in completed_' : result'[t] \in Final(t)
  BY <1>2, <1>3 DEF Results
<1>6. \A v \in Workers :
        at'[v] \in {"close", "reap", "signal"} => result'[held'[v]] \in Final(held'[v])
  BY <1>2, <1>4 DEF Results, WithTask
<1> QED  BY <1>5, <1>6 DEF Results

LEMMA WorkResults ==
  ASSUME Typed, Hands, Pipes, Results, NEW w \in Workers, Work(w)
  PROVE  Results'
<1> USE DEF poolVars, workVars, procVars, pipeVars, taskVars, history
<1>1. PlacesTyped /\ DataTyped /\ w \in Threads
  BY TypedFacts, ThreadFacts
<1>2. Elsewhere(w)
  BY WorkElsewhere
<1>3. ASSUME NEW place, Go(w, place) PROVE at'[w] = place
  BY <1>1, <1>3, GoFacts
<1>4. ASSUME UNCHANGED <<result, completed_>>,
             \/ at'[w] \notin {"close", "reap", "signal"}
             \/ at[w] \in {"close", "reap", "signal"} /\ held'[w] = held[w]
      PROVE  Results'
  BY <1>2, <1>4, SameResults DEF Elsewhere
<1>5. ASSUME at[w] \in WithTask, UNCHANGED <<held, completed_>>,
             NEW what \in Final(held[w]), Fails(held[w], what)
      PROVE  Results'
  BY <1>2, <1>5, OwnResult DEF Elsewhere
<1>6. CASE Dequeue(w)
  BY <1>3, <1>4, <1>6 DEF Dequeue
<1>7. CASE Leave(w) \/ CreateThrows(w) \/ InitializedThrows(w)
  BY <1>3, <1>4, <1>7 DEF Leave, CreateThrows, InitializedThrows
<1>8. CASE Decide(w)
  BY <1>3, <1>4, <1>5, <1>8 DEF Decide, Final, WithTask
<1>9. CASE Signal(w)
  <2>1. /\ at[w] = "signal" /\ at'[w] = "loop" /\ result' = result
        /\ completed_' = completed_ \union {held[w]}
    BY <1>3, <1>9 DEF Signal
  <2>2. \A t \in completed_' : result'[t] \in Final(t)
    BY <2>1 DEF Results
  <2>3. \A v \in Workers :
          at'[v] \in {"close", "reap", "signal"} =>
            result'[held'[v]] \in Final(held'[v])
    BY <1>2, <2>1 DEF Results, Elsewhere
  <2> QED  BY <2>2, <2>3 DEF Results
<1>10. CASE Create(w)
  <2>1. CASE UNCHANGED result /\ Go(w, "init")
    BY <1>3, <1>4, <1>10, <2>1 DEF Create
  <2>2. CASE Fails(held[w], "broken")
    BY <1>5, <1>10, <2>2 DEF Create, Final, WithTask
  <2> QED  BY <1>10, <2>1, <2>2 DEF Create
<1>11. CASE Initialized(w)
  <2>1. CASE UNCHANGED result /\ Go(w, "send")
    BY <1>3, <1>4, <1>11, <2>1 DEF Initialized
  <2>2. CASE Fails(held[w], "broken")
    BY <1>5, <1>11, <2>2 DEF Initialized, Final, WithTask
  <2> QED  BY <1>11, <2>1, <2>2 DEF Initialized
<1>12. CASE Send(w)
  <2>1. CASE UNCHANGED result /\ Go(w, "sent")
    BY <1>3, <1>4, <1>12, <2>1 DEF Send
  <2>2. CASE Fails(held[w], "broken")
    BY <1>5, <1>12, <2>2 DEF Send, Final, WithTask
  <2> QED  BY <1>12, <2>1, <2>2 DEF Send
<1>13. CASE Received(w)
  <2>1. PICK what \in {held[w], "E"} : Fails(held[w], what)
    BY <1>13 DEF Received
  <2>2. what \in Final(held[w])
    BY DEF Final
  <2> QED  BY <1>5, <1>13, <2>1, <2>2 DEF Received, WithTask
<1>14. CASE Broken(w)
  BY <1>5, <1>14 DEF Broken, Final, WithTask
<1>15. CASE Late(w)
  BY <1>5, <1>15 DEF Late, Final, WithTask
<1>16. CASE CloseProcess(w)
  BY <1>3, <1>4, <1>16 DEF CloseProcess
<1>17. CASE Reap(w)
  BY <1>3, <1>4, <1>17 DEF Reap
<1>18. CASE ReapLast(w) \/ Throws(w) \/ Ends(w)
  BY <1>3, <1>4, <1>18 DEF ReapLast, Throws, Ends
<1> QED  BY <1>6, <1>7, <1>8, <1>9, <1>10, <1>11, <1>12, <1>13, <1>14, <1>15, <1>16,
            <1>17, <1>18 DEF Work

LEMMA StepResults ==
  ASSUME Typed, Hands, Pipes, Results, [Next]_vars
  PROVE  Results'
<1> USE DEF poolVars, workVars, procVars, pipeVars, taskVars, history
<1>1. ASSUME NEW w \in Workers, Process(w) PROVE Results'
  BY <1>1, ProcessOnPool, SameResults
<1>2. CASE Outside
  BY <1>2, OutsideOnPipes, SameResults
<1>3. CASE UNCHANGED vars
  BY <1>3, SameResults DEF vars
<1> QED  BY <1>1, <1>2, <1>3, WorkResults, NextIs


-----------------------------------------------------------------------------
(* The invariant holds in every reachable state: who has which task, what  *)
(* is in the pipes between a worker and its child, which tasks have been   *)
(* executed and what their results say.                                    *)
THEOREM Invariance == Spec => []IInv
<1>1. Init => IInv
  BY InitIInv
<1>2. IInv /\ [Next]_vars => IInv'
  BY StepTyped, StepHands, StepPipes, StepRunsOnce, StepResults DEF IInv
<1> QED  BY <1>1, <1>2, PTL DEF Spec

(* A child executes a task at most once, whatever dies, hangs or babbles:  *)
(* ProcessPool::run sends a task once and makes no second attempt with     *)
(* another child.  When it signals a task's completion no child executes   *)
(* it any more, so that no late answer or garbage can reach its client.    *)
THEOREM CompletedTasksAreFinal == Spec => []CompletedIsFinal
<1>1. ASSUME IInv PROVE CompletedIsFinal
  <2>1. TypeOK
    BY <1>1 DEF IInv, Typed
  <2>2. \A t \in Tasks : runs[t] <= 1
    BY <1>1 DEF IInv, RunsOnce
  <2>3. ASSUME NEW t \in completed_, NEW w \in Workers PROVE doing[w] # t
    <3>1. doing[w] # NoTask => doing[w] = held[w]
      BY <1>1 DEF IInv, Pipes, Pipe
    <3>2. held[w] # NoTask => held[w] # t
      BY <1>1 DEF IInv, Hands, InHand
    <3>3. t # NoTask
      BY <1>1, ThreadFacts DEF IInv, Hands, Typed
    <3> QED  BY <3>1, <3>2, <3>3
  <2>4. \A t \in completed_ : result[t] \in {t, "E", "broken", "timeout", "dropped"}
    BY <1>1 DEF IInv, Results, Final
  <2> QED  BY <2>1, <2>2, <2>3, <2>4 DEF CompletedIsFinal
<1> QED  BY <1>1, Invariance, PTL

-----------------------------------------------------------------------------
(* The pool keeps the promise of TaskPool. *)
LEMMA PromiseFolded ==
  ASSUME NEW t
  PROVE  /\ Promise!Accept(t) <=>
              /\ t \notin accepted /\ accepted' = accepted \union {t}
              /\ InQueue' = InQueue \union {t} /\ stop_' = stop_
              /\ (InHand \ dropped)' = InHand \ dropped
              /\ over' = over /\ dropped' = dropped
         /\ Promise!Take(t) <=>
              /\ t \in InQueue /\ InQueue' = InQueue \ {t}
              /\ (InHand \ dropped)' = (InHand \ dropped) \union {t}
              /\ stop_' = stop_ /\ accepted' = accepted
              /\ over' = over /\ dropped' = dropped
         /\ Promise!Finish(t) <=>
              /\ t \in InHand \ dropped
              /\ (InHand \ dropped)' = (InHand \ dropped) \ {t}
              /\ over' = over \union {t} /\ stop_' = stop_
              /\ accepted' = accepted /\ InQueue' = InQueue /\ dropped' = dropped
         /\ Promise!Drop(t) <=>
              /\ t \in (InHand \ dropped) \ Required /\ stop_
              /\ (InHand \ dropped)' = (InHand \ dropped) \ {t}
              /\ dropped' = dropped \union {t} /\ stop_' = stop_
              /\ accepted' = accepted /\ InQueue' = InQueue /\ over' = over
BY DEF Promise!Accept, Promise!Take, Promise!Finish, Promise!Drop, InQueue, InHand

(* A step that moves no task. *)
LEMMA PromiseStutters ==
  ASSUME UNCHANGED <<tasks_, held, stop_, accepted, over, dropped>>
  PROVE  UNCHANGED Promise!vars
BY DEF Promise!vars, InQueue, InHand

LEMMA WorkImplements ==
  ASSUME IInv, NEW w \in Workers, Work(w)
  PROVE  [Promise!Next]_(Promise!vars)
<1> USE DEF poolVars, workVars, procVars, pipeVars, taskVars, history
<1>1. Typed /\ Hands /\ PlacesTyped /\ w \in Threads
  BY TypedFacts, ThreadFacts DEF IInv
<1>2. ASSUME NEW place, Go(w, place)
      PROVE  at'[w] = place /\ \A v \in Workers \ {w} : at'[v] = at[v]
  BY <1>1, <1>2, GoFacts, ThreadFacts
<1>3. ASSUME at[w] \in WithTask
      PROVE  /\ held[w] \in InHand /\ held[w] \in Tasks
  BY <1>1, <1>3, TypedFacts DEF Hands, InHand, DataTyped
<1>4. CASE Dequeue(w)
  <2>1. /\ Head(tasks_) \in InQueue /\ InQueue' = InQueue \ {Head(tasks_)}
        /\ InHand' = InHand \union {Head(tasks_)}
    BY <1>1, <1>4, Taken
  <2>2. Head(tasks_) \in Tasks /\ Head(tasks_) \notin dropped
    BY <1>1, <2>1, QueueFacts DEF Hands
  <2>3. UNCHANGED <<stop_, accepted, over, dropped>>
    BY <1>4 DEF Dequeue
  <2>4. PICK t \in Tasks : t = Head(tasks_)
    BY <2>2
  <2>5. Promise!Take(t)
    BY <2>1, <2>2, <2>3, <2>4, PromiseFolded
  <2> QED  BY <2>5 DEF Promise!Next
<1>5. CASE Decide(w)
  <2>1. CASE UNCHANGED dropped
    BY <1>5, <2>1, PromiseStutters DEF Decide
  <2>2. CASE /\ held[w] \notin Required /\ stop_
             /\ dropped' = dropped \union {held[w]}
    <3>1. /\ at[w] = "got"
          /\ UNCHANGED <<tasks_, held, stop_, accepted, over>>
      BY <1>5 DEF Decide
    <3>2. InQueue' = InQueue /\ InHand' = InHand
      BY <3>1 DEF InQueue, InHand
    <3>3. held[w] \notin dropped
      BY <1>1, <3>1 DEF Hands
    <3>4. PICK t \in Tasks : t = held[w] /\ t \in InHand
      BY <1>3, <3>1 DEF WithTask
    <3>5. Promise!Drop(t)
      BY <2>2, <3>1, <3>2, <3>3, <3>4, PromiseFolded
    <3> QED  BY <3>5 DEF Promise!Next
  <2> QED  BY <1>5, <2>1, <2>2 DEF Decide
<1>6. CASE Signal(w) \/ Throws(w)
  <2>1. /\ at[w] \in WithTask /\ at'[w] \notin WithTask
        /\ \A v \in Workers \ {w} : at'[v] = at[v]
        /\ held' = [held EXCEPT ![w] = NoTask]
        /\ UNCHANGED <<tasks_, accepted, dropped, stop_>>
        /\ completed_' \union over' \subseteq completed_ \union over \union {held[w]}
    BY <1>2, <1>6 DEF Signal, Throws, WithTask
  <2>2. InQueue' = InQueue /\ InHand' = InHand \ {held[w]}
    BY <1>1, <2>1, LetGo
  <2>3. PICK t \in Tasks : t = held[w] /\ t \in InHand
    BY <1>3, <2>1
  <2>4. CASE t \in dropped
    <3>1. over' = over
      BY SMTT(30), <1>1, <1>6, <2>3, <2>4 DEF Signal, Throws, Hands
    <3>2. (InHand \ dropped)' = InHand \ dropped
      BY <2>1, <2>2, <2>3, <2>4
    <3> QED  BY <2>1, <2>2, <3>1, <3>2 DEF Promise!vars, InQueue, InHand
  <2>5. CASE t \notin dropped
    <3>1. over' = over \union {t}
      BY <1>6, <2>3, <2>5 DEF Signal, Throws
    <3>2. Promise!Finish(t)
      BY <2>1, <2>2, <2>3, <2>5, <3>1, PromiseFolded
    <3> QED  BY <3>2 DEF Promise!Next
  <2> QED  BY <2>4, <2>5
<1>7. CASE Leave(w) \/ Create(w) \/ CreateThrows(w)
  BY <1>7, PromiseStutters DEF Leave, Create, CreateThrows
<1>8. CASE Initialized(w) \/ InitializedThrows(w) \/ Send(w)
  BY <1>8, PromiseStutters DEF Initialized, InitializedThrows, Send
<1>9. CASE Received(w) \/ Broken(w) \/ Late(w) \/ CloseProcess(w)
  BY <1>9, PromiseStutters DEF Received, Broken, Late, CloseProcess
<1>10. CASE Reap(w) \/ ReapLast(w) \/ Ends(w)
  BY <1>10, PromiseStutters DEF Reap, ReapLast, Ends
<1> QED  BY <1>4, <1>5, <1>6, <1>7, <1>8, <1>9, <1>10 DEF Work

LEMMA OutsideImplements ==
  ASSUME IInv, Outside
  PROVE  [Promise!Next]_(Promise!vars)
<1> USE DEF poolVars, workVars, procVars, pipeVars, taskVars, history
<1>1. CASE Start \/ Stop
  <2>1. /\ UNCHANGED <<tasks_, held, accepted, over, dropped>>
        /\ stop_ \in BOOLEAN /\ stop_' \in BOOLEAN
    BY <1>1, TypedFacts DEF Start, Stop, IInv, DataTyped
  <2>2. InQueue' = InQueue /\ (InHand \ dropped)' = InHand \ dropped
    BY <2>1 DEF InQueue, InHand
  <2>3. CASE stop_' = stop_
    BY <2>1, <2>3, PromiseStutters
  <2>4. CASE stop_' # stop_
    <3>1. Promise!Switch
      BY <2>1, <2>2, <2>4 DEF Promise!Switch, InQueue, InHand
    <3> QED  BY <3>1 DEF Promise!Next
  <2> QED  BY <2>3, <2>4
<1>2. CASE StopMaxSize \/ Wait
  BY <1>2, PromiseStutters DEF StopMaxSize, Wait
<1>3. ASSUME NEW c \in Clients, Check(c) \/ WaitReturns(c)
      PROVE  [Promise!Next]_(Promise!vars)
  BY <1>3, PromiseStutters DEF Check, WaitReturns
<1>4. ASSUME NEW c \in Clients, NEW t \in Tasks, Execute(c, t)
      PROVE  [Promise!Next]_(Promise!vars)
  <2>1. /\ InQueue' = InQueue \union {t} /\ accepted' = accepted \union {t}
        /\ t \notin accepted
    BY <1>4, Given DEF IInv
  <2>2. UNCHANGED <<held, stop_, over, dropped>>
    BY <1>4 DEF Execute
  <2>3. (InHand \ dropped)' = InHand \ dropped
    BY <2>2 DEF InHand
  <2>4. Promise!Accept(t)
    BY <2>1, <2>2, <2>3, PromiseFolded
  <2> QED  BY <2>4 DEF Promise!Next
<1> QED  BY <1>1, <1>2, <1>3, <1>4 DEF Outside

(* A pool of processes treats its tasks as a pool is to: each is taken     *)
(* once, ends once, and is dropped only when it is not required and the    *)
(* pool is stopped, whatever becomes of the processes.                     *)
THEOREM ProcessPoolImplementsTaskPool == Spec => ImplementsTaskPool
<1>1. Init => Promise!Init
  BY DEF Init, Promise!Init, InQueue, InHand
<1>2. IInv /\ [Next]_vars => [Promise!Next]_(Promise!vars)
  <2> SUFFICES ASSUME IInv, [Next]_vars PROVE [Promise!Next]_(Promise!vars)
    OBVIOUS
  <2>1. ASSUME NEW w \in Workers, Process(w) PROVE UNCHANGED Promise!vars
    <3>1. UNCHANGED <<poolVars, workVars, history>>
      BY <2>1, ProcessOnPool DEF IInv
    <3> QED  BY <3>1, PromiseStutters DEF poolVars, workVars, history
  <2>2. CASE UNCHANGED vars
    BY <2>2, PromiseStutters DEF vars, poolVars, workVars, history
  <2> QED  BY <2>1, <2>2, WorkImplements, OutsideImplements, NextIs
<1> QED  BY <1>1, <1>2, Invariance, PTL DEF Spec, ImplementsTaskPool, Promise!Spec

(* What follows from the promise.                                          *)
LEMMA PromiseKeeps ==
  ASSUME Promise!NoneLost, [Promise!Next]_(Promise!vars)
  PROVE  Promise!NoneLost' /\ Promise!TakenOnce
<1> USE DEF Promise!NoneLost, Promise!TakenOnce
<1>1. CASE UNCHANGED Promise!vars
  BY <1>1 DEF Promise!vars
<1>2. ASSUME NEW t, Promise!Accept(t) PROVE Promise!NoneLost' /\ Promise!TakenOnce
  BY <1>2 DEF Promise!Accept
<1>3. ASSUME NEW t, Promise!Take(t) PROVE Promise!NoneLost' /\ Promise!TakenOnce
  BY <1>3 DEF Promise!Take
<1>4. ASSUME NEW t, Promise!Finish(t) PROVE Promise!NoneLost' /\ Promise!TakenOnce
  BY <1>4 DEF Promise!Finish
<1>5. ASSUME NEW t, Promise!Drop(t) PROVE Promise!NoneLost' /\ Promise!TakenOnce
  BY <1>5 DEF Promise!Drop
<1>6. CASE Promise!Switch
  BY <1>6 DEF Promise!Switch
<1> QED  BY <1>1, <1>2, <1>3, <1>4, <1>5, <1>6 DEF Promise!Next

(* A pool of processes loses no task, takes none twice, and drops none     *)
(* that is required, however children die, hang or answer late             *)
(* (ProcessPool::Thread::run): a task whose child was killed is over, and  *)
(* no other worker takes it.                                               *)
THEOREM TasksAreKept ==
  Spec => []Promise!NoneLost /\ [][Promise!TakenOnce]_(Promise!vars)
<1>1. Promise!Init => Promise!NoneLost
  BY DEF Promise!Init, Promise!NoneLost
<1>2. Promise!Spec => []Promise!NoneLost /\ [][Promise!TakenOnce]_(Promise!vars)
  BY <1>1, PromiseKeeps, PTL DEF Promise!Spec
<1> QED  BY <1>2, ProcessPoolImplementsTaskPool DEF ImplementsTaskPool


-----------------------------------------------------------------------------
(* What a pool leaves behind.  Children nobody calls back about and that   *)
(* write no garbage are calm; if pipe() does not fail either, no worker is *)
(* ended by an exception.                                                  *)
Calm == Faults \intersect {"callback", "garbage"} = {}
Quiet == Calm /\ "pipe" \notin Faults

Tidy(w) ==
  /\ at[w] \in {"ends", "off"} => knows[w] = "none" /\ ~piped[w]
  /\ at[w] = "throw" => /\ knows[w] = "none" /\ ~Quiet
                        /\ Calm => proc[w] = "none"
  /\ answer[w] = "garbage" => "garbage" \in Faults

Tidiness == \A w \in Workers : Tidy(w)

(* Only an exception, and only of some kinds, leaves what it had.          *)
Answered ==
  /\ dropped \subseteq completed_ \union InHand
  /\ Quiet => over \subseteq completed_
  /\ Calm => orphans = 0

LEMMA TidyElsewhere ==
  ASSUME Tidiness, NEW w \in Workers, Elsewhere(w), Tidy(w)'
  PROVE  Tidiness'
<1> SUFFICES ASSUME NEW v \in Workers \ {w} PROVE Tidy(v)'
  BY DEF Tidiness
<1>1. Tidy(v)
  BY DEF Tidiness
<1> QED  BY <1>1 DEF Elsewhere, Tidy, Calm, Quiet

LEMMA WorkTidy ==
  ASSUME Typed, Pipes, Tidiness, NEW w \in Workers, Work(w)
  PROVE  Tidy(w)'
<1> USE DEF poolVars, workVars, procVars, pipeVars, taskVars, history, Tidy, Quiet
<1>1. PlacesTyped /\ DataTyped /\ w \in Threads
  BY PlacesFacts, TypedFacts, ThreadFacts
<1>2. Tidy(w) /\ Pipe(w)
  BY DEF Tidiness, Pipes
<1>3. ASSUME NEW place, Go(w, place) PROVE at'[w] = place
  BY <1>1, <1>3, GoFacts
<1>4. CASE Dequeue(w) \/ Leave(w) \/ Decide(w) \/ Signal(w)
  BY <1>2, <1>3, <1>4 DEF Dequeue, Leave, Decide, Signal
<1>5. CASE Create(w) \/ Initialized(w) \/ Send(w)
  BY <1>1, <1>2, <1>3, <1>5 DEF Create, Initialized, Send, Receives, DataTyped,
     NoTask
<1>6. CASE CreateThrows(w)
  BY <1>2, <1>3, <1>6 DEF CreateThrows, Pipe
<1>7. CASE InitializedThrows(w)
  BY <1>1, <1>2, <1>3, <1>7 DEF InitializedThrows, Receives, Calm, DataTyped,
     NoTask
<1>8. CASE Received(w) \/ Broken(w) \/ Late(w) \/ CloseProcess(w)
  BY <1>1, <1>2, <1>3, <1>8
     DEF Received, Receives, Broken, Late, CloseProcess, DataTyped, NoTask
<1>9. CASE Reap(w)
  BY <1>1, <1>2, <1>3, <1>9 DEF Reap, Calm, DataTyped
<1>10. CASE ReapLast(w) \/ Throws(w) \/ Ends(w)
  BY <1>1, <1>2, <1>3, <1>10 DEF ReapLast, Throws, Ends, Pipe, DataTyped
<1> QED  BY <1>4, <1>5, <1>6, <1>7, <1>8, <1>9, <1>10 DEF Work

LEMMA ProcessTidy ==
  ASSUME Typed, Pipes, Tidiness, NEW w \in Workers, Process(w)
  PROVE  Tidy(w)'
<1> USE DEF poolVars, workVars, procVars, pipeVars, taskVars, history, Tidy, Quiet
<1>1. DataTyped
  BY TypedFacts
<1>2. Tidy(w) /\ Pipe(w)
  BY DEF Tidiness, Pipes
<1>3. UNCHANGED <<at, knows, piped>>
  BY ProcessOnPool
<1>4. at[w] = "throw" /\ Calm => proc'[w] = "none"
  BY <1>1, <1>2 DEF Process, ChildInit, ChildReads, ChildAnswers, ChildEnds,
       ChildBabbles, ChildHangs, ChildDies, DataTyped
<1>5. answer'[w] = "garbage" => "garbage" \in Faults
  <2>1. CASE ChildInit(w)
    BY <1>1, <1>2, <2>1 DEF ChildInit, DataTyped
  <2>2. CASE ChildAnswers(w)
    <3>1. doing[w] # "garbage"
      BY <1>1, ThreadFacts DEF DataTyped, NoTask
    <3> QED  BY <1>1, <1>2, <2>2, <3>1 DEF ChildAnswers, DataTyped
  <2>3. CASE ~ChildInit(w) /\ ~ChildAnswers(w)
    BY <1>1, <1>2, <2>3 DEF Process, ChildReads, ChildEnds, ChildBabbles,
         ChildHangs, ChildDies, DataTyped
  <2> QED  BY <2>1, <2>2, <2>3
<1> QED  BY <1>2, <1>3, <1>4, <1>5 DEF Calm

LEMMA StepTidy ==
  ASSUME Typed, Pipes, Tidiness, [Next]_vars
  PROVE  Tidiness'
<1>1. ASSUME NEW w \in Workers, Work(w) PROVE Tidiness'
  BY <1>1, WorkTidy, WorkElsewhere, TidyElsewhere
<1>2. ASSUME NEW w \in Workers, Process(w) PROVE Tidiness'
  BY <1>2, ProcessTidy, ProcessOnPool, TidyElsewhere
<1>3. CASE Outside
  BY <1>3, OutsideOnPipes
     DEF Tidiness, Tidy, Calm, Quiet, workVars, procVars, pipeVars
<1>4. CASE UNCHANGED vars
  BY <1>4 DEF vars, workVars, procVars, pipeVars, Tidiness, Tidy, Calm, Quiet
<1> QED  BY <1>1, <1>2, <1>3, <1>4, NextIs

LEMMA WorkAnswers ==
  ASSUME Typed, Hands, Tidiness, Answered, NEW w \in Workers, Work(w)
  PROVE  Answered'
<1> USE DEF poolVars, workVars, procVars, pipeVars, taskVars, history,
            Answered, Quiet, Calm
<1>1. DataTyped
  BY TypedFacts
<1>2. Tidy(w)
  BY DEF Tidiness
<1>3. CASE Dequeue(w)
  <2>1. InHand' = InHand \union {Head(tasks_)}
    BY <1>3, Taken
  <2> QED  BY <1>3, <2>1 DEF Dequeue
<1>4. CASE Signal(w) \/ Throws(w)
  <2>1. InHand' = InHand \ {held[w]}
    <3>1. /\ at[w] \in WithTask /\ w \in Threads /\ PlacesTyped
      BY <1>4, ThreadFacts, PlacesFacts DEF Signal, Throws, WithTask
    <3>2. at'[w] \notin WithTask /\ \A v \in Workers \ {w} : at'[v] = at[v]
      BY <1>4, <3>1, GoFacts, ThreadFacts DEF Signal, Throws, WithTask
    <3>3. /\ held' = [held EXCEPT ![w] = NoTask]
          /\ UNCHANGED <<tasks_, accepted, dropped>>
          /\ completed_' \union over' \subseteq completed_ \union over \union {held[w]}
      BY <1>4 DEF Signal, Throws
    <3> QED  BY <3>1, <3>2, <3>3, LetGo
  <2>2. CASE Signal(w)
    BY <2>1, <2>2 DEF Signal
  <2>3. CASE Throws(w)
    <3>1. at[w] = "throw" /\ held[w] \notin dropped
      BY <2>3 DEF Throws, Hands
    <3>2. ~Quiet /\ (Calm => proc[w] = "none")
      BY <1>2, <3>1 DEF Tidy
    <3>3. dropped' = dropped /\ completed_' = completed_
      BY <2>3 DEF Throws
    <3>4. Calm => orphans' = orphans
      BY <2>3, <3>2 DEF Throws
    <3> QED  BY <2>1, <3>1, <3>2, <3>3, <3>4
  <2> QED  BY <1>4, <2>2, <2>3
<1>5. CASE Decide(w)
  <2>1. /\ UNCHANGED <<held, completed_, over, orphans>>
        /\ dropped' \subseteq dropped \union {held[w]} /\ at[w] = "got"
    BY <1>5 DEF Decide
  <2>2. InHand' = InHand /\ held[w] \in InHand
    BY <2>1 DEF InHand, Hands, WithTask
  <2> QED  BY <2>1, <2>2
<1>6. CASE Reap(w)
  <2>1. UNCHANGED <<held, completed_, over, dropped>>
    BY <1>6 DEF Reap
  <2>2. orphans = 0 => orphans' = 0
    BY <1>1, <1>6 DEF Reap, ReapAny, DataTyped
  <2> QED  BY <2>1, <2>2 DEF InHand
<1>7. CASE Leave(w) \/ Create(w) \/ CreateThrows(w) \/ Initialized(w)
  BY <1>7 DEF Leave, Create, CreateThrows, Initialized, InHand
<1>8. CASE InitializedThrows(w) \/ Send(w) \/ Received(w) \/ Broken(w)
  BY <1>8 DEF InitializedThrows, Send, Received, Broken, InHand
<1>9. CASE Late(w) \/ CloseProcess(w) \/ ReapLast(w) \/ Ends(w)
  BY <1>9 DEF Late, CloseProcess, ReapLast, Ends, InHand
<1> QED  BY <1>3, <1>4, <1>5, <1>6, <1>7, <1>8, <1>9 DEF Work

LEMMA StepAnswered ==
  ASSUME Typed, Hands, Tidiness, Answered, [Next]_vars
  PROVE  Answered'
<1>1. ASSUME UNCHANGED <<held, completed_, over, dropped, orphans>>
      PROVE  Answered'
  BY <1>1 DEF Answered, Calm, Quiet, InHand
<1>2. ASSUME NEW w \in Workers, Process(w) PROVE Answered'
  BY <1>1, <1>2, ProcessOnPool DEF workVars, taskVars, history
<1>3. CASE Outside
  BY <1>1, <1>3, OutsideOnPipes DEF workVars, taskVars
<1>4. CASE UNCHANGED vars
  BY <1>1, <1>4 DEF vars, workVars, taskVars, history
<1> QED  BY <1>2, <1>3, <1>4, WorkAnswers, NextIs

LEMMA TidyInvariance == Spec => [](Tidiness /\ Answered)
<1>1. Init => Tidiness /\ Answered
  <2> SUFFICES ASSUME Init PROVE Tidiness /\ Answered
    OBVIOUS
  <2>1. \A w \in Workers : at[w] = "off"
    BY ThreadFacts DEF Init
  <2> QED  BY <2>1 DEF Init, Tidiness, Tidy, Answered, NoTask
<1>2. IInv /\ Tidiness /\ Answered /\ [Next]_vars => (Tidiness /\ Answered)'
  BY StepTidy, StepAnswered DEF IInv
<1> QED  BY <1>1, <1>2, Invariance, PTL DEF Spec

(* What is left of a worker that has ended: no child it waits for or that  *)
(* runs, no pipe of its own, and no task.  A zombie whose pid nobody       *)
(* knows needs a callback that throws or an answer that is garbage         *)
(* (ProcessPool.cpp, close_process and the handlers of run): a child that  *)
(* dies or hangs, or a pipe or a fork that fails, leaves none.             *)
NothingLeft ==
  /\ \A w \in Workers :
       at[w] = "off" => /\ knows[w] = "none" /\ proc[w] = "none"
                        /\ ~piped[w] /\ held[w] = NoTask
  /\ Calm => orphans = 0

THEOREM WorkersLeaveNothing == Spec => []NothingLeft
<1>1. IInv /\ Tidiness /\ Answered => NothingLeft
  <2> SUFFICES ASSUME IInv, Tidiness, Answered PROVE NothingLeft
    OBVIOUS
  <2>1. ASSUME NEW w \in Workers, at[w] = "off"
        PROVE  /\ knows[w] = "none" /\ proc[w] = "none"
               /\ ~piped[w] /\ held[w] = NoTask
    <3>1. Pipe(w) /\ Tidy(w) /\ at[w] \notin WithTask
      BY <2>1 DEF IInv, Pipes, Tidiness, WithTask
    <3> QED  BY <2>1, <3>1 DEF Pipe, Tidy, IInv, Hands
  <2> QED  BY <2>1 DEF NothingLeft, Answered
<1> QED  BY <1>1, Invariance, TidyInvariance, PTL

(* An accepted task waits, or is in the hands of a worker, or is           *)
(* completed, or was in the hands of a worker that an exception ended; and *)
(* no exception ends a worker unless a callback throws, an answer is       *)
(* garbage or pipe() fails.  So a child that dies, hangs, answers late or  *)
(* answers with an error never leaves its task without a completion        *)
(* (ProcessPool::Thread::run), which TaskBase::wait() waits for.           *)
NoneUnanswered ==
  /\ accepted = InQueue \union InHand \union completed_ \union over
  /\ Quiet => over \subseteq completed_

THEOREM OnlyExceptionsLeaveUnanswered == Spec => []NoneUnanswered
<1>1. IInv /\ Answered /\ Promise!NoneLost => NoneUnanswered
  <2> SUFFICES ASSUME IInv, Answered, Promise!NoneLost PROVE NoneUnanswered
    OBVIOUS
  <2>1. accepted = InQueue \union (InHand \ dropped) \union over \union dropped
    BY DEF Promise!NoneLost
  <2>2. InQueue \union InHand \union completed_ \union over \subseteq accepted
    BY DEF IInv, Hands
  <2> QED  BY <2>1, <2>2 DEF Answered, NoneUnanswered
<1>2. Spec => []Promise!NoneLost
  BY TasksAreKept, PTL
<1> QED  BY <1>1, <1>2, Invariance, TidyInvariance, PTL
=============================================================================

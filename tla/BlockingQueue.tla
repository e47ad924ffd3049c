---------------------------- MODULE BlockingQueue ----------------------------
(***************************************************************************)
(* What El::Queue<T> promises its callers, without the mutex, the          *)
(* condition variable or any counter: a deque with a capacity, the calls   *)
(* that are blocked on it, and the reasons for which a blocked call may    *)
(* give up.  A call takes effect at one instant, once, or not at all.      *)
(***************************************************************************)
EXTENDS Integers, Sequences

CONSTANTS Threads, Calls, NoCall, Capacities, InitCapacity

VARIABLES
  contents,   \* the elements, the next one to be taken first
  capacity,   \* 0: closed
  blocked,    \* blocked[t]: the call t is blocked in, or NoCall
  awakers     \* the threads executing awake()

vars == <<contents, capacity, blocked, awakers>>

Init ==
  /\ contents = <<>>
  /\ capacity = InitCapacity
  /\ blocked = [t \in Threads |-> NoCall]
  /\ awakers = {}

Enabled(c) ==
  \/ c.op = "enqueue" /\ Len(contents) < capacity
  \/ c.op = "dequeue" /\ contents # <<>>

(* Where an enqueue may put its element: i elements stay in front of it. *)
Place(strategy) ==
  CASE strategy = "back"   -> {Len(contents)}
    [] strategy = "front"  -> {0}
    [] strategy = "random" -> 0 .. Len(contents)

Effect(c) ==
  \/ /\ c.op = "enqueue"
     /\ \E i \in Place(c.strategy) :
          contents' = SubSeq(contents, 1, i) \o <<c.element>>
                        \o SubSeq(contents, i + 1, Len(contents))
  \/ /\ c.op = "dequeue"
     /\ contents' = Tail(contents)

(* A new call, or a blocked one, succeeds. *)
Succeed(t, c) ==
  /\ blocked[t] \in {NoCall, c}
  /\ Enabled(c)
  /\ Effect(c)
  /\ blocked' = [blocked EXCEPT ![t] = NoCall]
  /\ UNCHANGED <<capacity, awakers>>

(* Only a call that cannot succeed at once, in an open queue that nobody   *)
(* is waking, blocks, and only if it agreed to wait.                       *)
Block(t, c) ==
  /\ blocked[t] = NoCall
  /\ ~Enabled(c) /\ capacity # 0 /\ awakers = {} /\ c.wait # "zero"
  /\ blocked' = [blocked EXCEPT ![t] = c]
  /\ UNCHANGED <<contents, capacity, awakers>>

(* A blocked call returns false: its deadline passed, or it cannot succeed *)
(* and the queue is closed or being woken.                                 *)
GiveUp(t) ==
  /\ blocked[t] # NoCall
  /\ \/ blocked[t].wait = "timed"
     \/ ~Enabled(blocked[t]) /\ (capacity = 0 \/ awakers # {})
  /\ blocked' = [blocked EXCEPT ![t] = NoCall]
  /\ UNCHANGED <<contents, capacity, awakers>>

Resize ==
  /\ capacity' \in Capacities
  /\ UNCHANGED <<contents, blocked, awakers>>

(* awake() returns only when no call is left blocked. *)
StartAwake(t) ==
  /\ blocked[t] = NoCall
  /\ awakers' = awakers \union {t}
  /\ UNCHANGED <<contents, capacity, blocked>>

FinishAwake(t) ==
  /\ \A s \in Threads : blocked[s] = NoCall
  /\ awakers' = awakers \ {t}
  /\ UNCHANGED <<contents, capacity, blocked>>

Next ==
  \/ Resize
  \/ \E t \in Threads :
       \/ \E c \in Calls : Succeed(t, c) \/ Block(t, c)
       \/ GiveUp(t)
       \/ StartAwake(t)
       \/ FinishAwake(t)

Spec == Init /\ [][Next]_vars
=============================================================================

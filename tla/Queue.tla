------------------------------- MODULE Queue -------------------------------
(***************************************************************************)
(* El::Queue<T> (El/Queue.hpp): a bounded queue shared by threads, one     *)
(* mutex (lock_) and ONE condition variable (event_happened_) on which     *)
(* both producers and consumers sleep.                                     *)
(*                                                                         *)
(* Every stretch of code executed under lock_ is one atomic step.  A       *)
(* thread inside event_happened_.wait() is "asleep"; a signal moves some   *)
(* sleeper (the choice is the system's) to "woken"; a deadline moves it to *)
(* "expired".  Woken and expired threads still have to get lock_ back:     *)
(* that, and all they do before they release it, is their next step.       *)
(* awake() signals without the lock, so it takes two alternating steps.    *)
(***************************************************************************)
EXTENDS Integers, Sequences, FiniteSets

CONSTANTS
  Threads,      \* the threads that use the queue
  Elements,     \* the values of T
  MaxSizes,     \* the values max_size(val) is called with
  InitMaxSize,  \* the constructor's argument
  EnqueueWaits, \* the wait times producers use
  DequeueWaits, \* the wait times consumers use
  Strategies    \* the enqueue strategies producers use

(* wait_time: a null pointer, ACE_Time_Value::zero, or a positive time. *)
WaitTimes == {"forever", "zero", "timed"}

(* EnqueueStrategy; ES_DEFAULT does what ES_BACK does. *)
EnqueueStrategies == {"back", "front", "random"}

ASSUME QueueAssumption ==
  /\ IsFiniteSet(Threads)
  /\ MaxSizes \subseteq Nat
  /\ InitMaxSize \in Nat
  /\ EnqueueWaits \subseteq WaitTimes
  /\ DequeueWaits \subseteq WaitTimes
  /\ Strategies \subseteq EnqueueStrategies

VARIABLES
  queue_,       \* the deque, its front first
  size_,        \* the code's own count of queue_
  max_size_,    \* capacity; 0 means closed
  waiting_,     \* how many threads the queue believes are in a wait
  awaking_,     \* how many awake() calls are at work
  pc,           \* pc[t]: where thread t is
  call          \* call[t]: the enqueue or dequeue t is executing

vars == <<queue_, size_, max_size_, waiting_, awaking_, pc, call>>

EnqueueCalls ==
  [op : {"enqueue"}, element : Elements, wait : EnqueueWaits, strategy : Strategies]
DequeueCalls == [op : {"dequeue"}, wait : DequeueWaits]
Calls == EnqueueCalls \union DequeueCalls
NoCall == [op |-> "none"]

(* Where a thread can be. *)
Places == {"idle", "asleep", "woken", "expired", "awake_signal", "awake_check"}

Asleep  == {t \in Threads : pc[t] = "asleep"}
Woken   == {t \in Threads : pc[t] = "woken"}
Waiters == {t \in Threads : pc[t] \in {"asleep", "woken", "expired"}}
Awakers == {t \in Threads : pc[t] \in {"awake_signal", "awake_check"}}

Init ==
  /\ queue_ = <<>>
  /\ size_ = 0
  /\ max_size_ = InitMaxSize
  /\ waiting_ = 0
  /\ awaking_ = 0
  /\ pc = [t \in Threads |-> "idle"]
  /\ call = [t \in Threads |-> NoCall]

-----------------------------------------------------------------------------
(* event_happened_.signal() by thread t, which leaves t at "next": some    *)
(* sleeper wakes up; with no sleeper the signal is lost.                   *)
SignalThenGo(t, next) ==
  \/ \E s \in Asleep \ {t} :
       pc' = [pc EXCEPT ![s] = "woken", ![t] = next]
  \/ /\ Asleep \ {t} = {}
     /\ pc' = [pc EXCEPT ![t] = next]

InsertedAt(i, e) == SubSeq(queue_, 1, i) \o <<e>> \o SubSeq(queue_, i + 1, size_)

(* do_enqueue.  rand() * size_ / (RAND_MAX + 1) is below size_, so a       *)
(* random insertion never goes behind the last element, except that an     *)
(* empty queue has no other place.                                         *)
do_enqueue(e, strategy) ==
  /\ \/ strategy = "back"   /\ queue_' = Append(queue_, e)
     \/ strategy = "front"  /\ queue_' = <<e>> \o queue_
     \/ /\ strategy = "random"
        /\ \E i \in 0 .. size_ :
             /\ i < size_ \/ size_ = 0
             /\ queue_' = InsertedAt(i, e)
  /\ size_' = size_ + 1

TakeFront ==
  /\ queue_' = Tail(queue_)
  /\ size_' = size_ - 1

(* What a call needs to take effect, in an open queue. *)
CanProceed(c) ==
  \/ c.op = "enqueue" /\ size_ < max_size_
  \/ c.op = "dequeue" /\ size_ > 0

(* The call takes effect: the element goes in, or the front comes out. *)
Effect(c) ==
  \/ c.op = "enqueue" /\ do_enqueue(c.element, c.strategy)
  \/ c.op = "dequeue" /\ TakeFront

-----------------------------------------------------------------------------
(* enqueue and dequeue called by an idle thread t.                         *)

(* Mutant: an operation that does not signal. *)
CallSucceedsSilently(t, c) ==
  /\ pc[t] = "idle" /\ CanProceed(c) /\ Effect(c)
  /\ UNCHANGED <<max_size_, waiting_, awaking_, pc, call>>

(* There is room, or an element: the call succeeds and signals at once. *)
CallSucceeds(t, c) ==
  /\ pc[t] = "idle"
  /\ CanProceed(c)
  /\ Effect(c)
  /\ SignalThenGo(t, "idle")
  /\ UNCHANGED <<max_size_, waiting_, awaking_, call>>

(* The call returns false at once: the queue is closed, the caller does    *)
(* not want to wait, or it would wait while an awake() is at work.         *)
CallRefused(t, c) ==
  /\ pc[t] = "idle"
  /\ ~CanProceed(c)
  /\ max_size_ = 0 \/ c.wait = "zero" \/ awaking_ > 0
  /\ UNCHANGED vars

(* Mutant: waiting_ not counted up. *)
CallWaitsUncounted(t, c) ==
  /\ pc[t] = "idle" /\ ~CanProceed(c) /\ max_size_ # 0 /\ c.wait # "zero"
  /\ awaking_ = 0
  /\ pc' = [pc EXCEPT ![t] = "asleep"]
  /\ call' = [call EXCEPT ![t] = c]
  /\ UNCHANGED <<queue_, size_, max_size_, waiting_, awaking_>>

(* The call goes to sleep. *)
CallWaits(t, c) ==
  /\ pc[t] = "idle"
  /\ ~CanProceed(c)
  /\ max_size_ # 0
  /\ c.wait # "zero"
  /\ awaking_ = 0
  /\ waiting_' = waiting_ + 1
  /\ pc' = [pc EXCEPT ![t] = "asleep"]
  /\ call' = [call EXCEPT ![t] = c]
  /\ UNCHANGED <<queue_, size_, max_size_, awaking_>>

-----------------------------------------------------------------------------
(* The rest of a call that slept.                                          *)

(* abstime passed before anyone signalled t. *)
Expire(t) ==
  /\ pc[t] = "asleep"
  /\ call[t].wait = "timed"
  /\ pc' = [pc EXCEPT ![t] = "expired"]
  /\ UNCHANGED <<queue_, size_, max_size_, waiting_, awaking_, call>>

(* POSIX lets wait() return without a signal. *)
WakeSpuriously(t) ==
  /\ pc[t] = "asleep"
  /\ pc' = [pc EXCEPT ![t] = "woken"]
  /\ UNCHANGED <<queue_, size_, max_size_, waiting_, awaking_, call>>

(* Mutant: waiting_ not taken back on the way out with ETIME. *)
ReturnExpiredUncounted(t) ==
  /\ pc[t] = "expired"
  /\ pc' = [pc EXCEPT ![t] = "idle"]
  /\ call' = [call EXCEPT ![t] = NoCall]
  /\ UNCHANGED <<queue_, size_, max_size_, waiting_, awaking_>>

(* wait() returned ETIME: false, whatever the queue holds by now. *)
ReturnExpired(t) ==
  /\ pc[t] = "expired"
  /\ waiting_' = waiting_ - 1
  /\ pc' = [pc EXCEPT ![t] = "idle"]
  /\ call' = [call EXCEPT ![t] = NoCall]
  /\ UNCHANGED <<queue_, size_, max_size_, awaking_>>

(* Mutant: the signal at the end of a call that slept left out. *)
ReturnWokenSilently(t) ==
  /\ pc[t] = "woken"
  /\ \/ CanProceed(call[t]) /\ Effect(call[t])
     \/ ~CanProceed(call[t]) /\ max_size_ = 0 /\ UNCHANGED <<queue_, size_>>
  /\ waiting_' = waiting_ - 1
  /\ pc' = [pc EXCEPT ![t] = "idle"]
  /\ call' = [call EXCEPT ![t] = NoCall]
  /\ UNCHANGED <<max_size_, awaking_>>

(* A woken thread finds that it can leave the loop.  An enqueue does       *)
(* nothing to a closed queue, a dequeue still drains it.  It signals in    *)
(* each case.                                                              *)
ReturnWoken(t) ==
  /\ pc[t] = "woken"
  /\ \/ CanProceed(call[t]) /\ Effect(call[t])
     \/ /\ ~CanProceed(call[t])
        /\ max_size_ = 0
        /\ UNCHANGED <<queue_, size_>>
  /\ waiting_' = waiting_ - 1
  /\ SignalThenGo(t, "idle")
  /\ call' = [call EXCEPT ![t] = NoCall]
  /\ UNCHANGED <<max_size_, awaking_>>

(* Mutants of the loop: an if instead of the while, and a wait that starts *)
(* its time anew without an end.                                           *)
SleepAgainNever(t) ==
  /\ pc[t] = "woken" /\ ~CanProceed(call[t]) /\ max_size_ # 0 /\ awaking_ = 0
  /\ waiting_' = waiting_ - 1
  /\ pc' = [pc EXCEPT ![t] = "idle"]
  /\ call' = [call EXCEPT ![t] = NoCall]
  /\ UNCHANGED <<queue_, size_, max_size_, awaking_>>

SleepAgainForever(t) ==
  /\ pc[t] = "woken" /\ ~CanProceed(call[t]) /\ max_size_ # 0 /\ awaking_ = 0
  /\ pc' = [pc EXCEPT ![t] = "asleep"]
  /\ call' = [call EXCEPT ![t].wait = "forever"]
  /\ UNCHANGED <<queue_, size_, max_size_, waiting_, awaking_>>

(* A woken thread finds its condition still false: it sleeps again (until  *)
(* the same abstime), without passing the signal on ...                    *)
SleepAgain(t) ==
  /\ pc[t] = "woken"
  /\ ~CanProceed(call[t])
  /\ max_size_ # 0
  /\ awaking_ = 0
  /\ pc' = [pc EXCEPT ![t] = "asleep"]
  /\ UNCHANGED <<queue_, size_, max_size_, waiting_, awaking_, call>>

(* ... or, an awake() being at work, returns false. *)
ReturnAwaken(t) ==
  /\ pc[t] = "woken"
  /\ ~CanProceed(call[t])
  /\ max_size_ # 0
  /\ awaking_ > 0
  /\ waiting_' = waiting_ - 1
  /\ pc' = [pc EXCEPT ![t] = "idle"]
  /\ call' = [call EXCEPT ![t] = NoCall]
  /\ UNCHANGED <<queue_, size_, max_size_, awaking_>>

-----------------------------------------------------------------------------
(* max_size(val). *)
SetMaxSize(t, val) ==
  /\ pc[t] = "idle"
  /\ max_size_' = val
  /\ SignalThenGo(t, "idle")
  /\ UNCHANGED <<queue_, size_, waiting_, awaking_, call>>

(* awake(): counted in awaking_ if anyone waits, otherwise it is over. *)
AwakeBegin(t) ==
  /\ pc[t] = "idle"
  /\ waiting_ # 0
  /\ awaking_' = awaking_ + 1
  /\ pc' = [pc EXCEPT ![t] = "awake_signal"]
  /\ UNCHANGED <<queue_, size_, max_size_, waiting_, call>>

(* The signal of awake()'s loop, sent without lock_ ... *)
AwakeSignal(t) ==
  /\ pc[t] = "awake_signal"
  /\ SignalThenGo(t, "awake_check")
  /\ UNCHANGED <<queue_, size_, max_size_, waiting_, awaking_, call>>

(* ... and the look under lock_ at whether anyone still waits. *)
AwakeCheck(t) ==
  /\ pc[t] = "awake_check"
  /\ \/ /\ waiting_ # 0
        /\ awaking_' = awaking_
        /\ pc' = [pc EXCEPT ![t] = "awake_signal"]
     \/ /\ waiting_ = 0
        /\ awaking_' = awaking_ - 1
        /\ pc' = [pc EXCEPT ![t] = "idle"]
  /\ UNCHANGED <<queue_, size_, max_size_, waiting_, call>>

(* Only woken, expired and awaking threads have a next step of their own. *)
Resume(t) ==
  \/ ReturnExpired(t)
  \/ ReturnWoken(t)
  \/ SleepAgain(t)
  \/ ReturnAwaken(t)
  \/ AwakeSignal(t)
  \/ AwakeCheck(t)

Next ==
  \E t \in Threads :
    \/ \E c \in Calls : CallSucceeds(t, c) \/ CallRefused(t, c) \/ CallWaits(t, c)
    \/ \E val \in MaxSizes : SetMaxSize(t, val)
    \/ AwakeBegin(t)
    \/ Expire(t)
    \/ WakeSpuriously(t)
    \/ Resume(t)

Spec == Init /\ [][Next]_vars

(* A runnable thread gets the processor and lock_ in the end, and a        *)
(* deadline passes in the end: a thread cannot be woken in vain for ever   *)
(* while its absolute deadline stays ahead.  Nobody is obliged to call.    *)
FairSpec ==
  /\ Spec
  /\ \A t \in Threads : WF_vars(Resume(t)) /\ SF_vars(Expire(t))

-----------------------------------------------------------------------------
TypeOK ==
  /\ queue_ \in Seq(Elements)
  /\ size_ \in Nat
  /\ max_size_ \in MaxSizes \union {InitMaxSize}
  /\ waiting_ \in Nat
  /\ awaking_ \in Nat
  /\ pc \in [Threads -> Places]
  /\ call \in [Threads -> Calls \union {NoCall}]

(* The counters agree with what they count: size_ with the deque, waiting_ *)
(* with the threads inside a wait (on each of the four ways out of it),    *)
(* awaking_ with the awake() calls.  awake() ends by waiting_ alone.       *)
CountersExact ==
  /\ size_ = Len(queue_)
  /\ waiting_ = Cardinality(Waiters)
  /\ awaking_ = Cardinality(Awakers)

(* max_size(0) signals once, and yet strands no sleeper: as long as one    *)
(* sleeps in a closed queue, another thread is on its way out and will     *)
(* signal in turn (the signal each operation ends with, Queue.hpp:259,     *)
(* 343).                                                                   *)
ClosingReachesAll == max_size_ = 0 /\ Asleep # {} => Woken # {}

(* No lost wakeup among consumers: while one sleeps, at least as many      *)
(* woken threads are on their way as there are elements.  True where       *)
(* producers never sleep; where both roles share event_happened_, a signal *)
(* meant for a consumer can go to a producer, which sleeps again.          *)
NoLostWakeup ==
  EnqueueWaits \subseteq {"zero"} /\ Asleep # {} => size_ <= Cardinality(Woken)

(* The queue is only ever given a slot for each thread but one, or closed  *)
(* ...                                                                     *)
Roomy ==
  \A m \in MaxSizes \union {InitMaxSize} : m = 0 \/ m + 1 >= Cardinality(Threads)

(* ... which is what it takes that nobody sleeps in vain although          *)
(* producers and consumers share event_happened_: while one sleeps whose   *)
(* call could proceed, a woken one of its own kind is on its way, and will *)
(* signal in turn.  In a smaller queue signals go to the wrong kind, until *)
(* all sleep.                                                              *)
NobodySleepsInVain ==
  Roomy => \A t \in Asleep :
             CanProceed(call[t]) => \E s \in Woken : call[s].op = call[t].op

(* An awake() call returns, whatever the other threads go on calling; so   *)
(* does a call with a deadline, however often it is woken in vain.         *)
CallsReturn ==
  \A t \in Threads :
    /\ t \in Awakers ~> t \notin Awakers
    /\ pc[t] = "asleep" /\ call[t].wait = "timed" ~> pc[t] = "idle"

(* The monitor implements the blocking queue its callers see: the calls    *)
(* inside a wait are the blocked ones.                                     *)
Abstract == INSTANCE BlockingQueue WITH
  contents <- queue_,
  capacity <- max_size_,
  blocked <- [t \in Threads |-> IF t \in Waiters THEN call[t] ELSE NoCall],
  awakers <- Awakers,
  Capacities <- MaxSizes,
  InitCapacity <- InitMaxSize

(* Elements are neither lost nor delivered twice, the strategies decide    *)
(* the order, and a call fails for the reasons BlockingQueue lists only.   *)
ImplementsBlockingQueue == Abstract!Spec
=============================================================================

---------------------------- MODULE Queue_proofs ----------------------------
(***************************************************************************)
(* What holds of El::Queue for any number of threads, any elements and any *)
(* capacities.                                                             *)
(***************************************************************************)
EXTENDS Queue, FiniteSetTheorems, SequenceTheorems, TLAPS

(* Counters and types hold each other up: the place of a random insertion  *)
(* is a place of the deque only because size_ is its length.               *)
IInv == TypeOK /\ CountersExact

-----------------------------------------------------------------------------
(* A signal wakes at most one sleeper and moves nobody else. *)
LEMMA SignalMoves ==
  ASSUME NEW t \in Threads, NEW next \in Places,
         pc \in [Threads -> Places], SignalThenGo(t, next)
  PROVE  /\ pc' \in [Threads -> Places]
         /\ pc'[t] = next
         /\ \A s \in Threads \ {t} :
              \/ pc'[s] = pc[s]
              \/ pc[s] = "asleep" /\ pc'[s] = "woken"
BY DEF SignalThenGo, Asleep, Places

(* A signal that finds a sleeper leaves somebody woken. *)
LEMMA SignalReaches ==
  ASSUME NEW t \in Threads, NEW next \in Places,
         pc \in [Threads -> Places], SignalThenGo(t, next),
         Asleep \ {t} # {}
  PROVE  \E s \in Threads \ {t} : pc[s] = "asleep" /\ pc'[s] = "woken"
BY DEF SignalThenGo, Asleep, Places

LEMMA InsertBetween ==
  ASSUME NEW S, NEW front \in Seq(S), NEW back \in Seq(S), NEW e \in S,
         NEW n \in Nat, NEW i \in 0 .. n, Len(front) = i, Len(back) = n - i
  PROVE  /\ (front \o <<e>>) \o back \in Seq(S)
         /\ Len((front \o <<e>>) \o back) = n + 1
<1>1. <<e>> \in Seq(S) /\ Len(<<e>>) = 1
  OBVIOUS
<1>2. front \o <<e>> \in Seq(S) /\ Len(front \o <<e>>) = i + 1
  BY <1>1, ConcatProperties
<1>3. (front \o <<e>>) \o back \in Seq(S)
  BY <1>2
<1>4. Len((front \o <<e>>) \o back) = (i + 1) + (n - i)
  BY <1>2
<1>5. (i + 1) + (n - i) = n + 1
  OBVIOUS
<1>. QED  BY <1>3, <1>4, <1>5

(* do_enqueue adds one element, wherever the strategy puts it. *)
LEMMA DoEnqueueAdds ==
  ASSUME NEW e \in Elements, NEW strategy, do_enqueue(e, strategy),
         queue_ \in Seq(Elements), size_ = Len(queue_)
  PROVE  queue_' \in Seq(Elements) /\ size_' = Len(queue_') /\ size_' = size_ + 1
<1>1. size_ \in Nat
  BY LenProperties
<1>2. CASE strategy = "back" /\ queue_' = Append(queue_, e)
  BY <1>2, AppendProperties DEF do_enqueue
<1>3. <<e>> \in Seq(Elements) /\ Len(<<e>>) = 1
  OBVIOUS
<1>4. CASE strategy = "front" /\ queue_' = <<e>> \o queue_
  BY <1>1, <1>3, <1>4, ConcatProperties DEF do_enqueue
<1>5. ASSUME NEW i \in 0 .. size_, queue_' = InsertedAt(i, e)
      PROVE  queue_' \in Seq(Elements) /\ Len(queue_') = size_ + 1
  <2> DEFINE front == SubSeq(queue_, 1, i)
             back  == SubSeq(queue_, i + 1, size_)
  <2>1. \A j \in 1 .. size_ : queue_[j] \in Elements
    BY ElementOfSeq
  <2>2. front \in Seq(Elements) /\ Len(front) = i
    BY <1>1, <2>1, SubSeqProperties
  <2>3. back \in Seq(Elements) /\ Len(back) = size_ - i
    BY <1>1, <2>1, SubSeqProperties
  <2>. HIDE DEF front, back
  <2>4. /\ (front \o <<e>>) \o back \in Seq(Elements)
        /\ Len((front \o <<e>>) \o back) = size_ + 1
    BY SMTT(30), <1>1, <2>2, <2>3, InsertBetween
  <2>. QED  BY <1>5, <2>4 DEF InsertedAt, front, back
<1>. QED  BY <1>1, <1>2, <1>4, <1>5 DEF do_enqueue

(* TakeFront removes one element. *)
LEMMA TakeFrontRemoves ==
  ASSUME TakeFront, size_ > 0, queue_ \in Seq(Elements), size_ = Len(queue_)
  PROVE  queue_' \in Seq(Elements) /\ size_' = Len(queue_') /\ size_' = size_ - 1
BY HeadTailProperties, EmptySeq DEF TakeFront

(* So a call that takes effect keeps size_ and the deque in agreement. *)
LEMMA EffectKeepsSize ==
  ASSUME NEW c \in Calls, CanProceed(c), Effect(c),
         queue_ \in Seq(Elements), size_ = Len(queue_)
  PROVE  queue_' \in Seq(Elements) /\ size_' \in Nat /\ size_' = Len(queue_')
<1>1. CASE c.op = "enqueue"
  <2>1. c.element \in Elements /\ do_enqueue(c.element, c.strategy)
    BY <1>1 DEF Calls, EnqueueCalls, DequeueCalls, Effect
  <2>. QED  BY <2>1, DoEnqueueAdds, LenProperties
<1>2. CASE c.op = "dequeue"
  BY <1>2, TakeFrontRemoves, LenProperties DEF CanProceed, Effect
<1>. QED  BY <1>1, <1>2 DEF Effect

(* A signal leaves the waits and the awake() calls of the others alone: a  *)
(* woken thread still counts as waiting.                                   *)
LEMMA SignalKeepsOthers ==
  ASSUME NEW t \in Threads, NEW next \in Places,
         pc \in [Threads -> Places], SignalThenGo(t, next)
  PROVE  /\ Waiters' \ {t} = Waiters \ {t}
         /\ Awakers' \ {t} = Awakers \ {t}
BY SignalMoves DEF Waiters, Awakers

LEMMA OneMore ==
  ASSUME NEW S, NEW T, NEW x, IsFiniteSet(S), x \notin S, T = S \union {x}
  PROVE  Cardinality(S) \in Nat /\ Cardinality(T) = Cardinality(S) + 1
BY FS_AddElement, FS_CardinalityType

LEMMA OneLess ==
  ASSUME NEW S, NEW T, NEW x, IsFiniteSet(S), x \in S, T = S \ {x}
  PROVE  Cardinality(T) \in Nat /\ Cardinality(T) = Cardinality(S) - 1
<1>1. IsFiniteSet(T)
  BY FS_RemoveElement
<1>. QED  BY <1>1, FS_RemoveElement, FS_CardinalityType

LEMMA FiniteWaiters == IsFiniteSet(Waiters) /\ IsFiniteSet(Awakers)
BY FS_Subset, QueueAssumption DEF Waiters, Awakers

-----------------------------------------------------------------------------
LEMMA InitIInv == Init => IInv
<1> SUFFICES ASSUME Init PROVE IInv
  OBVIOUS
<1>1. TypeOK
  BY QueueAssumption DEF Init, TypeOK, Places
<1>2. Waiters = {} /\ Awakers = {}
  BY DEF Init, Waiters, Awakers
<1>. QED  BY <1>1, <1>2, FS_EmptySet DEF Init, CountersExact, IInv

(* The steps that change the deque. *)
LEMMA CallSucceedsIInv ==
  ASSUME IInv, NEW t \in Threads, NEW c \in Calls, CallSucceeds(t, c)
  PROVE  IInv'
<1> USE DEF IInv
<1>1. /\ pc' \in [Threads -> Places] /\ pc[t] = "idle" /\ pc'[t] = "idle"
      /\ Waiters' \ {t} = Waiters \ {t} /\ Awakers' \ {t} = Awakers \ {t}
  BY SignalMoves, SignalKeepsOthers DEF CallSucceeds, TypeOK, Places
<1>2. Waiters' = Waiters /\ Awakers' = Awakers
  BY <1>1 DEF Waiters, Awakers
<1>3. queue_' \in Seq(Elements) /\ size_' \in Nat /\ size_' = Len(queue_')
  BY EffectKeepsSize DEF CallSucceeds, TypeOK, CountersExact
<1>. QED  BY <1>1, <1>2, <1>3 DEF CallSucceeds, TypeOK, CountersExact

LEMMA ReturnWokenIInv ==
  ASSUME IInv, NEW t \in Threads, ReturnWoken(t)
  PROVE  IInv'
<1> USE DEF IInv
<1>1. /\ pc' \in [Threads -> Places] /\ pc[t] = "woken" /\ pc'[t] = "idle"
      /\ Waiters' \ {t} = Waiters \ {t} /\ Awakers' \ {t} = Awakers \ {t}
  BY SignalMoves, SignalKeepsOthers DEF ReturnWoken, TypeOK, Places
<1>2. t \in Waiters /\ Waiters' = Waiters \ {t} /\ Awakers' = Awakers
  BY <1>1 DEF Waiters, Awakers
<1>3. /\ queue_' \in Seq(Elements) /\ size_' \in Nat /\ size_' = Len(queue_')
  <2>1. CASE CanProceed(call[t]) /\ Effect(call[t])
    <3>1. call[t] \in Calls
      BY <2>1 DEF TypeOK, CanProceed, NoCall
    <3>. QED  BY <2>1, <3>1, EffectKeepsSize DEF TypeOK, CountersExact
  <2>2. CASE UNCHANGED <<queue_, size_>>
    BY <2>2 DEF TypeOK, CountersExact
  <2>. QED  BY <2>1, <2>2 DEF ReturnWoken
<1>4. Cardinality(Waiters') \in Nat /\ Cardinality(Waiters') = Cardinality(Waiters) - 1
  BY <1>2, FiniteWaiters, OneLess
<1>5. call' \in [Threads -> Calls \union {NoCall}]
  BY DEF ReturnWoken, TypeOK
<1>. QED  BY <1>1, <1>2, <1>3, <1>4, <1>5 DEF ReturnWoken, TypeOK, CountersExact

(* The steps into, within and out of a wait that leave the deque alone. *)
LEMMA WaitStepsIInv ==
  ASSUME IInv, NEW t \in Threads,
         \/ \E c \in Calls : CallWaits(t, c)
         \/ Expire(t) \/ WakeSpuriously(t) \/ SleepAgain(t)
         \/ ReturnExpired(t) \/ ReturnAwaken(t)
  PROVE  IInv'
<1> USE DEF IInv
<1>1. ASSUME NEW c \in Calls, CallWaits(t, c)
      PROVE  IInv'
  <2>1. t \notin Waiters /\ Waiters' = Waiters \union {t} /\ Awakers' = Awakers
    BY <1>1 DEF CallWaits, TypeOK, Places, Waiters, Awakers
  <2>2. Cardinality(Waiters') = Cardinality(Waiters) + 1
    BY <2>1, FiniteWaiters, OneMore
  <2>3. pc' \in [Threads -> Places]
    BY <1>1 DEF CallWaits, TypeOK, Places
  <2>4. call' \in [Threads -> Calls \union {NoCall}]
    BY <1>1 DEF CallWaits, TypeOK
  <2>5. waiting_' \in Nat /\ waiting_' = Cardinality(Waiters')
    BY <1>1, <2>2 DEF CallWaits, TypeOK, CountersExact
  <2>. QED  BY <1>1, <2>1, <2>3, <2>4, <2>5 DEF CallWaits, TypeOK, CountersExact
<1>2. CASE Expire(t) \/ WakeSpuriously(t) \/ SleepAgain(t)
  <2>1. Waiters' = Waiters /\ Awakers' = Awakers
    BY <1>2 DEF Expire, WakeSpuriously, SleepAgain, TypeOK, Places, Waiters, Awakers
  <2>. QED
    BY <1>2, <2>1
       DEF Expire, WakeSpuriously, SleepAgain, TypeOK, CountersExact, Places
<1>3. CASE ReturnExpired(t) \/ ReturnAwaken(t)
  <2>1. t \in Waiters /\ Waiters' = Waiters \ {t} /\ Awakers' = Awakers
    BY <1>3 DEF ReturnExpired, ReturnAwaken, TypeOK, Places, Waiters, Awakers
  <2>2. /\ Cardinality(Waiters') \in Nat
        /\ Cardinality(Waiters') = Cardinality(Waiters) - 1
    BY <2>1, FiniteWaiters, OneLess
  <2>. QED
    BY <1>3, <2>1, <2>2 DEF ReturnExpired, ReturnAwaken, TypeOK, CountersExact, Places
<1>. QED  BY <1>1, <1>2, <1>3

LEMMA SetMaxSizeIInv ==
  ASSUME IInv, NEW t \in Threads, NEW val \in MaxSizes, SetMaxSize(t, val)
  PROVE  IInv'
<1> USE DEF IInv
<1>1. /\ pc' \in [Threads -> Places] /\ pc[t] = "idle" /\ pc'[t] = "idle"
      /\ Waiters' \ {t} = Waiters \ {t} /\ Awakers' \ {t} = Awakers \ {t}
  BY SignalMoves, SignalKeepsOthers DEF SetMaxSize, TypeOK, Places
<1>2. Waiters' = Waiters /\ Awakers' = Awakers
  BY <1>1 DEF Waiters, Awakers
<1>. QED  BY <1>1, <1>2 DEF SetMaxSize, TypeOK, CountersExact

LEMMA AwakeStepsIInv ==
  ASSUME IInv, NEW t \in Threads, AwakeBegin(t) \/ AwakeSignal(t) \/ AwakeCheck(t)
  PROVE  IInv'
<1> USE DEF IInv
<1>1. CASE AwakeBegin(t)
  <2>1. t \notin Awakers /\ Awakers' = Awakers \union {t} /\ Waiters' = Waiters
    BY <1>1 DEF AwakeBegin, TypeOK, Places, Waiters, Awakers
  <2>2. Cardinality(Awakers') = Cardinality(Awakers) + 1
    BY <2>1, FiniteWaiters, OneMore
  <2>. QED  BY <1>1, <2>1, <2>2 DEF AwakeBegin, TypeOK, CountersExact, Places
<1>2. CASE AwakeSignal(t)
  <2>1. /\ pc' \in [Threads -> Places] /\ pc[t] = "awake_signal"
        /\ pc'[t] = "awake_check"
        /\ Waiters' \ {t} = Waiters \ {t} /\ Awakers' \ {t} = Awakers \ {t}
    BY <1>2, SignalMoves, SignalKeepsOthers DEF AwakeSignal, TypeOK, Places
  <2>2. Waiters' = Waiters /\ Awakers' = Awakers
    BY <2>1 DEF Waiters, Awakers
  <2>. QED  BY <1>2, <2>1, <2>2 DEF AwakeSignal, TypeOK, CountersExact
<1>3. CASE AwakeCheck(t)
  <2>1. CASE waiting_ # 0
    <3>1. Waiters' = Waiters /\ Awakers' = Awakers
      BY <1>3, <2>1 DEF AwakeCheck, TypeOK, Places, Waiters, Awakers
    <3>. QED  BY <1>3, <2>1, <3>1 DEF AwakeCheck, TypeOK, CountersExact, Places
  <2>2. CASE waiting_ = 0
    <3>1. t \in Awakers /\ Awakers' = Awakers \ {t} /\ Waiters' = Waiters
      BY <1>3, <2>2 DEF AwakeCheck, TypeOK, Places, Waiters, Awakers
    <3>2. /\ Cardinality(Awakers') \in Nat
          /\ Cardinality(Awakers') = Cardinality(Awakers) - 1
      BY <3>1, FiniteWaiters, OneLess
    <3>. QED  BY <1>3, <2>2, <3>1, <3>2 DEF AwakeCheck, TypeOK, CountersExact, Places
  <2>. QED  BY <2>1, <2>2
<1>. QED  BY <1>1, <1>2, <1>3

LEMMA StepIInv == IInv /\ [Next]_vars => IInv'
<1> SUFFICES ASSUME IInv, [Next]_vars PROVE IInv'
  OBVIOUS
<1>1. CASE UNCHANGED vars
  BY <1>1 DEF IInv, TypeOK, CountersExact, Waiters, Awakers, vars
<1>2. ASSUME NEW t \in Threads, NEW c \in Calls, CallRefused(t, c)
      PROVE  IInv'
  BY <1>1, <1>2 DEF CallRefused
<1>. QED
  BY <1>1, <1>2, CallSucceedsIInv, ReturnWokenIInv, WaitStepsIInv,
     SetMaxSizeIInv, AwakeStepsIInv
     DEF Next, Resume

(* In every reachable state the variables have their types and the three   *)
(* counters of the queue are exact: no way out of a wait miscounts         *)
(* waiting_, on which the end of awake() rests (Queue.hpp:129-156).        *)
THEOREM TypeAndCounters == Spec => [](TypeOK /\ CountersExact)
BY InitIInv, StepIInv, PTL DEF Spec, IInv

(* Every variable of the queue keeps to its type: no counter goes below    *)
(* zero, and the deque holds elements only.                                *)
THEOREM TypesAreKept == Spec => []TypeOK
BY TypeAndCounters, PTL

-----------------------------------------------------------------------------
(* Closing the queue strands no sleeper, by induction alone: while one     *)
(* sleeps in a closed queue another is woken, and the step by which that   *)
(* one leaves (it cannot sleep again: the queue is closed) ends with a     *)
(* signal.                                                                 *)
LEMMA StepClosing == TypeOK /\ ClosingReachesAll /\ [Next]_vars => ClosingReachesAll'
<1> SUFFICES ASSUME TypeOK, ClosingReachesAll, [Next]_vars,
                    max_size_' = 0, Asleep' # {}
             PROVE  Woken' # {}
  BY DEF ClosingReachesAll
<1> USE DEF TypeOK
<1>1. ASSUME NEW t \in Threads, NEW next \in Places, next # "asleep",
             SignalThenGo(t, next)
      PROVE  Woken' # {}
  <2>1. Asleep \ {t} # {}
    BY <1>1, SignalMoves DEF Asleep
  <2>. QED  BY <1>1, <2>1, SignalReaches DEF Woken
<1>2. CASE UNCHANGED vars
  BY <1>2 DEF vars, ClosingReachesAll, Asleep, Woken
<1>3. ASSUME NEW t \in Threads, NEW c \in Calls,
             CallSucceeds(t, c) \/ CallRefused(t, c) \/ CallWaits(t, c)
      PROVE  Woken' # {}
  BY <1>1, <1>2, <1>3 DEF CallSucceeds, CallRefused, CallWaits, Places
<1>4. ASSUME NEW t \in Threads, NEW val \in MaxSizes, SetMaxSize(t, val)
      PROVE  Woken' # {}
  BY <1>1, <1>4 DEF SetMaxSize, Places
<1>5. ASSUME NEW t \in Threads, ReturnWoken(t) \/ AwakeSignal(t)
      PROVE  Woken' # {}
  BY <1>1, <1>5 DEF ReturnWoken, AwakeSignal, Places
<1>6. ASSUME NEW t \in Threads,
             \/ AwakeBegin(t) \/ AwakeCheck(t) \/ Expire(t)
             \/ WakeSpuriously(t) \/ ReturnExpired(t)
      PROVE  Woken' # {}
  <2>1. max_size_ = 0
    BY <1>6 DEF AwakeBegin, AwakeCheck, Expire, WakeSpuriously, ReturnExpired
  <2>2. Asleep # {}
    BY <1>6 DEF AwakeBegin, AwakeCheck, Expire, WakeSpuriously, ReturnExpired, Asleep
  <2>3. PICK s \in Threads : pc[s] = "woken"
    BY <2>1, <2>2 DEF ClosingReachesAll, Woken
  <2>4. pc'[s] = "woken"
    BY <1>6, <2>3
       DEF AwakeBegin, AwakeCheck, Expire, WakeSpuriously, ReturnExpired
  <2>. QED  BY <2>4 DEF Woken
<1>7. ASSUME NEW t \in Threads, SleepAgain(t) \/ ReturnAwaken(t)
      PROVE  Woken' # {}
  BY <1>7 DEF SleepAgain, ReturnAwaken
<1>. QED  BY <1>2, <1>3, <1>4, <1>5, <1>6, <1>7 DEF Next, Resume

(* max_size(0), which signals once only, in the end reaches every sleeper  *)
(* of a queue that stays closed (Queue.hpp:119-127 and the signals at 259  *)
(* and 343): no number of threads makes the chain of signals break.        *)
THEOREM ClosingReachesEverySleeper == Spec => []ClosingReachesAll
<1>1. Init => ClosingReachesAll
  BY DEF Init, ClosingReachesAll, Asleep
<1>. QED  BY <1>1, StepClosing, TypeAndCounters, PTL DEF Spec

-----------------------------------------------------------------------------
(* Who waits has agreed to, and only a deadline expires. *)
WaitersAgreed ==
  \A t \in Waiters :
    /\ call[t] \in Calls
    /\ call[t].wait # "zero"
    /\ pc[t] = "expired" => call[t].wait = "timed"

LEMMA StepWaitersAgreed ==
  TypeOK /\ WaitersAgreed /\ [Next]_vars => WaitersAgreed'
<1> SUFFICES ASSUME TypeOK, WaitersAgreed, [Next]_vars, NEW s \in Waiters'
             PROVE  /\ call'[s] \in Calls
                    /\ call'[s].wait # "zero"
                    /\ pc'[s] = "expired" => call'[s].wait = "timed"
  BY DEF WaitersAgreed
<1> USE DEF TypeOK
<1>1. s \in Threads /\ pc'[s] \in {"asleep", "woken", "expired"}
  BY DEF Waiters
<1> DEFINE Kept == s \in Waiters /\ call'[s] = call[s] /\ (pc'[s] = "expired" => pc[s] = "expired")
<1>2. CASE Kept
  BY <1>2 DEF WaitersAgreed
<1>3. CASE UNCHANGED vars
  BY <1>1, <1>2, <1>3 DEF vars, Waiters
<1>4. ASSUME NEW t \in Threads, NEW next \in Places \ {"asleep", "woken", "expired"},
             SignalThenGo(t, next), call' = call \/ call' = [call EXCEPT ![t] = NoCall]
      PROVE  Kept
  BY <1>1, <1>4, SignalMoves DEF Waiters
<1>5. ASSUME NEW t \in Threads, NEW c \in Calls,
             CallSucceeds(t, c) \/ CallRefused(t, c)
      PROVE  Kept
  BY <1>1, <1>4, <1>5 DEF CallSucceeds, CallRefused, Places, vars, Waiters
<1>6. ASSUME NEW t \in Threads, NEW c \in Calls, CallWaits(t, c), ~Kept
      PROVE  call'[s] = c /\ c.wait # "zero" /\ pc'[s] # "expired"
  BY <1>1, <1>6 DEF CallWaits, Waiters
<1>7. ASSUME NEW t \in Threads, NEW val \in MaxSizes, SetMaxSize(t, val)
      PROVE  Kept
  BY <1>4, <1>7 DEF SetMaxSize, Places
<1>8. ASSUME NEW t \in Threads, ReturnWoken(t) \/ AwakeSignal(t)
      PROVE  Kept
  BY <1>4, <1>8 DEF ReturnWoken, AwakeSignal, Places
<1>9. ASSUME NEW t \in Threads,
             \/ AwakeBegin(t) \/ AwakeCheck(t) \/ WakeSpuriously(t)
             \/ ReturnExpired(t) \/ ReturnAwaken(t) \/ SleepAgain(t)
      PROVE  Kept
  BY <1>1, <1>9 DEF AwakeBegin, AwakeCheck, WakeSpuriously, ReturnExpired,
                    ReturnAwaken, SleepAgain, Waiters
<1>10. ASSUME NEW t \in Threads, Expire(t), ~Kept
       PROVE  s \in Waiters /\ call'[s] = call[s] /\ call[s].wait = "timed"
  BY <1>1, <1>10 DEF Expire, Waiters
<1>11. ASSUME NEW t \in Threads, Expire(t)
       PROVE  /\ call'[s] \in Calls /\ call'[s].wait # "zero"
              /\ pc'[s] = "expired" => call'[s].wait = "timed"
  BY <1>2, <1>10, <1>11 DEF WaitersAgreed
<1>. QED
  BY <1>2, <1>3, <1>5, <1>6, <1>7, <1>8, <1>9, <1>11 DEF Next, Resume

LEMMA WaitersAgreedAlways == Spec => []WaitersAgreed
<1>1. Init => WaitersAgreed
  BY DEF Init, WaitersAgreed, Waiters
<1>. QED  BY <1>1, StepWaitersAgreed, TypeAndCounters, PTL DEF Spec

-----------------------------------------------------------------------------
(* A signal that leaves somebody asleep has woken one more thread. *)
LEMMA SignalWakesOne ==
  ASSUME NEW t \in Threads, NEW next \in Places \ {"asleep", "woken"},
         pc \in [Threads -> Places], SignalThenGo(t, next), Asleep' # {}
  PROVE  \E s \in Threads : s # t /\ s \notin Woken /\ Woken' = (Woken \ {t}) \union {s}
<1>1. PICK x \in Threads : pc'[x] = "asleep"
  BY DEF Asleep
<1>2. x # t /\ pc[x] = "asleep"
  BY <1>1, SignalMoves
<1>3. PICK s \in Asleep \ {t} : pc' = [pc EXCEPT ![s] = "woken", ![t] = next]
  BY <1>2 DEF SignalThenGo, Asleep
<1>. QED  BY <1>3 DEF Woken, Asleep

(* The woken after such a signal: one more, unless the signaller was woken *)
(* itself.                                                                 *)
LEMMA SignalCounts ==
  ASSUME NEW t \in Threads, NEW next \in Places \ {"asleep", "woken"},
         pc \in [Threads -> Places], SignalThenGo(t, next), Asleep' # {}
  PROVE  /\ Asleep # {}
         /\ Cardinality(Woken) \in Nat
         /\ Cardinality(Woken') =
              IF t \in Woken THEN Cardinality(Woken) ELSE Cardinality(Woken) + 1
<1>1. IsFiniteSet(Woken)
  BY FS_Subset, QueueAssumption DEF Woken
<1>2. PICK s \in Threads :
        s # t /\ s \notin Woken /\ Woken' = (Woken \ {t}) \union {s}
  BY SignalWakesOne
<1>3. Asleep # {}
  BY SignalMoves DEF Asleep
<1>4. CASE t \in Woken
  <2>1. /\ IsFiniteSet(Woken \ {t})
        /\ Cardinality(Woken \ {t}) = Cardinality(Woken) - 1
    BY <1>1, <1>4, FS_RemoveElement
  <2>2. Cardinality(Woken') = Cardinality(Woken \ {t}) + 1
    BY <1>2, <2>1, OneMore
  <2>. QED  BY <1>1, <1>3, <1>4, <2>1, <2>2, FS_CardinalityType
<1>5. CASE t \notin Woken
  <2>1. Woken' = Woken \union {s}
    BY <1>2, <1>5
  <2>. QED  BY <1>1, <1>2, <1>3, <1>5, <2>1, OneMore
<1>. QED  BY <1>4, <1>5

(* Where producers never sleep, whoever waits is a consumer. *)
LEMMA ConsumersWait ==
  ASSUME WaitersAgreed, EnqueueWaits \subseteq {"zero"}, NEW t \in Waiters
  PROVE  call[t].op = "dequeue"
BY DEF WaitersAgreed, Calls, EnqueueCalls, DequeueCalls

(* Each element that comes in wakes one consumer more, each that is taken  *)
(* by a woken one is one element less, and who falls asleep has seen the   *)
(* queue empty.                                                            *)
LEMMA StepNoLostWakeup ==
  TypeOK /\ CountersExact /\ WaitersAgreed /\ NoLostWakeup /\ [Next]_vars => NoLostWakeup'
<1> SUFFICES ASSUME TypeOK, CountersExact, WaitersAgreed, NoLostWakeup, [Next]_vars,
                    EnqueueWaits \subseteq {"zero"}, Asleep' # {}
             PROVE  size_' <= Cardinality(Woken')
  BY DEF NoLostWakeup
<1> USE DEF TypeOK
<1>1. IsFiniteSet(Woken) /\ Cardinality(Woken) \in Nat
  BY FS_Subset, FS_CardinalityType, QueueAssumption DEF Woken
<1>2. Asleep # {} => size_ <= Cardinality(Woken)
  BY DEF NoLostWakeup
<1>4. CASE UNCHANGED vars
  BY <1>2, <1>4 DEF vars, Asleep, Woken
<1>5. ASSUME NEW t \in Threads, NEW c \in Calls, CallSucceeds(t, c)
      PROVE  size_' <= Cardinality(Woken')
  <2>1. Asleep # {} /\ Cardinality(Woken') = Cardinality(Woken) + 1
    BY <1>5, SignalCounts DEF CallSucceeds, Places, Woken
  <2>2. size_' = size_ + 1 \/ size_' = size_ - 1
    BY <1>5 DEF CallSucceeds, Effect, do_enqueue, TakeFront
  <2>. QED  BY <1>1, <1>2, <2>1, <2>2
<1>6. ASSUME NEW t \in Threads, NEW c \in Calls, CallWaits(t, c)
      PROVE  size_' <= Cardinality(Woken')
  <2>1. c.op = "dequeue"
    BY <1>6 DEF CallWaits, Calls, EnqueueCalls, DequeueCalls
  <2>2. size_' = 0 /\ Woken' = Woken
    BY <1>6, <2>1 DEF CallWaits, CanProceed, Woken
  <2>. QED  BY <1>1, <2>2
<1>7. ASSUME NEW t \in Threads, ReturnWoken(t)
      PROVE  size_' <= Cardinality(Woken')
  <2>1. call[t].op = "dequeue" /\ t \in Woken
    BY <1>7, ConsumersWait DEF ReturnWoken, Waiters, Woken
  <2>2. Asleep # {} /\ Cardinality(Woken') = Cardinality(Woken)
    BY <1>7, <2>1, SignalCounts DEF ReturnWoken, Places
  <2>3. size_' = size_ \/ size_' = size_ - 1
    BY <1>7, <2>1 DEF ReturnWoken, Effect, TakeFront
  <2>. QED  BY <1>1, <1>2, <2>2, <2>3
<1>8. ASSUME NEW t \in Threads, SleepAgain(t) \/ ReturnAwaken(t)
      PROVE  size_' <= Cardinality(Woken')
  <2>1. call[t].op = "dequeue"
    BY <1>8, ConsumersWait DEF SleepAgain, ReturnAwaken, Waiters
  <2>2. size_' = 0
    BY <1>8, <2>1 DEF SleepAgain, ReturnAwaken, CanProceed
  <2>3. Cardinality(Woken') \in Nat
    <3>1. Woken' \subseteq Threads
      BY DEF Woken
    <3>. QED  BY <3>1, FS_Subset, FS_CardinalityType, QueueAssumption
  <2>. QED  BY <2>2, <2>3
<1>9. ASSUME NEW t \in Threads,
             AwakeSignal(t) \/ \E val \in MaxSizes : SetMaxSize(t, val)
      PROVE  size_' <= Cardinality(Woken')
  <2>1. Asleep # {} /\ Cardinality(Woken') = Cardinality(Woken) + 1
    BY <1>9, SignalCounts DEF AwakeSignal, SetMaxSize, Places, Woken
  <2>2. size_' = size_
    BY <1>9 DEF AwakeSignal, SetMaxSize
  <2>. QED  BY <1>1, <1>2, <2>1, <2>2
<1>10. ASSUME NEW t \in Threads, WakeSpuriously(t)
       PROVE  size_' <= Cardinality(Woken')
  <2>1. t \in Asleep /\ t \notin Woken /\ Woken' = Woken \union {t} /\ size_' = size_
    BY <1>10 DEF WakeSpuriously, Asleep, Woken
  <2>. QED  BY <1>1, <1>2, <2>1, OneMore
<1>11. ASSUME NEW t \in Threads,
              Expire(t) \/ ReturnExpired(t) \/ AwakeBegin(t) \/ AwakeCheck(t)
       PROVE  size_' <= Cardinality(Woken')
  <2>1. size_' = size_ /\ Woken' = Woken /\ Asleep # {}
    BY <1>11 DEF Expire, ReturnExpired, AwakeBegin, AwakeCheck, Asleep, Woken
  <2>. QED  BY <1>2, <2>1
<1>12. ASSUME NEW t \in Threads, NEW c \in Calls, CallRefused(t, c)
       PROVE  size_' <= Cardinality(Woken')
  BY <1>4, <1>12 DEF CallRefused
<1>. QED
  BY <1>4, <1>5, <1>6, <1>7, <1>8, <1>9, <1>10, <1>11, <1>12 DEF Next, Resume

(* As long as producers do not sleep on event_happened_, a consumer sleeps *)
(* only while at least as many woken ones are on their way as the queue    *)
(* has elements (the signals at Queue.hpp:201, 277, 343): no wake-up is    *)
(* lost.                                                                   *)
THEOREM ConsumersLoseNoWakeup == Spec => []NoLostWakeup
<1>1. Init => NoLostWakeup
  BY DEF Init, NoLostWakeup, Asleep
<1>. QED
  BY <1>1, StepNoLostWakeup, WaitersAgreedAlways, TypeAndCounters, PTL DEF Spec

-----------------------------------------------------------------------------
(* Producers and consumers on one condition variable.  Who sleeps and who  *)
(* is woken, by what they call:                                            *)
AsleepIn(op) == {t \in Asleep : call[t].op = op}
WokenIn(op)  == {t \in Woken : call[t].op = op}

(* Woken consumers answer for the elements while a consumer sleeps, woken  *)
(* producers for what N - 1 slots would have room for while a producer     *)
(* does, and one of them for any slot.                                     *)
Answered ==
  /\ AsleepIn("dequeue") # {} => size_ <= Cardinality(WokenIn("dequeue"))
  /\ AsleepIn("enqueue") # {} =>
       Cardinality(Threads) - 1 - size_ <= Cardinality(WokenIn("enqueue"))
  /\ AsleepIn("enqueue") # {} /\ max_size_ # 0 /\ size_ < max_size_
       => WokenIn("enqueue") # {}

LEMMA FiniteWoken ==
  /\ \A op : IsFiniteSet(WokenIn(op)) /\ Cardinality(WokenIn(op)) \in Nat
  /\ \A op : IsFiniteSet(WokenIn(op)') /\ Cardinality(WokenIn(op)') \in Nat
  /\ Cardinality(Threads) \in Nat
<1>1. \A op : WokenIn(op) \subseteq Threads /\ WokenIn(op)' \subseteq Threads
  BY DEF WokenIn, Woken
<1>. QED  BY <1>1, FS_Subset, FS_CardinalityType, QueueAssumption

LEMMA DisjointUnion ==
  ASSUME NEW S, NEW T, IsFiniteSet(S), IsFiniteSet(T), S \intersect T = {}
  PROVE  /\ IsFiniteSet(S \union T)
         /\ Cardinality(S \union T) = Cardinality(S) + Cardinality(T)
<1>1. Cardinality(S \intersect T) = 0
  BY FS_EmptySet
<1>. QED  BY <1>1, FS_Union, FS_CardinalityType

(* A producer and a consumer never sleep at the same time: they would need *)
(* N - 1 others to be woken.                                               *)
LEMMA NeverBothAsleep ==
  ASSUME TypeOK, Answered
  PROVE  AsleepIn("enqueue") = {} \/ AsleepIn("dequeue") = {}
<1> SUFFICES ASSUME NEW p \in AsleepIn("enqueue"), NEW c \in AsleepIn("dequeue")
             PROVE  FALSE
  OBVIOUS
<1> DEFINE Wp == WokenIn("enqueue")
           Wc == WokenIn("dequeue")
           W  == Wp \union Wc
<1>1. /\ IsFiniteSet(Wp) /\ Cardinality(Wp) \in Nat
      /\ IsFiniteSet(Wc) /\ Cardinality(Wc) \in Nat /\ Cardinality(Threads) \in Nat
  BY FiniteWoken
<1>2. size_ <= Cardinality(Wc) /\ Cardinality(Threads) - 1 - size_ <= Cardinality(Wp)
  BY DEF Answered
<1>3. Wp \intersect Wc = {}
  BY DEF WokenIn
<1>4. p \notin W /\ c \notin W \union {p} /\ (W \union {p}) \union {c} \subseteq Threads
  BY DEF AsleepIn, WokenIn, Asleep, Woken
<1> HIDE DEF Wp, Wc
<1>5. IsFiniteSet(W) /\ Cardinality(W) = Cardinality(Wp) + Cardinality(Wc)
  BY <1>1, <1>3, DisjointUnion
<1> HIDE DEF W
<1>6. /\ IsFiniteSet(W \union {p})
      /\ Cardinality(W \union {p}) = Cardinality(W) + 1
  BY <1>4, <1>5, FS_AddElement
<1>7. Cardinality((W \union {p}) \union {c}) = Cardinality(W) + 2
  <2>1. Cardinality((W \union {p}) \union {c}) = Cardinality(W \union {p}) + 1
    BY <1>4, <1>6, OneMore
  <2>. QED  BY <1>1, <1>5, <1>6, <2>1
<1>8. Cardinality((W \union {p}) \union {c}) <= Cardinality(Threads)
  BY <1>4, FS_Subset, QueueAssumption
<1>. QED  BY <1>1, <1>2, <1>5, <1>7, <1>8 DEF TypeOK

(* So a signal that leaves somebody asleep has woken one of its kind. *)
LEMMA SignalWakesItsKind ==
  ASSUME TypeOK, WaitersAgreed, Answered,
         NEW t \in Threads, NEW next \in Places \ {"asleep", "woken", "expired"},
         SignalThenGo(t, next), pc[t] # "asleep",
         call' = call \/ call' = [call EXCEPT ![t] = NoCall],
         NEW op \in {"enqueue", "dequeue"}, AsleepIn(op)' # {}
  PROVE  /\ AsleepIn(op) # {}
         /\ \E s \in Threads :
              /\ s # t /\ s \notin WokenIn(op)
              /\ WokenIn(op)' = (WokenIn(op) \ {t}) \union {s}
<1> USE DEF TypeOK
<1>1. PICK x \in Threads : pc'[x] = "asleep" /\ call'[x].op = op
  BY DEF AsleepIn, Asleep
<1>2. x # t /\ pc[x] = "asleep" /\ call[x].op = op
  BY <1>1, SignalMoves
<1>3. x \in AsleepIn(op)
  BY <1>2 DEF AsleepIn, Asleep
<1>4. PICK s \in Asleep \ {t} : pc' = [pc EXCEPT ![s] = "woken", ![t] = next]
  BY <1>2 DEF SignalThenGo, Asleep
<1>5. s \in Threads /\ pc[s] = "asleep" /\ s # t
  BY <1>4 DEF Asleep
<1>6. call[s].op \in {"enqueue", "dequeue"}
  BY <1>5 DEF WaitersAgreed, Waiters, Calls, EnqueueCalls, DequeueCalls
<1>7. s \in AsleepIn(call[s].op)
  BY <1>5 DEF AsleepIn, Asleep
<1>8. call[s].op = op
  BY <1>3, <1>6, <1>7, NeverBothAsleep
<1>9. \A r \in Threads \ {t} : call'[r] = call[r]
  OBVIOUS
<1>10. pc' \in [Threads -> Places] /\ pc'[s] = "woken" /\ pc'[t] = next
  BY <1>4, <1>5 DEF Places
<1>11. \A r \in Threads : r # s /\ r # t => pc'[r] = pc[r]
  BY <1>4, <1>5
<1>12. s \notin WokenIn(op)
  BY <1>5 DEF WokenIn, Woken
<1>13. WokenIn(op)' = (WokenIn(op) \ {t}) \union {s}
  BY <1>5, <1>8, <1>9, <1>10, <1>11 DEF WokenIn, Woken
<1>. QED  BY <1>3, <1>5, <1>12, <1>13

(* The woken of that kind after it: one more, unless the signaller was one *)
(* of them.                                                                *)
LEMMA SignalAnswers ==
  ASSUME TypeOK, WaitersAgreed, Answered,
         NEW t \in Threads, NEW next \in Places \ {"asleep", "woken", "expired"},
         SignalThenGo(t, next), pc[t] # "asleep",
         call' = call \/ call' = [call EXCEPT ![t] = NoCall],
         NEW op \in {"enqueue", "dequeue"}, AsleepIn(op)' # {}
  PROVE  /\ AsleepIn(op) # {}
         /\ WokenIn(op)' # {}
         /\ Cardinality(WokenIn(op)') =
              IF t \in WokenIn(op)
                THEN Cardinality(WokenIn(op)) ELSE Cardinality(WokenIn(op)) + 1
<1>1. AsleepIn(op) # {}
  BY SignalWakesItsKind
<1>2. PICK s \in Threads :
        /\ s # t /\ s \notin WokenIn(op)
        /\ WokenIn(op)' = (WokenIn(op) \ {t}) \union {s}
  BY SignalWakesItsKind
<1> DEFINE W == WokenIn(op)
           V == WokenIn(op)'
<1>3. IsFiniteSet(W) /\ Cardinality(W) \in Nat
  BY FiniteWoken
<1>4. s \notin W /\ V = (W \ {t}) \union {s}
  BY <1>2
<1> HIDE DEF W, V
<1>5. CASE t \in W
  <2>1. IsFiniteSet(W \ {t}) /\ Cardinality(W \ {t}) = Cardinality(W) - 1
    BY <1>3, <1>5, FS_RemoveElement
  <2>2. Cardinality(V) = Cardinality(W \ {t}) + 1
    BY <1>4, <2>1, OneMore
  <2>3. Cardinality(V) = Cardinality(W)
    BY <1>3, <2>1, <2>2
  <2>. QED  BY <1>1, <1>4, <1>5, <2>3 DEF W, V
<1>6. CASE t \notin W
  <2>1. V = W \union {s}
    BY <1>4, <1>6
  <2>2. Cardinality(V) = Cardinality(W) + 1
    BY <1>3, <1>4, <2>1, OneMore
  <2>. QED  BY <1>1, <1>4, <1>6, <2>2 DEF W, V
<1>. QED  BY <1>5, <1>6

(* A step that ends with a signal. *)
LEMMA SignalStepsAnswer ==
  ASSUME TypeOK, WaitersAgreed, Answered, NEW t \in Threads,
         \/ \E c \in Calls : CallSucceeds(t, c)
         \/ \E val \in MaxSizes : SetMaxSize(t, val)
         \/ AwakeSignal(t)
         \/ ReturnWoken(t)
  PROVE  Answered'
<1> USE DEF TypeOK
<1>1. /\ \A op : Cardinality(WokenIn(op)) \in Nat /\ Cardinality(WokenIn(op)') \in Nat
      /\ Cardinality(Threads) \in Nat
  BY FiniteWoken
<1>2. PICK next \in {"idle", "awake_check"} :
        /\ SignalThenGo(t, next) /\ pc[t] # "asleep"
        /\ call' = call \/ call' = [call EXCEPT ![t] = NoCall]
  BY DEF CallSucceeds, SetMaxSize, AwakeSignal, ReturnWoken
<1>3. next \in Places \ {"asleep", "woken", "expired"}
  BY DEF Places
<1>4. ASSUME NEW op \in {"enqueue", "dequeue"}, AsleepIn(op)' # {}
      PROVE  /\ AsleepIn(op) # {}
             /\ WokenIn(op)' # {}
             /\ Cardinality(WokenIn(op)') =
                  IF t \in WokenIn(op)
                    THEN Cardinality(WokenIn(op)) ELSE Cardinality(WokenIn(op)) + 1
  BY <1>2, <1>3, <1>4, SignalAnswers
<1>5. size_' \in Int
  <2>1. size_' = size_ \/ size_' = size_ + 1 \/ size_' = size_ - 1
    BY DEF CallSucceeds, SetMaxSize, AwakeSignal, ReturnWoken, Effect, do_enqueue,
           TakeFront
  <2>. QED  BY <2>1
<1>6. /\ size_' <= IF t \in WokenIn("dequeue") THEN size_ ELSE size_ + 1
      /\ size_' >= IF t \in WokenIn("enqueue") THEN size_ ELSE size_ - 1
  <2>1. CASE t \in Woken
    <3>1. ReturnWoken(t)
      BY <2>1 DEF CallSucceeds, SetMaxSize, AwakeSignal, ReturnWoken, Woken
    <3>2. CASE CanProceed(call[t]) /\ Effect(call[t])
      <4>1. CASE call[t].op = "enqueue" /\ size_' = size_ + 1
        BY <4>1 DEF WokenIn
      <4>2. CASE call[t].op = "dequeue" /\ size_' = size_ - 1
        BY <2>1, <4>2 DEF WokenIn
      <4>. QED  BY <3>2, <4>1, <4>2 DEF Effect, do_enqueue, TakeFront
    <3>3. CASE size_' = size_
      BY <3>3
    <3>. QED  BY <3>1, <3>2, <3>3 DEF ReturnWoken
  <2>2. CASE t \notin Woken
    <3>1. size_' = size_ \/ size_' = size_ + 1 \/ size_' = size_ - 1
      BY DEF CallSucceeds, SetMaxSize, AwakeSignal, ReturnWoken, Effect, do_enqueue,
             TakeFront
    <3>2. t \notin WokenIn("dequeue") /\ t \notin WokenIn("enqueue")
      BY <2>2 DEF WokenIn
    <3>. QED  BY <3>1, <3>2
  <2>. QED  BY <2>1, <2>2
<1>7. ASSUME AsleepIn("dequeue")' # {}
      PROVE  size_' <= Cardinality(WokenIn("dequeue")')
  <2>1. size_ <= Cardinality(WokenIn("dequeue"))
    BY <1>4, <1>7 DEF Answered
  <2>. QED  BY <1>1, <1>4, <1>5, <1>6, <1>7, <2>1
<1>8. ASSUME AsleepIn("enqueue")' # {}
      PROVE  /\ Cardinality(Threads) - 1 - size_' <= Cardinality(WokenIn("enqueue")')
             /\ WokenIn("enqueue")' # {}
  <2>1. Cardinality(Threads) - 1 - size_ <= Cardinality(WokenIn("enqueue"))
    BY <1>4, <1>8 DEF Answered
  <2>. QED  BY <1>1, <1>4, <1>5, <1>6, <1>8, <2>1
<1>. QED  BY <1>7, <1>8 DEF Answered

(* A step that leaves the waits of a kind alone, but for a sleeper who may *)
(* wake up or expire.                                                      *)
LEMMA OneKindAnswered ==
  ASSUME TypeOK, Answered, UNCHANGED <<size_, max_size_>>,
         NEW op \in {"enqueue", "dequeue"},
         AsleepIn(op)' \subseteq AsleepIn(op), WokenIn(op) \subseteq WokenIn(op)'
  PROVE  /\ op = "dequeue" /\ AsleepIn(op)' # {} => size_' <= Cardinality(WokenIn(op)')
         /\ op = "enqueue" /\ AsleepIn(op)' # {} =>
              Cardinality(Threads) - 1 - size_' <= Cardinality(WokenIn(op)')
         /\ op = "enqueue" /\ AsleepIn(op)' # {} /\ max_size_' # 0 /\ size_' < max_size_'
              => WokenIn(op)' # {}
<1>1. Cardinality(WokenIn(op)) <= Cardinality(WokenIn(op)')
  BY FiniteWoken, FS_Subset
<1>2. /\ Cardinality(WokenIn(op)) \in Nat /\ Cardinality(WokenIn(op)') \in Nat
      /\ Cardinality(Threads) \in Nat
  BY FiniteWoken
<1>3. AsleepIn(op)' # {} => AsleepIn(op) # {}
  OBVIOUS
<1>. QED  BY <1>1, <1>2, <1>3 DEF Answered, TypeOK

(* Who goes to sleep, or stops being woken without a signal, has seen the  *)
(* queue empty, or with N - 1 elements at least and no slot.               *)
LEMMA HopelessAnswered ==
  ASSUME TypeOK, Roomy, NEW c, c.op \in {"enqueue", "dequeue"},
         ~CanProceed(c), max_size_ # 0, UNCHANGED <<size_, max_size_>>
  PROVE  /\ c.op = "dequeue" => size_' = 0
         /\ c.op = "enqueue" => /\ Cardinality(Threads) - 1 - size_' <= 0
                                /\ ~(size_' < max_size_')
<1>1. max_size_ \in Nat /\ size_ \in Nat /\ Cardinality(Threads) \in Nat
  BY QueueAssumption, FiniteWoken DEF TypeOK
<1>2. max_size_ + 1 >= Cardinality(Threads)
  BY DEF Roomy, TypeOK
<1>. QED  BY <1>1, <1>2 DEF CanProceed

LEMMA StepAnswered ==
  ASSUME TypeOK, WaitersAgreed, Roomy, Answered, [Next]_vars
  PROVE  Answered'
<1> USE DEF TypeOK
<1>1. CASE UNCHANGED vars
  BY <1>1 DEF vars, Answered, AsleepIn, WokenIn, Asleep, Woken
<1>2. ASSUME NEW t \in Threads, NEW c \in {call[t], call'[t]},
             c.op \in {"enqueue", "dequeue"},
             ~CanProceed(c), max_size_ # 0, UNCHANGED <<size_, max_size_>>,
             \A op \in {"enqueue", "dequeue"} \ {c.op} :
               AsleepIn(op)' \subseteq AsleepIn(op) /\ WokenIn(op) \subseteq WokenIn(op)'
      PROVE  Answered'
  <2>1. /\ c.op = "dequeue" => size_' = 0
        /\ c.op = "enqueue" => /\ Cardinality(Threads) - 1 - size_' <= 0
                               /\ ~(size_' < max_size_')
    BY <1>2, HopelessAnswered
  <2>2. \A op : Cardinality(WokenIn(op)') \in Nat
    BY FiniteWoken
  <2>3. Cardinality(Threads) \in Nat /\ size_' \in Nat
    BY <1>2, FiniteWoken
  <2>4. CASE c.op = "dequeue"
    <3>1. /\ AsleepIn("enqueue")' \subseteq AsleepIn("enqueue")
          /\ WokenIn("enqueue") \subseteq WokenIn("enqueue")'
      BY <1>2, <2>4
    <3>2. /\ AsleepIn("enqueue")' # {} =>
               Cardinality(Threads) - 1 - size_' <= Cardinality(WokenIn("enqueue")')
          /\ AsleepIn("enqueue")' # {} /\ max_size_' # 0 /\ size_' < max_size_'
               => WokenIn("enqueue")' # {}
      BY <1>2, <3>1, OneKindAnswered
    <3>3. size_' <= Cardinality(WokenIn("dequeue")')
      BY <2>1, <2>2, <2>4
    <3>. QED  BY <3>2, <3>3 DEF Answered
  <2>5. CASE c.op = "enqueue"
    <3>1. /\ AsleepIn("dequeue")' \subseteq AsleepIn("dequeue")
          /\ WokenIn("dequeue") \subseteq WokenIn("dequeue")'
      BY <1>2, <2>5
    <3>2. AsleepIn("dequeue")' # {} => size_' <= Cardinality(WokenIn("dequeue")')
      BY <1>2, <3>1, OneKindAnswered
    <3>3. Cardinality(Threads) - 1 - size_' <= Cardinality(WokenIn("enqueue")')
      BY <2>1, <2>2, <2>3, <2>5
    <3>. QED  BY <2>1, <2>5, <3>2, <3>3 DEF Answered
  <2>. QED  BY <1>2, <2>4, <2>5
<1>3. ASSUME NEW t \in Threads, NEW c \in Calls, CallWaits(t, c)
      PROVE  Answered'
  <2>1. c.op \in {"enqueue", "dequeue"}
    BY DEF Calls, EnqueueCalls, DequeueCalls
  <2>2. pc' = [pc EXCEPT ![t] = "asleep"] /\ call' = [call EXCEPT ![t] = c]
        /\ pc[t] = "idle" /\ call'[t] = c
    BY <1>3 DEF CallWaits
  <2>3. \A op \in {"enqueue", "dequeue"} \ {c.op} :
          AsleepIn(op)' \subseteq AsleepIn(op) /\ WokenIn(op) \subseteq WokenIn(op)'
    BY <2>2 DEF AsleepIn, WokenIn, Asleep, Woken
  <2>. QED  BY <1>2, <1>3, <2>1, <2>2, <2>3 DEF CallWaits
<1>4. ASSUME NEW t \in Threads, SleepAgain(t) \/ ReturnAwaken(t)
      PROVE  Answered'
  <2>1. pc[t] = "woken" /\ ~CanProceed(call[t]) /\ max_size_ # 0
        /\ UNCHANGED <<size_, max_size_>>
    BY <1>4 DEF SleepAgain, ReturnAwaken
  <2>2. call[t].op \in {"enqueue", "dequeue"}
    BY <2>1 DEF WaitersAgreed, Waiters, Calls, EnqueueCalls, DequeueCalls
  <2>3. /\ \A s \in Threads \ {t} : pc'[s] = pc[s] /\ call'[s] = call[s]
        /\ pc'[t] = "asleep" => call'[t] = call[t]
        /\ pc'[t] # "woken"
    BY <1>4 DEF SleepAgain, ReturnAwaken
  <2>4. \A op \in {"enqueue", "dequeue"} \ {call[t].op} :
          AsleepIn(op)' \subseteq AsleepIn(op) /\ WokenIn(op) \subseteq WokenIn(op)'
    BY <2>3 DEF AsleepIn, WokenIn, Asleep, Woken
  <2>. QED  BY <1>2, <2>1, <2>2, <2>4
<1>5. ASSUME NEW t \in Threads,
             \/ WakeSpuriously(t) \/ Expire(t) \/ ReturnExpired(t)
             \/ AwakeBegin(t) \/ AwakeCheck(t)
      PROVE  Answered'
  <2>1. UNCHANGED <<size_, max_size_>>
    BY <1>5 DEF WakeSpuriously, Expire, ReturnExpired, AwakeBegin, AwakeCheck
  <2>2. /\ \A s \in Threads \ {t} : pc'[s] = pc[s] /\ call'[s] = call[s]
        /\ pc'[t] # "asleep" /\ pc[t] # "woken"
    BY <1>5 DEF WakeSpuriously, Expire, ReturnExpired, AwakeBegin, AwakeCheck
  <2>3. \A op : AsleepIn(op)' \subseteq AsleepIn(op) /\ WokenIn(op) \subseteq WokenIn(op)'
    BY <2>2 DEF AsleepIn, WokenIn, Asleep, Woken
  <2>4. AsleepIn("dequeue")' # {} => size_' <= Cardinality(WokenIn("dequeue")')
    BY <2>1, <2>3, OneKindAnswered
  <2>5. /\ AsleepIn("enqueue")' # {} =>
             Cardinality(Threads) - 1 - size_' <= Cardinality(WokenIn("enqueue")')
        /\ AsleepIn("enqueue")' # {} /\ max_size_' # 0 /\ size_' < max_size_'
             => WokenIn("enqueue")' # {}
    BY <2>1, <2>3, OneKindAnswered
  <2>. QED  BY <2>4, <2>5 DEF Answered
<1>6. ASSUME NEW t \in Threads, NEW c \in Calls, CallRefused(t, c)
      PROVE  Answered'
  BY <1>1, <1>6 DEF CallRefused
<1>. QED
  BY <1>1, <1>3, <1>4, <1>5, <1>6, SignalStepsAnswer DEF Next, Resume

(* Where the queue has a slot for every thread but one, the signal that    *)
(* producers and consumers share never goes to the wrong kind for good     *)
(* (Queue.hpp:201, 259, 277, 343): while a call sleeps that could proceed, *)
(* a woken thread of its kind is on its way.                               *)
THEOREM TheRightKindIsWoken == Spec => []NobodySleepsInVain
<1>1. CASE ~Roomy
  <2>1. NobodySleepsInVain
    BY <1>1 DEF NobodySleepsInVain
  <2>. QED  BY <2>1, PTL
<1>2. CASE Roomy
  <2>1. Init => Answered
    BY DEF Init, Answered, AsleepIn, Asleep
  <2>2. TypeOK /\ WaitersAgreed /\ Answered /\ [Next]_vars => Answered'
    BY <1>2, StepAnswered
  <2>3. TypeOK /\ WaitersAgreed /\ Answered => NobodySleepsInVain
    <3> SUFFICES ASSUME TypeOK, WaitersAgreed, Answered,
                        NEW t \in Asleep, CanProceed(call[t])
                 PROVE  \E s \in Woken : call[s].op = call[t].op
      BY DEF NobodySleepsInVain
    <3>1. t \in Waiters /\ t \in AsleepIn(call[t].op)
      BY DEF Asleep, Waiters, AsleepIn
    <3>2. call[t].op \in {"enqueue", "dequeue"}
      BY <3>1 DEF WaitersAgreed, Calls, EnqueueCalls, DequeueCalls
    <3>3. WokenIn(call[t].op) # {}
      <4>1. CASE call[t].op = "dequeue" /\ size_ > 0
        <5>1. size_ <= Cardinality(WokenIn("dequeue"))
          BY <3>1, <4>1 DEF Answered
        <5>2. Cardinality(WokenIn("dequeue")) # 0
          BY <4>1, <5>1 DEF TypeOK
        <5>. QED  BY <4>1, <5>2, FS_EmptySet
      <4>2. CASE call[t].op = "enqueue" /\ size_ < max_size_
        <5>1. max_size_ # 0
          BY <4>2 DEF TypeOK
        <5>. QED  BY <3>1, <4>2, <5>1 DEF Answered
      <4>. QED  BY <3>2, <4>1, <4>2 DEF CanProceed
    <3>. QED  BY <3>3 DEF WokenIn
  <2>. QED  BY <2>1, <2>2, <2>3, TypeAndCounters, WaitersAgreedAlways, PTL DEF Spec
<1>. QED  BY <1>1, <1>2

-----------------------------------------------------------------------------
(* The monitor implements BlockingQueue.                                   *)

(* The calls that BlockingQueue sees blocked. *)
Blocked == [t \in Threads |-> IF t \in Waiters THEN call[t] ELSE NoCall]

(* Wherever do_enqueue puts the element, Effect allows. *)
LEMMA DoEnqueueInserts ==
  ASSUME NEW e \in Elements, NEW strategy, do_enqueue(e, strategy),
         queue_ \in Seq(Elements), size_ = Len(queue_)
  PROVE  \E i \in Abstract!Place(strategy) :
           queue_' = SubSeq(queue_, 1, i) \o <<e>> \o SubSeq(queue_, i + 1, Len(queue_))
<1>1. /\ Len(queue_) \in Nat /\ <<e>> \in Seq(Elements)
      /\ SubSeq(queue_, 1, Len(queue_)) = queue_
  BY LenProperties, SubSeqFull
<1>2. CASE strategy = "back" /\ queue_' = Append(queue_, e)
  <2>1. Append(queue_, e) = queue_ \o <<e>>
    BY AppendIsConcat
  <2>2. SubSeq(queue_, Len(queue_) + 1, Len(queue_)) = <<>>
    BY <1>1, SubSeqEmpty
  <2>3. queue_ \o <<e>> \in Seq(Elements)
    BY <1>1, ConcatProperties
  <2>4. (queue_ \o <<e>>) \o <<>> = queue_ \o <<e>>
    BY <2>3, ConcatEmptySeq
  <2>5. queue_' = SubSeq(queue_, 1, Len(queue_)) \o <<e>>
                    \o SubSeq(queue_, Len(queue_) + 1, Len(queue_))
    BY <1>1, <1>2, <2>1, <2>2, <2>4, Zenon
  <2>. QED  BY <1>2, <2>5 DEF Abstract!Place
<1>3. CASE strategy = "front" /\ queue_' = <<e>> \o queue_
  <2>1. SubSeq(queue_, 1, 0) = <<>> /\ <<>> \o <<e>> = <<e>>
    BY <1>1, SubSeqEmpty, ConcatEmptySeq
  <2>2. queue_' = SubSeq(queue_, 1, 0) \o <<e>> \o SubSeq(queue_, 0 + 1, Len(queue_))
    BY <1>1, <1>3, <2>1
  <2>. QED  BY <1>3, <2>2 DEF Abstract!Place
<1>4. CASE strategy = "random" /\ \E i \in 0 .. size_ : queue_' = InsertedAt(i, e)
  BY <1>4 DEF Abstract!Place, InsertedAt
<1>. QED  BY <1>2, <1>3, <1>4 DEF do_enqueue

LEMMA CanProceedIsEnabled ==
  ASSUME NEW c, queue_ \in Seq(Elements), size_ = Len(queue_)
  PROVE  CanProceed(c) <=> Abstract!Enabled(c)
BY EmptySeq, LenProperties DEF CanProceed, Abstract!Enabled

LEMMA EffectIsEffect ==
  ASSUME NEW c \in Calls, Effect(c), queue_ \in Seq(Elements), size_ = Len(queue_)
  PROVE  Abstract!Effect(c)
<1>1. CASE c.op = "enqueue" /\ do_enqueue(c.element, c.strategy)
  <2>1. c.element \in Elements
    BY <1>1 DEF Calls, EnqueueCalls, DequeueCalls
  <2>. QED  BY <1>1, <2>1, DoEnqueueInserts DEF Abstract!Effect
<1>2. CASE c.op = "dequeue" /\ TakeFront
  BY <1>2 DEF TakeFront, Abstract!Effect
<1>. QED  BY <1>1, <1>2 DEF Effect

(* What a step does to the blocked calls and to the awakers, by its signal. *)
LEMMA SignalKeepsBlocked ==
  ASSUME NEW t \in Threads, NEW next \in Places \ {"asleep", "woken", "expired"},
         pc \in [Threads -> Places], call \in [Threads -> Calls \union {NoCall}],
         SignalThenGo(t, next), call' = call \/ call' = [call EXCEPT ![t] = NoCall]
  PROVE  Blocked' = [Blocked EXCEPT ![t] = NoCall]
<1>1. pc' \in [Threads -> Places] /\ t \notin Waiters'
  BY SignalMoves DEF Waiters
<1>2. \A s \in Threads \ {t} : s \in Waiters' <=> s \in Waiters
  BY SignalMoves DEF Waiters
<1>3. \A s \in Threads \ {t} : call'[s] = call[s]
  OBVIOUS
<1>. QED  BY <1>1, <1>2, <1>3 DEF Blocked

(* Calls from outside: each is a step of BlockingQueue, or fails at once,  *)
(* which is none.                                                          *)
LEMMA CallsImplement ==
  ASSUME TypeOK, CountersExact, NEW t \in Threads, NEW c \in Calls,
         CallSucceeds(t, c) \/ CallWaits(t, c)
  PROVE  Abstract!Succeed(t, c) \/ Abstract!Block(t, c)
<1> USE DEF TypeOK, CountersExact
<1>1. pc[t] = "idle" /\ t \notin Waiters /\ Blocked[t] = NoCall
  BY DEF CallSucceeds, CallWaits, Waiters, Blocked
<1>2. CanProceed(c) <=> Abstract!Enabled(c)
  BY CanProceedIsEnabled
<1>3. CASE CallSucceeds(t, c)
  <2>1. Abstract!Effect(c)
    BY <1>3, EffectIsEffect DEF CallSucceeds
  <2>2. Blocked' = [Blocked EXCEPT ![t] = NoCall]
    BY <1>3, SignalKeepsBlocked DEF CallSucceeds, Places
  <2>3. Awakers' = Awakers
    BY <1>1, <1>3, SignalMoves DEF CallSucceeds, Awakers, Places
  <2>. QED
    BY <1>1, <1>2, <1>3, <2>1, <2>2, <2>3 DEF CallSucceeds, Abstract!Succeed, Blocked
<1>4. CASE CallWaits(t, c)
  <2>1. Awakers = {} /\ Awakers' = Awakers
    BY <1>1, <1>4, FiniteWaiters, FS_EmptySet DEF CallWaits, Awakers
  <2>2. Waiters' = Waiters \union {t} /\ call' = [call EXCEPT ![t] = c]
    BY <1>1, <1>4 DEF CallWaits, Waiters
  <2>3. Blocked' = [Blocked EXCEPT ![t] = c]
    BY <2>2 DEF Blocked
  <2>. QED
    BY <1>1, <1>2, <1>4, <2>1, <2>3 DEF CallWaits, Abstract!Block, Blocked
<1>. QED  BY <1>3, <1>4

(* A blocked call ends as BlockingQueue lets it end. *)
LEMMA ReturnsImplement ==
  ASSUME TypeOK, CountersExact, WaitersAgreed, NEW t \in Threads,
         ReturnWoken(t) \/ ReturnExpired(t) \/ ReturnAwaken(t)
  PROVE  (\E c \in Calls : Abstract!Succeed(t, c)) \/ Abstract!GiveUp(t)
<1> USE DEF TypeOK, CountersExact
<1>1. t \in Waiters /\ Blocked[t] = call[t] /\ call[t] \in Calls
  BY DEF ReturnWoken, ReturnExpired, ReturnAwaken, Waiters, Blocked, WaitersAgreed
<1>2. Blocked[t] # NoCall
  BY <1>1 DEF Calls, EnqueueCalls, DequeueCalls, NoCall
<1>3. CanProceed(call[t]) <=> Abstract!Enabled(call[t])
  BY CanProceedIsEnabled
<1>4. CASE ReturnWoken(t)
  <2>1. Blocked' = [Blocked EXCEPT ![t] = NoCall]
    BY <1>4, SignalKeepsBlocked DEF ReturnWoken, Places
  <2>2. Awakers' = Awakers
    BY <1>4, SignalMoves DEF ReturnWoken, Awakers, Places
  <2>3. CASE CanProceed(call[t]) /\ Effect(call[t])
    BY <1>1, <1>3, <1>4, <2>1, <2>2, <2>3, EffectIsEffect
       DEF ReturnWoken, Abstract!Succeed, Blocked
  <2>4. CASE ~CanProceed(call[t]) /\ max_size_ = 0 /\ UNCHANGED <<queue_, size_>>
    BY <1>1, <1>2, <1>3, <1>4, <2>1, <2>2, <2>4 DEF ReturnWoken, Abstract!GiveUp, Blocked
  <2>. QED  BY <1>4, <2>3, <2>4 DEF ReturnWoken
<1>5. CASE ReturnExpired(t) \/ ReturnAwaken(t)
  <2>1. Waiters' = Waiters \ {t} /\ Awakers' = Awakers
    BY <1>5 DEF ReturnExpired, ReturnAwaken, Waiters, Awakers
  <2>2. Blocked' = [Blocked EXCEPT ![t] = NoCall]
    BY <1>5, <2>1 DEF ReturnExpired, ReturnAwaken, Blocked
  <2>3. \/ call[t].wait = "timed"
        \/ ~Abstract!Enabled(call[t]) /\ Awakers # {}
    <3>1. CASE ReturnExpired(t)
      BY <1>1, <3>1 DEF ReturnExpired, WaitersAgreed
    <3>2. CASE ReturnAwaken(t)
      <4>1. Awakers # {}
        BY <3>2, FiniteWaiters, FS_EmptySet DEF ReturnAwaken
      <4>. QED  BY <1>3, <3>2, <4>1 DEF ReturnAwaken
    <3>. QED  BY <1>5, <3>1, <3>2
  <2>. QED
    BY <1>1, <1>2, <1>5, <2>1, <2>2, <2>3
       DEF ReturnExpired, ReturnAwaken, Abstract!GiveUp, Blocked
<1>. QED  BY <1>4, <1>5

(* max_size() and the two ends of awake(). *)
LEMMA OwnerImplements ==
  ASSUME TypeOK, CountersExact, NEW t \in Threads,
         \/ \E val \in MaxSizes : SetMaxSize(t, val)
         \/ AwakeBegin(t)
         \/ AwakeCheck(t) /\ waiting_ = 0
  PROVE  Abstract!Resize \/ Abstract!StartAwake(t) \/ Abstract!FinishAwake(t)
<1> USE DEF TypeOK, CountersExact
<1>1. t \notin Waiters /\ Blocked[t] = NoCall
  BY DEF SetMaxSize, AwakeBegin, AwakeCheck, Waiters, Blocked
<1>2. ASSUME NEW val \in MaxSizes, SetMaxSize(t, val)
      PROVE  Abstract!Resize
  <2>1. Blocked' = [Blocked EXCEPT ![t] = NoCall]
    BY <1>2, SignalKeepsBlocked DEF SetMaxSize, Places
  <2>2. Blocked' = Blocked
    BY <1>1, <2>1 DEF Blocked
  <2>3. Awakers' = Awakers
    BY <1>2, SignalMoves DEF SetMaxSize, Awakers, Places
  <2>. QED  BY <1>2, <2>2, <2>3 DEF SetMaxSize, Abstract!Resize, Blocked
<1>3. CASE AwakeBegin(t)
  <2>1. Awakers' = Awakers \union {t} /\ Waiters' = Waiters
    BY <1>3 DEF AwakeBegin, Awakers, Waiters
  <2>. QED  BY <1>1, <1>3, <2>1 DEF AwakeBegin, Abstract!StartAwake, Blocked
<1>4. CASE AwakeCheck(t) /\ waiting_ = 0
  <2>1. Waiters = {}
    BY <1>4, FiniteWaiters, FS_EmptySet
  <2>2. Awakers' = Awakers \ {t} /\ Waiters' = Waiters
    BY <1>4 DEF AwakeCheck, Awakers, Waiters
  <2>. QED  BY <1>4, <2>1, <2>2 DEF AwakeCheck, Abstract!FinishAwake, Blocked
<1>. QED  BY <1>2, <1>3, <1>4

(* How the calls sleep is nobody's business but the queue's. *)
LEMMA SleepIsInvisible ==
  ASSUME TypeOK, NEW t \in Threads,
         \/ \E c \in Calls : CallRefused(t, c)
         \/ Expire(t) \/ WakeSpuriously(t) \/ SleepAgain(t)
         \/ AwakeSignal(t)
         \/ AwakeCheck(t) /\ waiting_ # 0
  PROVE  UNCHANGED Abstract!vars
<1> USE DEF TypeOK
<1>1. CASE UNCHANGED vars
  BY <1>1 DEF vars, Abstract!vars, Waiters, Awakers
<1>2. CASE AwakeSignal(t)
  <2>1. Waiters' = Waiters /\ Awakers' = Awakers
    BY <1>2, SignalMoves DEF AwakeSignal, Waiters, Awakers, Places
  <2>. QED  BY <1>2, <2>1 DEF AwakeSignal, Abstract!vars
<1>3. CASE \/ Expire(t) \/ WakeSpuriously(t) \/ SleepAgain(t)
           \/ AwakeCheck(t) /\ waiting_ # 0
  <2>1. Waiters' = Waiters /\ Awakers' = Awakers
    BY <1>3 DEF Expire, WakeSpuriously, SleepAgain, AwakeCheck, Waiters, Awakers
  <2>. QED
    BY <1>3, <2>1 DEF Expire, WakeSpuriously, SleepAgain, AwakeCheck, Abstract!vars
<1>. QED  BY <1>1, <1>2, <1>3 DEF CallRefused

LEMMA StepImplements ==
  TypeOK /\ CountersExact /\ WaitersAgreed /\ [Next]_vars
    => [Abstract!Next]_(Abstract!vars)
<1> SUFFICES ASSUME TypeOK, CountersExact, WaitersAgreed, [Next]_vars
             PROVE  Abstract!Next \/ UNCHANGED Abstract!vars
  OBVIOUS
<1>1. CASE UNCHANGED vars
  BY <1>1 DEF vars, Abstract!vars, Waiters, Awakers
<1>2. ASSUME NEW t \in Threads, NEW c \in Calls,
             CallSucceeds(t, c) \/ CallWaits(t, c)
      PROVE  Abstract!Next
  BY <1>2, CallsImplement DEF Abstract!Next
<1>3. ASSUME NEW t \in Threads, ReturnWoken(t) \/ ReturnExpired(t) \/ ReturnAwaken(t)
      PROVE  Abstract!Next
  BY <1>3, ReturnsImplement DEF Abstract!Next
<1>4. ASSUME NEW t \in Threads,
             \/ \E val \in MaxSizes : SetMaxSize(t, val)
             \/ AwakeBegin(t)
             \/ AwakeCheck(t) /\ waiting_ = 0
      PROVE  Abstract!Next
  BY <1>4, OwnerImplements DEF Abstract!Next
<1>5. ASSUME NEW t \in Threads,
             \/ \E c \in Calls : CallRefused(t, c)
             \/ Expire(t) \/ WakeSpuriously(t) \/ SleepAgain(t)
             \/ AwakeSignal(t)
             \/ AwakeCheck(t) /\ waiting_ # 0
      PROVE  UNCHANGED Abstract!vars
  BY <1>5, SleepIsInvisible
<1>. QED
  BY <1>1, <1>2, <1>3, <1>4, <1>5 DEF Next, Resume

(* For any number of threads, the monitor with its one condition variable  *)
(* is a blocking queue: elements are neither lost nor delivered twice, the *)
(* strategies decide the order, a call fails for the stated reasons only   *)
(* and awake() returns only when nobody waits.                             *)
THEOREM QueueImplementsBlockingQueue == Spec => ImplementsBlockingQueue
<1>1. Init => Abstract!Init
  BY DEF Init, Abstract!Init, Waiters, Awakers
<1>. QED
  BY <1>1, StepImplements, TypeAndCounters, WaitersAgreedAlways, PTL
     DEF Spec, ImplementsBlockingQueue, Abstract!Spec
=============================================================================

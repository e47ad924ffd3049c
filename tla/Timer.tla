-------------------------------- MODULE Timer --------------------------------
(***************************************************************************)
(* El::Service::Timer: a thread triggers events at their times.  Events    *)
(* are kept in a list of backets, each a sorted list of events with the    *)
(* bounds of their times; a long backet is split, so that set() has little *)
(* to search.                                                              *)
(*                                                                         *)
(* set() writes event->time before it takes srv_lock_; what it does under  *)
(* the lock is one step, and so is each turn of run() up to its trigger or *)
(* its wait.  An iterator into the list of backets is a position; 0 stands *)
(* for end().                                                              *)
(***************************************************************************)
EXTENDS Integers, Sequences, FiniteSets

CONSTANTS
  Events,
  Setters,          \* threads that call set, start, stop, clear_buckets
  MaxTime,          \* bound: the clock and the times of events
  MaxSets,          \* bound: calls of set
  SplitOver,        \* 4 in set(): a backet this short is never split
  minimize_delay_,
  Stops,            \* TRUE: the timer may be stopped, restarted and cleared
  TriggerThrows     \* TRUE: an event's trigger() may throw

ASSUME TimerAssumption ==
  /\ MaxTime \in Nat /\ MaxSets \in Nat /\ SplitOver \in Nat \ {0}
  /\ minimize_delay_ \in BOOLEAN
  /\ Stops \in BOOLEAN /\ TriggerThrows \in BOOLEAN
  /\ "timer" \notin Setters /\ "none" \notin Events

VARIABLES
  backets_, last_backet_, backets_count_,
  time,       \* time[e]: event->time
  avg_delay_,
  stop_,
  at,         \* at[t]: where a thread is; "timer" is the timer's own
  request,    \* request[t]: the arguments of t's call of set
  deadline,   \* until when the timer's thread waits; Never: no timeout
  now,        \* the clock
  sets,       \* calls of set made so far
  worst,      \* history: the worst delay of a wake-up
  doomed      \* history: the events that were queued when stop() was called

listVars == <<backets_, last_backet_, backets_count_>>
vars == <<listVars, time, avg_delay_, stop_, at, request, deadline, now, sets,
          worst, doomed>>

Threads == Setters \union {"timer"}
Times == 0 .. MaxTime
Never == MaxTime + 1
NoRequest == [event |-> "none", time |-> 0]

Init ==
  /\ backets_ = <<>> /\ last_backet_ = 0 /\ backets_count_ = 0
  /\ time = [e \in Events |-> 0]
  /\ avg_delay_ = 0
  /\ stop_ = FALSE
  /\ at = [t \in Threads |-> IF t = "timer" THEN "run" ELSE "idle"]
  /\ request = [t \in Threads |-> NoRequest]
  /\ deadline = Never
  /\ now = 0
  /\ sets = 0
  /\ worst = 0
  /\ doomed = {}

-----------------------------------------------------------------------------
(* The list of backets. *)
EventsOf(s) == {s[i] : i \in DOMAIN s}
Queued == UNION {EventsOf(backets_[i].events) : i \in DOMAIN backets_}

Least(S) == CHOOSE i \in S : \A j \in S : i <= j

(* The backet an event goes into. *)
Place(tm) ==
  IF tm >= backets_[last_backet_].min_time
  THEN last_backet_
  ELSE Least({i \in DOMAIN backets_ : tm <= backets_[i].max_time})

TooLong(b) == b.events_count > backets_count_ /\ b.events_count > SplitOver

(* A backet that is too long is split in two. *)
Halves(b) ==
  LET skip == b.events_count \div 2
      old == [events |-> SubSeq(b.events, skip + 1, Len(b.events)),
              events_count |-> b.events_count - skip,
              min_time |-> time[b.events[skip + 1]],
              max_time |-> b.max_time]
      new == [events |-> SubSeq(b.events, 1, skip),
              events_count |-> skip,
              min_time |-> time[b.events[1]],
              max_time |-> time[b.events[skip]]]
  IN  <<new, old>>

(* Mutant: bounds are not widened. *)
WithEventNoBounds(b, e, tm) ==
  LET rest == {i \in DOMAIN b.events : tm <= time[b.events[i]]}
      k == IF rest = {} THEN Len(b.events) + 1 ELSE Least(rest)
  IN  [b EXCEPT !.events = SubSeq(b.events, 1, k - 1) \o <<e>>
                             \o SubSeq(b.events, k, Len(b.events)),
                !.events_count = @ + 1]

(* An event enters a backet before the events that are not earlier. *)
WithEvent(b, e, tm) ==
  LET rest == {i \in DOMAIN b.events : tm <= time[b.events[i]]}
      k == IF b.min_time >= tm THEN 1
           ELSE IF b.max_time <= tm THEN Len(b.events) + 1
           ELSE Least(rest)
  IN  [events |-> SubSeq(b.events, 1, k - 1) \o <<e>>
                    \o SubSeq(b.events, k, Len(b.events)),
       events_count |-> b.events_count + 1,
       min_time |-> IF b.min_time >= tm THEN tm ELSE b.min_time,
       max_time |-> IF b.min_time < tm /\ b.max_time <= tm THEN tm
                    ELSE b.max_time]

(* Backet i is replaced by the backets of s. *)
Replaced(i, s) ==
  SubSeq(backets_, 1, i - 1) \o s \o SubSeq(backets_, i + 1, Len(backets_))

InsertFirst(e, tm) ==
  /\ backets_count_ = 0
  /\ backets_' = Append(backets_, [events |-> <<e>>, events_count |-> 1,
                                   min_time |-> tm, max_time |-> tm])
  /\ last_backet_' = 1
  /\ backets_count_' = 1

InsertWhole(e, tm) ==
  /\ backets_count_ # 0
  /\ LET i == Place(tm)
     IN  /\ ~TooLong(backets_[i])
         /\ backets_' = Replaced(i, <<WithEvent(backets_[i], e, tm)>>)
  /\ UNCHANGED <<last_backet_, backets_count_>>

(* Mutant: after the split the event goes into the second half. *)
InsertSplitSecond(e, tm) ==
  /\ backets_count_ # 0
  /\ LET i == Place(tm)
         h == Halves(backets_[i])
     IN  /\ TooLong(backets_[i])
         /\ backets_' = Replaced(i, <<h[1], WithEvent(h[2], e, tm)>>)
         /\ last_backet_' = IF last_backet_ >= i THEN last_backet_ + 1
                            ELSE last_backet_
         /\ backets_count_' = backets_count_ + 1

InsertSplit(e, tm) ==
  /\ backets_count_ # 0
  /\ LET i == Place(tm)
         h == Halves(backets_[i])
     IN  /\ TooLong(backets_[i])
         /\ backets_' = Replaced(i, IF tm <= h[1].max_time
                                    THEN <<WithEvent(h[1], e, tm), h[2]>>
                                    ELSE <<h[1], WithEvent(h[2], e, tm)>>)
         /\ last_backet_' = IF last_backet_ >= i THEN last_backet_ + 1
                            ELSE last_backet_
         /\ backets_count_' = backets_count_ + 1

Clear ==
  /\ backets_' = <<>> /\ last_backet_' = 0 /\ backets_count_' = 0

(* The first event is taken out; a backet it leaves empty is erased. *)
RemoveFirst ==
  LET b == backets_[1]
      rest == Tail(b.events)
  IN  IF rest = <<>>
      THEN /\ backets_' = Tail(backets_)
           /\ backets_count_' = backets_count_ - 1
           /\ last_backet_' = IF backets_count_' = 0 THEN 0
                              ELSE last_backet_ - 1
      ELSE /\ backets_' = Replaced(1, <<[events |-> rest,
                                         events_count |-> b.events_count - 1,
                                         min_time |-> time[Head(rest)],
                                         max_time |-> time[rest[Len(rest)]]]>>)
           /\ UNCHANGED <<backets_count_, last_backet_>>

First == backets_[1].events[1]

-----------------------------------------------------------------------------
(* set().  A setter is outside any call, or the timer's thread is inside a *)
(* trigger(), which may call set for its own event or another.  set() is   *)
(* not called for an event that is queued: it would change, with no lock,  *)
(* the time the lists are sorted by.                                       *)
MaySet(t) == at[t] = IF t = "timer" THEN "trigger" ELSE "idle"
Requested == {request[t].event : t \in Threads}
Settable == Events \ (Queued \union Requested)

(* Up to the lock; an event whose time has come is triggered by the caller *)
SetBegin(t) ==
  /\ MaySet(t)
  /\ sets < MaxSets
  /\ sets' = sets + 1
  /\ \E e \in Settable, tm \in Times :
       /\ time' = [time EXCEPT ![e] = tm]
       /\ IF tm <= now
          THEN UNCHANGED <<request, at>>
          ELSE /\ request' = [request EXCEPT ![t] = [event |-> e, time |-> tm]]
               /\ at' = [at EXCEPT ![t] = "insert"]
       /\ doomed' = doomed \ {e}
  /\ UNCHANGED <<listVars, avg_delay_, stop_, deadline, now, worst>>

Woken(f) == [f EXCEPT !["timer"] = IF @ = "wait" THEN "run" ELSE @]

(* Mutant: no signal. *)
SetInsertSilent(t) ==
  /\ at[t] = "insert"
  /\ LET e == request[t].event
         tm == request[t].time
     IN  InsertFirst(e, tm) \/ InsertWhole(e, tm) \/ InsertSplit(e, tm)
  /\ at' = [at EXCEPT ![t] = IF t = "timer" THEN "trigger" ELSE "idle"]
  /\ request' = [request EXCEPT ![t] = NoRequest]
  /\ UNCHANGED <<time, avg_delay_, stop_, deadline, now, sets, worst, doomed>>

SetInsert(t) ==
  /\ at[t] = "insert"
  /\ LET e == request[t].event
         tm == request[t].time
     IN  InsertFirst(e, tm) \/ InsertWhole(e, tm) \/ InsertSplit(e, tm)
  /\ at' = Woken([at EXCEPT ![t] = IF t = "timer" THEN "trigger" ELSE "idle"])
  /\ request' = [request EXCEPT ![t] = NoRequest]
  /\ UNCHANGED <<time, avg_delay_, stop_, deadline, now, sets, worst, doomed>>

(* Mutant: the events stay. *)
RunStopsKeeping ==
  /\ at["timer"] = "run"
  /\ stop_
  /\ at' = [at EXCEPT !["timer"] = "off"]
  /\ UNCHANGED <<listVars, time, avg_delay_, stop_, request, deadline, now,
                 sets, worst, doomed>>

-----------------------------------------------------------------------------
(* run(), one turn. *)
RunStops ==
  /\ at["timer"] = "run"
  /\ stop_
  /\ Clear
  /\ at' = [at EXCEPT !["timer"] = "off"]
  /\ UNCHANGED <<time, avg_delay_, stop_, request, deadline, now, sets, worst,
                 doomed>>

Due ==
  \/ time[First] <= now
  \/ minimize_delay_ /\ time[First] - now <= avg_delay_

RunTriggers ==
  /\ at["timer"] = "run"
  /\ ~stop_
  /\ backets_ # <<>>
  /\ Due
  /\ RemoveFirst
  /\ at' = [at EXCEPT !["timer"] = "trigger"]
  /\ UNCHANGED <<time, avg_delay_, stop_, request, deadline, now, sets, worst,
                 doomed>>

RunWaits ==
  /\ at["timer"] = "run"
  /\ ~stop_
  /\ backets_ # <<>> => ~Due
  /\ deadline' = IF backets_ = <<>> THEN Never
                 ELSE IF minimize_delay_ THEN time[First] - avg_delay_
                 ELSE time[First]
  /\ at' = [at EXCEPT !["timer"] = "wait"]
  /\ UNCHANGED <<listVars, time, avg_delay_, stop_, request, now, sets, worst,
                 doomed>>

(* Mutant: the delay is not smoothed. *)
NewAverageUnsmoothed(delay) == delay

NewAverage(delay) == (avg_delay_ + delay) \div 3

(* The timeout of event_happened_.wait. *)
TimesOut ==
  /\ at["timer"] = "wait"
  /\ deadline # Never
  /\ now >= deadline
  /\ IF minimize_delay_
     THEN /\ avg_delay_' = NewAverage(now - deadline)
          /\ worst' = IF now - deadline > worst THEN now - deadline ELSE worst
     ELSE UNCHANGED <<avg_delay_, worst>>
  /\ at' = [at EXCEPT !["timer"] = "run"]
  /\ UNCHANGED <<listVars, time, stop_, request, deadline, now, sets, doomed>>

WakesSpuriously ==
  /\ at["timer"] = "wait"
  /\ at' = Woken(at)
  /\ UNCHANGED <<listVars, time, avg_delay_, stop_, request, deadline, now,
                 sets, worst, doomed>>

TriggerReturns ==
  /\ at["timer"] = "trigger"
  /\ at' = [at EXCEPT !["timer"] = "run"]
  /\ UNCHANGED <<listVars, time, avg_delay_, stop_, request, deadline, now,
                 sets, worst, doomed>>

(* The exception ends the thread (ServiceBase::exec_thread_func) and, unlike *)
(* a stop, clears nothing.                                                 *)
TriggerFails ==
  /\ TriggerThrows
  /\ at["timer"] = "trigger"
  /\ at' = [at EXCEPT !["timer"] = "off"]
  /\ doomed' = {}
  /\ UNCHANGED <<listVars, time, avg_delay_, stop_, request, deadline, now,
                 sets, worst>>

-----------------------------------------------------------------------------
(* ServiceBase::start and stop. *)
Start ==
  /\ Stops
  /\ at["timer"] = "off"
  /\ stop_' = FALSE
  /\ at' = [at EXCEPT !["timer"] = "run"]
  /\ UNCHANGED <<listVars, time, avg_delay_, request, deadline, now, sets,
                 worst, doomed>>

StopBegin(t) ==
  /\ Stops
  /\ at[t] = "idle"
  /\ at["timer"] # "off"
  /\ ~stop_
  /\ stop_' = TRUE
  /\ doomed' = Queued
  /\ at' = [at EXCEPT ![t] = "stop"]
  /\ UNCHANGED <<listVars, time, avg_delay_, request, deadline, now, sets,
                 worst>>

(* Mutant: stop() does not signal. *)
StopSignalForgotten(t) ==
  /\ at[t] = "stop"
  /\ at' = [at EXCEPT ![t] = "idle"]
  /\ UNCHANGED <<listVars, time, avg_delay_, stop_, request, deadline, now,
                 sets, worst, doomed>>

StopSignal(t) ==
  /\ at[t] = "stop"
  /\ at' = Woken([at EXCEPT ![t] = "idle"])
  /\ UNCHANGED <<listVars, time, avg_delay_, stop_, request, deadline, now,
                 sets, worst, doomed>>

ClearBackets ==
  /\ Stops
  /\ Clear
  /\ UNCHANGED <<time, avg_delay_, stop_, at, request, deadline, now, sets,
                 worst, doomed>>

Tick ==
  /\ now < MaxTime
  /\ now' = now + 1
  /\ UNCHANGED <<listVars, time, avg_delay_, stop_, at, request, deadline,
                 sets, worst, doomed>>

Run ==
  \/ RunStops \/ RunTriggers \/ RunWaits \/ TimesOut \/ WakesSpuriously
  \/ TriggerReturns \/ TriggerFails

Next ==
  \/ \E t \in Threads : SetBegin(t) \/ SetInsert(t)
  \/ \E t \in Setters : StopBegin(t) \/ StopSignal(t)
  \/ Start \/ ClearBackets \/ Run \/ Tick

Spec == Init /\ [][Next]_vars

(* The clock goes on, and a thread that can run does. *)
Fairness ==
  /\ WF_vars(Tick)
  /\ WF_vars(RunStops) /\ WF_vars(RunTriggers) /\ WF_vars(RunWaits)
  /\ WF_vars(TimesOut) /\ WF_vars(TriggerReturns)
  /\ \A t \in Threads : WF_vars(SetInsert(t))
  /\ \A t \in Setters : WF_vars(StopSignal(t))

LiveSpec == Spec /\ Fairness

-----------------------------------------------------------------------------
BacketType == [events : Seq(Events), events_count : Nat,
               min_time : Times, max_time : Times]

(* Every variable is in its type. *)
TypeOK ==
  /\ \A i \in DOMAIN backets_ : backets_[i] \in BacketType
  /\ last_backet_ \in Nat /\ backets_count_ \in Nat
  /\ time \in [Events -> Times]
  /\ avg_delay_ \in Nat /\ worst \in Nat
  /\ stop_ \in BOOLEAN
  /\ at \in [Threads -> {"idle", "insert", "stop", "off", "run", "wait",
                         "trigger"}]
  /\ \A t \in Threads :
       /\ request[t].event \in Events \union {"none"}
       /\ request[t].time \in Times
  /\ deadline \in Int
  /\ now \in Times
  /\ sets \in 0 .. MaxSets
  /\ doomed \subseteq Events

(* What Timer::validate throws about, after every step: the variables are  *)
(* in their types, the backets are                                         *)
(* sorted and disjoint, no backet is empty, each has its true bounds and   *)
(* count, and backets_count_ and last_backet_ agree with the list.         *)
Valid ==
  /\ TypeOK
  /\ backets_count_ = Len(backets_)
  /\ last_backet_ = Len(backets_)
  /\ \A i \in DOMAIN backets_ :
       LET b == backets_[i] IN
         /\ b.events # <<>>
         /\ b.events_count = Len(b.events)
         /\ \A j \in DOMAIN b.events :
              /\ b.min_time <= time[b.events[j]]
              /\ time[b.events[j]] <= b.max_time
              /\ j > 1 => time[b.events[j - 1]] <= time[b.events[j]]
         /\ i > 1 => LET p == backets_[i - 1].events
                     IN  time[p[Len(p)]] <= time[b.events[1]]

(* The timer's thread never sleeps past an event: while it waits, its      *)
(* timeout is not later than the time of any queued event, however events  *)
(* were set, triggered and cleared since it went to sleep (the signals of  *)
(* set(); a missed one makes an early event late by the whole wait).       *)
NeverSleepsPast ==
  at["timer"] = "wait" =>
    \A e \in Queued : deadline # Never /\ deadline <= time[e]

(* minimize_delay: avg_delay_ is never more than half of the worst delay   *)
(* of a wake-up, so run() never triggers an event earlier than that.       *)
EarlyByHalfAtMost == 2 * avg_delay_ <= worst

(* An event that was queued when stop() was called is forgotten by the     *)
(* time the thread has left: a later start() does not trigger it, unless   *)
(* it was an exception that ended the thread.                              *)
StopForgets == at["timer"] = "off" => doomed \intersect Queued = {}

(* The timer implements its schedule: events leave in the order of their   *)
(* times, none before its time but for minimize_delay, none is lost or     *)
(* triggered twice.                                                        *)
Promise == INSTANCE Schedule WITH
  pending <- {[event |-> e, time |-> time[e]] : e \in Queued}

ImplementsSchedule == Promise!Spec

(* Every event that is queued is triggered (or forgotten by stop or        *)
(* clear_buckets), unless the timer does not run.                          *)
EventTriggered ==
  \A e \in Events : e \in Queued ~> (e \notin Queued \/ at["timer"] = "off")

(* stop() ends the thread, even one that sleeps without a timeout. *)
StopEnds == stop_ ~> at["timer"] = "off"
=============================================================================

------------------------------ MODULE Schedule ------------------------------
(***************************************************************************)
(* What El::Service::Timer promises: a set of events, each with its time;  *)
(* the earliest is triggered first, and never before its time - or, when   *)
(* minimize_delay is on, before it by at most half of the worst delay with *)
(* which the thread has ever been woken.                                   *)
(***************************************************************************)
EXTENDS Integers

CONSTANTS Events, Times

VARIABLES
  pending,  \* the events that are set: [event, time] records
  now,      \* the clock
  worst     \* the worst delay of a wake-up so far; 0 without minimize_delay

vars == <<pending, now, worst>>

Init ==
  /\ pending = {}
  /\ now = 0
  /\ worst = 0

Set ==
  /\ \E e \in Events, t \in Times :
       /\ \A p \in pending : p.event # e
       /\ pending' = pending \union {[event |-> e, time |-> t]}
  /\ UNCHANGED <<now, worst>>

Early(t) == IF t <= now THEN 0 ELSE t - now

Trigger ==
  /\ \E p \in pending :
       /\ \A q \in pending : p.time <= q.time
       /\ 2 * Early(p.time) <= worst
       /\ pending' = pending \ {p}
  /\ UNCHANGED <<now, worst>>

Forget ==
  /\ pending' = {}
  /\ UNCHANGED <<now, worst>>

Tick ==
  /\ now' > now
  /\ UNCHANGED <<pending, worst>>

WakeLate ==
  /\ worst' > worst
  /\ worst' <= now
  /\ UNCHANGED <<pending, now>>

Next == Set \/ Trigger \/ Forget \/ Tick \/ WakeLate

Spec == Init /\ [][Next]_vars
=============================================================================

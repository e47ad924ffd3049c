------------------------------ MODULE TaskPool ------------------------------
(***************************************************************************)
(* What El::Service::ThreadPool and El::Service::ProcessPool promise about *)
(* the tasks they are given: a task that was accepted waits, is taken by   *)
(* one worker, once, and is over; one that is not required may be dropped, *)
(* by a pool that is stopped.  How tasks wait, who takes them and what     *)
(* executing one means is left to the pools.                               *)
(***************************************************************************)
CONSTANTS
  Tasks,
  Required     \* the tasks whose execution_required() is true

VARIABLES
  stopped,     \* the pool has been told to stop
  accepted,    \* execute() has returned true for it, or is about to
  waiting,     \* accepted, not yet taken
  taken,       \* in the hands of a worker
  over,        \* executed, or failed
  dropped      \* not executed

vars == <<stopped, accepted, waiting, taken, over, dropped>>

Init ==
  /\ stopped = TRUE
  /\ accepted = {}
  /\ waiting = {} /\ taken = {} /\ over = {} /\ dropped = {}

Accept(t) ==
  /\ t \notin accepted
  /\ accepted' = accepted \union {t}
  /\ waiting' = waiting \union {t}
  /\ UNCHANGED <<stopped, taken, over, dropped>>

Take(t) ==
  /\ t \in waiting
  /\ waiting' = waiting \ {t}
  /\ taken' = taken \union {t}
  /\ UNCHANGED <<stopped, accepted, over, dropped>>

Finish(t) ==
  /\ t \in taken
  /\ taken' = taken \ {t}
  /\ over' = over \union {t}
  /\ UNCHANGED <<stopped, accepted, waiting, dropped>>

(* "otherwise it can be dropped if not yet executed at the moment of       *)
(* stopping"                                                               *)
Drop(t) ==
  /\ t \in taken \ Required
  /\ stopped
  /\ taken' = taken \ {t}
  /\ dropped' = dropped \union {t}
  /\ UNCHANGED <<stopped, accepted, waiting, over>>

(* start() and stop(). *)
Switch ==
  /\ stopped' = ~stopped
  /\ UNCHANGED <<accepted, waiting, taken, over, dropped>>

Next ==
  \/ \E t \in Tasks : Accept(t) \/ Take(t) \/ Finish(t) \/ Drop(t)
  \/ Switch

Spec == Init /\ [][Next]_vars

(* What it comes to: a task that was accepted is in one place until it is  *)
(* over or dropped; only one that is not required is dropped ...           *)
NoneLost ==
  /\ accepted = waiting \union taken \union over \union dropped
  /\ waiting \intersect (taken \union over \union dropped) = {}
  /\ taken \intersect (over \union dropped) = {}
  /\ over \intersect dropped = {}
  /\ dropped \intersect Required = {}

(* ... and it is taken once: it never goes back to those that wait, nor to *)
(* a worker when it is over.                                               *)
TakenOnce ==
  /\ waiting' \intersect (taken \union over \union dropped) = {}
  /\ taken' \intersect (over \union dropped) = {}
  /\ accepted \subseteq accepted' /\ over \subseteq over' /\ dropped \subseteq dropped'
=============================================================================

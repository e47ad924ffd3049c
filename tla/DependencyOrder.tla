-------------------------- MODULE DependencyOrder --------------------------
(***************************************************************************)
(* What ElStart promises about the operations of a cluster: each is        *)
(* carried out at most once, and not before those it needs are done.       *)
(* There are no layers here, and no pool of threads.                       *)
(***************************************************************************)
CONSTANTS Steps      \* a service on a host each

VARIABLES
  needs,     \* needs[x]: the steps that must be done before x begins
  doing,     \* begun, and neither done nor failed
  done,
  failed

vars == <<needs, doing, done, failed>>

Init ==
  /\ needs \in [Steps -> SUBSET Steps]
  /\ doing = {} /\ done = {} /\ failed = {}

Begin(x) ==
  /\ x \notin doing \union done \union failed
  /\ needs[x] \subseteq done
  /\ doing' = doing \union {x}
  /\ UNCHANGED <<needs, done, failed>>

Finish(x) ==
  /\ x \in doing
  /\ doing' = doing \ {x}
  /\ done' = done \union {x}
  /\ UNCHANGED <<needs, failed>>

Fail(x) ==
  /\ x \in doing
  /\ doing' = doing \ {x}
  /\ failed' = failed \union {x}
  /\ UNCHANGED <<needs, done>>

Next == \E x \in Steps : Begin(x) \/ Finish(x) \/ Fail(x)

Spec == Init /\ [][Next]_vars

(* What it comes to: what is begun has all it needs, nothing is in two     *)
(* states, and what needs a failed step is never begun.                    *)
EachInOrder ==
  /\ \A x \in doing \union done \union failed : needs[x] \subseteq done
  /\ doing \intersect (done \union failed) = {} /\ done \intersect failed = {}
  /\ \A x \in Steps :
       needs[x] \intersect failed # {} => x \notin doing \union done \union failed

(* No step is begun a second time. *)
BegunOnce ==
  /\ doing' \intersect (done \union failed) = {}
  /\ done \subseteq done' /\ failed \subseteq failed'
=============================================================================

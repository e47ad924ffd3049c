----------------------------- MODULE MCElStart -----------------------------
(* ElStart on small clusters. *)
EXTENDS ElStart, TLC

CONSTANTS a, b, c, h1, h2, w1, w2

(* b on two hosts after a, and c after b or, b being disabled, after none  *)
(* that counts; the same with all disabled; two services before a third; a *)
(* ring; a service without a host.                                         *)
Row(enabled, check) ==
  [after |-> (a :> {} @@ b :> {a} @@ c :> {b}),
   hosts |-> (a :> {h1} @@ b :> {h1, h2} @@ c :> {h2}),
   enabled |-> enabled, command |-> {a, b, c}, check |-> check]
Fork ==
  [after |-> (a :> {} @@ b :> {} @@ c :> {a, b}),
   hosts |-> (a :> {h1} @@ b :> {h2} @@ c :> {h1}),
   enabled |-> {a, b, c}, command |-> {a, c}, check |-> {a, c}]
Ring ==
  [Fork EXCEPT !.after = (a :> {c} @@ b :> {} @@ c :> {a, b})]
Homeless == [Fork EXCEPT !.hosts[b] = {}]

MCClusters ==
  {Row({a, b, c}, {b}), Row({a, c}, {a, c}), Row({}, {}), Fork, Ring, Homeless}
=============================================================================

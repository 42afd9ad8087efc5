----------------------------- MODULE CheckDfsMC -----------------------------
(* Inputs of the CheckDfs runs: step graphs over four states with two       *)
(* schedules per state, of which those of state b may be infeasible and     *)
(* those of state c may fail.                                               *)
EXTENDS CheckDfs

Four == {"a", "b", "c", "d"}

Pairs(outcomes) == {<<p, q>> : p, q \in outcomes}

\* A record is a function of its field names, the states.
Graphs ==
  [a : Pairs({"b", "c"}), b : Pairs({"a", "c", "d", None}),
   c : Pairs({"a", "b", "d", Error}), d : {<<"a", "c">>}]

AllInputs ==
  [init : {<<"a">>, <<None, "a", "b">>}, step : Graphs,
   bad : {{"d"}, {"b", "d"}}, undefined : {{}, {"c"}},
   maxSteps : {None, 2}, maxFindings : {1, 2}]
=============================================================================

-------------------------- MODULE ActionContextsMC --------------------------
(* Bounds of the ActionContexts runs: numbers modulo 3.  From x = 2 there   *)
(* are two samples to choose from, and one call makes x zero.               *)
EXTENDS ActionContexts

OneStart == {[x |-> 2, y |-> 1]}

\* The TLA+ definition that is written for the action allows the steps that the
\* action has natively, and no other, if no two conjuncts assign one field (an
\* assignment that ExecContext refuses) and no expression reads an assigned one.
Tla == INSTANCE TlaActions
ConvertedStepsAgree ==
  ~Building /\ ~escaped /\ FirstDecisions =>
    LET env == start @@ [zero |-> 0]
        fresh == \A r \in Outcomes(ast, env, <<>>) : r.fresh
    IN Tla!AssignsApart(ast) /\ fresh => Tla!StepsAgree(ast, env)
=============================================================================

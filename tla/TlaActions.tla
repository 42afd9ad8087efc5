----------------------------- MODULE TlaActions -----------------------------
(***************************************************************************)
(* Actions in TLA+: the formula that wunderspec/tla.py writes for an       *)
(* action node, and the steps that the formula allows.  A formula is       *)
(*                                                                         *)
(*   test(node)      the condition of an assumption                        *)
(*   primed(x, e)    x' = e                                                *)
(*   unchanged(S)    UNCHANGED of the fields in S                          *)
(*   conj, disj      junction lists                                        *)
(*   exists, let     \E x \in S: ..., LET x == e IN ...                    *)
(*                                                                         *)
(* Text, line breaks and labels are left out.                              *)
(***************************************************************************)
EXTENDS ActionAst

Test(node) == [tla |-> "test", node |-> node]
Primed(field, e) == [tla |-> "primed", field |-> field, e |-> e]
Unchanged(fields) == [tla |-> "unchanged", fields |-> fields]
Conj(items) == [tla |-> "conj", items |-> items]
Disj(items) == [tla |-> "disj", items |-> items]
Exists(name, e, body) == [tla |-> "exists", name |-> name, e |-> e, body |-> body]
LetIn(name, e, body) == [tla |-> "let", name |-> name, e |-> e, body |-> body]

\* _matches_nonempty_guard
MatchesNonEmptyGuard(node, next) == next.node = "oneOf" /\ node = AssumeNonEmpty(next.e)

\* _simplify_action_nonempty_guards: a guard that the next conjunct implies.
RECURSIVE Simplified(_)
Simplified(node) ==
  CASE node.node = "and" ->
         LET nodes == [i \in DOMAIN node.nodes |-> Simplified(node.nodes[i])]
             implied(i) == i < Len(nodes) /\ MatchesNonEmptyGuard(nodes[i], nodes[i + 1])
             kept == SelectSeq([i \in DOMAIN nodes |-> i], LAMBDA i : ~implied(i))
         IN AndNode([i \in DOMAIN kept |-> nodes[kept[i]]])
    [] node.node = "choice" -> ChoiceNode([i \in DOMAIN node.nodes |-> Simplified(node.nodes[i])])
    [] node.node \in {"oneOf", "let"} -> [node EXCEPT !.body = Simplified(@)]
    [] OTHER -> node

\* _action_assigns
RECURSIVE ActionAssigns(_)
ActionAssigns(node) ==
  CASE node.node = "assign" -> {node.field}
    [] node.node \in {"and", "choice"} -> UNION {ActionAssigns(n) : n \in ToSet(node.nodes)}
    [] node.node \in {"oneOf", "let"} -> ActionAssigns(node.body)
    [] OTHER -> {}

\* A formula that keeps the fields that another part assigns and this one does not.
\* Mutant of Keeping: it leaves them open.
NotKeeping(formula, missing) == formula
Keeping(formula, missing) ==
  IF missing = {} THEN formula ELSE Conj(<<formula, Unchanged(missing)>>)

\* _node_to_doc of an action that is simplified already.
RECURSIVE Formula(_)
Formula(node) ==
  CASE node.node \in {"true", "assume", "nonEmpty"} -> Test(node)
    [] node.node = "assign" -> Primed(node.field, node.e)
    [] node.node = "and" -> Conj([i \in DOMAIN node.nodes |-> Formula(node.nodes[i])])
    [] node.node = "choice" ->
         Disj([i \in DOMAIN node.nodes |->
                 Keeping(Formula(node.nodes[i]), ActionAssigns(node) \ ActionAssigns(node.nodes[i]))])
    [] node.node = "oneOf" -> Exists(node.name, node.e, Formula(node.body))
    [] node.node = "let" -> LetIn(node.name, node.e, Formula(node.body))

\* The definition of Next or Step keeps the fields that the whole action does not assign.
StepFormula(node) == Keeping(Formula(Simplified(node)), Fields \ ActionAssigns(node))

----------------------------------------------------------------------------
(* What the formula says in TLA+: the ways to complete values of the primed *)
(* variables so that it holds.                                              *)

RECURSIVE Completions(_, _, _)
Set(primed, field, v) ==
  IF field \in DOMAIN primed THEN {p \in {primed} : p[field] = v} ELSE {(field :> v) @@ primed}
Completions(f, env, primed) ==
  CASE f.tla = "test" -> {primed : e \in EnabledEnvs(f.node, env)}
    [] f.tla = "primed" -> Set(primed, f.field, Value(f.e, env))
    [] f.tla = "unchanged" ->
         FoldLeft(LAMBDA S, x : UNION {Set(p, x, env[x]) : p \in S}, {primed}, SetToSeq(f.fields))
    [] f.tla = "conj" ->
         FoldLeft(LAMBDA S, g : UNION {Completions(g, env, p) : p \in S}, {primed}, f.items)
    [] f.tla = "disj" -> UNION {Completions(g, env, primed) : g \in ToSet(f.items)}
    [] f.tla = "exists" ->
         UNION {Completions(f.body, (f.name :> v) @@ env, primed) : v \in Below(Value(f.e, env))}
    [] f.tla = "let" -> Completions(f.body, (f.name :> Value(f.e, env)) @@ env, primed)

\* No field is assigned in two conjuncts, be it in alternatives that exclude each
\* other: an alternative keeps the fields that its siblings assign, and would
\* contradict the other conjunct.
RECURSIVE AssignsApart(_)
AssignsApart(node) ==
  CASE node.node = "and" ->
         /\ \A n \in ToSet(node.nodes) : AssignsApart(n)
         /\ \A i, j \in DOMAIN node.nodes :
              i # j => ActionAssigns(node.nodes[i]) \cap ActionAssigns(node.nodes[j]) = {}
    [] node.node = "choice" -> \A n \in ToSet(node.nodes) : AssignsApart(n)
    [] node.node \in {"oneOf", "let"} -> AssignsApart(node.body)
    [] OTHER -> TRUE

\* The formula allows exactly the steps that the action has natively.
StepsAgree(node, env) ==
  Completions(StepFormula(node), env, <<>>)
    = {[f \in Fields |-> r.env[f]] : r \in {o \in Outcomes(node, env, <<>>) : o.status = "ok"}}
=============================================================================

------------------------------ MODULE ActionAst ------------------------------
(***************************************************************************)
(* Action nodes of wunderspec/ast/action_ast.py and their execution by     *)
(* action_execute of wunderspec/exec/action_exec.py.                       *)
(*                                                                         *)
(* An expression is the value of a name plus a number, modulo Modulus; a   *)
(* field of the state, the variable of a one_of or a cached value is a     *)
(* name.  An environment maps names to values.  The recursive operators    *)
(* keep this module and those that use it to TLC.                          *)
(***************************************************************************)
EXTENDS Naturals, Sequences, SequencesExt, TLC

CONSTANTS Modulus, Fields

Values == 0..(Modulus - 1)

Term(name, number) == [of |-> name, plus |-> number]
Value(e, env) == (env[e.of] + e.plus) % Modulus

\* The sets of one_of: {0, ..., n - 1} for the value n of an expression.
Below(n) == 0..(n - 1)

\* AssumeNode (the expression is zero, or is not), AssignNode, NondetChoiceNode,
\* ActionLetNode, ActionAndNode and ActionChoiceNode.
AssumeNode(e, zero) == [node |-> "assume", e |-> e, zero |-> zero]
AssumeNonEmpty(e) == [node |-> "nonEmpty", e |-> e]
NoOp == [node |-> "true"]
AssignNode(field, e) == [node |-> "assign", field |-> field, e |-> e]
NondetChoiceNode(name, e, body) ==
  [node |-> "oneOf", name |-> name, e |-> e, body |-> body]
LetNode(name, e, body) == [node |-> "let", name |-> name, e |-> e, body |-> body]
AndNode(nodes) == [node |-> "and", nodes |-> nodes]
ChoiceNode(nodes) == [node |-> "choice", nodes |-> nodes]

\* Decisions of the scheduler: an alternative of a choice, or a member of the
\* set that one_of offered.
Alternative(i) == [decision |-> "alternative", index |-> i]
Sample(v, offered) == [decision |-> "value", value |-> v, offered |-> offered]

----------------------------------------------------------------------------
\* The state of an execution: the environment, the decisions that are left and
\* how the execution goes ("ok", "infeasible", "unbound" for a name without a
\* value, "diverged" when a decision does not fit the request).
\* Of the fields that were assigned, written; once and fresh tell whether each
\* was assigned once only and never read by name afterwards.
Start(env, decisions) ==
  [env |-> env, left |-> decisions, status |-> "ok",
   written |-> {}, once |-> TRUE, fresh |-> TRUE]

Fails(s, status) == [s EXCEPT !.status = status]

\* value(e, env): a state that tells what evaluating e depends on.
Reads(s, e) ==
  IF e.of \notin DOMAIN s.env THEN Fails(s, "unbound")
  ELSE [s EXCEPT !.fresh = @ /\ e.of \notin s.written]

Bind(s, name, v) == [s EXCEPT !.env = (name :> v) @@ @]

\* The introduced binding is removed again; a failed execution has no
\* environment.
Unbind(s, name) ==
  IF s.status # "ok" THEN s
  ELSE [s EXCEPT !.env = [n \in DOMAIN @ \ {name} |-> @[n]]]

RECURSIVE Execute(_, _)

ExecuteAssume(node, s) ==
  LET r == Reads(s, node.e) IN
  IF r.status = "ok" /\ (Value(node.e, s.env) = 0) # node.zero
  THEN Fails(r, "infeasible") ELSE r

ExecuteNonEmpty(node, s) ==
  LET r == Reads(s, node.e) IN
  IF r.status = "ok" /\ Below(Value(node.e, s.env)) = {}
  THEN Fails(r, "infeasible") ELSE r

\* The value is computed in the environment that the assignments before have
\* left.
ExecuteAssign(node, s) ==
  LET r == Reads(s, node.e) IN
  IF r.status # "ok" THEN r
  ELSE [Bind(r, node.field, Value(node.e, s.env)) EXCEPT
          !.once = @ /\ node.field \notin r.written,
          !.written = @ \cup {node.field}]

ExecuteChoice(node, s) ==
  IF s.left = <<>> \/ Head(s.left).decision # "alternative" THEN Fails(s, "diverged")
  ELSE Execute(node.nodes[Head(s.left).index], [s EXCEPT !.left = Tail(@)])

ExecuteOneOf(node, s) ==
  LET r == Reads(s, node.e) IN
  IF r.status # "ok" THEN r
  ELSE IF \/ s.left = <<>> \/ Head(s.left).decision # "value"
          \/ Head(s.left).offered # Below(Value(node.e, s.env))
       THEN Fails(r, "diverged")
       ELSE Unbind(Execute(node.body, Bind([r EXCEPT !.left = Tail(@)],
                                            node.name, Head(s.left).value)),
                   node.name)

ExecuteLet(node, s) ==
  LET r == Reads(s, node.e) IN
  IF r.status # "ok" THEN r
  ELSE Unbind(Execute(node.body, Bind(r, node.name, Value(node.e, s.env))), node.name)

\* action_execute.
Execute(node, s) ==
  IF s.status # "ok" THEN s
  ELSE CASE node.node = "true" -> s
         [] node.node = "assume" -> ExecuteAssume(node, s)
         [] node.node = "nonEmpty" -> ExecuteNonEmpty(node, s)
         [] node.node = "assign" -> ExecuteAssign(node, s)
         [] node.node = "and" -> FoldLeft(LAMBDA r, n : Execute(n, r), s, node.nodes)
         [] node.node = "choice" -> ExecuteChoice(node, s)
         [] node.node = "oneOf" -> ExecuteOneOf(node, s)
         [] node.node = "let" -> ExecuteLet(node, s)

----------------------------------------------------------------------------
(* Enabled(action) of wunderspec/interpreter.py: all environments that an   *)
(* action can leave behind, whatever is decided.                            *)

RemoveLocal(env, name) == [n \in DOMAIN env \ {name} |-> env[n]]

RECURSIVE EnabledEnvs(_, _)
\* Mutant of EnabledAnd: each action starts from the environment of the first.
EnabledAndFromStart(node, env) ==
  FoldLeft(LAMBDA envs, n : UNION {EnabledEnvs(n, env) : e \in envs}, {env}, node.nodes)
\* Each action of a conjunction starts where one before it has ended.
EnabledAnd(node, env) ==
  FoldLeft(LAMBDA envs, n : UNION {EnabledEnvs(n, e) : e \in envs}, {env}, node.nodes)
EnabledIn(node, env, v) ==
  {RemoveLocal(e, node.name) : e \in EnabledEnvs(node.body, (node.name :> v) @@ env)}

\* _iter_enabled_envs, for environments that bind what node reads.
EnabledEnvs(node, env) ==
  CASE node.node = "true" -> {env}
    [] node.node = "assume" -> IF (Value(node.e, env) = 0) = node.zero THEN {env} ELSE {}
    [] node.node = "nonEmpty" -> IF Below(Value(node.e, env)) # {} THEN {env} ELSE {}
    [] node.node = "assign" -> {(node.field :> Value(node.e, env)) @@ env}
    [] node.node = "and" -> EnabledAnd(node, env)
    [] node.node = "choice" -> UNION {EnabledEnvs(n, env) : n \in ToSet(node.nodes)}
    [] node.node = "oneOf" -> UNION {EnabledIn(node, env, v) : v \in Below(Value(node.e, env))}
    [] node.node = "let" -> EnabledIn(node, env, Value(node.e, env))

\* All that action_execute comes to with some decisions, from those taken so far.
AllDecisions ==
  {Alternative(i) : i \in {1, 2}} \cup UNION {{Sample(v, Below(n)) : v \in Below(n)} : n \in Values}
RECURSIVE Outcomes(_, _, _)
Outcomes(node, env, taken) ==
  LET r == Execute(node, Start(env, taken))
  IN IF r.status # "diverged" THEN {r}
     ELSE IF r.left # <<>> THEN {}
     ELSE UNION {Outcomes(node, env, Append(taken, d)) : d \in AllDecisions}
=============================================================================

---------------------------- MODULE QuintActions ----------------------------
(***************************************************************************)
(* The actions and the runs of Quint (wunderspec/quint_convert.py): the    *)
(* calls on the context that are generated for them, the states that these *)
(* reach under ExecContext, and those that Quint means.                    *)
(*                                                                         *)
(* An expression is a name plus a number, modulo Modulus; a name is a      *)
(* field or a variable of a nondet.  Each field is assigned once at most,  *)
(* as both sides demand.                                                   *)
(***************************************************************************)
EXTENDS Integers, Sequences, SequencesExt, FiniteSets, TLC

CONSTANTS Modulus, Fields

Expr(name, number) == [name |-> name, plus |-> number]
Eval(e, vals) == (vals[e.name] + e.plus) % Modulus

\* The syntax of Quint actions: x' = e, a condition (that e is zero), all, any,
\* if, nondet v = oneOf(0.to(e - 1)) and the call of an action by its name.
AssignTo(f, e) == <<"assign", f, e>>
Condition(e) == <<"cond", e>>
AllOf(a, b) == <<"actionAll", a, b>>
AnyOf(a, b) == <<"actionAny", a, b>>
If(e, a, b) == <<"ite", e, a, b>>
Nondet(v, e, a) == <<"nondet", v, e, a>>
CallOf(a) == <<"call", a>>
\* a definition of another action that is nested in an action, and its call
Local(a) == <<"local", a>>
\* The syntax of runs.
Then(a, b) == <<"then", a, b>>
Expect(a, e) == <<"expect", a, e>>
Reps(n, a) == <<"reps", n, a>>
Fail(a) == <<"fail", a>>

----------------------------------------------------------------------------
(* The generated calls.  `from` is what an expression reads the fields of: the *)
(* snapshot ("_quint_state") or the state of the context ("s").                *)

OnePerAlternative(arms) == <<<<"alternatives", arms>>>>
Splitting(e, from, then, else) == <<<<"split", e, from, then, else>>>>
Choosing(v, e, from, body) == <<<<"one_of", v, e, from, body>>>>
\* An action of the module: a function that takes a snapshot of c.state unless a
\* caller with the same context has.  A nested definition reads that snapshot.
Defined(calls) == <<<<"action", calls>>>>
Nested(calls) == calls

RECURSIVE Calls(_, _)
Calls(a, from) ==
  CASE a[1] = "assign" -> <<<<"set", a[2], a[3], from>>>>
    [] a[1] = "cond" -> <<<<"assume", a[2], from>>>>
    [] a[1] = "actionAll" -> Calls(a[2], from) \o Calls(a[3], from)
    [] a[1] = "actionAny" -> OnePerAlternative(<<Calls(a[2], from), Calls(a[3], from)>>)
    [] a[1] = "ite" -> Splitting(a[2], from, Calls(a[3], from), Calls(a[4], from))
    [] a[1] = "nondet" -> Choosing(a[2], a[3], from, Calls(a[4], from))
    [] a[1] = "call" -> Defined(Calls(a[2], "_quint_state"))
    [] a[1] = "local" -> Nested(Calls(a[2], from))
ActionDef(a) == Defined(Calls(a, "_quint_state"))
\* What a run does to the state by an action of its own.
Fragment(a) == Calls(a, "s")

----------------------------------------------------------------------------
(* Execution.  A context has the state, the snapshot (<<>> if none is taken) and *)
(* the variables of one_of.                                                      *)

Names(c, from) == c.vars @@ IF from = "s" THEN c.state ELSE c.snapshot
RECURSIVE Outcomes(_, _)
Outcomes(calls, c) ==
  IF calls = <<>> THEN {c} ELSE
  LET d == Head(calls)
      value(e, from) == Eval(e, Names(c, from))
      reached ==
        CASE d[1] = "set" -> {[c EXCEPT !.state[d[2]] = value(d[3], d[4])]}
          [] d[1] = "assume" -> IF value(d[2], d[3]) = 0 THEN {c} ELSE {}
          [] d[1] = "alternatives" -> UNION {Outcomes(d[2][i], c) : i \in DOMAIN d[2]}
          [] d[1] = "split" -> Outcomes(IF value(d[2], d[3]) = 0 THEN d[4] ELSE d[5], c)
          [] d[1] = "one_of" ->
               UNION {Outcomes(d[5], [c EXCEPT !.vars = (d[2] :> v) @@ @]) :
                        v \in 0..(value(d[3], d[4]) - 1)}
          [] d[1] = "action" ->
               {[r EXCEPT !.snapshot = c.snapshot] :
                  r \in Outcomes(d[2], IF c.snapshot = <<>> THEN [c EXCEPT !.snapshot = c.state] ELSE c)}
  IN UNION {Outcomes(Tail(calls), [r EXCEPT !.vars = c.vars]) : r \in reached}
Steps(calls, state) ==
  {r.state : r \in Outcomes(calls, [state |-> state, snapshot |-> <<>>, vars |-> <<>>])}

\* Each action of a run is a step of a context of its own, retried until it is
\* enabled; a run that stops or expects in vain is Failed.
Failed == <<"failed">>
RunAction(calls, state) == IF Steps(calls, state) = {} THEN {Failed} ELSE Steps(calls, state)
\* No retry may succeed; the state stays.
ExpectFail(states, state) == IF states = {Failed} THEN {state} ELSE {Failed}
RECURSIVE RunStates(_, _)
RunStates(r, state) ==
  LET after(S, next(_)) == UNION {IF s = Failed THEN {Failed} ELSE next(s) : s \in S}
  IN CASE r[1] = "then" -> after(RunStates(r[2], state), LAMBDA s : RunStates(r[3], s))
       [] r[1] = "expect" ->
            after(RunStates(r[2], state), LAMBDA s : {IF Eval(r[3], s) = 0 THEN s ELSE Failed})
       [] r[1] = "reps" -> IF r[2] = 0 THEN {state}
            ELSE after(RunStates(r[3], state), LAMBDA s : RunStates(Reps(r[2] - 1, r[3]), s))
       [] r[1] = "fail" -> ExpectFail(RunStates(r[2], state), state)
       [] r[1] = "call" -> RunAction(ActionDef(r[2]), state)
       [] OTHER -> RunAction(Fragment(r), state)

----------------------------------------------------------------------------
(* Quint: an action relates a state to the values that it assigns. *)

RECURSIVE Assigned(_, _)
Assigned(a, vals) ==
  CASE a[1] = "assign" -> {a[2] :> Eval(a[3], vals)}
    [] a[1] = "cond" -> IF Eval(a[2], vals) = 0 THEN {<<>>} ELSE {}
    [] a[1] = "actionAll" -> {p @@ q : p \in Assigned(a[2], vals), q \in Assigned(a[3], vals)}
    [] a[1] = "actionAny" -> Assigned(a[2], vals) \cup Assigned(a[3], vals)
    [] a[1] = "ite" -> Assigned(a[IF Eval(a[2], vals) = 0 THEN 3 ELSE 4], vals)
    [] a[1] = "nondet" ->
         UNION {Assigned(a[4], (a[2] :> v) @@ vals) : v \in 0..(Eval(a[3], vals) - 1)}
    [] OTHER -> Assigned(a[2], vals)
QuintSteps(a, state) == {new @@ state : new \in Assigned(a, state)}

RECURSIVE QuintRun(_, _)
QuintRun(r, state) ==
  LET orFailed(S) == IF S = {} THEN {Failed} ELSE S
      after(S, next(_)) == UNION {IF s = Failed THEN {Failed} ELSE next(s) : s \in S}
  IN CASE r[1] = "then" -> after(QuintRun(r[2], state), LAMBDA s : QuintRun(r[3], s))
       [] r[1] = "expect" ->
            after(QuintRun(r[2], state), LAMBDA s : {IF Eval(r[3], s) = 0 THEN s ELSE Failed})
       [] r[1] = "reps" -> IF r[2] = 0 THEN {state}
            ELSE after(QuintRun(Reps(r[2] - 1, r[3]), state), LAMBDA s : QuintRun(r[3], s))
       [] r[1] = "fail" -> IF QuintSteps(r[2], state) = {} THEN {state} ELSE {Failed}
       [] OTHER -> orFailed(QuintSteps(r, state))

\* The fields that an action may assign, and those that it reads.
RECURSIVE Writes(_), Reads(_)
Writes(a) ==
  CASE a[1] = "assign" -> {a[2]}
    [] a[1] = "cond" -> {}
    [] a[1] \in {"actionAll", "actionAny"} -> Writes(a[2]) \cup Writes(a[3])
    [] a[1] = "ite" -> Writes(a[3]) \cup Writes(a[4])
    [] a[1] = "nondet" -> Writes(a[4])
    [] OTHER -> Writes(a[2])
Reads(a) ==
  CASE a[1] = "assign" -> {a[3].name}
    [] a[1] = "cond" -> {a[2].name}
    [] a[1] \in {"actionAll", "actionAny"} -> Reads(a[2]) \cup Reads(a[3])
    [] a[1] = "ite" -> {a[2].name} \cup Reads(a[3]) \cup Reads(a[4])
    [] a[1] = "nondet" -> {a[3].name} \cup Reads(a[4])
    [] OTHER -> Reads(a[2])
\* No field is assigned twice; and none is read, in a run's own action, after it
\* has been assigned: such a fragment is generated without a snapshot.
RECURSIVE AssignedOnce(_), ReadBeforeAssigned(_)
AssignedOnce(a) ==
  CASE a[1] = "actionAll" ->
         Writes(a[2]) \cap Writes(a[3]) = {} /\ AssignedOnce(a[2]) /\ AssignedOnce(a[3])
    [] a[1] = "actionAny" -> AssignedOnce(a[2]) /\ AssignedOnce(a[3])
    [] a[1] = "ite" -> AssignedOnce(a[3]) /\ AssignedOnce(a[4])
    [] a[1] = "nondet" -> AssignedOnce(a[4])
    [] a[1] \in {"call", "local"} -> AssignedOnce(a[2])
    [] OTHER -> TRUE
ReadBeforeAssigned(a) ==
  CASE a[1] = "actionAll" -> /\ Writes(a[2]) \cap Reads(a[3]) = {}
                             /\ ReadBeforeAssigned(a[2]) /\ ReadBeforeAssigned(a[3])
    [] a[1] = "actionAny" -> ReadBeforeAssigned(a[2]) /\ ReadBeforeAssigned(a[3])
    [] a[1] = "ite" -> ReadBeforeAssigned(a[3]) /\ ReadBeforeAssigned(a[4])
    [] a[1] = "nondet" -> ReadBeforeAssigned(a[4])
    [] a[1] = "local" -> ReadBeforeAssigned(a[2])
    [] OTHER -> TRUE

\* Every generated action reaches the states that the Quint action means, from
\* every state, wherever else it is called from.
ActionsAgree(a) ==
  AssignedOnce(a) =>
    \A state \in [Fields -> 0..(Modulus - 1)] :
      /\ Steps(ActionDef(a), state) = QuintSteps(a, state)
      /\ ReadBeforeAssigned(a) => Steps(Fragment(a), state) = QuintSteps(a, state)
\* A generated test can end in the states of the run, and fails where it fails.
RunsAgree(r, actions) ==
  (\A a \in actions : AssignedOnce(a) /\ ReadBeforeAssigned(a)) =>
    \A state \in [Fields -> 0..(Modulus - 1)] : RunStates(r, state) = QuintRun(r, state)
=============================================================================

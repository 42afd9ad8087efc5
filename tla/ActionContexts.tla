--------------------------- MODULE ActionContexts ---------------------------
(***************************************************************************)
(* One action, two readings.  An action is a Python function over a        *)
(* context.  ExecContext (wunderspec/exec/context.py) runs it on a state;  *)
(* SymbolicContext (wunderspec/sym_context.py) records it as an action     *)
(* node, which `run`, `check` and `replay` execute with action_execute.    *)
(*                                                                         *)
(* The steps of this module are the calls that an action makes, each with  *)
(* its effect in both contexts: every sequence of calls of at most MaxCalls*)
(* is some action.  When the action returns, the node is built, and it can *)
(* be compared with the state that ExecContext has arrived at.             *)
(***************************************************************************)
EXTENDS ActionAst

CONSTANTS
  Operands,     \* what the expressions of the action are built from
  MaxCalls,     \* calls that record something (not those that close a block)
  Starts        \* states to start from

NoState == [none |-> TRUE]

VARIABLES
  start,        \* the state before the action
  sym,          \* SymbolicContext
  nat,          \* ExecContext
  blocks,       \* the with-blocks that are open
  scope,        \* names that one_of and cache have introduced
  names,        \* how many there have been
  calls,        \* how many calls the action has made
  decisions,    \* what the scheduler of ExecContext has decided
  lost,         \* fields that alternatives assigned which are closed now
  escaped,      \* whether a call has read one of them, or a field whose
                \* value depends on a name of a block that is closed
  ast           \* what build() returned, or NoOp before

vars == <<start, sym, nat, blocks, scope, names, calls, decisions, lost, escaped, ast>>

\* SymbolicContext: the expressions in the fields of its state, the nodes of
\* each level and the let-bindings pending there.
SymInit == [state |-> [f \in Fields |-> Term(f, 0)], levels |-> << <<>> >>, lets |-> << <<>> >>]

\* ExecContext: current and chosen state, the chosen stack of the tracker, and
\* how it goes: "ok", "violated" (an assumption was), or "skip" on the way out
\* of a block where _OutsideChosenPath was raised.
NatInit(state) == [current |-> state, chosen |-> NoState, path |-> <<>>, status |-> "ok"]

Init ==
  /\ start \in Starts
  /\ sym = SymInit
  /\ nat = NatInit(start)
  /\ blocks = <<>> /\ scope = <<>> /\ names = 0 /\ calls = 0
  /\ decisions = <<>>
  /\ lost = {} /\ escaped = FALSE
  /\ ast = NoOp

----------------------------------------------------------------------------
Building == ast = NoOp
InBlock == blocks # <<>>
\* Between the with-blocks of alternatives, an action makes no calls.
Calls == /\ Building /\ calls < MaxCalls
         /\ InBlock => Last(blocks).kind # "alternatives"
         /\ calls' = calls + 1

OnPath == nat.path = <<>> \/ Last(nat.path)
Live == nat.status = "ok"

\* What an operand of the action is, in the one context and in the other: a
\* field, the value of x before the action, or the last name of its kind.
InScope(kind) == SelectSeq(scope, LAMBDA b : b.kind = kind)
Usable(o) == o \in Fields \cup {"old"} \/ InScope(o) # <<>>
SymRead(o) ==
  CASE o \in Fields -> sym.state[o]
    [] o = "old" -> Term("x", 0)
    [] OTHER -> Term(Last(InScope(o)).name, 0)
NatRead(o) ==
  CASE o \in Fields -> nat.current[o]
    [] o = "old" -> start["x"]
    [] OTHER -> Last(InScope(o)).value

\* When a one_of is closed, a field keeps the symbolic value it was given inside,
\* and with it the names that were introduced there.  When alternatives are
\* closed, it has the symbolic value it had before.  An action that reads such a
\* field afterwards is not recorded as it was meant.
Escapes(o) ==
  \/ SymRead(o).of \notin Fields \cup {scope[k].name : k \in DOMAIN scope}
  \/ o \in lost
Uses(o) == /\ Usable(o)
           /\ escaped' = (escaped \/ Escapes(o))

SymPlus(e, n) == Term(e.of, (e.plus + n) % Modulus)

NewName == "n" \o ToString(names + 1)
Introduce(kind, v) ==
  /\ scope' = Append(scope, [kind |-> kind, name |-> NewName, value |-> v])
  /\ names' = names + 1

\* The top of a stack of SymbolicContext.
Top(stack) == stack[Len(stack)]
WithTop(stack, v) == [stack EXCEPT ![Len(stack)] = v]
\* Mutant: a level without a place for its let-bindings.
PushNodesOnly(s) == [s EXCEPT !.levels = Append(@, <<>>)]

Push(s) == [s EXCEPT !.levels = Append(@, <<>>), !.lets = Append(@, <<>>)]
Record(s, node) == [s EXCEPT !.levels = WithTop(@, Append(Top(@), node))]

\* _action_and
ActionAnd(nodes) ==
  CASE nodes = <<>> -> NoOp
    [] Len(nodes) = 1 -> nodes[1]
    [] OTHER -> AndNode(nodes)

\* _wrap_actions_with_positioned_lets: a let-binding wraps the nodes that
\* follow it.
RECURSIVE WithLets(_, _)
WithLets(nodes, lets) ==
  IF lets = <<>> THEN ActionAnd(nodes)
  ELSE LET at == lets[1].at
           rest == [k \in 1..(Len(lets) - 1) |-> [lets[k + 1] EXCEPT !.at = @ - at]]
           tail == SubSeq(nodes, at + 1, Len(nodes))
       IN  ActionAnd(SubSeq(nodes, 1, at)
                       \o <<LetNode(lets[1].name, lets[1].e, WithLets(tail, rest))>>)

\* _combine_assumptions: the nodes of the top level, and the level closed with
\* what they amount to.
Inner(s) ==
  LET nodes == Top(s.levels) IN
  IF Top(s.lets) = <<>> THEN nodes ELSE <<WithLets(nodes, Top(s.lets))>>
CloseWith(s, node) ==
  Record([s EXCEPT !.levels = Front(@), !.lets = Front(@)], node)

----------------------------------------------------------------------------
\* Position of the assignment to field at this level; 0 if there is none.
AssignedAt(nodes, field) ==
  SelectInSeq(nodes, LAMBDA n : n.node = "assign" /\ n.field = field)

\* Mutant: a second assignment always takes the place of the first one.
AssignInPlace(s, field, e) ==
  LET i == AssignedAt(Top(s.levels), field)
      recorded ==
        IF i = 0 THEN Record(s, AssignNode(field, e))
        ELSE [s EXCEPT !.levels = WithTop(@, [Top(@) EXCEPT ![i] = AssignNode(field, e)])]
  IN  [recorded EXCEPT !.state[field] = e]

\* _on_field_assignment: a second assignment to a field at a level takes the
\* place of the first one, unless it needs a cached value that is introduced
\* after it: then it goes to the end, and the bindings in between move up.
SymAssign(s, field, e) ==
  LET i == AssignedAt(Top(s.levels), field)
      later == {k \in 1..Len(Top(s.lets)) : Top(s.lets)[k].at >= i}
      moved == [k \in 1..Len(Top(s.lets)) |->
                  [Top(s.lets)[k] EXCEPT !.at = IF @ >= i THEN @ - 1 ELSE @]]
      recorded ==
        IF i = 0 THEN Record(s, AssignNode(field, e))
        ELSE IF \E k \in later : Top(s.lets)[k].name = e.of
        THEN Record([s EXCEPT !.levels = WithTop(@, RemoveAt(Top(@), i)),
                              !.lets = WithTop(@, moved)], AssignNode(field, e))
        ELSE [s EXCEPT !.levels = WithTop(@, [Top(@) EXCEPT ![i] = AssignNode(field, e)])]
  IN  [recorded EXCEPT !.state[field] = e]

\* c.state.field = o + n.  ExecContext assigns in branches that are not chosen
\* as well, whose state is thrown away.
Assign(field, o, n) ==
  /\ Calls /\ Uses(o)
  /\ sym' = SymAssign(sym, field, SymPlus(SymRead(o), n))
  /\ nat' = IF Live THEN [nat EXCEPT !.current[field] = (NatRead(o) + n) % Modulus] ELSE nat
  /\ lost' = lost \ {field}
  /\ UNCHANGED <<start, blocks, scope, names, decisions, ast>>

\* c.assume(o == 0), which counts on the chosen path only.
Assume(o) ==
  /\ Calls /\ Uses(o)
  /\ sym' = Record(sym, AssumeNode(SymRead(o), TRUE))
  /\ nat' = IF Live /\ OnPath /\ NatRead(o) # 0 THEN [nat EXCEPT !.status = "violated"] ELSE nat
  /\ UNCHANGED <<start, blocks, scope, names, decisions, lost, ast>>

\* Off the chosen path, calls that need a decision or a value raise
\* _OutsideChosenPath, which ends the branch.
Skipped == [nat EXCEPT !.status = IF Live THEN "skip" ELSE @]

\* c.cache(o)
Cache(o) ==
  /\ Calls /\ Uses(o)
  /\ sym' = [sym EXCEPT !.lets = WithTop(@, Append(Top(@),
               [at |-> Len(Top(sym.levels)), name |-> NewName, e |-> SymRead(o)]))]
  /\ nat' = IF OnPath THEN nat ELSE Skipped
  /\ Introduce("cached", IF Live THEN NatRead(o) ELSE 0)
  /\ UNCHANGED <<start, blocks, decisions, lost, ast>>

\* with c.one_of({0, ..., o - 1}) as a new name
OneOf(o) ==
  /\ Calls /\ Uses(o)
  /\ sym' = Push(sym)
  /\ blocks' = Append(blocks, [kind |-> "oneOf", e |-> SymRead(o), name |-> NewName,
                               scope |-> Len(scope)])
  /\ IF Live /\ OnPath /\ Below(NatRead(o)) # {}
     THEN \E v \in Below(NatRead(o)) :
            /\ decisions' = Append(decisions, Sample(v, Below(NatRead(o))))
            /\ Introduce("sample", v)
            /\ nat' = nat
     ELSE /\ Introduce("sample", 0)
          /\ nat' = IF Live /\ OnPath THEN [nat EXCEPT !.status = "violated"] ELSE Skipped
          /\ UNCHANGED decisions
  /\ UNCHANGED <<start, lost, ast>>

\* The set is assumed to have a member.
EndOneOf ==
  /\ Building /\ InBlock /\ Last(blocks).kind = "oneOf"
  /\ LET b == Last(blocks) IN
     /\ sym' = CloseWith(sym,
                 AndNode(<<AssumeNonEmpty(b.e),
                           NondetChoiceNode(b.name, b.e, ActionAnd(Inner(sym)))>>))
     /\ scope' = SubSeq(scope, 1, b.scope)
  /\ blocks' = Front(blocks)
  /\ UNCHANGED <<start, nat, names, calls, decisions, lost, escaped, ast>>

----------------------------------------------------------------------------
\* c.alternatives("1", "2") and c.split(o == 0), whose arms are the
\* alternatives that assume the condition and its negation.  entered tells
\* whether ExecContext has come to the with-blocks.
Open(preconditions, i) ==
  /\ sym' = Push(sym)
  /\ blocks' = Append(blocks,
       [kind |-> "alternatives", preconditions |-> preconditions, chosen |-> i,
        left |-> 2, lost |-> lost, entered |-> Live /\ OnPath /\ nat'.status = "ok"])
  /\ decisions' = IF Live /\ OnPath THEN Append(decisions, Alternative(i)) ELSE decisions
  /\ UNCHANGED <<start, scope, names, lost, ast>>

Alternatives ==
  /\ Calls
  /\ UNCHANGED escaped
  /\ \E i \in IF Live /\ OnPath THEN {1, 2} ELSE {1} :
       /\ nat' = IF OnPath THEN nat ELSE Skipped
       /\ Open(<<>>, i)

Split(o) ==
  /\ Calls /\ Uses(o)
  /\ \E i \in IF Live /\ OnPath THEN {1, 2} ELSE {1} :
       /\ nat' = IF ~OnPath THEN Skipped
                 ELSE IF Live /\ (NatRead(o) = 0) # (i = 1)
                 THEN [nat EXCEPT !.status = "violated"] ELSE nat
       /\ Open(<<AssumeNode(SymRead(o), TRUE), AssumeNode(SymRead(o), FALSE)>>, i)

\* Enter the next alternative: its preconditions are recorded, and the state
\* is saved.
EnterAlternative ==
  /\ Building /\ InBlock /\ Last(blocks).kind = "alternatives"
  /\ LET b == Last(blocks)
         i == 3 - b.left
     IN
     /\ sym' = IF b.preconditions = <<>> THEN Push(sym)
               ELSE Record(Push(sym), b.preconditions[i])
     /\ blocks' = Append(blocks, [kind |-> "alternative", chosen |-> b.chosen = i,
                                  entered |-> b.entered /\ Live, scope |-> Len(scope),
                                  symState |-> sym.state, natState |-> nat.current,
                                  lost |-> lost])
     /\ nat' = IF b.entered /\ Live THEN [nat EXCEPT !.path = Append(@, b.chosen = i)] ELSE nat
  /\ UNCHANGED <<start, scope, names, calls, decisions, lost, escaped, ast>>

\* ExecAlternative.__exit__: keep the state of the chosen alternative, restore
\* the one before it and, behind the last alternative, move on with the kept.
NatExit(b, isLast) ==
  LET chosen == IF b.chosen /\ nat.chosen = NoState THEN nat.current ELSE nat.chosen
      moveOn == isLast /\ chosen # NoState
  IN  [current |-> IF moveOn THEN chosen ELSE b.natState,
       chosen |-> IF isLast THEN NoState ELSE chosen,
       path |-> Front(nat.path),
       status |-> "ok"]

\* Mutant: the next alternative starts from the fields that this one has left.
SymExitKeepsState(b, isLast) ==
  LET closed == CloseWith(sym, ActionAnd(Inner(sym))) IN
  IF isLast THEN CloseWith(closed, ChoiceNode(Inner(closed))) ELSE closed

\* SymbolicContext: the last alternative makes a choice of all of them.
SymExit(b, isLast) ==
  LET closed == [CloseWith(sym, ActionAnd(Inner(sym))) EXCEPT !.state = b.symState] IN
  IF isLast THEN CloseWith(closed, ChoiceNode(Inner(closed))) ELSE closed

ExitAlternative ==
  /\ Building /\ InBlock /\ Last(blocks).kind = "alternative"
  /\ LET b == Last(blocks)
         outer == Last(Front(blocks))
         isLast == outer.left = 1
         assigned == outer.lost \cup lost
                       \cup {f \in Fields : sym.state[f] # b.symState[f]}
     IN
     /\ sym' = SymExit(b, isLast)
     /\ nat' = IF b.entered /\ nat.status # "violated" THEN NatExit(b, isLast) ELSE nat
     /\ blocks' = IF isLast THEN Front(Front(blocks))
                  ELSE WithTop(Front(blocks), [outer EXCEPT !.left = 1, !.lost = assigned])
     /\ lost' = IF isLast THEN assigned ELSE b.lost
     /\ scope' = SubSeq(scope, 1, b.scope)
  /\ UNCHANGED <<start, names, calls, decisions, escaped, ast>>

\* The action returns: build().  (The conjunction around it tells an action that
\* does nothing from one that is being built.)
Build ==
  /\ Building /\ blocks = <<>>
  /\ ast' = AndNode(<<WithLets(Top(sym.levels), Top(sym.lets))>>)
  /\ UNCHANGED <<start, sym, nat, blocks, scope, names, calls, decisions, lost, escaped>>

\* Bound: x is counted up, from its present value or from the old one, and the
\* other operands are assigned as they are.
Added(o) == IF o \in {"x", "old"} THEN 1 ELSE 0
\* Bound: a cached value is neither cached again nor split on.
Uncached == Operands \ {"cached"}

Next ==
  \/ \E f \in Fields, o \in Operands : Assign(f, o, Added(o))
  \/ \E o \in Operands : Assume(o) \/ OneOf(o)
  \/ \E o \in Uncached : Cache(o) \/ Split(o)
  \/ Alternatives \/ EndOneOf \/ EnterAlternative \/ ExitAlternative
  \/ Build

Spec == Init /\ [][Next]_vars

----------------------------------------------------------------------------
TypeOK ==
  /\ start \in Starts
  /\ nat.current \in [Fields -> Values]
  /\ nat.status \in {"ok", "violated", "skip"}
  /\ Len(sym.levels) = Len(sym.lets)
  /\ Len(sym.levels) = Len(blocks) + 1
  /\ \A f \in Fields : sym.state[f].plus \in Values
  /\ calls \in 0..MaxCalls

\* What action_execute makes of the node, given the decisions of ExecContext.
Executed == Execute(ast, Start(start @@ [zero |-> 0], decisions))

Agrees(r) ==
  IF nat.status = "violated" THEN r.status = "infeasible"
  ELSE r.status = "ok" /\ \A f \in Fields : r.env[f] = nat.current[f]

\* However assignments are merged and moved, every name that a node uses has a
\* value where it is executed, unless the action has used it outside its block.
NamesAreBound == ~Building /\ ~escaped => Executed.status # "unbound"

\* The node does what the action does, as long as it assigns a field once on each
\* path and uses no field by name that was assigned before.
AgreesWithoutStaleReads ==
  ~Building /\ ~escaped => LET r == Executed IN r.once /\ r.fresh => Agrees(r)

\* Enabled(action) is true exactly when some decisions get the action through, and
\* it explores the states that they lead to and no other.  The node does not
\* depend on what ExecContext decided: it is looked at for one run of each.
FirstDecisions ==
  \A i \in DOMAIN decisions : decisions[i] \in {Alternative(1)} \cup {Sample(0, Below(n)) : n \in Values}
EnabledIsExact ==
  ~Building /\ ~escaped /\ FirstDecisions =>
    LET env == start @@ [zero |-> 0]
    IN EnabledEnvs(ast, env) = {r.env : r \in {o \in Outcomes(ast, env, <<>>) : o.status = "ok"}}

\* state-machine.md: a field is assigned at most once.  from-tla-llms.md: to
\* use the value from before the assignment, take a snapshot.
AgreesIfAssignedOnce ==
  ~Building /\ ~escaped => LET r == Executed IN r.once => Agrees(r)
=============================================================================

-------------------------------- MODULE Flow --------------------------------
(***************************************************************************)
(* The builder of wunderspec/flow.py: a function decorated with with_flow  *)
(* writes `with flow.if_(c):`, `flow.else_()` and `flow.return_(e)` where  *)
(* Python would have `if c:`, `else:` and `return e`, and gets an Ite tree.*)
(*                                                                         *)
(* A program is written call by call.  Its k-th if_ tests a condition of   *)
(* its own, number k, and its k-th return_ returns k.  `returned` runs the *)
(* same program as Python would, for every value of the conditions.  A     *)
(* tree stands for what it gives in each of these.                         *)
(***************************************************************************)
EXTENDS Integers, Sequences, FiniteSets, SequencesExt

CONSTANT MaxFlowCalls  \* bound: calls of a program
ASSUME FlowCallsAssumption == MaxFlowCalls \in Nat

VARIABLES
  iteNodes,    \* the _IteNodes, in the order of their creation: the first is _root
  nodeStack,   \* _node_stack, of indices into iteNodes
  branches,    \* the with-blocks that the program is in, the function body first
  returned,    \* what Python's program has returned, for each value of the conditions
  flowCalls,   \* the calls so far
  flowVerdict  \* Unfinished, Rejected (a FlowError), or what the decorator returns

flowVars == <<iteNodes, nodeStack, branches, returned, flowCalls, flowVerdict>>

Unfinished == <<"building">>
Missing == <<"none">>
ExprOf(k) == <<"expr", k>>
NodeOf(k) == <<"node", k>>
NewNode(condition, state) ==
  [condition |-> condition, then |-> Missing, else |-> Missing, state |-> state]

\* A value of the conditions: the set of those that are true.  A program that is
\* accepted returns at least once for each of its conditions.
Worlds == SUBSET (1..(MaxFlowCalls \div 2))
Count(call) == Cardinality({i \in DOMAIN flowCalls : flowCalls[i] = call})
Body == Last(branches)

----------------------------------------------------------------------------
(* The builder: what a call makes of a pair of nodes and stack.  No pair: it raises. *)

Raised == [nodes |-> <<>>, stack |-> <<>>]
Pair(ns, s) == [nodes |-> ns, stack |-> s]
LastNode == iteNodes[Last(nodeStack)]
LastBecomes(node) == [iteNodes EXCEPT ![Last(nodeStack)] = node]

IfCalled(condition) ==
  LET new == NodeOf(Len(iteNodes) + 1)
      child(node) == Append(LastBecomes(node), NewNode(condition, "if_open"))
      pushed(s) == Append(s, Len(iteNodes) + 1)
  IN IF nodeStack = <<>> THEN Raised ELSE
     CASE LastNode.state = "new" ->
            Pair(LastBecomes([LastNode EXCEPT !.condition = condition, !.state = "if_open"]), nodeStack)
       [] LastNode.state = "if_open" ->
            Pair(child([LastNode EXCEPT !.then = new]), pushed(nodeStack))
       [] LastNode.state = "if_closed" ->
            Pair(child([LastNode EXCEPT !.else = new, !.state = "else_closed"]), pushed(Front(nodeStack)))
       [] LastNode.state = "else_open" ->
            Pair(child([LastNode EXCEPT !.else = new]), pushed(nodeStack))
       [] OTHER -> Raised

ElseCalled ==
  IF nodeStack # <<>> /\ LastNode.state = "if_closed"
  THEN Pair(LastBecomes([LastNode EXCEPT !.state = "else_open"]), nodeStack)
  ELSE Raised

\* return_ stores the expression and raises _FlowReturn, which ends the block.
ReturnCalled(k) ==
  IF nodeStack = <<>> THEN Raised ELSE
  CASE LastNode.state = "if_open" -> Pair(LastBecomes([LastNode EXCEPT !.then = ExprOf(k)]), nodeStack)
    [] LastNode.state = "else_open" \/ (LastNode.state = "if_closed" /\ Len(nodeStack) > 1) ->
         Pair(LastBecomes([LastNode EXCEPT !.else = ExprOf(k)]), nodeStack)
    [] LastNode.state = "if_closed" /\ Len(nodeStack) = 1 ->
         Pair(LastBecomes([LastNode EXCEPT !.else = ExprOf(k), !.state = "else_closed"]), Front(nodeStack))
    [] OTHER -> Raised

\* __exit__, of whatever node is the last one by now.
Exited(p) ==
  LET node == p.nodes[Last(p.stack)]
      closed(state) == [p.nodes EXCEPT ![Last(p.stack)] = [node EXCEPT !.state = state]]
  IN IF p.stack = <<>> THEN Raised ELSE
     CASE node.state = "if_open" ->
            IF node.then = Missing THEN Raised ELSE Pair(closed("if_closed"), p.stack)
       [] node.state \in {"else_open", "if_closed"} ->
            IF node.else = Missing THEN Raised ELSE Pair(closed("else_closed"), Front(p.stack))
       [] OTHER -> p

\* end: what the tree of the nodes gives, Rejected where a node is not complete.
Rejected == <<"rejected">>
Giving(values) == <<"gives", values>>
IteTree(condition, then, else) ==
  IF Rejected \in {then, else} THEN Rejected
  ELSE Giving([w \in Worlds |-> IF condition \in w THEN then[2][w] ELSE else[2][w]])
\* Mutant of IteOf: the branches change places.
IteSwapped(condition, then, else) == IteTree(condition, else, then)
IteOf(condition, then, else) == IteTree(condition, then, else)
\* build_node of one node, when the nodes below it have been built.
BranchOf(built, part) ==
  CASE part = Missing -> Rejected
    [] part[1] = "expr" -> Giving([w \in Worlds |-> part[2]])
    [] OTHER -> built[part[2]]
NodeBuilt(node, built) ==
  IF node.state # "else_closed" THEN Rejected
  ELSE IteOf(node.condition, BranchOf(built, node.then), BranchOf(built, node.else))
BuildNode(ns) == LET built[k \in 1..Len(ns)] == NodeBuilt(ns[k], built) IN built
Ended(p) == IF p = Raised \/ p.stack # <<>> THEN Rejected ELSE BuildNode(p.nodes)[1]

----------------------------------------------------------------------------
(* Python: a block runs in the worlds of `runs`; `skipped` are those whose  *)
(* condition of the block's last `if` was false: the worlds of an `else`.  *)

NewBranch(worlds) == [runs |-> worlds, skipped |-> {}]
StillRunning == {w \in Body.runs : returned[w] = 0}
BodyBecomes(branch) == [branches EXCEPT ![Len(branches)] = branch]

----------------------------------------------------------------------------
FlowInit ==
  /\ iteNodes = <<NewNode(0, "new")>>
  /\ nodeStack = <<1>>
  /\ branches = <<NewBranch(Worlds)>>
  /\ returned = [w \in Worlds |-> 0]
  /\ flowCalls = <<>>
  /\ flowVerdict = Unfinished

\* FlowError leaves the function: no block suppresses it.
Goes(call, p) ==
  /\ flowCalls' = Append(flowCalls, call)
  /\ iteNodes' = p.nodes
  /\ nodeStack' = p.stack
  /\ flowVerdict' = IF p = Raised THEN Rejected ELSE Unfinished
\* A program is written up to where Python cannot get.
Writing == flowVerdict = Unfinished /\ Len(flowCalls) < MaxFlowCalls /\ StillRunning # {}

\* with flow.if_(condition):
If ==
  /\ Writing
  /\ LET condition == Count("if") + 1
         true == {w \in StillRunning : condition \in w}
     IN /\ Goes("if", IfCalled(condition))
        /\ branches' = Append(BodyBecomes([Body EXCEPT !.skipped = StillRunning \ true]), NewBranch(true))
  /\ UNCHANGED returned

\* with flow.else_():
ElseBlock ==
  /\ Writing
  /\ Goes("else block", ElseCalled)
  /\ branches' = Append(BodyBecomes([Body EXCEPT !.skipped = {}]), NewBranch(Body.skipped))
  /\ UNCHANGED returned

\* flow.else_(): the rest of the block is the other branch.
Else ==
  /\ Writing
  /\ Goes("else", ElseCalled)
  /\ branches' = BodyBecomes(NewBranch(Body.skipped))
  /\ UNCHANGED returned

\* flow.return_(k): the exception ends the block, or the function.
FlowReturn ==
  /\ Writing
  /\ LET k == Count("return") + 1
         stored == ReturnCalled(k)
         left == IF stored = Raised THEN Raised ELSE Exited(stored)
     IN /\ returned' = [w \in Worlds |-> IF w \in StillRunning THEN k ELSE returned[w]]
        /\ IF Len(branches) > 1
           THEN Goes("return", left) /\ branches' = Front(branches)
           ELSE /\ flowCalls' = Append(flowCalls, "return")
                /\ iteNodes' = stored.nodes
                /\ nodeStack' = stored.stack
                /\ flowVerdict' = Ended(stored)
                /\ UNCHANGED branches

\* A block ends without return_.
Leave ==
  /\ flowVerdict = Unfinished
  /\ Len(branches) > 1
  /\ Goes("leave", Exited(Pair(iteNodes, nodeStack)))
  /\ branches' = Front(branches)
  /\ UNCHANGED returned

\* return flow.end()
End ==
  /\ flowVerdict = Unfinished
  /\ Len(branches) = 1
  /\ flowVerdict' = Ended(Pair(iteNodes, nodeStack))
  /\ flowCalls' = Append(flowCalls, "end")
  /\ UNCHANGED <<iteNodes, nodeStack, branches, returned>>

FlowNext == If \/ ElseBlock \/ Else \/ FlowReturn \/ Leave \/ End
FlowSpec == FlowInit /\ [][FlowNext]_flowVars

----------------------------------------------------------------------------
\* The tree of an accepted function gives what Python would return: the blocks that
\* __exit__ closes and the branches that return_ fills are those of the program,
\* though each looks only at the last node of the stack (flow.py:150).
AcceptedFlowsMeanPython ==
  flowVerdict[1] = "gives" => \A w \in Worlds : flowVerdict[2][w] = returned[w]

\* "Introduce an explicit else branch after a completed `with flow.if_(...)` block",
\* and "An explicit `flow.else_()` is optional" (docs/user-references/flow.md:49-62,
\* where flow.else_() and then flow.return_ end the function): a function of if_
\* blocks and else branches that returns in every case, by a return_ outside of the
\* blocks in the end, is accepted.
Complete ==
  /\ Len(branches) = 1 /\ flowCalls # <<>> /\ Last(flowCalls) = "return" /\ "if" \in ToSet(flowCalls)
  /\ \A w \in Worlds : returned[w] # 0
ElseBranchesAreAccepted == Complete => flowVerdict # Rejected
=============================================================================

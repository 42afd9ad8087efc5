----------------------------- MODULE Flow_proofs -----------------------------
(***************************************************************************)
(* Proofs about functions of any number of flow calls: the tree of one     *)
(* that is accepted gives what Python would return.                        *)
(*                                                                         *)
(* Either each open node of the stack belongs to a block of its own, and   *)
(* then the worlds that reach the missing branch of the last node are      *)
(* those in which the program still runs; or there are more open nodes     *)
(* than blocks to close them, and then end() will find some on the stack.  *)
(***************************************************************************)
EXTENDS Flow, FiniteSetTheorems, SequenceTheorems, WellFoundedInduction, TLAPS

----------------------------------------------------------------------------
(* Types. *)

Parts == {Missing} \cup {ExprOf(e) : e \in Nat \ {0}} \cup {NodeOf(k) : k \in Nat}
NodeStates == {"new", "if_open", "if_closed", "else_open", "else_closed"}
IteNodes == [condition : Nat, then : Parts, else : Parts, state : NodeStates]
Branches == [runs : SUBSET Worlds, skipped : SUBSET Worlds]
Calls == {"if", "else block", "else", "return", "leave", "end"}

NodesOK(ns) == ns \in Seq(IteNodes) /\ Len(ns) > 0
StackOK(ns, st) ==
  /\ st \in Seq(Nat)
  /\ \A i \in 1..Len(st) : st[i] \in 1..Len(ns)
  /\ \A i, j \in 1..Len(st) : i < j => st[i] < st[j]
BranchesOK(br) == br \in Seq(Branches) /\ Len(br) > 0
FlowTypeOK ==
  /\ NodesOK(iteNodes) /\ StackOK(iteNodes, nodeStack) /\ BranchesOK(branches)
  /\ returned \in [Worlds -> Nat] /\ flowCalls \in Seq(Calls)

LEMMA PartKinds ==
  /\ Missing \in Parts
  /\ \A e \in Nat \ {0} : ExprOf(e) \in Parts
  /\ \A k \in Nat : NodeOf(k) \in Parts
  /\ \A e : ExprOf(e) # Missing /\ ExprOf(e)[1] = "expr" /\ ExprOf(e)[2] = e
  /\ \A k : NodeOf(k) # Missing /\ NodeOf(k)[1] = "node" /\ NodeOf(k)[2] = k
  /\ \A e, k : ExprOf(e) # NodeOf(k)
  /\ \A e, f : ExprOf(e) = ExprOf(f) => e = f
  /\ \A k, j : NodeOf(k) = NodeOf(j) => k = j
<1>1. /\ Missing \in Parts
      /\ \A e \in Nat \ {0} : ExprOf(e) \in Parts
      /\ \A k \in Nat : NodeOf(k) \in Parts
  BY DEF Parts
<1>2. /\ \A e : ExprOf(e)[1] = "expr" /\ ExprOf(e)[2] = e
      /\ \A k : NodeOf(k)[1] = "node" /\ NodeOf(k)[2] = k
      /\ Missing[1] = "none"
  BY DEF ExprOf, NodeOf, Missing
<1>3. QED
  BY <1>1, <1>2

LEMMA Verdicts ==
  /\ Unfinished[1] = "building" /\ Rejected[1] = "rejected"
  /\ \A f : Giving(f)[1] = "gives" /\ Giving(f)[2] = f
BY DEF Unfinished, Rejected, Giving

LEMMA NewNodeTyped ==
  ASSUME NEW c \in Nat, NEW s \in NodeStates
  PROVE  /\ NewNode(c, s) \in IteNodes
         /\ NewNode(c, s).condition = c /\ NewNode(c, s).state = s
         /\ NewNode(c, s).then = Missing /\ NewNode(c, s).else = Missing
BY PartKinds DEF NewNode, IteNodes

----------------------------------------------------------------------------
(* The invariant. *)

IsOpen(node) == node.state \in {"if_open", "else_open"}
OpenPart(node) == IF node.state = "if_open" THEN node.then ELSE node.else
ThenWorlds(node, worlds) == {w \in worlds : node.condition \in w}
ElseWorlds(node, worlds) == {w \in worlds : node.condition \notin w}
OpenWorlds(node, worlds) ==
  IF node.state = "if_open" THEN ThenWorlds(node, worlds) ELSE ElseWorlds(node, worlds)

\* reach[k] are the worlds whose path through the tree comes to the k-th node.  The path
\* of a world in which the program has returned ends in what it has returned.
Leads(part, worlds, k, n, ret, reach) ==
  /\ part = Missing => \A w \in worlds : ret[w] = 0
  /\ \A e \in Nat : part = ExprOf(e) => \A w \in worlds : ret[w] = e
  /\ \A j \in Nat : part = NodeOf(j) => j \in (k + 1)..n /\ reach[j] = worlds
NodeLeads(node, k, n, ret, reach) ==
  /\ Leads(node.then, ThenWorlds(node, reach[k]), k, n, ret, reach)
  /\ Leads(node.else, ElseWorlds(node, reach[k]), k, n, ret, reach)
Routes(ns, ret, reach) ==
  /\ reach \in [1..Len(ns) -> SUBSET Worlds]
  /\ reach[1] = Worlds
  /\ \A k \in 1..Len(ns) : NodeLeads(ns[k], k, Len(ns), ret, reach)

\* Which branches a node has in each of its states.
Filled(node) ==
  /\ node.state \in {"if_closed", "else_open", "else_closed"} => node.then # Missing
  /\ node.state = "else_closed" => node.else # Missing
  /\ node.state \in {"new", "if_open", "if_closed"} => node.else = Missing
  /\ node.state = "new" => node.then = Missing

\* Each open node belongs to the block that was opened with it, and has the next
\* node of the stack in its open branch; between blocks, the last node awaits its else.
Shape(ns, st, b) ==
  /\ Len(st) \in {b - 1, b}
  /\ \A i \in 1..Len(st) : i < b <=> IsOpen(ns[st[i]])
  /\ Len(st) = b => LET node == ns[st[b]] IN node.state = "if_closed" \/ (node.state = "new" /\ b = 1)
  /\ \A i \in 1..Len(st) : i < Len(st) => OpenPart(ns[st[i]]) # Missing
OnStack(ns, st) ==
  \A k \in 1..Len(ns) : ns[k].state # "else_closed" => \E i \in 1..Len(st) : st[i] = k
Nested(ns, st, reach) ==
  \A i, j \in 1..Len(st) : i < j => reach[st[j]] \subseteq OpenWorlds(ns[st[i]], reach[st[i]])
Runs(ns, st, br, reach) ==
  /\ br[1].runs = Worlds
  /\ \A i \in 1..Len(st) :
       i < Len(br) => br[i + 1].runs = OpenWorlds(ns[st[i]], reach[st[i]])
  /\ \A i \in 1..Len(st) :
       ns[st[i]].state \in {"if_open", "if_closed"} => br[i].skipped = ElseWorlds(ns[st[i]], reach[st[i]])

\* The path of a world ends in a branch that is missing.
Hole(node, worlds, w) ==
  \/ node.then = Missing /\ w \in ThenWorlds(node, worlds)
  \/ node.else = Missing /\ w \in ElseWorlds(node, worlds)
Pending(ns, st, ret, reach) ==
  \A w \in Worlds : ret[w] = 0 => \E i \in 1..Len(st) : Hole(ns[st[i]], reach[st[i]], w)

Faithful(ns, st, br, ret, reach) ==
  /\ Routes(ns, ret, reach)
  /\ \A k \in 1..Len(ns) : Filled(ns[k])
  /\ Shape(ns, st, Len(br)) /\ OnStack(ns, st)
  /\ Nested(ns, st, reach) /\ Runs(ns, st, br, reach)
  /\ Pending(ns, st, ret, reach)

\* More nodes are open than there are blocks to close them.
OpenLevels(ns, st) == {i \in 1..Len(st) : IsOpen(ns[st[i]])}
Doomed(ns, st, b) == Cardinality(OpenLevels(ns, st)) >= b

FlowInv ==
  /\ flowVerdict = Unfinished =>
       /\ FlowTypeOK
       /\ \/ Doomed(iteNodes, nodeStack, Len(branches))
          \/ \E reach : Faithful(iteNodes, nodeStack, branches, returned, reach)
  /\ AcceptedFlowsMeanPython
----------------------------------------------------------------------------
(* Where the program still runs. *)

LEMMA Sides ==
  ASSUME NEW node, NEW worlds
  PROVE  /\ \A w \in worlds : w \in ThenWorlds(node, worlds) <=> w \notin ElseWorlds(node, worlds)
         /\ ThenWorlds(node, worlds) \subseteq worlds
         /\ ElseWorlds(node, worlds) \subseteq worlds
         /\ OpenWorlds(node, worlds) \subseteq worlds
BY DEF ThenWorlds, ElseWorlds, OpenWorlds

LEMMA ReachTyped ==
  ASSUME NEW ns, NodesOK(ns), NEW st, StackOK(ns, st), NEW ret, NEW reach, Routes(ns, ret, reach)
  PROVE  /\ Len(ns) \in Nat /\ \A k \in 1..Len(ns) : ns[k] \in IteNodes /\ reach[k] \subseteq Worlds
         /\ Len(st) \in Nat
         /\ \A i \in 1..Len(st) : st[i] \in 1..Len(ns) /\ st[i] \in Nat
BY DEF NodesOK, StackOK, Routes

\* What the worlds of a block, and its bounds, have to do with the stack.
LEMMA BodyRuns ==
  ASSUME NEW ns, NodesOK(ns), NEW st, StackOK(ns, st), NEW br, BranchesOK(br),
         NEW ret, NEW reach, Faithful(ns, st, br, ret, reach)
  PROVE  /\ br[Len(br)].runs \subseteq Worlds
         /\ \A i \in 1..Len(st) : i < Len(br) =>
              br[Len(br)].runs \subseteq OpenWorlds(ns[st[i]], reach[st[i]])
         /\ Len(st) > 0 /\ Len(st) < Len(br) => br[Len(br)].runs = OpenWorlds(ns[st[Len(st)]], reach[st[Len(st)]])
         /\ Len(st) = Len(br) => reach[st[Len(st)]] \subseteq br[Len(br)].runs
<1> DEFINE b == Len(br)
           n == Len(st)
<1>1. b \in Nat /\ b > 0 /\ n \in Nat /\ n \in {b - 1, b}
  BY DEF BranchesOK, StackOK, Faithful, Shape
<1>2. Routes(ns, ret, reach) /\ Nested(ns, st, reach) /\ Runs(ns, st, br, reach)
  BY DEF Faithful
<1>3. \A i \in 1..n : reach[st[i]] \subseteq Worlds
  BY <1>2, ReachTyped
<1>4. br[b].runs \subseteq Worlds
  <2>1. b \in 1..b /\ br[b] \in Branches
    BY <1>1 DEF BranchesOK
  <2>2. QED
    BY <2>1 DEF Branches
<1>5. b > 1 => b - 1 \in 1..n /\ br[b].runs = OpenWorlds(ns[st[b - 1]], reach[st[b - 1]])
  BY <1>1, <1>2 DEF Runs
<1>6. ASSUME NEW i \in 1..n, i < b
      PROVE  br[b].runs \subseteq OpenWorlds(ns[st[i]], reach[st[i]])
  <2>1. b > 1 /\ b - 1 \in 1..n /\ (i = b - 1 \/ i < b - 1)
    BY <1>1, <1>5, <1>6
  <2>2. CASE i = b - 1
    BY <1>5, <2>1, <2>2
  <2>3. CASE i < b - 1
    <3>1. reach[st[b - 1]] \subseteq OpenWorlds(ns[st[i]], reach[st[i]])
      BY <1>2, <2>1, <2>3 DEF Nested
    <3>2. QED
      BY <1>5, <2>1, <3>1, Sides
  <2>4. QED
    BY <2>1, <2>2, <2>3
<1>7. n > 0 /\ n < b => br[b].runs = OpenWorlds(ns[st[n]], reach[st[n]])
  BY <1>1, <1>5
<1>8. n = b => reach[st[n]] \subseteq br[b].runs
  <2>1. SUFFICES ASSUME n = b PROVE reach[st[n]] \subseteq br[b].runs
    OBVIOUS
  <2>2. CASE b = 1
    BY <1>1, <1>2, <1>3, <2>1, <2>2 DEF Runs
  <2>3. CASE b # 1
    <3>1. b > 1 /\ b - 1 \in 1..n /\ n \in 1..n /\ b - 1 < n
      BY <1>1, <2>1, <2>3
    <3>2. reach[st[n]] \subseteq OpenWorlds(ns[st[b - 1]], reach[st[b - 1]])
      BY <1>2, <3>1 DEF Nested
    <3>3. br[b].runs = OpenWorlds(ns[st[b - 1]], reach[st[b - 1]])
      BY <1>5, <3>1
    <3>4. QED
      BY <3>2, <3>3
  <2>4. QED
    BY <2>2, <2>3
<1>9. QED
  BY <1>4, <1>6, <1>7, <1>8

\* In none of them does a node below the last one miss a branch.
LEMMA HolesApart ==
  ASSUME NEW ns, NodesOK(ns), NEW st, StackOK(ns, st), NEW br, BranchesOK(br),
         NEW ret, NEW reach, Faithful(ns, st, br, ret, reach),
         NEW i \in 1..Len(st), i < Len(st), NEW w \in br[Len(br)].runs
  PROVE  ~Hole(ns[st[i]], reach[st[i]], w)
<1> DEFINE node == ns[st[i]]
           worlds == reach[st[i]]
<1>1. Len(br) \in Nat /\ Len(st) \in Nat /\ Len(st) \in {Len(br) - 1, Len(br)}
  BY DEF BranchesOK, StackOK, Faithful, Shape
<1>2. i < Len(br) /\ st[i] \in 1..Len(ns)
  BY <1>1 DEF StackOK
<1>3. IsOpen(node) /\ OpenPart(node) # Missing /\ Filled(node)
  BY <1>2 DEF Faithful, Shape
<1>4. w \in OpenWorlds(node, worlds)
  BY <1>2, BodyRuns
<1> HIDE DEF node, worlds
<1>5. ~Hole(node, worlds, w)
  BY <1>3, <1>4 DEF Hole, IsOpen, OpenPart, OpenWorlds, ThenWorlds, ElseWorlds, Filled
<1>6. QED
  BY <1>5 DEF node, worlds

\* The worlds in which a program still runs are those that reach the missing branch
\* of the last node.
Waiting(node, worlds, running) ==
  \/ node.state = "new" /\ running = worlds
  \/ node.state = "if_open" /\ node.then = Missing /\ running = ThenWorlds(node, worlds)
  \/ node.state \in {"if_closed", "else_open"} /\ node.else = Missing /\ running = ElseWorlds(node, worlds)
RunningIn(br, ret) == {w \in br[Len(br)].runs : ret[w] = 0}
LEMMA RunningIsHole ==
  ASSUME NEW ns, NodesOK(ns), NEW st, StackOK(ns, st), NEW br, BranchesOK(br),
         NEW ret, NEW reach, Faithful(ns, st, br, ret, reach),
         NEW running, running = RunningIn(br, ret), running # {}
  PROVE  Len(st) > 0 /\ Waiting(ns[st[Len(st)]], reach[st[Len(st)]], running)
<1> DEFINE b == Len(br)
           n == Len(st)
           d(i) == ns[st[i]]
           R(i) == reach[st[i]]
<1>0. running = {w \in br[b].runs : ret[w] = 0}
  BY DEF RunningIn
<1>1. b \in Nat /\ b > 0 /\ n \in Nat /\ n \in {b - 1, b}
  BY DEF BranchesOK, StackOK, Faithful, Shape
<1>2. /\ \A i \in 1..n : i < b <=> IsOpen(d(i))
      /\ n = b => d(n).state = "if_closed" \/ (d(n).state = "new" /\ b = 1)
      /\ \A i \in 1..n : i < n => OpenPart(d(i)) # Missing
  BY <1>1 DEF Faithful, Shape
<1>3. \A i \in 1..n : st[i] \in 1..Len(ns) /\ Filled(d(i)) /\ R(i) \subseteq Worlds
  BY ReachTyped DEF Faithful
<1>4. /\ running \subseteq Worlds
      /\ \A i \in 1..n : i < b => running \subseteq OpenWorlds(d(i), R(i))
      /\ n > 0 /\ n < b => br[b].runs = OpenWorlds(d(n), R(n))
      /\ n = b => R(n) \subseteq br[b].runs
  BY BodyRuns, <1>0, <1>1
<1>5. \A w \in running : \E i \in 1..n : Hole(d(i), R(i), w)
  BY <1>0, <1>4 DEF Faithful, Pending
<1>6. ASSUME NEW w \in running, NEW i \in 1..n, Hole(d(i), R(i), w)
      PROVE  ~(i < n)
  BY <1>0, <1>6, HolesApart
<1>7. n > 0 /\ n \in 1..n /\ \A w \in running : Hole(d(n), R(n), w)
  BY <1>1, <1>5, <1>6
<1>8. NodeLeads(d(n), st[n], Len(ns), ret, reach)
  BY <1>3, <1>7 DEF Faithful, Routes
<1>9. /\ d(n).then = Missing => \A w \in ThenWorlds(d(n), R(n)) : ret[w] = 0
      /\ d(n).else = Missing => \A w \in ElseWorlds(d(n), R(n)) : ret[w] = 0
  BY <1>8 DEF NodeLeads, Leads
<1>10. Filled(d(n)) /\ (n < b <=> IsOpen(d(n)))
       /\ (n = b => d(n).state = "if_closed" \/ (d(n).state = "new" /\ b = 1))
       /\ (n < b => running \subseteq OpenWorlds(d(n), R(n)))
       /\ (n < b => br[b].runs = OpenWorlds(d(n), R(n)))
  BY <1>2, <1>3, <1>4, <1>7
<1>11. \A w \in running : w \in br[b].runs
  BY <1>0
<1>12. PICK v : v \in running
  OBVIOUS
<1>13. \A w \in br[b].runs : ret[w] = 0 => w \in running
  BY <1>0
<1>14. ThenWorlds(d(n), R(n)) \subseteq R(n) /\ ElseWorlds(d(n), R(n)) \subseteq R(n)
       /\ \A w \in R(n) : w \in ThenWorlds(d(n), R(n)) <=> w \notin ElseWorlds(d(n), R(n))
  BY Sides
<1> HIDE DEF d, R
<1>15. CASE n < b
  <2>1. CASE d(n).state = "if_open"
    <3>1. br[b].runs = ThenWorlds(d(n), R(n)) /\ running \subseteq ThenWorlds(d(n), R(n))
      BY <1>10, <1>15, <2>1 DEF OpenWorlds
    <3>2. d(n).then = Missing
      BY <1>7, <1>12, <1>14, <3>1 DEF Hole
    <3>3. running = ThenWorlds(d(n), R(n))
      BY <1>9, <1>13, <3>1, <3>2
    <3>4. QED
      BY <1>7, <2>1, <3>2, <3>3 DEF Waiting, d, R
  <2>2. CASE d(n).state = "else_open"
    <3>1. br[b].runs = ElseWorlds(d(n), R(n)) /\ running \subseteq ElseWorlds(d(n), R(n))
      BY <1>10, <1>15, <2>2 DEF OpenWorlds
    <3>2. d(n).else = Missing
      BY <1>7, <1>12, <1>14, <3>1 DEF Hole
    <3>3. running = ElseWorlds(d(n), R(n))
      BY <1>9, <1>13, <3>1, <3>2
    <3>4. QED
      BY <1>7, <2>2, <3>2, <3>3 DEF Waiting, d, R
  <2>3. QED
    BY <1>10, <1>15, <2>1, <2>2 DEF IsOpen
<1>16. CASE n = b
  <2>0. R(n) \subseteq br[b].runs
    BY <1>4, <1>16 DEF R
  <2>1. CASE d(n).state = "if_closed"
    <3>1. d(n).then # Missing /\ d(n).else = Missing
      BY <1>10, <2>1 DEF Filled
    <3>2. running = ElseWorlds(d(n), R(n))
      BY <1>7, <1>9, <1>13, <1>14, <2>0, <3>1 DEF Hole
    <3>3. QED
      BY <1>7, <2>1, <3>1, <3>2 DEF Waiting, d, R
  <2>2. CASE d(n).state = "new"
    <3>1. d(n).then = Missing /\ d(n).else = Missing
      BY <1>10, <2>2 DEF Filled
    <3>2. running = R(n)
      BY <1>7, <1>9, <1>13, <1>14, <2>0, <3>1 DEF Hole
    <3>3. QED
      BY <1>7, <2>2, <3>2 DEF Waiting, d, R
  <2>3. QED
    BY <1>10, <1>16, <2>1, <2>2
<1>17. QED
  BY <1>1, <1>15, <1>16

----------------------------------------------------------------------------
(* if_: a node is added in the missing branch of the last one. *)

WithChild(ns, k, node, c) == Append([ns EXCEPT ![k] = node], NewNode(c, "if_open"))
Grown(ns, k, node, added, ns2) ==
  /\ NodesOK(ns2) /\ Len(ns2) = Len(ns) + 1 /\ ns2[Len(ns) + 1] = added /\ ns2[k] = node
  /\ \A j \in 1..Len(ns) : j # k => ns2[j] = ns[j]
LEMMA Growing ==
  ASSUME NEW ns, NodesOK(ns), NEW k \in 1..Len(ns), NEW node \in IteNodes, NEW c \in Nat
  PROVE  Grown(ns, k, node, NewNode(c, "if_open"), WithChild(ns, k, node, c))
<1> DEFINE added == NewNode(c, "if_open")
           ns1 == [ns EXCEPT ![k] = node]
<1>1. ns \in Seq(IteNodes) /\ Len(ns) \in Nat /\ added \in IteNodes
  BY NewNodeTyped DEF NodesOK, NodeStates
<1>2. ns1 \in Seq(IteNodes) /\ Len(ns1) = Len(ns)
      /\ \A j \in 1..Len(ns) : ns1[j] = IF j = k THEN node ELSE ns[j]
  BY <1>1
<1>3. WithChild(ns, k, node, c) = Append(ns1, added)
  BY DEF WithChild
<1> HIDE DEF added, ns1
<1>4. Grown(ns, k, node, added, Append(ns1, added))
  BY <1>1, <1>2 DEF NodesOK, Grown
<1>5. QED
  BY <1>3, <1>4 DEF added

LEMMA Replacing ==
  ASSUME NEW ns, NodesOK(ns), NEW k \in 1..Len(ns), NEW node \in IteNodes,
         NEW ns2, ns2 = [ns EXCEPT ![k] = node]
  PROVE  /\ NodesOK(ns2) /\ Len(ns2) = Len(ns) /\ ns2[k] = node
         /\ \A j \in 1..Len(ns) : j # k => ns2[j] = ns[j]
<1>1. ns \in Seq(IteNodes) /\ Len(ns) \in Nat
  BY DEF NodesOK
<1>2. QED
  BY <1>1 DEF NodesOK

ReachGrown(ns, reach, worlds, reach2) ==
  reach2 = [j \in 1..(Len(ns) + 1) |-> IF j = Len(ns) + 1 THEN worlds ELSE reach[j]]
LEMMA GrownRoutes ==
  ASSUME NEW ns, NodesOK(ns), NEW ret, NEW reach, Routes(ns, ret, reach),
         NEW k \in 1..Len(ns), NEW node \in IteNodes, NEW c \in Nat,
         NEW worlds \in SUBSET Worlds, \A w \in worlds : ret[w] = 0,
         NEW ns2, ns2 = WithChild(ns, k, node, c),
         NEW reach2, ReachGrown(ns, reach, worlds, reach2),
         NodeLeads(node, k, Len(ns) + 1, ret, reach2)
  PROVE  Routes(ns2, ret, reach2)
<1> DEFINE N == Len(ns) + 1
           added == NewNode(c, "if_open")
<1>1. Len(ns) \in Nat /\ Len(ns) > 0
  BY DEF NodesOK
<1>2. added \in IteNodes /\ added.then = Missing /\ added.else = Missing
  BY NewNodeTyped DEF NodeStates
<1>3. /\ Len(ns2) = N /\ ns2[N] = added /\ ns2[k] = node
      /\ \A j \in 1..Len(ns) : j # k => ns2[j] = ns[j]
  BY Growing DEF Grown
<1>4. reach2[N] = worlds /\ \A j \in 1..Len(ns) : reach2[j] = reach[j]
  BY <1>1 DEF ReachGrown
<1>5. reach2 \in [1..N -> SUBSET Worlds] /\ reach2[1] = Worlds
  BY <1>1 DEF Routes, ReachGrown
<1>6. NodeLeads(added, N, N, ret, reach2)
  BY <1>2, <1>4, Sides, PartKinds DEF NodeLeads, Leads
<1>7. ASSUME NEW j \in 1..Len(ns), j # k
      PROVE  NodeLeads(ns2[j], j, N, ret, reach2)
  <2>1. NodeLeads(ns[j], j, Len(ns), ret, reach)
    BY DEF Routes
  <2>2. reach2[j] = reach[j] /\ ns2[j] = ns[j]
    BY <1>3, <1>4, <1>7
  <2>3. ASSUME NEW part, NEW side, Leads(part, side, j, Len(ns), ret, reach)
        PROVE  Leads(part, side, j, N, ret, reach2)
    BY <1>1, <1>4, <2>3 DEF Leads
  <2>4. QED
    BY <2>1, <2>2, <2>3 DEF NodeLeads
<1>8. \A j \in 1..N : NodeLeads(ns2[j], j, N, ret, reach2)
  BY <1>1, <1>3, <1>6, <1>7
<1>9. QED
  BY <1>3, <1>5, <1>8 DEF Routes

WithBranch(br, body, added) == Append([br EXCEPT ![Len(br)] = body], added)
BranchGrown(br, body, added, br2) ==
  /\ BranchesOK(br2) /\ Len(br2) = Len(br) + 1
  /\ br2[Len(br)] = body /\ br2[Len(br) + 1] = added
  /\ \A i \in 1..Len(br) : i # Len(br) => br2[i] = br[i]
LEMMA BranchAdded ==
  ASSUME NEW br, BranchesOK(br), NEW body \in Branches, NEW added \in Branches
  PROVE  BranchGrown(br, body, added, WithBranch(br, body, added))
<1>1. br \in Seq(Branches) /\ Len(br) \in Nat /\ Len(br) > 0
  BY DEF BranchesOK
<1> DEFINE ended == [br EXCEPT ![Len(br)] = body]
           br2 == WithBranch(br, body, added)
<1>2. ended \in Seq(Branches) /\ Len(ended) = Len(br)
      /\ \A i \in 1..Len(br) : ended[i] = IF i = Len(br) THEN body ELSE br[i]
  BY <1>1
<1>3. br2 = Append(ended, added)
  BY DEF WithBranch
<1> HIDE DEF ended, br2
<1>4. br2 \in Seq(Branches) /\ Len(br2) = Len(br) + 1 /\ br2[Len(br) + 1] = added
      /\ \A i \in 1..Len(br) : br2[i] = ended[i]
  BY <1>1, <1>2, <1>3
<1>5. QED
  BY <1>1, <1>2, <1>4 DEF BranchesOK, BranchGrown, br2

\* The last one of a sequence is taken away.
LEMMA FrontFacts ==
  ASSUME NEW S, NEW e \in Seq(S), e # <<>>
  PROVE  /\ Len(e) \in Nat \ {0} /\ Last(e) = e[Len(e)] /\ Last(e) \in S
         /\ Front(e) \in Seq(S) /\ Len(Front(e)) = Len(e) - 1
         /\ \A i \in 1..(Len(e) - 1) : Front(e)[i] = e[i]
<1>1. Len(e) \in Nat \ {0} /\ \A i \in 1..Len(e) : e[i] \in S
  <2>1. Len(e) \in Nat /\ e \in [1..Len(e) -> S]
    BY LenProperties
  <2>2. Len(e) # 0
    BY EmptySeq
  <2>3. QED
    BY <2>1, <2>2
<1>2. Last(e) = e[Len(e)] /\ Last(e) \in S
  BY <1>1 DEF Last
<1> DEFINE n == Len(e) - 1
<1>3. n \in Nat /\ \A i \in 1..n : e[i] \in S
  BY <1>1
<1>4. Front(e) = SubSeq(e, 1, n)
  BY DEF Front
<1> HIDE DEF n
<1>5. /\ SubSeq(e, 1, n) \in Seq(S)
      /\ Len(SubSeq(e, 1, n)) = IF 1 <= n THEN n - 1 + 1 ELSE 0
      /\ \A i \in 1..(n - 1 + 1) : SubSeq(e, 1, n)[i] = e[1 + i - 1]
  BY <1>3, SubSeqProperties
<1>6. Front(e) \in Seq(S) /\ Len(Front(e)) = n /\ \A i \in 1..n : Front(e)[i] = e[i]
  BY <1>3, <1>4, <1>5
<1>7. QED
  BY <1>1, <1>2, <1>6 DEF n

\* What the stack keeps when a node is pushed on it, or takes the place of its last one.
StackGrown(ns, st, base, ns2, st2) ==
  /\ Len(base) \in {Len(st) - 1, Len(st)} /\ Len(base) \in Nat
  /\ StackOK(ns2, st2) /\ Len(st2) = Len(base) + 1 /\ st2[Len(base) + 1] = Len(ns) + 1
  /\ \A i \in 1..Len(base) : i \in 1..Len(st) /\ st2[i] = st[i]
  /\ \A i \in 1..Len(st) : i < Len(st) => i \in 1..Len(base)
LEMMA Pushed ==
  ASSUME NEW ns, NEW st, StackOK(ns, st), NEW base \in {st, Front(st)}, Len(st) > 0, Len(ns) \in Nat,
         NEW ns2, Len(ns2) = Len(ns) + 1
  PROVE  StackGrown(ns, st, base, ns2, Append(base, Len(ns) + 1))
<1> DEFINE st2 == Append(base, Len(ns) + 1)
<1>1. st \in Seq(Nat) /\ Len(st) \in Nat /\ Len(st) > 0
  BY DEF StackOK
<1>2. base \in Seq(Nat) /\ Len(base) \in {Len(st) - 1, Len(st)} /\ Len(base) \in Nat
      /\ \A i \in 1..Len(base) : base[i] = st[i]
  <2>1. CASE base = st
    BY <1>1, <2>1
  <2>2. CASE base = Front(st)
    <3>1. /\ base \in Seq(Nat) /\ Len(base) = Len(st) - 1
          /\ \A i \in 1..(Len(st) - 1) : base[i] = st[i]
      <4>1. st # <<>>
        BY <1>1
      <4>2. /\ Front(st) \in Seq(Nat) /\ Len(Front(st)) = Len(st) - 1
            /\ \A i \in 1..(Len(st) - 1) : Front(st)[i] = st[i]
        BY <1>1, <4>1, FrontFacts
      <4>3. QED
        BY <2>2, <4>2
    <3>2. Len(base) \in {Len(st) - 1, Len(st)} /\ Len(base) \in Nat
      BY <1>1, <3>1
    <3>3. \A i \in 1..Len(base) : base[i] = st[i]
      BY <3>1
    <3>4. QED
      BY <3>1, <3>2, <3>3
  <2>3. QED
    BY <2>1, <2>2
<1>3. st2 \in Seq(Nat) /\ Len(st2) = Len(base) + 1 /\ st2[Len(base) + 1] = Len(ns) + 1
      /\ \A i \in 1..Len(base) : st2[i] = base[i]
  BY <1>2
<1> HIDE DEF st2
<1>4. \A i \in 1..Len(base) : i \in 1..Len(st) /\ st2[i] = st[i]
  BY <1>1, <1>2, <1>3
<1>5. \A i \in 1..Len(st) : st[i] \in 1..Len(ns)
  BY DEF StackOK
<1>6. \A i, j \in 1..Len(st) : i < j => st[i] < st[j]
  BY DEF StackOK
<1>7. \A i \in 1..Len(st2) : i \in 1..Len(base) \/ i = Len(base) + 1
  BY <1>2, <1>3
<1>8. \A i \in 1..Len(st2) : st2[i] \in 1..Len(ns2)
  BY <1>3, <1>4, <1>5, <1>7
<1>9. ASSUME NEW i \in 1..Len(st2), NEW j \in 1..Len(st2), i < j
      PROVE  st2[i] < st2[j]
  <2>1. CASE j = Len(base) + 1
    <3>1. i \in 1..Len(base)
      BY <1>2, <1>7, <1>9, <2>1
    <3>2. st2[i] \in 1..Len(ns)
      BY <1>4, <1>5, <3>1
    <3>3. st2[j] = Len(ns) + 1
      BY <1>3, <2>1
    <3>4. QED
      BY <3>2, <3>3
  <2>2. CASE j \in 1..Len(base)
    <3>1. i \in 1..Len(base)
      BY <1>2, <1>7, <1>9, <2>2
    <3>2. QED
      BY <1>4, <1>6, <1>9, <2>2, <3>1
  <2>3. QED
    BY <1>7, <2>1, <2>2
<1>10. QED
  <2>1. StackOK(ns2, st2)
    BY <1>3, <1>8, <1>9 DEF StackOK
  <2>2. \A i \in 1..Len(st) : i < Len(st) => i \in 1..Len(base)
    BY <1>1, <1>2
  <2>3. QED
    BY <1>2, <1>3, <1>4, <2>1, <2>2 DEF StackGrown, st2

\* The stack st2 has a new level b, and below it the levels of st.
GrownFrom(ns, st, b, ns2, st2, k, node, added) ==
  /\ Grown(ns, k, node, added, ns2)
  /\ StackOK(ns2, st2) /\ Len(st2) = b /\ st2[b] = Len(ns) + 1
  /\ \A i \in 1..(b - 1) : i \in 1..Len(st) /\ st2[i] = st[i]
  /\ \A i \in 1..Len(st) : i < Len(st) => i \in 1..(b - 1)
BranchedFrom(br, br2, running, c) ==
  /\ BranchesOK(br2) /\ Len(br2) = Len(br) + 1
  /\ \A i \in 1..Len(br) : i # Len(br) => br2[i] = br[i]
  /\ br2[Len(br)].runs = br[Len(br)].runs
  /\ br2[Len(br)].skipped = {w \in running : c \notin w}
  /\ br2[Len(br) + 1].runs = {w \in running : c \in w}
HolesMoved(old, node, worlds, running, stays) ==
  \A w \in Worlds : Hole(old, worlds, w) => w \in running \/ (stays /\ Hole(node, worlds, w))
LEMMA GrownFaithful ==
  ASSUME NEW ns, NodesOK(ns), NEW st, StackOK(ns, st), NEW br, BranchesOK(br), Len(st) > 0,
         NEW ret, NEW reach, Faithful(ns, st, br, ret, reach),
         NEW running, running = RunningIn(br, ret),
         NEW k, k = st[Len(st)],
         NEW node \in IteNodes, node.condition = ns[k].condition, Filled(node),
         Len(st) < Len(br) => node.state = ns[k].state /\ OpenPart(node) # Missing,
         Len(st) = Len(br) => node.state = "else_closed",
         HolesMoved(ns[k], node, reach[k], running, Len(st) < Len(br)),
         NEW c \in Nat, NEW ns2, NEW st2,
         GrownFrom(ns, st, Len(br), ns2, st2, k, node, NewNode(c, "if_open")),
         NEW reach2, Routes(ns2, ret, reach2), ReachGrown(ns, reach, running, reach2),
         NEW br2, BranchedFrom(br, br2, running, c)
  PROVE  Faithful(ns2, st2, br2, ret, reach2)
<1> DEFINE N == Len(ns) + 1
           n == Len(st)
           b == Len(br)
           fresh == NewNode(c, "if_open")
<1>1. /\ Len(ns) \in Nat /\ n \in Nat /\ b \in Nat /\ b > 0 /\ n \in 1..n /\ n \in {b - 1, b}
      /\ k \in 1..Len(ns)
  BY DEF NodesOK, StackOK, BranchesOK, Faithful, Shape
<1>2. /\ (\A j \in 1..Len(ns) : Filled(ns[j])) /\ Shape(ns, st, b)
      /\ OnStack(ns, st) /\ Nested(ns, st, reach) /\ Runs(ns, st, br, reach) /\ Pending(ns, st, ret, reach)
  BY DEF Faithful
<1>3. /\ fresh \in IteNodes /\ fresh.condition = c /\ fresh.state = "if_open"
      /\ fresh.then = Missing /\ fresh.else = Missing
  BY NewNodeTyped DEF NodeStates
<1>4. /\ NodesOK(ns2) /\ Len(ns2) = N /\ ns2[N] = fresh /\ ns2[k] = node
      /\ \A j \in 1..Len(ns) : j # k => ns2[j] = ns[j]
  BY DEF GrownFrom, Grown
<1>5. /\ BranchesOK(br2) /\ Len(br2) = b + 1
      /\ \A i \in 1..b : i # b => br2[i] = br[i]
      /\ br2[b].runs = br[b].runs
      /\ br2[b].skipped = {w \in running : c \notin w} /\ br2[b + 1].runs = {w \in running : c \in w}
  BY DEF BranchedFrom
<1>6. /\ StackOK(ns2, st2) /\ Len(st2) = b /\ st2[b] = N
      /\ \A i \in 1..(b - 1) : i \in 1..n /\ st2[i] = st[i]
      /\ \A i \in 1..n : i < n => i \in 1..(b - 1)
  BY DEF GrownFrom
<1>7. /\ running \in SUBSET Worlds /\ \A w \in running : ret[w] = 0
      /\ \A i \in 1..n : i < b => running \subseteq OpenWorlds(ns[st[i]], reach[st[i]])
  BY BodyRuns DEF RunningIn
<1>8. reach2[N] = running /\ (\A j \in 1..Len(ns) : reach2[j] = reach[j])
  BY <1>1 DEF ReachGrown
<1> HIDE DEF fresh
<1>10. \A i \in 1..n : st[i] \in 1..Len(ns) /\ (i # n => st[i] # k)
  BY <1>1 DEF StackOK
<1>11. ASSUME NEW i \in 1..(b - 1)
       PROVE  /\ st2[i] = st[i] /\ i \in 1..n /\ i < b /\ reach2[st2[i]] = reach[st[i]]
              /\ IsOpen(ns2[st2[i]]) /\ OpenPart(ns2[st2[i]]) # Missing
              /\ ns2[st2[i]].state = ns[st[i]].state
              /\ ns2[st2[i]].condition = ns[st[i]].condition
  <2>1. st2[i] = st[i] /\ i \in 1..n /\ i < b /\ reach2[st2[i]] = reach[st[i]]
    <3>1. st2[i] = st[i] /\ i \in 1..n
      BY <1>6
    <3>2. i < b
      BY <1>1
    <3>3. reach2[st[i]] = reach[st[i]]
      BY <1>8, <1>10, <3>1
    <3>4. QED
      BY <3>1, <3>2, <3>3
  <2>2. IsOpen(ns[st[i]])
    BY <1>2, <2>1 DEF Shape
  <2>3. CASE i = n
    <3>1. n < b /\ ns2[st2[i]] = node /\ st[i] = k
      BY <1>1, <1>4, <1>6, <2>1, <2>3
    <3>2. QED
      BY <2>1, <2>2, <3>1 DEF IsOpen
  <2>4. CASE i # n
    <3>1. i < n /\ ns2[st2[i]] = ns[st[i]]
      BY <1>1, <1>4, <1>10, <2>1, <2>4
    <3>2. OpenPart(ns[st[i]]) # Missing
      BY <1>2, <2>1, <3>1 DEF Shape
    <3>3. QED
      BY <2>1, <2>2, <3>1, <3>2
  <2>5. QED
    BY <2>3, <2>4
<1>12. \A i \in 1..(b - 1) :
         /\ OpenWorlds(ns2[st2[i]], reach2[st2[i]]) = OpenWorlds(ns[st[i]], reach[st[i]])
         /\ ElseWorlds(ns2[st2[i]], reach2[st2[i]]) = ElseWorlds(ns[st[i]], reach[st[i]])
  BY <1>11 DEF OpenWorlds, ThenWorlds, ElseWorlds
<1>13. b \in 1..Len(st2) /\ ns2[st2[b]] = fresh /\ reach2[st2[b]] = running
       /\ \A i \in 1..Len(st2) : i \in 1..(b - 1) \/ i = b
  BY <1>1, <1>4, <1>6, <1>8
<1>14. \A j \in 1..Len(ns2) : Filled(ns2[j])
  <2>1. Filled(fresh)
    BY <1>3 DEF Filled
  <2>2. \A j \in 1..Len(ns2) : j \in 1..Len(ns) \/ j = N
    BY <1>1, <1>4
  <2>3. QED
    BY <1>2, <1>4, <2>1, <2>2
<1>15. Shape(ns2, st2, Len(br2))
  <2>1. IsOpen(ns2[st2[b]])
    BY <1>3, <1>13 DEF IsOpen
  <2>2. \A i \in 1..Len(st2) : i < Len(br2) /\ IsOpen(ns2[st2[i]])
    <3>1. \A i \in 1..Len(st2) : IsOpen(ns2[st2[i]])
      BY <1>11, <1>13, <2>1
    <3>2. \A i \in 1..Len(st2) : i < Len(br2)
      BY <1>1, <1>5, <1>6
    <3>3. QED
      BY <3>1, <3>2
  <2>3. \A i \in 1..Len(st2) : i < Len(st2) => OpenPart(ns2[st2[i]]) # Missing
    BY <1>6, <1>11, <1>13
  <2>4. Len(st2) \in {Len(br2) - 1, Len(br2)} /\ Len(st2) # Len(br2)
    BY <1>1, <1>5, <1>6
  <2>5. QED
    BY <2>2, <2>3, <2>4 DEF Shape
<1>16. OnStack(ns2, st2)
  <2>1. SUFFICES ASSUME NEW j \in 1..Len(ns2), ns2[j].state # "else_closed"
                 PROVE  \E i \in 1..Len(st2) : st2[i] = j
    BY DEF OnStack
  <2>2. CASE j = N
    BY <1>6, <1>13, <2>2
  <2>3. CASE j = k
    <3>1. n < b
      BY <1>1, <1>4, <2>1, <2>3
    <3>2. n \in 1..(b - 1)
      BY <1>1, <3>1
    <3>3. QED
      BY <1>6, <2>3, <3>2, <1>11, <1>1
  <2>4. CASE j # N /\ j # k
    <3>1. j \in 1..Len(ns) /\ ns2[j] = ns[j]
      BY <1>1, <1>4, <2>4
    <3>2. PICK i \in 1..n : st[i] = j
      BY <1>2, <2>1, <3>1 DEF OnStack
    <3>3. i < n
      BY <1>1, <2>4, <3>2
    <3>4. QED
      BY <1>1, <1>6, <3>2, <3>3
  <2>5. QED
    BY <2>2, <2>3, <2>4
<1>17. Nested(ns2, st2, reach2)
  <2>1. SUFFICES ASSUME NEW i \in 1..Len(st2), NEW j \in 1..Len(st2), i < j
                 PROVE  reach2[st2[j]] \subseteq OpenWorlds(ns2[st2[i]], reach2[st2[i]])
    BY DEF Nested
  <2>2. i \in 1..(b - 1) /\ (j = b \/ j \in 1..(b - 1))
    BY <1>1, <1>6, <1>13, <2>1
  <2>3. CASE j = b
    BY <1>7, <1>11, <1>12, <1>13, <2>2, <2>3
  <2>4. CASE j \in 1..(b - 1)
    BY <1>2, <1>11, <1>12, <2>1, <2>2, <2>4 DEF Nested
  <2>5. QED
    BY <2>2, <2>3, <2>4
<1>18. Runs(ns2, st2, br2, reach2)
  <2>1. br2[1].runs = Worlds
    <3>1. br[1].runs = Worlds
      BY <1>2 DEF Runs
    <3>2. CASE b = 1
      BY <1>5, <3>1, <3>2
    <3>3. CASE b # 1
      BY <1>1, <1>5, <3>1, <3>3
    <3>4. QED
      BY <3>2, <3>3
  <2>2. OpenWorlds(fresh, running) = br2[b + 1].runs /\ ElseWorlds(fresh, running) = br2[b].skipped
    BY <1>3, <1>5 DEF OpenWorlds, ThenWorlds, ElseWorlds
  <2>3. ASSUME NEW i \in 1..(b - 1)
        PROVE  /\ br2[i + 1].runs = OpenWorlds(ns2[st2[i]], reach2[st2[i]])
               /\ ns2[st2[i]].state \in {"if_open", "if_closed"} =>
                    br2[i].skipped = ElseWorlds(ns2[st2[i]], reach2[st2[i]])
    <3>0. i \in 1..n /\ i < b
      BY <1>11
    <3>1. i \in 1..n /\ i < b /\ i \in 1..b /\ i # b /\ i + 1 \in 1..b
      BY <1>1, <3>0
    <3>2. br[i + 1].runs = OpenWorlds(ns[st[i]], reach[st[i]])
      BY <1>2, <3>1 DEF Runs
    <3>3. br2[i + 1].runs = br[i + 1].runs
      BY <1>5, <3>1
    <3>4. br2[i] = br[i]
      BY <1>5, <3>1
    <3>5. ns[st[i]].state \in {"if_open", "if_closed"} => br[i].skipped = ElseWorlds(ns[st[i]], reach[st[i]])
      BY <1>2, <3>1 DEF Runs
    <3>6. QED
      BY <1>11, <1>12, <3>2, <3>3, <3>4, <3>5
  <2>4. /\ br2[b + 1].runs = OpenWorlds(ns2[st2[b]], reach2[st2[b]])
        /\ br2[b].skipped = ElseWorlds(ns2[st2[b]], reach2[st2[b]])
    BY <1>5, <1>13, <2>2
  <2>5. QED
    BY <1>13, <2>1, <2>3, <2>4 DEF Runs
<1>19. Pending(ns2, st2, ret, reach2)
  <2>1. SUFFICES ASSUME NEW w \in Worlds, ret[w] = 0
                 PROVE  \E i \in 1..Len(st2) : Hole(ns2[st2[i]], reach2[st2[i]], w)
    BY DEF Pending
  <2>2. PICK i \in 1..n : Hole(ns[st[i]], reach[st[i]], w)
    BY <1>2, <2>1 DEF Pending
  <2>3. CASE w \in running
    <3>1. Hole(fresh, running, w)
      BY <1>3, <2>3, Sides DEF Hole
    <3>2. QED
      BY <1>13, <3>1
  <2>4. CASE w \notin running /\ i = n
    <3>1. n < b /\ Hole(node, reach[k], w)
      BY <2>2, <2>4 DEF HolesMoved
    <3>2. n \in 1..(b - 1)
      BY <1>1, <3>1
    <3>3. ns2[st2[n]] = node /\ reach2[st2[n]] = reach[k] /\ n \in 1..Len(st2)
      BY <1>1, <1>4, <1>6, <1>11, <3>2
    <3>4. QED
      BY <3>1, <3>3
  <2>5. CASE i # n
    <3>1. i \in 1..(b - 1) /\ ns2[st2[i]] = ns[st[i]] /\ reach2[st2[i]] = reach[st[i]] /\ i \in 1..Len(st2)
      <4>1. i < n /\ i \in 1..(b - 1) /\ i \in 1..b
        BY <1>1, <1>6, <2>5
      <4>2. st2[i] = st[i] /\ st[i] \in 1..Len(ns) /\ st[i] # k
        BY <1>6, <1>10, <2>5, <4>1
      <4>3. QED
        BY <1>4, <1>6, <1>8, <4>1, <4>2
    <3>2. QED
      BY <2>2, <3>1
  <2>6. QED
    BY <2>3, <2>4, <2>5
<1>20. QED
  BY <1>14, <1>15, <1>16, <1>17, <1>18, <1>19 DEF Faithful

----------------------------------------------------------------------------
(* The other calls: the last node is replaced, or taken away when complete. *)

Replaced(ns, k, node, ns2) ==
  /\ node \in IteNodes /\ NodesOK(ns2) /\ Len(ns2) = Len(ns) /\ ns2[k] = node
  /\ \A j \in 1..Len(ns) : j # k => ns2[j] = ns[j]
\* The blocks br2 go with a stack whose last node, which `worlds` reach, becomes this one.
BlocksFit(st, br, br2, node, worlds) ==
  /\ BranchesOK(br2) /\ Len(st) \in {Len(br2) - 1, Len(br2)}
  /\ IsOpen(node) <=> Len(st) < Len(br2)
  /\ Len(st) = Len(br2) => node.state = "if_closed"
  /\ \A i \in 1..Len(st) : br2[i].runs = br[i].runs /\ (i < Len(st) => br2[i] = br[i])
  /\ Len(st) < Len(br2) => br2[Len(st) + 1].runs = OpenWorlds(node, worlds)
  /\ node.state \in {"if_open", "if_closed"} => br2[Len(st)].skipped = ElseWorlds(node, worlds)
HolesKept(ret, ret2, old, node, worlds) ==
  \A w \in Worlds : ret2[w] = 0 => ret[w] = 0 /\ (Hole(old, worlds, w) => Hole(node, worlds, w))
After(ret, running, e) == [w \in Worlds |-> IF w \in running THEN e ELSE ret[w]]
\* return_(e) fills the branch.
Fills(old, e, node) ==
  /\ node.condition = old.condition
  /\ old.state = "if_open" => node.then = ExprOf(e) /\ node.else = old.else
  /\ old.state # "if_open" => node.then = old.then /\ node.else = ExprOf(e)

LEMMA ReplacedFaithful ==
  ASSUME NEW ns, NodesOK(ns), NEW st, StackOK(ns, st), NEW br, BranchesOK(br), Len(st) > 0,
         NEW ret, NEW reach, Faithful(ns, st, br, ret, reach),
         NEW k, k = st[Len(st)],
         NEW node, Filled(node), node.state # "else_closed",
         NEW ns2, Replaced(ns, k, node, ns2), NEW ret2, Routes(ns2, ret2, reach),
         NEW br2, BlocksFit(st, br, br2, node, reach[k]),
         HolesKept(ret, ret2, ns[k], node, reach[k])
  PROVE  Faithful(ns2, st, br2, ret2, reach)
<1> DEFINE n == Len(st)
           b == Len(br)
           c == Len(br2)
<1>1. /\ Len(ns) \in Nat /\ n \in Nat /\ b \in Nat /\ b > 0 /\ c \in Nat /\ n \in 1..n /\ n \in {b - 1, b}
      /\ k \in 1..Len(ns)
  BY DEF NodesOK, StackOK, BranchesOK, Faithful, Shape, BlocksFit
<1>2. /\ (\A j \in 1..Len(ns) : Filled(ns[j])) /\ Shape(ns, st, b)
      /\ OnStack(ns, st) /\ Nested(ns, st, reach) /\ Runs(ns, st, br, reach) /\ Pending(ns, st, ret, reach)
  BY DEF Faithful
<1>3. /\ Len(ns2) = Len(ns) /\ ns2[k] = node
      /\ \A j \in 1..Len(ns) : j # k => ns2[j] = ns[j]
  BY <1>1 DEF Replaced
<1>4. \A i \in 1..n : st[i] \in 1..Len(ns) /\ (i # n => st[i] # k)
  BY <1>1 DEF StackOK
<1>0. /\ n \in {c - 1, c} /\ (IsOpen(node) <=> n < c) /\ (n = c => node.state = "if_closed")
      /\ \A i \in 1..n : br2[i].runs = br[i].runs /\ (i < n => br2[i] = br[i])
      /\ n < c => br2[n + 1].runs = OpenWorlds(node, reach[k])
      /\ node.state \in {"if_open", "if_closed"} => br2[n].skipped = ElseWorlds(node, reach[k])
  BY DEF BlocksFit
<1>5. \A i \in 1..n : i # n => i < n /\ i < b /\ i < c /\ ns2[st[i]] = ns[st[i]]
  BY <1>0, <1>1, <1>3, <1>4
<1>6. \A j \in 1..Len(ns2) : Filled(ns2[j])
  BY <1>2, <1>3
<1>7. Shape(ns2, st, c)
  <2>1. \A i \in 1..n : i < c <=> IsOpen(ns2[st[i]])
    BY <1>0, <1>2, <1>3, <1>5 DEF Shape
  <2>2. n = c => ns2[st[c]].state = "if_closed"
    BY <1>0, <1>3
  <2>3. \A i \in 1..n : i < n => OpenPart(ns2[st[i]]) # Missing
    BY <1>1, <1>2, <1>5 DEF Shape
  <2>4. QED
    BY <1>0, <2>1, <2>2, <2>3 DEF Shape
<1>8. OnStack(ns2, st)
  <2>1. SUFFICES ASSUME NEW j \in 1..Len(ns2), ns2[j].state # "else_closed"
                 PROVE  \E i \in 1..n : st[i] = j
    BY DEF OnStack
  <2>2. CASE j = k
    BY <1>1, <2>2
  <2>3. CASE j # k
    BY <1>2, <1>3, <2>1, <2>3 DEF OnStack
  <2>4. QED
    BY <2>2, <2>3
<1>9. Nested(ns2, st, reach)
  <2>1. SUFFICES ASSUME NEW i \in 1..n, NEW j \in 1..n, i < j
                 PROVE  reach[st[j]] \subseteq OpenWorlds(ns2[st[i]], reach[st[i]])
    BY DEF Nested
  <2>2. ns2[st[i]] = ns[st[i]]
    BY <1>1, <1>5, <2>1
  <2>3. QED
    BY <1>2, <2>1, <2>2 DEF Nested
<1>10. Runs(ns2, st, br2, reach)
  <2>1. br2[1].runs = Worlds
    <3>1. 1 \in 1..n
      BY <1>1
    <3>2. QED
      BY <1>0, <1>2, <3>1 DEF Runs
  <2>2. ASSUME NEW i \in 1..n, i < c
        PROVE  br2[i + 1].runs = OpenWorlds(ns2[st[i]], reach[st[i]])
    <3>1. CASE i = n
      BY <1>0, <1>3, <2>2, <3>1
    <3>2. CASE i # n
      <4>1. i + 1 \in 1..n /\ i < b
        BY <1>1, <1>5, <3>2
      <4>2. br2[i + 1].runs = br[i + 1].runs
        BY <1>0, <4>1
      <4>3. br[i + 1].runs = OpenWorlds(ns[st[i]], reach[st[i]])
        BY <1>2, <4>1 DEF Runs
      <4>4. QED
        BY <1>5, <3>2, <4>2, <4>3
    <3>3. QED
      BY <3>1, <3>2
  <2>3. ASSUME NEW i \in 1..n, ns2[st[i]].state \in {"if_open", "if_closed"}
        PROVE  br2[i].skipped = ElseWorlds(ns2[st[i]], reach[st[i]])
    <3>1. CASE i = n
      BY <1>0, <1>3, <2>3, <3>1
    <3>2. CASE i # n
      <4>1. ns2[st[i]] = ns[st[i]] /\ br2[i] = br[i]
        BY <1>0, <1>5, <3>2
      <4>2. QED
        BY <1>2, <2>3, <4>1 DEF Runs
    <3>3. QED
      BY <3>1, <3>2
  <2>4. QED
    BY <2>1, <2>2, <2>3 DEF Runs
<1>11. Pending(ns2, st, ret2, reach)
  <2>1. SUFFICES ASSUME NEW w \in Worlds, ret2[w] = 0
                 PROVE  \E i \in 1..n : Hole(ns2[st[i]], reach[st[i]], w)
    BY DEF Pending
  <2>2. ret[w] = 0 /\ (Hole(ns[k], reach[k], w) => Hole(node, reach[k], w))
    BY <2>1 DEF HolesKept
  <2>3. PICK i \in 1..n : Hole(ns[st[i]], reach[st[i]], w)
    BY <1>2, <2>2 DEF Pending
  <2>4. CASE i = n
    BY <1>1, <1>3, <2>2, <2>3, <2>4
  <2>5. CASE i # n
    BY <1>5, <2>3, <2>5
  <2>6. QED
    BY <2>4, <2>5
<1>12. QED
  BY <1>6, <1>7, <1>8, <1>9, <1>10, <1>11 DEF Faithful

ShortenedTo(s, t) == Len(t) = Len(s) - 1 /\ \A i \in 1..Len(t) : t[i] = s[i]
LEMMA PoppedFaithful ==
  ASSUME NEW ns, NodesOK(ns), NEW st, StackOK(ns, st), NEW br, BranchesOK(br), Len(st) > 0,
         NEW ret, NEW reach, Faithful(ns, st, br, ret, reach),
         NEW k, k = st[Len(st)], Len(st) < Len(br),
         NEW node, Filled(node), node.state = "else_closed", ns[k].then # Missing, ns[k].else # Missing,
         NEW ns2, Replaced(ns, k, node, ns2), Routes(ns2, ret, reach),
         NEW br2, BranchesOK(br2), ShortenedTo(br, br2), NEW st2, ShortenedTo(st, st2)
  PROVE  Faithful(ns2, st2, br2, ret, reach)
<1> DEFINE n == Len(st)
           b == Len(br)
           m == Len(st2)
           c == Len(br2)
<1>0. /\ c = b - 1 /\ \A i \in 1..c : br2[i] = br[i]
      /\ m = n - 1 /\ \A i \in 1..m : st2[i] = st[i]
  BY DEF ShortenedTo
<1>1. /\ Len(ns) \in Nat /\ n \in Nat /\ b \in Nat /\ c \in Nat /\ m \in Nat /\ n \in 1..n
      /\ n = b - 1 /\ m = n - 1 /\ c = n /\ c = m + 1 /\ k \in 1..Len(ns)
  BY <1>0 DEF NodesOK, StackOK, BranchesOK, Faithful, Shape
<1>2. /\ (\A j \in 1..Len(ns) : Filled(ns[j])) /\ Shape(ns, st, b)
      /\ OnStack(ns, st) /\ Nested(ns, st, reach) /\ Runs(ns, st, br, reach) /\ Pending(ns, st, ret, reach)
  BY DEF Faithful
<1>3. /\ Len(ns2) = Len(ns) /\ ns2[k] = node
      /\ \A j \in 1..Len(ns) : j # k => ns2[j] = ns[j]
  BY <1>1 DEF Replaced
<1>4. \A i \in 1..n : st[i] \in 1..Len(ns) /\ (i # n => st[i] # k)
  <2>1. \A i \in 1..n : st[i] \in 1..Len(ns) /\ (i < n => st[i] < st[n])
    BY <1>1 DEF StackOK
  <2>2. \A i \in 1..n : i # n => i < n
    BY <1>1
  <2>3. QED
    BY <1>1, <2>1, <2>2
<1>5. \A i \in 1..m : i \in 1..n /\ i < n /\ i < b /\ i < c /\ st2[i] = st[i] /\ ns2[st2[i]] = ns[st[i]]
  <2>1. \A i \in 1..m : i \in 1..n /\ i < n /\ i < b /\ i < c /\ i # n
    BY <1>1
  <2>2. QED
    BY <1>0, <1>3, <1>4, <2>1
<1>6. \A j \in 1..Len(ns2) : Filled(ns2[j])
  BY <1>2, <1>3
<1>7. Shape(ns2, st2, c)
  <2>1. \A i \in 1..m : i < c <=> IsOpen(ns2[st2[i]])
    BY <1>2, <1>5 DEF Shape
  <2>2. m # c /\ m \in {c - 1, c}
    BY <1>1
  <2>3. \A i \in 1..m : OpenPart(ns2[st2[i]]) # Missing
    BY <1>2, <1>5 DEF Shape
  <2>4. QED
    BY <2>1, <2>2, <2>3 DEF Shape
<1>8. OnStack(ns2, st2)
  <2>1. SUFFICES ASSUME NEW j \in 1..Len(ns2), ns2[j].state # "else_closed"
                 PROVE  \E i \in 1..m : st2[i] = j
    BY DEF OnStack
  <2>2. j # k /\ j \in 1..Len(ns) /\ ns2[j] = ns[j]
    BY <1>3, <2>1
  <2>3. PICK i \in 1..n : st[i] = j
    BY <1>2, <2>1, <2>2 DEF OnStack
  <2>4. i \in 1..m
    BY <1>1, <2>2, <2>3
  <2>5. QED
    BY <1>5, <2>3, <2>4
<1>9. Nested(ns2, st2, reach)
  BY <1>2, <1>5 DEF Nested
<1>10. Runs(ns2, st2, br2, reach)
  <2>1. br2[1].runs = Worlds
    <3>1. 1 \in 1..c
      BY <1>1
    <3>2. QED
      BY <1>0, <1>2, <3>1 DEF Runs
  <2>2. ASSUME NEW i \in 1..m
        PROVE  /\ br2[i + 1].runs = OpenWorlds(ns2[st2[i]], reach[st2[i]])
               /\ ns2[st2[i]].state \in {"if_open", "if_closed"} =>
                    br2[i].skipped = ElseWorlds(ns2[st2[i]], reach[st2[i]])
    <3>1. i + 1 \in 1..c /\ i \in 1..c /\ i \in 1..n /\ i < b
      BY <1>1
    <3>2. br2[i + 1] = br[i + 1] /\ br2[i] = br[i]
      BY <1>0, <3>1
    <3>3. QED
      BY <1>2, <1>5, <3>1, <3>2 DEF Runs
  <2>3. QED
    BY <2>1, <2>2 DEF Runs
<1>11. Pending(ns2, st2, ret, reach)
  <2>1. SUFFICES ASSUME NEW w \in Worlds, ret[w] = 0
                 PROVE  \E i \in 1..m : Hole(ns2[st2[i]], reach[st2[i]], w)
    BY DEF Pending
  <2>2. PICK i \in 1..n : Hole(ns[st[i]], reach[st[i]], w)
    BY <1>2, <2>1 DEF Pending
  <2>3. i # n
    BY <2>2 DEF Hole
  <2>4. i \in 1..m
    BY <1>1, <2>3
  <2>5. QED
    BY <1>5, <2>2, <2>4
<1>12. QED
  BY <1>6, <1>7, <1>8, <1>9, <1>10, <1>11 DEF Faithful

LEMMA StateRoutes ==
  ASSUME NEW ns, NodesOK(ns), NEW ret, NEW reach, Routes(ns, ret, reach),
         NEW k \in 1..Len(ns), NEW s \in NodeStates,
         NEW node, node = [ns[k] EXCEPT !.state = s],
         NEW ns2, ns2 = [ns EXCEPT ![k] = node]
  PROVE  /\ Replaced(ns, k, node, ns2) /\ node.state = s
         /\ node.then = ns[k].then /\ node.else = ns[k].else /\ node.condition = ns[k].condition
         /\ Routes(ns2, ret, reach)
<1>1. ns[k] \in IteNodes /\ Len(ns) \in Nat
  BY DEF NodesOK
<1>2. /\ node \in IteNodes /\ node.state = s
      /\ node.then = ns[k].then /\ node.else = ns[k].else /\ node.condition = ns[k].condition
  BY <1>1 DEF IteNodes
<1>3. /\ Len(ns2) = Len(ns) /\ ns2[k] = node
      /\ \A j \in 1..Len(ns) : j # k => ns2[j] = ns[j]
  BY <1>2, Replacing
<1>4. \A j \in 1..Len(ns) : ns2[j].then = ns[j].then /\ ns2[j].else = ns[j].else /\ ns2[j].condition = ns[j].condition
  BY <1>2, <1>3
<1>7. Replaced(ns, k, node, ns2)
  BY <1>2, <1>3, Replacing DEF Replaced
<1>5. ASSUME NEW j \in 1..Len(ns) PROVE NodeLeads(ns2[j], j, Len(ns), ret, reach)
  <2>1. NodeLeads(ns[j], j, Len(ns), ret, reach)
    BY DEF Routes
  <2>2. /\ ThenWorlds(ns2[j], reach[j]) = ThenWorlds(ns[j], reach[j])
        /\ ElseWorlds(ns2[j], reach[j]) = ElseWorlds(ns[j], reach[j])
    BY <1>4 DEF ThenWorlds, ElseWorlds
  <2>3. QED
    BY <1>4, <2>1, <2>2 DEF NodeLeads
<1>6. QED
  BY <1>2, <1>3, <1>5, <1>7 DEF Routes

\* return_: the worlds in which the program runs end in the branch that it fills.
LEMMA FilledRoutes ==
  ASSUME NEW ns, NodesOK(ns), NEW st, StackOK(ns, st), NEW br, BranchesOK(br), Len(st) > 0,
         NEW ret \in [Worlds -> Nat], NEW reach, Faithful(ns, st, br, ret, reach),
         NEW running, running = RunningIn(br, ret),
         NEW k, k = st[Len(st)],
         Waiting(ns[k], reach[k], running), ns[k].state # "new",
         NEW e \in Nat \ {0}, NEW node, Fills(ns[k], e, node),
         NEW ns2, Replaced(ns, k, node, ns2), NEW ret2, ret2 = After(ret, running, e)
  PROVE  Routes(ns2, ret2, reach)
<1> DEFINE N == Len(ns)
           n == Len(st)
<1>1. /\ N \in Nat /\ n \in Nat /\ n \in 1..n /\ k \in 1..N
      /\ \A i \in 1..n : i # n => i < n
  BY DEF NodesOK, StackOK
<1>2. /\ Routes(ns, ret, reach) /\ (\A j \in 1..N : Filled(ns[j])) /\ OnStack(ns, st)
  BY DEF Faithful
<1>3. /\ Len(ns2) = N /\ ns2[k] = node
      /\ \A j \in 1..N : j # k => ns2[j] = ns[j]
  BY DEF Replaced
<1>4. \A j \in 1..N : ns[j] \in IteNodes /\ reach[j] \subseteq Worlds
  BY <1>2, ReachTyped
<1>10. /\ node.condition = ns[k].condition
       /\ ns[k].state = "if_open" => node.then = ExprOf(e) /\ node.else = ns[k].else
       /\ ns[k].state # "if_open" => node.then = ns[k].then /\ node.else = ExprOf(e)
  BY DEF Fills
<1>11. /\ running \subseteq br[Len(br)].runs /\ \A w \in running : ret[w] = 0
       /\ ret2 = [w \in Worlds |-> IF w \in running THEN e ELSE ret[w]]
  BY DEF RunningIn, After
<1>5. ASSUME NEW part \in Parts, NEW side \in SUBSET Worlds, NEW j, Leads(part, side, j, N, ret, reach),
             part = Missing => \A w \in side : w \notin running
      PROVE  Leads(part, side, j, N, ret2, reach)
  <2>1. part = Missing => \A w \in side : ret2[w] = 0
    BY <1>5, <1>11 DEF Leads
  <2>2. ASSUME NEW x \in Nat, part = ExprOf(x), NEW w \in side
        PROVE  ret2[w] = x
    <3>1. x # 0
      BY <2>2, PartKinds DEF Parts
    <3>2. ret[w] = x
      BY <1>5, <2>2 DEF Leads
    <3>3. QED
      BY <1>11, <3>1, <3>2
  <2>3. QED
    BY <1>5, <2>1, <2>2 DEF Leads
<1>6. ASSUME NEW j \in 1..N, j # k
      PROVE  NodeLeads(ns2[j], j, N, ret2, reach)
  <2>1. NodeLeads(ns[j], j, N, ret, reach) /\ ns2[j] = ns[j]
    BY <1>2, <1>3, <1>6 DEF Routes
  <2>2. /\ ns[j].then = Missing => \A w \in ThenWorlds(ns[j], reach[j]) : w \notin running
        /\ ns[j].else = Missing => \A w \in ElseWorlds(ns[j], reach[j]) : w \notin running
    <3>1. CASE ns[j].state = "else_closed"
      BY <1>2, <3>1 DEF Filled
    <3>2. CASE ns[j].state # "else_closed"
      <4>1. PICK i \in 1..n : st[i] = j
        BY <1>2, <3>2 DEF OnStack
      <4>2. i < n
        BY <1>1, <1>6, <4>1
      <4>3. \A w \in br[Len(br)].runs : ~Hole(ns[j], reach[j], w)
        BY <4>1, <4>2, HolesApart
      <4>4. QED
        BY <1>11, <4>3 DEF Hole
    <3>3. QED
      BY <3>1, <3>2
  <2>3. /\ ns[j].then \in Parts /\ ns[j].else \in Parts
        /\ ThenWorlds(ns[j], reach[j]) \in SUBSET Worlds /\ ElseWorlds(ns[j], reach[j]) \in SUBSET Worlds
    BY <1>4, Sides DEF IteNodes
  <2>4. QED
    BY <1>5, <2>1, <2>2, <2>3 DEF NodeLeads
<1>7. NodeLeads(ns2[k], k, N, ret2, reach)
  <2>1. NodeLeads(ns[k], k, N, ret, reach) /\ Filled(ns[k])
    BY <1>1, <1>2 DEF Routes
  <2>2. /\ ns[k].then \in Parts /\ ns[k].else \in Parts /\ reach[k] \subseteq Worlds
        /\ ThenWorlds(ns[k], reach[k]) \in SUBSET Worlds /\ ElseWorlds(ns[k], reach[k]) \in SUBSET Worlds
    BY <1>1, <1>4, Sides DEF IteNodes
  <2>3. /\ ThenWorlds(node, reach[k]) = ThenWorlds(ns[k], reach[k])
        /\ ElseWorlds(node, reach[k]) = ElseWorlds(ns[k], reach[k])
    BY <1>10 DEF ThenWorlds, ElseWorlds
  <2>4. ASSUME NEW side \in SUBSET Worlds, side = running
        PROVE  Leads(ExprOf(e), side, k, N, ret2, reach)
    <3>1. \A w \in side : ret2[w] = e
      BY <1>11, <2>4
    <3>2. QED
      BY <3>1, PartKinds DEF Leads
  <2>5. CASE ns[k].state = "if_open"
    <3>1. running = ThenWorlds(ns[k], reach[k]) /\ node.then = ExprOf(e) /\ node.else = ns[k].else
      BY <1>10, <2>5 DEF Waiting
    <3>2. Leads(node.then, ThenWorlds(node, reach[k]), k, N, ret2, reach)
      BY <2>2, <2>3, <2>4, <3>1
    <3>3. \A w \in ElseWorlds(ns[k], reach[k]) : w \notin running
      BY <3>1 DEF ThenWorlds, ElseWorlds
    <3>4. Leads(ns[k].else, ElseWorlds(ns[k], reach[k]), k, N, ret, reach)
      BY <2>1 DEF NodeLeads
    <3>5. Leads(ns[k].else, ElseWorlds(ns[k], reach[k]), k, N, ret2, reach)
      BY <1>5, <2>2, <3>3, <3>4
    <3>6. QED
      BY <1>3, <2>3, <3>1, <3>2, <3>5 DEF NodeLeads
  <2>6. CASE ns[k].state # "if_open"
    <3>1. /\ running = ElseWorlds(ns[k], reach[k]) /\ node.else = ExprOf(e) /\ node.then = ns[k].then
          /\ ns[k].then # Missing
      BY <1>10, <2>1, <2>6 DEF Waiting, Filled
    <3>2. Leads(node.else, ElseWorlds(node, reach[k]), k, N, ret2, reach)
      BY <2>2, <2>3, <2>4, <3>1
    <3>3. Leads(ns[k].then, ThenWorlds(ns[k], reach[k]), k, N, ret, reach)
      BY <2>1 DEF NodeLeads
    <3>4. Leads(ns[k].then, ThenWorlds(ns[k], reach[k]), k, N, ret2, reach)
      BY <1>5, <2>2, <3>1, <3>3
    <3>5. QED
      BY <1>3, <2>3, <3>1, <3>2, <3>4 DEF NodeLeads
  <2>7. QED
    BY <2>5, <2>6
<1>8. \A j \in 1..N : NodeLeads(ns2[j], j, N, ret2, reach)
  BY <1>6, <1>7
<1>9. QED
  BY <1>2, <1>3, <1>8 DEF Routes

LEMMA FilledFaithful ==
  ASSUME NEW ns, NodesOK(ns), NEW st, StackOK(ns, st), NEW br, BranchesOK(br), Len(st) > 0,
         NEW ret \in [Worlds -> Nat], NEW reach, Faithful(ns, st, br, ret, reach),
         NEW running, running = RunningIn(br, ret),
         NEW k, k = st[Len(st)],
         Waiting(ns[k], reach[k], running), IsOpen(ns[k]),
         NEW e \in Nat \ {0}, NEW node, Fills(ns[k], e, node), node.state = ns[k].state,
         NEW ns2, Replaced(ns, k, node, ns2), NEW ret2, ret2 = After(ret, running, e)
  PROVE  Faithful(ns2, st, br, ret2, reach) /\ OpenPart(node) # Missing
<1> DEFINE n == Len(st)
           b == Len(br)
<1>1. /\ n \in Nat /\ n \in 1..n /\ b \in Nat /\ n \in {b - 1, b} /\ k \in 1..Len(ns)
  BY DEF NodesOK, StackOK, BranchesOK, Faithful, Shape
<1>2. /\ Shape(ns, st, b) /\ Runs(ns, st, br, reach) /\ Filled(ns[k])
  BY <1>1 DEF Faithful
<1>13. /\ node.condition = ns[k].condition
       /\ ns[k].state = "if_open" => node.then = ExprOf(e) /\ node.else = ns[k].else
       /\ ns[k].state # "if_open" => node.then = ns[k].then /\ node.else = ExprOf(e)
       /\ ret2 = [w \in Worlds |-> IF w \in running THEN e ELSE ret[w]]
       /\ running = {w \in br[Len(br)].runs : ret[w] = 0}
  BY DEF Fills, RunningIn, After
<1>3. ns[k].state # "new" /\ (ns[k].state = "if_open" \/ ns[k].state = "else_open")
  BY DEF IsOpen
<1>4. Routes(ns2, ret2, reach)
  BY <1>3, FilledRoutes
<1>5. n < b /\ IsOpen(node)
  BY <1>1, <1>2 DEF Shape, IsOpen
<1>6. Filled(node) /\ OpenPart(node) # Missing
  BY <1>2, <1>3, <1>13, PartKinds DEF Filled, OpenPart
<1>7. /\ OpenWorlds(node, reach[k]) = OpenWorlds(ns[k], reach[k])
      /\ ElseWorlds(node, reach[k]) = ElseWorlds(ns[k], reach[k])
  BY <1>13 DEF OpenWorlds, ThenWorlds, ElseWorlds
<1>8. /\ br[n + 1].runs = OpenWorlds(node, reach[k])
      /\ node.state \in {"if_open", "if_closed"} => br[n].skipped = ElseWorlds(node, reach[k])
  BY <1>1, <1>2, <1>5, <1>7 DEF Runs
<1>9. ASSUME NEW w \in Worlds, ret2[w] = 0
      PROVE  ret[w] = 0 /\ (Hole(ns[k], reach[k], w) => Hole(node, reach[k], w))
  <2>1. w \notin running /\ ret[w] = 0
    BY <1>9, <1>13
  <2>2. CASE ns[k].state = "if_open"
    <3>1. running = ThenWorlds(ns[k], reach[k])
      BY <2>2 DEF Waiting
    <3>2. QED
      BY <1>13, <2>1, <2>2, <3>1 DEF Hole, ThenWorlds, ElseWorlds
  <2>3. CASE ns[k].state = "else_open"
    <3>1. running = ElseWorlds(ns[k], reach[k])
      BY <2>3 DEF Waiting
    <3>2. QED
      BY <1>13, <2>1, <2>3, <3>1 DEF Hole, ThenWorlds, ElseWorlds
  <2>4. QED
    BY <1>3, <2>2, <2>3
<1>14. HolesKept(ret, ret2, ns[k], node, reach[k])
  BY <1>9 DEF HolesKept
<1>10. node.state # "else_closed" /\ n \in {b - 1, b} /\ (IsOpen(node) <=> n < b) /\ n # b
  BY <1>1, <1>3, <1>5
<1>15. BlocksFit(st, br, br, node, reach[k])
  BY <1>8, <1>10 DEF BlocksFit
<1>11. Faithful(ns2, st, br, ret2, reach)
  BY <1>4, <1>6, <1>10, <1>14, <1>15, ReplacedFaithful
<1>12. QED
  BY <1>6, <1>11

\* __exit__: the block of a node whose open branch is filled is closed.
StateSet(ns, k, s) == [ns EXCEPT ![k] = [ns[k] EXCEPT !.state = s]]
LEMMA ExitFaithful ==
  ASSUME NEW ns, NodesOK(ns), NEW st, StackOK(ns, st), NEW br, BranchesOK(br), Len(st) > 0,
         NEW ret, NEW reach, Faithful(ns, st, br, ret, reach),
         NEW k, k = st[Len(st)], IsOpen(ns[k]), OpenPart(ns[k]) # Missing,
         NEW br2, BranchesOK(br2), ShortenedTo(br, br2)
  PROVE  /\ ns[k].state = "if_open" => Faithful(StateSet(ns, k, "if_closed"), st, br2, ret, reach)
         /\ ns[k].state = "else_open" =>
              \A st2 : ShortenedTo(st, st2) => Faithful(StateSet(ns, k, "else_closed"), st2, br2, ret, reach)
<1> DEFINE n == Len(st)
           b == Len(br)
           c == Len(br2)
           node(s) == [ns[k] EXCEPT !.state = s]
<1>1. /\ n \in Nat /\ n \in 1..n /\ b \in Nat /\ c \in Nat /\ n \in {b - 1, b} /\ k \in 1..Len(ns)
      /\ c = b - 1 /\ \A i \in 1..c : br2[i] = br[i]
  BY DEF NodesOK, StackOK, BranchesOK, Faithful, Shape, ShortenedTo
<1>2. Shape(ns, st, b) /\ Runs(ns, st, br, reach) /\ Filled(ns[k]) /\ Routes(ns, ret, reach)
  BY <1>1 DEF Faithful
<1>3. n < b /\ n = c
  <2>1. n < b
    BY <1>1, <1>2 DEF Shape
  <2>2. QED
    BY <1>1, <2>1
<1>4. ASSUME NEW s \in NodeStates
      PROVE  /\ Replaced(ns, k, node(s), StateSet(ns, k, s)) /\ Routes(StateSet(ns, k, s), ret, reach)
             /\ node(s).state = s /\ node(s).then = ns[k].then /\ node(s).else = ns[k].else
             /\ node(s).condition = ns[k].condition
  BY <1>1, <1>2, StateRoutes DEF StateSet
<1>5. CASE ns[k].state = "if_open"
  <2> DEFINE closed == node("if_closed")
  <2>1. /\ Replaced(ns, k, closed, StateSet(ns, k, "if_closed"))
        /\ Routes(StateSet(ns, k, "if_closed"), ret, reach)
        /\ closed.state = "if_closed" /\ closed.then = ns[k].then /\ closed.else = ns[k].else
        /\ closed.condition = ns[k].condition
    BY <1>4 DEF NodeStates
  <2> HIDE DEF closed
  <2>2. Filled(closed)
    BY <1>2, <1>5, <2>1 DEF Filled, OpenPart
  <2>3. ElseWorlds(closed, reach[k]) = ElseWorlds(ns[k], reach[k])
        /\ \A w : Hole(ns[k], reach[k], w) => Hole(closed, reach[k], w)
    BY <2>1 DEF ElseWorlds, ThenWorlds, Hole
  <2>4. HolesKept(ret, ret, ns[k], closed, reach[k])
    BY <2>3 DEF HolesKept
  <2>5. br2[n].skipped = ElseWorlds(closed, reach[k])
    BY <1>1, <1>2, <1>3, <1>5, <2>3 DEF Runs
  <2>6. ~IsOpen(closed) /\ closed.state # "else_closed"
    BY <2>1 DEF IsOpen
  <2>7. \A i \in 1..n : br2[i] = br[i]
    BY <1>1, <1>3
  <2>8. BlocksFit(st, br, br2, closed, reach[k])
    BY <1>1, <1>3, <2>1, <2>5, <2>6, <2>7 DEF BlocksFit
  <2>9. QED
    BY <1>5, <2>1, <2>2, <2>4, <2>6, <2>8, ReplacedFaithful
<1>6. CASE ns[k].state = "else_open"
  <2> DEFINE closed == node("else_closed")
  <2>1. /\ Replaced(ns, k, closed, StateSet(ns, k, "else_closed"))
        /\ Routes(StateSet(ns, k, "else_closed"), ret, reach)
        /\ closed.state = "else_closed" /\ closed.then = ns[k].then /\ closed.else = ns[k].else
        /\ closed.condition = ns[k].condition
    BY <1>4 DEF NodeStates
  <2> HIDE DEF closed
  <2>2. Filled(closed) /\ ns[k].then # Missing /\ ns[k].else # Missing
    BY <1>2, <1>6, <2>1 DEF Filled, OpenPart
  <2>3. ASSUME NEW st2, ShortenedTo(st, st2)
        PROVE  Faithful(StateSet(ns, k, "else_closed"), st2, br2, ret, reach)
    <3>1. Len(st) < Len(br)
      BY <1>3
    <3>2. QED
      BY <2>1, <2>2, <2>3, <3>1, PoppedFaithful
  <2>4. QED
    BY <1>6, <2>3
<1>7. QED
  BY <1>5, <1>6

\* if_: the root gets its condition.
Conditioned(node, c) == [node EXCEPT !.condition = c, !.state = "if_open"]
LEMMA ConditionedTyped ==
  ASSUME NEW ns, NodesOK(ns), NEW k \in 1..Len(ns), NEW c \in Nat
  PROVE  /\ Replaced(ns, k, Conditioned(ns[k], c), [ns EXCEPT ![k] = Conditioned(ns[k], c)])
         /\ Conditioned(ns[k], c).state = "if_open" /\ Conditioned(ns[k], c).condition = c
         /\ Conditioned(ns[k], c).then = ns[k].then /\ Conditioned(ns[k], c).else = ns[k].else
<1> DEFINE node == Conditioned(ns[k], c)
<1>1. ns[k] \in IteNodes
  BY DEF NodesOK
<1>2. /\ node \in IteNodes /\ node.state = "if_open" /\ node.condition = c
      /\ node.then = ns[k].then /\ node.else = ns[k].else
  BY <1>1 DEF IteNodes, NodeStates, Conditioned
<1> HIDE DEF node
<1>3. Replaced(ns, k, node, [ns EXCEPT ![k] = node])
  BY <1>2, Replacing DEF Replaced
<1>4. QED
  BY <1>2, <1>3 DEF node
LEMMA FirstIfFaithful ==
  ASSUME NEW ns, NodesOK(ns), NEW st, StackOK(ns, st), NEW br, BranchesOK(br), Len(st) > 0,
         NEW ret, NEW reach, Faithful(ns, st, br, ret, reach),
         NEW running, running = RunningIn(br, ret),
         NEW k, k = st[Len(st)], ns[k].state = "new", Waiting(ns[k], reach[k], running),
         NEW c \in Nat, NEW node, node = Conditioned(ns[k], c),
         NEW ns2, ns2 = [ns EXCEPT ![k] = node],
         NEW br2, BranchedFrom(br, br2, running, c)
  PROVE  NodesOK(ns2) /\ Len(ns2) = Len(ns) /\ Faithful(ns2, st, br2, ret, reach)
<1> DEFINE n == Len(st)
           b == Len(br)
<1>1. /\ Len(ns) \in Nat /\ n \in Nat /\ n \in 1..n /\ b \in Nat /\ n \in {b - 1, b} /\ k \in 1..Len(ns)
      /\ ns[k] \in IteNodes
  BY DEF NodesOK, StackOK, BranchesOK, Faithful, Shape
<1>2. Shape(ns, st, b) /\ Runs(ns, st, br, reach) /\ Filled(ns[k]) /\ Routes(ns, ret, reach)
  BY <1>1 DEF Faithful
<1>3. /\ node.state = "if_open" /\ node.condition = c
      /\ node.then = ns[k].then /\ node.else = ns[k].else
  BY <1>1, ConditionedTyped
<1>4. Replaced(ns, k, node, ns2)
  BY <1>1, ConditionedTyped
<1>5. /\ NodesOK(ns2) /\ Len(ns2) = Len(ns) /\ ns2[k] = node
      /\ \A j \in 1..Len(ns) : j # k => ns2[j] = ns[j]
  BY <1>4 DEF Replaced
<1>6. ns[k].then = Missing /\ ns[k].else = Missing
  BY <1>2 DEF Filled
<1>7. running = reach[k] /\ \A w \in reach[k] : ret[w] = 0
  <2>1. running = reach[k]
    BY DEF Waiting
  <2>2. QED
    BY <2>1 DEF RunningIn
<1>8. n = b /\ b = 1
  <2>1. ~(n < b)
    BY <1>1, <1>2 DEF Shape, IsOpen
  <2>2. n = b
    BY <1>1, <2>1
  <2>3. QED
    BY <1>2, <2>2 DEF Shape
<1>9. Routes(ns2, ret, reach)
  <2>1. NodeLeads(node, k, Len(ns), ret, reach)
    BY <1>3, <1>6, <1>7, Sides, PartKinds DEF NodeLeads, Leads
  <2>2. \A j \in 1..Len(ns) : NodeLeads(ns2[j], j, Len(ns), ret, reach)
    BY <1>2, <1>5, <2>1 DEF Routes
  <2>3. QED
    BY <1>2, <1>5, <2>2 DEF Routes
<1>10. /\ Filled(node) /\ node.state # "else_closed" /\ IsOpen(node)
  BY <1>3, <1>6 DEF Filled, IsOpen
<1>11. HolesKept(ret, ret, ns[k], node, reach[k])
  BY <1>3, <1>6, Sides DEF HolesKept, Hole
<1>12. /\ BranchesOK(br2) /\ Len(br2) = 2 /\ br2[1].runs = br[1].runs
       /\ br2[1].skipped = {w \in running : c \notin w} /\ br2[2].runs = {w \in running : c \in w}
  BY <1>8 DEF BranchedFrom
<1>13. OpenWorlds(node, reach[k]) = br2[2].runs /\ ElseWorlds(node, reach[k]) = br2[1].skipped
  BY <1>3, <1>7, <1>12 DEF OpenWorlds, ThenWorlds, ElseWorlds
<1>14. BlocksFit(st, br, br2, node, reach[k])
  <2>1. n = 1
    BY <1>8
  <2>2. \A i \in 1..1 : i = 1
    OBVIOUS
  <2>3. QED
    <3>1. n \in {Len(br2) - 1, Len(br2)} /\ n < Len(br2) /\ n # Len(br2) /\ n + 1 = 2
      BY <1>12, <2>1
    <3>2. br2[n + 1].runs = OpenWorlds(node, reach[k]) /\ br2[n].skipped = ElseWorlds(node, reach[k])
      BY <1>13, <2>1, <3>1
    <3>3. \A i \in 1..n : br2[i].runs = br[i].runs /\ ~(i < n)
      BY <1>12, <2>1, <2>2
    <3>4. QED
      BY <1>10, <1>12, <3>1, <3>2, <3>3 DEF BlocksFit
<1>15. QED
  BY <1>4, <1>5, <1>9, <1>10, <1>11, <1>14, ReplacedFaithful

\* A block of else_ runs where the condition of the block before it was false.
LEMMA ElseBlockFaithful ==
  ASSUME NEW ns, NodesOK(ns), NEW st, StackOK(ns, st), NEW br, BranchesOK(br), Len(st) > 0,
         NEW ret, NEW reach, Faithful(ns, st, br, ret, reach),
         NEW k, k = st[Len(st)], ns[k].state = "if_closed",
         NEW br2, BranchesOK(br2), Len(br2) = Len(br) + 1,
         \A i \in 1..Len(br) : i # Len(br) => br2[i] = br[i],
         br2[Len(br)].runs = br[Len(br)].runs, br2[Len(br) + 1].runs = br[Len(br)].skipped
  PROVE  Faithful(StateSet(ns, k, "else_open"), st, br2, ret, reach)
<1> DEFINE n == Len(st)
           b == Len(br)
           node == [ns[k] EXCEPT !.state = "else_open"]
<1>1. /\ n \in Nat /\ n \in 1..n /\ b \in Nat /\ n \in {b - 1, b} /\ k \in 1..Len(ns)
  BY DEF NodesOK, StackOK, BranchesOK, Faithful, Shape
<1>2. Shape(ns, st, b) /\ Runs(ns, st, br, reach) /\ Filled(ns[k]) /\ Routes(ns, ret, reach)
  BY <1>1 DEF Faithful
<1>3. n = b
  <2>1. ~(n < b)
    BY <1>1, <1>2 DEF Shape, IsOpen
  <2>2. QED
    BY <1>1, <2>1
<1>4. /\ Replaced(ns, k, node, StateSet(ns, k, "else_open")) /\ Routes(StateSet(ns, k, "else_open"), ret, reach)
      /\ node.state = "else_open" /\ node.then = ns[k].then /\ node.else = ns[k].else
      /\ node.condition = ns[k].condition
  <2>1. "else_open" \in NodeStates
    BY DEF NodeStates
  <2>2. QED
    BY <1>1, <1>2, <2>1, StateRoutes DEF StateSet
<1> HIDE DEF node
<1>5. Filled(node) /\ IsOpen(node) /\ node.state # "else_closed"
  BY <1>2, <1>4 DEF Filled, IsOpen
<1>6. OpenWorlds(node, reach[k]) = ElseWorlds(ns[k], reach[k])
      /\ \A w : Hole(ns[k], reach[k], w) => Hole(node, reach[k], w)
  BY <1>4 DEF OpenWorlds, ElseWorlds, ThenWorlds, Hole
<1>7. HolesKept(ret, ret, ns[k], node, reach[k])
  BY <1>6 DEF HolesKept
<1>8. br[n].skipped = ElseWorlds(ns[k], reach[k])
  BY <1>1, <1>2 DEF Runs
<1>9. \A i \in 1..n : br2[i].runs = br[i].runs /\ (i < n => br2[i] = br[i])
  BY <1>1, <1>3
<1>10. br2[n + 1].runs = OpenWorlds(node, reach[k]) /\ n < Len(br2) /\ n = Len(br2) - 1
  BY <1>1, <1>3, <1>6, <1>8
<1>11. BlocksFit(st, br, br2, node, reach[k])
  BY <1>4, <1>5, <1>9, <1>10 DEF BlocksFit
<1>12. QED
  BY <1>4, <1>5, <1>7, <1>11, ReplacedFaithful

\* if_: what becomes of the last node, and of the stack before the new node is pushed.
GetsChild(old, st, N, node, base) ==
  \/ old.state = "if_open" /\ node = [old EXCEPT !.then = NodeOf(N)] /\ base = st
  \/ old.state = "if_closed" /\ node = [old EXCEPT !.else = NodeOf(N), !.state = "else_closed"] /\ base = Front(st)
  \/ old.state = "else_open" /\ node = [old EXCEPT !.else = NodeOf(N)] /\ base = st

ChildOf(old, st, N, node, base) ==
  /\ node \in IteNodes /\ node.condition = old.condition /\ base \in {st, Front(st)}
  /\ old.state = "if_open" =>
       node.then = NodeOf(N) /\ node.else = old.else /\ node.state = "if_open" /\ base = st
  /\ old.state = "if_closed" =>
       node.then = old.then /\ node.else = NodeOf(N) /\ node.state = "else_closed" /\ base = Front(st)
  /\ old.state = "else_open" =>
       node.then = old.then /\ node.else = NodeOf(N) /\ node.state = "else_open" /\ base = st
  /\ old.state \in {"if_open", "if_closed", "else_open"}
LEMMA ChildNode ==
  ASSUME NEW old \in IteNodes, NEW st, NEW N \in Nat, NEW node, NEW base, GetsChild(old, st, N, node, base)
  PROVE  ChildOf(old, st, N, node, base)
<1>1. NodeOf(N) \in Parts
  BY PartKinds
<1>2. CASE old.state = "if_open"
  <2>1. node = [old EXCEPT !.then = NodeOf(N)] /\ base = st
    BY <1>2 DEF GetsChild
  <2>2. QED
    BY <1>1, <1>2, <2>1 DEF ChildOf, IteNodes
<1>3. CASE old.state = "if_closed"
  <2>1. node = [old EXCEPT !.else = NodeOf(N), !.state = "else_closed"] /\ base = Front(st)
    BY <1>3 DEF GetsChild
  <2>2. QED
    BY <1>1, <1>3, <2>1 DEF ChildOf, IteNodes, NodeStates
<1>4. CASE old.state = "else_open"
  <2>1. node = [old EXCEPT !.else = NodeOf(N)] /\ base = st
    BY <1>4 DEF GetsChild
  <2>2. QED
    BY <1>1, <1>4, <2>1 DEF ChildOf, IteNodes
<1>5. QED
  BY <1>2, <1>3, <1>4 DEF GetsChild

\* What the new nodes and the new stack have to do with those before.
ChildGrown(ns, st, k, node, base, c) ==
  /\ GrownFrom(ns, st, Len(base) + 1, WithChild(ns, k, node, c), Append(base, Len(ns) + 1),
               k, node, NewNode(c, "if_open"))
  /\ Len(base) \in Nat
  /\ ns[k].state = "if_closed" => Len(base) = Len(st) - 1
  /\ ns[k].state # "if_closed" => Len(base) = Len(st)
LEMMA ChildTyped ==
  ASSUME NEW ns, NodesOK(ns), NEW st, StackOK(ns, st), Len(st) > 0,
         NEW k, k = st[Len(st)], NEW c \in Nat, NEW node, NEW base,
         GetsChild(ns[k], st, Len(ns) + 1, node, base)
  PROVE  ChildGrown(ns, st, k, node, base, c)
<1> DEFINE ns2 == WithChild(ns, k, node, c)
           st2 == Append(base, Len(ns) + 1)
           fresh == NewNode(c, "if_open")
<1>1. /\ Len(ns) \in Nat /\ k \in 1..Len(ns) /\ ns[k] \in IteNodes /\ Len(ns) + 1 \in Nat
      /\ st \in Seq(Nat) /\ Len(st) \in Nat /\ st # <<>>
  BY DEF NodesOK, StackOK
<1>2. node \in IteNodes /\ base \in {st, Front(st)}
  BY <1>1, ChildNode DEF ChildOf
<1> HIDE DEF ns2, fresh
<1>5. Grown(ns, k, node, fresh, ns2) /\ Len(ns2) = Len(ns) + 1
  <2>1. Grown(ns, k, node, fresh, ns2)
    BY <1>1, <1>2, Growing DEF ns2, fresh
  <2>2. QED
    BY <2>1 DEF Grown
<1>6. /\ Len(base) \in {Len(st) - 1, Len(st)} /\ Len(base) \in Nat
      /\ StackOK(ns2, st2) /\ Len(st2) = Len(base) + 1 /\ st2[Len(base) + 1] = Len(ns) + 1
      /\ \A i \in 1..Len(base) : i \in 1..Len(st) /\ st2[i] = st[i]
      /\ \A i \in 1..Len(st) : i < Len(st) => i \in 1..Len(base)
  <2>1. StackGrown(ns, st, base, ns2, st2)
    BY <1>1, <1>2, <1>5, Pushed
  <2>2. QED
    BY <2>1 DEF StackGrown
<1>7. Len(base) + 1 - 1 = Len(base)
  BY <1>6
<1> HIDE DEF st2
<1>8. GrownFrom(ns, st, Len(base) + 1, ns2, st2, k, node, fresh)
  BY <1>5, <1>6, <1>7 DEF GrownFrom
<1>9. ns[k].state = "if_closed" => Len(base) = Len(st) - 1
  <2>1. Len(Front(st)) = Len(st) - 1
    BY <1>1, FrontFacts
  <2>2. ns[k].state = "if_closed" => base = Front(st)
    BY <1>1, ChildNode DEF ChildOf
  <2>3. QED
    BY <2>1, <2>2
<1>10. ns[k].state # "if_closed" => Len(base) = Len(st)
  <2>1. ns[k].state # "if_closed" => base = st
    BY DEF GetsChild
  <2>2. QED
    BY <2>1
<1>11. QED
  BY <1>6, <1>8, <1>9, <1>10 DEF ChildGrown, ns2, st2, fresh

LEMMA ChildFaithful ==
  ASSUME NEW ns, NodesOK(ns), NEW st, StackOK(ns, st), NEW br, BranchesOK(br), Len(st) > 0,
         NEW ret, NEW reach, Faithful(ns, st, br, ret, reach),
         NEW running, running = RunningIn(br, ret),
         NEW k, k = st[Len(st)], Waiting(ns[k], reach[k], running),
         NEW c \in Nat, NEW node, NEW base, GetsChild(ns[k], st, Len(ns) + 1, node, base),
         NEW br2, BranchedFrom(br, br2, running, c)
  PROVE  \E reach2 : Faithful(WithChild(ns, k, node, c), Append(base, Len(ns) + 1), br2, ret, reach2)
<1> DEFINE n == Len(st)
           b == Len(br)
           N == Len(ns) + 1
           ns2 == WithChild(ns, k, node, c)
           st2 == Append(base, N)
           reach2 == [j \in 1..(Len(ns) + 1) |-> IF j = Len(ns) + 1 THEN running ELSE reach[j]]
           old == ns[k]
<1>1. /\ Len(ns) \in Nat /\ N \in Nat /\ n \in Nat /\ n \in 1..n /\ b \in Nat /\ n \in {b - 1, b} /\ k \in 1..Len(ns)
      /\ old \in IteNodes
  BY DEF NodesOK, StackOK, BranchesOK, Faithful, Shape
<1>2. Shape(ns, st, b) /\ Filled(old) /\ Routes(ns, ret, reach)
  BY <1>1 DEF Faithful
<1>3. /\ node \in IteNodes /\ node.condition = old.condition
      /\ old.state = "if_open" => node.then = NodeOf(N) /\ node.else = old.else /\ node.state = "if_open"
      /\ old.state = "if_closed" => node.then = old.then /\ node.else = NodeOf(N) /\ node.state = "else_closed"
      /\ old.state = "else_open" => node.then = old.then /\ node.else = NodeOf(N) /\ node.state = "else_open"
      /\ old.state \in {"if_open", "if_closed", "else_open"}
  <2>1. ChildOf(old, st, N, node, base)
    BY <1>1, ChildNode
  <2>2. QED
    BY <2>1 DEF ChildOf
<1>4. (n < b <=> IsOpen(old)) /\ (n = b <=> old.state = "if_closed")
  <2>1. n < b <=> IsOpen(old)
    BY <1>1, <1>2 DEF Shape
  <2>2. n = b <=> ~(n < b)
    BY <1>1
  <2>3. IsOpen(old) <=> old.state # "if_closed"
    BY <1>3 DEF IsOpen
  <2>4. QED
    BY <2>1, <2>2, <2>3
<1>5. GrownFrom(ns, st, b, ns2, st2, k, node, NewNode(c, "if_open"))
  <2>0. ChildGrown(ns, st, k, node, base, c)
    BY ChildTyped
  <2>1. /\ GrownFrom(ns, st, Len(base) + 1, ns2, st2, k, node, NewNode(c, "if_open"))
        /\ old.state = "if_closed" => Len(base) = Len(st) - 1
        /\ old.state # "if_closed" => Len(base) = Len(st)
    BY <2>0 DEF ChildGrown
  <2>2. Len(base) + 1 = b
    BY <1>1, <1>4, <2>1
  <2>3. QED
    BY <2>1, <2>2
<1>6. ReachGrown(ns, reach, running, reach2)
  BY DEF ReachGrown
<1> HIDE DEF reach2
<1>7. reach2[N] = running /\ (\A j \in 1..Len(ns) : reach2[j] = reach[j])
  BY <1>1, <1>6 DEF ReachGrown
<1>8. running \in SUBSET Worlds /\ \A w \in running : ret[w] = 0
  BY BodyRuns DEF RunningIn
<1>9. /\ old.state = "if_open" => running = ThenWorlds(old, reach[k])
      /\ old.state # "if_open" => running = ElseWorlds(old, reach[k])
  BY <1>3 DEF Waiting
<1>10. /\ ThenWorlds(node, reach2[k]) = ThenWorlds(old, reach[k])
       /\ ElseWorlds(node, reach2[k]) = ElseWorlds(old, reach[k])
       /\ ThenWorlds(node, reach[k]) = ThenWorlds(old, reach[k])
       /\ ElseWorlds(node, reach[k]) = ElseWorlds(old, reach[k])
  BY <1>1, <1>3, <1>7 DEF ThenWorlds, ElseWorlds
<1>11. NodeLeads(node, k, N, ret, reach2)
  <2>1. Leads(NodeOf(N), running, k, N, ret, reach2)
    <3>1. N \in (k + 1)..N
      BY <1>1
    <3>2. QED
      BY <1>7, <3>1, PartKinds DEF Leads
  <2>2. ASSUME NEW part, NEW side, Leads(part, side, k, Len(ns), ret, reach)
        PROVE  Leads(part, side, k, N, ret, reach2)
    <3>1. \A j \in (k + 1)..Len(ns) : j \in (k + 1)..N /\ reach2[j] = reach[j]
      BY <1>1, <1>7
    <3>2. QED
      BY <2>2, <3>1 DEF Leads
  <2>3. /\ Leads(old.then, ThenWorlds(old, reach[k]), k, Len(ns), ret, reach)
        /\ Leads(old.else, ElseWorlds(old, reach[k]), k, Len(ns), ret, reach)
    BY <1>1, <1>2 DEF Routes, NodeLeads
  <2>4. /\ Leads(old.then, ThenWorlds(old, reach[k]), k, N, ret, reach2)
        /\ Leads(old.else, ElseWorlds(old, reach[k]), k, N, ret, reach2)
    BY <2>2, <2>3
  <2>5. QED
    BY <1>3, <1>9, <1>10, <2>1, <2>4 DEF NodeLeads
<1>12. Routes(ns2, ret, reach2)
  BY <1>1, <1>2, <1>3, <1>6, <1>8, <1>11, GrownRoutes
<1>13. Filled(node)
  BY <1>2, <1>3, PartKinds DEF Filled
<1>14. n < b => node.state = old.state /\ OpenPart(node) # Missing
  BY <1>3, <1>4, PartKinds DEF OpenPart
<1>15. n = b => node.state = "else_closed"
  BY <1>3, <1>4
<1>16. HolesMoved(old, node, reach[k], running, n < b)
  <2>1. SUFFICES ASSUME NEW w \in Worlds, Hole(old, reach[k], w), w \notin running
                 PROVE  n < b /\ Hole(node, reach[k], w)
    BY DEF HolesMoved
  <2>2. CASE old.state = "if_open"
    <3>1. node.else = old.else /\ running = ThenWorlds(old, reach[k]) /\ n < b
      BY <1>3, <1>4, <1>9, <2>2 DEF IsOpen
    <3>2. QED
      BY <1>10, <2>1, <3>1 DEF Hole
  <2>3. CASE old.state # "if_open"
    <3>1. old.then # Missing /\ running = ElseWorlds(old, reach[k])
      BY <1>2, <1>3, <1>9, <2>3 DEF Filled
    <3>2. QED
      BY <2>1, <3>1 DEF Hole
  <2>4. QED
    BY <2>2, <2>3
<1> HIDE DEF ns2, st2
<1>17. Faithful(ns2, st2, br2, ret, reach2)
  BY <1>3, <1>5, <1>6, <1>12, <1>13, <1>14, <1>15, <1>16, GrownFaithful
<1>18. QED
  BY <1>17 DEF ns2, st2

----------------------------------------------------------------------------
(* end: what the tree gives. *)

\* A set of naturals that has 0 and the successor of each member has all.
LEMMA Induct ==
  ASSUME NEW P, 0 \in P, \A n \in Nat : n \in P => n + 1 \in P
  PROVE  \A n \in Nat : n \in P
<1> DEFINE Outside == {n \in Nat : n \notin P}
<1>1. SUFFICES ASSUME Outside # {} PROVE FALSE
  OBVIOUS
<1>2. PICK x \in Outside : \A y \in Outside : ~(<<y, x>> \in OpToRel(<, Nat))
  <2>1. Outside \subseteq Nat
    OBVIOUS
  <2> HIDE DEF Outside
  <2>2. QED
    BY <1>1, <2>1, NatLessThanWellFounded, WFMin, Zenon
<1>3. \A y \in Outside : ~(y < x)
  <2>1. \A y \in Outside : y \in Nat
    OBVIOUS
  <2>2. QED
    BY <1>2, <2>1, Zenon DEF OpToRel
<1>4. x \in Nat /\ x # 0 /\ x - 1 \in Nat /\ x - 1 < x /\ (x - 1) + 1 = x
  OBVIOUS
<1>5. x - 1 \notin P
  BY <1>4
<1>6. x - 1 \in Outside
  BY <1>4, <1>5
<1>7. QED
  BY <1>3, <1>4, <1>6


\* What build_node makes of a node depends on the nodes below it.
Below(node, k, n) == \A j \in Nat : node.then = NodeOf(j) \/ node.else = NodeOf(j) => j \in (k + 1)..n
LEMMA BuiltFrom ==
  ASSUME NEW node \in IteNodes, NEW f, NEW g,
         \A j \in Nat : node.then = NodeOf(j) \/ node.else = NodeOf(j) => f[j] = g[j]
  PROVE  NodeBuilt(node, f) = NodeBuilt(node, g)
<1>1. ASSUME NEW part \in Parts, \A j \in Nat : part = NodeOf(j) => f[j] = g[j]
      PROVE  BranchOf(f, part) = BranchOf(g, part)
  <2>1. CASE part = Missing
    BY <2>1 DEF BranchOf
  <2>2. CASE \E e \in Nat \ {0} : part = ExprOf(e)
    BY <2>2, PartKinds DEF BranchOf
  <2>3. CASE \E k \in Nat : part = NodeOf(k)
    <3>1. PICK k \in Nat : part = NodeOf(k)
      BY <2>3
    <3>2. part[1] # "expr" /\ part # Missing /\ part[2] = k
      BY <3>1, PartKinds
    <3>3. f[k] = g[k]
      BY <1>1, <3>1
    <3>4. QED
      BY <3>2, <3>3 DEF BranchOf
  <2>4. QED
    BY <2>1, <2>2, <2>3 DEF Parts
<1>2. node.then \in Parts /\ node.else \in Parts
  BY DEF IteNodes
<1>3. BranchOf(f, node.then) = BranchOf(g, node.then) /\ BranchOf(f, node.else) = BranchOf(g, node.else)
  BY <1>1, <1>2
<1>4. QED
  BY <1>3 DEF NodeBuilt

\* build_node is defined: the nodes can be built from the last one to the first.
LEMMA CanBeBuilt ==
  ASSUME NEW ns, NodesOK(ns), \A k \in 1..Len(ns) : Below(ns[k], k, Len(ns))
  PROVE  \E g : g = [k \in 1..Len(ns) |-> NodeBuilt(ns[k], g)]
<1> DEFINE N == Len(ns)
           Ok(m, g) == /\ DOMAIN g = 1..N /\ g = [k \in 1..N |-> g[k]]
                       /\ \A k \in 1..N : k > N - m => g[k] = NodeBuilt(ns[k], g)
           P == {m \in Nat : m <= N => \E g : Ok(m, g)}
<1>1. N \in Nat /\ \A k \in 1..N : ns[k] \in IteNodes
  BY DEF NodesOK
<1>2. 0 \in P
  <2> DEFINE g == [k \in 1..N |-> Rejected]
  <2>1. Ok(0, g)
    BY <1>1
  <2>2. QED
    BY <2>1
<1>3. ASSUME NEW m \in Nat, m \in P
      PROVE  m + 1 \in P
  <2>1. SUFFICES ASSUME m + 1 <= N PROVE \E h : Ok(m + 1, h)
    OBVIOUS
  <2>2. PICK g : Ok(m, g)
    BY <1>1, <1>3, <2>1
  <2> DEFINE i == N - m
             h == [k \in 1..N |-> IF k = i THEN NodeBuilt(ns[i], g) ELSE g[k]]
  <2>3. i \in 1..N
    BY <1>1, <2>1
  <2>4. DOMAIN h = 1..N /\ h = [k \in 1..N |-> h[k]]
    OBVIOUS
  <2>5. ASSUME NEW k \in 1..N, k > N - (m + 1)
        PROVE  h[k] = NodeBuilt(ns[k], h)
    <3>1. NodeBuilt(ns[k], g) = NodeBuilt(ns[k], h)
      <4>1. ASSUME NEW j \in Nat, ns[k].then = NodeOf(j) \/ ns[k].else = NodeOf(j)
            PROVE  g[j] = h[j]
        <5>1. j \in (k + 1)..N
          BY <4>1 DEF Below
        <5>2. j \in 1..N /\ j # i
          BY <1>1, <2>3, <2>5, <5>1
        <5>3. QED
          BY <5>2
      <4> HIDE DEF h
      <4>2. QED
        BY <1>1, <4>1, BuiltFrom
    <3>2. h[k] = NodeBuilt(ns[k], g)
      <4>1. CASE k = i
        BY <4>1
      <4>2. CASE k # i
        <5>1. k > N - m
          BY <1>1, <2>5, <4>2
        <5>2. QED
          BY <2>2, <4>2, <5>1
      <4>3. QED
        BY <4>1, <4>2
    <3>3. QED
      BY <3>1, <3>2
  <2>6. Ok(m + 1, h)
    BY <2>4, <2>5
  <2>7. QED
    BY <2>6
<1>4. N \in P
  <2> HIDE DEF P
  <2>1. \A m \in Nat : m \in P
    BY <1>2, <1>3, Induct
  <2>2. QED
    BY <1>1, <2>1
<1>5. PICK g : Ok(N, g)
  BY <1>1, <1>4
<1>6. \A k \in 1..N : g[k] = NodeBuilt(ns[k], g)
  BY <1>1, <1>5
<1>7. g = [k \in 1..N |-> NodeBuilt(ns[k], g)]
  BY <1>5, <1>6
<1>8. QED
  BY <1>7

LEMMA BuildNodeIs ==
  ASSUME NEW ns, NodesOK(ns), \A k \in 1..Len(ns) : Below(ns[k], k, Len(ns))
  PROVE  \A k \in 1..Len(ns) : BuildNode(ns)[k] = NodeBuilt(ns[k], BuildNode(ns))
<1>1. BuildNode(ns) = CHOOSE g : g = [k \in 1..Len(ns) |-> NodeBuilt(ns[k], g)]
  BY DEF BuildNode
<1>2. BuildNode(ns) = [k \in 1..Len(ns) |-> NodeBuilt(ns[k], BuildNode(ns))]
  BY <1>1, CanBeBuilt
<1>3. QED
  BY <1>2

\* A node that is built gives what the program has returned in the worlds that reach it.
GivesIn(value, worlds, ret) ==
  value # Rejected => \E v : value = Giving(v) /\ \A w \in worlds : v[w] = ret[w]
LEMMA NodeGives ==
  ASSUME NEW node \in IteNodes, NEW k \in Nat, NEW n \in Nat, NEW ret, NEW reach, NEW built,
         reach[k] \subseteq Worlds, NodeLeads(node, k, n, ret, reach),
         \A j \in (k + 1)..n : GivesIn(built[j], reach[j], ret)
  PROVE  GivesIn(NodeBuilt(node, built), reach[k], ret)
<1> DEFINE true == ThenWorlds(node, reach[k])
           false == ElseWorlds(node, reach[k])
<1>1. true \subseteq Worlds /\ false \subseteq Worlds
  BY Sides
<1>2. ASSUME NEW part \in Parts, NEW side, side \subseteq Worlds, Leads(part, side, k, n, ret, reach)
      PROVE  GivesIn(BranchOf(built, part), side, ret)
  <2>1. CASE part = Missing
    <3>1. part[1] # "expr"
      BY <2>1 DEF Missing
    <3>2. BranchOf(built, part) = Rejected
      BY <2>1, <3>1 DEF BranchOf
    <3>3. QED
      BY <3>2 DEF GivesIn
  <2>2. CASE \E e \in Nat \ {0} : part = ExprOf(e)
    <3>1. PICK e \in Nat \ {0} : part = ExprOf(e)
      BY <2>2
    <3>2. BranchOf(built, part) = Giving([w \in Worlds |-> e])
      <4>1. part # Missing /\ part[1] = "expr" /\ part[2] = e
        BY <3>1, PartKinds
      <4>2. QED
        BY <4>1 DEF BranchOf
    <3>3. \A w \in side : ret[w] = e
      BY <1>2, <3>1 DEF Leads
    <3>4. \A w \in side : [u \in Worlds |-> e][w] = ret[w]
      BY <1>2, <3>3
    <3>5. QED
      BY <3>2, <3>4 DEF GivesIn
  <2>3. CASE \E j \in Nat : part = NodeOf(j)
    <3>1. PICK j \in Nat : part = NodeOf(j)
      BY <2>3
    <3>2. part[1] # "expr" /\ part # Missing /\ part[2] = j
      BY <3>1, PartKinds
    <3>3. BranchOf(built, part) = built[j]
      BY <3>2 DEF BranchOf
    <3>4. j \in (k + 1)..n /\ reach[j] = side
      BY <1>2, <3>1 DEF Leads
    <3>5. QED
      BY <3>3, <3>4
  <2>4. QED
    BY <2>1, <2>2, <2>3 DEF Parts
<1>3. node.then \in Parts /\ node.else \in Parts
  BY DEF IteNodes
<1> DEFINE then == BranchOf(built, node.then)
           else == BranchOf(built, node.else)
<1>4. GivesIn(then, true, ret) /\ GivesIn(else, false, ret)
  BY <1>1, <1>2, <1>3 DEF NodeLeads
<1>5. SUFFICES ASSUME NodeBuilt(node, built) # Rejected
               PROVE  \E v : NodeBuilt(node, built) = Giving(v) /\ \A w \in reach[k] : v[w] = ret[w]
  BY DEF GivesIn
<1>6. /\ NodeBuilt(node, built) = IteTree(node.condition, then, else)
      /\ then # Rejected /\ else # Rejected
  BY <1>5 DEF NodeBuilt, IteOf, IteTree
<1>7. PICK t : then = Giving(t) /\ \A w \in true : t[w] = ret[w]
  BY <1>4, <1>6 DEF GivesIn
<1>8. PICK f : else = Giving(f) /\ \A w \in false : f[w] = ret[w]
  BY <1>4, <1>6 DEF GivesIn
<1> HIDE DEF then, else
<1> DEFINE v == [w \in Worlds |-> IF node.condition \in w THEN t[w] ELSE f[w]]
<1>9. NodeBuilt(node, built) = Giving(v)
  <2>1. then[2] = t /\ else[2] = f
    BY <1>7, <1>8, Verdicts
  <2>2. QED
    BY <1>6, <2>1 DEF IteTree
<1>10. ASSUME NEW w \in reach[k] PROVE v[w] = ret[w]
  <2>1. w \in Worlds
    OBVIOUS
  <2>2. CASE node.condition \in w
    <3>1. w \in true
      BY <2>2 DEF ThenWorlds
    <3>2. QED
      BY <1>7, <2>1, <2>2, <3>1
  <2>3. CASE node.condition \notin w
    <3>1. w \in false
      BY <2>3 DEF ElseWorlds
    <3>2. QED
      BY <1>8, <2>1, <2>3, <3>1
  <2>4. QED
    BY <2>2, <2>3
<1>11. QED
  BY <1>9, <1>10

LEMMA TreeGives ==
  ASSUME NEW ns, NodesOK(ns), NEW ret, NEW reach, Routes(ns, ret, reach)
  PROVE  GivesIn(BuildNode(ns)[1], Worlds, ret)
<1> DEFINE N == Len(ns)
           tree == BuildNode(ns)
           P == {m \in Nat : \A k \in 1..N : k > N - m => GivesIn(tree[k], reach[k], ret)}
<1>1. N \in Nat /\ N > 0 /\ \A k \in 1..N : ns[k] \in IteNodes /\ reach[k] \subseteq Worlds
  BY DEF NodesOK, Routes
<1>2. \A k \in 1..N : NodeLeads(ns[k], k, N, ret, reach) /\ Below(ns[k], k, N)
  BY DEF Routes, NodeLeads, Leads, Below
<1>3. \A k \in 1..N : tree[k] = NodeBuilt(ns[k], tree)
  BY <1>2, BuildNodeIs
<1> HIDE DEF tree
<1>4. 0 \in P
  BY <1>1
<1>5. ASSUME NEW m \in Nat, m \in P PROVE m + 1 \in P
  <2>1. SUFFICES ASSUME NEW k \in 1..N, k > N - (m + 1) PROVE GivesIn(tree[k], reach[k], ret)
    OBVIOUS
  <2>2. \A j \in (k + 1)..N : GivesIn(tree[j], reach[j], ret)
    <3>1. \A j \in (k + 1)..N : j \in 1..N /\ j > N - m
      BY <1>1, <2>1
    <3>2. QED
      BY <1>5, <3>1
  <2>3. k \in Nat
    OBVIOUS
  <2>4. QED
    BY <1>1, <1>2, <1>3, <2>2, <2>3, NodeGives
<1>6. N \in P
  <2> HIDE DEF P
  <2>1. \A m \in Nat : m \in P
    BY <1>4, <1>5, Induct
  <2>2. QED
    BY <1>1, <2>1
<1>7. 1 \in 1..N /\ 1 > N - N
  BY <1>1
<1>8. GivesIn(tree[1], reach[1], ret)
  BY <1>6, <1>7
<1>9. QED
  BY <1>8 DEF Routes, tree

\* What end() makes of a stack that is not empty, or of a tree whose routes are right.
LEMMA EndedGives ==
  ASSUME NEW p, p = Raised \/ p.stack # <<>> \/ (NodesOK(p.nodes) /\ \E reach : Routes(p.nodes, returned', reach))
  PROVE  /\ Ended(p) # Unfinished
         /\ Ended(p)[1] = "gives" => \A w \in Worlds : Ended(p)[2][w] = returned'[w]
<1>1. CASE p = Raised \/ p.stack # <<>>
  BY <1>1, Verdicts DEF Ended
<1>2. CASE p # Raised /\ p.stack = <<>>
  <2>1. PICK reach : Routes(p.nodes, returned', reach)
    BY <1>2
  <2>2. Ended(p) = BuildNode(p.nodes)[1]
    BY <1>2 DEF Ended
  <2>3. GivesIn(BuildNode(p.nodes)[1], Worlds, returned')
    <3>1. NodesOK(p.nodes)
      BY <1>2
    <3>2. QED
      BY <2>1, <3>1, TreeGives
  <2>4. CASE BuildNode(p.nodes)[1] = Rejected
    BY <2>2, <2>4, Verdicts
  <2>5. CASE BuildNode(p.nodes)[1] # Rejected
    <3>1. PICK v : BuildNode(p.nodes)[1] = Giving(v) /\ \A w \in Worlds : v[w] = returned'[w]
      BY <2>3, <2>5 DEF GivesIn
    <3>2. QED
      BY <2>2, <3>1, Verdicts
  <2>6. QED
    BY <2>4, <2>5
<1>3. QED
  BY <1>1, <1>2

----------------------------------------------------------------------------
(* More open nodes than blocks. *)

LEMMA LevelsFinite ==
  ASSUME NEW ns, NEW st, StackOK(ns, st)
  PROVE  IsFiniteSet(OpenLevels(ns, st)) /\ Cardinality(OpenLevels(ns, st)) \in Nat
<1>1. Len(st) \in Nat
  BY DEF StackOK
<1>2. IsFiniteSet(1..Len(st))
  BY <1>1, FS_Interval
<1>3. OpenLevels(ns, st) \subseteq 1..Len(st)
  BY DEF OpenLevels
<1>4. QED
  BY <1>2, <1>3, FS_Subset, FS_CardinalityType

\* A level less, the same levels, or one more.
LEMMA FewerLevels ==
  ASSUME NEW ns, NEW st, StackOK(ns, st), NEW b \in Nat, Doomed(ns, st, b),
         NEW ns2, NEW st2, NEW m, OpenLevels(ns2, st2) = OpenLevels(ns, st) \ {m}
  PROVE  Doomed(ns2, st2, b - 1)
<1> DEFINE A == OpenLevels(ns, st)
<1>1. IsFiniteSet(A) /\ Cardinality(A) \in Nat /\ Cardinality(A) >= b
  BY LevelsFinite DEF Doomed
<1> HIDE DEF A
<1>2. Cardinality(A \ {m}) >= b - 1
  <2>1. IsFiniteSet(A \ {m}) /\ Cardinality(A \ {m}) = IF m \in A THEN Cardinality(A) - 1 ELSE Cardinality(A)
    BY <1>1, FS_RemoveElement
  <2>2. QED
    BY <1>1, <2>1
<1>3. QED
  BY <1>2 DEF Doomed, A

LEMMA SameLevels ==
  ASSUME NEW ns, NEW st, StackOK(ns, st), NEW b \in Nat, Doomed(ns, st, b),
         NEW ns2, NEW st2, OpenLevels(ns2, st2) = OpenLevels(ns, st)
  PROVE  Doomed(ns2, st2, b) /\ Doomed(ns2, st2, b - 1)
<1>1. Cardinality(OpenLevels(ns, st)) \in Nat
  BY LevelsFinite
<1>2. QED
  BY <1>1 DEF Doomed

LEMMA MoreLevels ==
  ASSUME NEW ns, NEW st, StackOK(ns, st), NEW b \in Nat, Doomed(ns, st, b),
         NEW ns2, NEW st2, NEW m, m \notin OpenLevels(ns, st),
         OpenLevels(ns2, st2) = OpenLevels(ns, st) \cup {m}
  PROVE  Doomed(ns2, st2, b) /\ Doomed(ns2, st2, b + 1)
<1> DEFINE A == OpenLevels(ns, st)
<1>1. IsFiniteSet(A) /\ Cardinality(A) \in Nat /\ Cardinality(A) >= b
  BY LevelsFinite DEF Doomed
<1> HIDE DEF A
<1>2. Cardinality(A \cup {m}) = Cardinality(A) + 1
  BY <1>1, FS_AddElement DEF A
<1>3. QED
  BY <1>1, <1>2 DEF Doomed, A

LEMMA AllOpen ==
  ASSUME NEW ns, NEW st, Len(st) \in Nat, \A i \in 1..Len(st) : IsOpen(ns[st[i]])
  PROVE  Doomed(ns, st, Len(st))
<1>1. OpenLevels(ns, st) = 1..Len(st)
  BY DEF OpenLevels
<1>2. Cardinality(1..Len(st)) = Len(st)
  BY FS_Interval
<1>3. QED
  BY <1>1, <1>2 DEF Doomed

LEMMA SomeOpen ==
  ASSUME NEW ns, NEW st, NEW b \in Nat, b > 0, Doomed(ns, st, b)
  PROVE  st # <<>> /\ \E i \in 1..Len(st) : IsOpen(ns[st[i]])
<1>1. OpenLevels(ns, st) # {}
  <2>1. SUFFICES ASSUME OpenLevels(ns, st) = {} PROVE FALSE
    OBVIOUS
  <2>2. Cardinality(OpenLevels(ns, st)) = 0
    BY <2>1, FS_EmptySet
  <2>3. QED
    BY <2>2 DEF Doomed
<1>2. PICK i \in 1..Len(st) : IsOpen(ns[st[i]])
  BY <1>1 DEF OpenLevels
<1>3. st # <<>>
  <2>1. SUFFICES ASSUME st = <<>> PROVE FALSE
    OBVIOUS
  <2>2. Len(st) = 0
    BY <2>1
  <2>3. QED
    BY <1>2, <2>2
<1>4. QED
  BY <1>2, <1>3

\* The last node becomes another one.
LEMMA DoomedReplaced ==
  ASSUME NEW ns, Len(ns) \in Nat, NEW st, StackOK(ns, st), Len(st) > 0, NEW k, k = st[Len(st)],
         NEW node, NEW ns2, Replaced(ns, k, node, ns2), NEW b \in Nat, Doomed(ns, st, b)
  PROVE  /\ ~IsOpen(ns[k]) /\ IsOpen(node) => Doomed(ns2, st, b) /\ Doomed(ns2, st, b + 1)
         /\ IsOpen(ns[k]) /\ ~IsOpen(node) => Doomed(ns2, st, b - 1)
         /\ (IsOpen(ns[k]) <=> IsOpen(node)) => Doomed(ns2, st, b)
<1> DEFINE n == Len(st)
<1>1. n \in Nat /\ n \in 1..n /\ k \in 1..Len(ns)
  BY DEF StackOK
<1>2. ns2[k] = node /\ \A j \in 1..Len(ns) : j # k => ns2[j] = ns[j]
  BY DEF Replaced
<1>3. \A i \in 1..n : st[i] \in 1..Len(ns) /\ (i # n => st[i] # k)
  BY <1>1 DEF StackOK
<1>4. \A i \in 1..n : i # n => ns2[st[i]] = ns[st[i]]
  BY <1>2, <1>3
<1>5. CASE ~IsOpen(ns[k]) /\ IsOpen(node)
  <2>1. n \notin OpenLevels(ns, st)
    BY <1>5 DEF OpenLevels
  <2>2. OpenLevels(ns2, st) = OpenLevels(ns, st) \cup {n}
    BY <1>1, <1>2, <1>4, <1>5 DEF OpenLevels
  <2>3. QED
    BY <1>5, <2>1, <2>2, MoreLevels
<1>6. CASE IsOpen(ns[k]) /\ ~IsOpen(node)
  <2>1. OpenLevels(ns2, st) = OpenLevels(ns, st) \ {n}
    BY <1>1, <1>2, <1>4, <1>6 DEF OpenLevels
  <2>2. QED
    BY <1>6, <2>1, FewerLevels
<1>7. CASE IsOpen(ns[k]) <=> IsOpen(node)
  <2>1. OpenLevels(ns2, st) = OpenLevels(ns, st)
    BY <1>1, <1>2, <1>4, <1>7 DEF OpenLevels
  <2>2. QED
    BY <1>7, <2>1, SameLevels
<1>8. QED
  BY <1>5, <1>6, <1>7

\* The last node, which is not open, is taken away.
LEMMA DoomedPopped ==
  ASSUME NEW ns, NEW st, StackOK(ns, st), Len(st) > 0, ~IsOpen(ns[st[Len(st)]]),
         NEW b \in Nat, Doomed(ns, st, b), NEW st2, ShortenedTo(st, st2)
  PROVE  Doomed(ns, st2, b) /\ Doomed(ns, st2, b - 1)
<1> DEFINE n == Len(st)
<1>1. n \in Nat /\ Len(st2) = n - 1 /\ \A i \in 1..Len(st2) : st2[i] = st[i]
  BY DEF StackOK, ShortenedTo
<1>2. \A i : i \in 1..Len(st2) <=> i \in 1..n /\ i # n
  BY <1>1
<1>3. OpenLevels(ns, st2) = OpenLevels(ns, st)
  BY <1>1, <1>2 DEF OpenLevels
<1>4. QED
  BY <1>3, SameLevels

\* A node is pushed.
LEMMA DoomedPushed ==
  ASSUME NEW ns, NodesOK(ns), NEW st, StackOK(ns, st), Len(st) > 0, NEW k, k = st[Len(st)],
         NEW c \in Nat, NEW node, NEW base, GetsChild(ns[k], st, Len(ns) + 1, node, base),
         NEW b \in Nat, Doomed(ns, st, b)
  PROVE  Doomed(WithChild(ns, k, node, c), Append(base, Len(ns) + 1), b + 1)
<1> DEFINE n == Len(st)
           m == Len(base)
           ns2 == WithChild(ns, k, node, c)
           st2 == Append(base, Len(ns) + 1)
           fresh == NewNode(c, "if_open")
<1>1. /\ Len(ns) \in Nat /\ Len(ns) + 1 \in Nat /\ n \in Nat /\ n \in 1..n /\ k \in 1..Len(ns) /\ ns[k] \in IteNodes
  BY DEF NodesOK, StackOK
<1>2. ChildGrown(ns, st, k, node, base, c)
  BY ChildTyped
<1>3. /\ GrownFrom(ns, st, m + 1, ns2, st2, k, node, fresh) /\ m \in Nat
      /\ ns[k].state = "if_closed" => m = n - 1
      /\ ns[k].state # "if_closed" => m = n
  BY <1>2 DEF ChildGrown
<1>4. ChildOf(ns[k], st, Len(ns) + 1, node, base)
  BY <1>1, ChildNode
<1>5. /\ ns[k].state # "if_closed" => IsOpen(ns[k]) /\ IsOpen(node)
      /\ ns[k].state = "if_closed" => ~IsOpen(ns[k])
  BY <1>4 DEF ChildOf, IsOpen
<1>6. IsOpen(fresh)
  BY NewNodeTyped DEF IsOpen, NodeStates
<1> HIDE DEF ns2, st2, fresh
<1>7. /\ Len(st2) = m + 1 /\ st2[m + 1] = Len(ns) + 1 /\ ns2[Len(ns) + 1] = fresh /\ ns2[k] = node
      /\ \A j \in 1..Len(ns) : j # k => ns2[j] = ns[j]
  BY <1>3 DEF GrownFrom, Grown
<1>8. \A i \in 1..m : i \in 1..n /\ st2[i] = st[i]
  <2>1. (m + 1) - 1 = m
    BY <1>3
  <2>2. QED
    BY <1>3, <2>1 DEF GrownFrom
<1>9. \A i \in 1..n : st[i] \in 1..Len(ns) /\ (i # n => st[i] # k)
  BY <1>1 DEF StackOK
<1>10. \A i \in 1..m : IsOpen(ns2[st2[i]]) <=> IsOpen(ns[st[i]])
  <2>1. SUFFICES ASSUME NEW i \in 1..m PROVE IsOpen(ns2[st2[i]]) <=> IsOpen(ns[st[i]])
    OBVIOUS
  <2>2. i \in 1..n /\ st2[i] = st[i] /\ st[i] \in 1..Len(ns)
    BY <1>8, <1>9
  <2>3. CASE i # n
    BY <1>7, <1>9, <2>2, <2>3
  <2>4. CASE i = n
    <3>1. ns[k].state # "if_closed"
      BY <1>1, <1>3, <2>4
    <3>2. QED
      BY <1>5, <1>7, <2>2, <2>4, <3>1
  <2>5. QED
    BY <2>3, <2>4
<1>11. m + 1 \notin OpenLevels(ns, st) /\ \A i \in 1..n : IsOpen(ns[st[i]]) => i \in 1..m
  <2>1. CASE ns[k].state = "if_closed"
    <3>1. m + 1 = n /\ ~IsOpen(ns[st[n]]) /\ \A i \in 1..n : i # n => i \in 1..m
      BY <1>1, <1>3, <1>5, <2>1
    <3>2. QED
      BY <3>1 DEF OpenLevels
  <2>2. CASE ns[k].state # "if_closed"
    <3>1. m = n /\ m + 1 \notin 1..n
      BY <1>1, <1>3, <2>2
    <3>2. QED
      BY <3>1 DEF OpenLevels
  <2>3. QED
    BY <2>1, <2>2
<1>12. \A i : i \in 1..Len(st2) <=> i \in 1..m \/ i = m + 1
  BY <1>3, <1>7
<1>13. OpenLevels(ns2, st2) = OpenLevels(ns, st) \cup {m + 1}
  <2>1. IsOpen(ns2[st2[m + 1]])
    BY <1>6, <1>7
  <2>2. \A i \in 1..Len(st2) : IsOpen(ns2[st2[i]]) <=> i = m + 1 \/ i \in OpenLevels(ns, st)
    BY <1>8, <1>10, <1>11, <1>12, <2>1 DEF OpenLevels
  <2>3. OpenLevels(ns, st) \subseteq 1..Len(st2)
    BY <1>11, <1>12 DEF OpenLevels
  <2>4. QED
    BY <1>12, <2>2, <2>3 DEF OpenLevels
<1>14. Doomed(ns2, st2, b + 1)
  BY <1>11, <1>13, MoreLevels
<1>15. QED
  BY <1>14 DEF ns2, st2

----------------------------------------------------------------------------
(* The steps. *)

LEMMA CountNat ==
  ASSUME flowCalls \in Seq(Calls), NEW call
  PROVE  Count(call) \in Nat
<1> DEFINE S == {i \in DOMAIN flowCalls : flowCalls[i] = call}
<1>1. Len(flowCalls) \in Nat /\ DOMAIN flowCalls = 1..Len(flowCalls)
  OBVIOUS
<1>2. IsFiniteSet(1..Len(flowCalls))
  BY <1>1, FS_Interval
<1>3. S \subseteq 1..Len(flowCalls)
  BY <1>1
<1>4. Cardinality(S) \in Nat
  BY <1>2, <1>3, FS_Subset, FS_CardinalityType
<1>5. QED
  BY <1>4 DEF Count

LEMMA StackMoves ==
  ASSUME NEW ns, NEW st, StackOK(ns, st), NEW ns2, Len(ns2) = Len(ns)
  PROVE  StackOK(ns2, st)
BY DEF StackOK

LEMMA StackFront ==
  ASSUME NEW ns, NEW st, StackOK(ns, st), st # <<>>
  PROVE  /\ Len(st) \in Nat /\ Len(st) > 0 /\ Last(st) = st[Len(st)]
         /\ Last(st) \in 1..Len(ns)
         /\ ShortenedTo(st, Front(st)) /\ StackOK(ns, Front(st))
<1> DEFINE base == Front(st)
           n == Len(st)
<1>1. st \in Seq(Nat) /\ (\A i \in 1..n : st[i] \in 1..Len(ns)) /\ (\A i, j \in 1..n : i < j => st[i] < st[j])
  BY DEF StackOK
<1>2. /\ n \in Nat \ {0} /\ Last(st) = st[n]
      /\ base \in Seq(Nat) /\ Len(base) = n - 1 /\ \A i \in 1..(n - 1) : base[i] = st[i]
  BY <1>1, FrontFacts
<1> HIDE DEF base, n
<1>3. n > 0 /\ n \in 1..n /\ \A i \in 1..Len(base) : i \in 1..n /\ base[i] = st[i]
  BY <1>2
<1>4. StackOK(ns, base)
  <2>1. \A i \in 1..Len(base) : base[i] \in 1..Len(ns)
    BY <1>1, <1>3
  <2>2. \A i, j \in 1..Len(base) : i < j => base[i] < base[j]
    BY <1>1, <1>3
  <2>3. QED
    BY <1>2, <2>1, <2>2 DEF StackOK
<1>5. Len(base) = Len(st) - 1 /\ \A i \in 1..Len(base) : base[i] = st[i]
  BY <1>2, <1>3 DEF n
<1>6. ShortenedTo(st, base)
  BY <1>5 DEF ShortenedTo
<1>7. st[n] \in 1..Len(ns)
  BY <1>1, <1>3
<1>8. QED
  BY <1>2, <1>3, <1>4, <1>6, <1>7 DEF base, n

LEMMA BodyFacts ==
  ASSUME NEW br, BranchesOK(br)
  PROVE  /\ Len(br) \in Nat /\ Len(br) > 0 /\ Last(br) = br[Len(br)]
         /\ Last(br) \in Branches /\ Last(br).runs \subseteq Worlds /\ Last(br).skipped \subseteq Worlds
         /\ Len(br) > 1 => BranchesOK(Front(br)) /\ ShortenedTo(br, Front(br))
<1> DEFINE base == Front(br)
           b == Len(br)
<1>1. br \in Seq(Branches) /\ b \in Nat /\ b > 0 /\ br # <<>>
  <2>1. br \in Seq(Branches) /\ b \in Nat /\ b > 0
    BY DEF BranchesOK
  <2>2. QED
    BY <2>1
<1>2. /\ Last(br) = br[b] /\ Last(br) \in Branches
      /\ base \in Seq(Branches) /\ Len(base) = b - 1 /\ \A i \in 1..(b - 1) : base[i] = br[i]
  BY <1>1, FrontFacts
<1>3. Last(br).runs \subseteq Worlds /\ Last(br).skipped \subseteq Worlds
  BY <1>2 DEF Branches
<1> HIDE DEF base
<1>4. b > 1 => BranchesOK(base) /\ ShortenedTo(br, base)
  <2>1. \A i \in 1..Len(base) : base[i] = br[i]
    BY <1>2
  <2>2. b > 1 => Len(base) > 0
    BY <1>1, <1>2
  <2>3. QED
    BY <1>2, <2>1, <2>2 DEF BranchesOK, ShortenedTo
<1>5. QED
  BY <1>1, <1>2, <1>3, <1>4 DEF base

\* What holds until the function ends.
Going(ns, st, br, ret) == Doomed(ns, st, Len(br)) \/ \E reach : Faithful(ns, st, br, ret, reach)
Typed(p) == NodesOK(p.nodes) /\ StackOK(p.nodes, p.stack)
LEMMA GoesInv ==
  ASSUME flowCalls \in Seq(Calls), NEW call \in Calls, NEW p, Goes(call, p),
         p # Raised => /\ Typed(p) /\ BranchesOK(branches') /\ returned' \in [Worlds -> Nat]
                       /\ Going(p.nodes, p.stack, branches', returned')
  PROVE  FlowInv'
<1>1. CASE p = Raised
  <2>1. flowVerdict' = Rejected
    BY <1>1 DEF Goes
  <2>2. flowVerdict'[1] = "rejected" /\ flowVerdict' # Unfinished
    BY <2>1, Verdicts
  <2>3. QED
    BY <2>2 DEF FlowInv, AcceptedFlowsMeanPython
<1>2. CASE p # Raised
  <2>1. /\ flowVerdict' = Unfinished /\ iteNodes' = p.nodes /\ nodeStack' = p.stack
        /\ flowCalls' = Append(flowCalls, call)
    BY <1>2 DEF Goes
  <2>2. flowVerdict'[1] = "building"
    BY <2>1, Verdicts
  <2>3. flowCalls' \in Seq(Calls)
    BY <2>1
  <2>4. FlowTypeOK'
    BY <1>2, <2>1, <2>3 DEF FlowTypeOK, Typed
  <2>5. \/ Doomed(iteNodes, nodeStack, Len(branches))'
        \/ (\E reach : Faithful(iteNodes, nodeStack, branches, returned, reach))'
    BY <1>2, <2>1 DEF Going
  <2>6. QED
    BY <2>2, <2>4, <2>5 DEF FlowInv, AcceptedFlowsMeanPython
<1>3. QED
  BY <1>1, <1>2

\* Where the program still runs, for a state that is still being written.
LEMMA WritingFacts ==
  ASSUME FlowInv, Writing
  PROVE  /\ FlowTypeOK /\ StillRunning = RunningIn(branches, returned) /\ StillRunning # {}
         /\ StillRunning \subseteq Worlds /\ Going(iteNodes, nodeStack, branches, returned)
<1>1. FlowTypeOK /\ StillRunning # {} /\ Going(iteNodes, nodeStack, branches, returned)
  BY DEF FlowInv, Writing, Going
<1>2. BranchesOK(branches)
  BY <1>1 DEF FlowTypeOK
<1>3. Body = branches[Len(branches)] /\ Body.runs \subseteq Worlds
  BY <1>2, BodyFacts DEF Body
<1>4. StillRunning = RunningIn(branches, returned) /\ StillRunning \subseteq Worlds
  BY <1>3 DEF StillRunning, RunningIn
<1>5. QED
  BY <1>1, <1>4

LEMMA IfCases ==
  ASSUME NodesOK(iteNodes), StackOK(iteNodes, nodeStack), NEW c \in Nat, IfCalled(c) # Raised,
         NEW k, k = nodeStack[Len(nodeStack)]
  PROVE  /\ nodeStack # <<>>
         /\ \/ /\ iteNodes[k].state = "new"
               /\ IfCalled(c) = Pair([iteNodes EXCEPT ![k] = Conditioned(iteNodes[k], c)], nodeStack)
            \/ \E node, base :
                 /\ GetsChild(iteNodes[k], nodeStack, Len(iteNodes) + 1, node, base)
                 /\ IfCalled(c) = Pair(WithChild(iteNodes, k, node, c), Append(base, Len(iteNodes) + 1))
<1> DEFINE N == Len(iteNodes) + 1
           new == NodeOf(N)
           last == iteNodes[k]
           child(node, base) == Pair(WithChild(iteNodes, k, node, c), Append(base, N))
<1>1. nodeStack # <<>>
  BY DEF IfCalled
<1>2. Last(nodeStack) = k /\ LastNode = last
  BY <1>1, StackFront DEF LastNode
<1>3. CASE last.state = "new"
  <2>1. IfCalled(c) = Pair(LastBecomes([LastNode EXCEPT !.condition = c, !.state = "if_open"]), nodeStack)
    BY <1>1, <1>2, <1>3 DEF IfCalled
  <2>2. QED
    BY <1>1, <1>2, <1>3, <2>1 DEF LastBecomes, Conditioned
<1>4. CASE last.state = "if_open"
  <2> DEFINE node == [last EXCEPT !.then = new]
  <2>1. IfCalled(c) = child(node, nodeStack)
    BY <1>1, <1>2, <1>4 DEF IfCalled, LastBecomes, WithChild
  <2>2. GetsChild(last, nodeStack, N, node, nodeStack)
    BY <1>4 DEF GetsChild
  <2>3. QED
    BY <1>1, <2>1, <2>2
<1>5. CASE last.state = "if_closed"
  <2> DEFINE node == [last EXCEPT !.else = new, !.state = "else_closed"]
  <2>1. IfCalled(c) = child(node, Front(nodeStack))
    BY <1>1, <1>2, <1>5 DEF IfCalled, LastBecomes, WithChild
  <2>2. GetsChild(last, nodeStack, N, node, Front(nodeStack))
    BY <1>5 DEF GetsChild
  <2>3. QED
    BY <1>1, <2>1, <2>2
<1>6. CASE last.state = "else_open"
  <2> DEFINE node == [last EXCEPT !.else = new]
  <2>1. IfCalled(c) = child(node, nodeStack)
    BY <1>1, <1>2, <1>6 DEF IfCalled, LastBecomes, WithChild
  <2>2. GetsChild(last, nodeStack, N, node, nodeStack)
    BY <1>6 DEF GetsChild
  <2>3. QED
    BY <1>1, <2>1, <2>2
<1>7. CASE last.state \notin {"new", "if_open", "if_closed", "else_open"}
  BY <1>1, <1>2, <1>7 DEF IfCalled
<1>8. QED
  BY <1>3, <1>4, <1>5, <1>6, <1>7

LEMMA PairParts ==
  ASSUME NEW ns, NEW st
  PROVE  Pair(ns, st).nodes = ns /\ Pair(ns, st).stack = st
BY DEF Pair

LEMMA IfStep ==
  ASSUME FlowInv, If
  PROVE  FlowInv'
<1> DEFINE c == Count("if") + 1
           running == StillRunning
           true == {w \in running : c \in w}
           body == [Body EXCEPT !.skipped = running \ true]
           p == IfCalled(c)
           k == nodeStack[Len(nodeStack)]
           b == Len(branches)
<1>1. /\ FlowTypeOK /\ running = RunningIn(branches, returned) /\ running # {} /\ running \subseteq Worlds
      /\ Going(iteNodes, nodeStack, branches, returned)
  BY WritingFacts DEF If
<1>2. /\ NodesOK(iteNodes) /\ StackOK(iteNodes, nodeStack) /\ BranchesOK(branches)
      /\ returned \in [Worlds -> Nat] /\ flowCalls \in Seq(Calls)
  BY <1>1 DEF FlowTypeOK
<1>3. Count("if") \in Nat
  BY <1>2, CountNat
<1>4. /\ Goes("if", p) /\ returned' = returned
      /\ branches' = Append([branches EXCEPT ![b] = body], NewBranch(true))
  BY DEF If, BodyBecomes
<1>5. c \in Nat
  BY <1>3
<1> HIDE DEF c
<1>6. BranchedFrom(branches, branches', running, c)
  <2>1. b \in Nat /\ Body = branches[b] /\ Body \in Branches
    BY <1>2, BodyFacts DEF Body
  <2>2. body \in Branches /\ body.runs = branches[b].runs /\ body.skipped = {w \in running : c \notin w}
    BY <1>1, <2>1 DEF Branches
  <2>3. NewBranch(true) \in Branches /\ NewBranch(true).runs = true
    BY <1>1 DEF Branches, NewBranch
  <2>6. branches' = WithBranch(branches, body, NewBranch(true))
    BY <1>4 DEF WithBranch
  <2> HIDE DEF body
  <2>7. BranchGrown(branches, body, NewBranch(true), branches')
    BY <1>2, <2>2, <2>3, <2>6, BranchAdded
  <2>4. /\ BranchesOK(branches') /\ Len(branches') = b + 1
        /\ branches'[b] = body /\ branches'[b + 1] = NewBranch(true)
        /\ \A i \in 1..b : i # b => branches'[i] = branches[i]
    BY <2>7 DEF BranchGrown
  <2>5. QED
    BY <2>2, <2>3, <2>4 DEF BranchedFrom
<1>7. BranchesOK(branches') /\ Len(branches') = b + 1 /\ b \in Nat
  BY <1>2, <1>6, BodyFacts DEF BranchedFrom
<1>8. SUFFICES ASSUME p # Raised
               PROVE  Typed(p) /\ Going(p.nodes, p.stack, branches', returned)
  BY <1>2, <1>4, <1>7, GoesInv DEF Calls
<1>9. /\ nodeStack # <<>>
      /\ \/ /\ iteNodes[k].state = "new"
            /\ p = Pair([iteNodes EXCEPT ![k] = Conditioned(iteNodes[k], c)], nodeStack)
         \/ \E node, base :
              /\ GetsChild(iteNodes[k], nodeStack, Len(iteNodes) + 1, node, base)
              /\ p = Pair(WithChild(iteNodes, k, node, c), Append(base, Len(iteNodes) + 1))
  BY <1>2, <1>5, <1>8, IfCases
<1>10. Len(nodeStack) > 0 /\ k \in 1..Len(iteNodes) /\ Len(iteNodes) \in Nat
  <2>1. Len(iteNodes) \in Nat
    BY <1>2 DEF NodesOK
  <2>2. Len(nodeStack) > 0 /\ Last(nodeStack) = k /\ Last(nodeStack) \in 1..Len(iteNodes)
    BY <1>2, <1>9, StackFront
  <2>3. QED
    BY <2>1, <2>2
<1> HIDE DEF running, p, k
<1>11. ASSUME NEW reach, Faithful(iteNodes, nodeStack, branches, returned, reach)
       PROVE  Waiting(iteNodes[k], reach[k], running)
  BY <1>1, <1>2, <1>11, RunningIsHole DEF k
<1>12. CASE /\ iteNodes[k].state = "new"
            /\ p = Pair([iteNodes EXCEPT ![k] = Conditioned(iteNodes[k], c)], nodeStack)
  <2> DEFINE node == Conditioned(iteNodes[k], c)
             ns2 == [iteNodes EXCEPT ![k] = node]
  <2>1. Replaced(iteNodes, k, node, ns2) /\ node.state = "if_open"
    BY <1>2, <1>5, <1>10, ConditionedTyped
  <2>2. NodesOK(ns2) /\ StackOK(ns2, nodeStack)
    BY <1>2, <2>1, StackMoves DEF Replaced
  <2>3. p.nodes = ns2 /\ p.stack = nodeStack
    BY <1>12, PairParts
  <2>4. CASE Doomed(iteNodes, nodeStack, b)
    <3>1. ~IsOpen(iteNodes[k]) /\ IsOpen(node)
      BY <1>12, <2>1 DEF IsOpen
    <3>2. Doomed(ns2, nodeStack, b + 1)
      <4> HIDE DEF node, ns2
      <4>1. QED
        BY <1>2, <1>7, <1>10, <2>1, <2>4, <3>1, DoomedReplaced DEF k
    <3>3. QED
      BY <1>7, <2>2, <2>3, <3>2 DEF Typed, Going
  <2>5. CASE \E reach : Faithful(iteNodes, nodeStack, branches, returned, reach)
    <3>1. PICK reach : Faithful(iteNodes, nodeStack, branches, returned, reach)
      BY <2>5
    <3>2. Waiting(iteNodes[k], reach[k], running)
      BY <1>11, <3>1
    <3>3. Faithful(ns2, nodeStack, branches', returned, reach)
      BY <1>1, <1>2, <1>5, <1>6, <1>10, <1>12, <3>1, <3>2, FirstIfFaithful DEF k
    <3>4. QED
      BY <2>2, <2>3, <3>3 DEF Typed, Going
  <2>6. QED
    BY <1>1, <2>4, <2>5 DEF Going
<1>13. CASE \E node, base :
              /\ GetsChild(iteNodes[k], nodeStack, Len(iteNodes) + 1, node, base)
              /\ p = Pair(WithChild(iteNodes, k, node, c), Append(base, Len(iteNodes) + 1))
  <2>1. PICK node, base :
              /\ GetsChild(iteNodes[k], nodeStack, Len(iteNodes) + 1, node, base)
              /\ p = Pair(WithChild(iteNodes, k, node, c), Append(base, Len(iteNodes) + 1))
    BY <1>13
  <2> DEFINE ns2 == WithChild(iteNodes, k, node, c)
             st2 == Append(base, Len(iteNodes) + 1)
  <2>2. p.nodes = ns2 /\ p.stack = st2
    BY <2>1, PairParts
  <2>3. NodesOK(ns2) /\ StackOK(ns2, st2)
    <3>1. ChildGrown(iteNodes, nodeStack, k, node, base, c)
      BY <1>2, <1>5, <1>10, <2>1, ChildTyped DEF k
    <3>2. QED
      BY <3>1 DEF ChildGrown, GrownFrom, Grown
  <2> HIDE DEF ns2, st2
  <2>4. CASE Doomed(iteNodes, nodeStack, b)
    <3>1. Doomed(ns2, st2, b + 1)
      BY <1>2, <1>5, <1>7, <1>10, <2>1, <2>4, DoomedPushed DEF k, ns2, st2
    <3>2. QED
      BY <1>7, <2>2, <2>3, <3>1 DEF Typed, Going
  <2>5. CASE \E reach : Faithful(iteNodes, nodeStack, branches, returned, reach)
    <3>1. PICK reach : Faithful(iteNodes, nodeStack, branches, returned, reach)
      BY <2>5
    <3>2. Waiting(iteNodes[k], reach[k], running)
      BY <1>11, <3>1
    <3>3. \E reach2 : Faithful(ns2, st2, branches', returned, reach2)
      BY <1>1, <1>2, <1>5, <1>6, <1>10, <2>1, <3>1, <3>2, ChildFaithful DEF k, ns2, st2
    <3>4. QED
      BY <2>2, <2>3, <3>3 DEF Typed, Going
  <2>6. QED
    BY <1>1, <2>4, <2>5 DEF Going
<1>14. QED
  BY <1>9, <1>12, <1>13

\* else_: the last node's if has ended.
LEMMA ElseCases ==
  ASSUME NodesOK(iteNodes), StackOK(iteNodes, nodeStack), ElseCalled # Raised,
         NEW k, k = nodeStack[Len(nodeStack)]
  PROVE  /\ nodeStack # <<>> /\ Len(nodeStack) > 0 /\ k \in 1..Len(iteNodes)
         /\ iteNodes[k].state = "if_closed"
         /\ ElseCalled.nodes = StateSet(iteNodes, k, "else_open") /\ ElseCalled.stack = nodeStack
         /\ Typed(ElseCalled)
         /\ Replaced(iteNodes, k, [iteNodes[k] EXCEPT !.state = "else_open"], StateSet(iteNodes, k, "else_open"))
         /\ ~IsOpen(iteNodes[k]) /\ IsOpen([iteNodes[k] EXCEPT !.state = "else_open"])
<1> DEFINE node == [iteNodes[k] EXCEPT !.state = "else_open"]
           ns2 == StateSet(iteNodes, k, "else_open")
<1>1. nodeStack # <<>> /\ LastNode.state = "if_closed"
  BY DEF ElseCalled
<1>2. Len(nodeStack) > 0 /\ Last(nodeStack) = k /\ k \in 1..Len(iteNodes)
  BY <1>1, StackFront
<1>3. ElseCalled = Pair(ns2, nodeStack) /\ iteNodes[k].state = "if_closed"
  BY <1>1, <1>2 DEF ElseCalled, LastNode, LastBecomes, StateSet
<1>4. iteNodes[k] \in IteNodes
  BY <1>2 DEF NodesOK
<1>5. node \in IteNodes /\ node.state = "else_open"
  BY <1>4 DEF IteNodes, NodeStates
<1> HIDE DEF node
<1>6. Replaced(iteNodes, k, node, [iteNodes EXCEPT ![k] = node])
  BY <1>2, <1>5, Replacing DEF Replaced
<1>7. Replaced(iteNodes, k, node, ns2)
  BY <1>6 DEF StateSet, node
<1> HIDE DEF ns2
<1>8. NodesOK(ns2) /\ StackOK(ns2, nodeStack)
  BY <1>7, StackMoves DEF Replaced
<1>9. ElseCalled.nodes = ns2 /\ ElseCalled.stack = nodeStack
  BY <1>3, PairParts
<1>10. ~IsOpen(iteNodes[k]) /\ IsOpen(node)
  BY <1>3, <1>5 DEF IsOpen
<1>11. QED
  BY <1>1, <1>2, <1>3, <1>7, <1>8, <1>9, <1>10 DEF Typed, node, ns2

LEMMA ElseBlockStep ==
  ASSUME FlowInv, ElseBlock
  PROVE  FlowInv'
<1> DEFINE p == ElseCalled
           k == nodeStack[Len(nodeStack)]
           b == Len(branches)
           body == [Body EXCEPT !.skipped = {}]
           ns2 == StateSet(iteNodes, k, "else_open")
           node == [iteNodes[k] EXCEPT !.state = "else_open"]
<1>1. FlowTypeOK /\ Going(iteNodes, nodeStack, branches, returned)
  BY WritingFacts DEF ElseBlock
<1>2. /\ NodesOK(iteNodes) /\ StackOK(iteNodes, nodeStack) /\ BranchesOK(branches)
      /\ returned \in [Worlds -> Nat] /\ flowCalls \in Seq(Calls)
  BY <1>1 DEF FlowTypeOK
<1>3. Goes("else block", p) /\ returned' = returned /\ branches' = WithBranch(branches, body, NewBranch(Body.skipped))
  BY DEF ElseBlock, BodyBecomes, WithBranch
<1>4. b \in Nat /\ Body = branches[b] /\ Body \in Branches /\ Body.skipped \subseteq Worlds
  BY <1>2, BodyFacts DEF Body
<1>5. body \in Branches /\ body.runs = branches[b].runs
  BY <1>4 DEF Branches
<1>6. NewBranch(Body.skipped) \in Branches /\ NewBranch(Body.skipped).runs = branches[b].skipped
  BY <1>4 DEF Branches, NewBranch
<1> HIDE DEF body
<1>7. BranchGrown(branches, body, NewBranch(Body.skipped), branches')
  BY <1>2, <1>3, <1>5, <1>6, BranchAdded
<1>8. /\ BranchesOK(branches') /\ Len(branches') = b + 1
      /\ branches'[b].runs = branches[b].runs /\ branches'[b + 1].runs = branches[b].skipped
      /\ \A i \in 1..b : i # b => branches'[i] = branches[i]
  BY <1>5, <1>6, <1>7 DEF BranchGrown
<1>9. SUFFICES ASSUME p # Raised
               PROVE  Typed(p) /\ Going(p.nodes, p.stack, branches', returned)
  BY <1>2, <1>3, <1>8, GoesInv DEF Calls
<1>10. /\ Len(nodeStack) > 0 /\ iteNodes[k].state = "if_closed" /\ p.nodes = ns2 /\ p.stack = nodeStack
       /\ Typed(p) /\ Replaced(iteNodes, k, node, ns2) /\ ~IsOpen(iteNodes[k]) /\ IsOpen(node)
  BY <1>2, <1>9, ElseCases
<1>11. Len(iteNodes) \in Nat
  BY <1>2 DEF NodesOK
<1> HIDE DEF ns2, node, p
<1>12. CASE Doomed(iteNodes, nodeStack, b)
  <2>1. Doomed(ns2, nodeStack, b + 1)
    BY <1>2, <1>4, <1>10, <1>11, <1>12, DoomedReplaced
  <2>2. QED
    BY <1>8, <1>10, <2>1 DEF Going
<1>13. CASE \E reach : Faithful(iteNodes, nodeStack, branches, returned, reach)
  <2>1. PICK reach : Faithful(iteNodes, nodeStack, branches, returned, reach)
    BY <1>13
  <2>2. Faithful(ns2, nodeStack, branches', returned, reach)
    BY <1>2, <1>8, <1>10, <2>1, ElseBlockFaithful DEF ns2
  <2>3. QED
    BY <1>10, <2>2 DEF Going
<1>14. QED
  BY <1>1, <1>12, <1>13 DEF Going

\* An else_ without a block opens a node that no block closes.
LEMMA ElseStep ==
  ASSUME FlowInv, Else
  PROVE  FlowInv'
<1> DEFINE p == ElseCalled
           k == nodeStack[Len(nodeStack)]
           b == Len(branches)
           n == Len(nodeStack)
           body == NewBranch(Body.skipped)
           ns2 == StateSet(iteNodes, k, "else_open")
           node == [iteNodes[k] EXCEPT !.state = "else_open"]
<1>1. FlowTypeOK /\ Going(iteNodes, nodeStack, branches, returned)
  BY WritingFacts DEF Else
<1>2. /\ NodesOK(iteNodes) /\ StackOK(iteNodes, nodeStack) /\ BranchesOK(branches)
      /\ returned \in [Worlds -> Nat] /\ flowCalls \in Seq(Calls)
  BY <1>1 DEF FlowTypeOK
<1>3. Goes("else", p) /\ returned' = returned /\ branches' = [branches EXCEPT ![b] = body]
  BY DEF Else, BodyBecomes
<1>4. b \in Nat /\ Body.skipped \subseteq Worlds
  BY <1>2, BodyFacts DEF Body
<1>5. body \in Branches
  BY <1>4 DEF Branches, NewBranch
<1> HIDE DEF body
<1>6. BranchesOK(branches') /\ Len(branches') = b
  BY <1>2, <1>3, <1>5 DEF BranchesOK
<1>7. SUFFICES ASSUME p # Raised
               PROVE  Typed(p) /\ Going(p.nodes, p.stack, branches', returned)
  BY <1>2, <1>3, <1>6, GoesInv DEF Calls
<1>8. /\ n > 0 /\ k \in 1..Len(iteNodes) /\ iteNodes[k].state = "if_closed" /\ p.nodes = ns2 /\ p.stack = nodeStack
      /\ Typed(p) /\ Replaced(iteNodes, k, node, ns2) /\ ~IsOpen(iteNodes[k]) /\ IsOpen(node)
  BY <1>2, <1>7, ElseCases
<1>9. Len(iteNodes) \in Nat /\ n \in Nat /\ n \in 1..n
  BY <1>2, <1>8 DEF NodesOK, StackOK
<1> HIDE DEF ns2, node, p
<1>10. Doomed(ns2, nodeStack, b)
  <2>1. CASE Doomed(iteNodes, nodeStack, b)
    BY <1>2, <1>4, <1>8, <1>9, <2>1, DoomedReplaced
  <2>2. CASE \E reach : Faithful(iteNodes, nodeStack, branches, returned, reach)
    <3>1. Shape(iteNodes, nodeStack, b)
      BY <2>2 DEF Faithful
    <3>2. n = b /\ \A i \in 1..n : i < b => IsOpen(iteNodes[nodeStack[i]])
      BY <1>4, <1>8, <1>9, <3>1 DEF Shape
    <3>3. \A i \in 1..n : nodeStack[i] \in 1..Len(iteNodes) /\ (i # n => nodeStack[i] # k)
      BY <1>2, <1>9 DEF StackOK
    <3>4. \A i \in 1..n : IsOpen(ns2[nodeStack[i]])
      <4>1. ns2[k] = node /\ \A j \in 1..Len(iteNodes) : j # k => ns2[j] = iteNodes[j]
        BY <1>8 DEF Replaced
      <4>2. \A i \in 1..n : i = n \/ i < b
        BY <1>9, <3>2
      <4>3. QED
        BY <1>8, <3>2, <3>3, <4>1, <4>2
    <3>5. QED
      BY <1>9, <3>2, <3>4, AllOpen
  <2>3. QED
    BY <1>1, <2>1, <2>2 DEF Going
<1>11. QED
  BY <1>6, <1>8, <1>10 DEF Going

\* __exit__: what becomes of the last node.
LEMMA ExitCases ==
  ASSUME NEW p, Typed(p), Exited(p) # Raised, NEW k, k = p.stack[Len(p.stack)]
  PROVE  /\ p.stack # <<>> /\ Len(p.stack) > 0 /\ k \in 1..Len(p.nodes)
         /\ \/ /\ p.nodes[k].state = "if_open" /\ p.nodes[k].then # Missing
               /\ Exited(p).nodes = StateSet(p.nodes, k, "if_closed") /\ Exited(p).stack = p.stack
            \/ /\ p.nodes[k].state \in {"else_open", "if_closed"} /\ p.nodes[k].else # Missing
               /\ Exited(p).nodes = StateSet(p.nodes, k, "else_closed") /\ Exited(p).stack = Front(p.stack)
            \/ p.nodes[k].state \in {"new", "else_closed"} /\ Exited(p) = p
<1>1. p.stack # <<>>
  BY DEF Exited
<1>2. Last(p.stack) = k /\ Len(p.stack) > 0 /\ k \in 1..Len(p.nodes)
  BY <1>1, StackFront DEF Typed
<1>3. p.nodes[k] \in IteNodes
  BY <1>2 DEF Typed, NodesOK
<1>4. p.nodes[k].state \in NodeStates
  BY <1>3 DEF IteNodes
<1>5. CASE p.nodes[k].state = "if_open"
  <2>1. Exited(p) = IF p.nodes[k].then = Missing THEN Raised ELSE Pair(StateSet(p.nodes, k, "if_closed"), p.stack)
    BY <1>1, <1>2, <1>5 DEF Exited, StateSet
  <2>2. QED
    BY <1>1, <1>2, <1>5, <2>1, PairParts
<1>6. CASE p.nodes[k].state \in {"else_open", "if_closed"}
  <2>1. Exited(p) = IF p.nodes[k].else = Missing THEN Raised
                    ELSE Pair(StateSet(p.nodes, k, "else_closed"), Front(p.stack))
    BY <1>1, <1>2, <1>6 DEF Exited, StateSet
  <2>2. QED
    BY <1>1, <1>2, <1>6, <2>1, PairParts
<1>7. CASE p.nodes[k].state \in {"new", "else_closed"}
  <2>1. Exited(p) = p
    BY <1>1, <1>2, <1>7 DEF Exited
  <2>2. QED
    BY <1>1, <1>2, <1>7, <2>1
<1>8. QED
  BY <1>4, <1>5, <1>6, <1>7 DEF NodeStates

WithState(node, s) == [node EXCEPT !.state = s]
LEMMA StateSetTyped ==
  ASSUME NEW ns, NodesOK(ns), NEW k \in 1..Len(ns), NEW s \in NodeStates
  PROVE  /\ Replaced(ns, k, WithState(ns[k], s), StateSet(ns, k, s))
         /\ WithState(ns[k], s).state = s
         /\ NodesOK(StateSet(ns, k, s)) /\ Len(StateSet(ns, k, s)) = Len(ns)
<1> DEFINE node == [ns[k] EXCEPT !.state = s]
<1>1. ns[k] \in IteNodes
  BY DEF NodesOK
<1>2. node \in IteNodes /\ node.state = s
  BY <1>1 DEF IteNodes
<1> HIDE DEF node
<1>3. Replaced(ns, k, node, [ns EXCEPT ![k] = node])
  BY <1>2, Replacing DEF Replaced
<1>4. Replaced(ns, k, node, StateSet(ns, k, s))
  BY <1>3 DEF StateSet, node
<1>5. QED
  BY <1>2, <1>4 DEF Replaced, node, WithState

LEMMA ExitTyped ==
  ASSUME NEW p, Typed(p), Exited(p) # Raised
  PROVE  Typed(Exited(p))
<1> DEFINE k == p.stack[Len(p.stack)]
           q == Exited(p)
<1>1. /\ p.stack # <<>> /\ k \in 1..Len(p.nodes)
      /\ \/ q.nodes = StateSet(p.nodes, k, "if_closed") /\ q.stack = p.stack
         \/ q.nodes = StateSet(p.nodes, k, "else_closed") /\ q.stack = Front(p.stack)
         \/ q = p
  BY ExitCases
<1>2. NodesOK(p.nodes) /\ StackOK(p.nodes, p.stack) /\ StackOK(p.nodes, Front(p.stack))
  BY <1>1, StackFront DEF Typed
<1>3. \A s \in NodeStates : NodesOK(StateSet(p.nodes, k, s)) /\ Len(StateSet(p.nodes, k, s)) = Len(p.nodes)
  BY <1>1, <1>2, StateSetTyped
<1>4. "if_closed" \in NodeStates /\ "else_closed" \in NodeStates
  BY DEF NodeStates
<1> HIDE DEF k, q
<1>5. CASE q.nodes = StateSet(p.nodes, k, "if_closed") /\ q.stack = p.stack
  BY <1>2, <1>3, <1>4, <1>5, StackMoves DEF Typed, q
<1>6. CASE q.nodes = StateSet(p.nodes, k, "else_closed") /\ q.stack = Front(p.stack)
  BY <1>2, <1>3, <1>4, <1>6, StackMoves DEF Typed, q
<1>7. CASE q = p
  BY <1>7 DEF q
<1>8. QED
  BY <1>1, <1>5, <1>6, <1>7

\* The last node is closed, and perhaps taken away.
LEMMA ClosedDoomed ==
  ASSUME NEW ns, NodesOK(ns), NEW st, StackOK(ns, st), st # <<>>, NEW k, k = st[Len(st)],
         NEW s \in {"if_closed", "else_closed"}, NEW b \in Nat, b > 0, Doomed(ns, st, b),
         NEW ns2, ns2 = StateSet(ns, k, s)
  PROVE  Doomed(ns2, st, b - 1) /\ Doomed(ns2, Front(st), b - 1)
<1> DEFINE node == WithState(ns[k], s)
<1>1. Len(st) > 0 /\ k \in 1..Len(ns) /\ ShortenedTo(st, Front(st))
  BY StackFront
<1>2. Len(ns) \in Nat /\ b - 1 \in Nat
  BY DEF NodesOK
<1>3. s \in NodeStates
  BY DEF NodeStates
<1>4. Replaced(ns, k, node, ns2) /\ node.state = s /\ Len(ns2) = Len(ns)
  BY <1>1, <1>3, StateSetTyped
<1> HIDE DEF node
<1>5. ~IsOpen(node) /\ ns2[k] = node
  BY <1>4 DEF IsOpen, Replaced
<1>6. StackOK(ns2, st) /\ ~IsOpen(ns2[st[Len(st)]])
  BY <1>4, <1>5, StackMoves
<1>7. Doomed(ns2, st, b - 1)
  <2>1. CASE IsOpen(ns[k])
    BY <1>1, <1>2, <1>4, <1>5, <2>1, DoomedReplaced
  <2>2. CASE ~IsOpen(ns[k])
    <3>1. Doomed(ns2, st, b)
      BY <1>1, <1>2, <1>4, <1>5, <2>2, DoomedReplaced
    <3>2. QED
      BY <1>6, <3>1, SameLevels
  <2>3. QED
    BY <2>1, <2>2
<1>8. Doomed(ns2, Front(st), b - 1)
  BY <1>1, <1>2, <1>6, <1>7, DoomedPopped
<1>9. QED
  BY <1>7, <1>8

\* A block that ends takes at most one open node with it.
LEMMA ExitDoomed ==
  ASSUME NEW p, Typed(p), Exited(p) # Raised, NEW b \in Nat, b > 0, Doomed(p.nodes, p.stack, b)
  PROVE  Doomed(Exited(p).nodes, Exited(p).stack, b - 1)
<1> DEFINE k == p.stack[Len(p.stack)]
<1>1. /\ p.stack # <<>>
      /\ \/ Exited(p).nodes = StateSet(p.nodes, k, "if_closed") /\ Exited(p).stack = p.stack
         \/ Exited(p).nodes = StateSet(p.nodes, k, "else_closed") /\ Exited(p).stack = Front(p.stack)
         \/ Exited(p) = p
  BY ExitCases
<1>2. NodesOK(p.nodes) /\ StackOK(p.nodes, p.stack)
  BY DEF Typed
<1>3. \A s \in {"if_closed", "else_closed"} :
        Doomed(StateSet(p.nodes, k, s), p.stack, b - 1) /\ Doomed(StateSet(p.nodes, k, s), Front(p.stack), b - 1)
  <2> HIDE DEF k
  <2>1. TAKE s \in {"if_closed", "else_closed"}
  <2>2. QED
    BY <1>1, <1>2, ClosedDoomed DEF k
<1>4. Doomed(p.nodes, p.stack, b - 1)
  BY <1>2, SameLevels
<1> HIDE DEF k
<1>5. QED
  BY <1>1, <1>3, <1>4

\* A block ends as its node does.
LEMMA ExitGoing ==
  ASSUME NEW p, Typed(p), Exited(p) # Raised,
         NEW br, BranchesOK(br), Len(br) > 1, NEW ret, NEW reach, Faithful(p.nodes, p.stack, br, ret, reach)
  PROVE  Faithful(Exited(p).nodes, Exited(p).stack, Front(br), ret, reach)
<1> DEFINE ns == p.nodes
           st == p.stack
           n == Len(st)
           k == st[n]
           q == Exited(p)
<1>1. /\ st # <<>> /\ n > 0 /\ k \in 1..Len(ns)
      /\ \/ /\ ns[k].state = "if_open" /\ ns[k].then # Missing
            /\ q.nodes = StateSet(ns, k, "if_closed") /\ q.stack = st
         \/ /\ ns[k].state \in {"else_open", "if_closed"} /\ ns[k].else # Missing
            /\ q.nodes = StateSet(ns, k, "else_closed") /\ q.stack = Front(st)
         \/ ns[k].state \in {"new", "else_closed"}
  BY ExitCases
<1>2. /\ NodesOK(ns) /\ StackOK(ns, st) /\ ShortenedTo(st, Front(st)) /\ n \in Nat
      /\ BranchesOK(Front(br)) /\ ShortenedTo(br, Front(br)) /\ Len(br) \in Nat
  BY <1>1, StackFront, BodyFacts DEF Typed
<1>3. Shape(ns, st, Len(br)) /\ Filled(ns[k])
  BY <1>1 DEF Faithful
<1> HIDE DEF q
<1>4. IsOpen(ns[k])
  <2>1. n \in 1..n /\ n \in {Len(br) - 1, Len(br)}
    BY <1>1, <1>2, <1>3 DEF Shape
  <2>2. CASE n < Len(br)
    BY <1>3, <2>1, <2>2 DEF Shape
  <2>3. CASE n = Len(br)
    <3>1. ns[k].state = "if_closed" \/ (ns[k].state = "new" /\ Len(br) = 1)
      BY <1>3, <2>3 DEF Shape
    <3>0. Len(br) # 1
      <4>1. \A b \in Nat : b > 1 => b # 1
        OBVIOUS
      <4>2. QED
        BY <1>2, <4>1
    <3>2. ns[k].state = "if_closed"
      BY <3>0, <3>1
    <3>3. ns[k].else # Missing
      BY <1>1, <3>2
    <3>4. QED
      BY <1>3, <3>2, <3>3 DEF Filled
  <2>4. QED
    BY <1>2, <2>1, <2>2, <2>3
<1>5. CASE ns[k].state = "if_open"
  <2>1. OpenPart(ns[k]) # Missing /\ q.nodes = StateSet(ns, k, "if_closed") /\ q.stack = st
    BY <1>1, <1>5 DEF OpenPart
  <2>2. Faithful(StateSet(ns, k, "if_closed"), st, Front(br), ret, reach)
    BY <1>1, <1>2, <1>4, <1>5, <2>1, ExitFaithful
  <2>3. QED
    BY <2>1, <2>2 DEF q
<1>6. CASE ns[k].state = "else_open"
  <2>1. OpenPart(ns[k]) # Missing /\ q.nodes = StateSet(ns, k, "else_closed") /\ q.stack = Front(st)
    BY <1>1, <1>6 DEF OpenPart
  <2>2. Faithful(StateSet(ns, k, "else_closed"), Front(st), Front(br), ret, reach)
    BY <1>1, <1>2, <1>4, <1>6, <2>1, ExitFaithful
  <2>3. QED
    BY <2>1, <2>2 DEF q
<1>7. QED
  BY <1>4, <1>5, <1>6 DEF IsOpen

LEMMA LeaveStep ==
  ASSUME FlowInv, Leave
  PROVE  FlowInv'
<1> DEFINE p == Pair(iteNodes, nodeStack)
           q == Exited(p)
           b == Len(branches)
<1>1. /\ FlowTypeOK /\ Going(iteNodes, nodeStack, branches, returned) /\ b > 1
      /\ Goes("leave", q) /\ branches' = Front(branches) /\ returned' = returned
  BY DEF Leave, FlowInv, Going
<1>2. /\ NodesOK(iteNodes) /\ StackOK(iteNodes, nodeStack) /\ BranchesOK(branches)
      /\ returned \in [Worlds -> Nat] /\ flowCalls \in Seq(Calls)
  BY <1>1 DEF FlowTypeOK
<1>3. p.nodes = iteNodes /\ p.stack = nodeStack /\ Typed(p)
  BY <1>2, PairParts DEF Typed
<1>4. BranchesOK(branches') /\ Len(branches') = b - 1 /\ b \in Nat
  BY <1>1, <1>2, BodyFacts DEF ShortenedTo
<1> HIDE DEF p, q
<1>5. SUFFICES ASSUME q # Raised
               PROVE  Typed(q) /\ Going(q.nodes, q.stack, branches', returned)
  BY <1>1, <1>2, <1>4, GoesInv DEF Calls
<1>6. Typed(q)
  BY <1>3, <1>5, ExitTyped DEF q
<1>7. CASE Doomed(iteNodes, nodeStack, b)
  <2>1. Doomed(q.nodes, q.stack, b - 1)
    BY <1>1, <1>3, <1>4, <1>5, <1>7, ExitDoomed DEF q
  <2>2. QED
    BY <1>4, <1>6, <2>1 DEF Going
<1>8. CASE \E reach : Faithful(iteNodes, nodeStack, branches, returned, reach)
  <2>1. PICK reach : Faithful(iteNodes, nodeStack, branches, returned, reach)
    BY <1>8
  <2>2. Faithful(q.nodes, q.stack, branches', returned, reach)
    BY <1>1, <1>2, <1>3, <1>5, <2>1, ExitGoing DEF q
  <2>3. QED
    BY <1>6, <2>2 DEF Going
<1>9. QED
  BY <1>1, <1>7, <1>8 DEF Going

\* return_: the expression fills the open branch, or the else of a node between blocks.
Kept(ns, st, k, node) ==
  node.state = ns[k].state /\ (IsOpen(ns[k]) \/ (ns[k].state = "if_closed" /\ Len(st) > 1))
Completed(ns, st, k, node) ==
  ns[k].state = "if_closed" /\ node.state = "else_closed" /\ Len(st) = 1
LEMMA ReturnCases ==
  ASSUME NodesOK(iteNodes), StackOK(iteNodes, nodeStack), NEW e \in Nat \ {0}, ReturnCalled(e) # Raised,
         NEW k, k = nodeStack[Len(nodeStack)]
  PROVE  /\ nodeStack # <<>> /\ Len(nodeStack) > 0 /\ k \in 1..Len(iteNodes)
         /\ Typed(ReturnCalled(e))
         /\ \E node :
              /\ Fills(iteNodes[k], e, node) /\ Replaced(iteNodes, k, node, ReturnCalled(e).nodes)
              /\ \/ Kept(iteNodes, nodeStack, k, node) /\ ReturnCalled(e).stack = nodeStack
                 \/ Completed(iteNodes, nodeStack, k, node) /\ ReturnCalled(e).stack = Front(nodeStack)
<1> DEFINE old == iteNodes[k]
           p == ReturnCalled(e)
           Cases(node) == \/ Kept(iteNodes, nodeStack, k, node) /\ p.stack = nodeStack
                          \/ Completed(iteNodes, nodeStack, k, node) /\ p.stack = Front(nodeStack)
           Case(node) == /\ Fills(old, e, node) /\ node \in IteNodes
                         /\ p.nodes = [iteNodes EXCEPT ![k] = node] /\ Cases(node)
<1>1. nodeStack # <<>>
  BY DEF ReturnCalled
<1>2. /\ Len(nodeStack) \in Nat /\ Len(nodeStack) > 0 /\ Last(nodeStack) = k /\ k \in 1..Len(iteNodes) /\ LastNode = old
      /\ StackOK(iteNodes, Front(nodeStack))
  BY <1>1, StackFront DEF LastNode
<1>3. old \in IteNodes /\ ExprOf(e) \in Parts /\ "else_closed" \in NodeStates
  BY <1>2, PartKinds DEF NodesOK, NodeStates
<1> HIDE DEF old
<1>4. \E node : Case(node)
  <2>1. CASE old.state = "if_open"
    <3> DEFINE node == [old EXCEPT !.then = ExprOf(e)]
    <3>1. p = Pair([iteNodes EXCEPT ![k] = node], nodeStack)
      BY <1>1, <1>2, <2>1 DEF ReturnCalled, LastBecomes
    <3>2. node \in IteNodes /\ Fills(old, e, node) /\ node.state = old.state
      BY <1>3, <2>1 DEF IteNodes, Fills
    <3>3. Kept(iteNodes, nodeStack, k, node)
      BY <2>1, <3>2 DEF Kept, IsOpen, old
    <3>4. p.nodes = [iteNodes EXCEPT ![k] = node] /\ p.stack = nodeStack
      BY <3>1, PairParts
    <3> HIDE DEF node, p
    <3>5. Case(node)
      BY <3>2, <3>3, <3>4
    <3>6. QED
      BY <3>5
  <2>2. CASE old.state = "else_open" \/ (old.state = "if_closed" /\ Len(nodeStack) > 1)
    <3> DEFINE node == [old EXCEPT !.else = ExprOf(e)]
    <3>1. p = Pair([iteNodes EXCEPT ![k] = node], nodeStack)
      BY <1>1, <1>2, <2>2 DEF ReturnCalled, LastBecomes
    <3>2. node \in IteNodes /\ Fills(old, e, node) /\ node.state = old.state
      BY <1>3, <2>2 DEF IteNodes, Fills
    <3>3. Kept(iteNodes, nodeStack, k, node)
      BY <2>2, <3>2 DEF Kept, IsOpen, old
    <3>4. p.nodes = [iteNodes EXCEPT ![k] = node] /\ p.stack = nodeStack
      BY <3>1, PairParts
    <3> HIDE DEF node, p
    <3>5. Case(node)
      BY <3>2, <3>3, <3>4
    <3>6. QED
      BY <3>5
  <2>3. CASE old.state = "if_closed" /\ ~(Len(nodeStack) > 1)
    <3> DEFINE node == [old EXCEPT !.else = ExprOf(e), !.state = "else_closed"]
    <3>0. Len(nodeStack) = 1
      BY <1>2, <2>3
    <3>1. p = Pair([iteNodes EXCEPT ![k] = node], Front(nodeStack))
      BY <1>1, <1>2, <2>3, <3>0 DEF ReturnCalled, LastBecomes
    <3>2. node \in IteNodes /\ Fills(old, e, node) /\ node.state = "else_closed"
      BY <1>3, <2>3 DEF IteNodes, Fills
    <3>3. Completed(iteNodes, nodeStack, k, node)
      BY <2>3, <3>0, <3>2 DEF Completed, old
    <3>4. p.nodes = [iteNodes EXCEPT ![k] = node] /\ p.stack = Front(nodeStack)
      BY <3>1, PairParts
    <3> HIDE DEF node, p
    <3>5. Case(node)
      BY <3>2, <3>3, <3>4
    <3>6. QED
      BY <3>5
  <2>4. CASE old.state \notin {"if_open", "else_open", "if_closed"}
    BY <1>1, <1>2, <2>4 DEF ReturnCalled
  <2>5. QED
    BY <2>1, <2>2, <2>3, <2>4
<1>8. PICK node : Case(node)
  BY <1>4
<1> HIDE DEF p
<1>9. Replaced(iteNodes, k, node, p.nodes)
  BY <1>2, <1>8, Replacing DEF Replaced
<1>10. Typed(p)
  BY <1>2, <1>8, <1>9, StackMoves DEF Typed, Replaced
<1>11. QED
  BY <1>1, <1>2, <1>8, <1>9, <1>10 DEF p, old

\* A block that return_ ends.
LEMMA ReturnGoing ==
  ASSUME NEW ns, NodesOK(ns), NEW st, StackOK(ns, st), NEW br, BranchesOK(br), Len(br) > 1, Len(st) > 0,
         NEW ret \in [Worlds -> Nat], Going(ns, st, br, ret),
         NEW running, running = RunningIn(br, ret), running # {},
         NEW k, k = st[Len(st)], NEW e \in Nat \ {0}, NEW node, Fills(ns[k], e, node),
         NEW p, Typed(p), Exited(p) # Raised, Replaced(ns, k, node, p.nodes),
         \/ Kept(ns, st, k, node) /\ p.stack = st
         \/ Completed(ns, st, k, node) /\ p.stack = Front(st),
         NEW ret2, ret2 = After(ret, running, e)
  PROVE  Going(Exited(p).nodes, Exited(p).stack, Front(br), ret2)
<1> DEFINE n == Len(st)
           b == Len(br)
           q == Exited(p)
<1>1. /\ n \in Nat /\ n \in 1..n /\ b \in Nat /\ b > 0 /\ b - 1 \in Nat /\ k \in 1..Len(ns) /\ Len(ns) \in Nat
      /\ st \in Seq(Nat) /\ st # <<>>
  BY DEF NodesOK, StackOK, BranchesOK
<1>2. Len(Front(br)) = b - 1 /\ Len(Front(st)) = n - 1 /\ \A i \in 1..(n - 1) : Front(st)[i] = st[i]
  <2>1. ShortenedTo(br, Front(br)) /\ ShortenedTo(st, Front(st))
    BY <1>1, StackFront, BodyFacts
  <2>2. QED
    BY <2>1 DEF ShortenedTo
<1>3. Kept(ns, st, k, node) => (IsOpen(ns[k]) <=> IsOpen(node))
  BY DEF Kept, IsOpen
<1>4. Completed(ns, st, k, node) => ~IsOpen(ns[k]) /\ n = 1
  BY DEF Completed, IsOpen
<1>5. CASE Doomed(ns, st, b)
  <2>1. ~Completed(ns, st, k, node)
    <3>1. PICK i \in 1..n : IsOpen(ns[st[i]])
      BY <1>1, <1>5, SomeOpen
    <3>2. n = 1 => i = n
      BY <3>1
    <3>3. QED
      BY <1>4, <3>1, <3>2
  <2>2. p.stack = st
    BY <2>1
  <2>3. Doomed(p.nodes, st, b)
    BY <1>1, <1>3, <1>5, <2>1, DoomedReplaced
  <2>4. Doomed(q.nodes, q.stack, b - 1)
    BY <1>1, <2>2, <2>3, ExitDoomed
  <2>5. QED
    BY <1>2, <2>4 DEF Going
<1>6. CASE \E reach : Faithful(ns, st, br, ret, reach)
  <2>1. PICK reach : Faithful(ns, st, br, ret, reach)
    BY <1>6
  <2>2. Waiting(ns[k], reach[k], running)
    BY <2>1, RunningIsHole
  <2>3. Shape(ns, st, b) /\ n \in {b - 1, b}
    BY <2>1 DEF Faithful, Shape
  <2>4. CASE IsOpen(ns[k])
    <3>1. node.state = ns[k].state /\ p.stack = st
      BY <1>4, <2>4 DEF Kept
    <3>2. Faithful(p.nodes, p.stack, br, ret2, reach)
      BY <2>1, <2>2, <2>4, <3>1, FilledFaithful
    <3>3. Faithful(q.nodes, q.stack, Front(br), ret2, reach)
      BY <3>2, ExitGoing
    <3>4. QED
      BY <3>3 DEF Going
  <2>5. CASE ~IsOpen(ns[k])
    <3>1. n = b
      BY <1>1, <2>3, <2>5 DEF Shape
    <3>2. n > 1 /\ n # 1
      BY <1>1, <3>1
    <3>3. p.stack = st /\ node.state = "if_closed" /\ ns[k].state = "if_closed"
      <4>1. Kept(ns, st, k, node) /\ p.stack = st
        BY <1>4, <3>2
      <4>2. QED
        BY <2>5, <4>1 DEF Kept
    <3>4. p.nodes[k] = node /\ \A j \in 1..Len(ns) : j # k => p.nodes[j] = ns[j]
      BY DEF Replaced
    <3>5. q.nodes = StateSet(p.nodes, k, "else_closed") /\ q.stack = Front(st)
      BY <3>3, <3>4, ExitCases
    <3>6. \A i \in 1..(n - 1) : st[i] \in 1..Len(ns) /\ st[i] # k /\ IsOpen(ns[st[i]])
      <4>1. \A i \in 1..(n - 1) : i \in 1..n /\ i < n /\ i < b
        BY <1>1, <3>1
      <4>2. /\ \A i \in 1..n : st[i] \in 1..Len(ns) /\ st[i] \in Nat
            /\ \A i, j \in 1..n : i < j => st[i] < st[j]
        BY DEF StackOK
      <4>3. \A i \in 1..n : i < b => IsOpen(ns[st[i]])
        BY <2>3 DEF Shape
      <4>4. \A i \in 1..(n - 1) : st[i] < st[n]
        BY <1>1, <4>1, <4>2
      <4>5. \A i \in 1..(n - 1) : st[i] # k
        BY <1>1, <4>1, <4>2, <4>4
      <4>6. QED
        BY <4>1, <4>2, <4>3, <4>5
    <3>7. \A j \in 1..Len(ns) : j # k => q.nodes[j] = p.nodes[j]
      <4>1. k \in 1..Len(p.nodes) /\ Len(p.nodes) = Len(ns) /\ NodesOK(p.nodes)
        BY <1>1 DEF Replaced
      <4>2. Replaced(p.nodes, k, WithState(p.nodes[k], "else_closed"), q.nodes)
        BY <3>5, <4>1, StateSetTyped DEF NodeStates
      <4>3. QED
        BY <4>1, <4>2 DEF Replaced
    <3> DEFINE st2 == Front(st)
    <3>8. Len(st2) = b - 1 /\ \A i \in 1..Len(st2) : IsOpen(q.nodes[st2[i]])
      <4> HIDE DEF q
      <4>1. \A i \in 1..(n - 1) : q.nodes[st[i]] = ns[st[i]]
        BY <3>4, <3>6, <3>7
      <4>2. \A i \in 1..(n - 1) : IsOpen(q.nodes[st2[i]])
        BY <1>2, <3>6, <4>1
      <4>3. QED
        BY <1>2, <3>1, <4>2
    <3>9. Doomed(q.nodes, q.stack, b - 1)
      <4> HIDE DEF q, st2
      <4>1. Doomed(q.nodes, st2, b - 1)
        BY <1>1, <3>8, AllOpen
      <4>2. QED
        BY <3>5, <4>1 DEF st2
    <3>10. QED
      BY <1>2, <3>9 DEF Going
  <2>6. QED
    BY <2>4, <2>5
<1>7. QED
  BY <1>5, <1>6 DEF Going

\* The function ends.
LEMMA EndsInv ==
  ASSUME NEW p, flowVerdict' = Ended(p),
         p = Raised \/ p.stack # <<>> \/ (NodesOK(p.nodes) /\ \E reach : Routes(p.nodes, returned', reach))
  PROVE  FlowInv'
<1>1. /\ flowVerdict' # Unfinished
      /\ flowVerdict'[1] = "gives" => \A w \in Worlds : flowVerdict'[2][w] = returned'[w]
  BY EndedGives
<1>2. QED
  BY <1>1 DEF FlowInv, AcceptedFlowsMeanPython

\* A return_ outside of all blocks.
LEMMA ReturnEnds ==
  ASSUME NEW ns, NodesOK(ns), NEW st, StackOK(ns, st), NEW br, BranchesOK(br), Len(br) = 1, Len(st) > 0,
         NEW ret \in [Worlds -> Nat], Going(ns, st, br, ret),
         NEW running, running = RunningIn(br, ret), running # {},
         NEW k, k = st[Len(st)], NEW e \in Nat \ {0}, NEW node, Fills(ns[k], e, node),
         NEW p, Replaced(ns, k, node, p.nodes),
         \/ Kept(ns, st, k, node) /\ p.stack = st
         \/ Completed(ns, st, k, node) /\ p.stack = Front(st),
         NEW ret2, ret2 = After(ret, running, e)
  PROVE  p.stack # <<>> \/ (NodesOK(p.nodes) /\ \E reach : Routes(p.nodes, ret2, reach))
<1>1. CASE Kept(ns, st, k, node) /\ p.stack = st
  <2>1. st # <<>>
    BY DEF StackOK
  <2>2. QED
    BY <1>1, <2>1
<1>2. CASE Completed(ns, st, k, node)
  <2>1. ns[k].state = "if_closed" /\ Len(st) = 1 /\ ~IsOpen(ns[k])
    BY <1>2 DEF Completed, IsOpen
  <2>2. ~Doomed(ns, st, 1)
    <3>1. SUFFICES ASSUME Doomed(ns, st, 1) PROVE FALSE
      OBVIOUS
    <3>2. \E i \in 1..Len(st) : IsOpen(ns[st[i]])
      BY <3>1, SomeOpen
    <3>3. PICK i \in 1..Len(st) : IsOpen(ns[st[i]])
      BY <3>2
    <3>4. i = Len(st)
      BY <2>1
    <3>5. QED
      BY <2>1, <3>3, <3>4
  <2>3. PICK reach : Faithful(ns, st, br, ret, reach)
    BY <2>2 DEF Going
  <2>4. Waiting(ns[k], reach[k], running)
    BY <2>3, RunningIsHole
  <2>5. Routes(p.nodes, ret2, reach)
    BY <2>1, <2>3, <2>4, FilledRoutes
  <2>6. NodesOK(p.nodes)
    BY DEF Replaced
  <2>7. QED
    BY <2>5, <2>6
<1>3. QED
  BY <1>1, <1>2

LEMMA ReturnStep ==
  ASSUME FlowInv, FlowReturn
  PROVE  FlowInv'
<1> DEFINE e == Count("return") + 1
           p == ReturnCalled(e)
           left == IF p = Raised THEN Raised ELSE Exited(p)
           k == nodeStack[Len(nodeStack)]
           running == StillRunning
<1>1. /\ FlowTypeOK /\ running = RunningIn(branches, returned) /\ running # {}
      /\ Going(iteNodes, nodeStack, branches, returned)
  BY WritingFacts DEF FlowReturn
<1>2. /\ NodesOK(iteNodes) /\ StackOK(iteNodes, nodeStack) /\ BranchesOK(branches)
      /\ returned \in [Worlds -> Nat] /\ flowCalls \in Seq(Calls)
  BY <1>1 DEF FlowTypeOK
<1>3. e \in Nat \ {0}
  <2>1. Count("return") \in Nat
    BY <1>2, CountNat
  <2>2. QED
    BY <2>1
<1>4. /\ returned' = After(returned, running, e)
      /\ Len(branches) > 1 => Goes("return", left) /\ branches' = Front(branches)
      /\ ~(Len(branches) > 1) => flowVerdict' = Ended(p)
  BY DEF FlowReturn, After
<1> HIDE DEF e, p, running, k
<1>5. returned' \in [Worlds -> Nat]
  BY <1>2, <1>3, <1>4 DEF After
<1>6. Len(branches) \in Nat /\ Len(branches) > 0
  BY <1>2, BodyFacts
<1>7. ASSUME p # Raised
      PROVE  /\ Len(nodeStack) > 0 /\ Typed(p)
             /\ \E node :
                  /\ Fills(iteNodes[k], e, node) /\ Replaced(iteNodes, k, node, p.nodes)
                  /\ \/ Kept(iteNodes, nodeStack, k, node) /\ p.stack = nodeStack
                     \/ Completed(iteNodes, nodeStack, k, node) /\ p.stack = Front(nodeStack)
  BY <1>2, <1>3, <1>7, ReturnCases DEF p, k
<1>8. CASE Len(branches) > 1
  <2>1. Goes("return", left) /\ branches' = Front(branches) /\ BranchesOK(branches')
    BY <1>2, <1>4, <1>8, BodyFacts
  <2>2. SUFFICES ASSUME left # Raised
                 PROVE  Typed(left) /\ Going(left.nodes, left.stack, branches', returned')
    BY <1>2, <1>5, <2>1, GoesInv DEF Calls
  <2>3. p # Raised /\ left = Exited(p)
    BY <2>2
  <2>4. PICK node :
          /\ Fills(iteNodes[k], e, node) /\ Replaced(iteNodes, k, node, p.nodes)
          /\ \/ Kept(iteNodes, nodeStack, k, node) /\ p.stack = nodeStack
             \/ Completed(iteNodes, nodeStack, k, node) /\ p.stack = Front(nodeStack)
    BY <1>7, <2>3
  <2>5. Typed(p) /\ Len(nodeStack) > 0 /\ Exited(p) # Raised
    BY <1>7, <2>2, <2>3
  <2>6. Typed(Exited(p))
    BY <2>5, ExitTyped
  <2>7. Going(Exited(p).nodes, Exited(p).stack, Front(branches), returned')
    BY <1>1, <1>2, <1>3, <1>4, <1>8, <2>4, <2>5, ReturnGoing DEF k
  <2>8. QED
    BY <2>1, <2>3, <2>6, <2>7
<1>9. CASE Len(branches) = 1
  <2>1. flowVerdict' = Ended(p)
    BY <1>4, <1>9
  <2>2. CASE p = Raised
    BY <2>1, <2>2, EndsInv
  <2>3. CASE p # Raised
    <3>1. PICK node :
            /\ Fills(iteNodes[k], e, node) /\ Replaced(iteNodes, k, node, p.nodes)
            /\ \/ Kept(iteNodes, nodeStack, k, node) /\ p.stack = nodeStack
               \/ Completed(iteNodes, nodeStack, k, node) /\ p.stack = Front(nodeStack)
      BY <1>7, <2>3
    <3>2. Len(nodeStack) > 0
      BY <1>7, <2>3
    <3>3. p.stack # <<>> \/ (NodesOK(p.nodes) /\ \E reach : Routes(p.nodes, returned', reach))
      BY <1>1, <1>2, <1>3, <1>4, <1>9, <3>1, <3>2, ReturnEnds DEF k
    <3>4. QED
      BY <2>1, <3>3, EndsInv
  <2>4. QED
    BY <2>2, <2>3
<1>10. Len(branches) > 1 \/ Len(branches) = 1
  <2>1. \A b \in Nat : b > 0 => b > 1 \/ b = 1
    OBVIOUS
  <2>2. QED
    BY <1>6, <2>1
<1>11. QED
  BY <1>8, <1>9, <1>10

LEMMA EndStep ==
  ASSUME FlowInv, End
  PROVE  FlowInv'
<1> DEFINE p == Pair(iteNodes, nodeStack)
<1>1. /\ FlowTypeOK /\ Going(iteNodes, nodeStack, branches, returned) /\ Len(branches) = 1
      /\ flowVerdict' = Ended(p) /\ returned' = returned
  BY DEF End, FlowInv, Going
<1>2. p.nodes = iteNodes /\ p.stack = nodeStack
  BY PairParts
<1>3. p.stack # <<>> \/ (NodesOK(p.nodes) /\ \E reach : Routes(p.nodes, returned', reach))
  <2>1. CASE Doomed(iteNodes, nodeStack, 1)
    BY <1>2, <2>1, SomeOpen
  <2>2. CASE \E reach : Faithful(iteNodes, nodeStack, branches, returned, reach)
    BY <1>1, <1>2, <2>2 DEF Faithful, FlowTypeOK
  <2>3. QED
    BY <1>1, <2>1, <2>2 DEF Going
<1> HIDE DEF p
<1>4. QED
  BY <1>1, <1>3, EndsInv

\* The root, before the first call, is reached by all.
LEMMA InitGoing ==
  ASSUME FlowInit
  PROVE  FlowInv
<1> DEFINE root == NewNode(0, "new")
           reach == [k \in 1..1 |-> Worlds]
<1>1. /\ iteNodes = <<root>> /\ nodeStack = <<1>> /\ branches = <<NewBranch(Worlds)>>
      /\ returned = [w \in Worlds |-> 0] /\ flowCalls = <<>> /\ flowVerdict = Unfinished
  BY DEF FlowInit
<1>2. /\ root \in IteNodes /\ root.state = "new" /\ root.then = Missing /\ root.else = Missing
  BY NewNodeTyped DEF NodeStates
<1>3. NewBranch(Worlds) \in Branches /\ NewBranch(Worlds).runs = Worlds
  BY DEF NewBranch, Branches
<1> HIDE DEF root
<1>4. /\ Len(iteNodes) = 1 /\ iteNodes[1] = root /\ Len(nodeStack) = 1 /\ nodeStack[1] = 1
      /\ Len(branches) = 1 /\ branches[1].runs = Worlds
  BY <1>1, <1>3
<1>5. FlowTypeOK
  <2>1. NodesOK(iteNodes)
    BY <1>1, <1>2 DEF NodesOK
  <2>2. StackOK(iteNodes, nodeStack)
    BY <1>1 DEF StackOK
  <2>3. BranchesOK(branches)
    BY <1>1, <1>3 DEF BranchesOK
  <2>4. returned \in [Worlds -> Nat] /\ flowCalls \in Seq(Calls)
    BY <1>1
  <2>5. QED
    BY <2>1, <2>2, <2>3, <2>4 DEF FlowTypeOK
<1>6. reach \in [1..1 -> SUBSET Worlds] /\ reach[1] = Worlds
  OBVIOUS
<1> HIDE DEF reach
<1>7. Routes(iteNodes, returned, reach)
  <2>1. \A side \in SUBSET Worlds : Leads(Missing, side, 1, 1, returned, reach)
    BY <1>1, PartKinds DEF Leads
  <2>2. ThenWorlds(root, Worlds) \in SUBSET Worlds /\ ElseWorlds(root, Worlds) \in SUBSET Worlds
    BY Sides
  <2>3. NodeLeads(root, 1, 1, returned, reach)
    BY <1>2, <1>6, <2>1, <2>2 DEF NodeLeads
  <2>4. QED
    BY <1>4, <1>6, <2>3 DEF Routes
<1>8. Filled(root) /\ ~IsOpen(root)
  BY <1>2 DEF Filled, IsOpen
<1>9. Shape(iteNodes, nodeStack, 1)
  BY <1>2, <1>4, <1>8 DEF Shape
<1>10. OnStack(iteNodes, nodeStack) /\ Nested(iteNodes, nodeStack, reach)
  BY <1>4 DEF OnStack, Nested
<1>11. Runs(iteNodes, nodeStack, branches, reach)
  BY <1>2, <1>4 DEF Runs
<1>12. Pending(iteNodes, nodeStack, returned, reach)
  <2>1. \A w \in Worlds : Hole(root, Worlds, w)
    BY <1>2, Sides DEF Hole
  <2>2. QED
    BY <1>4, <1>6, <2>1 DEF Pending
<1>13. Faithful(iteNodes, nodeStack, branches, returned, reach)
  BY <1>4, <1>7, <1>8, <1>9, <1>10, <1>11, <1>12 DEF Faithful
<1>14. flowVerdict[1] = "building"
  BY <1>1, Verdicts
<1>15. QED
  BY <1>5, <1>13, <1>14 DEF FlowInv, AcceptedFlowsMeanPython

LEMMA FlowStep ==
  ASSUME FlowInv, [FlowNext]_flowVars
  PROVE  FlowInv'
<1>1. CASE FlowNext
  BY <1>1, IfStep, ElseBlockStep, ElseStep, ReturnStep, LeaveStep, EndStep DEF FlowNext
<1>2. CASE UNCHANGED flowVars
  <2>1. /\ iteNodes' = iteNodes /\ nodeStack' = nodeStack /\ branches' = branches
        /\ returned' = returned /\ flowCalls' = flowCalls /\ flowVerdict' = flowVerdict
    BY <1>2 DEF flowVars
  <2>2. FlowTypeOK => FlowTypeOK'
    BY <2>1 DEF FlowTypeOK
  <2>3. AcceptedFlowsMeanPython'
    BY <2>1 DEF FlowInv, AcceptedFlowsMeanPython
  <2>4. QED
    BY <2>1, <2>2, <2>3 DEF FlowInv
<1>3. QED
  BY <1>1, <1>2

\* For any number of calls: while a function is built, its tree routes each value of the
\* conditions to what Python has returned or to the branch that is still missing, or
\* it has more open nodes than blocks (flow.py:150-216).
THEOREM FlowInvariant == FlowSpec => []FlowInv
<1>1. FlowInit => FlowInv
  BY InitGoing
<1>2. FlowInv /\ [FlowNext]_flowVars => FlowInv'
  BY FlowStep
<1>3. QED
  BY <1>1, <1>2, PTL DEF FlowSpec

\* For any number of calls: the tree of an accepted function gives what Python would
\* return (flow.py:150).
THEOREM AcceptedFlowsAlwaysMeanPython == FlowSpec => []AcceptedFlowsMeanPython
<1>1. FlowInv => AcceptedFlowsMeanPython
  BY DEF FlowInv
<1>2. QED
  BY <1>1, FlowInvariant, PTL
=============================================================================

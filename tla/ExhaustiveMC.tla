---------------------------- MODULE ExhaustiveMC ----------------------------
(* The exhaustive checker: check_dfs on the inputs of CheckDfsMC and, behind *)
(* the search of the smallest of them, the enumeration of the schedules of   *)
(* an action: every decision tree of depth up to 3 with two choices per      *)
(* decision, and every one of depth up to 2 with up to three, with and       *)
(* without a bound and a seed.                                               *)
EXTENDS CheckDfsMC, ScheduleEnumerator

Node(kind, size) == [kind |-> kind, size |-> size]
Leaf == Node("leaf", 0)

Paths(choices, depth) == UNION {[1..n -> choices] : n \in 0..depth}

\* Trees with the given decisions, and leaves at depth.
Trees(choices, depth, decisions) ==
  {[p \in Paths(choices, depth) |-> IF Len(p) = depth THEN Leaf ELSE inner[p]] :
     inner \in [Paths(choices, depth - 1) -> decisions \cup {Leaf}]}

DeepActions ==
  [tree : Trees(0..1, 3, {Node("alternative", 1), Node("split", 2)}),
   bound : {2}, seed : {NoSeed, 1}]

WideActions ==
  [tree : Trees(0..2, 2, {Node("split", 2), Node("alternative", 3),
                          Node("oneOf", 2), Node("oneOf", 4)}),
   bound : {1, 3}, seed : {NoSeed, 1, 2}]

AllActions == DeepActions \cup WideActions

\* Rotations that differ between the nodes of the tree.
Rotate(seed, tweak, d, x) == (x + seed + FoldLeft(+, Len(tweak), tweak)) % d

\* The enumerator behind the one schedule of an action that decides nothing.
NoDecisions == CHOOSE a \in DeepActions : a.tree[<<>>] = Leaf
Enumerated ==
  /\ action = NoDecisions
  /\ path = <<>> /\ hasNext = <<>> /\ level = 0
  /\ drawn = <<>> /\ phase = "over" /\ done = << <<>> >>

SmallestInput ==
  [init |-> <<"a">>, step |-> CHOOSE g \in Graphs : g.a[1] = "b" /\ g.a[2] = "b",
   bad |-> {"b", "d"}, undefined |-> {}, maxSteps |-> 2, maxFindings |-> 1]

ExhaustiveInit ==
  /\ Init
  /\ Enumerated \/ (input = SmallestInput /\ EnumeratorInit)
Searches == Next /\ UNCHANGED enumeratorVars
Enumerates == result # "running" /\ EnumeratorNext /\ UNCHANGED vars
ExhaustiveSpec ==
  /\ ExhaustiveInit
  /\ [][Searches \/ Enumerates]_<<vars, enumeratorVars>>
  /\ WF_<<vars, enumeratorVars>>(Searches)
  /\ WF_<<vars, enumeratorVars>>(Enumerates)
=============================================================================

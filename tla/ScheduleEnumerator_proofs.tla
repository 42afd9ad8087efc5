---------------------- MODULE ScheduleEnumerator_proofs ----------------------
(***************************************************************************)
(* The enumeration of schedules is exact, for every action whose runs draw *)
(* finitely many choices and every bijection that shuffles them: a saved   *)
(* choice is one that the decision still has, no schedule is run twice,    *)
(* and when next_schedule returns False every schedule has been run.       *)
(*                                                                         *)
(* The argument is about the last run, the line.  At each of its levels,   *)
(* all schedules that take there a choice before the saved one have been   *)
(* run, and every earlier run is one of those.                             *)
(***************************************************************************)
EXTENDS ScheduleEnumerator, SequenceTheorems, WellFoundedInduction, TLAPS

\* The node of a run before its choice at level k.
NodeAt(line, k) == SubSeq(line, 1, k - 1)

\* The largest choice there, and the choice that the saved choice c stands for.
UpperAt(a, line, k) == UpperOf(a.bound, a.tree[NodeAt(line, k)])
PickAt(a, p, line, k, c) ==
  LET upper == UpperAt(a, line, k) IN
  IF a.seed = NoSeed \/ upper = 0 THEN c
  ELSE Permute(a.seed, SubSeq(p, 2, k), upper + 1, c)

\* Schedule s leaves the line at level k, with the saved choice c.
Leaves(a, p, line, k, c, s) ==
  /\ k \in 1..Len(s)
  /\ NodeAt(s, k) = NodeAt(line, k)
  /\ s[k] = PickAt(a, p, line, k, c)

\* The run that the path describes: the last one, until it is taken up again.
Line == IF level < Len(path) THEN done[Len(done)] ELSE drawn
Depth == Len(path) - 1

\* The level whose choice next_schedule has advanced is drawn last.
Taken(k) == k < Depth \/ level = Len(path)

EnumeratorTypeOK ==
  /\ action \in Actions
  /\ path \in Seq(Nat) /\ hasNext \in Seq(BOOLEAN)
  /\ Len(hasNext) = Len(path)
  /\ drawn \in Seq(Nat) /\ done \in Seq(Seq(Nat))
  /\ phase \in {"running", "between", "over"}
  /\ phase # "over" =>
       /\ level \in 1..Len(path) /\ Len(drawn) = level - 1
       /\ drawn \in DOMAIN action.tree

\* While the path is taken again, the run repeats the last one.
LineInv ==
  /\ level < Len(path) =>
       /\ done # <<>> /\ Len(Line) >= Depth
       /\ \A k \in 1..(level - 1) : drawn[k] = Line[k]
  /\ phase = "between" =>
       /\ level = Len(path) /\ Request.kind = "leaf"
       /\ done # <<>> /\ done[Len(done)] = drawn

PathInv ==
  \A k \in 1..Depth :
    /\ NodeAt(Line, k) \in DOMAIN action.tree
    /\ action.tree[NodeAt(Line, k)].kind # "leaf"
    /\ path[k + 1] <= UpperAt(action, Line, k)
    /\ Taken(k) => /\ Line[k] = PickAt(action, path, Line, k, path[k + 1])
                   /\ hasNext[k + 1] <=> path[k + 1] < UpperAt(action, Line, k)

\* Schedules with an earlier choice have been run.
EarlierDone ==
  \A k \in 1..Depth, s \in Schedules :
    \A c \in 0..(path[k + 1] - 1) :
      Leaves(action, path, Line, k, c, s) => s \in ToSet(done)

\* What has been run is a schedule, and one with an earlier choice.
DoneIsEarlier ==
  \A n \in 1..Len(done) :
    \/ phase = "between" /\ n = Len(done)
    \/ \E k \in 1..Depth : \E c \in 0..(path[k + 1] - 1) :
         Leaves(action, path, Line, k, c, done[n])

EnumeratorInv ==
  /\ EnumeratorTypeOK
  /\ EachOnce
  /\ ToSet(done) \subseteq Schedules
  /\ IF phase = "over" THEN Schedules \subseteq ToSet(done)
     ELSE LineInv /\ PathInv /\ EarlierDone /\ DoneIsEarlier

----------------------------------------------------------------------------
(* Facts about numbers and sequences. *)

\* A set of naturals has a smallest member.
LEMMA NatMin ==
  ASSUME NEW T \in SUBSET Nat, T # {}
  PROVE  \E x \in T : \A y \in T : x <= y
<1>1. PICK x \in T : \A y \in T : ~(<<y, x>> \in OpToRel(<, Nat))
  BY NatLessThanWellFounded, WFMin, Zenon
<1>2. \A y \in T : ~(y < x)
  BY <1>1, Zenon DEF OpToRel
<1>3. QED
  BY <1>2

\* A bounded one has a largest member, and Max returns it.
LEMMA MaxIsLargest ==
  ASSUME NEW n \in Nat, NEW T \in SUBSET (0..n), T # {}
  PROVE  /\ Max(T) \in T
         /\ \A y \in T : Max(T) >= y
<1> DEFINE U == {n - y : y \in T}
<1>1. U \in SUBSET Nat
  OBVIOUS
<1>2. U # {}
  OBVIOUS
<1> HIDE DEF U
<1>3. PICK x \in U : \A y \in U : x <= y
  BY <1>1, <1>2, NatMin
<1>4. PICK z \in T : x = n - z
  BY <1>3 DEF U
<1>5. \A y \in T : n - y \in U
  BY DEF U
<1>6. \A y \in T : z >= y
  BY <1>3, <1>4, <1>5
<1>7. \E w \in T : \A y \in T : w >= y
  BY <1>6
<1>8. QED
  BY <1>7, Zenon DEF Max

\* A node is the choices made before it.
LEMMA NodeFacts ==
  ASSUME NEW s \in Seq(Nat), NEW k \in 1..(Len(s) + 1)
  PROVE  /\ NodeAt(s, k) \in Seq(Nat)
         /\ Len(NodeAt(s, k)) = k - 1
         /\ \A i \in 1..(k - 1) : NodeAt(s, k)[i] = s[i]
<1>1. \A i \in 1..(k - 1) : s[i] \in Nat
  BY LenProperties, ElementOfSeq
<1>2. k - 1 \in Int /\ 1 \in Int
  BY LenProperties
<1>3. /\ SubSeq(s, 1, k - 1) \in Seq(Nat)
      /\ Len(SubSeq(s, 1, k - 1)) = IF 1 <= k - 1 THEN (k - 1) - 1 + 1 ELSE 0
      /\ \A i \in 1..((k - 1) - 1 + 1) : SubSeq(s, 1, k - 1)[i] = s[1 + i - 1]
  BY <1>1, <1>2, SubSeqProperties
<1>4. QED
  BY <1>3, LenProperties DEF NodeAt

\* Two runs reach the same node if and only if they have made the same choices.
LEMMA SameNode ==
  ASSUME NEW s \in Seq(Nat), NEW t \in Seq(Nat),
         NEW k \in 1..(Len(s) + 1), k <= Len(t) + 1
  PROVE  NodeAt(s, k) = NodeAt(t, k) <=> \A i \in 1..(k - 1) : s[i] = t[i]
<1>1. k \in 1..(Len(t) + 1)
  BY LenProperties
<1>2. /\ NodeAt(s, k) \in Seq(Nat)
      /\ Len(NodeAt(s, k)) = k - 1
      /\ \A i \in 1..(k - 1) : NodeAt(s, k)[i] = s[i]
  BY NodeFacts
<1>3. /\ NodeAt(t, k) \in Seq(Nat)
      /\ Len(NodeAt(t, k)) = k - 1
      /\ \A i \in 1..(k - 1) : NodeAt(t, k)[i] = t[i]
  BY <1>1, NodeFacts
<1>4. ASSUME \A i \in 1..(k - 1) : s[i] = t[i]
      PROVE  NodeAt(s, k) = NodeAt(t, k)
  BY <1>2, <1>3, <1>4, SeqEqual
<1>5. QED
  BY <1>2, <1>3, <1>4

\* At the end of a run the node is the run.
LEMMA OwnNode ==
  ASSUME NEW s \in Seq(Nat)
  PROVE  NodeAt(s, Len(s) + 1) = s
<1>1. Len(s) + 1 - 1 = Len(s)
  BY LenProperties
<1>2. QED
  BY <1>1, SubSeqFull DEF NodeAt

\* What ActionsAssumption says of a node of the tree.
LEMMA TreeFacts ==
  ASSUME NEW a \in Actions, NEW s \in DOMAIN a.tree
  PROVE  /\ s \in Seq(Nat) /\ Len(s) \in 0..MaxDepth
         /\ a.tree[s].kind # "leaf" =>
              /\ UpperOf(a.bound, a.tree[s]) \in 0..(MaxChoices - 1)
              /\ \A c \in 0..UpperOf(a.bound, a.tree[s]) : Append(s, c) \in DOMAIN a.tree
<1>1. s \in Seq(Nat) /\ Len(s) <= MaxDepth
  BY ActionsAssumption
<1>2. Len(s) \in Nat
  BY <1>1, LenProperties
<1>3. QED
  BY <1>1, <1>2, ActionsAssumption

----------------------------------------------------------------------------
(* The shuffle. *)

\* The values that a tweak is mixed from.
Tweaks == UNION {[1..n -> 0..(MaxChoices - 1)] : n \in 0..MaxDepth}

\* At a decision the shuffle is a bijection of its choices.
LEMMA Picks ==
  ASSUME NEW a \in Actions, NEW p, NEW line, NEW k,
         SubSeq(p, 2, k) \in Tweaks,
         UpperAt(a, line, k) \in 0..(MaxChoices - 1)
  PROVE  /\ \A c \in 0..UpperAt(a, line, k) :
               PickAt(a, p, line, k, c) \in 0..UpperAt(a, line, k)
         /\ \A x \in 0..UpperAt(a, line, k) :
               \E c \in 0..UpperAt(a, line, k) : x = PickAt(a, p, line, k, c)
         /\ \A c, d \in 0..UpperAt(a, line, k) :
               PickAt(a, p, line, k, c) = PickAt(a, p, line, k, d) => c = d
<1> DEFINE u == UpperAt(a, line, k)
           tweak == SubSeq(p, 2, k)
<1>1. MaxChoices \in Nat
  BY ActionsAssumption
<1>2. CASE a.seed = NoSeed \/ u = 0
  <2>1. \A c : PickAt(a, p, line, k, c) = c
    BY <1>2 DEF PickAt
  <2>2. QED
    BY <2>1
<1>3. CASE ~(a.seed = NoSeed \/ u = 0)
  <2>1. a.seed \in {b.seed : b \in Actions} \ {NoSeed}
    BY <1>3
  <2>2. u + 1 \in 1..MaxChoices /\ (u + 1) - 1 = u
    BY <1>1
  <2>3. \A c : PickAt(a, p, line, k, c) = Permute(a.seed, tweak, u + 1, c)
    BY <1>3 DEF PickAt
  <2> HIDE DEF u, tweak
  <2>4. /\ {Permute(a.seed, tweak, u + 1, x) : x \in 0..((u + 1) - 1)} = 0..((u + 1) - 1)
        /\ \A x, y \in 0..((u + 1) - 1) :
              Permute(a.seed, tweak, u + 1, x) = Permute(a.seed, tweak, u + 1, y) => x = y
    BY <2>1, <2>2, PermuteAssumption, Zenon DEF Tweaks, tweak
  <2>5. /\ {Permute(a.seed, tweak, u + 1, x) : x \in 0..u} = 0..u
        /\ \A x, y \in 0..u :
              Permute(a.seed, tweak, u + 1, x) = Permute(a.seed, tweak, u + 1, y) => x = y
    BY <2>2, <2>4, Zenon
  <2>6. /\ \A c \in 0..u : Permute(a.seed, tweak, u + 1, c) \in 0..u
        /\ \A x \in 0..u : \E c \in 0..u : x = Permute(a.seed, tweak, u + 1, c)
    BY <2>5, Zenon
  <2>7. u = UpperAt(a, line, k)
    BY DEF u
  <2>8. /\ \A c \in 0..u : PickAt(a, p, line, k, c) \in 0..u
        /\ \A x \in 0..u : \E c \in 0..u : x = PickAt(a, p, line, k, c)
    BY <2>3, <2>6
  <2>9. \A c, d \in 0..u : PickAt(a, p, line, k, c) = PickAt(a, p, line, k, d) => c = d
    BY <2>3, <2>5
  <2>10. QED
    BY <2>7, <2>8, <2>9
<1>4. QED
  BY <1>2, <1>3

\* Until the enumeration is over, the path has a root and the run is at a level of it.
LEMMA PathLength ==
  ASSUME EnumeratorTypeOK, phase # "over"
  PROVE  /\ Len(path) \in Nat /\ Len(path) >= 1
         /\ Depth \in Nat /\ Len(path) = Depth + 1
         /\ level \in 1..Len(path)
         /\ Len(drawn) = level - 1
<1>1. Len(path) \in Nat
  BY LenProperties DEF EnumeratorTypeOK
<1>2. QED
  BY <1>1 DEF EnumeratorTypeOK, Depth

\* The line is a run that reaches the end of the path.
LEMMA LineFacts ==
  ASSUME EnumeratorTypeOK, phase # "over", LineInv
  PROVE  Line \in Seq(Nat) /\ Len(Line) \in Nat /\ Len(Line) >= Depth
<1>1. /\ Len(path) \in Nat /\ Len(path) = Depth + 1 /\ level \in 1..Len(path)
      /\ Len(drawn) = level - 1
  BY PathLength
<1>2. CASE level < Len(path)
  <2>1. Line = done[Len(done)] /\ done # <<>> /\ Len(Line) >= Depth
    BY <1>2 DEF Line, LineInv
  <2>2. Len(done) \in 1..Len(done)
    BY <2>1, EmptySeq, LenProperties DEF EnumeratorTypeOK
  <2>3. Line \in Seq(Nat)
    BY <2>1, <2>2, ElementOfSeq DEF EnumeratorTypeOK
  <2>4. QED
    BY <2>1, <2>3, LenProperties
<1>3. CASE ~(level < Len(path))
  <2>1. Line = drawn
    BY <1>3 DEF Line
  <2>2. drawn \in Seq(Nat)
    BY DEF EnumeratorTypeOK
  <2>3. Len(drawn) \in Nat /\ Len(drawn) >= Depth
    BY <1>1, <1>3, <2>2, PathLength, LenProperties
  <2>4. QED
    BY <2>1, <2>2, <2>3, Zenon
<1>4. QED
  BY <1>2, <1>3

\* The saved choices are small enough for a tweak.
LEMMA PathTweaks ==
  ASSUME EnumeratorTypeOK, phase # "over", PathInv,
         NEW k \in 1..Len(path), k - 1 <= MaxDepth
  PROVE  SubSeq(path, 2, k) \in Tweaks
<1>1. /\ Len(path) \in Nat /\ Len(path) >= 1
      /\ Depth \in Nat /\ Len(path) = Depth + 1
  BY PathLength
<1>2. MaxChoices \in Nat /\ MaxDepth \in Nat
  BY ActionsAssumption
<1>3. ASSUME NEW i \in 2..k
      PROVE  path[i] \in 0..(MaxChoices - 1)
  <2> DEFINE j == i - 1
  <2>1. j \in 1..Depth /\ j + 1 = i
    BY <1>1
  <2> HIDE DEF j
  <2>2. /\ NodeAt(Line, j) \in DOMAIN action.tree
        /\ action.tree[NodeAt(Line, j)].kind # "leaf"
        /\ path[j + 1] <= UpperAt(action, Line, j)
    BY <2>1 DEF PathInv
  <2>3. UpperAt(action, Line, j) \in 0..(MaxChoices - 1)
    BY <2>2, TreeFacts DEF EnumeratorTypeOK, UpperAt
  <2>4. path[i] \in Nat
    <3>1. i \in 1..Len(path)
      BY <1>1
    <3>2. QED
      BY <3>1, ElementOfSeq DEF EnumeratorTypeOK
  <2>5. QED
    BY <1>2, <2>1, <2>2, <2>3, <2>4
<1>4. k \in Int /\ 2 \in Int
  BY <1>1
<1>5. /\ SubSeq(path, 2, k) \in Seq(0..(MaxChoices - 1))
      /\ Len(SubSeq(path, 2, k)) = IF 2 <= k THEN k - 2 + 1 ELSE 0
  BY <1>3, <1>4, SubSeqProperties
<1>6. Len(SubSeq(path, 2, k)) \in 0..MaxDepth
  BY <1>1, <1>2, <1>5
<1>7. SubSeq(path, 2, k) \in [1..Len(SubSeq(path, 2, k)) -> 0..(MaxChoices - 1)]
  BY <1>5, LenProperties
<1>8. QED
  BY <1>6, <1>7 DEF Tweaks

\* Every choice of a decision of the line is the one that a saved choice stands
\* for, and just one does.
LEMMA PathPicks ==
  ASSUME EnumeratorTypeOK, phase # "over", LineInv, PathInv, NEW k \in 1..Depth
  PROVE  /\ UpperAt(action, Line, k) \in 0..(MaxChoices - 1)
         /\ \A c \in 0..UpperAt(action, Line, k) :
               PickAt(action, path, Line, k, c) \in 0..UpperAt(action, Line, k)
         /\ \A x \in 0..UpperAt(action, Line, k) :
               \E c \in 0..UpperAt(action, Line, k) : x = PickAt(action, path, Line, k, c)
         /\ \A c, d \in 0..UpperAt(action, Line, k) :
               PickAt(action, path, Line, k, c) = PickAt(action, path, Line, k, d) => c = d
<1>1. /\ Len(path) \in Nat /\ Depth \in Nat /\ Len(path) = Depth + 1
  BY PathLength
<1>2. /\ NodeAt(Line, k) \in DOMAIN action.tree
      /\ action.tree[NodeAt(Line, k)].kind # "leaf"
  BY DEF PathInv
<1>3. action \in Actions
  BY DEF EnumeratorTypeOK
<1>4. /\ UpperAt(action, Line, k) \in 0..(MaxChoices - 1)
      /\ Len(NodeAt(Line, k)) <= MaxDepth
  BY <1>2, <1>3, TreeFacts DEF UpperAt
<1>5. k - 1 <= MaxDepth
  <2>1. k \in 1..(Len(Line) + 1) /\ Line \in Seq(Nat)
    BY <1>1, LineFacts
  <2>2. QED
    BY <1>4, <2>1, NodeFacts
<1>6. k \in 1..Len(path)
  BY <1>1
<1>7. SubSeq(path, 2, k) \in Tweaks
  BY <1>5, <1>6, PathTweaks
<1>8. QED
  BY <1>3, <1>4, <1>7, Picks

\* What draw returns is a choice of the decision, and leads on in the tree.
LEMMA ShufflePicks ==
  ASSUME EnumeratorTypeOK, phase = "running", LineInv, PathInv,
         Request.kind # "leaf",
         NEW c \in 0..Upper(Request)
  PROVE  /\ Upper(Request) \in 0..(MaxChoices - 1)
         /\ Shuffle(c, Upper(Request)) \in 0..Upper(Request)
         /\ Append(drawn, Shuffle(c, Upper(Request))) \in DOMAIN action.tree
         /\ Upper(Request) = UpperAt(action, drawn, level)
         /\ Shuffle(c, Upper(Request)) = PickAt(action, path, drawn, level, c)
<1>1. /\ action \in Actions /\ drawn \in Seq(Nat) /\ drawn \in DOMAIN action.tree
      /\ phase # "over"
  BY DEF EnumeratorTypeOK
<1>2. /\ Len(path) \in Nat /\ level \in 1..Len(path) /\ Len(drawn) = level - 1
  BY <1>1, PathLength
<1>3. NodeAt(drawn, level) = drawn
  BY <1>1, <1>2, OwnNode
<1>4. /\ Len(drawn) \in 0..MaxDepth
      /\ Upper(Request) \in 0..(MaxChoices - 1)
      /\ \A d \in 0..Upper(Request) : Append(drawn, d) \in DOMAIN action.tree
  BY <1>1, TreeFacts DEF Upper, Request
<1>5. Upper(Request) = UpperAt(action, drawn, level)
  BY <1>3 DEF Upper, Request, UpperAt
<1>6. SubSeq(path, 2, level) \in Tweaks
  BY <1>1, <1>2, <1>4, PathTweaks
<1>7. Shuffle(c, Upper(Request)) = PickAt(action, path, drawn, level, c)
  BY <1>5 DEF Shuffle, PickAt
<1>8. PickAt(action, path, drawn, level, c) \in 0..UpperAt(action, drawn, level)
  BY <1>1, <1>4, <1>5, <1>6, Picks
<1>9. QED
  BY <1>4, <1>5, <1>7, <1>8

\* What a level says of a run depends only on its node there.
LEMMA SameLevel ==
  ASSUME NEW a, NEW p, NEW q, NEW s, NEW t, NEW k,
         NodeAt(s, k) = NodeAt(t, k),
         SubSeq(p, 2, k) = SubSeq(q, 2, k)
  PROVE  /\ UpperAt(a, s, k) = UpperAt(a, t, k)
         /\ \A c : PickAt(a, p, s, k, c) = PickAt(a, q, t, k, c)
         /\ \A c, r : Leaves(a, p, s, k, c, r) <=> Leaves(a, q, t, k, c, r)
BY Zenon DEF UpperAt, PickAt, Leaves

\* What makes a schedule, at each of its levels.
LEMMA ScheduleFacts ==
  ASSUME EnumeratorTypeOK, NEW s \in Schedules
  PROVE  /\ s \in DOMAIN action.tree /\ s \in Seq(Nat) /\ Len(s) \in Nat
         /\ action.tree[s].kind = "leaf"
         /\ \A k \in 1..Len(s) : /\ action.tree[NodeAt(s, k)].kind # "leaf"
                                 /\ s[k] \in Nat /\ s[k] <= UpperAt(action, s, k)
<1>1. s \in DOMAIN action.tree /\ action \in Actions
  BY DEF EnumeratorTypeOK, Schedules
<1>2. s \in Seq(Nat) /\ Len(s) \in Nat
  BY <1>1, TreeFacts
<1>3. ASSUME NEW k \in 1..Len(s)
      PROVE  /\ action.tree[NodeAt(s, k)].kind # "leaf"
             /\ s[k] <= UpperAt(action, s, k)
             /\ s[k] \in Nat
  BY <1>2, <1>3, ElementOfSeq DEF Schedules, NodeAt, UpperAt, Upper
<1>4. QED
  BY <1>1, <1>2, <1>3 DEF Schedules

----------------------------------------------------------------------------
(* Between two runs. *)

\* What the invariant says then: the line is the run that has just ended.
LEMMA BetweenFacts ==
  ASSUME EnumeratorInv, phase = "between"
  PROVE  /\ Len(path) \in Nat /\ Depth \in Nat /\ Len(path) = Depth + 1
         /\ level = Len(path) /\ drawn \in Seq(Nat) /\ Len(drawn) = Depth
         /\ Line = drawn
         /\ Len(done) \in 1..Len(done) /\ done[Len(done)] = drawn
         /\ done \in Seq(Seq(Nat))
         /\ action.tree[drawn].kind = "leaf"
<1>1. /\ EnumeratorTypeOK /\ LineInv /\ phase # "over"
  BY DEF EnumeratorInv
<1>2. /\ Len(path) \in Nat /\ Depth \in Nat /\ Len(path) = Depth + 1
      /\ Len(drawn) = level - 1
  BY <1>1, PathLength
<1>3. /\ level = Len(path) /\ done # <<>> /\ done[Len(done)] = drawn
      /\ action.tree[drawn].kind = "leaf"
  BY <1>1 DEF LineInv, Request
<1>4. Len(done) \in 1..Len(done) /\ done \in Seq(Seq(Nat))
  BY <1>1, <1>3, EmptySeq, LenProperties DEF EnumeratorTypeOK
<1>5. Line = drawn
  BY <1>2, <1>3 DEF Line
<1>6. drawn \in Seq(Nat)
  BY <1>1 DEF EnumeratorTypeOK
<1>7. QED
  BY <1>2, <1>3, <1>4, <1>5, <1>6

\* The schedules that repeat the line up to level L, after which no choice is
\* left, have all been run.
LEMMA Behind ==
  ASSUME EnumeratorInv, phase = "between",
         NEW L \in 0..Depth,
         \A k \in (L + 1)..Depth : ~hasNext[k + 1],
         NEW s \in Schedules,
         L <= Len(s), \A i \in 1..L : s[i] = drawn[i]
  PROVE  s \in ToSet(done)
<1>1. /\ EnumeratorTypeOK /\ LineInv /\ PathInv /\ EarlierDone /\ phase # "over"
  BY DEF EnumeratorInv
<1>2. /\ Depth \in Nat /\ Len(path) = Depth + 1 /\ level = Len(path)
      /\ drawn \in Seq(Nat) /\ Len(drawn) = Depth /\ Line = drawn
      /\ action.tree[drawn].kind = "leaf"
  BY BetweenFacts
<1>3. /\ s \in Seq(Nat) /\ Len(s) \in Nat /\ action.tree[s].kind = "leaf"
      /\ \A k \in 1..Len(s) : /\ action.tree[NodeAt(s, k)].kind # "leaf"
                              /\ s[k] \in Nat /\ s[k] <= UpperAt(action, s, k)
  BY <1>1, ScheduleFacts
<1> DEFINE T == {i \in 1..Depth : i > Len(s) \/ s[i] # drawn[i]}
<1>4. CASE T = {}
  <2>1. ASSUME NEW i \in 1..Depth
        PROVE  i <= Len(s) /\ s[i] = drawn[i]
    <3>1. ~(i > Len(s) \/ s[i] # drawn[i])
      BY <1>4
    <3>2. QED
      BY <1>2, <1>3, <3>1
  <2>2. Depth <= Len(s)
    BY <1>2, <1>3, <2>1
  <2>3. Depth + 1 \in 1..(Len(s) + 1) /\ Depth + 1 <= Len(drawn) + 1
    BY <1>2, <1>3, <2>2
  <2>4. \A i \in 1..((Depth + 1) - 1) : s[i] = drawn[i]
    BY <1>2, <2>1
  <2>5. NodeAt(s, Depth + 1) = NodeAt(drawn, Depth + 1)
    BY <1>2, <1>3, <2>3, <2>4, SameNode
  <2>6. NodeAt(s, Depth + 1) = drawn
    BY <1>2, <2>5, OwnNode
  <2>7. Len(s) = Depth
    BY <1>2, <1>3, <2>2, <2>6
  <2>8. s = drawn
    BY <1>3, <2>6, <2>7, OwnNode
  <2>9. QED
    BY <2>8, BetweenFacts, LenProperties DEF ToSet
<1>5. CASE T # {}
  <2>1. T \in SUBSET Nat
    BY <1>2
  <2> HIDE DEF T
  <2>2. PICK k \in T : \A i \in T : k <= i
    BY <1>5, <2>1, NatMin
  <2>3. k \in 1..Depth /\ (k > Len(s) \/ s[k] # drawn[k])
    BY DEF T
  <2>4. ASSUME NEW i \in 1..(k - 1)
        PROVE  i <= Len(s) /\ s[i] = drawn[i]
    <3>1. i \notin T /\ i \in 1..Depth
      BY <1>2, <2>2, <2>3
    <3>2. QED
      BY <1>3, <3>1 DEF T
  <2>5. k > L
    BY <1>2, <1>3, <2>3
  <2>6. k - 1 <= Len(s)
    <3>1. CASE k = 1
      BY <1>3, <3>1
    <3>2. CASE k # 1
      <4>1. k - 1 \in 1..(k - 1)
        BY <1>2, <2>3, <3>2
      <4>2. QED
        BY <2>4, <4>1
    <3>3. QED
      BY <3>1, <3>2
  <2>7. k \in 1..(Len(s) + 1) /\ k <= Len(drawn) + 1
    BY <1>2, <1>3, <2>3, <2>6
  <2>8. NodeAt(s, k) = NodeAt(drawn, k)
    BY <1>2, <1>3, <2>4, <2>7, SameNode
  <2>9. /\ action.tree[NodeAt(drawn, k)].kind # "leaf"
        /\ path[k + 1] <= UpperAt(action, drawn, k)
        /\ drawn[k] = PickAt(action, path, drawn, k, path[k + 1])
        /\ hasNext[k + 1] <=> path[k + 1] < UpperAt(action, drawn, k)
    BY <1>1, <1>2, <2>3 DEF PathInv, Taken
  <2>10. k \in 1..Len(s)
    <3>1. CASE k = Len(s) + 1
      BY <1>3, <2>8, <2>9, <3>1, OwnNode
    <3>2. QED
      BY <1>3, <2>7, <3>1
  <2>11. /\ UpperAt(action, drawn, k) \in Nat
         /\ \A x \in 0..UpperAt(action, drawn, k) :
              \E c \in 0..UpperAt(action, drawn, k) : x = PickAt(action, path, drawn, k, c)
    <3>1. /\ UpperAt(action, drawn, k) \in 0..(MaxChoices - 1)
          /\ \A x \in 0..UpperAt(action, drawn, k) :
               \E c \in 0..UpperAt(action, drawn, k) : x = PickAt(action, path, drawn, k, c)
      BY <1>1, <1>2, <2>3, PathPicks
    <3>2. QED
      BY <3>1
  <2>12. UpperAt(action, s, k) = UpperAt(action, drawn, k)
    BY <2>8 DEF UpperAt
  <2>13. s[k] \in 0..UpperAt(action, drawn, k)
    BY <1>3, <2>10, <2>11, <2>12
  <2>14. PICK c \in 0..UpperAt(action, drawn, k) : s[k] = PickAt(action, path, drawn, k, c)
    BY <2>11, <2>13
  <2>15. ~(path[k + 1] < UpperAt(action, drawn, k))
    <3>1. ~hasNext[k + 1]
      BY <1>2, <2>3, <2>5
    <3>2. QED
      BY <2>9, <3>1, Zenon
  <2>16. path[k + 1] \in Nat
    <3>1. k + 1 \in 1..Len(path) /\ path \in Seq(Nat)
      BY <1>1, <1>2, <2>3 DEF EnumeratorTypeOK
    <3>2. QED
      BY <3>1, ElementOfSeq
  <2>17. c # path[k + 1]
    BY <2>3, <2>9, <2>10, <2>14, <1>3
  <2>18. c \in 0..(path[k + 1] - 1)
    <3>1. path[k + 1] <= UpperAt(action, drawn, k)
      BY <2>9
    <3>2. UpperAt(action, drawn, k) \in Nat
      BY <2>11
    <3>3. path[k + 1] = UpperAt(action, drawn, k)
      BY <2>15, <2>16, <3>1, <3>2
    <3>4. QED
      BY <2>16, <2>17, <3>3
  <2>19. Leaves(action, path, Line, k, c, s)
    BY <1>2, <2>8, <2>10, <2>14 DEF Leaves
  <2>20. QED
    BY <1>1, <2>3, <2>18, <2>19 DEF EarlierDone
<1>6. QED
  BY <1>4, <1>5

----------------------------------------------------------------------------
(* The invariant is inductive. *)

\* The first run starts with an empty line.
LEMMA InitEstablishes ==
  EnumeratorInit => EnumeratorInv
<1> SUFFICES ASSUME EnumeratorInit
             PROVE  EnumeratorInv
  OBVIOUS
<1> USE DEF EnumeratorInit
<1>1. /\ action \in Actions /\ path = <<0>> /\ hasNext = <<FALSE>> /\ level = 1
      /\ drawn = <<>> /\ phase = "running" /\ done = <<>>
  OBVIOUS
<1>2. EnumeratorTypeOK
  <2>1. <<>> \in DOMAIN action.tree
    BY ActionsAssumption
  <2>2. Len(drawn) = 0 /\ Len(path) = 1 /\ Len(hasNext) = 1
    BY <1>1
  <2>3. path \in Seq(Nat) /\ hasNext \in Seq(BOOLEAN) /\ drawn \in Seq(Nat)
        /\ done \in Seq(Seq(Nat))
    BY <1>1
  <2>4. QED
    BY <1>1, <2>1, <2>2, <2>3 DEF EnumeratorTypeOK
<1>3. Depth = 0 /\ Len(done) = 0 /\ Len(path) = 1
  BY <1>1 DEF Depth
<1>4. EachOnce /\ ToSet(done) \subseteq Schedules
  BY <1>1 DEF EachOnce, IsInjective, ToSet
<1>5. LineInv /\ PathInv /\ EarlierDone /\ DoneIsEarlier
  BY <1>1, <1>3 DEF LineInv, PathInv, EarlierDone, DoneIsEarlier
<1>6. QED
  BY <1>1, <1>2, <1>4, <1>5 DEF EnumeratorInv

\* While the path is taken again, the run is at the node of the line.
LEMMA Rerun ==
  ASSUME EnumeratorInv, phase = "running", level < Len(path)
  PROVE  /\ level \in 1..Depth
         /\ NodeAt(Line, level) = drawn
         /\ Request.kind # "leaf"
         /\ path[level + 1] \in 0..Upper(Request)
<1>1. /\ EnumeratorTypeOK /\ LineInv /\ PathInv /\ phase # "over"
  BY DEF EnumeratorInv
<1>2. /\ Len(path) \in Nat /\ Depth \in Nat /\ Len(path) = Depth + 1
      /\ level \in 1..Len(path) /\ Len(drawn) = level - 1
      /\ drawn \in Seq(Nat) /\ path \in Seq(Nat)
  BY <1>1, PathLength DEF EnumeratorTypeOK
<1>3. level \in 1..Depth
  BY <1>2
<1>4. Line \in Seq(Nat) /\ Len(Line) \in Nat /\ Len(Line) >= Depth
  BY <1>1, LineFacts
<1>5. \A k \in 1..(level - 1) : drawn[k] = Line[k]
  BY <1>1 DEF LineInv
<1>6. level \in 1..(Len(drawn) + 1) /\ level <= Len(Line) + 1
  BY <1>2, <1>3, <1>4
<1>7. NodeAt(Line, level) = drawn
  <2>1. NodeAt(drawn, level) = NodeAt(Line, level)
    BY <1>2, <1>4, <1>5, <1>6, SameNode
  <2>2. NodeAt(drawn, level) = drawn
    BY <1>2, OwnNode
  <2>3. QED
    BY <2>1, <2>2
<1>8. /\ action.tree[drawn].kind # "leaf"
      /\ path[level + 1] <= UpperAt(action, Line, level)
  BY <1>1, <1>3, <1>7 DEF PathInv
<1>9. UpperAt(action, Line, level) = Upper(Request)
  BY <1>7 DEF UpperAt, Upper, Request
<1>10. Upper(Request) \in 0..(MaxChoices - 1)
  BY <1>1, <1>3, <1>9, PathPicks
<1>11. path[level + 1] \in Nat
  <2>1. level + 1 \in 1..Len(path)
    BY <1>2, <1>3
  <2>2. QED
    BY <1>2, <2>1, ElementOfSeq
<1>12. QED
  BY <1>3, <1>7, <1>8, <1>9, <1>10, <1>11 DEF Request

\* A saved choice leads along the line; at the end of the path it leaves it for
\* the next sibling, whose node is the same.
LEMMA DrawSavedPreserves ==
  ASSUME EnumeratorInv, DrawSaved
  PROVE  EnumeratorInv'
<1> DEFINE c == path[level + 1]
           d == Shuffle(c, Upper(Request))
<1>1. /\ EnumeratorTypeOK /\ LineInv /\ PathInv /\ EarlierDone /\ DoneIsEarlier
      /\ EachOnce /\ ToSet(done) \subseteq Schedules
      /\ phase = "running" /\ phase # "over" /\ Request.kind # "leaf"
      /\ level < Len(path)
  BY DEF EnumeratorInv, DrawSaved
<1>2. /\ action' = action /\ path' = path /\ phase' = phase /\ done' = done
      /\ level' = level + 1 /\ drawn' = Append(drawn, d)
      /\ hasNext' = [hasNext EXCEPT ![level + 1] = c + 1 <= Upper(Request)]
  BY DEF DrawSaved
<1>3. /\ level \in 1..Depth /\ NodeAt(Line, level) = drawn
      /\ c \in 0..Upper(Request)
  BY <1>1, Rerun
<1>4. /\ Len(path) \in Nat /\ Depth \in Nat /\ Len(path) = Depth + 1
      /\ Len(drawn) = level - 1 /\ drawn \in Seq(Nat)
      /\ Len(hasNext) = Len(path) /\ hasNext \in Seq(BOOLEAN)
      /\ action \in Actions
  BY <1>1, PathLength DEF EnumeratorTypeOK
<1>5. /\ Upper(Request) \in 0..(MaxChoices - 1)
      /\ d \in 0..Upper(Request)
      /\ Append(drawn, d) \in DOMAIN action.tree
      /\ Upper(Request) = UpperAt(action, drawn, level)
      /\ d = PickAt(action, path, drawn, level, c)
  BY <1>1, <1>3, ShufflePicks
<1>6. d \in Nat /\ c \in Nat
  BY <1>3, <1>5
<1> HIDE DEF c, d
<1>7. /\ drawn' \in Seq(Nat) /\ Len(drawn') = level
      /\ \A i \in 1..(level - 1) : drawn'[i] = drawn[i]
      /\ drawn'[level] = d
  <2>1. /\ Append(drawn, d) \in Seq(Nat) /\ Len(Append(drawn, d)) = Len(drawn) + 1
        /\ \A i \in 1..Len(drawn) : Append(drawn, d)[i] = drawn[i]
        /\ Append(drawn, d)[Len(drawn) + 1] = d
    BY <1>4, <1>6, AppendProperties
  <2>2. Len(drawn) + 1 = level
    BY <1>3, <1>4
  <2>3. QED
    BY <1>2, <1>4, <2>1, <2>2
<1>8. /\ hasNext' \in Seq(BOOLEAN) /\ Len(hasNext') = Len(path)
      /\ \A i \in 1..Len(path) :
           hasNext'[i] = IF i = level + 1 THEN c + 1 <= Upper(Request) ELSE hasNext[i]
  <2>1. level + 1 \in 1..Len(hasNext) /\ (c + 1 <= Upper(Request)) \in BOOLEAN
    BY <1>3, <1>4
  <2>2. QED
    BY <1>2, <1>4, <2>1, ExceptSeq
<1>9. EnumeratorTypeOK'
  BY <1>1, <1>2, <1>3, <1>4, <1>5, <1>7, <1>8 DEF EnumeratorTypeOK
<1>10. Line \in Seq(Nat) /\ Len(Line) \in Nat /\ Len(Line) >= Depth
       /\ \A i \in 1..(level - 1) : drawn[i] = Line[i]
  BY <1>1, LineFacts DEF LineInv
<1>11. Depth' = Depth
  BY <1>2 DEF Depth
<1>12. \/ level + 1 < Len(path) /\ Line' = Line
       \/ level + 1 = Len(path) /\ Line' = drawn'
  <2>1. CASE level + 1 < Len(path)
    BY <1>1, <1>2, <2>1 DEF Line
  <2>2. CASE level + 1 = Len(path)
    BY <1>1, <1>2, <2>2 DEF Line
  <2>3. QED
    BY <1>1, <1>3, <1>4, <2>1, <2>2
<1>13. ASSUME NEW k \in 1..Depth
       PROVE  NodeAt(Line', k) = NodeAt(Line, k)
  <2>1. CASE Line' = Line
    BY <2>1
  <2>2. CASE level + 1 = Len(path) /\ Line' = drawn'
    <3>1. k \in 1..(Len(drawn') + 1) /\ k <= Len(Line) + 1
      BY <1>3, <1>4, <1>7, <1>10, <2>2
    <3>2. \A i \in 1..(k - 1) : drawn'[i] = Line[i]
      BY <1>3, <1>4, <1>7, <1>10, <2>2
    <3>3. QED
      BY <1>7, <1>10, <2>2, <3>1, <3>2, SameNode
  <2>3. QED
    BY <1>12, <2>1, <2>2
<1>14. ASSUME NEW k \in 1..Depth
       PROVE  /\ UpperAt(action, Line', k) = UpperAt(action, Line, k)
              /\ \A x : PickAt(action, path, Line', k, x) = PickAt(action, path, Line, k, x)
              /\ \A x, s : Leaves(action, path, Line', k, x, s) <=> Leaves(action, path, Line, k, x, s)
  BY <1>13, SameLevel
<1>15. /\ UpperAt(action, Line, level) = Upper(Request)
       /\ d = PickAt(action, path, Line, level, c)
  <2>1. NodeAt(drawn, level) = NodeAt(Line, level)
    BY <1>3, <1>4, OwnNode
  <2>2. /\ UpperAt(action, Line, level) = UpperAt(action, drawn, level)
        /\ PickAt(action, path, Line, level, c) = PickAt(action, path, drawn, level, c)
    BY <2>1, Zenon DEF UpperAt, PickAt
  <2>3. QED
    BY <1>5, <2>2
<1>16. LineInv'
  <2>1. SUFFICES ASSUME level + 1 < Len(path)
                 PROVE  /\ done # <<>> /\ Len(Line) >= Depth /\ Line' = Line
                        /\ \A k \in 1..level : drawn'[k] = Line[k]
    BY <1>1, <1>2, <1>11, <1>4, <1>3 DEF LineInv
  <2>2. Line' = Line /\ done # <<>>
    BY <1>1, <1>4, <1>12, <2>1 DEF LineInv
  <2>3. drawn'[level] = Line[level]
    BY <1>1, <1>3, <1>4, <1>7, <1>15, <2>1 DEF PathInv, Taken, c
  <2>4. QED
    BY <1>3, <1>7, <1>10, <2>2, <2>3
<1>17. PathInv'
  <2>1. SUFFICES ASSUME NEW k \in 1..Depth
                 PROVE  /\ NodeAt(Line', k) \in DOMAIN action.tree
                        /\ action.tree[NodeAt(Line', k)].kind # "leaf"
                        /\ path[k + 1] <= UpperAt(action, Line', k)
                        /\ (k < Depth \/ level + 1 = Len(path)) =>
                             /\ Line'[k] = PickAt(action, path, Line', k, path[k + 1])
                             /\ hasNext'[k + 1] <=> path[k + 1] < UpperAt(action, Line', k)
    BY <1>2, <1>11 DEF PathInv, Taken
  <2>2. /\ NodeAt(Line, k) \in DOMAIN action.tree
        /\ action.tree[NodeAt(Line, k)].kind # "leaf"
        /\ path[k + 1] <= UpperAt(action, Line, k)
    BY <1>1 DEF PathInv
  <2>3. ASSUME k < Depth \/ level + 1 = Len(path)
        PROVE  Line'[k] = PickAt(action, path, Line, k, path[k + 1])
    <3>1. CASE k = level
      <4>1. CASE level + 1 = Len(path) /\ Line' = drawn'
        BY <1>7, <1>15, <3>1, <4>1 DEF c
      <4>2. CASE Line' = Line /\ level + 1 < Len(path)
        BY <1>1, <1>3, <1>4, <3>1, <4>2 DEF PathInv, Taken
      <4>3. QED
        BY <1>12, <4>1, <4>2
    <3>2. CASE k # level /\ k < Depth
      <4>1. Line[k] = PickAt(action, path, Line, k, path[k + 1])
        BY <1>1, <3>2 DEF PathInv, Taken
      <4>2. CASE Line' = Line
        BY <4>1, <4>2
      <4>3. CASE level + 1 = Len(path) /\ Line' = drawn'
        BY <1>3, <1>4, <1>7, <1>10, <3>2, <4>1, <4>3
      <4>4. QED
        BY <1>12, <4>2, <4>3
    <3>3. QED
      BY <1>3, <1>4, <2>3, <3>1, <3>2
  <2>4. ASSUME k < Depth \/ level + 1 = Len(path)
        PROVE  hasNext'[k + 1] <=> path[k + 1] < UpperAt(action, Line, k)
    <3>1. k + 1 \in 1..Len(path)
      BY <1>4
    <3>2. CASE k = level
      <4>1. hasNext'[k + 1] <=> c + 1 <= Upper(Request)
        BY <1>8, <3>1, <3>2
      <4>2. Upper(Request) \in Nat
        BY <1>5
      <4>3. c + 1 <= Upper(Request) <=> c < Upper(Request)
        BY <1>6, <4>2
      <4>4. QED
        BY <1>15, <3>2, <4>1, <4>3 DEF c
    <3>3. CASE k # level
      <4>1. k < Depth /\ k + 1 # level + 1
        BY <1>3, <1>4, <2>4, <3>3
      <4>2. hasNext'[k + 1] = hasNext[k + 1]
        BY <1>8, <3>1, <4>1
      <4>3. Taken(k)
        BY <4>1 DEF Taken
      <4>4. hasNext[k + 1] <=> path[k + 1] < UpperAt(action, Line, k)
        BY <1>1, <4>3, Zenon DEF PathInv
      <4>5. QED
        BY <4>2, <4>4
    <3>4. QED
      BY <3>2, <3>3
  <2>5. NodeAt(Line', k) = NodeAt(Line, k)
    BY <1>13
  <2>6. /\ UpperAt(action, Line', k) = UpperAt(action, Line, k)
        /\ \A x : PickAt(action, path, Line', k, x) = PickAt(action, path, Line, k, x)
    BY <1>14
  <2>7. QED
    BY <2>2, <2>3, <2>4, <2>5, <2>6, Zenon
<1>18. Schedules' = Schedules
  BY <1>2 DEF Schedules, Upper
<1>19. EarlierDone'
  <2>1. SUFFICES ASSUME NEW k \in 1..Depth, NEW s \in Schedules, NEW x \in 0..(path[k + 1] - 1),
                        Leaves(action, path, Line', k, x, s)
                 PROVE  s \in ToSet(done)
    BY <1>2, <1>11, <1>18 DEF EarlierDone
  <2>2. Leaves(action, path, Line, k, x, s)
    BY <1>14, <2>1
  <2>3. QED
    BY <1>1, <2>2 DEF EarlierDone
<1>20. DoneIsEarlier'
  <2>1. SUFFICES ASSUME NEW n \in 1..Len(done)
                 PROVE  \E k \in 1..Depth : \E x \in 0..(path[k + 1] - 1) :
                          Leaves(action, path, Line', k, x, done[n])
    BY <1>2, <1>11 DEF DoneIsEarlier
  <2>2. PICK k \in 1..Depth : \E x \in 0..(path[k + 1] - 1) :
                          Leaves(action, path, Line, k, x, done[n])
    BY <1>1 DEF DoneIsEarlier
  <2>3. QED
    BY <1>14, <2>2
<1>21. EachOnce' /\ (ToSet(done) \subseteq Schedules)'
  BY <1>1, <1>2, <1>18 DEF EachOnce
<1>22. QED
  BY <1>1, <1>2, <1>9, <1>16, <1>17, <1>19, <1>20, <1>21 DEF EnumeratorInv

\* A first choice has no earlier one: what is said of the new level is empty.
LEMMA DrawNewPreserves ==
  ASSUME EnumeratorInv, DrawNew
  PROVE  EnumeratorInv'
<1> DEFINE d == Shuffle(0, Upper(Request))
<1>1. /\ EnumeratorTypeOK /\ LineInv /\ PathInv /\ EarlierDone /\ DoneIsEarlier
      /\ EachOnce /\ ToSet(done) \subseteq Schedules
      /\ phase = "running" /\ phase # "over" /\ Request.kind # "leaf"
      /\ level = Len(path)
  BY DEF EnumeratorInv, DrawNew
<1>2. /\ action' = action /\ path' = Append(path, 0) /\ phase' = phase /\ done' = done
      /\ level' = level + 1 /\ drawn' = Append(drawn, d)
      /\ hasNext' = Append(hasNext, 1 <= Upper(Request))
  BY DEF DrawNew
<1>3. /\ Len(path) \in Nat /\ Depth \in Nat /\ Len(path) = Depth + 1
      /\ level \in 1..Len(path)
      /\ Len(drawn) = level - 1 /\ drawn \in Seq(Nat) /\ path \in Seq(Nat)
      /\ Len(hasNext) = Len(path) /\ hasNext \in Seq(BOOLEAN)
      /\ action \in Actions /\ drawn \in DOMAIN action.tree
  BY <1>1, PathLength DEF EnumeratorTypeOK
<1>4. Line = drawn
  BY <1>1 DEF Line
<1>5. Upper(Request) \in Nat
  <2>1. Upper(Request) \in 0..(MaxChoices - 1)
    BY <1>1, <1>3, TreeFacts DEF Upper, Request
  <2>2. QED
    BY <2>1
<1>6. /\ d \in 0..Upper(Request)
      /\ Append(drawn, d) \in DOMAIN action.tree
      /\ Upper(Request) = UpperAt(action, drawn, level)
      /\ d = PickAt(action, path, drawn, level, 0)
  <2>1. 0 \in 0..Upper(Request)
    BY <1>5
  <2>2. QED
    BY <1>1, <2>1, ShufflePicks
<1>7. d \in Nat
  BY <1>5, <1>6
<1> HIDE DEF d
<1>8. /\ drawn' \in Seq(Nat) /\ Len(drawn') = level
      /\ \A i \in 1..(level - 1) : drawn'[i] = drawn[i]
      /\ drawn'[level] = d
  <2>1. /\ Append(drawn, d) \in Seq(Nat) /\ Len(Append(drawn, d)) = Len(drawn) + 1
        /\ \A i \in 1..Len(drawn) : Append(drawn, d)[i] = drawn[i]
        /\ Append(drawn, d)[Len(drawn) + 1] = d
    BY <1>3, <1>7, AppendProperties
  <2>2. Len(drawn) + 1 = level
    BY <1>3
  <2>3. QED
    BY <1>2, <1>3, <2>1, <2>2
<1>9. /\ path' \in Seq(Nat) /\ Len(path') = level + 1
      /\ \A i \in 1..level : path'[i] = path[i]
      /\ path'[level + 1] = 0
  <2>1. /\ Append(path, 0) \in Seq(Nat) /\ Len(Append(path, 0)) = Len(path) + 1
        /\ \A i \in 1..Len(path) : Append(path, 0)[i] = path[i]
        /\ Append(path, 0)[Len(path) + 1] = 0
    BY <1>3, AppendProperties
  <2>2. QED
    BY <1>1, <1>2, <2>1
<1>10. /\ hasNext' \in Seq(BOOLEAN) /\ Len(hasNext') = level + 1
       /\ \A i \in 1..level : hasNext'[i] = hasNext[i]
       /\ hasNext'[level + 1] = (1 <= Upper(Request))
  <2> DEFINE b == 1 <= Upper(Request)
  <2>1. b \in BOOLEAN
    OBVIOUS
  <2> HIDE DEF b
  <2>2. /\ Append(hasNext, b) \in Seq(BOOLEAN)
        /\ Len(Append(hasNext, b)) = Len(hasNext) + 1
        /\ \A i \in 1..Len(hasNext) : Append(hasNext, b)[i] = hasNext[i]
        /\ Append(hasNext, b)[Len(hasNext) + 1] = b
    BY <1>3, <2>1, AppendProperties
  <2>3. hasNext' = Append(hasNext, b)
    BY <1>2 DEF b
  <2>4. Len(hasNext) = level
    BY <1>1, <1>3
  <2>5. /\ hasNext' \in Seq(BOOLEAN) /\ Len(hasNext') = level + 1
        /\ \A i \in 1..level : hasNext'[i] = hasNext[i]
        /\ hasNext'[level + 1] = b
    BY <2>2, <2>3, <2>4
  <2>6. QED
    BY <2>5 DEF b
<1>11. EnumeratorTypeOK'
  BY <1>1, <1>2, <1>3, <1>6, <1>8, <1>9, <1>10 DEF EnumeratorTypeOK
<1>12. Depth' = level /\ Line' = drawn' /\ Depth = level - 1
  BY <1>1, <1>2, <1>3, <1>9 DEF Depth, Line
<1>13. ASSUME NEW k \in 1..level
       PROVE  NodeAt(drawn', k) = NodeAt(drawn, k) /\ SubSeq(path', 2, k) = SubSeq(path, 2, k)
  <2>1. k \in 1..(Len(drawn') + 1) /\ k <= Len(drawn) + 1
    BY <1>3, <1>8
  <2>2. \A i \in 1..(k - 1) : drawn'[i] = drawn[i]
    BY <1>3, <1>8
  <2>3. NodeAt(drawn', k) = NodeAt(drawn, k)
    BY <1>3, <1>8, <2>1, <2>2, SameNode
  <2>4. \A i \in 2..k : path'[i] = path[i] /\ path[i] \in Nat /\ path'[i] \in Nat
    BY <1>1, <1>3, <1>9, ElementOfSeq
  <2>5. k \in Int /\ 2 \in Int
    BY <1>3
  <2>6. /\ SubSeq(path, 2, k) \in Seq(Nat)
        /\ Len(SubSeq(path, 2, k)) = IF 2 <= k THEN k - 2 + 1 ELSE 0
        /\ \A i \in 1..(k - 2 + 1) : SubSeq(path, 2, k)[i] = path[2 + i - 1]
    BY <2>4, <2>5, SubSeqProperties
  <2>7. /\ SubSeq(path', 2, k) \in Seq(Nat)
        /\ Len(SubSeq(path', 2, k)) = IF 2 <= k THEN k - 2 + 1 ELSE 0
        /\ \A i \in 1..(k - 2 + 1) : SubSeq(path', 2, k)[i] = path'[2 + i - 1]
    BY <2>4, <2>5, SubSeqProperties
  <2>8. \A i \in 1..Len(SubSeq(path, 2, k)) : SubSeq(path', 2, k)[i] = SubSeq(path, 2, k)[i]
    <3>1. ASSUME NEW i \in 1..Len(SubSeq(path, 2, k))
          PROVE  i \in 1..(k - 2 + 1) /\ 2 + i - 1 \in 2..k
      BY <1>3, <2>6
    <3>2. QED
      BY <2>4, <2>6, <2>7, <3>1
  <2>9. QED
    BY <2>3, <2>6, <2>7, <2>8, SeqEqual
<1>14. ASSUME NEW k \in 1..level
       PROVE  /\ UpperAt(action, drawn', k) = UpperAt(action, drawn, k)
              /\ \A x : PickAt(action, path', drawn', k, x) = PickAt(action, path, drawn, k, x)
              /\ \A x, s : Leaves(action, path', drawn', k, x, s) <=> Leaves(action, path, drawn, k, x, s)
  BY <1>13, SameLevel
<1>15. LineInv'
  BY <1>1, <1>2, <1>3, <1>9 DEF LineInv
<1>16. PathInv'
  <2>1. SUFFICES ASSUME NEW k \in 1..level
                 PROVE  /\ NodeAt(drawn', k) \in DOMAIN action.tree
                        /\ action.tree[NodeAt(drawn', k)].kind # "leaf"
                        /\ path'[k + 1] <= UpperAt(action, drawn', k)
                        /\ drawn'[k] = PickAt(action, path', drawn', k, path'[k + 1])
                        /\ hasNext'[k + 1] <=> path'[k + 1] < UpperAt(action, drawn', k)
    BY <1>2, <1>12 DEF PathInv
  <2>2. CASE k = level
    <3>1. NodeAt(drawn', k) = drawn
      BY <1>3, <1>13, <2>2, OwnNode
    <3>2. path'[k + 1] = 0 /\ UpperAt(action, drawn', k) = Upper(Request)
      BY <1>6, <1>9, <1>14, <2>2
    <3>3. drawn'[k] = PickAt(action, path', drawn', k, path'[k + 1])
      BY <1>6, <1>8, <1>9, <1>14, <2>2
    <3>4. hasNext'[k + 1] <=> path'[k + 1] < UpperAt(action, drawn', k)
      <4>1. hasNext'[k + 1] <=> 1 <= Upper(Request)
        BY <1>10, <2>2
      <4>2. 1 <= Upper(Request) <=> 0 < Upper(Request)
        BY <1>5
      <4>3. QED
        BY <3>2, <4>1, <4>2
    <3>5. action.tree[drawn].kind # "leaf"
      BY <1>1 DEF Request
    <3>6. path'[k + 1] <= UpperAt(action, drawn', k)
      BY <1>5, <3>2
    <3>7. QED
      BY <1>3, <3>1, <3>3, <3>4, <3>5, <3>6
  <2>3. CASE k # level
    <3>1. k \in 1..Depth /\ k + 1 \in 1..level
      BY <1>3, <1>12, <2>3
    <3>2. /\ NodeAt(drawn, k) \in DOMAIN action.tree
          /\ action.tree[NodeAt(drawn, k)].kind # "leaf"
          /\ path[k + 1] <= UpperAt(action, drawn, k)
          /\ drawn[k] = PickAt(action, path, drawn, k, path[k + 1])
      BY <1>1, <1>4, <3>1 DEF PathInv, Taken
    <3>3. hasNext[k + 1] <=> path[k + 1] < UpperAt(action, drawn, k)
      BY <1>1, <1>4, <3>1, Zenon DEF PathInv, Taken
    <3>4. /\ path'[k + 1] = path[k + 1] /\ hasNext'[k + 1] = hasNext[k + 1]
          /\ drawn'[k] = drawn[k]
      BY <1>3, <1>8, <1>9, <1>10, <1>12, <3>1
    <3>5. /\ UpperAt(action, drawn', k) = UpperAt(action, drawn, k)
          /\ \A x : PickAt(action, path', drawn', k, x) = PickAt(action, path, drawn, k, x)
          /\ NodeAt(drawn', k) = NodeAt(drawn, k)
      BY <1>13, <1>14
    <3>6. QED
      BY <3>2, <3>3, <3>4, <3>5, Zenon
  <2>4. QED
    BY <2>2, <2>3
<1>17. Schedules' = Schedules
  BY <1>2 DEF Schedules, Upper
<1>18. EarlierDone'
  <2>1. SUFFICES ASSUME NEW k \in 1..level, NEW s \in Schedules, NEW x \in 0..(path'[k + 1] - 1),
                        Leaves(action, path', drawn', k, x, s)
                 PROVE  s \in ToSet(done)
    BY <1>2, <1>12, <1>17 DEF EarlierDone
  <2>2. k # level
    BY <1>9, <2>1
  <2>3. k \in 1..Depth /\ k + 1 \in 1..level
    BY <1>3, <1>12, <2>2
  <2>4. path'[k + 1] = path[k + 1] /\ Leaves(action, path, Line, k, x, s)
    BY <1>4, <1>9, <1>14, <2>1, <2>3
  <2>5. QED
    BY <1>1, <2>3, <2>4 DEF EarlierDone
<1>19. DoneIsEarlier'
  <2>1. SUFFICES ASSUME NEW n \in 1..Len(done)
                 PROVE  \E k \in 1..level : \E x \in 0..(path'[k + 1] - 1) :
                          Leaves(action, path', drawn', k, x, done[n])
    BY <1>2, <1>12 DEF DoneIsEarlier
  <2>2. PICK k \in 1..Depth : \E x \in 0..(path[k + 1] - 1) :
                          Leaves(action, path, drawn, k, x, done[n])
    BY <1>1, <1>4 DEF DoneIsEarlier
  <2>3. k \in 1..level /\ k + 1 \in 1..level
    BY <1>3, <1>12
  <2>4. path'[k + 1] = path[k + 1]
    BY <1>9, <2>3
  <2>5. QED
    BY <1>14, <2>2, <2>3, <2>4
<1>20. EachOnce' /\ (ToSet(done) \subseteq Schedules)'
  BY <1>1, <1>2, <1>17 DEF EachOnce
<1>21. QED
  BY <1>1, <1>2, <1>11, <1>15, <1>16, <1>18, <1>19, <1>20 DEF EnumeratorInv

\* The run that ends is a schedule, and none of those run before.
LEMMA EndRunPreserves ==
  ASSUME EnumeratorInv, EndRun
  PROVE  EnumeratorInv'
<1>1. /\ EnumeratorTypeOK /\ LineInv /\ PathInv /\ EarlierDone /\ DoneIsEarlier
      /\ EachOnce /\ ToSet(done) \subseteq Schedules
      /\ phase = "running" /\ phase # "over" /\ Request.kind = "leaf"
  BY DEF EnumeratorInv, EndRun
<1>2. /\ action' = action /\ path' = path /\ phase' = "between"
      /\ level' = level /\ drawn' = drawn /\ hasNext' = hasNext
      /\ done' = Append(done, drawn)
  BY DEF EndRun
<1>3. /\ Len(path) \in Nat /\ Depth \in Nat /\ Len(path) = Depth + 1
      /\ level \in 1..Len(path)
      /\ Len(drawn) = level - 1 /\ drawn \in Seq(Nat) /\ path \in Seq(Nat)
      /\ action \in Actions /\ drawn \in DOMAIN action.tree
      /\ done \in Seq(Seq(Nat)) /\ Len(done) \in Nat
  BY <1>1, PathLength, LenProperties DEF EnumeratorTypeOK
<1>4. level = Len(path)
  <2>1. ~(level < Len(path))
    BY <1>1, Rerun
  <2>2. QED
    BY <1>3, <2>1
<1>5. Line = drawn /\ Line' = drawn /\ Depth' = Depth /\ Len(drawn) = Depth
  BY <1>2, <1>3, <1>4 DEF Line, Depth
<1>6. /\ done' \in Seq(Seq(Nat)) /\ Len(done') = Len(done) + 1 /\ done' # <<>>
      /\ \A i \in 1..Len(done) : done'[i] = done[i]
      /\ done'[Len(done) + 1] = drawn
  <2> DEFINE S == Seq(Nat)
  <2>1. done \in Seq(S) /\ drawn \in S
    BY <1>3
  <2> HIDE DEF S
  <2>2. /\ Append(done, drawn) \in Seq(S) /\ Append(done, drawn) # <<>>
        /\ Len(Append(done, drawn)) = Len(done) + 1
        /\ \A i \in 1..Len(done) : Append(done, drawn)[i] = done[i]
        /\ Append(done, drawn)[Len(done) + 1] = drawn
    BY <2>1, AppendProperties
  <2>3. QED
    BY <1>2, <2>2, Zenon DEF S
<1>7. EnumeratorTypeOK'
  BY <1>1, <1>2, <1>3, <1>6 DEF EnumeratorTypeOK
<1>8. LineInv'
  BY <1>1, <1>2, <1>3, <1>4, <1>6 DEF LineInv, Request
<1>9. PathInv'
  BY <1>1, <1>2, <1>5 DEF PathInv, Taken
<1>10. Schedules' = Schedules
  BY <1>2 DEF Schedules, Upper
<1>11. ToSet(done') = ToSet(done) \cup {drawn}
  <2>1. DOMAIN done = 1..Len(done) /\ DOMAIN done' = 1..(Len(done) + 1)
    BY <1>3, <1>6, LenProperties
  <2>2. ToSet(done) = {done[i] : i \in 1..Len(done)}
    BY <2>1, Zenon DEF ToSet
  <2>3. ToSet(done') = {done'[i] : i \in 1..(Len(done) + 1)}
    BY <2>1, Zenon DEF ToSet
  <2>4. \A i : i \in 1..(Len(done) + 1) <=> i \in 1..Len(done) \/ i = Len(done) + 1
    BY <1>3
  <2>5. QED
    BY <1>6, <2>2, <2>3, <2>4, Zenon
<1>12. EarlierDone'
  BY <1>1, <1>2, <1>5, <1>10, <1>11 DEF EarlierDone
<1>13. DoneIsEarlier'
  <2>1. SUFFICES ASSUME NEW n \in 1..Len(done)
                 PROVE  \E k \in 1..Depth : \E c \in 0..(path[k + 1] - 1) :
                          Leaves(action, path, drawn, k, c, done[n])
    BY <1>2, <1>3, <1>5, <1>6 DEF DoneIsEarlier
  <2>2. QED
    BY <1>1, <1>5 DEF DoneIsEarlier
<1>14. ASSUME NEW k \in 1..Depth
       PROVE  /\ path[k + 1] \in 0..UpperAt(action, drawn, k)
              /\ drawn[k] = PickAt(action, path, drawn, k, path[k + 1])
              /\ UpperAt(action, drawn, k) \in Nat
              /\ drawn[k] \in 0..UpperAt(action, drawn, k)
              /\ \A c, d \in 0..UpperAt(action, drawn, k) :
                   PickAt(action, path, drawn, k, c) = PickAt(action, path, drawn, k, d) => c = d
  <2>1. /\ path[k + 1] <= UpperAt(action, drawn, k)
        /\ drawn[k] = PickAt(action, path, drawn, k, path[k + 1])
    BY <1>1, <1>4, <1>5 DEF PathInv, Taken
  <2>2. k + 1 \in 1..Len(path)
    BY <1>3
  <2>3. path[k + 1] \in Nat
    BY <1>3, <2>2, ElementOfSeq
  <2>4. /\ UpperAt(action, drawn, k) \in 0..(MaxChoices - 1)
        /\ \A c \in 0..UpperAt(action, drawn, k) :
               PickAt(action, path, drawn, k, c) \in 0..UpperAt(action, drawn, k)
        /\ \A c, d \in 0..UpperAt(action, drawn, k) :
               PickAt(action, path, drawn, k, c) = PickAt(action, path, drawn, k, d) => c = d
    BY <1>1, <1>5, PathPicks
  <2>5. UpperAt(action, drawn, k) \in Nat
    BY <2>4
  <2>6. path[k + 1] \in 0..UpperAt(action, drawn, k)
    BY <2>1, <2>3, <2>5
  <2>7. QED
    BY <2>1, <2>4, <2>5, <2>6
<1>15. drawn \in Schedules
  <2>1. action.tree[drawn].kind = "leaf"
    BY <1>1 DEF Request
  <2>2. ASSUME NEW k \in 1..Len(drawn)
        PROVE  /\ action.tree[NodeAt(drawn, k)].kind # "leaf"
               /\ drawn[k] <= UpperAt(action, drawn, k)
    <3>1. k \in 1..Depth
      BY <1>5
    <3>2. action.tree[NodeAt(drawn, k)].kind # "leaf"
      BY <1>1, <1>5, <3>1 DEF PathInv
    <3>3. drawn[k] <= UpperAt(action, drawn, k)
      BY <1>14, <3>1
    <3>4. QED
      BY <3>2, <3>3
  <2>3. QED
    BY <1>3, <2>1, <2>2 DEF Schedules, NodeAt, UpperAt, Upper
<1>16. (ToSet(done) \subseteq Schedules)'
  BY <1>1, <1>10, <1>11, <1>15
<1>17. ASSUME NEW n \in 1..Len(done)
       PROVE  done[n] # drawn
  <2>1. PICK k \in 1..Depth : \E c \in 0..(path[k + 1] - 1) :
                          Leaves(action, path, drawn, k, c, done[n])
    BY <1>1, <1>5 DEF DoneIsEarlier
  <2>2. PICK c \in 0..(path[k + 1] - 1) : Leaves(action, path, drawn, k, c, done[n])
    BY <2>1
  <2>3. done[n][k] = PickAt(action, path, drawn, k, c)
    BY <2>2 DEF Leaves
  <2>4. c \in 0..UpperAt(action, drawn, k) /\ c # path[k + 1]
    BY <1>14, <2>2
  <2>5. PickAt(action, path, drawn, k, c) # PickAt(action, path, drawn, k, path[k + 1])
    BY <1>14, <2>4
  <2>6. QED
    BY <1>14, <2>3, <2>5
<1>18. EachOnce'
  <2>1. DOMAIN done = 1..Len(done) /\ DOMAIN done' = 1..(Len(done) + 1)
    BY <1>3, <1>6, LenProperties
  <2>2. \A m, n \in 1..Len(done) : done[m] = done[n] => m = n
    BY <1>1, <2>1 DEF EachOnce, IsInjective
  <2>3. ASSUME NEW m \in 1..(Len(done) + 1), NEW n \in 1..(Len(done) + 1),
               done'[m] = done'[n]
        PROVE  m = n
    <3>1. CASE m \in 1..Len(done) /\ n \in 1..Len(done)
      BY <1>6, <2>2, <2>3, <3>1
    <3>2. CASE m \in 1..Len(done) /\ n = Len(done) + 1
      BY <1>6, <1>17, <2>3, <3>2
    <3>3. CASE m = Len(done) + 1 /\ n \in 1..Len(done)
      BY <1>6, <1>17, <2>3, <3>3
    <3>4. CASE m = Len(done) + 1 /\ n = Len(done) + 1
      BY <3>4
    <3>5. \A i \in 1..(Len(done) + 1) : i \in 1..Len(done) \/ i = Len(done) + 1
      BY <1>3
    <3>6. QED
      BY <3>1, <3>2, <3>3, <3>4, <3>5
  <2>4. QED
    BY <2>1, <2>3 DEF EachOnce, IsInjective
<1>19. QED
  BY <1>2, <1>7, <1>8, <1>9, <1>12, <1>13, <1>16, <1>18 DEF EnumeratorInv

\* LastLevel is the last level that has a sibling, or 0.
LEMMA LastLevelFacts ==
  ASSUME EnumeratorInv, phase = "between"
  PROVE  /\ LastLevel \in 0..Depth
         /\ LastLevel > 0 => hasNext[LastLevel + 1]
         /\ \A k \in (LastLevel + 1)..Depth : ~hasNext[k + 1]
<1> DEFINE siblings == {k \in 1..(level - 1) : hasNext[k + 1]}
           T == {0} \cup siblings
<1>1. Depth \in Nat /\ level - 1 = Depth
  BY BetweenFacts
<1>2. T \in SUBSET (0..Depth) /\ T # {}
  BY <1>1
<1>3. LastLevel = Max(T)
  BY DEF LastLevel
<1> HIDE DEF T
<1>4. Max(T) \in T /\ \A y \in T : Max(T) >= y
  BY <1>1, <1>2, MaxIsLargest
<1>5. Max(T) \in 0..Depth
  BY <1>2, <1>4
<1>6. Max(T) > 0 => hasNext[Max(T) + 1]
  BY <1>4, <1>5 DEF T
<1>7. ASSUME NEW k \in (Max(T) + 1)..Depth
      PROVE  ~hasNext[k + 1]
  <2>1. k \notin T
    BY <1>1, <1>4, <1>5
  <2>2. k \in 1..(level - 1)
    BY <1>1, <1>5
  <2>3. QED
    BY <2>1, <2>2 DEF T
<1>8. QED
  BY <1>3, <1>5, <1>6, <1>7

\* No level has a sibling: by Behind, with L = 0, every schedule has been run.
LEMMA OverPreserves ==
  ASSUME EnumeratorInv, Over
  PROVE  EnumeratorInv'
<1>1. /\ EnumeratorTypeOK /\ EachOnce /\ ToSet(done) \subseteq Schedules
      /\ phase = "between" /\ LastLevel = 0
      /\ action' = action /\ drawn' = drawn /\ done' = done
      /\ path' = <<>> /\ hasNext' = <<>> /\ level' = 0 /\ phase' = "over"
  BY DEF EnumeratorInv, Over
<1>2. 0 \in 0..Depth /\ \A k \in (0 + 1)..Depth : ~hasNext[k + 1]
  BY <1>1, LastLevelFacts
<1>3. ASSUME NEW s \in Schedules
      PROVE  s \in ToSet(done)
  <2>1. 0 <= Len(s) /\ \A i \in 1..0 : s[i] = drawn[i]
    BY <1>1, ScheduleFacts
  <2>2. QED
    BY <1>1, <1>2, <2>1, Behind
<1>4. Schedules' = Schedules
  BY <1>1 DEF Schedules, Upper
<1>5. EnumeratorTypeOK'
  <2>1. <<>> \in Seq(Nat) /\ <<>> \in Seq(BOOLEAN) /\ Len(path') = Len(hasNext')
    BY <1>1, EmptySeq
  <2>2. QED
    BY <1>1, <2>1 DEF EnumeratorTypeOK
<1>6. QED
  BY <1>1, <1>3, <1>4, <1>5 DEF EnumeratorInv, EachOnce

\* The saved choice advances at the last level that has a sibling: by Behind, all
\* that takes its present choice has been run, the line itself included.
LEMMA NextSchedulePreserves ==
  ASSUME EnumeratorInv, NextSchedule
  PROVE  EnumeratorInv'
<1> DEFINE L == LastLevel
           prefix == SubSeq(path, 1, L + 1)
<1>1. /\ EnumeratorTypeOK /\ LineInv /\ PathInv /\ EarlierDone /\ DoneIsEarlier
      /\ EachOnce /\ ToSet(done) \subseteq Schedules
      /\ phase = "between" /\ phase # "over"
  BY DEF EnumeratorInv, NextSchedule
<1>2. /\ action' = action /\ done' = done /\ phase' = "running"
      /\ level' = 1 /\ drawn' = <<>>
      /\ path' = [prefix EXCEPT ![L + 1] = prefix[L + 1] + 1]
      /\ hasNext' = SubSeq(hasNext, 1, L + 1)
  BY DEF NextSchedule
<1>3. /\ Len(path) \in Nat /\ Depth \in Nat /\ Len(path) = Depth + 1
      /\ level = Len(path) /\ drawn \in Seq(Nat) /\ Len(drawn) = Depth
      /\ Line = drawn
      /\ Len(done) \in 1..Len(done) /\ done[Len(done)] = drawn
      /\ done \in Seq(Seq(Nat))
  BY <1>1, BetweenFacts
<1>4. /\ path \in Seq(Nat) /\ hasNext \in Seq(BOOLEAN) /\ Len(hasNext) = Len(path)
      /\ action \in Actions
  BY <1>1 DEF EnumeratorTypeOK
<1>5. /\ L \in 1..Depth /\ hasNext[L + 1]
      /\ \A k \in (L + 1)..Depth : ~hasNext[k + 1]
  <2>1. L > 0
    BY DEF NextSchedule
  <2>2. /\ L \in 0..Depth /\ (L > 0 => hasNext[L + 1])
        /\ \A k \in (L + 1)..Depth : ~hasNext[k + 1]
    BY <1>1, LastLevelFacts
  <2>3. QED
    BY <1>3, <2>1, <2>2
<1> HIDE DEF L
<1>bounds. L \in Nat /\ 1 <= L /\ L <= Depth /\ Depth \in Nat /\ Len(path) = Depth + 1
  BY <1>3, <1>5
<1>6. /\ prefix \in Seq(Nat) /\ Len(prefix) = L + 1
      /\ \A i \in 1..(L + 1) : prefix[i] = path[i]
  <2>1. \A i \in 1..(L + 1) : path[i] \in Nat
    <3>1. \A i \in 1..(L + 1) : i \in 1..Len(path)
      BY <1>bounds
    <3>2. QED
      BY <1>4, <3>1, ElementOfSeq
  <2>2. 1 \in Int /\ L + 1 \in Int
    BY <1>3, <1>5
  <2>3. /\ prefix \in Seq(Nat) /\ Len(prefix) = IF 1 <= L + 1 THEN (L + 1) - 1 + 1 ELSE 0
        /\ \A i \in 1..((L + 1) - 1 + 1) : prefix[i] = path[1 + i - 1]
    BY <2>1, <2>2, SubSeqProperties
  <2>4. QED
    BY <1>3, <1>5, <2>3
<1>7. /\ hasNext' \in Seq(BOOLEAN) /\ Len(hasNext') = L + 1
      /\ \A i \in 1..(L + 1) : hasNext'[i] = hasNext[i]
  <2>1. \A i \in 1..(L + 1) : hasNext[i] \in BOOLEAN
    <3>1. \A i \in 1..(L + 1) : i \in 1..Len(path)
      BY <1>bounds
    <3>2. QED
      BY <1>4, <3>1, ElementOfSeq
  <2>2. 1 \in Int /\ L + 1 \in Int
    BY <1>3, <1>5
  <2>3. /\ hasNext' \in Seq(BOOLEAN) /\ Len(hasNext') = IF 1 <= L + 1 THEN (L + 1) - 1 + 1 ELSE 0
        /\ \A i \in 1..((L + 1) - 1 + 1) : hasNext'[i] = hasNext[1 + i - 1]
    BY <1>2, <2>1, <2>2, SubSeqProperties
  <2>4. QED
    BY <1>3, <1>5, <2>3
<1>8. path[L + 1] \in Nat
  <2>1. L + 1 \in 1..Len(path)
    BY <1>3, <1>5
  <2>2. QED
    BY <1>4, <2>1, ElementOfSeq
<1> HIDE DEF prefix
<1>9. /\ path' \in Seq(Nat) /\ Len(path') = L + 1
      /\ \A i \in 1..L : path'[i] = path[i]
      /\ path'[L + 1] = path[L + 1] + 1
  <2>1. L + 1 \in 1..Len(prefix) /\ prefix[L + 1] + 1 \in Nat
        /\ prefix[L + 1] = path[L + 1]
    BY <1>3, <1>5, <1>6, <1>8
  <2>2. /\ [prefix EXCEPT ![L + 1] = prefix[L + 1] + 1] \in Seq(Nat)
        /\ Len([prefix EXCEPT ![L + 1] = prefix[L + 1] + 1]) = Len(prefix)
        /\ \A j \in 1..Len(prefix) : [prefix EXCEPT ![L + 1] = prefix[L + 1] + 1][j]
              = IF j = L + 1 THEN prefix[L + 1] + 1 ELSE prefix[j]
    BY <1>6, <2>1, ExceptSeq
  <2>3. /\ path' \in Seq(Nat) /\ Len(path') = L + 1
        /\ \A j \in 1..(L + 1) : path'[j] = IF j = L + 1 THEN prefix[L + 1] + 1 ELSE prefix[j]
    BY <1>2, <1>6, <2>2
  <2>4. QED
    BY <1>3, <1>5, <1>6, <2>1, <2>3
<1>10. EnumeratorTypeOK'
  <2>1. <<>> \in Seq(Nat) /\ Len(<<>>) = 0 /\ <<>> \in DOMAIN action.tree
    BY <1>4, ActionsAssumption
  <2>2. 1 \in 1..(L + 1)
    BY <1>3, <1>5
  <2>3. QED
    BY <1>2, <1>3, <1>4, <1>7, <1>9, <2>1, <2>2 DEF EnumeratorTypeOK
<1>11. Depth' = L /\ Line' = drawn
  <2>1. Len(path') - 1 = L /\ 1 < Len(path')
    BY <1>bounds, <1>9
  <2>2. QED
    BY <1>2, <1>3, <2>1 DEF Depth, Line
<1>12. ASSUME NEW k \in 1..L
       PROVE  SubSeq(path', 2, k) = SubSeq(path, 2, k)
  <2>1. \A i \in 2..k : path'[i] = path[i] /\ path[i] \in Nat /\ path'[i] \in Nat
    <3>1. \A i \in 2..k : i \in 1..L /\ i \in 1..Len(path) /\ i \in 1..Len(path')
      BY <1>bounds, <1>9
    <3>2. QED
      BY <1>4, <1>9, <3>1, ElementOfSeq
  <2>2. k \in Int /\ 2 \in Int
    BY <1>3, <1>5
  <2>3. /\ SubSeq(path, 2, k) \in Seq(Nat)
        /\ Len(SubSeq(path, 2, k)) = IF 2 <= k THEN k - 2 + 1 ELSE 0
        /\ \A i \in 1..(k - 2 + 1) : SubSeq(path, 2, k)[i] = path[2 + i - 1]
    BY <2>1, <2>2, SubSeqProperties
  <2>4. /\ SubSeq(path', 2, k) \in Seq(Nat)
        /\ Len(SubSeq(path', 2, k)) = IF 2 <= k THEN k - 2 + 1 ELSE 0
        /\ \A i \in 1..(k - 2 + 1) : SubSeq(path', 2, k)[i] = path'[2 + i - 1]
    BY <2>1, <2>2, SubSeqProperties
  <2>5. \A i \in 1..Len(SubSeq(path, 2, k)) : SubSeq(path', 2, k)[i] = SubSeq(path, 2, k)[i]
    <3>1. ASSUME NEW i \in 1..Len(SubSeq(path, 2, k))
          PROVE  i \in 1..(k - 2 + 1) /\ 2 + i - 1 \in 2..k
      BY <1>3, <1>5, <2>3
    <3>2. QED
      BY <2>1, <2>3, <2>4, <3>1
  <2>6. QED
    BY <2>3, <2>4, <2>5, SeqEqual
<1>13. ASSUME NEW k \in 1..L
       PROVE  /\ \A x : PickAt(action, path', drawn, k, x) = PickAt(action, path, drawn, k, x)
              /\ \A x, s : Leaves(action, path', drawn, k, x, s) <=> Leaves(action, path, drawn, k, x, s)
  BY <1>12, Zenon DEF PickAt, Leaves
<1>14. LineInv'
  BY <1>2, <1>3, <1>5, <1>9, <1>11, EmptySeq DEF LineInv
<1>15. ASSUME NEW k \in 1..Depth
       PROVE  /\ NodeAt(drawn, k) \in DOMAIN action.tree
              /\ action.tree[NodeAt(drawn, k)].kind # "leaf"
              /\ path[k + 1] <= UpperAt(action, drawn, k)
              /\ drawn[k] = PickAt(action, path, drawn, k, path[k + 1])
              /\ UpperAt(action, drawn, k) \in Nat
  <2>1. UpperAt(action, drawn, k) \in 0..(MaxChoices - 1)
    BY <1>1, <1>3, PathPicks
  <2>2. QED
    BY <1>1, <1>3, <2>1 DEF PathInv, Taken
<1>16. ASSUME NEW k \in 1..Depth
       PROVE  hasNext[k + 1] <=> path[k + 1] < UpperAt(action, drawn, k)
  BY <1>1, <1>3, Zenon DEF PathInv, Taken
<1>17. PathInv'
  <2>1. SUFFICES ASSUME NEW k \in 1..L
                 PROVE  /\ NodeAt(drawn, k) \in DOMAIN action.tree
                        /\ action.tree[NodeAt(drawn, k)].kind # "leaf"
                        /\ path'[k + 1] <= UpperAt(action, drawn, k)
                        /\ k < L =>
                             /\ drawn[k] = PickAt(action, path', drawn, k, path'[k + 1])
                             /\ hasNext'[k + 1] <=> path'[k + 1] < UpperAt(action, drawn, k)
    <3>1. \A k \in 1..L : Taken(k)' <=> k < L
      BY <1>2, <1>3, <1>5, <1>9, <1>11 DEF Taken
    <3>2. QED
      BY <1>2, <1>11, <3>1 DEF PathInv
  <2>2. k \in 1..Depth
    BY <1>3, <1>5
  <2>3. /\ NodeAt(drawn, k) \in DOMAIN action.tree
        /\ action.tree[NodeAt(drawn, k)].kind # "leaf"
    BY <1>15, <2>2
  <2>4. ASSUME k < L
        PROVE  path'[k + 1] = path[k + 1] /\ hasNext'[k + 1] = hasNext[k + 1]
    <3>1. k + 1 \in 1..L /\ k + 1 \in 1..(L + 1)
      BY <1>bounds, <2>4
    <3>2. QED
      BY <1>7, <1>9, <3>1
  <2>5. path'[k + 1] <= UpperAt(action, drawn, k)
    <3>1. CASE k < L
      BY <1>15, <2>2, <2>4, <3>1
    <3>2. CASE k = L
      <4>1. path[L + 1] < UpperAt(action, drawn, L)
        BY <1>5, <1>16, Zenon
      <4>2. path'[L + 1] = path[L + 1] + 1 /\ UpperAt(action, drawn, L) \in Nat
        BY <1>9, <1>15, <2>2, <3>2
      <4>3. QED
        BY <1>8, <3>2, <4>1, <4>2
    <3>3. QED
      BY <1>3, <1>5, <3>1, <3>2
  <2>6. ASSUME k < L
        PROVE  /\ drawn[k] = PickAt(action, path', drawn, k, path'[k + 1])
               /\ hasNext'[k + 1] <=> path'[k + 1] < UpperAt(action, drawn, k)
    <3>1. path'[k + 1] = path[k + 1] /\ hasNext'[k + 1] = hasNext[k + 1]
      BY <2>4, <2>6
    <3>2. drawn[k] = PickAt(action, path, drawn, k, path[k + 1])
      BY <1>15, <2>2
    <3>3. hasNext[k + 1] <=> path[k + 1] < UpperAt(action, drawn, k)
      BY <1>16, <2>2, Zenon
    <3>4. \A x : PickAt(action, path', drawn, k, x) = PickAt(action, path, drawn, k, x)
      BY <1>13
    <3>5. QED
      BY <3>1, <3>2, <3>3, <3>4, Zenon
  <2>7. QED
    BY <2>3, <2>5, <2>6, Zenon
<1>18. Schedules' = Schedules
  BY <1>2 DEF Schedules, Upper
<1>19. EarlierDone'
  <2>1. SUFFICES ASSUME NEW k \in 1..L, NEW s \in Schedules, NEW c \in 0..(path'[k + 1] - 1),
                        Leaves(action, path', drawn, k, c, s)
                 PROVE  s \in ToSet(done)
    BY <1>2, <1>11, <1>18 DEF EarlierDone
  <2>2. Leaves(action, path, drawn, k, c, s) /\ k \in 1..Depth
    BY <1>3, <1>5, <1>13, <2>1
  <2>3. CASE c \in 0..(path[k + 1] - 1)
    BY <1>1, <1>3, <2>2, <2>3 DEF EarlierDone
  <2>4. CASE ~(c \in 0..(path[k + 1] - 1))
    <3>1. k = L /\ c = path[L + 1]
      <4>1. k = L
        <5>1. CASE k < L
          <6>1. path'[k + 1] = path[k + 1]
            BY <1>3, <1>5, <1>9, <5>1
          <6>2. QED
            BY <2>1, <2>4, <6>1
        <5>2. QED
          BY <1>3, <1>5, <5>1
      <4>2. c \in 0..path[L + 1] /\ ~(c \in 0..(path[L + 1] - 1))
        BY <1>8, <1>9, <2>1, <2>4, <4>1
      <4>3. QED
        BY <1>8, <4>1, <4>2
    <3>2. /\ L \in 1..Len(s) /\ NodeAt(s, L) = NodeAt(drawn, L) /\ s[L] = drawn[L]
      BY <1>5, <1>15, <2>2, <3>1 DEF Leaves
    <3>3. s \in Seq(Nat) /\ Len(s) \in Nat
      BY <1>1, ScheduleFacts
    <3>4. L \in 1..(Len(s) + 1) /\ L <= Len(drawn) + 1
      BY <1>3, <1>5, <3>2, <3>3
    <3>5. \A i \in 1..(L - 1) : s[i] = drawn[i]
      BY <1>3, <3>2, <3>3, <3>4, SameNode
    <3>6. L \in 0..Depth /\ L <= Len(s) /\ \A i \in 1..L : s[i] = drawn[i]
      BY <1>3, <1>5, <3>2, <3>3, <3>5
    <3>7. QED
      BY <1>1, <1>5, <3>6, Behind
  <2>5. QED
    BY <2>3, <2>4
<1>20. DoneIsEarlier'
  <2>1. SUFFICES ASSUME NEW n \in 1..Len(done)
                 PROVE  \E k \in 1..L : \E c \in 0..(path'[k + 1] - 1) :
                          Leaves(action, path', drawn, k, c, done[n])
    BY <1>2, <1>11 DEF DoneIsEarlier
  <2>2. SUFFICES \/ \E k \in 1..(L - 1) : \E c \in 0..(path[k + 1] - 1) :
                       Leaves(action, path, drawn, k, c, done[n])
                 \/ \E c \in 0..path[L + 1] : Leaves(action, path, drawn, L, c, done[n])
    <3>1. CASE \E k \in 1..(L - 1) : \E c \in 0..(path[k + 1] - 1) :
                       Leaves(action, path, drawn, k, c, done[n])
      <4>1. PICK k \in 1..(L - 1) : \E c \in 0..(path[k + 1] - 1) :
                       Leaves(action, path, drawn, k, c, done[n])
        BY <3>1
      <4>2. k \in 1..L /\ path'[k + 1] = path[k + 1]
        BY <1>3, <1>5, <1>9
      <4>3. QED
        BY <1>13, <4>1, <4>2
    <3>2. CASE \E c \in 0..path[L + 1] : Leaves(action, path, drawn, L, c, done[n])
      <4>1. L \in 1..L /\ path'[L + 1] - 1 = path[L + 1]
        BY <1>3, <1>5, <1>8, <1>9
      <4>2. QED
        BY <1>13, <3>2, <4>1
    <3>3. QED
      BY <2>2, <3>1, <3>2
  <2>3. ASSUME L <= Len(done[n]), \A i \in 1..L : done[n][i] = drawn[i]
        PROVE  Leaves(action, path, drawn, L, path[L + 1], done[n])
    <3>1. done[n] \in Seq(Nat) /\ Len(done[n]) \in Nat
      BY <1>3, ElementOfSeq, LenProperties
    <3>2. L \in 1..(Len(done[n]) + 1) /\ L <= Len(drawn) + 1 /\ L \in 1..Len(done[n])
      BY <1>3, <1>5, <2>3, <3>1
    <3>3. \A i \in 1..(L - 1) : done[n][i] = drawn[i]
      BY <1>3, <1>5, <2>3
    <3>4. NodeAt(done[n], L) = NodeAt(drawn, L)
      BY <1>3, <3>1, <3>2, <3>3, SameNode
    <3>5. done[n][L] = drawn[L] /\ drawn[L] = PickAt(action, path, drawn, L, path[L + 1])
      BY <1>3, <1>5, <1>15, <2>3
    <3>6. QED
      BY <3>2, <3>4, <3>5 DEF Leaves
  <2>4. path[L + 1] \in 0..path[L + 1]
    BY <1>8
  <2>5. CASE n = Len(done)
    BY <1>3, <1>5, <2>3, <2>4, <2>5
  <2>6. CASE n # Len(done)
    <3>0. PICK k \in 1..Depth : \E c \in 0..(path[k + 1] - 1) :
                       Leaves(action, path, drawn, k, c, done[n])
      BY <1>1, <1>3, <2>6 DEF DoneIsEarlier
    <3>1. PICK c \in 0..(path[k + 1] - 1) : Leaves(action, path, drawn, k, c, done[n])
      BY <3>0
    <3>2. CASE k < L
      BY <1>3, <1>5, <3>1, <3>2
    <3>3. CASE k = L
      BY <1>8, <3>1, <3>3
    <3>4. CASE k > L
      <4>1. k \in 1..Len(done[n]) /\ NodeAt(done[n], k) = NodeAt(drawn, k)
        BY <3>1 DEF Leaves
      <4>2. done[n] \in Seq(Nat) /\ Len(done[n]) \in Nat
        BY <1>3, ElementOfSeq, LenProperties
      <4>3. k \in 1..(Len(done[n]) + 1) /\ k <= Len(drawn) + 1
        BY <1>3, <4>1, <4>2
      <4>4. \A i \in 1..(k - 1) : done[n][i] = drawn[i]
        BY <1>3, <4>1, <4>2, <4>3, SameNode
      <4>5. L <= Len(done[n]) /\ \A i \in 1..L : done[n][i] = drawn[i]
        BY <1>bounds, <3>4, <4>1, <4>2, <4>4
      <4>6. QED
        BY <2>3, <2>4, <4>5
    <3>5. QED
      BY <1>3, <1>5, <3>2, <3>3, <3>4
  <2>7. QED
    BY <2>5, <2>6
<1>21. EachOnce' /\ (ToSet(done) \subseteq Schedules)'
  BY <1>1, <1>2, <1>18 DEF EachOnce
<1>22. phase' # "over"
  BY <1>2
<1>23. QED
  BY <1>10, <1>14, <1>17, <1>19, <1>20, <1>21, <1>22 DEF EnumeratorInv

----------------------------------------------------------------------------
\* The inductive invariant of the enumeration: every reachable state has it.
THEOREM EnumeratorInvariant == EnumeratorSpec => []EnumeratorInv
<1>1. EnumeratorInit => EnumeratorInv
  BY InitEstablishes
<1>2. EnumeratorInv /\ [EnumeratorNext]_enumeratorVars => EnumeratorInv'
  <2> SUFFICES ASSUME EnumeratorInv, [EnumeratorNext]_enumeratorVars
               PROVE  EnumeratorInv'
    OBVIOUS
  <2>1. CASE DrawSaved
    BY <2>1, DrawSavedPreserves
  <2>2. CASE DrawNew
    BY <2>2, DrawNewPreserves
  <2>3. CASE EndRun
    BY <2>3, EndRunPreserves
  <2>4. CASE NextSchedule
    BY <2>4, NextSchedulePreserves
  <2>5. CASE Over
    BY <2>5, OverPreserves
  <2>6. CASE UNCHANGED enumeratorVars
    BY <2>6 DEF enumeratorVars, EnumeratorInv, EnumeratorTypeOK, EachOnce, Schedules,
         Upper, LineInv, PathInv, EarlierDone, DoneIsEarlier, Line, Depth, Taken, Request
  <2>7. QED
    BY <2>1, <2>2, <2>3, <2>4, <2>5, <2>6 DEF EnumeratorNext
<1>3. QED
  BY <1>1, <1>2, PTL DEF EnumeratorSpec

\* The assertion of draw never fails: a saved choice is one that the decision of
\* this run offers.
THEOREM SavedChoicesFit == EnumeratorSpec => []SavedChoiceInBounds
<1>1. EnumeratorInv => SavedChoiceInBounds
  BY Rerun DEF SavedChoiceInBounds
<1>2. QED
  BY <1>1, EnumeratorInvariant, PTL

\* No schedule is run twice: the enumeration makes progress.
THEOREM EachScheduleOnce == EnumeratorSpec => []EachOnce
<1>1. EnumeratorInv => EachOnce
  BY DEF EnumeratorInv
<1>2. QED
  BY <1>1, EnumeratorInvariant, PTL

\* When next_schedule returns False, the runs have been the schedules of the
\* action, all of them and nothing else.
THEOREM EnumerationIsExact == EnumeratorSpec => []EverySchedule
<1>1. EnumeratorInv => EverySchedule
  BY DEF EnumeratorInv, EverySchedule
<1>2. QED
  BY <1>1, EnumeratorInvariant, PTL
==============================================================================

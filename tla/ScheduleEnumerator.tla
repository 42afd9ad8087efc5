------------------------- MODULE ScheduleEnumerator -------------------------
(***************************************************************************)
(* ScheduleEnumerator and EnumerativeScheduler of                          *)
(* wunderspec/exec/scheduler.py, driven as check_dfs drives them: run the  *)
(* action, which draws one choice per decision, then ask for the next      *)
(* schedule, until there is none.                                          *)
(*                                                                         *)
(* The action is its decision tree: tree maps the choices drawn so far to  *)
(* the decision that the action requests next.  It is a leaf when the run  *)
(* ends there, at the end of the action or at a violated assumption; runs  *)
(* of the same length need not follow equal choices.                       *)
(***************************************************************************)
EXTENDS Naturals, Sequences, FiniteSetsExt, SequencesExt

CONSTANTS
  Actions,        \* [tree, bound, seed] records: the action, the bound of the
                  \* scheduler and its shuffle seed (NoSeed for None)
  NoSeed,
  MaxDepth,       \* bound: decisions of a run
  MaxChoices,     \* bound: choices of a decision
  Permute(_, _, _, _)   \* permute(seed, tweak, d, x) of utils/permutation.py;
                        \* the tweak is the path that it is mixed from

VARIABLES
  action,         \* the member of Actions that is run
  path,           \* _path; path[k + 1] is Python's _path[k]
  hasNext,        \* _has_next, with the same shift
  level,          \* _current_level
  drawn,          \* the choices that draw returned in this run
  phase,          \* "running" the action, "between" two runs, "over"
  done            \* the choices of every run so far

enumeratorVars == <<action, path, hasNext, level, drawn, phase, done>>

Kinds == {"alternative", "split", "oneOf", "leaf"}

\* EnumerativeScheduler.decide draws from 0..UpperOf: the alternatives, the two
\* sides of a split, or as many members of a set as the bound allows.
UpperOf(bound, request) ==
  CASE request.kind = "alternative" -> request.size - 1
    [] request.kind = "split" -> 1
    [] request.kind = "oneOf" -> Min({bound, request.size}) - 1

\* A decision has a choice (decide raises a ValueError otherwise), and each
\* choice leads on in the tree.
ASSUME ActionsAssumption ==
  /\ {MaxDepth, MaxChoices} \subseteq Nat
  /\ \A a \in Actions :
       /\ <<>> \in DOMAIN a.tree
       /\ \A s \in DOMAIN a.tree :
            /\ s \in Seq(Nat) /\ Len(s) <= MaxDepth
            /\ a.tree[s].kind # "leaf" =>
                 /\ UpperOf(a.bound, a.tree[s]) \in 0..(MaxChoices - 1)
                 /\ \A c \in 0..UpperOf(a.bound, a.tree[s]) : Append(s, c) \in DOMAIN a.tree

\* "Keyed bijection on [0, d)", for the tweak of each node of a tree.
ASSUME PermuteAssumption ==
  \A seed \in {a.seed : a \in Actions} \ {NoSeed}, d \in 1..MaxChoices :
    \A tweak \in UNION {[1..n -> 0..(MaxChoices - 1)] : n \in 0..MaxDepth} :
      /\ {Permute(seed, tweak, d, x) : x \in 0..(d - 1)} = 0..(d - 1)
      /\ \A x, y \in 0..(d - 1) : Permute(seed, tweak, d, x) = Permute(seed, tweak, d, y) => x = y

----------------------------------------------------------------------------
Request == action.tree[drawn]

Upper(request) == UpperOf(action.bound, request)

\* Mutant of Shuffle: the tweak is mixed from the choice at this node too.
ShuffleOwnChoice(choice, upper) ==
  IF action.seed = NoSeed \/ upper = 0 THEN choice
  ELSE Permute(action.seed, Append(SubSeq(path, 2, level), choice), upper + 1, choice)

\* _apply_shuffle, at the node that the current level of the path identifies.
Shuffle(choice, upper) ==
  IF action.seed = NoSeed \/ upper = 0 THEN choice
  ELSE Permute(action.seed, SubSeq(path, 2, level), upper + 1, choice)

EnumeratorInit ==
  /\ action \in Actions
  /\ path = <<0>> /\ hasNext = <<FALSE>> /\ level = 1
  /\ drawn = <<>> /\ phase = "running"
  /\ done = <<>>

\* draw at a level that the path covers: take the saved choice again.
DrawSaved ==
  /\ phase = "running" /\ Request.kind # "leaf"
  /\ level < Len(path)
  /\ hasNext' = [hasNext EXCEPT ![level + 1] = path[level + 1] + 1 <= Upper(Request)]
  /\ level' = level + 1
  /\ drawn' = Append(drawn, Shuffle(path[level + 1], Upper(Request)))
  /\ UNCHANGED <<action, path, phase, done>>

\* Mutant of DrawNew: looks at the first choice instead of the next one.
DrawNewHasNext ==
  /\ phase = "running" /\ Request.kind # "leaf"
  /\ level = Len(path)
  /\ path' = Append(path, 0)
  /\ hasNext' = Append(hasNext, 0 <= Upper(Request))
  /\ level' = level + 1
  /\ drawn' = Append(drawn, Shuffle(0, Upper(Request)))
  /\ UNCHANGED <<action, phase, done>>

\* draw at the end of the path: extend it with the first choice.
DrawNew ==
  /\ phase = "running" /\ Request.kind # "leaf"
  /\ level = Len(path)
  /\ path' = Append(path, 0)
  /\ hasNext' = Append(hasNext, 1 <= Upper(Request))
  /\ level' = level + 1
  /\ drawn' = Append(drawn, Shuffle(0, Upper(Request)))
  /\ UNCHANGED <<action, phase, done>>

\* The action has run to its end, or to a violated assumption.
EndRun ==
  /\ phase = "running" /\ Request.kind = "leaf"
  /\ phase' = "between"
  /\ done' = Append(done, drawn)
  /\ UNCHANGED <<action, path, hasNext, level, drawn>>

\* Mutant of LastLevel: backtracks to the first level that has a sibling.
FirstLevel ==
  LET siblings == {k \in 1..(level - 1) : hasNext[k + 1]} IN
  IF siblings = {} THEN 0 ELSE Min(siblings)

\* The last level of this run that has a sibling; 0 if none has.
LastLevel == Max({0} \cup {k \in 1..(level - 1) : hasNext[k + 1]})

\* next_schedule returns True: the next run repeats the choices up to the last
\* level and takes the next one there.
NextSchedule ==
  /\ phase = "between" /\ LastLevel > 0
  /\ path' = [SubSeq(path, 1, LastLevel + 1) EXCEPT ![LastLevel + 1] = @ + 1]
  /\ hasNext' = SubSeq(hasNext, 1, LastLevel + 1)
  /\ level' = 1
  /\ drawn' = <<>>
  /\ phase' = "running"
  /\ UNCHANGED <<action, done>>

\* Mutant of Over: an action that draws nothing is not over.
OverAfterChoice ==
  /\ phase = "between" /\ LastLevel = 0 /\ Len(path) > 1
  /\ path' = <<>> /\ hasNext' = <<>> /\ level' = 0
  /\ phase' = "over"
  /\ UNCHANGED <<action, drawn, done>>

\* next_schedule returns False.
Over ==
  /\ phase = "between" /\ LastLevel = 0
  /\ path' = <<>> /\ hasNext' = <<>> /\ level' = 0
  /\ phase' = "over"
  /\ UNCHANGED <<action, drawn, done>>

EnumeratorNext == DrawSaved \/ DrawNew \/ EndRun \/ NextSchedule \/ Over

EnumeratorSpec == EnumeratorInit /\ [][EnumeratorNext]_enumeratorVars

----------------------------------------------------------------------------
\* The schedules of the action: paths of the tree from the root to a leaf
\* whose choices are within bounds.
Schedules ==
  {s \in DOMAIN action.tree :
     /\ action.tree[s].kind = "leaf"
     /\ \A k \in 1..Len(s) : LET node == action.tree[SubSeq(s, 1, k - 1)] IN
                               node.kind # "leaf" /\ s[k] <= Upper(node)}

\* The assertion in draw: a saved choice is one of this run's choices.
SavedChoiceInBounds ==
  phase = "running" /\ Request.kind # "leaf" /\ level < Len(path) =>
    path[level + 1] <= Upper(Request)

\* The search makes progress: no schedule is run twice.
EachOnce == IsInjective(done)

\* When next_schedule returns False, every schedule has been run.
EverySchedule == phase = "over" => ToSet(done) = Schedules

\* The enumeration ends.
EnumerationEnds == <>(phase = "over")
=============================================================================

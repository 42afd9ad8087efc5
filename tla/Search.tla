------------------------------- MODULE Search -------------------------------
(***************************************************************************)
(* What `wunderspec check` promises: an exhaustive search.  In whatever    *)
(* order, it visits states that an initial schedule or a schedule of a     *)
(* visited state produces, reports each visited state that violates the    *)
(* invariant, and stops when it has reported max_findings of them, when    *)
(* nothing is left to visit, when an evaluation fails or when time is up.  *)
(* A violating state is a leaf: the search does not go on from it.         *)
(***************************************************************************)
EXTENDS Naturals, Sequences

CONSTANTS
  States,     \* states of the specification that is checked
  None,       \* no state: a schedule that violates an assumption; no limit
  Error,      \* no state: a schedule that raises an EvaluationError
  Inputs      \* the model-checker inputs to consider

Outcome == States \cup {None, Error}

\* ModelCheckerInput: init and step list what each schedule of the init and
\* the step action produces (a deterministic action has one schedule); bad and
\* undefined are the states where the invariant is false or raises an error.
InputTypes ==
  [init : Seq(Outcome), step : [States -> Seq(Outcome)],
   bad : SUBSET States, undefined : SUBSET States,
   maxSteps : Nat \cup {None}, maxFindings : Nat \ {0}]

VARIABLES
  input,      \* the input of check_dfs
  visited,    \* states whose fingerprint was recorded
  reported,   \* the violating states, in the order they were found
  result      \* "running", "found" (max_findings were), "exhausted",
              \* "error" or "timeout"

vars == <<input, visited, reported, result>>

Elements(seq) == {seq[i] : i \in 1..Len(seq)}

\* States that are one schedule away from what has been visited.
Produced ==
  (Elements(input.init)
     \cup UNION {Elements(input.step[v]) : v \in visited \ input.bad})
  \cap States

Init ==
  /\ input \in Inputs
  /\ visited = {}
  /\ reported = <<>>
  /\ result = "running"

Visit(s) ==
  /\ result = "running"
  /\ s \in Produced \ visited
  /\ visited' = visited \cup {s}
  /\ reported' = IF s \in input.bad THEN Append(reported, s) ELSE reported
  /\ result' = CASE s \in input.undefined -> "error"
                 [] s \in input.bad /\ Len(reported') >= input.maxFindings -> "found"
                 [] OTHER -> "running"
  /\ UNCHANGED input

\* A search with a cutoff may leave something out.
Finish ==
  /\ result = "running"
  /\ Produced \subseteq visited \/ input.maxSteps # None
  /\ result' = "exhausted"
  /\ UNCHANGED <<input, visited, reported>>

GiveUp ==
  /\ result = "running"
  /\ result' \in {"error", "timeout"}
  /\ UNCHANGED <<input, visited, reported>>

Next == Finish \/ GiveUp \/ \E s \in States : Visit(s)

Spec == Init /\ [][Next]_vars
=============================================================================

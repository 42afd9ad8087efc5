------------------------------ MODULE CheckDfs ------------------------------
(***************************************************************************)
(* The depth-first search of wunderspec/model_checker.py, check_dfs.       *)
(* trace is the path that is being explored, and schedulers has one        *)
(* scheduler more: the one of the init action is at the bottom.  A         *)
(* scheduler is represented by the number of schedules it has run so far   *)
(* (0 for None, one that is yet to be created), which is what module       *)
(* ScheduleEnumerator shows of the real one: it runs each schedule of a    *)
(* deterministic action once.  Fingerprints are taken for the states they  *)
(* stand for, as with exact=True.  The callbacks are those of api.py, whose*)
(* on_progress stops the search with an exception when time is up.         *)
(***************************************************************************)
EXTENDS Naturals, Sequences

CONSTANTS States, None, Error, Inputs

VARIABLES
  input,          \* ModelCheckerInput
  trace,          \* the current trace
  traceSchedule,  \* the schedule that produced each state of trace
  schedulers,     \* the schedules run at each level
  visited,        \* visited_fingerprints
  produced,       \* produced_states_cnt
  found,          \* found_traces with their found_schedules
  result          \* "running", or why check_dfs returned

vars == <<input, trace, traceSchedule, schedulers, visited, produced, found, result>>
stacks == <<trace, traceSchedule, schedulers>>

\* The state a finding ends in.
Violation(f) == f.trace[Len(f.trace)]
violations == [k \in 1..Len(found) |-> Violation(found[k])]

S == INSTANCE Search WITH reported <- violations

ASSUME OutcomeAssumption == {None, Error} \cap States = {}
ASSUME InputsAssumption ==
  /\ Inputs \subseteq S!InputTypes
  /\ \A i \in Inputs :
       /\ i.init # <<>>
       /\ \A s \in States : i.step[s] # <<>>
       /\ i.bad \cap i.undefined = {}

Results == {"running", "found", "exhausted", "error", "timeout"}

TypeOK ==
  /\ input \in Inputs
  /\ trace \in Seq(States)
  /\ traceSchedule \in Seq(Nat)
  /\ schedulers \in Seq(Nat)
  /\ visited \subseteq States
  /\ produced \in Nat
  /\ found \in Seq([trace : Seq(States), schedule : Seq(Nat)])
  /\ result \in Results
  /\ Len(traceSchedule) = Len(trace)
  /\ Len(schedulers) = Len(trace) + 1

----------------------------------------------------------------------------
\* What the schedules of the action produce that leaves level k of the trace.
Outcomes(k) == IF k = 1 THEN input.init ELSE input.step[trace[k - 1]]

Top == Len(schedulers)

\* The scheduler's next_schedule() returns False.
Exhausted == schedulers[Top] >= Len(Outcomes(Top))

\* Mutant of AtCutoff: counts the states of the trace, and one too many.
AtCutoffLate ==
  input.maxSteps # None /\ Len(trace) > 0 /\ Len(trace) > input.maxSteps + 1

AtCutoff ==
  input.maxSteps # None /\ Len(trace) > 0 /\ Len(trace) > input.maxSteps

Pop(seq) == SubSeq(seq, 1, Len(seq) - 1)

Init ==
  /\ input \in Inputs
  /\ trace = <<>> /\ traceSchedule = <<>> /\ schedulers = <<0>>
  /\ visited = {}
  /\ produced = 0
  /\ found = <<>>
  /\ result = "running"

PopAll ==
  /\ trace' = Pop(trace)
  /\ traceSchedule' = Pop(traceSchedule)
  /\ schedulers' = Pop(schedulers)

\* The depth limit is reached: leave the state without running its steps.
CutOff ==
  /\ result = "running" /\ AtCutoff
  /\ PopAll
  /\ UNCHANGED <<input, visited, produced, found, result>>

\* No more schedules at this level.
Backtrack ==
  /\ result = "running" /\ ~AtCutoff
  /\ Exhausted /\ trace # <<>>
  /\ PopAll
  /\ UNCHANGED <<input, visited, produced, found, result>>

Finish ==
  /\ result = "running" /\ ~AtCutoff
  /\ Exhausted /\ trace = <<>>
  /\ result' = "exhausted"
  /\ UNCHANGED <<input, stacks, visited, produced, found>>

\* Run the next schedule of the top scheduler; it produces outcome o.
RunSchedule(i, o) ==
  /\ result = "running" /\ ~AtCutoff
  /\ ~Exhausted
  /\ i = schedulers[Top] + 1
  /\ o = Outcomes(Top)[i]

Advanced == [schedulers EXCEPT ![Top] = @ + 1]

\* action_execute raises an EvaluationError, which check_dfs passes on.
ActionError ==
  /\ \E i \in 1..Len(Outcomes(Top)) : RunSchedule(i, Error)
  /\ schedulers' = Advanced
  /\ result' = "error"
  /\ UNCHANGED <<input, trace, traceSchedule, visited, produced, found>>

\* on_progress sees the deadline passed: the state it was told about has been
\* produced, and is neither looked up nor recorded.
TimeOut ==
  /\ \E i \in 1..Len(Outcomes(Top)), o \in States : RunSchedule(i, o)
  /\ schedulers' = Advanced
  /\ produced' = produced + 1
  /\ result' = "timeout"
  /\ UNCHANGED <<input, trace, traceSchedule, visited, found>>

\* Mutant of Infeasible: the schedule is run again.
InfeasibleRetries ==
  /\ \E i \in 1..Len(Outcomes(Top)) : RunSchedule(i, None)
  /\ UNCHANGED vars

\* action_execute returns None.
Infeasible ==
  /\ \E i \in 1..Len(Outcomes(Top)) : RunSchedule(i, None)
  /\ schedulers' = Advanced
  /\ UNCHANGED <<input, trace, traceSchedule, visited, produced, found, result>>

\* Mutant of Revisit: leaves the state at hand, as if it was exhausted.
RevisitBacktracks ==
  /\ \E i \in 1..Len(Outcomes(Top)), o \in visited : RunSchedule(i, o)
  /\ trace # <<>>
  /\ PopAll
  /\ produced' = produced + 1
  /\ UNCHANGED <<input, visited, found, result>>

Revisit ==
  /\ \E i \in 1..Len(Outcomes(Top)), o \in visited : RunSchedule(i, o)
  /\ schedulers' = Advanced
  /\ produced' = produced + 1
  /\ UNCHANGED <<input, trace, traceSchedule, visited, found, result>>

\* A new state that satisfies the invariant becomes the top of the trace, and
\* so does one where the invariant cannot be evaluated.
Visit ==
  \E i \in 1..Len(Outcomes(Top)), o \in States \ (visited \cup input.bad) :
    /\ RunSchedule(i, o)
    /\ trace' = Append(trace, o)
    /\ traceSchedule' = Append(traceSchedule, i)
    /\ schedulers' = Append(Advanced, 0)
    /\ visited' = visited \cup {o}
    /\ produced' = produced + 1
    /\ result' = IF o \in input.undefined THEN "error" ELSE "running"
    /\ UNCHANGED <<input, found>>

\* Mutant of Report: the finding gets the decisions of the schedule before.
ReportStaleSchedule ==
  \E i \in 1..Len(Outcomes(Top)), o \in input.bad \ visited :
    /\ RunSchedule(i, o)
    /\ schedulers' = Advanced
    /\ visited' = visited \cup {o}
    /\ produced' = produced + 1
    /\ found' = Append(found, [trace |-> Append(trace, o),
                               schedule |-> Append(traceSchedule, i - 1)])
    /\ result' = IF Len(found') >= input.maxFindings THEN "found" ELSE "running"
    /\ UNCHANGED <<input, trace, traceSchedule>>

\* Mutant of Report: the violating state is not recorded as visited.
ReportUnrecorded ==
  \E i \in 1..Len(Outcomes(Top)), o \in input.bad \ visited :
    /\ RunSchedule(i, o)
    /\ schedulers' = Advanced
    /\ produced' = produced + 1
    /\ found' = Append(found, [trace |-> Append(trace, o),
                               schedule |-> Append(traceSchedule, i)])
    /\ result' = IF Len(found') >= input.maxFindings THEN "found" ELSE "running"
    /\ UNCHANGED <<input, trace, traceSchedule, visited>>

\* Mutant of Report: the search goes on from the violating state.
ReportDescends ==
  \E i \in 1..Len(Outcomes(Top)), o \in input.bad \ visited :
    /\ RunSchedule(i, o)
    /\ trace' = Append(trace, o)
    /\ traceSchedule' = Append(traceSchedule, i)
    /\ schedulers' = Append(Advanced, 0)
    /\ visited' = visited \cup {o}
    /\ produced' = produced + 1
    /\ found' = Append(found, [trace |-> trace', schedule |-> traceSchedule'])
    /\ result' = IF Len(found') >= input.maxFindings THEN "found" ELSE "running"
    /\ UNCHANGED input

\* A new state that violates it is recorded and left at once.
Report ==
  \E i \in 1..Len(Outcomes(Top)), o \in input.bad \ visited :
    /\ RunSchedule(i, o)
    /\ schedulers' = Advanced
    /\ visited' = visited \cup {o}
    /\ produced' = produced + 1
    /\ found' = Append(found, [trace |-> Append(trace, o),
                               schedule |-> Append(traceSchedule, i)])
    /\ result' = IF Len(found') >= input.maxFindings THEN "found" ELSE "running"
    /\ UNCHANGED <<input, trace, traceSchedule>>

Next ==
  \/ CutOff \/ Backtrack \/ Finish
  \/ ActionError \/ TimeOut \/ Infeasible \/ Revisit \/ Visit \/ Report

Spec == Init /\ [][Next]_vars

\* check_dfs is one loop in one thread.
FairSpec == Spec /\ WF_vars(Next)

----------------------------------------------------------------------------
\* Schedule sch replays trace t: from the init action, each choice leads to
\* the next state.
Replays(t, sch) ==
  /\ Len(sch) = Len(t)
  /\ \A k \in 1..Len(t) :
       LET outcomes == IF k = 1 THEN input.init ELSE input.step[t[k - 1]] IN
       sch[k] \in 1..Len(outcomes) /\ outcomes[sch[k]] = t[k]

\* Every counterexample is one: its schedule replays its trace, the last state
\* violates the invariant and no earlier state does.
FindingsReplay ==
  \A n \in 1..Len(found) :
    LET f == found[n] IN
    /\ f.trace # <<>>
    /\ Replays(f.trace, f.schedule)
    /\ \A k \in 1..Len(f.trace) : f.trace[k] \in input.bad <=> k = Len(f.trace)

\* state-machine.md: "collects up to N distinct counterexamples".
FindingsDistinct ==
  /\ Len(found) <= input.maxFindings
  /\ \A m, n \in 1..Len(found) : violations[m] = violations[n] => m = n

\* A search without a cutoff that found fewer than max_findings has visited
\* all there is: what it visited contains the initial states and is closed
\* under steps, and every violation in it is reported.
ExhaustedIsComplete ==
  result = "exhausted" /\ input.maxSteps = None =>
    /\ S!Produced \subseteq visited
    /\ visited \cap input.bad = {violations[n] : n \in 1..Len(found)}

\* --max-steps is a "cutoff in step transitions from init".
FindingsWithinCutoff ==
  input.maxSteps # None =>
    \A n \in 1..Len(found) : Len(found[n].trace) <= input.maxSteps + 1

\* check_dfs implements the exhaustive search.
SearchSpec == S!Spec

\* The loop ends.
Terminates == <>(result # "running")

----------------------------------------------------------------------------
\* States that k transitions from init lead to, through no violating state.
Within[k \in Nat] ==
  IF k = 0 THEN S!Elements(input.init) \cap States
  ELSE Within[k - 1] \cup (UNION {S!Elements(input.step[s]) :
                                    s \in Within[k - 1] \ input.bad} \cap States)

\* from-tla-llms.md calls `check --max-steps N` a "bounded exhaustive model
\* check": no violation that N transitions reach is missed.
CutoffIsComplete ==
  result = "exhausted" /\ input.maxSteps # None =>
    Within[input.maxSteps] \subseteq visited
=============================================================================

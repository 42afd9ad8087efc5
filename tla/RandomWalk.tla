----------------------------- MODULE RandomWalk -----------------------------
(***************************************************************************)
(* `wunderspec run` and `wunderspec replay`: random traces of a machine    *)
(* (random_traces and random_traces_replay of wunderspec/random_walk.py)   *)
(* and what _run_impl and _replay_impl of wunderspec/api.py do with them.  *)
(*                                                                         *)
(* A machine is the outcome of its actions: init, and step in each state.  *)
(* An action either makes no decision or one, among alternatives or the    *)
(* elements of a set, and ends in a state, in a violated assumption        *)
(* (Blocked) or in an evaluation error (Failure).                          *)
(*                                                                         *)
(* The generator of a trace is a tape of random numbers that is written    *)
(* when it is first read; replaying a trace seed rewinds the tape.         *)
(***************************************************************************)
EXTENDS Integers, Sequences, SequencesExt

CONSTANTS
  Machines,          \* [init, step]: actions [kind, to]
  Bad,               \* states that violate the invariant
  MaxSteps, MaxRetriesPerStep, MaxSamples, MaxFindings,
  CacheSize,         \* _RUN_INVARIANT_CACHE_SIZE
  GivenSchedules     \* schedules to replay: sequences of steps of entries

Blocked == -1
Failure == -2
None == -3
Raw == {0, 1}

\* The states of a machine are those in which step is defined.
StatesOf(m) == DOMAIN m.step
ActionsAmong(states) == [kind : {"plain", "choice", "oneOf"}, to : [Raw -> states \cup {Blocked, Failure}]]
ScheduleEntries == {"choice", "sample"} \X Raw

ASSUME MachinesAssumption ==
  \A m \in Machines :
    /\ StatesOf(m) \cap {Blocked, Failure, None} = {}
    /\ m.init \in ActionsAmong(StatesOf(m))
    /\ m.step \in [StatesOf(m) -> ActionsAmong(StatesOf(m))]
ASSUME SettingsAssumption ==
  /\ MaxSteps \in Nat /\ MaxRetriesPerStep \in Nat /\ CacheSize \in Nat
  /\ GivenSchedules \subseteq Seq(Seq(ScheduleEntries))

VARIABLES
  machine,
  phase,       \* "walking", "checking", "over" or "failed"; "loading" or "replayed"
  tape,        \* the random numbers of the trace so far
  trace,       \* the states of the trace
  retries,     \* attempts left
  samples,     \* examples_count
  found,       \* the findings: [tape, at, prefix]
  best,        \* the longest trace: [tape, trace]
  cache,       \* inv_cache: <<state, matches>>, the oldest first
  scheduled    \* the schedule that is replayed, in a tuple

walkVars == <<machine, phase, tape, trace, retries, samples, found, best, cache, scheduled>>

Action(m, states) == IF states = <<>> THEN m.init ELSE m.step[Last(states)]
Draws(action) == action.kind # "plain"

\* The retry budget is that of the trace, whichever step needs it.
Budget(steps, retriesPerStep) == retriesPerStep * steps
Walking(states, left, steps) == Len(states) < steps /\ left > 0

\* The command is `run`, or `replay` of a schedule.
WalkInit ==
  /\ machine \in Machines
  /\ phase \in {"walking", "loading"}
  /\ tape = <<>> /\ trace = <<>> /\ retries = Budget(MaxSteps, MaxRetriesPerStep)
  /\ samples = 0 /\ found = <<>> /\ best = [tape |-> <<>>, trace |-> <<>>] /\ cache = <<>>
  /\ scheduled = <<>>

----------------------------------------------------------------------------
\* An attempt of the next action, with the number it draws if it draws one.
Attempt ==
  /\ phase = "walking" /\ Walking(trace, retries, MaxSteps)
  /\ LET action == Action(machine, trace)
     IN \E raw \in IF Draws(action) THEN Raw ELSE {None} :
          LET result == IF Draws(action) THEN action.to[raw] ELSE action.to[0]
          IN /\ tape' = IF Draws(action) THEN Append(tape, raw) ELSE tape
             /\ trace' = IF result \in {Blocked, Failure} THEN trace ELSE Append(trace, result)
             /\ retries' = IF result = Blocked THEN retries - 1 ELSE retries
             /\ phase' = IF result = Failure THEN "failed" ELSE phase
  /\ UNCHANGED <<machine, samples, found, best, cache, scheduled>>

EndTrace ==
  /\ phase = "walking" /\ ~Walking(trace, retries, MaxSteps)
  /\ phase' = "checking"
  /\ UNCHANGED <<machine, tape, trace, retries, samples, found, best, cache, scheduled>>

\* The invariant is evaluated on each state in turn, or looked up, up to the
\* first that violates it.
Evaluated(c, s) ==
  LET at == SelectInSeq(c, LAMBDA e : e[1] = s)
      entry == IF at = 0 THEN <<s, s \in Bad>> ELSE c[at]
      kept == Append(IF at = 0 THEN c ELSE RemoveAt(c, at), entry)
  IN [cache |-> IF Len(kept) > CacheSize THEN Tail(kept) ELSE kept, matches |-> entry[2]]
EvaluatedNext(r, s, i) ==
  LET e == Evaluated(r.cache, s)
  IN IF r.at # 0 THEN r ELSE [cache |-> e.cache, at |-> IF e.matches THEN i ELSE 0]
EvaluatedUpTo(c, states) ==
  LET upTo[n \in 0..Len(states)] ==
        IF n = 0 THEN [cache |-> c, at |-> 0] ELSE EvaluatedNext(upTo[n - 1], states[n], n)
  IN upTo
Checked(c, states) == EvaluatedUpTo(c, states)[Len(states)]

\* One sample: the best trace, the finding, and whether to go on.
Check ==
  /\ phase = "checking"
  /\ LET r == Checked(cache, trace)
     IN /\ cache' = r.cache
        /\ found' = IF r.at = 0 THEN found
                    ELSE Append(found, [tape |-> tape, at |-> r.at,
                                        prefix |-> SubSeq(trace, 1, r.at)])
  /\ best' = IF Len(trace) > Len(best.trace) THEN [tape |-> tape, trace |-> trace] ELSE best
  /\ samples' = samples + 1
  /\ phase' = IF Len(found') >= MaxFindings \/ samples' >= MaxSamples THEN "over" ELSE "walking"
  /\ tape' = <<>> /\ trace' = <<>> /\ retries' = Budget(MaxSteps, MaxRetriesPerStep)
  /\ UNCHANGED <<machine, scheduled>>
\* The deadline is looked at when a trace is complete: it does not count.
TimeOut ==
  /\ phase = "checking"
  /\ phase' = "over"
  /\ UNCHANGED <<machine, tape, trace, retries, samples, found, best, cache, scheduled>>

\* `replay --from-schedule`: what it does with the schedule is ScheduleReplay and Written.
Replay ==
  /\ phase = "loading"
  /\ \E schedule \in GivenSchedules : scheduled' = <<schedule>>
  /\ phase' = "replayed"
  /\ UNCHANGED <<machine, tape, trace, retries, samples, found, best, cache>>

WalkNext == Attempt \/ EndTrace \/ Check \/ TimeOut \/ Replay
WalkSpec == WalkInit /\ [][WalkNext]_walkVars

----------------------------------------------------------------------------
(***************************************************************************)
(* Replay.  The decisions of a replay are those of a rewound tape,         *)
(* <<"tape", number>>, or the entries of a schedule, <<"choice", index>>   *)
(* and <<"sample", value>>.                                                *)
(***************************************************************************)

\* ScriptedScheduler.decide; None when the entry does not fit the request.  A
\* rewound tape has a number for whatever is asked.
Decision(action, entry) ==
  IF entry[1] \in {"tape", IF action.kind = "oneOf" THEN "sample" ELSE "choice"}
  THEN entry[2] ELSE None

\* A replay: how many of the entries it has taken, which are the decisions that are
\* recorded, and where each successful step ended (schedule_step_bounds).
ReplayStart(steps, retriesPerStep) ==
  [trace |-> <<>>, left |-> Budget(steps, retriesPerStep), taken |-> 0, bounds |-> <<>>, status |-> "ok"]
\* Mutant of AfterResult: a step ends before the decisions that it took itself.
AfterResultEarlyBound(r, taken, result) ==
  IF result = Failure THEN [r EXCEPT !.taken = taken, !.status = "failed"]
  ELSE IF result = Blocked THEN [r EXCEPT !.taken = taken, !.left = @ - 1]
  ELSE [r EXCEPT !.taken = taken, !.trace = Append(@, result), !.bounds = Append(@, r.taken)]
\* The result of the next action is known.
AfterResult(r, taken, result) ==
  IF result = Failure THEN [r EXCEPT !.taken = taken, !.status = "failed"]
  ELSE IF result = Blocked THEN [r EXCEPT !.taken = taken, !.left = @ - 1]
  ELSE [r EXCEPT !.taken = taken, !.trace = Append(@, result), !.bounds = Append(@, taken)]
\* do_step of the replay.
ReplayStep(m, entries, r) ==
  LET action == Action(m, r.trace)
      choice == Decision(action, entries[r.taken + 1])
  IN IF ~Draws(action) THEN AfterResult(r, r.taken, action.to[0])
     ELSE IF r.taken >= Len(entries) THEN [r EXCEPT !.status = "exhausted"]
     ELSE IF choice = None THEN [r EXCEPT !.status = "rejected"]
     ELSE AfterResult(r, r.taken + 1, action.to[choice])
ReplayNext(m, entries, steps, r) ==
  IF r.status = "ok" /\ Walking(r.trace, r.left, steps) THEN ReplayStep(m, entries, r) ELSE r
Attempts(m, entries, steps, retriesPerStep) ==
  LET after[n \in Nat] ==
        IF n = 0 THEN ReplayStart(steps, retriesPerStep) ELSE ReplayNext(m, entries, steps, after[n - 1])
  IN after
\* Each attempt adds a state, takes a retry or is the last.
Replayed(m, entries, steps, retriesPerStep) ==
  Attempts(m, entries, steps, retriesPerStep)[steps + Budget(steps, retriesPerStep)]

OfTape(numbers) == [i \in DOMAIN numbers |-> <<"tape", numbers[i]>>]
\* Mutant of SeedReplay: the retries of `run` are not passed on; the default is larger.
SeedReplayDefaultRetries(m, numbers) ==
  Replayed(m, OfTape(numbers), MaxSteps, 3 * MaxRetriesPerStep)
\* Replay of a trace seed with the settings of the printed command, and
\* locate_evaluation_error, which replays in the same way.
SeedReplay(m, numbers) == Replayed(m, OfTape(numbers), MaxSteps, MaxRetriesPerStep)
FirstBad(states) == SelectInSeq(states, LAMBDA s : s \in Bad)

\* A schedule is replayed for as many steps as it has, and --out-schedule writes
\* the decisions that each successful step took, those of the attempts that
\* failed before it included.
ScheduleReplay(m, schedule) == Replayed(m, FlattenSeq(schedule), Len(schedule), MaxRetriesPerStep)
Written(entries, bounds) ==
  [i \in DOMAIN bounds |-> SubSeq(entries, 1 + (IF i = 1 THEN 0 ELSE bounds[i - 1]), bounds[i])]
Rewritten(m, schedule) == Written(FlattenSeq(schedule), ScheduleReplay(m, schedule).bounds)

----------------------------------------------------------------------------
(* What `run` says is what `replay` shows: the command printed for a finding *)
(* replays the finding's states and stops at its index, though the verdict   *)
(* may have come from the cache; that of the best trace replays all of it;   *)
(* and an evaluation error happens again, after the same states, when its    *)
(* trace is replayed to locate it.                                           *)
FindingReplays(finding) ==
  LET again == SeedReplay(machine, finding.tape)
  IN /\ again.status = "ok" /\ FirstBad(again.trace) = finding.at
     /\ IsPrefix(finding.prefix, again.trace)
BestReplays ==
  best.trace # <<>> =>
    LET again == SeedReplay(machine, best.tape) IN again.status = "ok" /\ again.trace = best.trace
FailureReplays ==
  phase = "failed" =>
    LET again == SeedReplay(machine, tape) IN again.status = "failed" /\ again.trace = trace
PrintedSeedsReplay ==
  /\ \A i \in DOMAIN found : FindingReplays(found[i])
  /\ BestReplays
  /\ FailureReplays

(* --out-schedule: a schedule that replays to the end, whatever attempts     *)
(* fail on the way and however its decisions are grouped into steps, is      *)
(* written back as one that replays to the same trace, one group of          *)
(* decisions per state.                                                      *)
WrittenSchedulesReplay ==
  phase = "replayed" =>
    LET schedule == scheduled[1]
        first == ScheduleReplay(machine, schedule)
        written == Rewritten(machine, schedule)
        again == ScheduleReplay(machine, written)
    IN first.status = "ok" /\ Len(first.trace) = Len(schedule) =>
         again.status = "ok" /\ again.trace = first.trace /\ Rewritten(machine, written) = written
=============================================================================

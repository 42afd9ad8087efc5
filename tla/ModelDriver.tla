---------------------------- MODULE ModelDriver ----------------------------
(***************************************************************************)
(* Running a generated model (wunderspec/rust_cli/driver.py with           *)
(* _run_model, run_command, check_command and replay_command of            *)
(* commands.py): the options are validated, the model runs in its project  *)
(* under a shared lock, its summary and its schedules are read, and the    *)
(* verdict and the commands that replay its findings are printed.  Several *)
(* commands may use one project at once.                                   *)
(*                                                                         *)
(* The project is an entry of the cache, or the directory of --to.  Checks *)
(* always have their schedules in the project, and with --to runs choose   *)
(* theirs there as well.                                                   *)
(*                                                                         *)
(* The model itself is external.  It refuses an option that it does not    *)
(* know; a check writes its findings to schedules 0, 1, ... of the project *)
(* and may remove those that it finds there first; a run writes its first  *)
(* finding to the schedule that it was given; a check prints a summary.    *)
(***************************************************************************)
EXTENDS Integers, FiniteSets, SequencesExt

CONSTANTS
  Commands,      \* the commands that are given
  Given,         \* what they may be: functions from Commands to "check", "run" and "replay"
  FindingsLimit, \* --max-findings
  Left           \* the sets of schedules that earlier commands may have left

ASSUME DriverConstants ==
  /\ IsFiniteSet(Commands)
  /\ Given \subseteq [Commands -> {"check", "run", "replay"}]
  /\ Cardinality(Commands) < 88
  /\ FindingsLimit \in 0..10
  /\ Left \subseteq SUBSET ({"project", "cwd", "named"} \X (0..10))

VARIABLES
  command,     \* what each command is: "check", "run" or "replay"
  inDirectory, \* the project is the directory of --to
  options,     \* the options that its model is given
  progress,    \* how far it is
  target,      \* where a run has its model write a schedule
  findings,    \* what its model has found
  process,     \* how its model ended
  disk,        \* the schedules that exist: who has written them (nobody: a command of
               \* before), and what was found
  shown,       \* what the command has printed, and its exit status
  alone        \* no other command has had to do with its schedules while it was at work
driverVars == <<command, inDirectory, options, progress, target, findings, process, disk, shown, alone>>

NotEnded == [code |-> 0, summary |-> "none", refused |-> {}]
NotShown == [code |-> 0, hints |-> {}]

\* The schedules schedule_<i>.json of the project and of the working directory, and those
\* that users name.  Checks and earlier commands have written numbers up to 10, a run at
\* most one more: no number has three digits.
Schedule(dir, i) == <<dir, i>>
Unchosen == Schedule("none", 0)
ScheduleNumbers == 0..(11 + Cardinality(Commands))
Directories == {"project", "cwd", "named"}
In(dir) == {i \in ScheduleNumbers : Schedule(dir, i) \in DOMAIN disk}
Put(schedule, finding) ==
  [s \in DOMAIN disk \cup {schedule} |-> IF s = schedule THEN finding ELSE disk[s]]
WithoutProject == [s \in {t \in DOMAIN disk : t[1] # "project"} |-> disk[s]]

\* The schedules that a command has to do with: those that its model may write, and all
\* of the project if it is a check.
InProject == {Schedule("project", i) : i \in ScheduleNumbers}
Concerns(kind, schedule) == IF kind = "check" THEN InProject ELSE {schedule} \ {Unchosen}

Active(c) == progress[c] \in {"ready", "running", "ended"}
\* The commands at work that have to do with schedules of c, if c is given this one.
Company(c, schedule) ==
  {d \in Commands \ {c} :
     Active(d) /\ Concerns(command[d], target[d]) \cap Concerns(command[c], schedule) # {}}
Joined(c, schedule) ==
  [d \in Commands |->
     alone[d] /\ (d \in Company(c, schedule) \cup {c} => Company(c, schedule) = {})]

----------------------------------------------------------------------------
(* Options *)

Limits == [workers : 0..2, maxMemory : {"none", "0M", "2G"}, timeout : {"none", "0s"}]
ValidMaxMemory(value) == value # "0M"
ValidTimeout(value) == value # "0s"
ValidRun(limits) ==
  limits.workers >= 1 /\ ValidMaxMemory(limits.maxMemory) /\ ValidTimeout(limits.timeout)

CheckArguments ==
  [limits : Limits, visited : {"none", "exact", "fingerprint", "bitvec"}, bitvecSize : {"none", "0", "16"},
   shuffle : BOOLEAN, shuffleSeed : {"none", "7"}]
Visited(args) ==
  IF args.visited # "none" THEN args.visited ELSE IF args.bitvecSize # "none" THEN "bitvec" ELSE "fingerprint"
\* Whether the options of a check go together.
PlanCheck(args) ==
  /\ args.shuffleSeed = "none" \/ args.shuffle
  /\ args.bitvecSize = "none" \/ (Visited(args) = "bitvec" /\ args.bitvecSize # "0")
  /\ ValidRun(args.limits)
  /\ args.limits.workers = 1 \/ (Visited(args) # "exact" /\ args.shuffle)

LimitArgv(limits) ==
  (IF limits.maxMemory = "none" THEN {} ELSE {"--max-memory"}) \cup (IF limits.timeout = "none" THEN {} ELSE {"--timeout"})
RunArgv(limits, outSchedule) ==
  {"--bound", "--workers", "--invariant-cache"} \cup LimitArgv(limits)
  \cup (IF outSchedule = Unchosen THEN {} ELSE {"--out-schedule"})
CheckArgv(args) ==
  {"--bound", "--workers", "--visited", "--bitvec-size"} \cup LimitArgv(args.limits)
  \cup (IF args.shuffle THEN {"--shuffle-seed"} ELSE {})
ReplayArgv == {"--bound", "--from-schedule", "--check-property"}

\* The options that models of older translators do not know.
NewOptions == {"--invariant-cache", "--shuffle-seed", "--check-property"}

----------------------------------------------------------------------------

DriverInit ==
  /\ command \in Given
  /\ inDirectory \in BOOLEAN
  /\ options = [c \in Commands |-> {}]
  /\ progress = [c \in Commands |-> "given"]
  /\ target = [c \in Commands |-> Unchosen]
  /\ findings = [c \in Commands |-> <<>>]
  /\ process = [c \in Commands |-> NotEnded]
  /\ \E left \in Left : disk = [s \in left |-> [by |-> {}, kind |-> "violation"]]
  /\ shown = [c \in Commands |-> NotShown]
  /\ alone = [c \in Commands |-> TRUE]

\* The command prints its verdict and its hints, and its process ends.
EndWith(c, code, hints) ==
  /\ shown' = [shown EXCEPT ![c] = [code |-> code, hints |-> hints]]
  /\ progress' = [progress EXCEPT ![c] = "done"]
  /\ options' = [options EXCEPT ![c] = {}]
  /\ target' = [target EXCEPT ![c] = Unchosen]
  /\ findings' = [findings EXCEPT ![c] = <<>>]
  /\ process' = [process EXCEPT ![c] = NotEnded]
  /\ UNCHANGED <<command, inDirectory, disk, alone>>

\* Options that do not go together are a usage error.
RefuseOptions(c) ==
  /\ progress[c] = "given"
  /\ CASE command[c] = "check" -> {args \in CheckArguments : ~PlanCheck(args)} # {}
       [] command[c] = "run" -> {limits \in Limits : ~ValidRun(limits)} # {}
       [] OTHER -> {limits \in Limits : ~ValidMaxMemory(limits.maxMemory)} # {}
  /\ EndWith(c, 64, {})

\* The project is prepared under the exclusive lock, when no model runs.  A new
\* translation takes the place of the project, and of the schedules in it.
Translate(c) ==
  /\ progress[c] = "given"
  /\ \A d \in Commands : progress[d] # "running"
  /\ \E new \in BOOLEAN :
       /\ disk' = IF new THEN WithoutProject ELSE disk
       /\ alone' = [d \in Commands |->
            alone[d] /\ ~(new /\ progress[d] = "ended" /\ Concerns(command[d], target[d]) \cap InProject # {})]
  /\ progress' = [progress EXCEPT ![c] = "prepared"]
  /\ UNCHANGED <<command, inDirectory, options, target, findings, process, shown>>

Ready(c, argv, schedule) ==
  /\ options' = [options EXCEPT ![c] = argv \cap NewOptions]
  /\ target' = [target EXCEPT ![c] = schedule]
  /\ progress' = [progress EXCEPT ![c] = "ready"]
  /\ alone' = Joined(c, schedule)
  /\ UNCHANGED <<command, inDirectory, findings, process, disk, shown>>

AvailableSchedule(dir) ==
  CHOOSE i \in ScheduleNumbers : i \notin In(dir) /\ \A j \in ScheduleNumbers \ In(dir) : i <= j
RunDirectory == IF inDirectory THEN "project" ELSE "cwd"
\* Where the model of a run writes a schedule: where the user says, which may be there
\* already, or, if a property is given, under a name that is not taken.
RunSchedules ==
  {Unchosen, Schedule("named", 0), Schedule(RunDirectory, AvailableSchedule(RunDirectory))}
PrepareRun(c) ==
  /\ progress[c] = "prepared" /\ command[c] = "run"
  /\ \E outSchedule \in RunSchedules :
       \E argv \in {RunArgv(l, outSchedule) : l \in {l \in Limits : ValidRun(l)}} :
         Ready(c, argv, outSchedule)
PrepareCheck(c) ==
  /\ progress[c] = "prepared" /\ command[c] = "check"
  /\ \E argv \in {CheckArgv(args) : args \in {a \in CheckArguments : PlanCheck(a)}} : Ready(c, argv, Unchosen)
PrepareReplay(c) ==
  /\ progress[c] = "prepared" /\ command[c] = "replay"
  /\ Ready(c, ReplayArgv, Unchosen)

\* The lock on the project is shared: any number of models may run.
StartModel(c) ==
  /\ progress[c] = "ready"
  /\ disk' \in IF command[c] = "check" THEN {disk, WithoutProject} ELSE {disk}
  /\ progress' = [progress EXCEPT ![c] = "running"]
  /\ UNCHANGED <<command, inDirectory, options, target, findings, process, shown, alone>>

Find(c) ==
  /\ progress[c] = "running"
  /\ Len(findings[c]) < (IF command[c] = "check" THEN FindingsLimit ELSE 1)
  /\ \E kind \in {"violation", "panic"} :
       LET n == Len(findings[c])
           schedule == IF command[c] = "check" THEN Schedule("project", n) ELSE target[c]
       IN /\ findings' = [findings EXCEPT ![c] = Append(@, kind)]
          /\ disk' = IF command[c] = "check" \/ target[c] # Unchosen
                     THEN Put(schedule, [by |-> {c}, kind |-> kind]) ELSE disk
  /\ UNCHANGED <<command, inDirectory, options, progress, target, process, shown, alone>>

\* How a model ends: as it found, at a limit or by Ctrl-C (which this process ignores
\* while the model runs), killed, without a summary, or refusing an option.  An older
\* one may exit with 0 in every case.
Endings(c) ==
  LET verdict == IF findings[c] = <<>> THEN 0 ELSE IF Last(findings[c]) = "panic" THEN 101 ELSE 1
      ended(code, summary) == [code |-> code, summary |-> summary, refused |-> {}]
      refusing(code, option) == [code |-> code, summary |-> "none", refused |-> {option}]
  IN {ended(code, "complete") : code \in {0, verdict}}
     \cup {ended(code, "stopped") : code \in {0, 3, 124, 130}}
     \cup {ended(code, "none") : code \in {0, 137}}
     \cup {refusing(code, o) : code \in {1, 64}, o \in IF findings[c] = <<>> THEN options[c] ELSE {}}
EndModel(c) ==
  /\ progress[c] = "running"
  /\ \E p \in Endings(c) : process' = [process EXCEPT ![c] = p]
  /\ progress' = [progress EXCEPT ![c] = "ended"]
  /\ UNCHANGED <<command, inDirectory, options, target, findings, disk, shown, alone>>

\* The model refused an option: it is of another translator.
RejectedOption(p) == p.code \in {1, 64} /\ p.refused # {}
ReportRejected(c) ==
  /\ progress[c] = "ended" /\ RejectedOption(process[c])
  /\ EndWith(c, 81, {})

\* A model that ends without a summary has failed, whatever its exit status.
ParseFailure(p) == p.summary = "none"
CheckExit(p) == IF p.code = 0 /\ ParseFailure(p) THEN 1 ELSE p.code
ExitStatus(c) == IF command[c] = "check" THEN CheckExit(process[c]) ELSE process[c].code
\* What a check says: one that was stopped is incomplete, whatever it has found.
CheckVerdict(c) ==
  CASE ParseFailure(process[c]) -> "failed"
    [] process[c].summary = "stopped" -> "incomplete"
    [] OTHER -> IF findings[c] = <<>> THEN "nothing found" ELSE "found"

\* The schedules of the project are all taken to be the findings, in the order of their
\* names, where 10 comes before 2.
NameBefore(i, j) ==
  LET first(n) == IF n < 10 THEN n ELSE n \div 10
  IN first(i) < first(j) \/ (first(i) = first(j) /\ i < j)
\* Mutant of Index: the findings are counted from one.
IndexFromOne(i) == Cardinality({j \in In("project") : ~NameBefore(i, j)})
Index(i) == Cardinality({j \in In("project") : NameBefore(j, i)})
Hint(schedule, checkProperty) == [schedule |-> schedule, checkProperty |-> checkProperty]
\* Without a summary, the kinds of the findings are not known.
KindsRead(c) == IF process[c].summary = "none" THEN <<>> ELSE findings[c]
Panicked(c, index) == index < Len(KindsRead(c)) /\ KindsRead(c)[index + 1] = "panic"
\* A check that was stopped gives no hints.
CheckGivesHints(p) == p.code # 0 /\ p.summary # "stopped"
CheckHints(c) ==
  IF CheckGivesHints(process[c])
  THEN {Hint(Schedule("project", i), Panicked(c, Index(i))) : i \in In("project")} ELSE {}

ReportCheck(c) ==
  /\ progress[c] = "ended" /\ command[c] = "check" /\ ~RejectedOption(process[c])
  /\ EndWith(c, ExitStatus(c), CheckHints(c))

RunGivesHint(p) == p.code \notin {0, 124, 130}
RunHints(c) ==
  IF RunGivesHint(process[c]) /\ target[c] \in DOMAIN disk
  THEN {Hint(target[c], process[c].code = 101)} ELSE {}
ReportRun(c) ==
  /\ progress[c] = "ended" /\ command[c] = "run" /\ ~RejectedOption(process[c])
  /\ EndWith(c, ExitStatus(c), RunHints(c))
\* No schedule is asked of this replay.
ReportReplay(c) ==
  /\ progress[c] = "ended" /\ command[c] = "replay" /\ ~RejectedOption(process[c])
  /\ EndWith(c, ExitStatus(c), {})

DriverNext ==
  \E c \in Commands :
    \/ RefuseOptions(c) \/ Translate(c) \/ PrepareRun(c) \/ PrepareCheck(c) \/ PrepareReplay(c)
    \/ StartModel(c) \/ Find(c) \/ EndModel(c)
    \/ ReportRejected(c) \/ ReportCheck(c) \/ ReportRun(c) \/ ReportReplay(c)
DriverSpec == DriverInit /\ [][DriverNext]_driverVars

----------------------------------------------------------------------------

\* What docs/user-references/rust.md says of exit status 0.
DocumentedStatus(c) ==
  process[c].code = 0 => findings[c] = <<>> /\ process[c].summary # "stopped"
\* A check that succeeds has a summary, and says what it found or that it is incomplete;
\* a command succeeds only if nothing was found, and a check only if it is complete, when
\* the model keeps to the documented statuses.
SuccessIsComplete(c) ==
  progress[c] = "ended" /\ ~RejectedOption(process[c]) /\ ExitStatus(c) = 0 =>
    /\ command[c] = "check" =>
         CheckVerdict(c) \in {"incomplete", IF findings[c] = <<>> THEN "nothing found" ELSE "found"}
    /\ DocumentedStatus(c) =>
         findings[c] = <<>> /\ (command[c] = "check" => CheckVerdict(c) = "nothing found")

\* As long as its numbers have one digit, the order of the names is that of the findings.
InOrder(c) == command[c] = "check" => In("project") \subseteq 0..9
\* The hint is for a finding of its command, and the property is checked in the replay
\* when checking it had panicked.
Replays(c, hint) ==
  /\ disk[hint.schedule].by = {c}
  /\ process[c].summary = "complete" /\ InOrder(c) =>
       (hint.checkProperty <=> disk[hint.schedule].kind = "panic")
\* The hint is for what a command left that was over before.
Outdated(c, hint) ==
  /\ \A d \in disk[hint.schedule].by : progress[d] = "done"
  /\ InOrder(c) => ~hint.checkProperty

ScheduleOf(c, k) == IF command[c] = "check" THEN Schedule("project", k - 1) ELSE target[c]
GivesHints(c) ==
  \/ command[c] = "check" /\ CheckGivesHints(process[c])
  \/ command[c] = "run" /\ RunGivesHint(process[c]) /\ target[c] # Unchosen
\* While no other command has to do with its schedules, a command that gives hints gives
\* one for each of its findings, which replays it.  Schedules of before may be among them:
\* they are hinted at beside those of the findings, never in their place.
HintsReplayFindings(c) ==
  progress[c] = "ended" /\ alone[c] =>
    LET hints == IF command[c] = "check" THEN CheckHints(c) ELSE RunHints(c)
    IN /\ \A hint \in hints :
            hint.schedule \in DOMAIN disk /\ (Replays(c, hint) \/ Outdated(c, hint))
       /\ GivesHints(c) =>
            \A k \in DOMAIN findings[c] :
              /\ disk[ScheduleOf(c, k)] = [by |-> {c}, kind |-> findings[c][k]]
              /\ \E hint \in hints : hint.schedule = ScheduleOf(c, k)
HintsAreForFindings == \A c \in Commands : HintsReplayFindings(c)
=============================================================================

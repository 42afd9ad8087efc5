-------------------------- MODULE Verdicts_proofs ---------------------------
(***************************************************************************)
(* Proofs about the commands that run generated models in one project, in  *)
(* the cache or in the directory of --to: a command that succeeds has had  *)
(* a complete answer, and while no other command has to do with its        *)
(* schedules it prints replay commands for what its own model has found.   *)
(* Then about any sequence of requests to the external checkers: the       *)
(* verdict is what the checker has reported, and the files that a command  *)
(* returns are there and its own.                                          *)
(***************************************************************************)
EXTENDS Verdicts, FiniteSetTheorems, SequenceTheorems, TLAPS

FindingKinds == {"violation", "panic"}
Processes == [code : Nat, summary : {"none", "stopped", "complete"}, refused : SUBSET NewOptions]
AllSchedules == Directories \X ScheduleNumbers

DriverTypeOK ==
  /\ command \in [Commands -> {"check", "run", "replay"}]
  /\ options \in [Commands -> SUBSET NewOptions]
  /\ progress \in [Commands -> {"given", "prepared", "ready", "running", "ended", "done"}]
  /\ target \in [Commands -> AllSchedules \cup {Unchosen}]
  /\ findings \in [Commands -> Seq(FindingKinds)]
  /\ process \in [Commands -> Processes]
  /\ DOMAIN disk \subseteq AllSchedules
  /\ \A s \in DOMAIN disk : disk[s] \in [by : SUBSET Commands, kind : FindingKinds]
  /\ alone \in [Commands -> BOOLEAN]

Quota(c) == IF command[c] = "check" THEN FindingsLimit ELSE 1
Concern(c) == Concerns(command[c], target[c])

\* How far a command is, and what it has by then.
StageAt(c) ==
  /\ progress[c] \in {"given", "prepared", "ready"} => findings[c] = <<>>
  /\ Len(findings[c]) <= Quota(c)
  /\ progress[c] \in {"given", "prepared", "done"} \/ command[c] # "run" => target[c] = Unchosen
  /\ progress[c] = "ended" => process[c] \in Endings(c)

\* Nobody has to do with the schedules of a command that is alone.
AloneAt(c) == Active(c) /\ alone[c] => Company(c, target[c]) = {}

\* Who has written a schedule is over.
Over(s) == \A b \in disk[s].by : progress[b] = "done"

\* The first schedules of the project are the findings of a check that is alone, and the
\* others are of before.
ProjectAt(c) ==
  command[c] = "check" /\ progress[c] \in {"running", "ended"} /\ alone[c] =>
    /\ \A k \in 1..Len(findings[c]) :
         /\ Schedule("project", k - 1) \in DOMAIN disk
         /\ disk[Schedule("project", k - 1)] = [by |-> {c}, kind |-> findings[c][k]]
    /\ \A i \in In("project") : i >= Len(findings[c]) => Over(Schedule("project", i))

\* The schedule that a run was given holds its finding, once there is one.
TargetAt(c) ==
  command[c] = "run" /\ Active(c) /\ alone[c] /\ target[c] # Unchosen =>
    /\ findings[c] # <<>> =>
         target[c] \in DOMAIN disk /\ disk[target[c]] = [by |-> {c}, kind |-> findings[c][1]]
    /\ findings[c] = <<>> /\ target[c] \in DOMAIN disk => Over(target[c])

\* Checks write low numbers only, a run one schedule at most, and who is not over has to
\* do with what it wrote.
WrittenBy(s, b) ==
  /\ command[b] = "check" => s[2] < FindingsLimit
  /\ progress[b] \in {"running", "ended", "done"}
  /\ progress[b] # "done" => findings[b] # <<>> /\ s \in Concern(b)
DiskInv ==
  /\ \A s \in DOMAIN disk : \A b \in disk[s].by : WrittenBy(s, b)
  /\ \A s, t \in DOMAIN disk : \A b \in disk[s].by \cap disk[t].by : command[b] # "check" => s = t
  /\ \A s \in DOMAIN disk : s[2] > 10 => disk[s].by # {}

CommandInv(c) == StageAt(c) /\ AloneAt(c) /\ ProjectAt(c) /\ TargetAt(c)
DriverInv ==
  /\ DriverTypeOK
  /\ DiskInv
  /\ \A c \in Commands : CommandInv(c)

----------------------------------------------------------------------------
(* Schedules. *)

\* A set of naturals has a smallest member.
LEMMA SmallestNumber ==
  ASSUME NEW T \in SUBSET Nat, T # {}
  PROVE  \E x \in T : \A y \in T : x <= y
<1>1. PICK x \in T : \A y \in T : ~(<<y, x>> \in OpToRel(<, Nat))
  BY NatLessThanWellFounded, WFMin, Zenon
<1>2. \A y \in T : ~(y < x)
  BY <1>1, Zenon DEF OpToRel
<1>3. QED
  BY <1>2

\* The numbers of schedules, and what is one.
LEMMA ScheduleFacts ==
  /\ Cardinality(Commands) \in Nat /\ FindingsLimit \in 0..10
  /\ ScheduleNumbers \subseteq Nat /\ 0..10 \subseteq ScheduleNumbers
  /\ IsFiniteSet(ScheduleNumbers)
  /\ Unchosen \notin AllSchedules
  /\ \A dir \in Directories, i \in ScheduleNumbers : Schedule(dir, i) \in AllSchedules
  /\ \A dir, i, j : Schedule(dir, i) = Schedule(dir, j) => i = j
  /\ \A dir, i : Schedule(dir, i)[2] = i /\ Schedule(dir, i)[1] = dir
  /\ \A i \in ScheduleNumbers : Schedule("project", i) \in InProject
  /\ \A s \in InProject : s[1] = "project"
  /\ \A s \in AllSchedules : s[1] = "project" => s \in InProject
<1>1. Cardinality(Commands) \in Nat /\ FindingsLimit \in 0..10
  BY FS_CardinalityType, DriverConstants
<1>2. IsFiniteSet(ScheduleNumbers)
  BY <1>1, FS_Interval DEF ScheduleNumbers
<1>3. ScheduleNumbers \subseteq Nat /\ 0..10 \subseteq ScheduleNumbers
  BY <1>1 DEF ScheduleNumbers
<1>4. \A s \in AllSchedules : s[1] = "project" => s \in InProject
  BY DEF AllSchedules, InProject, Schedule
<1>5. QED
  BY <1>1, <1>2, <1>3, <1>4 DEF AllSchedules, InProject, Schedule, Unchosen, Directories

\* A run finds a name that is not taken.
LEMMA FreeSchedule ==
  ASSUME DriverTypeOK, DiskInv, NEW dir \in Directories
  PROVE  AvailableSchedule(dir) \in ScheduleNumbers \ In(dir)
<1> DEFINE many == Cardinality(Commands)
           High == 11..(11 + many)
           Free == ScheduleNumbers \ In(dir)
           writer == [i \in High |-> CHOOSE b : b \in disk[Schedule(dir, i)].by]
<1>1. many \in Nat /\ High \subseteq ScheduleNumbers /\ FindingsLimit \in 0..10
  BY ScheduleFacts DEF ScheduleNumbers
<1>2. IsFiniteSet(High) /\ Cardinality(High) = many + 1
  <2> HIDE DEF many
  <2>1. QED
    BY <1>1, FS_Interval
<1>3. Free # {}
  <2>1. SUFFICES ASSUME Free = {} PROVE FALSE
    OBVIOUS
  <2>2. ASSUME NEW i \in High
        PROVE  /\ Schedule(dir, i) \in DOMAIN disk
               /\ writer[i] \in disk[Schedule(dir, i)].by
               /\ writer[i] \in Commands
               /\ command[writer[i]] # "check"
    <3>1. Schedule(dir, i) \in DOMAIN disk
      BY <1>1, <2>1 DEF In
    <3>2. Schedule(dir, i)[2] = i /\ i > 10 /\ ~(i < FindingsLimit)
      BY <1>1, ScheduleFacts
    <3>3. disk[Schedule(dir, i)].by # {}
      BY <3>1, <3>2 DEF DiskInv
    <3>4. writer[i] \in disk[Schedule(dir, i)].by
      BY <3>3
    <3> HIDE DEF writer
    <3>5. writer[i] \in Commands /\ WrittenBy(Schedule(dir, i), writer[i])
      BY <3>1, <3>4 DEF DiskInv, DriverTypeOK
    <3>6. QED
      BY <3>1, <3>2, <3>4, <3>5 DEF WrittenBy
  <2>3. writer \in [High -> Commands]
    <3>1. writer = [i \in High |-> writer[i]]
      OBVIOUS
    <3> HIDE DEF writer
    <3>2. QED
      BY <2>2, <3>1
  <2> HIDE DEF writer
  <2>4. \A i, j \in High : writer[i] = writer[j] => i = j
    <3>1. SUFFICES ASSUME NEW i \in High, NEW j \in High, writer[i] = writer[j]
                   PROVE  i = j
      OBVIOUS
    <3>2. Schedule(dir, i) = Schedule(dir, j)
      BY <2>2, <3>1 DEF DiskInv
    <3>3. QED
      BY <3>2, ScheduleFacts
  <2>5. writer \in Injection(High, Commands)
    BY <2>3, <2>4 DEF Injection, IsInjective
  <2>6. Cardinality(High) <= many
    BY <2>5, FS_Injection, DriverConstants
  <2>7. QED
    BY <1>1, <1>2, <2>6
<1>4. PICK i \in Free : \A j \in Free : i <= j
  <2>1. Free \in SUBSET Nat
    BY ScheduleFacts
  <2>2. QED
    BY <1>3, <2>1, SmallestNumber
<1>5. QED
  BY <1>4 DEF AvailableSchedule

----------------------------------------------------------------------------
(* The steps. *)

\* Initially no command is at work.
LEMMA DriverStarts ==
  ASSUME DriverInit
  PROVE  DriverInv
<1>1. PICK left \in Left : disk = [s \in left |-> [by |-> {}, kind |-> "violation"]]
  BY DEF DriverInit
<1>2. /\ left \subseteq {"project", "cwd", "named"} \X (0..10)
      /\ DOMAIN disk = left /\ \A s \in left : disk[s] = [by |-> {}, kind |-> "violation"]
  BY <1>1, DriverConstants
<1>3. left \subseteq AllSchedules
  BY <1>2, ScheduleFacts DEF AllSchedules, Directories
<1>4. DriverTypeOK
  <2>1. NotEnded \in Processes
    BY DEF NotEnded, Processes
  <2>2. QED
    BY <1>2, <1>3, <2>1, DriverConstants DEF DriverInit, DriverTypeOK, FindingKinds
<1>5. DiskInv
  <2>1. \A s \in left : s[2] \in 0..10
    BY <1>2
  <2>2. QED
    BY <1>2, <2>1 DEF DiskInv
<1>6. ASSUME NEW c \in Commands
      PROVE  CommandInv(c)
  <2>1. Len(findings[c]) <= Quota(c)
    BY ScheduleFacts DEF DriverInit, Quota
  <2>2. QED
    BY <2>1 DEF DriverInit, CommandInv, StageAt, AloneAt, ProjectAt, TargetAt, Active
<1>7. QED
  BY <1>4, <1>5, <1>6 DEF DriverInv

\* What is known of the disk stays so when schedules are removed and commands go on.
LEMMA DiskKept ==
  ASSUME DriverTypeOK, DiskInv, command' = command,
         DOMAIN disk' \subseteq DOMAIN disk,
         \A s \in DOMAIN disk' : disk'[s] = disk[s],
         \A b \in Commands : progress[b] \in {"running", "ended", "done"} =>
           \/ progress'[b] = "done"
           \/ /\ progress'[b] \in {"running", "ended"} /\ progress[b] # "done"
              /\ findings'[b] = findings[b] /\ target'[b] = target[b]
  PROVE  DiskInv'
<1>1. ASSUME NEW s \in DOMAIN disk', NEW b \in disk'[s].by
      PROVE  WrittenBy(s, b)'
  <2>1. s \in DOMAIN disk /\ b \in disk[s].by /\ b \in Commands /\ WrittenBy(s, b)
    BY <1>1 DEF DriverTypeOK, DiskInv
  <2>2. QED
    BY <2>1 DEF WrittenBy, Concern, Concerns, InProject, Schedule
<1>2. QED
  BY <1>1 DEF DiskInv

\* What is known of a command depends on it, its schedules, and on who is at work.
LEMMA Unconcerned ==
  ASSUME DriverTypeOK, NEW d \in Commands, CommandInv(d),
         command' = command, options'[d] = options[d], progress'[d] = progress[d],
         target'[d] = target[d], findings'[d] = findings[d], process'[d] = process[d],
         alone'[d] => alone[d],
         \A b \in Commands : progress[b] = "done" => progress'[b] = "done",
         Active(d) /\ alone'[d] => Company(d, target[d])' = {},
         \A s \in Concern(d) : Active(d) /\ alone'[d] /\ s \in DOMAIN disk' =>
           s \in DOMAIN disk /\ disk'[s] = disk[s],
         \A s \in Concern(d) : progress[d] \in {"running", "ended"} /\ alone'[d] /\ s \in DOMAIN disk =>
           s \in DOMAIN disk'
  PROVE  CommandInv(d)'
<1>1. StageAt(d)'
  BY DEF CommandInv, StageAt, Quota, Endings
<1>2. AloneAt(d)'
  BY DEF AloneAt, Active
<1>3. ASSUME NEW s \in DOMAIN disk, disk'[s] = disk[s], Over(s)
      PROVE  Over(s)'
  BY <1>3 DEF Over, DriverTypeOK
<1>4. ProjectAt(d)'
  <2>1. SUFFICES ASSUME command[d] = "check", progress[d] \in {"running", "ended"}, alone'[d]
                 PROVE  /\ \A k \in 1..Len(findings[d]) :
                             /\ Schedule("project", k - 1) \in DOMAIN disk'
                             /\ disk'[Schedule("project", k - 1)] = [by |-> {d}, kind |-> findings[d][k]]
                        /\ \A i \in In("project")' : i >= Len(findings[d]) => Over(Schedule("project", i))'
    BY DEF ProjectAt
  <2>2. /\ Active(d) /\ alone[d] /\ Concern(d) = InProject
    BY <2>1 DEF Active, Concern, Concerns
  <2>3. /\ \A k \in 1..Len(findings[d]) :
             /\ Schedule("project", k - 1) \in DOMAIN disk
             /\ disk[Schedule("project", k - 1)] = [by |-> {d}, kind |-> findings[d][k]]
        /\ \A i \in In("project") : i >= Len(findings[d]) => Over(Schedule("project", i))
    BY <2>1, <2>2 DEF CommandInv, ProjectAt
  <2>4. ASSUME NEW k \in 1..Len(findings[d])
        PROVE  /\ Schedule("project", k - 1) \in DOMAIN disk'
               /\ disk'[Schedule("project", k - 1)] = [by |-> {d}, kind |-> findings[d][k]]
    <3>1. Schedule("project", k - 1) \in InProject
      <4>1. Schedule("project", k - 1) \in AllSchedules
        BY <2>3 DEF DriverTypeOK
      <4>2. QED
        BY <4>1, ScheduleFacts
    <3>2. QED
      BY <2>1, <2>2, <2>3, <3>1
  <2>5. ASSUME NEW i \in In("project")', i >= Len(findings[d])
        PROVE  Over(Schedule("project", i))'
    <3>1. i \in ScheduleNumbers /\ Schedule("project", i) \in DOMAIN disk'
      BY DEF In
    <3>2. Schedule("project", i) \in DOMAIN disk /\ disk'[Schedule("project", i)] = disk[Schedule("project", i)]
      BY <2>1, <2>2, <3>1, ScheduleFacts
    <3>3. Over(Schedule("project", i))
      BY <2>3, <2>5, <3>1, <3>2 DEF In
    <3>4. QED
      BY <1>3, <3>2, <3>3
  <2>6. QED
    BY <2>4, <2>5
<1>5. TargetAt(d)'
  <2>1. SUFFICES ASSUME command[d] = "run", Active(d), alone'[d], target[d] # Unchosen
                 PROVE  /\ findings[d] # <<>> =>
                             /\ target[d] \in DOMAIN disk'
                             /\ disk'[target[d]] = [by |-> {d}, kind |-> findings[d][1]]
                        /\ findings[d] = <<>> /\ target[d] \in DOMAIN disk' => Over(target[d])'
    BY DEF TargetAt, Active, Over
  <2>2. target[d] \in Concern(d) /\ alone[d]
    BY <2>1 DEF Concern, Concerns
  <2>3. findings[d] # <<>> => progress[d] \in {"running", "ended"}
    BY <2>1 DEF CommandInv, StageAt, Active
  <2>4. /\ findings[d] # <<>> =>
             target[d] \in DOMAIN disk /\ disk[target[d]] = [by |-> {d}, kind |-> findings[d][1]]
        /\ findings[d] = <<>> /\ target[d] \in DOMAIN disk => Over(target[d])
    BY <2>1, <2>2 DEF CommandInv, TargetAt
  <2>5. QED
    BY <1>3, <2>1, <2>2, <2>3, <2>4
<1>6. QED
  BY <1>1, <1>2, <1>4, <1>5 DEF CommandInv

\* A command ends.
LEMMA EndWithKeeps ==
  ASSUME DriverInv, NEW c \in Commands, progress[c] # "done",
         NEW code, NEW hints, EndWith(c, code, hints)
  PROVE  DriverInv'
<1> USE DEF DriverInv
<1>1. DriverTypeOK'
  <2>1. NotEnded \in Processes /\ <<>> \in Seq(FindingKinds)
    BY DEF NotEnded, Processes
  <2>2. QED
    BY <2>1 DEF DriverTypeOK, EndWith
<1>2. command' = command /\ disk' = disk /\ alone' = alone
  BY DEF EndWith
<1>3. /\ progress'[c] = "done" /\ target'[c] = Unchosen /\ findings'[c] = <<>>
      /\ \A d \in Commands \ {c} :
           /\ options'[d] = options[d] /\ progress'[d] = progress[d] /\ target'[d] = target[d]
           /\ findings'[d] = findings[d] /\ process'[d] = process[d]
  BY DEF EndWith, DriverTypeOK
<1>4. DiskInv'
  <2>1. \A b \in Commands : progress[b] \in {"running", "ended", "done"} =>
           \/ progress'[b] = "done"
           \/ /\ progress'[b] \in {"running", "ended"} /\ progress[b] # "done"
              /\ findings'[b] = findings[b] /\ target'[b] = target[b]
    BY <1>3
  <2>2. QED
    BY <1>2, <2>1, DiskKept
<1>5. ASSUME NEW d \in Commands
      PROVE  CommandInv(d)'
  <2>1. CASE d = c
    <3>1. Len(findings'[c]) <= Quota(c)'
      BY <1>2, <1>3, ScheduleFacts DEF Quota
    <3>2. QED
      BY <1>3, <2>1, <3>1 DEF CommandInv, StageAt, AloneAt, ProjectAt, TargetAt, Active
  <2>2. CASE d # c
    <3>1. Company(d, target[d])' \subseteq Company(d, target[d])
      BY <1>2, <1>3, <2>2 DEF Company, Active, Concerns, InProject, Schedule
    <3>2. Active(d) /\ alone'[d] => Company(d, target[d])' = {}
      BY <1>2, <3>1 DEF CommandInv, AloneAt
    <3>3. \A b \in Commands : progress[b] = "done" => progress'[b] = "done"
      BY <1>3
    <3>4. QED
      BY <1>2, <1>3, <2>2, <3>2, <3>3, Unconcerned
  <2>3. QED
    BY <2>1, <2>2
<1>6. QED
  BY <1>1, <1>4, <1>5

\* The project is prepared, and may lose its schedules.
LEMMA TranslateKeeps ==
  ASSUME DriverInv, NEW c \in Commands, Translate(c)
  PROVE  DriverInv'
<1> USE DEF DriverInv
<1>1. PICK new \in BOOLEAN :
        /\ disk' = IF new THEN WithoutProject ELSE disk
        /\ alone' = [d \in Commands |-> alone[d] /\
             ~(new /\ progress[d] = "ended" /\ Concerns(command[d], target[d]) \cap InProject # {})]
  BY DEF Translate
<1>2. /\ command' = command /\ options' = options /\ target' = target
      /\ findings' = findings /\ process' = process
      /\ progress[c] = "given" /\ progress'[c] = "prepared"
      /\ \A d \in Commands \ {c} : progress'[d] = progress[d]
      /\ \A d \in Commands : progress[d] # "running"
  BY DEF Translate, DriverTypeOK
<1>3. /\ DOMAIN disk' \subseteq DOMAIN disk
      /\ \A s \in DOMAIN disk' : disk'[s] = disk[s]
      /\ \A s \in DOMAIN disk : s \in DOMAIN disk' \/ (new /\ s[1] = "project")
  BY <1>1 DEF WithoutProject
<1>4. \A d \in Commands :
        alone'[d] <=> alone[d] /\ ~(new /\ progress[d] = "ended" /\ Concern(d) \cap InProject # {})
  BY <1>1 DEF Concern
<1>5. DriverTypeOK'
  <2>1. alone' \in [Commands -> BOOLEAN]
    BY <1>1 DEF DriverTypeOK
  <2>2. progress' \in [Commands -> {"given", "prepared", "ready", "running", "ended", "done"}]
    BY DEF Translate, DriverTypeOK
  <2>3. QED
    BY <1>2, <1>3, <2>1, <2>2 DEF DriverTypeOK
<1>6. DiskInv'
  <2>1. \A b \in Commands : progress[b] \in {"running", "ended", "done"} =>
           \/ progress'[b] = "done"
           \/ /\ progress'[b] \in {"running", "ended"} /\ progress[b] # "done"
              /\ findings'[b] = findings[b] /\ target'[b] = target[b]
    BY <1>2
  <2>2. QED
    BY <1>2, <1>3, <2>1, DiskKept
<1>7. ASSUME NEW d \in Commands
      PROVE  CommandInv(d)'
  <2>1. CASE d = c
    <3>1. StageAt(c)'
      BY <1>2 DEF CommandInv, StageAt, Quota
    <3>2. QED
      BY <1>2, <2>1, <3>1 DEF CommandInv, AloneAt, ProjectAt, TargetAt, Active
  <2>2. CASE d # c
    <3>1. Company(d, target[d])' = Company(d, target[d])
      BY <1>2 DEF Company, Active, Concerns, InProject, Schedule
    <3>2. Active(d) /\ alone'[d] => Company(d, target[d])' = {}
      BY <1>4, <3>1 DEF CommandInv, AloneAt
    <3>3. ASSUME NEW s \in Concern(d), progress[d] \in {"running", "ended"}, alone'[d], s \in DOMAIN disk
          PROVE  s \in DOMAIN disk'
      <4>1. SUFFICES ASSUME new, s[1] = "project" PROVE FALSE
        BY <1>3, <3>3
      <4>2. s \in InProject
        BY <3>3, <4>1, ScheduleFacts DEF DriverTypeOK
      <4>3. QED
        BY <1>2, <1>4, <3>3, <4>1, <4>2
    <3>4. \A b \in Commands : progress[b] = "done" => progress'[b] = "done"
      BY <1>2
    <3>5. QED
      BY <1>2, <1>3, <1>4, <2>2, <3>2, <3>3, <3>4, Unconcerned
  <2>3. QED
    BY <2>1, <2>2
<1>8. QED
  BY <1>5, <1>6, <1>7

\* Who has written a schedule of a command that is alone is over, before it has itself.
LEMMA WritersAreOver ==
  ASSUME DriverTypeOK, DiskInv, NEW c \in Commands, NEW schedule,
         progress[c] \in {"prepared", "ready"},
         Company(c, schedule) = {},
         NEW s \in DOMAIN disk, s \in Concerns(command[c], schedule)
  PROVE  Over(s)
<1>1. SUFFICES ASSUME NEW b \in disk[s].by, progress[b] # "done" PROVE FALSE
  BY DEF Over
<1>2. b \in Commands /\ WrittenBy(s, b)
  BY DEF DriverTypeOK, DiskInv
<1>3. b # c /\ Active(b) /\ s \in Concerns(command[b], target[b])
  BY <1>1, <1>2 DEF WrittenBy, Active, Concern
<1>4. b \in Company(c, schedule)
  BY <1>2, <1>3 DEF Company
<1>5. QED
  BY <1>4

\* A command has its options, and goes to work.
LEMMA ReadyKeeps ==
  ASSUME DriverInv, NEW c \in Commands, progress[c] = "prepared",
         NEW argv, NEW schedule \in AllSchedules \cup {Unchosen},
         schedule # Unchosen => command[c] = "run",
         Ready(c, argv, schedule)
  PROVE  DriverInv'
<1> USE DEF DriverInv
<1>1. DriverTypeOK'
  <2>1. alone' \in [Commands -> BOOLEAN]
    BY DEF Ready, Joined, DriverTypeOK
  <2>2. argv \cap NewOptions \in SUBSET NewOptions
    OBVIOUS
  <2>3. QED
    BY <2>1, <2>2 DEF DriverTypeOK, Ready
<1>2. command' = command /\ disk' = disk /\ findings' = findings /\ process' = process
  BY DEF Ready
<1>3. /\ progress'[c] = "ready" /\ target'[c] = schedule /\ findings[c] = <<>>
      /\ \A d \in Commands \ {c} :
           options'[d] = options[d] /\ progress'[d] = progress[d] /\ target'[d] = target[d]
  BY DEF Ready, DriverTypeOK, CommandInv, StageAt
<1>4. \A d \in Commands :
        alone'[d] <=> alone[d] /\ (d \in Company(c, schedule) \cup {c} => Company(c, schedule) = {})
  BY DEF Ready, Joined, DriverTypeOK
<1>5. DiskInv'
  <2>1. \A b \in Commands : progress[b] \in {"running", "ended", "done"} =>
           \/ progress'[b] = "done"
           \/ /\ progress'[b] \in {"running", "ended"} /\ progress[b] # "done"
              /\ findings'[b] = findings[b] /\ target'[b] = target[b]
    BY <1>2, <1>3
  <2>2. QED
    BY <1>2, <2>1, DiskKept
<1>6. ASSUME NEW d \in Commands
      PROVE  CommandInv(d)'
  <2>1. CASE d = c
    <3>1. StageAt(c)'
      BY <1>2, <1>3 DEF CommandInv, StageAt, Quota
    <3>2. Company(c, target[c])' = Company(c, schedule)
      BY <1>2, <1>3 DEF Company, Active, Concerns, InProject, Schedule
    <3>3. AloneAt(c)'
      BY <1>4, <3>2 DEF AloneAt
    <3>4. ProjectAt(c)'
      BY <1>3 DEF ProjectAt
    <3>5. TargetAt(c)'
      <4>1. SUFFICES ASSUME command[c] = "run", alone'[c], schedule # Unchosen, schedule \in DOMAIN disk
                     PROVE  Over(schedule)'
        BY <1>2, <1>3 DEF TargetAt, Over
      <4>2. Company(c, schedule) = {} /\ schedule \in Concerns(command[c], schedule)
        BY <1>4, <4>1 DEF Concerns
      <4>3. Over(schedule)
        BY <4>1, <4>2, WritersAreOver
      <4>4. QED
        BY <1>2, <1>3, <4>1, <4>3 DEF Over, DriverTypeOK
    <3>6. QED
      BY <2>1, <3>1, <3>3, <3>4, <3>5 DEF CommandInv
  <2>2. CASE d # c
    <3>1. ASSUME Active(d), alone'[d]
          PROVE  Company(d, target[d])' = {}
      <4>1. Company(d, target[d]) = {}
        BY <1>4, <3>1 DEF CommandInv, AloneAt
      <4>2. d \notin Company(c, schedule)
        BY <1>4, <3>1
      <4>3. Concern(d) \cap Concerns(command[c], schedule) = {}
        BY <2>2, <3>1, <4>2 DEF Company, Concern
      <4>4. ASSUME NEW b \in Commands \ {d}, Active(b)', (Concern(b) \cap Concern(d))' # {}
            PROVE  FALSE
        <5>1. CASE b = c
          BY <1>2, <1>3, <2>2, <4>3, <4>4, <5>1 DEF Concern, Concerns, InProject, Schedule
        <5>2. CASE b # c
          <6>1. Active(b) /\ Concern(b) \cap Concern(d) # {}
            BY <1>2, <1>3, <2>2, <4>4, <5>2 DEF Active, Concern, Concerns, InProject, Schedule
          <6>2. QED
            BY <4>1, <6>1 DEF Company, Concern
        <5>3. QED
          BY <5>1, <5>2
      <4>5. QED
        BY <4>4 DEF Company, Concern
    <3>2. \A b \in Commands : progress[b] = "done" => progress'[b] = "done"
      BY <1>3
    <3>3. QED
      BY <1>2, <1>3, <1>4, <2>2, <3>1, <3>2, Unconcerned
  <2>3. QED
    BY <2>1, <2>2
<1>7. QED
  BY <1>1, <1>5, <1>6

\* What a command at work has to do with is nothing to one that is alone.
LEMMA Separate ==
  ASSUME DriverInv, NEW c \in Commands, NEW d \in Commands \ {c}, Active(c), Active(d), alone[d]
  PROVE  Concern(c) \cap Concern(d) = {}
  BY DEF DriverInv, CommandInv, AloneAt, Company, Concern

\* The model is started.
LEMMA StartModelKeeps ==
  ASSUME DriverInv, NEW c \in Commands, StartModel(c)
  PROVE  DriverInv'
<1> USE DEF DriverInv
<1>1. /\ command' = command /\ findings' = findings /\ process' = process /\ alone' = alone
      /\ options' = options /\ target' = target
      /\ progress[c] = "ready" /\ progress'[c] = "running" /\ findings[c] = <<>>
      /\ \A d \in Commands \ {c} : progress'[d] = progress[d]
  BY DEF StartModel, DriverTypeOK, CommandInv, StageAt
<1>2. /\ DOMAIN disk' \subseteq DOMAIN disk
      /\ \A s \in DOMAIN disk' : disk'[s] = disk[s]
      /\ \A s \in DOMAIN disk : s \in DOMAIN disk' \/ (command[c] = "check" /\ s[1] = "project")
      /\ command[c] # "check" => disk' = disk
  <2>1. disk' = disk \/ (command[c] = "check" /\ disk' = WithoutProject)
    BY DEF StartModel
  <2>2. QED
    BY <2>1 DEF WithoutProject
<1>3. DriverTypeOK'
  <2>1. progress' \in [Commands -> {"given", "prepared", "ready", "running", "ended", "done"}]
    BY DEF StartModel, DriverTypeOK
  <2>2. QED
    BY <1>1, <1>2, <2>1 DEF DriverTypeOK
<1>4. DiskInv'
  <2>1. \A b \in Commands : progress[b] \in {"running", "ended", "done"} =>
           \/ progress'[b] = "done"
           \/ /\ progress'[b] \in {"running", "ended"} /\ progress[b] # "done"
              /\ findings'[b] = findings[b] /\ target'[b] = target[b]
    BY <1>1
  <2>2. QED
    BY <1>1, <1>2, <2>1, DiskKept
<1>5. ASSUME NEW d \in Commands
      PROVE  Company(d, target[d])' = Company(d, target[d]) /\ (Active(d)' <=> Active(d))
  BY <1>1 DEF Company, Active, Concerns, InProject, Schedule
<1>6. ASSUME NEW d \in Commands
      PROVE  CommandInv(d)'
  <2>1. CASE d = c
    <3>1. StageAt(c)' /\ AloneAt(c)'
      BY <1>1, <1>5 DEF CommandInv, StageAt, AloneAt, Quota
    <3>2. ASSUME NEW s \in DOMAIN disk', Over(s)
          PROVE  Over(s)'
      BY <1>1, <1>2, <3>2 DEF Over, DriverTypeOK
    <3>3. ProjectAt(c)'
      <4>1. SUFFICES ASSUME command[c] = "check", alone[c], NEW i \in In("project")'
                     PROVE  Over(Schedule("project", i))'
        BY <1>1 DEF ProjectAt
      <4>2. i \in ScheduleNumbers /\ Schedule("project", i) \in DOMAIN disk'
        BY DEF In
      <4>3. Schedule("project", i) \in Concerns(command[c], target[c])
        BY <4>1, <4>2, ScheduleFacts DEF Concerns
      <4>4. Company(c, target[c]) = {}
        BY <1>1, <4>1 DEF CommandInv, AloneAt, Active
      <4>5. Over(Schedule("project", i))
        BY <1>1, <1>2, <4>2, <4>3, <4>4, WritersAreOver
      <4>6. QED
        BY <3>2, <4>2, <4>5
    <3>4. TargetAt(c)'
      <4>1. SUFFICES ASSUME command[c] = "run", alone[c], target[c] # Unchosen, target[c] \in DOMAIN disk'
                     PROVE  Over(target[c])'
        BY <1>1 DEF TargetAt, Over
      <4>2. Over(target[c])
        BY <1>1, <1>2, <4>1 DEF CommandInv, TargetAt, Active
      <4>3. QED
        BY <1>1, <3>2, <4>1, <4>2 DEF Over
    <3>5. QED
      BY <2>1, <3>1, <3>3, <3>4 DEF CommandInv
  <2>2. CASE d # c
    <3>1. Active(c)
      BY <1>1 DEF Active
    <3>2. Active(d) /\ alone'[d] => Company(d, target[d])' = {}
      BY <1>1, <1>5 DEF CommandInv, AloneAt
    <3>3. ASSUME NEW s \in Concern(d), progress[d] \in {"running", "ended"}, alone'[d], s \in DOMAIN disk
          PROVE  s \in DOMAIN disk'
      <4>1. SUFFICES ASSUME command[c] = "check", s[1] = "project" PROVE FALSE
        BY <1>2, <3>3
      <4>2. s \in Concern(c)
        BY <3>3, <4>1, ScheduleFacts DEF DriverTypeOK, Concern, Concerns
      <4>3. Active(d) /\ alone[d]
        BY <1>1, <3>3 DEF Active
      <4>4. Concern(c) \cap Concern(d) = {}
        BY <2>2, <3>1, <4>3, Separate
      <4>5. QED
        BY <3>3, <4>2, <4>4
    <3>4. \A b \in Commands : progress[b] = "done" => progress'[b] = "done"
      BY <1>1
    <3>5. QED
      BY <1>1, <1>2, <2>2, <3>2, <3>3, <3>4, Unconcerned
  <2>3. QED
    BY <2>1, <2>2
<1>7. QED
  BY <1>3, <1>4, <1>6

\* The ways in which a model may end are those of a process.
LEMMA EndingsAreProcesses ==
  ASSUME NEW c, options[c] \subseteq NewOptions
  PROVE  Endings(c) \subseteq Processes
<1> DEFINE verdict == IF findings[c] = <<>> THEN 0 ELSE IF Last(findings[c]) = "panic" THEN 101 ELSE 1
           Ended(code, summary) == [code |-> code, summary |-> summary, refused |-> {}]
           Refusing(code, o) == [code |-> code, summary |-> "none", refused |-> {o}]
<1>1. verdict \in Nat
  OBVIOUS
<1> HIDE DEF verdict
<1>2. \A code \in Nat, summary \in {"none", "stopped", "complete"} : Ended(code, summary) \in Processes
  BY DEF Processes
<1>3. \A code \in {1, 64}, o \in options[c] : Refusing(code, o) \in Processes
  BY DEF Processes
<1>4. Endings(c) \subseteq {Ended(code, "complete") : code \in {0, verdict}}
                     \cup {Ended(code, "stopped") : code \in {0, 3, 124, 130}}
                     \cup {Ended(code, "none") : code \in {0, 137}}
                     \cup {Refusing(code, o) : code \in {1, 64}, o \in options[c]}
  BY DEF Endings, verdict
<1> HIDE DEF Ended, Refusing
<1>5. QED
  BY <1>1, <1>2, <1>3, <1>4

\* The model ends.
LEMMA EndModelKeeps ==
  ASSUME DriverInv, NEW c \in Commands, EndModel(c)
  PROVE  DriverInv'
<1> USE DEF DriverInv
<1>1. PICK p \in Endings(c) : process' = [process EXCEPT ![c] = p]
  BY DEF EndModel
<1>2. p \in Processes
  <2>1. options[c] \subseteq NewOptions
    BY DEF DriverTypeOK
  <2>2. QED
    BY <1>1, <2>1, EndingsAreProcesses
<1>3. DriverTypeOK'
  BY <1>1, <1>2 DEF DriverTypeOK, EndModel
<1>4. /\ command' = command /\ findings' = findings /\ disk' = disk /\ alone' = alone
      /\ options' = options /\ target' = target
      /\ progress[c] = "running" /\ progress'[c] = "ended" /\ process'[c] = p
      /\ \A d \in Commands \ {c} : progress'[d] = progress[d] /\ process'[d] = process[d]
  BY <1>1 DEF EndModel, DriverTypeOK
<1>5. DiskInv'
  <2>1. \A b \in Commands : progress[b] \in {"running", "ended", "done"} =>
           \/ progress'[b] = "done"
           \/ /\ progress'[b] \in {"running", "ended"} /\ progress[b] # "done"
              /\ findings'[b] = findings[b] /\ target'[b] = target[b]
    BY <1>4
  <2>2. QED
    BY <1>4, <2>1, DiskKept
<1>6. ASSUME NEW d \in Commands
      PROVE  Company(d, target[d])' = Company(d, target[d]) /\ (Active(d)' <=> Active(d))
  BY <1>4 DEF Company, Active, Concerns, InProject, Schedule
<1>7. ASSUME NEW d \in Commands
      PROVE  CommandInv(d)'
  <2>1. CASE d = c
    <3>1. StageAt(c)'
      BY <1>1, <1>4 DEF CommandInv, StageAt, Quota, Endings
    <3>2. AloneAt(c)'
      BY <1>4, <1>6 DEF CommandInv, AloneAt
    <3>3. \A s \in DOMAIN disk : Over(s) => Over(s)'
      BY <1>4 DEF Over, DriverTypeOK
    <3>4. ProjectAt(c)'
      <4>1. In("project")' = In("project") /\ \A i \in In("project") : Schedule("project", i) \in DOMAIN disk
        BY <1>4 DEF In
      <4>2. QED
        BY <1>4, <3>3, <4>1 DEF CommandInv, ProjectAt
    <3>5. TargetAt(c)'
      BY <1>4, <1>6, <3>3 DEF CommandInv, TargetAt, Over
    <3>6. QED
      BY <2>1, <3>1, <3>2, <3>4, <3>5 DEF CommandInv
  <2>2. CASE d # c
    <3>1. \A b \in Commands : progress[b] = "done" => progress'[b] = "done"
      BY <1>4
    <3>2. Active(d) /\ alone'[d] => Company(d, target[d])' = {}
      BY <1>4, <1>6 DEF CommandInv, AloneAt
    <3>3. QED
      BY <1>4, <2>2, <3>1, <3>2, Unconcerned
  <2>3. QED
    BY <2>1, <2>2
<1>8. QED
  BY <1>3, <1>5, <1>7

\* The model finds something, and writes a schedule for it.
LEMMA FindKeeps ==
  ASSUME DriverInv, NEW c \in Commands, Find(c)
  PROVE  DriverInv'
<1> USE DEF DriverInv
<1> DEFINE n == Len(findings[c])
           writes == command[c] = "check" \/ target[c] # Unchosen
           schedule == IF command[c] = "check" THEN Schedule("project", n) ELSE target[c]
<1>1. PICK kind \in FindingKinds :
        /\ findings' = [findings EXCEPT ![c] = Append(@, kind)]
        /\ disk' = IF writes THEN Put(schedule, [by |-> {c}, kind |-> kind]) ELSE disk
  BY DEF Find, FindingKinds
<1>2. /\ command' = command /\ process' = process /\ alone' = alone
      /\ options' = options /\ target' = target /\ progress' = progress
      /\ progress[c] = "running" /\ n < Quota(c)
      /\ findings[c] \in Seq(FindingKinds) /\ n \in Nat
      /\ command[c] \in {"check", "run", "replay"}
      /\ target[c] \in AllSchedules \cup {Unchosen}
      /\ target[c] # Unchosen => command[c] = "run"
  BY DEF Find, DriverTypeOK, Quota, CommandInv, StageAt
<1>3. /\ findings'[c] = Append(findings[c], kind)
      /\ \A d \in Commands \ {c} : findings'[d] = findings[d]
  BY <1>1 DEF DriverTypeOK
<1>4. /\ Len(findings'[c]) = n + 1 /\ findings'[c][n + 1] = kind
      /\ \A i \in 1..n : findings'[c][i] = findings[c][i]
      /\ findings'[c] # <<>> /\ findings'[c] \in Seq(FindingKinds)
  BY <1>1, <1>2, <1>3, AppendProperties
<1>5. command[c] = "check" => n < FindingsLimit /\ n \in ScheduleNumbers
  BY <1>2, ScheduleFacts DEF Quota
<1>6. writes => schedule \in AllSchedules /\ schedule \in Concern(c)
  BY <1>2, <1>5, ScheduleFacts DEF Concern, Concerns, Directories
<1>7. command[c] = "check" => schedule = Schedule("project", n) /\ schedule[2] < FindingsLimit
  BY <1>5, ScheduleFacts
<1>8. command[c] # "check" => schedule = target[c] /\ findings[c] = <<>> /\ n = 0
  BY <1>2 DEF Quota
<1>9. /\ DOMAIN disk \subseteq DOMAIN disk'
      /\ writes => DOMAIN disk' = DOMAIN disk \cup {schedule}
      /\ writes => schedule \in DOMAIN disk' /\ disk'[schedule] = [by |-> {c}, kind |-> kind]
      /\ \A s \in DOMAIN disk' : ~(writes /\ s = schedule) => s \in DOMAIN disk /\ disk'[s] = disk[s]
  <2> HIDE DEF schedule, writes
  <2>1. QED
    BY <1>1 DEF Put
<1> HIDE DEF n, writes, schedule
<1>10. DriverTypeOK'
  <2>1. findings' \in [Commands -> Seq(FindingKinds)]
    BY <1>1, <1>3, <1>4 DEF DriverTypeOK
  <2>2. DOMAIN disk' \subseteq AllSchedules
    BY <1>6, <1>9 DEF DriverTypeOK
  <2>3. ASSUME NEW s \in DOMAIN disk'
        PROVE  disk'[s] \in [by : SUBSET Commands, kind : FindingKinds]
    <3>1. CASE writes /\ s = schedule
      <4>1. disk'[s] = [by |-> {c}, kind |-> kind]
        BY <1>9, <3>1
      <4>2. {c} \in SUBSET Commands
        OBVIOUS
      <4>3. QED
        BY <4>1, <4>2
    <3>2. CASE ~(writes /\ s = schedule)
      BY <1>9, <3>2 DEF DriverTypeOK
    <3>3. QED
      BY <3>1, <3>2
  <2>4. QED
    BY <1>2, <2>1, <2>2, <2>3 DEF DriverTypeOK
<1>11. DiskInv'
  <2>1. \A s \in DOMAIN disk' : s \notin DOMAIN disk \/ disk'[s] # disk[s] => writes /\ s = schedule
    BY <1>9
  <2>2. ASSUME NEW s \in DOMAIN disk', NEW b \in disk'[s].by
        PROVE  WrittenBy(s, b)'
    <3>1. CASE writes /\ s = schedule
      <4>1. b = c
        BY <1>9, <2>2, <3>1
      <4>2. s \in Concern(c)'
        BY <1>2, <1>6, <3>1 DEF Concern, Concerns, InProject, Schedule
      <4>3. QED
        BY <1>2, <1>4, <1>7, <3>1, <4>1, <4>2 DEF WrittenBy
    <3>2. CASE ~(writes /\ s = schedule)
      <4>1. s \in DOMAIN disk /\ disk'[s] = disk[s] /\ b \in Commands /\ WrittenBy(s, b)
        BY <1>9, <2>2, <3>2 DEF DiskInv, DriverTypeOK
      <4>2. Concern(b)' = Concern(b)
        BY <1>2 DEF Concern, Concerns, InProject, Schedule
      <4>3. QED
        BY <1>2, <1>3, <1>4, <4>1, <4>2 DEF WrittenBy
    <3>3. QED
      BY <3>1, <3>2
  <2>3. ASSUME NEW s \in DOMAIN disk', ~(writes /\ s = schedule), c \in disk'[s].by
        PROVE  command[c] = "check"
    <3>1. WrittenBy(s, c)
      BY <1>9, <2>3 DEF DiskInv
    <3>2. findings[c] # <<>>
      BY <1>2, <3>1 DEF WrittenBy
    <3>3. QED
      BY <1>8, <3>2
  <2>4. ASSUME NEW s \in DOMAIN disk', NEW t \in DOMAIN disk', NEW b \in disk'[s].by \cap disk'[t].by,
               command'[b] # "check"
        PROVE  s = t
    <3>1. CASE b = c
      BY <1>2, <2>3, <2>4, <3>1
    <3>2. CASE b # c
      <4>1. ~(writes /\ s = schedule) /\ ~(writes /\ t = schedule)
        BY <1>9, <2>4, <3>2
      <4>2. /\ s \in DOMAIN disk /\ t \in DOMAIN disk /\ b \in disk[s].by \cap disk[t].by
            /\ command[b] # "check"
        BY <1>2, <1>9, <2>4, <4>1
      <4>3. QED
        BY <4>2 DEF DiskInv
    <3>3. QED
      BY <3>1, <3>2
  <2>5. ASSUME NEW s \in DOMAIN disk', s[2] > 10
        PROVE  disk'[s].by # {}
    BY <1>9, <2>5 DEF DiskInv
  <2>6. QED
    BY <2>2, <2>4, <2>5 DEF DiskInv
<1>12. ASSUME NEW d \in Commands
       PROVE  Company(d, target[d])' = Company(d, target[d]) /\ (Active(d)' <=> Active(d))
  BY <1>2 DEF Company, Active, Concerns, InProject, Schedule
<1>13. ASSUME NEW d \in Commands
       PROVE  CommandInv(d)'
  <2>1. CASE d = c
    <3>1. StageAt(c)'
      <4>1. Len(findings'[c]) <= Quota(c)'
        BY <1>2, <1>4, ScheduleFacts DEF Quota
      <4>2. QED
        BY <1>2, <4>1 DEF CommandInv, StageAt
    <3>2. AloneAt(c)'
      BY <1>2, <1>12 DEF CommandInv, AloneAt
    <3>3. ProjectAt(c)'
      <4>1. SUFFICES ASSUME command[c] = "check", alone[c]
                     PROVE  /\ \A k \in 1..Len(findings'[c]) :
                                 /\ Schedule("project", k - 1) \in DOMAIN disk'
                                 /\ disk'[Schedule("project", k - 1)] = [by |-> {c}, kind |-> findings'[c][k]]
                            /\ \A i \in In("project")' : i >= Len(findings'[c]) => Over(Schedule("project", i))'
        BY <1>2 DEF ProjectAt
      <4>2. /\ \A k \in 1..n :
                 /\ Schedule("project", k - 1) \in DOMAIN disk
                 /\ disk[Schedule("project", k - 1)] = [by |-> {c}, kind |-> findings[c][k]]
            /\ \A i \in In("project") : i >= n => Over(Schedule("project", i))
        BY <1>2, <4>1 DEF CommandInv, ProjectAt, n
      <4>3. writes /\ schedule = Schedule("project", n)
        BY <1>7, <4>1 DEF writes
      <4>4. ASSUME NEW i \in Nat, i # n, Schedule("project", i) \in DOMAIN disk'
            PROVE  Schedule("project", i) \in DOMAIN disk /\ disk'[Schedule("project", i)] = disk[Schedule("project", i)]
        BY <1>9, <4>3, <4>4, ScheduleFacts
      <4>5. ASSUME NEW k \in 1..(n + 1)
            PROVE  /\ Schedule("project", k - 1) \in DOMAIN disk'
                   /\ disk'[Schedule("project", k - 1)] = [by |-> {c}, kind |-> findings'[c][k]]
        <5>1. CASE k = n + 1
          <6>1. k - 1 = n
            BY <1>2, <5>1
          <6>2. Schedule("project", k - 1) = schedule
            BY <4>3, <6>1
          <6>3. QED
            BY <1>4, <1>9, <4>3, <5>1, <6>2
        <5>2. CASE k # n + 1
          <6>1. k \in 1..n /\ k - 1 \in Nat /\ k - 1 # n
            BY <1>2, <5>2
          <6>2. Schedule("project", k - 1) \in DOMAIN disk'
            BY <1>9, <4>2, <6>1
          <6>3. QED
            BY <1>4, <4>2, <4>4, <6>1, <6>2
        <5>3. QED
          BY <5>1, <5>2
      <4>6. ASSUME NEW i \in In("project")', i >= n + 1
            PROVE  Over(Schedule("project", i))'
        <5>1. i \in ScheduleNumbers /\ Schedule("project", i) \in DOMAIN disk' /\ i \in Nat /\ i # n /\ i >= n
          BY <1>2, <4>6, ScheduleFacts DEF In
        <5>2. i \in In("project") /\ disk'[Schedule("project", i)] = disk[Schedule("project", i)]
          BY <4>4, <5>1 DEF In
        <5>3. Over(Schedule("project", i))
          BY <4>2, <5>1, <5>2
        <5>4. QED
          BY <1>2, <5>2, <5>3 DEF Over
      <4>7. QED
        BY <1>4, <4>5, <4>6
    <3>4. TargetAt(c)'
      <4>1. SUFFICES ASSUME command[c] = "run", target[c] # Unchosen
                     PROVE  /\ target[c] \in DOMAIN disk'
                            /\ disk'[target[c]] = [by |-> {c}, kind |-> findings'[c][1]]
        BY <1>2, <1>4 DEF TargetAt
      <4>2. n = 0 /\ schedule = target[c] /\ writes
        BY <1>8, <4>1 DEF writes
      <4>3. findings'[c][1] = kind
        BY <1>4, <4>2
      <4>4. QED
        BY <1>9, <4>2, <4>3
    <3>5. QED
      BY <2>1, <3>1, <3>2, <3>3, <3>4 DEF CommandInv
  <2>2. CASE d # c
    <3>1. Active(c)
      BY <1>2 DEF Active
    <3>2. ASSUME NEW s \in Concern(d), Active(d), alone'[d], s \in DOMAIN disk'
          PROVE  s \in DOMAIN disk /\ disk'[s] = disk[s]
      <4>1. Concern(c) \cap Concern(d) = {}
        BY <1>2, <2>2, <3>1, <3>2, Separate
      <4>2. ~(writes /\ s = schedule)
        BY <1>6, <3>2, <4>1
      <4>3. QED
        BY <1>9, <3>2, <4>2
    <3>3. Active(d) /\ alone'[d] => Company(d, target[d])' = {}
      BY <1>2, <1>12 DEF CommandInv, AloneAt
    <3>4. \A s \in Concern(d) : s \in DOMAIN disk => s \in DOMAIN disk'
      BY <1>9
    <3>5. \A b \in Commands : progress[b] = "done" => progress'[b] = "done"
      BY <1>2
    <3>6. QED
      BY <1>2, <1>3, <2>2, <3>2, <3>3, <3>4, <3>5, Unconcerned
  <2>3. QED
    BY <2>1, <2>2
<1>14. QED
  BY <1>10, <1>11, <1>13

----------------------------------------------------------------------------
(* The theorems. *)

\* Every step keeps the invariant.
LEMMA DriverKeeps ==
  ASSUME DriverInv, [DriverNext]_driverVars
  PROVE  DriverInv'
<1>1. CASE UNCHANGED driverVars
  <2>1. DriverTypeOK'
    BY <1>1 DEF driverVars, DriverInv, DriverTypeOK
  <2>2. DiskInv'
    BY <1>1 DEF driverVars, DriverInv, DiskInv, WrittenBy, Concern, Concerns, InProject, Schedule
  <2>3. ASSUME NEW c \in Commands
        PROVE  CommandInv(c)'
    <3>1. Company(c, target[c])' = Company(c, target[c])
      BY <1>1 DEF driverVars, Company, Active, Concerns, InProject, Schedule
    <3>2. Active(c) /\ alone'[c] => Company(c, target[c])' = {}
      BY <1>1, <3>1 DEF driverVars, DriverInv, CommandInv, AloneAt
    <3>3. QED
      BY <1>1, <3>2, Unconcerned DEF driverVars, DriverInv
  <2>4. QED
    BY <2>1, <2>2, <2>3 DEF DriverInv
<1>2. ASSUME NEW c \in Commands, RefuseOptions(c) PROVE DriverInv'
  BY <1>2, EndWithKeeps DEF RefuseOptions
<1>3. ASSUME NEW c \in Commands, Translate(c) PROVE DriverInv'
  BY <1>3, TranslateKeeps
<1>4. ASSUME NEW c \in Commands, PrepareRun(c) PROVE DriverInv'
  <2>1. PICK schedule \in RunSchedules : \E argv : Ready(c, argv, schedule)
    BY <1>4 DEF PrepareRun
  <2> PICK argv : Ready(c, argv, schedule)
    BY <2>1
  <2>2. RunDirectory \in Directories /\ "named" \in Directories
    BY DEF RunDirectory, Directories
  <2>3. AvailableSchedule(RunDirectory) \in ScheduleNumbers
    BY <2>2, FreeSchedule DEF DriverInv
  <2>4. schedule \in AllSchedules \cup {Unchosen}
    <3>1. Schedule("named", 0) \in AllSchedules
      BY <2>2, ScheduleFacts
    <3>2. Schedule(RunDirectory, AvailableSchedule(RunDirectory)) \in AllSchedules
      BY <2>2, <2>3, ScheduleFacts
    <3>3. QED
      BY <2>1, <3>1, <3>2 DEF RunSchedules
  <2>5. progress[c] = "prepared" /\ command[c] = "run"
    BY <1>4 DEF PrepareRun
  <2>6. QED
    BY <2>4, <2>5, ReadyKeeps
<1>5. ASSUME NEW c \in Commands, PrepareCheck(c) PROVE DriverInv'
  <2>1. PICK argv : Ready(c, argv, Unchosen)
    BY <1>5 DEF PrepareCheck
  <2>2. progress[c] = "prepared"
    BY <1>5 DEF PrepareCheck
  <2>3. QED
    BY <2>1, <2>2, ReadyKeeps
<1>6. ASSUME NEW c \in Commands, PrepareReplay(c) PROVE DriverInv'
  BY <1>6, ReadyKeeps DEF PrepareReplay
<1>7. ASSUME NEW c \in Commands, StartModel(c) PROVE DriverInv'
  BY <1>7, StartModelKeeps
<1>8. ASSUME NEW c \in Commands, Find(c) PROVE DriverInv'
  BY <1>8, FindKeeps
<1>9. ASSUME NEW c \in Commands, EndModel(c) PROVE DriverInv'
  BY <1>9, EndModelKeeps
<1>10. ASSUME NEW c \in Commands, ReportRejected(c) PROVE DriverInv'
  BY <1>10, EndWithKeeps DEF ReportRejected
<1>11. ASSUME NEW c \in Commands, ReportCheck(c) PROVE DriverInv'
  BY <1>11, EndWithKeeps DEF ReportCheck
<1>12. ASSUME NEW c \in Commands, ReportRun(c) PROVE DriverInv'
  BY <1>12, EndWithKeeps DEF ReportRun
<1>13. ASSUME NEW c \in Commands, ReportReplay(c) PROVE DriverInv'
  BY <1>13, EndWithKeeps DEF ReportReplay
<1>14. QED
  BY <1>1, <1>2, <1>3, <1>4, <1>5, <1>6, <1>7, <1>8, <1>9, <1>10, <1>11, <1>12, <1>13 DEF DriverNext

\* The invariant holds whatever commands are given, and whatever earlier ones have left.
THEOREM DriverInvariant ==
  DriverSpec => []DriverInv
<1>1. DriverInit => DriverInv
  BY DriverStarts
<1>2. DriverInv /\ [DriverNext]_driverVars => DriverInv'
  BY DriverKeeps
<1>3. QED
  BY <1>1, <1>2, PTL DEF DriverSpec

\* A check that exits with 0 has a summary, and says what it is.
LEMMA CompleteWhenDone ==
  ASSUME DriverInv, NEW c \in Commands
  PROVE  SuccessIsComplete(c)
<1>1. SUFFICES ASSUME progress[c] = "ended", ~RejectedOption(process[c]), ExitStatus(c) = 0
               PROVE  SuccessIsComplete(c)
  BY DEF SuccessIsComplete
<1>2. process[c] \in Processes
  BY DEF DriverInv, DriverTypeOK
<1>3. process[c].code = 0
  BY <1>1 DEF ExitStatus, CheckExit
<1>4. command[c] = "check" => ~ParseFailure(process[c])
  BY <1>1, <1>3 DEF ExitStatus, CheckExit
<1>5. command[c] = "check" /\ process[c].summary # "stopped" =>
        CheckVerdict(c) = IF findings[c] = <<>> THEN "nothing found" ELSE "found"
  BY <1>4 DEF CheckVerdict
<1>6. command[c] = "check" /\ process[c].summary = "stopped" => CheckVerdict(c) = "incomplete"
  BY <1>4 DEF CheckVerdict
<1>7. QED
  BY <1>3, <1>5, <1>6 DEF SuccessIsComplete, DocumentedStatus

\* A command that exits with 0 has found nothing and a check is complete, if the model keeps
\* to its documented statuses; a check has a summary in any case: driver.py's check_exit for
\* every way in which a model may end, with other commands at work in the project.
THEOREM SuccessIsAlwaysComplete ==
  DriverSpec => [](\A c \in Commands : SuccessIsComplete(c))
<1>1. DriverInv => \A c \in Commands : SuccessIsComplete(c)
  BY CompleteWhenDone
<1>2. QED
  BY <1>1, DriverInvariant, PTL

\* Among names of one digit the order is that of the numbers: the first n schedules are
\* counted by themselves, and the others from n on.
LEMMA IndexInOrder ==
  ASSUME NEW n \in Nat, \A i \in 0..(n - 1) : i \in In("project"),
         In("project") \subseteq 0..9, NEW i \in In("project")
  PROVE  /\ Index(i) \in Nat
         /\ i < n => Index(i) = i
         /\ i >= n => Index(i) >= n
<1> DEFINE Before == {j \in In("project") : NameBefore(j, i)}
<1>1. \A j \in In("project") : NameBefore(j, i) <=> j < i
  BY DEF NameBefore
<1>2. Before = {j \in In("project") : j < i} /\ i \in 0..9
  BY <1>1
<1>3. IsFiniteSet(In("project"))
  BY FS_Subset, ScheduleFacts DEF In
<1>4. IsFiniteSet(Before)
  BY <1>3, FS_Subset
<1>5. Index(i) = Cardinality(Before)
  BY DEF Index
<1>6. \A m \in Nat : IsFiniteSet(0..(m - 1)) /\ Cardinality(0..(m - 1)) = m
  <2>1. TAKE m \in Nat
  <2>2. CASE m = 0
    <3>1. 0..(m - 1) = {}
      BY <2>2
    <3>2. QED
      BY <2>2, <3>1, FS_EmptySet
  <2>3. CASE m # 0
    <3>1. m - 1 \in Nat
      BY <2>3
    <3>2. QED
      BY <3>1, FS_Interval
  <2>4. QED
    BY <2>2, <2>3
<1>7. i < n => Before = 0..(i - 1)
  BY <1>2
<1>8. i >= n => 0..(n - 1) \subseteq Before
  BY <1>2
<1>9. Cardinality(Before) \in Nat
  BY <1>4, FS_CardinalityType
<1>10. i >= n => Cardinality(Before) >= n
  <2>1. SUFFICES ASSUME i >= n PROVE Cardinality(Before) >= n
    OBVIOUS
  <2>2. Cardinality(0..(n - 1)) <= Cardinality(Before)
    BY <1>4, <1>8, <2>1, FS_Subset
  <2>3. QED
    BY <1>6, <1>9, <2>2
<1>11. i < n => Cardinality(Before) = i
  <2>1. i \in Nat
    BY <1>2
  <2> HIDE DEF Before
  <2>2. QED
    BY <1>6, <1>7, <2>1
<1>12. QED
  BY <1>5, <1>9, <1>10, <1>11

\* A check gives hints for its findings, and for what was there before.
LEMMA CheckHintsWhenDone ==
  ASSUME DriverInv, NEW c \in Commands, command[c] = "check", progress[c] = "ended", alone[c]
  PROVE  HintsReplayFindings(c)
<1> USE DEF DriverInv
<1> DEFINE n == Len(findings[c])
<1>1. n \in Nat /\ process[c] \in Processes /\ DOMAIN findings[c] = 1..n
  BY DEF DriverTypeOK
<1>2. /\ \A k \in 1..n :
           /\ Schedule("project", k - 1) \in DOMAIN disk
           /\ disk[Schedule("project", k - 1)] = [by |-> {c}, kind |-> findings[c][k]]
      /\ \A i \in In("project") : i >= n => Over(Schedule("project", i))
  BY DEF CommandInv, ProjectAt
<1>3. \A k \in 1..n : k - 1 \in In("project")
  <2>1. TAKE k \in 1..n
  <2>2. n <= FindingsLimit
    BY DEF CommandInv, StageAt, Quota
  <2>3. k - 1 \in 0..10
    BY <1>1, <2>2, ScheduleFacts
  <2>4. QED
    BY <1>2, <2>3, ScheduleFacts DEF In
<1>4. \A i \in 0..(n - 1) : i \in In("project")
  <2>1. TAKE i \in 0..(n - 1)
  <2>2. i + 1 \in 1..n /\ (i + 1) - 1 = i
    BY <1>1
  <2>3. QED
    BY <1>3, <2>2
<1>5. In("project") \subseteq Nat
  BY ScheduleFacts DEF In
<1> HIDE DEF n
<1>6. CheckHints(c) \subseteq {Hint(Schedule("project", i), Panicked(c, Index(i))) : i \in In("project")}
  BY DEF CheckHints
<1>7. ASSUME NEW i \in In("project")
      PROVE  LET hint == Hint(Schedule("project", i), Panicked(c, Index(i)))
             IN hint.schedule \in DOMAIN disk /\ (Replays(c, hint) \/ Outdated(c, hint))
  <2> DEFINE hint == Hint(Schedule("project", i), Panicked(c, Index(i)))
  <2>1. /\ hint.schedule = Schedule("project", i) /\ hint.checkProperty = Panicked(c, Index(i))
        /\ Schedule("project", i) \in DOMAIN disk /\ i \in Nat
    BY <1>5 DEF Hint, In
  <2> HIDE DEF hint
  <2>2. InOrder(c) => /\ Index(i) \in Nat
                      /\ i < n => Index(i) = i
                      /\ i >= n => Index(i) >= n
    BY <1>1, <1>4, IndexInOrder DEF InOrder
  <2>3. KindsRead(c) = findings[c] \/ KindsRead(c) = <<>>
    BY DEF KindsRead
  <2>4. CASE i < n
    <3>1. i + 1 \in 1..n /\ (i + 1) - 1 = i
      BY <1>1, <2>1, <2>4
    <3>2. disk[Schedule("project", i)] = [by |-> {c}, kind |-> findings[c][i + 1]]
      BY <1>2, <3>1
    <3>3. process[c].summary = "complete" /\ InOrder(c) =>
            (Panicked(c, Index(i)) <=> findings[c][i + 1] = "panic")
      BY <2>2, <2>4 DEF Panicked, KindsRead, n
    <3>4. Replays(c, hint)
      BY <2>1, <3>2, <3>3 DEF Replays
    <3>5. QED
      BY <2>1, <3>4 DEF hint
  <2>5. CASE i >= n
    <3>1. InOrder(c) => ~Panicked(c, Index(i))
      <4>1. SUFFICES ASSUME InOrder(c), Panicked(c, Index(i)) PROVE FALSE
        OBVIOUS
      <4>2. Index(i) < Len(KindsRead(c)) /\ Index(i) \in Nat /\ Index(i) >= n
        BY <2>2, <2>5, <4>1 DEF Panicked
      <4>3. Len(KindsRead(c)) = n \/ Len(KindsRead(c)) = 0
        BY <2>3 DEF n
      <4>4. QED
        BY <1>1, <4>2, <4>3
    <3>2. Over(Schedule("project", i))
      BY <1>2, <2>5
    <3>3. Outdated(c, hint)
      BY <2>1, <3>1, <3>2 DEF Outdated, Over
    <3>4. QED
      BY <2>1, <3>3 DEF hint
  <2>6. QED
    BY <1>1, <2>1, <2>4, <2>5
<1>8. \A hint \in CheckHints(c) :
        hint.schedule \in DOMAIN disk /\ (Replays(c, hint) \/ Outdated(c, hint))
  BY <1>6, <1>7
<1>9. ASSUME GivesHints(c), NEW k \in DOMAIN findings[c]
      PROVE  /\ disk[ScheduleOf(c, k)] = [by |-> {c}, kind |-> findings[c][k]]
             /\ \E hint \in CheckHints(c) : hint.schedule = ScheduleOf(c, k)
  <2>1. k \in 1..n /\ ScheduleOf(c, k) = Schedule("project", k - 1)
    BY <1>1 DEF ScheduleOf
  <2>2. k - 1 \in In("project")
    BY <1>3, <2>1
  <2>3. Hint(Schedule("project", k - 1), Panicked(c, Index(k - 1))) \in CheckHints(c)
    BY <1>9, <2>2 DEF CheckHints, GivesHints
  <2>4. Hint(Schedule("project", k - 1), Panicked(c, Index(k - 1))).schedule = Schedule("project", k - 1)
    BY DEF Hint
  <2>5. QED
    BY <1>2, <2>1, <2>3, <2>4
<1>10. QED
  BY <1>8, <1>9 DEF HintsReplayFindings

\* A run gives a hint for its finding, or for what was there under the name it was given.
LEMMA RunHintsWhenDone ==
  ASSUME DriverInv, NEW c \in Commands, command[c] # "check", progress[c] = "ended", alone[c]
  PROVE  HintsReplayFindings(c)
<1> USE DEF DriverInv
<1> DEFINE n == Len(findings[c])
<1>1. /\ process[c] \in Endings(c) /\ findings[c] \in Seq(FindingKinds) /\ n \in Nat
      /\ Active(c) /\ process[c] \in Processes /\ DOMAIN findings[c] = 1..n
      /\ target[c] # Unchosen => command[c] = "run"
      /\ n <= 1
  BY DEF CommandInv, StageAt, DriverTypeOK, Active, Quota
<1>2. target[c] \in DOMAIN disk => target[c] # Unchosen
  BY ScheduleFacts DEF DriverTypeOK
<1>3. target[c] # Unchosen =>
        /\ findings[c] # <<>> =>
             target[c] \in DOMAIN disk /\ disk[target[c]] = [by |-> {c}, kind |-> findings[c][1]]
        /\ findings[c] = <<>> /\ target[c] \in DOMAIN disk => Over(target[c])
  BY <1>1 DEF CommandInv, TargetAt
<1>4. ASSUME NEW hint \in RunHints(c)
      PROVE  hint.schedule \in DOMAIN disk /\ (Replays(c, hint) \/ Outdated(c, hint))
  <2>1. /\ hint.schedule = target[c] /\ target[c] \in DOMAIN disk /\ target[c] # Unchosen
        /\ hint.checkProperty = (process[c].code = 101)
        /\ process[c].code \notin {0, 124, 130}
    BY <1>2, <1>4 DEF RunHints, Hint, RunGivesHint
  <2>2. CASE findings[c] = <<>>
    <3>1. Over(target[c])
      BY <1>3, <2>1, <2>2
    <3>2. process[c].code # 101
      BY <1>1, <2>2 DEF Endings
    <3>3. Outdated(c, hint)
      BY <2>1, <3>1, <3>2 DEF Outdated, Over
    <3>4. QED
      BY <2>1, <3>3
  <2>3. CASE findings[c] # <<>>
    <3>1. disk[target[c]] = [by |-> {c}, kind |-> findings[c][1]]
      BY <1>3, <2>1, <2>3
    <3>2. n = 1
      <4>1. n # 0
        BY <1>1, <2>3, EmptySeq
      <4> HIDE DEF n, DriverInv
      <4>2. QED
        BY <1>1, <4>1
    <3>3. Last(findings[c]) = findings[c][1]
      BY <3>2 DEF Last
    <3>4. process[c].summary = "complete" => (process[c].code = 101 <=> findings[c][1] = "panic")
      BY <1>1, <2>1, <2>3, <3>3 DEF Endings
    <3>5. Replays(c, hint)
      <4>1. disk[hint.schedule].by = {c} /\ disk[hint.schedule].kind = findings[c][1]
        BY <2>1, <3>1
      <4>2. process[c].summary = "complete" =>
              (hint.checkProperty <=> disk[hint.schedule].kind = "panic")
        BY <2>1, <3>4, <4>1
      <4>3. QED
        BY <4>1, <4>2 DEF Replays
    <3>6. QED
      BY <2>1, <3>5
  <2>4. QED
    BY <2>2, <2>3
<1>5. ASSUME GivesHints(c), NEW k \in DOMAIN findings[c]
      PROVE  /\ disk[ScheduleOf(c, k)] = [by |-> {c}, kind |-> findings[c][k]]
             /\ \E hint \in RunHints(c) : hint.schedule = ScheduleOf(c, k)
  <2>1. k = 1 /\ findings[c] # <<>> /\ ScheduleOf(c, k) = target[c]
    BY <1>1 DEF ScheduleOf
  <2>2. target[c] # Unchosen /\ RunGivesHint(process[c])
    BY <1>5 DEF GivesHints
  <2>3. target[c] \in DOMAIN disk /\ disk[target[c]] = [by |-> {c}, kind |-> findings[c][1]]
    BY <1>3, <2>1, <2>2
  <2>4. Hint(target[c], process[c].code = 101) \in RunHints(c)
    BY <2>2, <2>3 DEF RunHints
  <2>5. QED
    BY <2>1, <2>3, <2>4 DEF Hint
<1>6. QED
  BY <1>4, <1>5 DEF HintsReplayFindings

\* The replay commands that check_command and run_command print are for what their own
\* models have found, while no other command has to do with their schedules: all of it has
\* one, and the schedules of earlier commands that parse_check finds in the project come
\* after them, so that --check-property goes to the right ones.
THEOREM HintsAlwaysReplay ==
  DriverSpec => []HintsAreForFindings
<1>1. DriverInv => HintsAreForFindings
  <2>1. SUFFICES ASSUME DriverInv, NEW c \in Commands PROVE HintsReplayFindings(c)
    BY DEF HintsAreForFindings
  <2>2. SUFFICES ASSUME progress[c] = "ended", alone[c] PROVE HintsReplayFindings(c)
    BY DEF HintsReplayFindings
  <2>3. QED
    BY <2>1, <2>2, CheckHintsWhenDone, RunHintsWhenDone
<1>2. QED
  BY <1>1, DriverInvariant, PTL

----------------------------------------------------------------------------
(* The external checkers. *)

FileNames ==
  {"base", "wrapper", "cfg", "Variants", "log", "violation", "raw", "itf"} \X Nat

\* What a file says of the request that wrote it: the directories that are not the
\* user's belong to one request each.
FilesInv ==
  /\ served \in Nat
  /\ \A f \in DOMAIN files :
       /\ f \in Nat \X FileNames
       /\ files[f] \in Nat /\ files[f] <= served /\ f[1] <= served
       /\ stage = "accepted" => files[f] < served /\ f[1] < served

RequestInv ==
  /\ stage \in {"idle", "accepted", "generated", "ended", "done", "failed"}
  /\ stage # "idle" => served > 0 /\ request \in CheckerRequests /\ Accepted(request)

\* The modules are in their place while the checker reads them.
GeneratedInv ==
  stage \in {"generated", "ended"} =>
    /\ \A f \in InDir(Generated) : f \in DOMAIN files /\ files[f] = served
    /\ InDir(SupportModules) \subseteq DOMAIN files

\* What a checker may have reported, and the counterexamples of Apalache.
ReportOK ==
  /\ report.code \in Nat /\ report.violated \in BOOLEAN
  /\ \E n \in 0..3 : report.traces \in [1..n -> {"predicate", "deadlock"}]
  /\ report.unread \subseteq DOMAIN report.traces
  /\ report.violated /\ DOMAIN report.traces = {} => report.code # 0 /\ request.kind = "temporal"
  /\ DOMAIN report.traces # {} => report.violated \/ "deadlock" \in ToSet(report.traces)
  /\ request.tool = "Apalache" =>
       /\ report.violated <=> DOMAIN report.traces # {}
       /\ report.violated => report.code # 0
FreshViolations == {i \in ViolationFiles : files[<<OutputDir, ViolationFile(i)>>] = served}
ReportInv ==
  /\ stage = "generated" => FreshViolations = {}
  /\ stage = "ended" =>
       /\ ReportOK
       /\ request.tool = "Apalache" => FreshViolations = DOMAIN report.traces

CheckersInv ==
  /\ FilesInv
  /\ RequestInv
  /\ GeneratedInv
  /\ ReportInv
  /\ VerdictIsTheCheckers
  /\ FilesAreItsOwn

----------------------------------------------------------------------------
(* The traces that are taken. *)

LEMMA FirstNumbers ==
  ASSUME NEW n \in Nat
  PROVE  IsFiniteSet(1..n) /\ Cardinality(1..n) = n
<1>1. n \in Int /\ 1 \in Int
  OBVIOUS
<1>2. IsFiniteSet(1..n) /\ Cardinality(1..n) = IF 1 > n THEN 0 ELSE n - 1 + 1
  BY <1>1, FS_Interval
<1>3. QED
  BY <1>2

\* The counterexamples are at most three.
LEMMA FewViolations ==
  /\ ViolationFiles \subseteq {1, 2, 3}
  /\ IsFiniteSet(ViolationFiles)
<1>1. 1..3 = {1, 2, 3}
  OBVIOUS
<1>2. IsFiniteSet({1, 2, 3})
  <2>1. IsFiniteSet(1..3)
    BY FirstNumbers
  <2>2. QED
    BY <1>1, <2>1
<1>3. ViolationFiles \subseteq {1, 2, 3}
  BY <1>1 DEF ViolationFiles
<1>4. QED
  BY <1>2, <1>3, FS_Subset

\* How many numbers up to i are in 1..n.
LEMMA NumbersUpTo ==
  ASSUME NEW n \in Nat, NEW i \in 1..n
  PROVE  Cardinality({j \in 1..n : j <= i}) = i
<1>1. {j \in 1..n : j <= i} = 1..i
  OBVIOUS
<1>2. i \in Nat /\ IsFiniteSet(1..i) /\ Cardinality(1..i) = i
  BY FirstNumbers
<1>3. QED
  BY <1>1, <1>2

LEMMA FirstTaken ==
  ASSUME NEW V \in SUBSET {1, 2, 3}, V # {}
  PROVE  \E i \in V : Cardinality({j \in V : j <= i}) = 1
<1>0. /\ \A j \in V : j = 1 \/ j = 2 \/ j = 3
      /\ 1 <= 1 /\ 2 <= 2 /\ 3 <= 3 /\ ~(2 <= 1) /\ ~(3 <= 1) /\ ~(3 <= 2)
  OBVIOUS
<1>1. PICK i \in V : {j \in V : j <= i} = {i}
  <2>1. CASE 1 \in V
    <3>1. {j \in V : j <= 1} = {1}
      BY <1>0, <2>1, Zenon
    <3>2. QED
      BY <2>1, <3>1
  <2>2. CASE 1 \notin V /\ 2 \in V
    <3>1. {j \in V : j <= 2} = {2}
      BY <1>0, <2>2, Zenon
    <3>2. QED
      BY <2>2, <3>1
  <2>3. CASE 1 \notin V /\ 2 \notin V
    <3>1. V = {3} /\ {j \in V : j <= 3} = {3}
      BY <1>0, <2>3, Zenon
    <3>2. QED
      BY <3>1
  <2>4. QED
    BY <2>1, <2>2, <2>3
<1>3. Cardinality({i}) = 1
  BY FS_Singleton
<1>4. QED
  BY <1>1, <1>3

\* Something is found exactly if there are traces to take.
LEMMA FoundTraces ==
  ASSUME request \in CheckerRequests, Accepted(request), ReportOK
  PROVE  /\ request.tool = "TLC" => (Found <=> DOMAIN report.traces # {})
         /\ request.tool = "Apalache" => (Found <=> ViolationFiles # {})
         /\ TracesTaken \subseteq {1, 2, 3}
<1>1. PICK n \in 0..3 : report.traces \in [1..n -> {"predicate", "deadlock"}]
  BY DEF ReportOK
<1>2. DOMAIN report.traces = 1..n /\ Len(report.traces) = n
  <2>1. report.traces \in Seq({"predicate", "deadlock"}) /\ DOMAIN report.traces = 1..n
    BY <1>1
  <2>2. Len(report.traces) \in Nat /\ DOMAIN report.traces = 1..Len(report.traces)
    BY <2>1, LenProperties
  <2>3. QED
    BY <2>1, <2>2
<1>3. request.maxFindings \in Nat /\ request.maxFindings >= 1
  BY DEF Accepted, CheckerRequests
<1>4. ASSUME request.tool = "TLC"
      PROVE  /\ Found <=> DOMAIN report.traces # {}
             /\ TracesTaken \subseteq {1, 2, 3}
  <2>1. TracesTaken = 1..Lesser(n, request.maxFindings)
    BY <1>2, <1>4 DEF TracesTaken
  <2>2. Lesser(n, request.maxFindings) \in 0..3 /\ (Lesser(n, request.maxFindings) = 0 <=> n = 0)
    BY <1>3 DEF Lesser
  <2>3. \A k \in 0..3 : 1..k \subseteq {1, 2, 3} /\ (1..k # {} <=> k # 0)
    OBVIOUS
  <2>4. QED
    BY <1>2, <2>1, <2>2, <2>3 DEF Found
<1>5. ASSUME request.tool = "Apalache"
      PROVE  /\ Found <=> ViolationFiles # {}
             /\ TracesTaken \subseteq {1, 2, 3}
  <2>1. TracesTaken = {i \in ViolationFiles : Cardinality({j \in ViolationFiles : j <= i}) <= request.maxFindings}
    BY <1>5 DEF TracesTaken
  <2>2. ViolationFiles # {} => \E i \in ViolationFiles : Cardinality({j \in ViolationFiles : j <= i}) = 1
    BY FewViolations, FirstTaken
  <2>3. QED
    BY <1>3, <2>1, <2>2, FewViolations DEF Found
<1>6. QED
  BY <1>4, <1>5 DEF CheckerRequests

LEMMA FiniteTaken ==
  ASSUME NEW T \in SUBSET {1, 2, 3}
  PROVE  IsFiniteSet(T) /\ Cardinality(T) \in Nat
<1>1. 1..3 = {1, 2, 3}
  OBVIOUS
<1>2. IsFiniteSet(1..3)
  BY FirstNumbers
<1>3. IsFiniteSet(T)
  BY <1>1, <1>2, FS_Subset
<1>4. QED
  BY <1>3, FS_CardinalityType

\* There is an ITF trace for each trace that is read.
LEMMA AsManyItf ==
  ASSUME TracesRead \in SUBSET {1, 2, 3}
  PROVE  Cardinality(ItfTraces) = Cardinality(TracesRead)
<1> DEFINE k == Cardinality(TracesRead)
           name == [i \in 1..k |-> <<"itf", i>>]
<1>1. k \in Nat
  BY FiniteTaken
<1>2. ItfTraces = {<<"itf", i>> : i \in 1..k}
  BY DEF ItfTraces
<1> HIDE DEF k
<1>3. IsFiniteSet(1..k) /\ Cardinality(1..k) = k
  BY <1>1, FirstNumbers
<1>4. name \in Bijection(1..k, ItfTraces)
  BY <1>2 DEF Bijection, Injection, Surjection, IsInjective
<1> HIDE DEF name
<1>5. Cardinality(ItfTraces) = k
  BY <1>3, <1>4, FS_Bijection DEF ExistsBijection
<1>6. QED
  BY <1>5 DEF k

----------------------------------------------------------------------------
(* The steps of a request. *)

\* What depends on the request alone stays during it.
LEMMA SameRequest ==
  ASSUME UNCHANGED <<served, request>>
  PROVE  /\ OutputDir' = OutputDir /\ Generated' = Generated /\ SupportModules' = SupportModules
         /\ \A names : InDir(names)' = InDir(names)
         /\ Accepted(request)' = Accepted(request)
<1>1. OutputDir' = OutputDir /\ Generated' = Generated /\ SupportModules' = SupportModules
  BY DEF OutputDir, Generated, SupportModules
<1>2. QED
  BY <1>1 DEF InDir, Accepted

\* Files that are kept or written by this request are in order.
LEMMA FilesKeep ==
  ASSUME FilesInv, RequestInv, stage # "idle", stage' # "accepted", UNCHANGED <<served, request>>,
         \A f \in DOMAIN files' : \/ f \in DOMAIN files /\ files'[f] = files[f]
                                  \/ f \in InDir(FileNames) /\ files'[f] = served
  PROVE  FilesInv'
<1>1. OutputDir \in Nat /\ OutputDir <= served
  BY DEF OutputDir, FilesInv, RequestInv
<1>2. ASSUME NEW f \in DOMAIN files'
      PROVE  /\ f \in Nat \X FileNames
             /\ files'[f] \in Nat /\ files'[f] <= served /\ f[1] <= served
  <2>1. CASE f \in DOMAIN files /\ files'[f] = files[f]
    BY <2>1 DEF FilesInv
  <2>2. CASE f \in InDir(FileNames) /\ files'[f] = served
    <3>1. PICK name \in FileNames : f = <<OutputDir, name>>
      BY <2>2 DEF InDir
    <3>2. f \in Nat \X FileNames /\ f[1] = OutputDir
      BY <1>1, <3>1
    <3>3. QED
      BY <1>1, <2>2, <3>2 DEF FilesInv
  <2>3. QED
    BY <1>2, <2>1, <2>2
<1>3. QED
  BY <1>2 DEF FilesInv

\* What Write leaves.
LEMMA WriteLeaves ==
  ASSUME NEW names
  PROVE  /\ DOMAIN Write(names) = DOMAIN files \cup InDir(names)
         /\ \A f \in InDir(names) : Write(names)[f] = served
         /\ \A f \in DOMAIN files \ InDir(names) : Write(names)[f] = files[f]
BY DEF Write

\* The names of the files of each kind.
LEMMA NamesDiffer ==
  /\ Generated \subseteq FileNames /\ SupportModules \subseteq FileNames
  /\ Named("base") \in Generated
  /\ \A i : ViolationFile(i) \notin Generated \cup SupportModules
  /\ \A i, j : ViolationFile(i) # <<"raw", j>> /\ ViolationFile(i) # <<"itf", j>>
  /\ \A i, j : ViolationFile(i) = ViolationFile(j) => i = j
  /\ \A i \in Nat : ViolationFile(i) \in FileNames /\ <<"raw", i>> \in FileNames /\ <<"itf", i>> \in FileNames
  /\ Named("log") \in FileNames /\ \A i : ViolationFile(i) # Named("log")
BY DEF FileNames, Generated, SupportModules, Named, ViolationFile

\* A name in a directory.
LEMMA InTheDirectory ==
  ASSUME NEW names, NEW name
  PROVE  <<OutputDir, name>> \in InDir(names) <=> name \in names
BY DEF InDir

LEMMA SubmitKeeps ==
  ASSUME CheckersInv, Submit
  PROVE  CheckersInv'
<1>1. served \in Nat /\ served' = served + 1 /\ stage = "idle" /\ stage' = "accepted" /\ files' = files
  BY DEF CheckersInv, FilesInv, Submit
<1>2. FilesInv'
  <2>1. ASSUME NEW f \in DOMAIN files
        PROVE  /\ f \in Nat \X FileNames
               /\ files[f] \in Nat /\ files[f] < served + 1 /\ f[1] < served + 1
    <3>1. f \in Nat \X FileNames /\ files[f] \in Nat /\ files[f] <= served /\ f[1] <= served
      BY DEF CheckersInv, FilesInv
    <3>2. f[1] \in Nat
      BY <3>1
    <3>3. QED
      BY <1>1, <3>1, <3>2
  <2>2. \A f \in DOMAIN files : f \in Nat \X FileNames => f[1] \in Nat
    OBVIOUS
  <2>3. QED
    BY <1>1, <2>1, <2>2 DEF FilesInv
<1>3. RequestInv'
  <2>1. PICK r \in Requests[served + 1] : Accepted(r) /\ request' = r
    BY DEF Submit
  <2>2. served + 1 \in 1..Len(Requests)
    <3>1. Len(Requests) \in Nat
      BY RequestsAssumption, LenProperties
    <3>2. QED
      BY <1>1, <3>1 DEF Submit
  <2>3. Requests[served + 1] \in SUBSET CheckerRequests
    BY <2>2, RequestsAssumption, ElementOfSeq
  <2>4. request' \in CheckerRequests /\ Accepted(request)'
    BY <2>1, <2>3 DEF Accepted
  <2>5. QED
    BY <1>1, <2>4 DEF RequestInv
<1>4. QED
  BY <1>1, <1>2, <1>3 DEF CheckersInv, GeneratedInv, ReportInv, VerdictIsTheCheckers, FilesAreItsOwn

LEMMA GenerateKeeps ==
  ASSUME CheckersInv, Generate
  PROVE  CheckersInv'
<1>1. stage = "accepted" /\ UNCHANGED <<served, request, report, result>>
  BY DEF Generate
<1>2. FilesInv /\ RequestInv
  BY DEF CheckersInv
<1>3. CASE files' = Write(Generated \cup EnsureSupportModules) /\ stage' = "generated"
  <2> DEFINE names == Generated \cup EnsureSupportModules
  <2>1. names \subseteq FileNames
    BY NamesDiffer DEF EnsureSupportModules
  <2>2. /\ DOMAIN files' = DOMAIN files \cup InDir(names)
        /\ \A f \in InDir(names) : files'[f] = served
        /\ \A f \in DOMAIN files \ InDir(names) : files'[f] = files[f]
    BY <1>3, WriteLeaves
  <2>3. InDir(names) \subseteq InDir(FileNames)
    BY <2>1 DEF InDir
  <2>4. FilesInv'
    <3>1. \A f \in DOMAIN files' : \/ f \in DOMAIN files /\ files'[f] = files[f]
                                   \/ f \in InDir(FileNames) /\ files'[f] = served
      BY <2>2, <2>3
    <3>2. QED
      BY <1>1, <1>2, <1>3, <3>1, FilesKeep
  <2>5. RequestInv'
    BY <1>1, <1>2, <1>3, SameRequest DEF RequestInv
  <2>6. GeneratedInv'
    <3>1. \A f \in InDir(Generated) : f \in DOMAIN files' /\ files'[f] = served
      <4>1. InDir(Generated) \subseteq InDir(names)
        BY DEF InDir
      <4>2. QED
        BY <2>2, <4>1
    <3>2. ASSUME NEW name \in SupportModules
          PROVE  <<OutputDir, name>> \in DOMAIN files'
      <4>1. CASE name \in EnsureSupportModules
        BY <2>2, <4>1, InTheDirectory
      <4>2. CASE name \notin EnsureSupportModules
        <5>1. PICK f \in DOMAIN files : f[1] = OutputDir /\ f[2] = name
          BY <4>2 DEF EnsureSupportModules, Existing
        <5>2. f \in Nat \X FileNames
          BY <1>2 DEF FilesInv
        <5>3. f = <<OutputDir, name>>
          BY <5>1, <5>2
        <5>4. QED
          BY <2>2, <5>3
      <4>3. QED
        BY <4>1, <4>2
    <3>3. InDir(SupportModules) \subseteq DOMAIN files'
      BY <3>2 DEF InDir
    <3>4. QED
      BY <1>1, <3>1, <3>3, SameRequest DEF GeneratedInv
  <2>7. ReportInv'
    <3>1. ASSUME NEW i \in 1..3, <<OutputDir, ViolationFile(i)>> \in DOMAIN files'
          PROVE  files'[<<OutputDir, ViolationFile(i)>>] # served
      <4>1. ViolationFile(i) \notin names
        BY NamesDiffer DEF EnsureSupportModules
      <4>2. <<OutputDir, ViolationFile(i)>> \notin InDir(names)
        BY <4>1, InTheDirectory
      <4>3. /\ <<OutputDir, ViolationFile(i)>> \in DOMAIN files
            /\ files'[<<OutputDir, ViolationFile(i)>>] = files[<<OutputDir, ViolationFile(i)>>]
        BY <2>2, <3>1, <4>2
      <4>4. QED
        BY <1>1, <1>2, <4>3 DEF FilesInv
    <3>2. FreshViolations' = {}
      BY <1>1, <3>1, SameRequest DEF FreshViolations, ViolationFiles
    <3>3. QED
      BY <1>3, <3>2 DEF ReportInv
  <2>8. QED
    BY <1>3, <2>4, <2>5, <2>6, <2>7 DEF CheckersInv, VerdictIsTheCheckers, FilesAreItsOwn
<1>4. CASE stage' = "failed"
  <2>1. PICK written \in {{}, {Named("base")}, Generated} :
          files' = [f \in {g \in DOMAIN files \cup InDir(written) :
                             g[1] # OutputDir \/ request.outDir \/ request.keepFiles} |->
                      IF f \in InDir(written) THEN served ELSE files[f]]
    BY <1>4 DEF Generate
  <2>2. InDir(written) \subseteq InDir(FileNames)
    <3>1. written \subseteq FileNames
      BY NamesDiffer
    <3>2. QED
      BY <3>1 DEF InDir
  <2>3. /\ \A f \in DOMAIN files' : \/ f \in DOMAIN files /\ files'[f] = files[f]
                                    \/ f \in InDir(FileNames) /\ files'[f] = served
        /\ \A f \in DOMAIN files' : f[1] # OutputDir \/ request.outDir \/ request.keepFiles
    BY <2>1, <2>2
  <2>4. FilesInv'
    BY <1>1, <1>2, <1>4, <2>3, FilesKeep
  <2>5. RequestInv'
    BY <1>1, <1>2, <1>4, SameRequest DEF RequestInv
  <2>6. FilesAreItsOwn'
    BY <1>1, <1>4, <2>3, SameRequest DEF FilesAreItsOwn, Existing
  <2>7. QED
    BY <1>4, <2>4, <2>5, <2>6 DEF CheckersInv, GeneratedInv, ReportInv, VerdictIsTheCheckers
<1>5. QED
  BY <1>3, <1>4 DEF Generate

\* RemoveTemporary keeps all files or removes the directory of the request.
LEMMA RemovedFiles ==
  /\ \A f \in DOMAIN RemoveTemporary : f \in DOMAIN files /\ RemoveTemporary[f] = files[f]
  /\ ~request.outDir /\ ~request.keepFiles => \A f \in DOMAIN RemoveTemporary : f[1] # OutputDir
  /\ request.outDir \/ request.keepFiles => RemoveTemporary = files
BY DEF RemoveTemporary, Existing

LEMMA NoJarKeeps ==
  ASSUME CheckersInv, NoJar
  PROVE  CheckersInv'
<1>1. /\ stage = "generated" /\ stage' = "failed" /\ UNCHANGED <<served, request, report, result>>
      /\ files' = RemoveTemporary
  BY DEF NoJar
<1>2. FilesInv /\ RequestInv
  BY DEF CheckersInv
<1>3. FilesInv'
  BY <1>1, <1>2, FilesKeep, RemovedFiles
<1>4. RequestInv'
  BY <1>1, <1>2, SameRequest DEF RequestInv
<1>5. FilesAreItsOwn'
  BY <1>1, SameRequest, RemovedFiles DEF FilesAreItsOwn, Existing
<1>6. QED
  BY <1>1, <1>3, <1>4, <1>5 DEF CheckersInv, GeneratedInv, ReportInv, VerdictIsTheCheckers

\* A report with n traces.
LEMMA ReportForm ==
  ASSUME NEW r, NEW n \in 0..3, NEW b \in BOOLEAN,
         r.code \in Nat, r.violated = b, r.traces \in [1..n -> {"predicate", "deadlock"}],
         r.unread \subseteq DOMAIN r.traces,
         b /\ n = 0 => r.code # 0 /\ request.kind = "temporal",
         n # 0 => b \/ "deadlock" \in ToSet(r.traces),
         request.tool = "Apalache" => (b <=> n # 0) /\ (b => r.code # 0)
  PROVE  /\ r.code \in Nat /\ r.violated \in BOOLEAN
         /\ \E k \in 0..3 : r.traces \in [1..k -> {"predicate", "deadlock"}]
         /\ r.unread \subseteq DOMAIN r.traces
         /\ r.violated /\ DOMAIN r.traces = {} => r.code # 0 /\ request.kind = "temporal"
         /\ DOMAIN r.traces # {} => r.violated \/ "deadlock" \in ToSet(r.traces)
         /\ request.tool = "Apalache" =>
              /\ r.violated <=> DOMAIN r.traces # {}
              /\ r.violated => r.code # 0
<1>1. DOMAIN r.traces # {} <=> n # 0
  OBVIOUS
<1>2. r.violated \in BOOLEAN /\ (r.violated <=> b)
  BY Zenon
<1>3. QED
  BY <1>1, <1>2, Zenon

\* The reports of both checkers are of the form that ReportOK states.
LEMMA ReportsAreOK ==
  ASSUME request \in CheckerRequests,
         NEW r \in IF request.tool = "TLC" THEN TlcReports ELSE ApalacheReports
  PROVE  /\ r.code \in Nat /\ r.violated \in BOOLEAN
         /\ \E n \in 0..3 : r.traces \in [1..n -> {"predicate", "deadlock"}]
         /\ r.unread \subseteq DOMAIN r.traces
         /\ r.violated /\ DOMAIN r.traces = {} => r.code # 0 /\ request.kind = "temporal"
         /\ DOMAIN r.traces # {} => r.violated \/ "deadlock" \in ToSet(r.traces)
         /\ request.tool = "Apalache" =>
              /\ r.violated <=> DOMAIN r.traces # {}
              /\ r.violated => r.code # 0
<1> DEFINE ends(code, traces, violated) ==
             {[code |-> code, traces |-> traces, unread |-> u, violated |-> violated] : u \in SUBSET DOMAIN traces}
           Violations(n) == [i \in 1..n |-> "predicate"]
           Quiet == r \in ends(0, <<>>, FALSE) \cup ends(1, <<>>, FALSE)
           Deadlock == r \in ends(11, <<"deadlock">>, FALSE)
           Unprinted == r \in ends(13, <<>>, TRUE) /\ request.kind = "temporal"
           Violated(code) == \E n \in 1..3 : r \in ends(code, Violations(n), TRUE)
<1>1. ASSUME NEW code, NEW traces, NEW violated \in BOOLEAN, r \in ends(code, traces, violated)
      PROVE  r.code = code /\ r.traces = traces /\ r.violated = violated /\ r.unread \subseteq DOMAIN r.traces
  <2>1. PICK u \in SUBSET DOMAIN traces :
          r = [code |-> code, traces |-> traces, unread |-> u, violated |-> violated]
    BY <1>1
  <2>2. QED
    BY <2>1
<1>2. <<>> \in [1..0 -> {"predicate", "deadlock"}] /\ 0 \in 0..3
  OBVIOUS
<1>3. \/ Quiet
      \/ request.tool = "TLC" /\ (Deadlock \/ Unprinted)
      \/ request.tool = "TLC" /\ (Violated(0) \/ Violated(12))
      \/ request.tool = "Apalache" /\ Violated(12)
  <2>1. CASE request.tool = "TLC"
    <3>1. r \in TlcReports
      BY <2>1
    <3>2. Several \subseteq 1..3
      BY DEF Several
    <3>3. CASE Directive = "PROPERTY"
      <4>1. request.kind = "temporal"
        BY <3>3 DEF Directive
      <4>2. QED
        BY <2>1, <3>1, <3>3, <4>1 DEF TlcReports
    <3>4. CASE Directive # "PROPERTY" /\ "-continue" \in TlcFlags
      <4> DEFINE violations == [n \in Several |-> [i \in 1..n |-> "predicate"]]
      <4>1. Quiet \/ Deadlock \/ r \in UNION {ends(0, violations[n], TRUE) : n \in Several}
        BY <3>1, <3>4 DEF TlcReports
      <4>2. \A n \in Several : violations[n] = Violations(n)
        OBVIOUS
      <4> HIDE DEF violations, Violations, ends
      <4>3. Quiet \/ Deadlock \/ Violated(0)
        BY <3>2, <4>1, <4>2
      <4>4. QED
        BY <2>1, <4>3
    <3>5. CASE Directive # "PROPERTY" /\ "-continue" \notin TlcFlags
      <4> DEFINE violations == [n \in Several |-> [i \in 1..n |-> "predicate"]]
      <4>1. Quiet \/ Deadlock \/ r \in UNION {ends(12, violations[n], TRUE) : n \in Several}
        BY <3>1, <3>5 DEF TlcReports
      <4>2. \A n \in Several : violations[n] = Violations(n)
        OBVIOUS
      <4> HIDE DEF violations, Violations, ends
      <4>3. Quiet \/ Deadlock \/ Violated(12)
        BY <3>2, <4>1, <4>2
      <4>4. QED
        BY <2>1, <4>3
    <3>6. QED
      BY <3>3, <3>4, <3>5
  <2>2. CASE request.tool = "Apalache"
    <3>1. r \in ApalacheReports
      BY <2>2
    <3>2. (IF "--view=Vars" \in ApalacheFlags THEN 1..3 ELSE {1}) \subseteq 1..3
      OBVIOUS
    <3>3. QED
      BY <2>2, <3>1, <3>2 DEF ApalacheReports
  <2>3. QED
    BY <2>1, <2>2 DEF CheckerRequests
<1>4. CASE Quiet
  <2>1. /\ r.code = 0 \/ r.code = 1
        /\ r.traces = <<>> /\ r.violated = FALSE /\ r.unread \subseteq DOMAIN r.traces
    <3>1. CASE r \in ends(0, <<>>, FALSE)
      BY <1>1, <3>1
    <3>2. CASE r \in ends(1, <<>>, FALSE)
      BY <1>1, <3>2
    <3>3. QED
      BY <1>4, <3>1, <3>2
  <2>2. r.code \in Nat
    BY <2>1
  <2> HIDE DEF ends
  <2>3. QED
    BY <1>2, <2>1, <2>2, ReportForm
<1>5. CASE request.tool = "TLC" /\ Deadlock
  <2>1. /\ r.code = 11 /\ r.traces = <<"deadlock">> /\ r.violated = FALSE
        /\ r.unread \subseteq DOMAIN r.traces
    BY <1>1, <1>5
  <2>2. /\ <<"deadlock">> \in [1..1 -> {"predicate", "deadlock"}]
        /\ "deadlock" \in ToSet(<<"deadlock">>)
    BY DEF ToSet
  <2>3. 1 \in 0..3 /\ 1 # 0 /\ r.code \in Nat
    BY <2>1
  <2> HIDE DEF ends
  <2>4. QED
    BY <1>5, <2>1, <2>2, <2>3, ReportForm
<1>6. CASE request.tool = "TLC" /\ Unprinted
  <2>1. /\ r.code = 13 /\ r.traces = <<>> /\ r.violated = TRUE
        /\ r.unread \subseteq DOMAIN r.traces
    BY <1>1, <1>6
  <2>2. r.code \in Nat /\ r.code # 0
    BY <2>1
  <2>3. request.kind = "temporal"
    BY <1>6
  <2> HIDE DEF ends
  <2>4. QED
    BY <1>2, <1>6, <2>1, <2>2, <2>3, ReportForm
<1>7. ASSUME NEW code \in {0, 12}, NEW n \in 1..3, r \in ends(code, Violations(n), TRUE),
             request.tool = "TLC" \/ code = 12
      PROVE  /\ r.code \in Nat /\ n \in 0..3 /\ n # 0
             /\ r.traces \in [1..n -> {"predicate", "deadlock"}]
             /\ r.violated = TRUE /\ r.unread \subseteq DOMAIN r.traces
             /\ request.tool = "Apalache" => r.code # 0
  <2>1. /\ r.code = code /\ r.traces = Violations(n) /\ r.violated = TRUE
        /\ r.unread \subseteq DOMAIN r.traces
    BY <1>1, <1>7
  <2>2. Violations(n) \in [1..n -> {"predicate", "deadlock"}]
    OBVIOUS
  <2>3. n \in 0..3 /\ n # 0
    OBVIOUS
  <2> HIDE DEF Violations, ends
  <2>4. QED
    BY <1>7, <2>1, <2>2, <2>3
<1>8. CASE request.tool = "TLC" /\ (Violated(0) \/ Violated(12))
  <2>1. PICK code \in {0, 12}, n \in 1..3 : r \in ends(code, Violations(n), TRUE)
    BY <1>8
  <2> HIDE DEF ends, Violations
  <2>2. QED
    BY <1>7, <1>8, <2>1, ReportForm
<1>9. CASE request.tool = "Apalache" /\ Violated(12)
  <2>1. PICK n \in 1..3 : r \in ends(12, Violations(n), TRUE)
    BY <1>9
  <2> HIDE DEF ends, Violations
  <2>2. QED
    BY <1>7, <1>9, <2>1, ReportForm
<1>10. QED
  BY <1>3, <1>4, <1>5, <1>6, <1>8, <1>9

LEMMA RunCheckerKeeps ==
  ASSUME CheckersInv, RunChecker
  PROVE  CheckersInv'
<1>1. stage = "generated" /\ stage' = "ended" /\ UNCHANGED <<served, request, result>>
  BY DEF RunChecker
<1>2. FilesInv /\ RequestInv /\ request \in CheckerRequests /\ request.tool \in {"TLC", "Apalache"}
  BY <1>1 DEF CheckersInv, RequestInv, CheckerRequests
<1>3. PICK r \in IF request.tool = "TLC" THEN TlcReports ELSE ApalacheReports :
        /\ report' = r
        /\ files' = IF request.tool = "TLC" THEN files
                    ELSE Write({Named("log")} \cup {ViolationFile(i) : i \in DOMAIN r.traces})
  BY DEF RunChecker
<1>4. ReportOK'
  BY <1>1, <1>2, <1>3, ReportsAreOK DEF ReportOK
<1>5. DOMAIN r.traces \subseteq 1..3
  <2>1. PICK n \in 0..3 : report'.traces \in [1..n -> {"predicate", "deadlock"}]
    BY <1>4 DEF ReportOK
  <2>2. QED
    BY <1>3, <2>1
<1>6. RequestInv'
  BY <1>1, <1>2, SameRequest DEF RequestInv
<1>7. CASE request.tool = "TLC"
  <2>1. files' = files
    BY <1>3, <1>7
  <2>2. FilesInv'
    BY <1>1, <1>2, <2>1, FilesKeep
  <2>3. GeneratedInv'
    BY <1>1, <2>1, SameRequest DEF CheckersInv, GeneratedInv
  <2>4. ReportInv'
    BY <1>1, <1>4, <1>7 DEF ReportInv
  <2>5. QED
    BY <1>1, <1>6, <2>2, <2>3, <2>4 DEF CheckersInv, VerdictIsTheCheckers, FilesAreItsOwn
<1>8. CASE request.tool = "Apalache"
  <2> DEFINE names == {Named("log")} \cup {ViolationFile(i) : i \in DOMAIN r.traces}
  <2>1. names \subseteq FileNames
    <3>1. \A i \in DOMAIN r.traces : ViolationFile(i) \in FileNames
      <4>1. \A i \in DOMAIN r.traces : i \in Nat
        BY <1>5
      <4>2. QED
        BY <4>1, NamesDiffer
    <3>2. QED
      BY <3>1, NamesDiffer
  <2>2. /\ DOMAIN files' = DOMAIN files \cup InDir(names)
        /\ \A f \in InDir(names) : files'[f] = served
        /\ \A f \in DOMAIN files \ InDir(names) : files'[f] = files[f]
    BY <1>3, <1>8, WriteLeaves
  <2>3. InDir(names) \subseteq InDir(FileNames)
    BY <2>1 DEF InDir
  <2>4. FilesInv'
    BY <1>1, <1>2, <2>2, <2>3, FilesKeep
  <2>5. GeneratedInv'
    BY <1>1, <2>2, SameRequest DEF CheckersInv, GeneratedInv
  <2>6. \A i \in 1..3 : ViolationFile(i) \in names <=> i \in DOMAIN r.traces
    BY NamesDiffer
  <2>7. ASSUME NEW i \in 1..3
        PROVE  /\ <<OutputDir, ViolationFile(i)>> \in DOMAIN files'
               /\ files'[<<OutputDir, ViolationFile(i)>>] = served
               <=> i \in DOMAIN r.traces
    <3>1. <<OutputDir, ViolationFile(i)>> \in InDir(names) <=> i \in DOMAIN r.traces
      BY <2>6, InTheDirectory
    <3>2. <<OutputDir, ViolationFile(i)>> \in DOMAIN files => files[<<OutputDir, ViolationFile(i)>>] # served
      BY <1>1 DEF CheckersInv, ReportInv, FreshViolations, ViolationFiles
    <3>3. QED
      BY <2>2, <3>1, <3>2
  <2>8. FreshViolations' = DOMAIN r.traces
    BY <1>1, <1>5, <2>7, SameRequest DEF FreshViolations, ViolationFiles
  <2>9. ReportInv'
    BY <1>1, <1>3, <1>4, <2>8 DEF ReportInv
  <2>10. QED
    BY <1>1, <1>6, <2>4, <2>5, <2>9 DEF CheckersInv, VerdictIsTheCheckers, FilesAreItsOwn
<1>9. QED
  BY <1>2, <1>7, <1>8

----------------------------------------------------------------------------
(* The end of a request. *)

\* The command succeeds if nothing was found and the checker did not fail.
LEMMA OutcomeIs ==
  ASSUME request \in CheckerRequests
  PROVE  /\ Outcome \in {"checked", "example_not_found"} <=> ~Found /\ report.code = 0
         /\ Outcome = "example_found" <=> request.kind = "example" /\ Found
         /\ request.kind # "example" /\ (Found \/ report.code # 0) => Outcome = "violation"
BY DEF Outcome, CheckerRequests

\* What is taken when there are n traces: as many as the user asked for.
LEMMA TakenOfAll ==
  ASSUME request \in CheckerRequests, Accepted(request), ReportOK,
         request.tool = "Apalache" => ViolationFiles = DOMAIN report.traces
  PROVE  Cardinality(TracesTaken) = Lesser(Len(report.traces), request.maxFindings)
<1>1. PICK n \in 0..3 : report.traces \in [1..n -> {"predicate", "deadlock"}]
  BY DEF ReportOK
<1>2. DOMAIN report.traces = 1..n /\ Len(report.traces) = n
  <2>1. report.traces \in Seq({"predicate", "deadlock"}) /\ DOMAIN report.traces = 1..n
    BY <1>1
  <2>2. Len(report.traces) \in Nat /\ DOMAIN report.traces = 1..Len(report.traces)
    BY <2>1, LenProperties
  <2>3. QED
    BY <2>1, <2>2
<1> DEFINE max == request.maxFindings
<1>3. max \in Nat
  BY DEF CheckerRequests
<1> HIDE DEF max
<1>4. Lesser(n, max) \in Nat
  BY <1>3 DEF Lesser
<1>5. TracesTaken = 1..Lesser(n, max)
  <2>1. CASE request.tool = "TLC"
    BY <1>2, <2>1 DEF TracesTaken, max
  <2>2. CASE request.tool = "Apalache"
    <3>1. TracesTaken = {i \in 1..n : Cardinality({j \in 1..n : j <= i}) <= max}
      BY <1>2, <2>2 DEF TracesTaken, max
    <3>2. TracesTaken = {i \in 1..n : i <= max}
      BY <3>1, NumbersUpTo
    <3>3. {i \in 1..n : i <= max} = 1..Lesser(n, max)
      BY <1>3 DEF Lesser
    <3>4. QED
      BY <3>2, <3>3
  <2>3. QED
    BY <2>1, <2>2 DEF CheckerRequests
<1>6. QED
  BY <1>2, <1>4, <1>5, FirstNumbers DEF max

\* What holds when the checker has ended.
LEMMA WhenEnded ==
  ASSUME CheckersInv, Conclude
  PROVE  /\ stage = "ended" /\ stage' = "done" /\ UNCHANGED <<served, request, report>>
         /\ FilesInv /\ RequestInv /\ request \in CheckerRequests /\ Accepted(request) /\ ReportOK
         /\ request.tool \in {"TLC", "Apalache"}
         /\ request.tool = "Apalache" => FreshViolations = DOMAIN report.traces
         /\ result'.outcome = Outcome /\ result'.itf = ItfTraces
         /\ result'.artifacts = Generated \cup SupportModules \cup RawTraces \cup ItfTraces
         /\ files' = IF ~Found /\ report.code = 0 THEN RemoveTemporary ELSE Write(RawTraces \cup ItfTraces)
<1>1. stage = "ended" /\ stage' = "done" /\ UNCHANGED <<served, request, report>>
  BY DEF Conclude
<1>2. /\ FilesInv /\ RequestInv /\ request \in CheckerRequests /\ Accepted(request) /\ ReportOK
      /\ request.tool \in {"TLC", "Apalache"}
      /\ request.tool = "Apalache" => FreshViolations = DOMAIN report.traces
  BY <1>1 DEF CheckersInv, RequestInv, ReportInv, CheckerRequests
<1>3. result' = [outcome |-> Outcome,
                 artifacts |-> Generated \cup SupportModules \cup RawTraces \cup ItfTraces,
                 itf |-> ItfTraces]
  BY DEF Conclude
<1>4. files' = IF ~Found /\ report.code = 0 THEN RemoveTemporary ELSE Write(RawTraces \cup ItfTraces)
  BY <1>2, OutcomeIs DEF Conclude
<1>5. QED
  BY <1>1, <1>2, <1>3, <1>4

\* The files of the traces.
LEMMA TraceFiles ==
  ASSUME request \in CheckerRequests, Accepted(request), ReportOK
  PROVE  /\ RawTraces \cup ItfTraces \subseteq FileNames
         /\ \A i : ViolationFile(i) \notin RawTraces \cup ItfTraces
         /\ ~Found => RawTraces = {} /\ ItfTraces = {}
         /\ TracesRead \in SUBSET {1, 2, 3}
<1>1. TracesTaken \subseteq {1, 2, 3}
  BY FoundTraces
<1>2. TracesRead \subseteq TracesTaken
  BY DEF TracesRead
<1>3. Cardinality(TracesRead) \in Nat
  BY <1>1, <1>2, FiniteTaken
<1>4. \A i \in 1..Cardinality(TracesRead) : i \in Nat
  BY <1>3
<1>5. RawTraces \subseteq FileNames /\ ItfTraces \subseteq FileNames
  <2>1. \A i \in TracesTaken : i \in Nat
    BY <1>1
  <2>2. /\ \A i \in TracesTaken : <<"raw", i>> \in FileNames
        /\ \A i \in 1..Cardinality(TracesRead) : <<"itf", i>> \in FileNames
    BY <1>4, <2>1, NamesDiffer
  <2>3. QED
    BY <2>2 DEF RawTraces, ItfTraces
<1>6. \A i : ViolationFile(i) \notin RawTraces \cup ItfTraces
  BY NamesDiffer DEF RawTraces, ItfTraces
<1>7. ~Found => RawTraces = {} /\ ItfTraces = {}
  <2>1. SUFFICES ASSUME TracesTaken = {} PROVE RawTraces = {} /\ ItfTraces = {}
    BY DEF Found
  <2>2. TracesRead = {}
    BY <1>2, <2>1
  <2>3. Cardinality(TracesRead) = 0
    BY <2>2, FS_EmptySet
  <2>4. 1..0 = {}
    OBVIOUS
  <2>5. QED
    BY <2>1, <2>3, <2>4 DEF RawTraces, ItfTraces
<1>8. QED
  BY <1>1, <1>2, <1>5, <1>6, <1>7

\* Unless the command succeeds, the counterexamples stay; it does not if there are any.
LEMMA ViolationsStay ==
  ASSUME CheckersInv, Conclude, ~Misled', request.tool = "Apalache"
  PROVE  ViolationFiles = DOMAIN report.traces
<1>1. CASE ~Found /\ report.code = 0
  <2>1. ViolationFiles = {}
    BY <1>1, WhenEnded, FoundTraces
  <2>2. FreshViolations = {}
    BY <2>1 DEF FreshViolations
  <2>3. QED
    BY <2>1, <2>2, WhenEnded
<1>2. CASE ~(~Found /\ report.code = 0)
  <2>1. files' = Write(RawTraces \cup ItfTraces)
    BY <1>2, WhenEnded
  <2>2. ASSUME NEW i \in ViolationFiles
        PROVE  i \in FreshViolations
    <3> DEFINE f == <<OutputDir, ViolationFile(i)>>
    <3>1. f \in DOMAIN files /\ i \in 1..3
      BY DEF ViolationFiles
    <3>2. f \notin InDir(RawTraces \cup ItfTraces)
      BY WhenEnded, TraceFiles, InTheDirectory
    <3>3. f \in DOMAIN files' /\ files'[f] = files[f]
      BY <2>1, <3>1, <3>2, WriteLeaves
    <3>4. OutputDir' = OutputDir /\ served' = served
      BY WhenEnded, SameRequest
    <3>5. i \in ViolationFiles'
      BY <3>1, <3>3, <3>4 DEF ViolationFiles
    <3>6. files'[f] = served
      BY <3>4, <3>5 DEF Misled
    <3>7. QED
      BY <3>3, <3>6 DEF FreshViolations
  <2>3. ViolationFiles = FreshViolations
    BY <2>2 DEF FreshViolations
  <2>4. QED
    BY <2>3, WhenEnded
<1>3. QED
  BY <1>1, <1>2

LEMMA ConcludeVerdict ==
  ASSUME CheckersInv, Conclude
  PROVE  VerdictIsTheCheckers'
<1>1. /\ stage = "ended" /\ UNCHANGED <<served, request, report>>
      /\ request \in CheckerRequests /\ Accepted(request) /\ ReportOK
      /\ request.tool \in {"TLC", "Apalache"}
      /\ request.tool = "Apalache" => FreshViolations = DOMAIN report.traces
      /\ result'.outcome = Outcome /\ result'.itf = ItfTraces
  BY WhenEnded
<1>2. report.violated /\ (report.code = 0 \/ request.kind = "example") => Found
  <2>1. SUFFICES ASSUME report.violated, report.code = 0 \/ request.kind = "example"
                 PROVE  Found
    OBVIOUS
  <2>2. DOMAIN report.traces # {}
    BY <1>1, <2>1 DEF ReportOK
  <2>3. CASE request.tool = "TLC"
    BY <1>1, <2>2, <2>3, FoundTraces
  <2>4. CASE request.tool = "Apalache"
    <3>1. ViolationFiles # {}
      BY <1>1, <2>2, <2>4 DEF FreshViolations
    <3>2. QED
      BY <1>1, <2>4, <3>1, FoundTraces
  <2>5. QED
    BY <1>1, <2>3, <2>4
<1>3. Outcome \in {"checked", "example_not_found"} => report.code = 0 /\ ~report.violated
  BY <1>1, <1>2, OutcomeIs
<1>4. report.violated => Outcome = (IF request.kind = "example" THEN "example_found" ELSE "violation")
  <2>1. CASE request.kind = "example"
    BY <1>1, <1>2, <2>1, OutcomeIs
  <2>2. CASE request.kind # "example"
    BY <1>1, <1>2, <2>2, OutcomeIs
  <2>3. QED
    BY <2>1, <2>2
<1>5. ASSUME Outcome = "example_found", ~Misled'
      PROVE  report.violated
  <2>1. Found
    BY <1>1, <1>5, OutcomeIs
  <2>2. DOMAIN report.traces # {}
    <3>1. CASE request.tool = "TLC"
      BY <1>1, <2>1, <3>1, FoundTraces
    <3>2. CASE request.tool = "Apalache"
      BY <1>1, <1>5, <2>1, <3>2, FoundTraces, ViolationsStay
    <3>3. QED
      BY <1>1, <3>1, <3>2
  <2>3. "deadlock" \notin ToSet(report.traces)
    BY <1>1, <1>5 DEF Misled
  <2>4. QED
    BY <1>1, <2>2, <2>3 DEF ReportOK
<1>6. ASSUME report.unread = {}, ~Misled'
      PROVE  Cardinality(ItfTraces) = Lesser(Len(report.traces), request.maxFindings)
  <2>1. TracesRead = TracesTaken
    BY <1>6 DEF TracesRead
  <2>2. Cardinality(ItfTraces) = Cardinality(TracesTaken)
    BY <1>1, <2>1, TraceFiles, AsManyItf
  <2>3. request.tool = "Apalache" => ViolationFiles = DOMAIN report.traces
    BY <1>6, ViolationsStay
  <2>4. QED
    BY <1>1, <2>2, <2>3, TakenOfAll
<1>7. QED
  BY <1>1, <1>3, <1>4, <1>5, <1>6 DEF VerdictIsTheCheckers, Lesser

LEMMA ConcludeFiles ==
  ASSUME CheckersInv, Conclude
  PROVE  FilesInv' /\ FilesAreItsOwn'
<1>1. /\ stage = "ended" /\ stage' = "done" /\ UNCHANGED <<served, request, report>>
      /\ FilesInv /\ RequestInv /\ request \in CheckerRequests /\ Accepted(request) /\ ReportOK
      /\ result'.outcome = Outcome
      /\ result'.artifacts = Generated \cup SupportModules \cup RawTraces \cup ItfTraces
      /\ request.outDir \in BOOLEAN /\ request.keepFiles \in BOOLEAN
  BY WhenEnded DEF CheckerRequests
<1>2. /\ OutputDir' = OutputDir /\ SupportModules' = SupportModules /\ \A names : InDir(names)' = InDir(names)
  BY <1>1, SameRequest
<1>3. /\ \A f \in InDir(Generated) : f \in DOMAIN files /\ files[f] = served
      /\ InDir(SupportModules) \subseteq DOMAIN files
  BY <1>1 DEF CheckersInv, GeneratedInv
<1>4. <<OutputDir, Named("base")>> \in InDir(Generated)
  BY NamesDiffer, InTheDirectory
<1> DEFINE traces == RawTraces \cup ItfTraces
<1>5. InDir(result'.artifacts) = InDir(Generated) \cup InDir(SupportModules) \cup InDir(traces)
  BY <1>1 DEF InDir
<1>6. InDir(result'.artifacts \ SupportModules) \subseteq InDir(Generated) \cup InDir(traces)
  BY <1>1 DEF InDir
<1>7. CASE ~Found /\ report.code = 0
  <2>1. files' = RemoveTemporary
    BY <1>7, WhenEnded
  <2>2. FilesInv'
    BY <1>1, <2>1, FilesKeep, RemovedFiles
  <2>3. Outcome \in {"checked", "example_not_found"}
    BY <1>1, <1>7, OutcomeIs
  <2>4. InDir(traces) = {}
    BY <1>1, <1>7, TraceFiles DEF InDir
  <2>5. CASE request.outDir \/ request.keepFiles
    <3>1. files' = files
      BY <2>1, <2>5, RemovedFiles
    <3>2. <<OutputDir, Named("base")>> \in Existing(OutputDir)
      BY <1>3, <1>4 DEF Existing
    <3>3. Existing(OutputDir)' # {}
      BY <1>2, <3>1, <3>2 DEF Existing
    <3>4. /\ InDir(result'.artifacts) \subseteq DOMAIN files'
          /\ \A f \in InDir(result'.artifacts \ SupportModules) : files'[f] = served
      BY <1>3, <1>5, <1>6, <2>4, <3>1
    <3>5. InDir(result.artifacts)' = InDir(result'.artifacts)
          /\ InDir(result.artifacts \ SupportModules)' = InDir(result'.artifacts \ SupportModules)
      BY <1>2 DEF InDir
    <3>6. QED
      BY <1>1, <2>2, <2>3, <2>5, <3>3, <3>4, <3>5 DEF FilesAreItsOwn
  <2>6. CASE ~request.outDir /\ ~request.keepFiles
    <3>1. \A f \in DOMAIN files' : f[1] # OutputDir
      BY <2>1, <2>6, RemovedFiles
    <3>2. Existing(OutputDir)' = {}
      BY <1>2, <3>1 DEF Existing
    <3>3. QED
      BY <1>1, <2>2, <2>3, <2>6, <3>2 DEF FilesAreItsOwn
  <2>7. QED
    BY <2>5, <2>6
<1>8. CASE ~(~Found /\ report.code = 0)
  <2>1. files' = Write(traces)
    BY <1>8, WhenEnded
  <2>2. /\ DOMAIN files' = DOMAIN files \cup InDir(traces)
        /\ \A f \in InDir(traces) : files'[f] = served
        /\ \A f \in DOMAIN files \ InDir(traces) : files'[f] = files[f]
    BY <2>1, WriteLeaves
  <2>3. InDir(traces) \subseteq InDir(FileNames)
    <3>1. traces \subseteq FileNames
      BY <1>1, TraceFiles
    <3>2. QED
      BY <3>1 DEF InDir
  <2>4. FilesInv'
    BY <1>1, <2>2, <2>3, FilesKeep
  <2>5. Outcome \notin {"checked", "example_not_found"}
    BY <1>1, <1>8, OutcomeIs
  <2>6. Existing(OutputDir)' # {}
    <3>1. <<OutputDir, Named("base")>> \in DOMAIN files'
      BY <1>3, <1>4, <2>2
    <3>2. <<OutputDir, Named("base")>>[1] = OutputDir
      OBVIOUS
    <3>3. QED
      BY <1>2, <3>1, <3>2 DEF Existing
  <2>7. /\ InDir(result'.artifacts) \subseteq DOMAIN files'
        /\ \A f \in InDir(result'.artifacts \ SupportModules) : files'[f] = served
    <3> HIDE DEF traces
    <3>1. QED
      BY <1>3, <1>5, <1>6, <2>2
  <2>8. InDir(result.artifacts)' = InDir(result'.artifacts)
        /\ InDir(result.artifacts \ SupportModules)' = InDir(result'.artifacts \ SupportModules)
    BY <1>2 DEF InDir
  <2>9. QED
    BY <1>1, <2>4, <2>5, <2>6, <2>7, <2>8 DEF FilesAreItsOwn
<1>9. QED
  BY <1>7, <1>8

LEMMA ConcludeKeeps ==
  ASSUME CheckersInv, Conclude
  PROVE  CheckersInv'
<1>1. /\ stage' = "done" /\ UNCHANGED <<served, request, report>>
      /\ stage = "ended" /\ RequestInv
  BY WhenEnded
<1>2. RequestInv'
  BY <1>1, SameRequest DEF RequestInv
<1>3. QED
  BY <1>1, <1>2, ConcludeVerdict, ConcludeFiles DEF CheckersInv, GeneratedInv, ReportInv

LEMMA ReturnKeeps ==
  ASSUME CheckersInv, Return
  PROVE  CheckersInv'
<1>1. stage' = "idle" /\ stage # "accepted" /\ UNCHANGED <<served, request, files, report, result>>
  BY DEF Return
<1>2. FilesInv'
  BY <1>1 DEF CheckersInv, FilesInv
<1>3. QED
  BY <1>1, <1>2 DEF CheckersInv, RequestInv, GeneratedInv, ReportInv, VerdictIsTheCheckers, FilesAreItsOwn

----------------------------------------------------------------------------
(* Every behaviour of the checkers, and of both kinds of command. *)

\* What the directories hold, of which request, and what was reported of it.
THEOREM CheckersInvariant == CheckersSpec => []CheckersInv
<1>1. CheckersInit => CheckersInv
  <2>1. SUFFICES ASSUME CheckersInit PROVE CheckersInv
    OBVIOUS
  <2>2. DOMAIN files = {} /\ served = 0 /\ stage = "idle"
    <3>1. files = <<>> /\ served = 0 /\ stage = "idle"
      BY <2>1 DEF CheckersInit
    <3>2. QED
      BY <3>1
  <2>3. QED
    BY <2>2 DEF CheckersInv, FilesInv, RequestInv, GeneratedInv, ReportInv, VerdictIsTheCheckers,
                FilesAreItsOwn
<1>2. CheckersInv /\ [CheckersNext]_checkerVars => CheckersInv'
  <2>1. SUFFICES ASSUME CheckersInv, [CheckersNext]_checkerVars PROVE CheckersInv'
    OBVIOUS
  <2>2. CASE Submit
    BY <2>1, <2>2, SubmitKeeps
  <2>3. CASE Generate
    BY <2>1, <2>3, GenerateKeeps
  <2>4. CASE NoJar
    BY <2>1, <2>4, NoJarKeeps
  <2>5. CASE RunChecker
    BY <2>1, <2>5, RunCheckerKeeps
  <2>6. CASE Conclude
    BY <2>1, <2>6, ConcludeKeeps
  <2>7. CASE Return
    BY <2>1, <2>7, ReturnKeeps
  <2>8. CASE UNCHANGED checkerVars
    <3>1. /\ served' = served /\ request' = request /\ stage' = stage /\ files' = files
          /\ report' = report /\ result' = result
      BY <2>8 DEF checkerVars
    <3>2. FilesInv' /\ RequestInv' /\ GeneratedInv'
      BY <2>1, <3>1, SameRequest DEF CheckersInv, FilesInv, RequestInv, GeneratedInv
    <3>3. FreshViolations' = FreshViolations /\ ViolationFiles' = ViolationFiles
      BY <3>1, SameRequest DEF FreshViolations, ViolationFiles
    <3>4. ReportOK' = ReportOK
      BY <3>1 DEF ReportOK
    <3>5. ReportInv'
      BY <2>1, <3>1, <3>3, <3>4 DEF CheckersInv, ReportInv
    <3>6. VerdictIsTheCheckers' = VerdictIsTheCheckers
      BY <3>1, <3>3, SameRequest DEF VerdictIsTheCheckers, Misled, Lesser
    <3>7. FilesAreItsOwn' = FilesAreItsOwn
      BY <3>1, SameRequest DEF FilesAreItsOwn, Existing, InDir
    <3>8. QED
      BY <2>1, <3>2, <3>5, <3>6, <3>7 DEF CheckersInv
  <2>9. QED
    BY <2>1, <2>2, <2>3, <2>4, <2>5, <2>6, <2>7, <2>8 DEF CheckersNext
<1>3. QED
  BY <1>1, <1>2, PTL DEF CheckersSpec

\* However many requests share a directory, whatever jar is found, whichever modules can
\* be generated and whatever the checker reports, with-tlc and with-apalache say what the
\* checker said and return files that are there and their own.
THEOREM CheckersTellTheTruth == CheckersSpec => [](VerdictIsTheCheckers /\ FilesAreItsOwn)
<1>1. CheckersInv => VerdictIsTheCheckers /\ FilesAreItsOwn
  BY DEF CheckersInv
<1>2. QED
  BY <1>1, CheckersInvariant, PTL

\* The commands that have a checker of their own, beside each other: what they print and
\* return is what their checkers and models reported.
THEOREM VerdictsAlwaysTheCheckers == CheckersSpec /\ DriverSpec => []VerdictsAreTheCheckers
<1>1. /\ VerdictIsTheCheckers /\ FilesAreItsOwn
      /\ \A c \in Commands : SuccessIsComplete(c)
      => VerdictsAreTheCheckers
  BY DEF VerdictsAreTheCheckers
<1>2. QED
  BY <1>1, CheckersTellTheTruth, SuccessIsAlwaysComplete, PTL
=============================================================================

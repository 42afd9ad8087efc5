-------------------------- MODULE TranslationCache --------------------------
(***************************************************************************)
(* The translation cache of `wunderspec rust` (wunderspec/rust_cli/        *)
(* cache.py and commands.py, wunderspec/remote/rust.py) shared by several  *)
(* processes.  A command of compile, run, check or replay                  *)
(*   - checks a --to directory, locates its entry (_prepare, _locate),     *)
(*   - takes the entry's lock exclusively and reuses, resumes or submits a *)
(*     translation, installs the archive and builds it (_obtain,           *)
(*     _ensure_built), releases the lock,                                  *)
(*   - evicts least recently used entries if it changed the cache (evict), *)
(*   - takes the lock shared and runs the model (_run_model).              *)
(*                                                                         *)
(* An entry lives in a slot: the cache entry of a translation key, or the  *)
(* --to directory that successive translations share.  A translation is    *)
(* identified by the job that made it.  Sizes are abstract: an entry with  *)
(* a project weighs 1.  Profiles are abstract: there is one.               *)
(***************************************************************************)
EXTENDS LockClients, Naturals, FiniteSets

CONSTANTS
  Keys,          \* translation keys; the number orders their hash
  Dirs,          \* --to directories
  SpecOf,        \* SpecOf[k]: the specification file of key k
  Commands,      \* commands that processes may be started with
  CacheLimit,    \* WUNDERSPEC_CACHE_MAX_SIZE, in entries with a project
  MaxJobs,       \* bound: jobs the service accepts
  MaxCommands,   \* bound: commands started
  MaxClock,      \* bound: values of the clock that last_used reads
  Faults         \* what may go wrong besides the races

FaultKinds == {"refused", "network", "failed", "expired", "archive", "build",
               "crash", "interrupt"}

ASSUME SlotsAssumption ==
  /\ Keys \subseteq Nat /\ IsFiniteSet(Keys) /\ Dirs \subseteq Nat /\ Keys \cap Dirs = {}
  /\ Slots = Keys \cup Dirs
ASSUME CommandsAssumption ==
  /\ Commands \subseteq [slot : Slots, key : Keys, noCache : BOOLEAN,
                         force : BOOLEAN, config : BOOLEAN, build : BOOLEAN,
                         runs : BOOLEAN]
  /\ \A c \in Commands : /\ c.slot \in Keys => c.slot = c.key
                         /\ c.runs => c.build
ASSUME BoundsAssumption ==
  /\ {CacheLimit, MaxJobs, MaxCommands, MaxClock} \subseteq Nat
  /\ Faults \subseteq FaultKinds

VARIABLES
  entry,      \* entry[s]: the contents of entry.json, or None
  project,    \* project[s]: the jobs of its manifest and of its other files
  target,     \* target[s]: the job whose sources the binary was built from
  staging,    \* staging[s]: processes whose .project.tmp-<pid> exists
  pc, cmd,    \* where each process is, and its command line
  loc,        \* the local variables of _prepare and what it calls
  exit,       \* exit[p]: how p's last command ended
  job,        \* job[j]: the service's record of job j
  started,    \* commands started so far
  clock       \* the time in seconds

diskVars == <<entry, project, target, staging>>
procVars == <<pc, cmd, loc, exit>>
vars == <<lockVars, diskVars, procVars, job, started, clock>>

Jobs == 1..MaxJobs
Candidates == [key : Keys, used : 0..(MaxClock + 1)]
InCache(s) == s \in Keys

Times == 0..MaxClock
Entries == [key : Keys, state : {"pending", "complete"}, job : Jobs,
            used : Times, build : Jobs \cup {None}]
Drafts == [key : Keys, state : {"new"}, job : {None}, used : Times, build : {None}]
Projects == [manifest : Jobs \cup {None}, files : Jobs \cup {None}]
NoProject == [manifest |-> None, files |-> None]

ASSUME AbsentAssumption ==
  None \notin Jobs /\ None \notin Keys /\ None \notin Commands /\ None \notin Entries

\* What rmtree finds in the directory of a cache entry.
Names == {"entry", "manifest", "files", "staging", "lock"}

\* Of evict: the candidates left and the keys whose sizes `total` sums up.
Locals == [data : Entries \cup Drafts \cup {None}, prev : Entries \cup {None},
           resumed : BOOLEAN, changed : BOOLEAN,
           todo : SUBSET Candidates, total : SUBSET Keys,
           names : SUBSET Names, runs : Jobs \cup {None}]
NoLocals == [data |-> None, prev |-> None, resumed |-> FALSE, changed |-> FALSE,
             todo |-> {}, total |-> {}, names |-> {}, runs |-> None]

Steps == {"idle", "directory", "locate", "lock", "submit", "record", "poll",
          "install", "clear", "place", "complete", "built", "build",
          "recordbuild", "after", "evict", "evictlock", "rmtree", "next",
          "runlock", "running"}
Statuses == {"none", "OK", "DATA", "UNAVAILABLE", "CANT_CREATE", "IO",
             "TEMPFAIL", "CONFIG", "BUILD", "KILLED"}
JobStatuses == {"unused", "running", "succeeded", "failed", "gone"}

TypeOK ==
  /\ LockTypeOK
  /\ entry \in [Slots -> Entries \cup {None}]
  /\ project \in [Slots -> Projects]
  /\ target \in [Slots -> Jobs \cup {None}]
  /\ staging \in [Slots -> SUBSET Procs]
  /\ pc \in [Procs -> Steps]
  /\ cmd \in [Procs -> Commands \cup {None}]
  /\ loc \in [Procs -> Locals]
  /\ exit \in [Procs -> Statuses]
  /\ job \in [Jobs -> [status : JobStatuses, key : Keys \cup {None}]]
  /\ started \in 0..MaxCommands
  /\ clock \in Times

----------------------------------------------------------------------------
\* Control of a process.

Slot(p) == cmd[p].slot
Key(p) == cmd[p].key

Goto(p, step) == pc' = [pc EXCEPT ![p] = step]
Set(p, locals) == loc' = [loc EXCEPT ![p] = locals]

\* Leave the command with a status; EntryLock.__exit__ releases the lock.
Exit(p, status) ==
  /\ Goto(p, "idle")
  /\ exit' = [exit EXCEPT ![p] = status]
  /\ cmd' = [cmd EXCEPT ![p] = None]
  /\ Set(p, NoLocals)

Unlock(p) == IF phase[p] = "none" THEN UNCHANGED lockVars ELSE Close(p)

\* write_entry: mkdir(parents=True), then an atomic rename of entry.json.
WriteEntry(s, data) ==
  /\ entry' = [entry EXCEPT ![s] = data]
  /\ dir' = [dir EXCEPT ![s] = TRUE]

\* write_entry, then leave the `with EntryLock` block.
WriteEntryAndUnlock(p, data) ==
  /\ entry' = [entry EXCEPT ![Slot(p)] = data]
  /\ dir' = [dir EXCEPT ![Slot(p)] = TRUE]
  /\ phase' = [phase EXCEPT ![p] = "none"]
  /\ req' = [req EXCEPT ![p] = None]
  /\ fd' = [fd EXCEPT ![p] = None]
  /\ UNCHANGED lockFile

\* Mutant of ValidComplete: the manifest vouches for the other files.
ValidByManifest(s, k) ==
  /\ entry[s] # None
  /\ entry[s].key = k
  /\ entry[s].state = "complete"
  /\ project[s].manifest = entry[s].job

\* is_valid_complete
ValidComplete(s, k) ==
  /\ entry[s] # None
  /\ entry[s].key = k
  /\ entry[s].state = "complete"
  /\ project[s].manifest = entry[s].job
  /\ project[s].files = entry[s].job

\* is_current: the recorded binary is the one in target/.
IsCurrent(s, data) == data.build # None /\ target[s] = data.build

----------------------------------------------------------------------------
Init ==
  /\ LockInit
  /\ entry = [s \in Slots |-> None]
  /\ project = [s \in Slots |-> NoProject]
  /\ target = [s \in Slots |-> None]
  /\ staging = [s \in Slots |-> {}]
  /\ pc = [p \in Procs |-> "idle"]
  /\ cmd = [p \in Procs |-> None]
  /\ loc = [p \in Procs |-> NoLocals]
  /\ exit = [p \in Procs |-> "none"]
  /\ job = [j \in Jobs |-> [status |-> "unused", key |-> None]]
  /\ started = 0
  /\ clock = 0

Start(p) ==
  /\ pc[p] = "idle"
  /\ started < MaxCommands
  /\ started' = started + 1
  /\ \E c \in Commands :
       /\ cmd' = [cmd EXCEPT ![p] = c]
       /\ Goto(p, IF InCache(c.slot) THEN "locate" ELSE "directory")
  /\ exit' = [exit EXCEPT ![p] = "none"]
  /\ UNCHANGED <<lockVars, diskVars, loc, job, clock>>

\* _check_directory runs before the lock is taken.  Everything but
\* .wunderspec/ counts as contents; with --force all children are removed,
\* .wunderspec/ with its lock file included.
CheckDirectory(p) ==
  LET s == Slot(p)
      empty == project[s] = NoProject /\ target[s] = None
      same == entry[s] # None /\ SpecOf[entry[s].key] = SpecOf[Key(p)]
  IN
  /\ pc[p] = "directory"
  /\ \/ /\ empty \/ same
        /\ Goto(p, "locate")
        /\ UNCHANGED <<cmd, loc, exit, lockVars, diskVars>>
     \/ /\ ~(empty \/ same) /\ ~cmd[p].force
        /\ Exit(p, "CANT_CREATE")
        /\ UNCHANGED <<lockVars, diskVars>>
     \/ /\ ~(empty \/ same) /\ cmd[p].force
        /\ entry' = [entry EXCEPT ![s] = None]
        /\ project' = [project EXCEPT ![s] = NoProject]
        /\ target' = [target EXCEPT ![s] = None]
        /\ lockFile' = [lockFile EXCEPT ![s] = None]
        /\ dir' = [dir EXCEPT ![s] = FALSE]
        /\ Goto(p, "locate")
        /\ UNCHANGED <<cmd, loc, exit, phase, req, fd, staging>>
  /\ UNCHANGED <<job, started, clock>>

\* _locate and the mkdir of EntryLock.__enter__.  Without a configuration the
\* service is read from entry.json, before the lock is taken.
Locate(p) ==
  LET s == Slot(p)
      found == IF InCache(s) THEN ValidComplete(s, Key(p)) ELSE entry[s] # None
  IN
  /\ pc[p] = "locate"
  /\ \/ /\ cmd[p].config \/ found
        /\ Enter(p, [slot |-> s, shared |-> FALSE, blocking |-> TRUE])
        /\ Goto(p, "lock")
        /\ UNCHANGED <<cmd, loc, exit>>
     \/ /\ ~cmd[p].config /\ ~found
        /\ Exit(p, "CONFIG")
        /\ UNCHANGED lockVars
  /\ UNCHANGED <<diskVars, job, started, clock>>

\* The steps of EntryLock.__enter__ after its mkdir.
Locking(p) ==
  /\ pc[p] \in {"lock", "evictlock", "runlock"}
  /\ Open(p) \/ Try(p) \/ Acquire(p)
  /\ UNCHANGED <<diskVars, procVars, job, started, clock>>

\* open() raises FileNotFoundError: main reports "cannot read input".
LockingFails(p) ==
  /\ pc[p] \in {"lock", "evictlock", "runlock"}
  /\ OpenFails(p)
  /\ Exit(p, "CANT_CREATE")
  /\ UNCHANGED <<diskVars, job, started, clock>>

----------------------------------------------------------------------------
\* _obtain, under the exclusive lock.

\* Reuse a complete entry: touch and write it back.
Reuse(p) ==
  LET s == Slot(p)  e == [entry[s] EXCEPT !.used = clock] IN
  /\ pc[p] = "lock" /\ phase[p] = "held"
  /\ ~cmd[p].noCache
  /\ ValidComplete(s, Key(p))
  /\ WriteEntry(s, e)
  /\ Set(p, [loc[p] EXCEPT !.data = e])
  /\ Goto(p, "built")
  /\ UNCHANGED <<lockFile, phase, req, fd, project, target, staging, cmd, exit,
                 job, started, clock>>

\* Mutant of Resumable: the wrong state is tested.
ResumableIfComplete(p) ==
  LET e == entry[Slot(p)] IN
  ~cmd[p].noCache /\ e # None /\ e.key = Key(p) /\ e.state = "complete"

\* The entry records a job of the same key that was not waited for.
Resumable(p) ==
  LET e == entry[Slot(p)] IN
  ~cmd[p].noCache /\ e # None /\ e.key = Key(p) /\ e.state = "pending"

\* Resume the pending job of the same key, or go on to submit.
Translate(p) ==
  LET s == Slot(p)
      draft == [key |-> Key(p), state |-> "new", job |-> None,
                used |-> clock, build |-> None]
  IN
  /\ pc[p] = "lock" /\ phase[p] = "held"
  /\ cmd[p].noCache \/ ~ValidComplete(s, Key(p))
  /\ \/ /\ ~cmd[p].config
        /\ Exit(p, "CONFIG")
        /\ Unlock(p)
     \/ /\ cmd[p].config /\ Resumable(p)
        /\ Set(p, [loc[p] EXCEPT !.data = [draft EXCEPT !.state = "pending",
                                                        !.job = entry[s].job],
                                 !.prev = entry[s], !.resumed = TRUE])
        /\ Goto(p, "record")
        /\ UNCHANGED <<cmd, exit, lockVars>>
     \/ /\ cmd[p].config /\ ~Resumable(p)
        /\ Set(p, [loc[p] EXCEPT !.data = draft, !.prev = entry[s]])
        /\ Goto(p, "submit")
        /\ UNCHANGED <<cmd, exit, lockVars>>
  /\ UNCHANGED <<diskVars, job, started, clock>>

\* The service accepts a submission under a new job id.
NewJob(k, j) ==
  /\ job[j].status = "unused"
  /\ \A i \in 1..(j - 1) : job[i].status # "unused"
  /\ job' = [job EXCEPT ![j] = [status |-> "running", key |-> k]]
CanSubmit == \E i \in Jobs : job[i].status = "unused"

Submit(p) ==
  /\ pc[p] = "submit" /\ CanSubmit
  /\ \E j \in Jobs :
       /\ NewJob(Key(p), j)
       /\ Set(p, [loc[p] EXCEPT !.data.state = "pending", !.data.job = j,
                                !.resumed = FALSE])
  /\ Goto(p, "record")
  /\ UNCHANGED <<lockVars, diskVars, cmd, exit, started, clock>>

\* ServiceError, or a lost request or response (NetworkError).
SubmitFails(p) ==
  /\ pc[p] = "submit"
  /\ \/ /\ "refused" \in Faults \/ ~CanSubmit
        /\ Exit(p, "UNAVAILABLE") /\ UNCHANGED job
     \/ /\ "network" \in Faults
        /\ Exit(p, "IO")
        /\ UNCHANGED job \/ (CanSubmit /\ \E j \in Jobs : NewJob(Key(p), j))
  /\ Unlock(p)
  /\ UNCHANGED <<diskVars, started, clock>>

\* Mutants of Record: the entry is written before mark_pending, or not at all.
RecordUnmarked(p) ==
  /\ pc[p] = "record"
  /\ WriteEntry(Slot(p), [loc[p].data EXCEPT !.state = "new"])
  /\ Goto(p, "poll")
  /\ UNCHANGED <<lockFile, phase, req, fd, project, target, staging, cmd, loc,
                 exit, job, started, clock>>
RecordNothing(p) ==
  /\ pc[p] = "record"
  /\ Goto(p, "poll")
  /\ UNCHANGED <<lockVars, diskVars, cmd, loc, exit, job, started, clock>>

\* mark_pending and write_entry
Record(p) ==
  /\ pc[p] = "record"
  /\ WriteEntry(Slot(p), loc[p].data)
  /\ Goto(p, "poll")
  /\ UNCHANGED <<lockFile, phase, req, fd, project, target, staging, cmd, loc,
                 exit, job, started, clock>>

\* Mutant of Forget: what a --to directory held before is forgotten too.
ForgetAll(p) == entry' = [entry EXCEPT ![Slot(p)] = None] /\ Unlock(p)

\* _forget: drop the pending state; a --to directory gets the complete entry
\* of its previous translation back.
Forget(p) ==
  LET s == Slot(p)  prev == loc[p].prev IN
  IF ~InCache(s) /\ prev # None /\ prev.state = "complete"
  THEN WriteEntryAndUnlock(p, prev)
  ELSE entry' = [entry EXCEPT ![s] = None] /\ Unlock(p)

PollStatus(p) == job[loc[p].data.job].status

\* Mutant of StopWaiting: it cleans up like a failure.
StopWaitingForgets(p) ==
  /\ pc[p] = "poll"
  /\ PollStatus(p) = "running" \/ Faults \cap {"network", "interrupt"} # {}
  /\ Exit(p, "TEMPFAIL")
  /\ Forget(p)
  /\ UNCHANGED <<project, target, staging, job, started, clock>>

\* StoppedWaiting, Ctrl-C or NetworkError: the entry stays pending.
StopWaiting(p) ==
  /\ pc[p] = "poll"
  /\ PollStatus(p) = "running" \/ Faults \cap {"network", "interrupt"} # {}
  /\ Exit(p, "TEMPFAIL")
  /\ Unlock(p)
  /\ UNCHANGED <<diskVars, job, started, clock>>

Fetch(p) ==
  /\ pc[p] = "poll" /\ PollStatus(p) = "succeeded"
  /\ Goto(p, "install")
  /\ UNCHANGED <<lockVars, diskVars, cmd, loc, exit, job, started, clock>>

\* TranslationFailed, or a ServiceError other than a resumed job that is gone.
PollFails(p) ==
  /\ pc[p] = "poll"
  /\ \/ PollStatus(p) = "failed" /\ Exit(p, "DATA")
     \/ /\ "refused" \in Faults \/ (PollStatus(p) = "gone" /\ ~loc[p].resumed)
        /\ Exit(p, "UNAVAILABLE")
  /\ Forget(p)
  /\ UNCHANGED <<project, target, staging, job, started, clock>>

\* A resumed job is no longer available: translate again.
Resubmit(p) ==
  /\ pc[p] = "poll" /\ PollStatus(p) = "gone" /\ loc[p].resumed
  /\ Set(p, [loc[p] EXCEPT !.data.job = None, !.data.state = "new"])
  /\ Goto(p, "submit")
  /\ UNCHANGED <<lockVars, diskVars, cmd, exit, job, started, clock>>

----------------------------------------------------------------------------
\* install_archive

\* Remove stale staging directories and unpack into our own.
Unpack(p) ==
  LET s == Slot(p) IN
  /\ pc[p] = "install"
  /\ \/ /\ staging' = [staging EXCEPT ![s] = {p}]
        /\ dir' = [dir EXCEPT ![s] = TRUE]
        /\ Goto(p, "clear")
        /\ UNCHANGED <<entry, lockFile, phase, req, fd, cmd, loc, exit>>
     \/ /\ "archive" \in Faults
        /\ staging' = [staging EXCEPT ![s] = {}]
        /\ Exit(p, "IO")
        /\ Forget(p)
  /\ UNCHANGED <<project, target, job, started, clock>>

\* Remove the previous project; a --to directory keeps Cargo's target/.
Clear(p) ==
  LET s == Slot(p) IN
  /\ pc[p] = "clear"
  /\ project' = [project EXCEPT ![s] = NoProject]
  /\ target' = IF InCache(s) THEN [target EXCEPT ![s] = None] ELSE target
  /\ Goto(p, "place")
  /\ UNCHANGED <<lockVars, entry, staging, cmd, loc, exit, job, started, clock>>

\* Move the staged files in: a rename of the whole project in the cache, child
\* by child in a --to directory.
Place(p) ==
  LET s == Slot(p)  j == loc[p].data.job
      done == [manifest |-> j, files |-> j]
  IN
  /\ pc[p] = "place" /\ p \in staging[s]
  /\ \/ /\ InCache(s)
        /\ project[s] = NoProject
        /\ project' = [project EXCEPT ![s] = done]
     \/ /\ ~InCache(s)
        /\ \E part \in {"manifest", "files"} :
             /\ project[s][part] # j
             /\ project' = [project EXCEPT ![s][part] = j]
  /\ IF project'[s] = done
     THEN /\ Goto(p, "complete")
          /\ staging' = [staging EXCEPT ![s] = @ \ {p}]
     ELSE UNCHANGED <<pc, staging>>
  /\ UNCHANGED <<lockVars, entry, target, cmd, loc, exit, job, started, clock>>

\* Our staging directory is gone, or a project has appeared: OSError.
PlaceFails(p) ==
  LET s == Slot(p) IN
  /\ pc[p] = "place"
  /\ p \notin staging[s] \/ (InCache(s) /\ project[s] # NoProject)
  /\ staging' = [staging EXCEPT ![s] = @ \ {p}]
  /\ Exit(p, "CANT_CREATE")
  /\ Unlock(p)
  /\ UNCHANGED <<entry, project, target, job, started, clock>>

\* mark_complete and write_entry
Complete(p) ==
  LET data == [loc[p].data EXCEPT !.state = "complete", !.build = None] IN
  /\ pc[p] = "complete"
  /\ WriteEntry(Slot(p), data)
  /\ Set(p, [loc[p] EXCEPT !.data = data, !.changed = TRUE])
  /\ Goto(p, "built")
  /\ UNCHANGED <<lockFile, phase, req, fd, project, target, staging, cmd, exit,
                 job, started, clock>>

----------------------------------------------------------------------------
\* _ensure_built, and the end of the exclusive lock

\* Mutants of UpToDate: a reused entry is taken for built; the lock is kept.
UpToDateIfReused(p) ==
  /\ pc[p] = "built"
  /\ ~cmd[p].build \/ ~loc[p].changed
  /\ Goto(p, "after")
  /\ Unlock(p)
  /\ UNCHANGED <<diskVars, cmd, loc, exit, job, started, clock>>
UpToDateKeepsLock(p) ==
  /\ pc[p] = "built"
  /\ ~cmd[p].build \/ IsCurrent(Slot(p), loc[p].data)
  /\ Goto(p, "after")
  /\ UNCHANGED <<lockVars, diskVars, cmd, loc, exit, job, started, clock>>

UpToDate(p) ==
  /\ pc[p] = "built"
  /\ ~cmd[p].build \/ IsCurrent(Slot(p), loc[p].data)
  /\ Goto(p, "after")
  /\ Unlock(p)
  /\ UNCHANGED <<diskVars, cmd, loc, exit, job, started, clock>>

\* build() drops the record of the previous build from the data in memory.
StartBuild(p) ==
  /\ pc[p] = "built"
  /\ cmd[p].build /\ ~IsCurrent(Slot(p), loc[p].data)
  /\ Set(p, [loc[p] EXCEPT !.changed = TRUE, !.data.build = None])
  /\ Goto(p, "build")
  /\ UNCHANGED <<lockVars, diskVars, cmd, exit, job, started, clock>>

Build(p) ==
  LET s == Slot(p) IN
  /\ pc[p] = "build" /\ project[s].files # None
  /\ target' = [target EXCEPT ![s] = project[s].files]
  /\ Set(p, [loc[p] EXCEPT !.data.build = project[s].files])
  /\ Goto(p, "recordbuild")
  /\ UNCHANGED <<lockVars, entry, project, staging, cmd, exit, job, started, clock>>

\* BuildError keeps the translation; without a project Popen raises OSError.
BuildFails(p) ==
  LET s == Slot(p) IN
  /\ pc[p] = "build"
  /\ \/ /\ project[s].files # None /\ "build" \in Faults
        /\ Exit(p, "BUILD")
        /\ WriteEntryAndUnlock(p, loc[p].data)
     \/ /\ project[s].files = None
        /\ Exit(p, "CANT_CREATE")
        /\ Unlock(p) /\ UNCHANGED entry
  /\ UNCHANGED <<project, target, staging, job, started, clock>>

\* Mutant of RecordBuild: the build is not written back.
RecordBuildNowhere(p) ==
  /\ pc[p] = "recordbuild"
  /\ Goto(p, "after")
  /\ Unlock(p)
  /\ UNCHANGED <<diskVars, cmd, loc, exit, job, started, clock>>

RecordBuild(p) ==
  /\ pc[p] = "recordbuild"
  /\ WriteEntryAndUnlock(p, loc[p].data)
  /\ Goto(p, "after")
  /\ UNCHANGED <<project, target, staging, cmd, loc, exit, job, started, clock>>

----------------------------------------------------------------------------
\* evict, called by a command that changed the cache

\* An entry without a readable entry.json counts as never used.
Candidate(k) ==
  [key |-> k, used |-> IF entry[k] = None THEN 0 ELSE 1 + entry[k].used]

OlderFirst(c, d) == c.used < d.used \/ (c.used = d.used /\ c.key < d.key)

\* The candidates are read without any lock.
ScanCache(p) ==
  LET cached == {k \in Keys : dir[k]} IN
  /\ pc[p] = "after"
  /\ IF loc[p].changed /\ InCache(Slot(p))
     THEN /\ Set(p, [loc[p] EXCEPT
                       !.todo = {Candidate(k) : k \in cached},
                       !.total = {k \in cached : project[k].files # None}])
          /\ Goto(p, "evict")
     ELSE Goto(p, "next") /\ UNCHANGED loc
  /\ UNCHANGED <<lockVars, diskVars, cmd, exit, job, started, clock>>

\* The next candidate: stop, skip the entry to keep, or try its lock.
EvictNext(p) ==
  LET todo == loc[p].todo
      above == Cardinality(loc[p].total) > CacheLimit
  IN
  /\ pc[p] = "evict"
  /\ \/ /\ todo = {} \/ ~above
        /\ Set(p, [loc[p] EXCEPT !.todo = {}, !.total = {}])
        /\ Goto(p, "next")
        /\ UNCHANGED lockVars
     \/ /\ above
        /\ \E c \in todo :
             /\ \A d \in todo \ {c} : OlderFirst(c, d)
             /\ Set(p, [loc[p] EXCEPT !.todo = @ \ {c}])
             /\ \/ c.key = Key(p) /\ UNCHANGED <<pc, lockVars>>
                \/ /\ c.key # Key(p)
                   /\ Enter(p, [slot |-> c.key, shared |-> FALSE, blocking |-> FALSE])
                   /\ Goto(p, "evictlock")
  /\ UNCHANGED <<diskVars, cmd, exit, job, started, clock>>

\* Another process holds the lock: go to the next entry.
EvictSkip(p) ==
  /\ pc[p] = "evictlock" /\ phase[p] = "missed"
  /\ Close(p)
  /\ Goto(p, "evict")
  /\ UNCHANGED <<diskVars, cmd, loc, exit, job, started, clock>>

\* rmtree lists a directory and removes what it listed, file by file.
Listing(s) ==
  {n \in Names :
     \/ n = "entry" /\ entry[s] # None
     \/ n = "manifest" /\ project[s].manifest # None
     \/ n = "files" /\ (project[s].files # None \/ target[s] # None)
     \/ n = "staging" /\ staging[s] # {}
     \/ n = "lock" /\ lockFile[s] # None}

EvictStart(p) ==
  LET s == req[p].slot IN
  /\ pc[p] = "evictlock" /\ phase[p] = "held"
  /\ \/ /\ dir[s]
        /\ Set(p, [loc[p] EXCEPT !.names = Listing(s)])
        /\ Goto(p, "rmtree")
        /\ UNCHANGED lockVars
     \/ /\ ~dir[s]    \* path.exists() is false: nothing to remove
        /\ Set(p, [loc[p] EXCEPT !.total = @ \ {s}])
        /\ Goto(p, "evict")
        /\ Close(p)
  /\ UNCHANGED <<diskVars, cmd, exit, job, started, clock>>

\* Remove one listed name, in any order.  A name that is gone already is
\* ignored (Python 3.13) or an error, see RemoveFails.
RemoveName(p) ==
  LET s == req[p].slot IN
  /\ pc[p] = "rmtree"
  /\ \E n \in loc[p].names :
       /\ Set(p, [loc[p] EXCEPT !.names = @ \ {n}])
       /\ entry' = IF n = "entry" THEN [entry EXCEPT ![s] = None] ELSE entry
       /\ project' = IF n \in {"manifest", "files"}
                     THEN [project EXCEPT ![s][n] = None] ELSE project
       /\ target' = IF n = "files" THEN [target EXCEPT ![s] = None] ELSE target
       /\ staging' = IF n = "staging" THEN [staging EXCEPT ![s] = {}] ELSE staging
       /\ lockFile' = IF n = "lock" THEN [lockFile EXCEPT ![s] = None] ELSE lockFile
  /\ UNCHANGED <<dir, phase, req, fd, pc, cmd, exit, job, started, clock>>

\* rmdir(entry_dir), then leave the `with EntryLock` block.
RemoveEntryDir(p) ==
  LET s == req[p].slot IN
  /\ pc[p] = "rmtree" /\ loc[p].names = {}
  /\ Listing(s) = {}
  /\ dir' = [dir EXCEPT ![s] = FALSE]
  /\ phase' = [phase EXCEPT ![p] = "none"]
  /\ req' = [req EXCEPT ![p] = None]
  /\ fd' = [fd EXCEPT ![p] = None]
  /\ Set(p, [loc[p] EXCEPT !.total = @ \ {s}])
  /\ Goto(p, "evict")
  /\ UNCHANGED <<lockFile, diskVars, cmd, exit, job, started, clock>>

\* Somebody removed a listed name first, or put a new one there (ENOTEMPTY).
RemoveFails(p) ==
  LET s == req[p].slot IN
  /\ pc[p] = "rmtree"
  /\ \/ loc[p].names \ Listing(s) # {}
     \/ loc[p].names = {} /\ Listing(s) # {}
  /\ Exit(p, "CANT_CREATE")
  /\ Close(p)
  /\ UNCHANGED <<diskVars, job, started, clock>>

----------------------------------------------------------------------------
\* _run_model, and the end of the command

AfterPrepare(p) ==
  /\ pc[p] = "next"
  /\ IF cmd[p].runs
     THEN /\ Enter(p, [slot |-> Slot(p), shared |-> TRUE, blocking |-> TRUE])
          /\ Goto(p, "runlock")
          /\ UNCHANGED <<cmd, loc, exit>>
     ELSE Exit(p, "OK") /\ UNCHANGED lockVars
  /\ UNCHANGED <<diskVars, job, started, clock>>

\* The binary is the one at the recorded path, whatever has become of it.
RunModel(p) ==
  LET s == Slot(p) IN
  /\ pc[p] = "runlock" /\ phase[p] = "held"
  /\ \/ /\ target[s] # None
        /\ Set(p, [loc[p] EXCEPT !.runs = target[s]])
        /\ Goto(p, "running")
        /\ UNCHANGED <<cmd, exit, lockVars>>
     \/ /\ target[s] = None    \* FileNotFoundError
        /\ Exit(p, "CANT_CREATE")
        /\ Close(p)
  /\ UNCHANGED <<diskVars, job, started, clock>>

ModelEnds(p) ==
  /\ pc[p] = "running"
  /\ Exit(p, "OK")
  /\ Close(p)
  /\ UNCHANGED <<diskVars, job, started, clock>>

\* The process is killed, or interrupted by Ctrl-C outside wait_for_job: the
\* kernel or __exit__ closes the lock, install_archive removes its staging.
Die(p) ==
  /\ pc[p] # "idle"
  /\ \/ "crash" \in Faults /\ UNCHANGED staging
     \/ /\ "interrupt" \in Faults /\ pc[p] # "poll"
        /\ staging' = IF pc[p] \in {"clear", "place"}
                      THEN [staging EXCEPT ![Slot(p)] = @ \ {p}] ELSE staging
  /\ Exit(p, "KILLED")
  /\ Unlock(p)
  /\ UNCHANGED <<entry, project, target, job, started, clock>>

----------------------------------------------------------------------------
\* The service and the clock

JobEnds(j) ==
  /\ job[j].status = "running"
  /\ \E status \in {"succeeded"} \cup ({"failed"} \cap Faults) :
       job' = [job EXCEPT ![j].status = status]
  /\ UNCHANGED <<lockVars, diskVars, procVars, started, clock>>

JobExpires(j) ==
  /\ "expired" \in Faults
  /\ job[j].status \in {"succeeded", "failed"}
  /\ job' = [job EXCEPT ![j].status = "gone"]
  /\ UNCHANGED <<lockVars, diskVars, procVars, started, clock>>

Tick ==
  /\ clock < MaxClock
  /\ clock' = clock + 1
  /\ UNCHANGED <<lockVars, diskVars, procVars, job, started>>

Progress(p) ==
  \/ CheckDirectory(p) \/ Locate(p) \/ Locking(p) \/ LockingFails(p)
  \/ Reuse(p) \/ Translate(p) \/ Submit(p) \/ SubmitFails(p) \/ Record(p)
  \/ StopWaiting(p) \/ Fetch(p) \/ PollFails(p) \/ Resubmit(p)
  \/ Unpack(p) \/ Clear(p) \/ Place(p) \/ PlaceFails(p) \/ Complete(p)
  \/ UpToDate(p) \/ StartBuild(p) \/ Build(p) \/ BuildFails(p) \/ RecordBuild(p)
  \/ ScanCache(p) \/ EvictNext(p) \/ EvictSkip(p) \/ EvictStart(p)
  \/ RemoveName(p) \/ RemoveEntryDir(p) \/ RemoveFails(p)
  \/ AfterPrepare(p) \/ RunModel(p) \/ ModelEnds(p)

\* No command is running: nothing has to happen.
Rest == (\A p \in Procs : pc[p] = "idle") /\ UNCHANGED vars

Next ==
  \/ \E p \in Procs : Start(p) \/ Progress(p) \/ Die(p)
  \/ \E j \in Jobs : JobEnds(j) \/ JobExpires(j)
  \/ Tick
  \/ Rest

Spec == Init /\ [][Next]_vars

\* A process that can take its next step takes it (its poll loop has a
\* deadline), and the model ends by its limits.
FairSpec == Spec /\ \A p \in Procs : WF_vars(Progress(p))

----------------------------------------------------------------------------
\* An entry that _obtain accepts as complete holds the whole translation of its
\* key, and a binary that _ensure_built takes for current was built from that
\* translation: through crashes, half-done installations and removals.
HonestEntry ==
  \A s \in Slots :
    entry[s] # None /\ ValidComplete(s, entry[s].key) =>
      /\ job[entry[s].job].key = entry[s].key
      /\ project[s] = [manifest |-> entry[s].job, files |-> entry[s].job]
      /\ IsCurrent(s, entry[s]) => target[s] = entry[s].job

\* CHANGELOG.md: "concurrent runs submit once": at no time do two jobs for one
\* key run on the service.
SubmittedOnce ==
  \A k \in Keys :
    Cardinality({j \in Jobs : job[j] = [status |-> "running", key |-> k]}) <= 1

\* A process whose command ends OK, or goes on to run the model, releases the
\* lock on an entry that is valid and, if it was to build it, built.
PreparedIsReady ==
  [][\A p \in Procs :
       pc[p] # "after" /\ pc'[p] = "after" =>
         /\ ValidComplete(Slot(p), Key(p))'
         /\ cmd[p].build => IsCurrent(Slot(p), entry[Slot(p)])']_vars

\* "stopped waiting for the service; the job continues": exit 75 leaves an
\* entry from which the next command resumes the very job.
TempfailResumable ==
  [][\A p \in Procs :
       exit[p] # "TEMPFAIL" /\ exit'[p] = "TEMPFAIL" =>
         /\ entry'[Slot(p)] # None
         /\ entry'[Slot(p)].state = "pending"
         /\ entry'[Slot(p)].job = loc[p].data.job]_vars

\* The job of a pending entry can still deliver its translation.
LivePending(s, k) ==
  /\ entry[s] # None /\ entry[s].key = k /\ entry[s].state = "pending"
  /\ job[entry[s].job].status \in {"running", "succeeded"}

\* rust.md: "a translation that was interrupted is resumed by the next run
\* instead of being submitted again".
ResumesPending ==
  [][\A p \in Procs :
       pc[p] = "submit" /\ pc'[p] = "record" => ~LivePending(Slot(p), Key(p))]_vars

\* rust.md: "the least recently used translations are removed, never one that
\* is in use": the project that a command has prepared is there when it runs.
PreparedNotEvicted ==
  [][\A p, q \in Procs :
       LET s == req[p].slot IN
       pc[p] = "rmtree" /\ project'[s] # project[s] =>
         ~(pc[q] \in {"next", "runlock", "running"} /\ Slot(q) = s)]_vars

\* Compiling again in a --to directory: a translation that fails or a bad
\* archive leaves the complete project that was there, and its entry.
DirectoryKeepsPrevious ==
  [][\A p \in Procs :
       LET s == Slot(p)  prev == loc[p].prev IN
       /\ pc[p] \in {"poll", "install"} /\ ~InCache(s)
       /\ prev # None /\ prev.state = "complete"
       /\ project[s] = [manifest |-> prev.job, files |-> prev.job]
       /\ exit'[p] \in {"DATA", "UNAVAILABLE", "IO"}
       => entry'[s] = prev /\ project'[s] = project[s] /\ target'[s] = target[s]]_vars

\* No command fails for want of a file another command has removed.
NoSpuriousFailure == \A p \in Procs : exit[p] # "CANT_CREATE"

\* Every command comes to an end: nobody waits for a lock for ever.
CommandsEnd == \A p \in Procs : pc[p] # "idle" ~> pc[p] = "idle"
============================================================================

--------------------- MODULE TranslationCacheSafe_proofs ---------------------
(***************************************************************************)
(* What the commands may rely on.  First, the entries that nobody removes: *)
(* --to directories when no command empties one with --force, and the      *)
(* entries of a cache that never exceeds its limit.  For them the lock     *)
(* excludes, and what a process knows of its entry stays true while it     *)
(* holds the lock.  Then an entry is honest whatever is evicted, as long   *)
(* as no command empties a --to directory.  If moreover the cache has room *)
(* for all its keys, EntryLock is the readers-writer lock that the         *)
(* commands take it for, a prepared entry is ready, and a command that     *)
(* stops waiting leaves the job for the next one.  Last, commands that     *)
(* share the entries of such a cache, without --no-cache and --to: no      *)
(* command fails for want of a file, a pending job is resumed, and, when   *)
(* the service and the processes are reliable, a translation is submitted  *)
(* once.                                                                   *)
(***************************************************************************)
EXTENDS TranslationCache_proofs

\* No command empties a --to directory.
NoForce == \A c \in Commands : c.slot \in Dirs => ~c.force

\* The slots whose directory is never removed then: a cache that has room for
\* all its keys evicts nothing.
Kept == {s \in Slots : s \in Keys => Cardinality(Keys) <= CacheLimit}

----------------------------------------------------------------------------
\* Whoever has the lock file of a kept slot open has the one at its path.
LinkedKept ==
  \A p \in Procs : phase[p] \in Opened /\ req[p].slot \in Kept =>
                     fd[p] = lockFile[req[p].slot]
DirKept ==
  \A p \in Procs : phase[p] # "none" /\ req[p].slot \in Kept => dir[req[p].slot]
NotEvicted ==
  \A p \in Procs : pc[p] \in Evicting => req[p].slot \notin Kept

PathInv == LinkedKept /\ DirKept /\ NotEvicted

\* A recorded build is a build of the recorded translation.
OwnBuild(e) == e # None /\ e.build # None => e.build = e.job
OwnBuilds == \A s \in Kept : OwnBuild(entry[s])

\* What a process that holds the lock of a kept slot knows of it.
Pending == {"poll", "install", "clear", "place", "complete"}
HolderAt(p) ==
  LET s == Slot(p)
      data == loc[p].data
      done == [manifest |-> data.job, files |-> data.job]
  IN
  /\ pc[p] \in {"submit"} \cup Marked => OwnBuild(loc[p].prev)
  /\ pc[p] \in Pending \cup {"built"} => entry[s] = data
  /\ pc[p] \in {"clear", "place"} => p \in staging[s]
  /\ pc[p] = "place" /\ s \in Keys => project[s] = NoProject
  /\ pc[p] \in {"complete"} \cup Built => project[s] = done
  /\ pc[p] \in {"build", "recordbuild"} =>
       /\ entry[s] # None /\ entry[s].key = data.key
       /\ entry[s].state = "complete" /\ entry[s].job = data.job
  /\ pc[p] = "recordbuild" => data.build = data.job /\ target[s] = data.build

HolderInv ==
  \A p \in Procs : pc[p] \in Holding /\ Slot(p) \in Kept => HolderAt(p)

KeptInv == PathInv /\ OwnBuilds /\ HolderInv

----------------------------------------------------------------------------
\* Paths.

\* A kept directory and its lock file stay.
PathsKept ==
  \A s \in Kept : /\ dir[s] => dir'[s]
                  /\ lockFile[s] # None => lockFile'[s] = lockFile[s]

\* Nothing is removed when neither directories nor lock files change.
LEMMA SamePaths ==
  ASSUME UNCHANGED <<dir, lockFile>>
  PROVE  PathsKept
  BY DEF PathsKept

\* Nothing is removed when an entry is written.
LEMMA WrittenPaths ==
  ASSUME LockTypeOK, NEW s \in Slots, dir' = [dir EXCEPT ![s] = TRUE], UNCHANGED lockFile
  PROVE  PathsKept
  BY DEF PathsKept, LockTypeOK, Kept

\* No step removes the directory or the lock file of a kept slot.
LEMMA PathsStep ==
  ASSUME CacheInv, PathInv, NoForce, NEW p \in Procs, Start(p) \/ Progress(p) \/ Die(p)
  PROVE  PathsKept
<1> USE DEF CacheInv, TypeOK
<1>1. CASE Start(p) \/ Die(p)
  <2>1. UNCHANGED <<dir, lockFile>>
    BY <1>1 DEF Start, Die, Unlock, Close, lockVars
  <2>2. QED
    BY <2>1, SamePaths
<1>2. CASE CheckDirectory(p)
  <2>1. cmd[p] \in Commands /\ Slot(p) \in Dirs
    BY <1>2 DEF CheckDirectory, ControlInv, ControlAt
  <2>2. ~cmd[p].force
    BY <2>1 DEF NoForce, Slot
  <2>3. QED
    BY <1>2, <2>2, SamePaths DEF CheckDirectory, lockVars
<1>3. CASE Locate(p) \/ EvictNext(p) \/ AfterPrepare(p)
  <2>1. CASE UNCHANGED lockVars
    BY <2>1, SamePaths DEF lockVars
  <2>2. CASE \E r \in Requests : Enter(p, r)
    BY <2>2, WrittenPaths DEF Enter, Requests
  <2>3. ASSUME EvictNext(p), NEW c \in loc[p].todo
        PROVE  [slot |-> c.key, shared |-> FALSE, blocking |-> FALSE] \in Requests
    BY <2>3, SlotsAssumption DEF Locals, Candidates, Requests
  <2>4. ASSUME Locate(p) \/ AfterPrepare(p)
        PROVE  Exclusive(p) \in Requests /\ Shared(p) \in Requests
    <3>1. Slot(p) \in Slots
      BY <2>4, CommandTyped DEF Locate, AfterPrepare
    <3>2. QED
      BY <3>1 DEF Exclusive, Shared, Requests
  <2>5. QED
    BY <1>3, <2>1, <2>2, <2>3, <2>4 DEF Locate, EvictNext, AfterPrepare, Exclusive, Shared
<1>4. CASE Locking(p)
  <2>1. CASE Open(p)
    <3>1. req[p].slot \in Slots
      BY <2>1 DEF Open, PhaseInv, Requests
    <3>2. QED
      BY <2>1, <3>1 DEF Open, PathsKept, LockTypeOK, Kept
  <2>2. CASE Try(p) \/ Acquire(p)
    BY <2>2, SamePaths DEF Try, Acquire
  <2>3. QED
    BY <1>4, <2>1, <2>2 DEF Locking
<1>5. CASE LockingFails(p)
  BY <1>5, SamePaths DEF LockingFails, OpenFails
<1>6. CASE \/ Translate(p) \/ Submit(p) \/ SubmitFails(p) \/ StopWaiting(p) \/ Fetch(p)
           \/ Resubmit(p) \/ Clear(p) \/ Place(p) \/ PlaceFails(p) \/ UpToDate(p)
           \/ StartBuild(p) \/ Build(p)
  <2>1. UNCHANGED <<dir, lockFile>>
    BY <1>6
       DEF Translate, Submit, SubmitFails, StopWaiting, Fetch, Resubmit, Clear, Place,
           PlaceFails, UpToDate, StartBuild, Build, Unlock, Close, lockVars
  <2>2. QED
    BY <2>1, SamePaths
<1>7. CASE \/ Reuse(p) \/ Record(p) \/ PollFails(p) \/ Unpack(p) \/ Complete(p)
           \/ BuildFails(p) \/ RecordBuild(p)
  <2>1. Slot(p) \in Slots
    BY <1>7, CommandTyped
       DEF Reuse, Record, PollFails, Unpack, Complete, BuildFails, RecordBuild
  <2>2. CASE UNCHANGED <<dir, lockFile>>
    BY <2>2, SamePaths
  <2>3. CASE dir' = [dir EXCEPT ![Slot(p)] = TRUE] /\ UNCHANGED lockFile
    BY <2>1, <2>3, WrittenPaths
  <2>4. QED
    BY <1>7, <2>2, <2>3
       DEF Reuse, Record, PollFails, Unpack, Complete, BuildFails, RecordBuild, Forget,
           WriteEntry, WriteEntryAndUnlock, Unlock, Close, lockVars
<1>8. CASE ScanCache(p) \/ EvictSkip(p) \/ EvictStart(p) \/ RemoveFails(p)
           \/ RunModel(p) \/ ModelEnds(p)
  <2>1. UNCHANGED <<dir, lockFile>>
    BY <1>8 DEF ScanCache, EvictSkip, EvictStart, RemoveFails, RunModel, ModelEnds, Close,
                lockVars
  <2>2. QED
    BY <2>1, SamePaths
<1>9. CASE RemoveName(p) \/ RemoveEntryDir(p)
  <2>1. req[p].slot \notin Kept
    BY <1>9 DEF RemoveName, RemoveEntryDir, PathInv, NotEvicted, Evicting
  <2>2. /\ dir' = dir \/ dir' = [dir EXCEPT ![req[p].slot] = FALSE]
        /\ lockFile' = lockFile \/ lockFile' = [lockFile EXCEPT ![req[p].slot] = None]
    BY <1>9 DEF RemoveName, RemoveEntryDir
  <2>3. QED
    BY <2>1, <2>2 DEF PathsKept, LockTypeOK, Kept
<1>10. QED
  BY <1>1, <1>2, <1>3, <1>4, <1>5, <1>6, <1>7, <1>8, <1>9 DEF Progress

\* An eviction is of an entry beyond the limit.
LEMMA EvictedNotKept ==
  ASSUME CacheInv, NEW p \in Procs, EvictNext(p), pc'[p] \in Evicting
  PROVE  req'[p].slot \notin Kept
<1>1. loc[p].total \subseteq Keys
  BY DEF CacheInv, TypeOK, Locals
<1>2. /\ IsFiniteSet(Keys) /\ Cardinality(Keys) \in Nat /\ Cardinality(loc[p].total) \in Nat
      /\ Cardinality(loc[p].total) <= Cardinality(Keys)
  BY <1>1, SlotsAssumption, FS_Subset, FS_CardinalityType
<1>3. CacheLimit \in Nat
  BY BoundsAssumption
<1>4. pc'[p] # pc[p]
  BY DEF EvictNext, Evicting
<1>5. Goto(p, "evictlock")
  BY <1>4 DEF EvictNext, Goto, Evicting, CacheInv, TypeOK
<1>6. pc'[p] = "evictlock"
  BY <1>5 DEF Goto, CacheInv, TypeOK
<1>7. PICK c \in loc[p].todo :
        /\ Cardinality(loc[p].total) > CacheLimit
        /\ Enter(p, [slot |-> c.key, shared |-> FALSE, blocking |-> FALSE])
  BY <1>4, <1>6 DEF EvictNext, Goto, CacheInv, TypeOK
<1>8. c.key \in Keys /\ req'[p].slot = c.key
  BY <1>7 DEF Enter, CacheInv, TypeOK, LockTypeOK, Locals, Candidates
<1>9. ~(Cardinality(Keys) <= CacheLimit)
  BY <1>2, <1>3, <1>7
<1>10. QED
  BY <1>8, <1>9 DEF Kept

\* A command comes to the eviction of an entry through the list of candidates
\* only.
LEMMA EvictingStays ==
  ASSUME CacheInv, NEW p \in Procs, Start(p) \/ Progress(p) \/ Die(p), ~EvictNext(p),
         pc'[p] \in Evicting
  PROVE  pc[p] \in Evicting /\ req'[p] = req[p]
<1> USE DEF CacheInv, TypeOK, Evicting
<1>1. CASE Start(p) \/ Die(p) \/ CheckDirectory(p) \/ Locate(p) \/ LockingFails(p)
  BY <1>1 DEF Start, Die, CheckDirectory, Locate, LockingFails, Exit, Goto
<1>2. CASE Locking(p)
  BY <1>2 DEF Locking, Open, Try, Acquire, procVars
<1>3. CASE \/ Reuse(p) \/ Translate(p) \/ Submit(p) \/ SubmitFails(p) \/ Record(p)
           \/ StopWaiting(p) \/ Fetch(p) \/ PollFails(p) \/ Resubmit(p)
  BY <1>3 DEF Reuse, Translate, Submit, SubmitFails, Record, StopWaiting, Fetch,
              PollFails, Resubmit, Exit, Goto
<1>4. CASE Unpack(p) \/ Clear(p) \/ Place(p) \/ PlaceFails(p) \/ Complete(p)
  BY <1>4 DEF Unpack, Clear, Place, PlaceFails, Complete, Exit, Goto
<1>5. CASE UpToDate(p) \/ StartBuild(p) \/ Build(p) \/ BuildFails(p) \/ RecordBuild(p)
  BY <1>5 DEF UpToDate, StartBuild, Build, BuildFails, RecordBuild, Exit, Goto
<1>6. CASE \/ ScanCache(p) \/ EvictSkip(p) \/ EvictStart(p)
           \/ RemoveName(p) \/ RemoveEntryDir(p) \/ RemoveFails(p)
  BY <1>6 DEF ScanCache, EvictSkip, EvictStart, RemoveName, RemoveEntryDir, RemoveFails,
              Exit, Goto, lockVars
<1>7. CASE AfterPrepare(p) \/ RunModel(p) \/ ModelEnds(p)
  BY <1>7 DEF AfterPrepare, RunModel, ModelEnds, Exit, Goto
<1>8. QED
  BY <1>1, <1>2, <1>3, <1>4, <1>5, <1>6, <1>7 DEF Progress

\* The paths of kept slots stay: their locks are files with a name.
LEMMA PathInvStep ==
  ASSUME CacheInv, PathInv, NoForce, NEW p \in Procs, Start(p) \/ Progress(p) \/ Die(p)
  PROVE  PathInv'
<1> USE DEF CacheInv, TypeOK
<1>1. PathsKept /\ LockEffect(p) /\ OthersStay(p)
  BY PathsStep, ProcessStep DEF StepOf
<1>2. ASSUME NEW q \in Procs \ {p}
      PROVE  /\ phase'[q] = phase[q] /\ req'[q] = req[q] /\ fd'[q] = fd[q]
             /\ pc'[q] = pc[q]
  BY <1>1, LockEffectLocal DEF OthersStay
<1>3. ASSUME NEW q \in Procs, req[q].slot \in Kept
      PROVE  /\ phase[q] # "none" => dir'[req[q].slot]
             /\ phase[q] \in Opened => fd[q] = lockFile'[req[q].slot]
  BY <1>1, <1>3 DEF PathInv, LinkedKept, DirKept, PathsKept, PhaseInv
<1>4. ASSUME NEW q \in Procs, q # p, req'[q].slot \in Kept
      PROVE  /\ phase'[q] # "none" => dir'[req'[q].slot]
             /\ phase'[q] \in Opened => fd'[q] = lockFile'[req'[q].slot]
  BY <1>2, <1>3, <1>4
<1>5. ASSUME req'[p].slot \in Kept
      PROVE  /\ phase'[p] # "none" => dir'[req'[p].slot]
             /\ phase'[p] \in Opened => fd'[p] = lockFile'[req'[p].slot]
  <2>1. CASE LockKept
    BY <1>3, <1>5, <2>1 DEF LockKept
  <2>2. ASSUME NEW r \in Requests, Enter(p, r)
        PROVE  /\ phase'[p] # "none" => dir'[req'[p].slot]
               /\ phase'[p] \in Opened => fd'[p] = lockFile'[req'[p].slot]
    BY <2>2 DEF Enter, Opened, LockTypeOK, Requests
  <2>3. CASE Open(p)
    <3>1. req[p].slot \in Slots
      BY <2>3 DEF Open, PhaseInv, Requests
    <3>2. QED
      BY <2>3, <3>1 DEF Open, LockTypeOK
  <2>4. CASE Try(p) \/ Acquire(p)
    BY <1>3, <1>5, <2>4 DEF Try, Acquire, Opened
  <2>5. CASE LockLeft(p)
    BY <2>5 DEF LockLeft, Opened, LockTypeOK
  <2>6. QED
    BY <1>1, <2>1, <2>2, <2>3, <2>4, <2>5 DEF LockEffect
<1>6. ASSUME NEW q \in Procs, pc'[q] \in Evicting
      PROVE  req'[q].slot \notin Kept
  <2>1. CASE q # p
    BY <1>2, <1>6, <2>1 DEF PathInv, NotEvicted
  <2>2. CASE q = p /\ EvictNext(p)
    BY <1>6, <2>2, EvictedNotKept
  <2>3. CASE q = p /\ ~EvictNext(p)
    BY <1>6, <2>3, EvictingStays DEF PathInv, NotEvicted
  <2>4. QED
    BY <2>1, <2>2, <2>3
<1>7. QED
  BY <1>4, <1>5, <1>6 DEF PathInv, LinkedKept, DirKept, NotEvicted

\* Two holders of the lock of a kept slot share it.
LEMMA KeptMutex ==
  ASSUME CacheInv, PathInv, NEW p \in Procs, NEW q \in Procs \ {p},
         phase[p] = "held", phase[q] = "held",
         req[p].slot = req[q].slot, req[p].slot \in Kept
  PROVE  req[p].shared /\ req[q].shared
  BY DEF CacheInv, InodeMutex, PathInv, LinkedKept, Opened

----------------------------------------------------------------------------
\* Entries.

SameEntry(s) ==
  /\ entry'[s] = entry[s] /\ project'[s] = project[s]
  /\ target'[s] = target[s] /\ staging'[s] = staging[s]

\* Only a process that holds its lock exclusively changes a kept entry.
LEMMA OnlyHolderWrites ==
  ASSUME CacheInv, PathInv, NoForce, NEW p \in Procs, Start(p) \/ Progress(p) \/ Die(p),
         NEW s \in Kept
  PROVE  \/ SameEntry(s)
         \/ s = Slot(p) /\ phase[p] = "held" /\ req[p] = Exclusive(p)
<1> USE DEF CacheInv, TypeOK
<1>0. s \in Slots
  BY DEF Kept
<1>1. CASE UNCHANGED diskVars
  BY <1>1 DEF diskVars, SameEntry
<1>2. CASE \/ Start(p) \/ Locate(p) \/ Locking(p) \/ LockingFails(p)
           \/ ScanCache(p) \/ EvictNext(p) \/ EvictSkip(p) \/ EvictStart(p)
           \/ RemoveEntryDir(p) \/ RemoveFails(p)
           \/ AfterPrepare(p) \/ RunModel(p) \/ ModelEnds(p)
  BY <1>1, <1>2
     DEF Start, Locate, Locking, LockingFails, ScanCache, EvictNext, EvictSkip, EvictStart,
         RemoveEntryDir, RemoveFails, AfterPrepare, RunModel, ModelEnds
<1>3. CASE CheckDirectory(p)
  <2>1. cmd[p] \in Commands /\ Slot(p) \in Dirs
    BY <1>3 DEF CheckDirectory, ControlInv, ControlAt
  <2>2. ~cmd[p].force
    BY <2>1 DEF NoForce, Slot
  <2>3. QED
    BY <1>1, <1>3, <2>2 DEF CheckDirectory
<1>4. CASE RemoveName(p)
  <2>1. req[p].slot \notin Kept
    BY <1>4 DEF RemoveName, PathInv, NotEvicted, Evicting
  <2>2. req[p].slot # s
    BY <2>1
  <2>3. PICK n \in loc[p].names :
        /\ entry' = IF n = "entry" THEN [entry EXCEPT ![req[p].slot] = None] ELSE entry
        /\ project' = IF n \in {"manifest", "files"}
                      THEN [project EXCEPT ![req[p].slot][n] = None] ELSE project
        /\ target' = IF n = "files" THEN [target EXCEPT ![req[p].slot] = None] ELSE target
        /\ staging' = IF n = "staging" THEN [staging EXCEPT ![req[p].slot] = {}] ELSE staging
    BY <1>4 DEF RemoveName
  <2>4. QED
    BY <1>0, <2>2, <2>3 DEF SameEntry
<1>5. CASE pc[p] \in Holding \/ (pc[p] = "lock" /\ phase[p] = "held")
  <2>1. phase[p] = "held" /\ req[p] = Exclusive(p) /\ Slot(p) \in Slots
    BY <1>5, Inside
  <2>2. CASE s = Slot(p)
    BY <2>1, <2>2
  <2>3. CASE s # Slot(p)
    <3>1. CASE \/ Reuse(p) \/ Translate(p) \/ Submit(p) \/ SubmitFails(p) \/ Record(p)
               \/ StopWaiting(p) \/ Fetch(p) \/ PollFails(p) \/ Resubmit(p)
      <4>1. entry'[s] = entry[s] /\ UNCHANGED <<project, target, staging>>
        BY <1>0, <2>3, <3>1
           DEF Reuse, Translate, Submit, SubmitFails, Record, StopWaiting, Fetch, PollFails,
               Resubmit, WriteEntry, Forget, WriteEntryAndUnlock, diskVars
      <4>2. QED
        BY <4>1 DEF SameEntry
    <3>2. CASE Unpack(p) \/ Clear(p) \/ PlaceFails(p) \/ Complete(p)
      BY <1>0, <2>3, <3>2
         DEF Unpack, Clear, PlaceFails, Complete, WriteEntry, Forget, WriteEntryAndUnlock,
             SameEntry
    <3>3. CASE Place(p)
      BY <1>0, <2>3, <3>3 DEF Place, SameEntry
    <3>4. CASE UpToDate(p) \/ StartBuild(p) \/ Build(p) \/ BuildFails(p) \/ RecordBuild(p)
      BY <1>0, <2>3, <3>4
         DEF UpToDate, StartBuild, Build, BuildFails, RecordBuild, WriteEntryAndUnlock,
             SameEntry, diskVars
    <3>5. CASE Die(p)
      BY <1>0, <2>3, <3>5 DEF Die, SameEntry
    <3>6. QED
      BY <1>2, <1>3, <1>4, <1>5, <3>1, <3>2, <3>3, <3>4, <3>5 DEF Progress
  <2>4. QED
    BY <2>2, <2>3
<1>6. CASE Die(p) /\ pc[p] \notin Holding
  BY <1>1, <1>6 DEF Die, Holding, Marked, diskVars
<1>7. CASE \/ Reuse(p) \/ Translate(p) \/ Submit(p) \/ SubmitFails(p) \/ Record(p)
           \/ StopWaiting(p) \/ Fetch(p) \/ PollFails(p) \/ Resubmit(p)
           \/ Unpack(p) \/ Clear(p) \/ Place(p) \/ PlaceFails(p) \/ Complete(p)
           \/ UpToDate(p) \/ StartBuild(p) \/ Build(p) \/ BuildFails(p) \/ RecordBuild(p)
  <2>1. pc[p] \in Holding \/ (pc[p] = "lock" /\ phase[p] = "held")
    BY <1>7
       DEF Reuse, Translate, Submit, SubmitFails, Record, StopWaiting, Fetch, PollFails,
           Resubmit, Unpack, Clear, Place, PlaceFails, Complete, UpToDate, StartBuild,
           Build, BuildFails, RecordBuild, Holding, Marked, Built
  <2>2. QED
    BY <1>5, <2>1
<1>8. QED
  BY <1>2, <1>3, <1>4, <1>5, <1>6, <1>7 DEF Progress

\* What another process knows of its kept entry stays true.
LEMMA OthersKnow ==
  ASSUME CacheInv, KeptInv, NoForce, NEW p \in Procs, Start(p) \/ Progress(p) \/ Die(p),
         NEW q \in Procs \ {p}, pc'[q] \in Holding, Slot(q)' \in Kept
  PROVE  HolderAt(q)' /\ SameEntry(Slot(q))
<1>1. pc'[q] = pc[q] /\ cmd'[q] = cmd[q] /\ loc'[q] = loc[q]
  BY ProcessStep DEF StepOf, OthersStay
<1>2. pc[q] \in Holding /\ Slot(q) \in Kept /\ Slot(q)' = Slot(q)
  BY <1>1 DEF Slot
<1>3. phase[q] = "held" /\ req[q] = Exclusive(q)
  BY <1>2, Inside
<1>4. ~(Slot(q) = Slot(p) /\ phase[p] = "held" /\ req[p] = Exclusive(p))
  BY <1>2, <1>3, KeptMutex DEF KeptInv, Exclusive
<1>5. SameEntry(Slot(q))
  BY <1>2, <1>4, OnlyHolderWrites DEF KeptInv
<1>6. HolderAt(q)
  BY <1>2 DEF KeptInv, HolderInv
<1>7. QED
  BY <1>1, <1>2, <1>5, <1>6 DEF HolderAt, SameEntry

----------------------------------------------------------------------------
\* What a process learns by its own steps.

\* A project whose manifest and files are of one job is the whole project of
\* that job.
LEMMA WholeProject ==
  ASSUME NEW x \in Projects, NEW j, x.manifest = j, x.files = j
  PROVE  x = [manifest |-> j, files |-> j]
  BY DEF Projects

\* The updates of locals leave or set the previous entry.
LEMMA PrevSet ==
  ASSUME NEW p \in Procs, loc \in [Procs -> Locals], NEW d, NEW e,
         \/ Set(p, [loc[p] EXCEPT !.data = d, !.prev = e])
         \/ Set(p, [loc[p] EXCEPT !.data = d, !.prev = e, !.resumed = TRUE])
  PROVE  loc'[p].prev = e
<1>1. CASE Set(p, [loc[p] EXCEPT !.data = d, !.prev = e])
  <2> DEFINE l == [loc[p] EXCEPT !.data = d, !.prev = e]
  <2>1. l.prev = e
    BY DEF Locals
  <2>2. Set(p, l)
    BY <1>1
  <2> HIDE DEF l
  <2>3. QED
    BY <2>1, <2>2 DEF Set
<1>2. CASE Set(p, [loc[p] EXCEPT !.data = d, !.prev = e, !.resumed = TRUE])
  <2> DEFINE l == [loc[p] EXCEPT !.data = d, !.prev = e, !.resumed = TRUE]
  <2>1. l.prev = e
    BY DEF Locals
  <2>2. Set(p, l)
    BY <1>2
  <2> HIDE DEF l
  <2>3. QED
    BY <2>1, <2>2 DEF Set
<1>3. QED
  BY <1>1, <1>2
\* A command keeps the entry that it would put back.
LEMMA PrevStays ==
  ASSUME NEW p \in Procs, loc \in [Procs -> Locals], NEW j,
         \/ Set(p, [loc[p] EXCEPT !.data.state = "pending", !.data.job = j, !.resumed = FALSE])
         \/ Set(p, [loc[p] EXCEPT !.data.job = None, !.data.state = "new"])
  PROVE  loc'[p].prev = loc[p].prev
<1>1. CASE Set(p, [loc[p] EXCEPT !.data.state = "pending", !.data.job = j, !.resumed = FALSE])
  <2> DEFINE l == [loc[p] EXCEPT !.data.state = "pending", !.data.job = j, !.resumed = FALSE]
  <2>1. l.prev = loc[p].prev
    BY DEF Locals
  <2>2. Set(p, l)
    BY <1>1
  <2> HIDE DEF l
  <2>3. QED
    BY <2>1, <2>2 DEF Set
<1>2. CASE Set(p, [loc[p] EXCEPT !.data.job = None, !.data.state = "new"])
  <2> DEFINE l == [loc[p] EXCEPT !.data.job = None, !.data.state = "new"]
  <2>1. l.prev = loc[p].prev
    BY DEF Locals
  <2>2. Set(p, l)
    BY <1>2
  <2> HIDE DEF l
  <2>3. QED
    BY <2>1, <2>2 DEF Set
<1>3. QED
  BY <1>1, <1>2

\* The holder of a kept slot that reuses the entry it has found knows what is
\* in it.
LEMMA ReuseLearns ==
  ASSUME CacheInv, KeptInv, NEW p \in Procs, Reuse(p), Slot(p) \in Kept
  PROVE  HolderAt(p)' /\ OwnBuild(entry'[Slot(p)])
<1> DEFINE s == Slot(p)
           e == [entry[s] EXCEPT !.used = clock]
<1>1. s \in Slots /\ loc[p] \in Locals
  BY Inside DEF Reuse
<1>a. /\ entry[s] \in Entries /\ entry[s] # None /\ project[s] \in Projects
      /\ project[s].manifest = entry[s].job /\ project[s].files = entry[s].job
  BY <1>1 DEF CacheInv, TypeOK, Reuse, ValidComplete
<1>b. e \in Entries /\ e.job = entry[s].job /\ e.build = entry[s].build
  BY <1>a DEF CacheInv, TypeOK, Entries
<1>2. /\ e \in Entries /\ e.job = entry[s].job /\ e.build = entry[s].build
      /\ project[s] = [manifest |-> e.job, files |-> e.job] /\ entry[s] # None
  BY <1>a, <1>b, WholeProject
<1>3. OwnBuild(entry[s])
  BY DEF KeptInv, OwnBuilds
<1>4. /\ entry' = [entry EXCEPT ![s] = e] /\ loc' = [loc EXCEPT ![p] = [loc[p] EXCEPT !.data = e]]
      /\ pc' = [pc EXCEPT ![p] = "built"] /\ UNCHANGED <<project, target, staging, cmd>>
  BY DEF Reuse, WriteEntry, Set, Goto
<1> HIDE DEF e
<1>5. pc'[p] = "built" /\ loc'[p].data = e /\ entry'[s] = e /\ Slot(p)' = s
  BY <1>1, <1>2, <1>4, DataTyped DEF CacheInv, TypeOK, Slot
<1>6. OwnBuild(entry'[s])
  BY <1>2, <1>3, <1>5 DEF OwnBuild
<1>7. HolderAt(p)'
  BY <1>2, <1>4, <1>5 DEF HolderAt, Marked, Built, Pending
<1>8. QED
  BY <1>6, <1>7

\* The holder of a kept slot that starts or resumes a translation knows what is
\* in it.
LEMMA TranslateLearns ==
  ASSUME CacheInv, KeptInv, NEW p \in Procs, Translate(p), Slot(p) \in Kept,
         pc'[p] \in Holding
  PROVE  HolderAt(p)'
<1> DEFINE s == Slot(p)
<1>1. s \in Slots /\ loc[p] \in Locals /\ cmd[p] \in Commands
  BY Inside DEF Translate
<1>2. OwnBuild(entry[s])
  BY DEF KeptInv, OwnBuilds
<1>3. pc'[p] # "idle"
  BY DEF Holding, Marked, Built
<1>4. pc'[p] \in {"submit", "record"} /\ cmd' = cmd /\ loc'[p].prev = entry[s]
  <2>1. pc'[p] \in {"submit", "record"} /\ cmd' = cmd
    BY <1>1, <1>3 DEF Translate, Exit, Goto, CacheInv, TypeOK
  <2>2. PICK d :
          \/ Set(p, [loc[p] EXCEPT !.data = d, !.prev = entry[s], !.resumed = TRUE])
          \/ Set(p, [loc[p] EXCEPT !.data = d, !.prev = entry[s]])
    BY <1>3 DEF Translate, Exit, Goto, CacheInv, TypeOK
  <2>3. loc'[p].prev = entry[s]
    <3>1. loc \in [Procs -> Locals]
      BY DEF CacheInv, TypeOK
    <3>2. QED
      BY <2>2, <3>1, PrevSet
  <2>4. QED
    BY <2>1, <2>3
<1>5. QED
  BY <1>1, <1>2, <1>4 DEF HolderAt, Marked, Built, Pending

\* The holder of a kept slot that submits a job knows what is in it.
LEMMA SubmitLearns ==
  ASSUME CacheInv, KeptInv, NEW p \in Procs, Submit(p) \/ Resubmit(p), Slot(p) \in Kept
  PROVE  HolderAt(p)'
<1>1. pc[p] \in Holding /\ loc[p] \in Locals
  BY DEF Submit, Resubmit, Holding, Marked, CacheInv, TypeOK
<1>2. HolderAt(p)
  BY <1>1 DEF KeptInv, HolderInv
<1>3. OwnBuild(loc[p].prev)
  BY <1>2 DEF HolderAt, Submit, Resubmit, Marked
<1>4. pc'[p] \in {"submit", "record"} /\ loc'[p].prev = loc[p].prev
  <2>1. pc'[p] \in {"submit", "record"}
    BY DEF Submit, Resubmit, Goto, CacheInv, TypeOK
  <2>2. PICK j :
          \/ Set(p, [loc[p] EXCEPT !.data.state = "pending", !.data.job = j, !.resumed = FALSE])
          \/ Set(p, [loc[p] EXCEPT !.data.job = None, !.data.state = "new"])
    BY DEF Submit, Resubmit
  <2>3. loc \in [Procs -> Locals]
    BY DEF CacheInv, TypeOK
  <2>4. loc'[p].prev = loc[p].prev
    BY <2>2, <2>3, PrevStays
  <2>5. QED
    BY <2>1, <2>4
<1>5. QED
  BY <1>3, <1>4 DEF HolderAt, Marked, Built, Pending

\* The holder of a kept slot that records its job knows what is in it.
LEMMA RecordLearns ==
  ASSUME CacheInv, KeptInv, NEW p \in Procs, Record(p), Slot(p) \in Kept
  PROVE  HolderAt(p)' /\ OwnBuild(entry'[Slot(p)])
<1>1. pc[p] \in Holding /\ Slot(p) \in Slots
  BY Inside DEF Record, Holding, Marked
<1>2. OwnBuild(loc[p].prev)
  BY <1>1 DEF KeptInv, HolderInv, HolderAt, Record, Marked
<1>3. loc[p].data.build = None
  BY DEF Record, CacheInv, ControlInv, DataAt, DataFits, Marked
<1>4. pc'[p] = "poll" /\ loc' = loc /\ cmd' = cmd /\ entry'[Slot(p)] = loc[p].data
  BY <1>1 DEF Record, Goto, WriteEntry, CacheInv, TypeOK
<1>5. QED
  BY <1>2, <1>3, <1>4 DEF HolderAt, Marked, Built, Pending, OwnBuild, Slot

\* The holder of a kept slot that downloads knows what is in it.
LEMMA FetchLearns ==
  ASSUME CacheInv, KeptInv, NEW p \in Procs, Fetch(p), Slot(p) \in Kept
  PROVE  HolderAt(p)'
<1>1. pc[p] \in Holding
  BY DEF Fetch, Holding, Marked
<1>2. OwnBuild(loc[p].prev) /\ entry[Slot(p)] = loc[p].data
  BY <1>1 DEF KeptInv, HolderInv, HolderAt, Fetch, Marked, Pending
<1>3. pc'[p] = "install" /\ loc' = loc /\ cmd' = cmd /\ entry' = entry
  BY DEF Fetch, Goto, CacheInv, TypeOK, diskVars
<1>4. QED
  BY <1>2, <1>3 DEF HolderAt, Marked, Built, Pending, Slot

\* The holder of a kept slot that unpacks knows what is in it.
LEMMA UnpackLearns ==
  ASSUME CacheInv, KeptInv, NEW p \in Procs, Unpack(p), Slot(p) \in Kept,
         pc'[p] \in Holding
  PROVE  HolderAt(p)'
<1>1. pc[p] \in Holding /\ Slot(p) \in Slots
  BY Inside DEF Unpack, Holding, Marked
<1>2. OwnBuild(loc[p].prev) /\ entry[Slot(p)] = loc[p].data
  BY <1>1 DEF KeptInv, HolderInv, HolderAt, Unpack, Marked, Pending
<1>3. pc'[p] # "idle"
  BY DEF Holding, Marked, Built
<1>4. /\ pc'[p] = "clear" /\ loc' = loc /\ cmd' = cmd /\ entry' = entry
      /\ p \in staging'[Slot(p)]
  BY <1>1, <1>3 DEF Unpack, Exit, Goto, CacheInv, TypeOK
<1>5. QED
  BY <1>2, <1>4 DEF HolderAt, Marked, Built, Pending, Slot

\* The holder of a kept slot that clears the old project knows what is in it.
LEMMA ClearLearns ==
  ASSUME CacheInv, KeptInv, NEW p \in Procs, Clear(p), Slot(p) \in Kept
  PROVE  HolderAt(p)'
<1>1. pc[p] \in Holding /\ Slot(p) \in Slots
  BY Inside DEF Clear, Holding, Marked
<1>2. /\ OwnBuild(loc[p].prev) /\ entry[Slot(p)] = loc[p].data
      /\ p \in staging[Slot(p)]
  BY <1>1 DEF KeptInv, HolderInv, HolderAt, Clear, Marked, Pending
<1>3. /\ pc'[p] = "place" /\ loc' = loc /\ cmd' = cmd /\ entry' = entry
      /\ staging' = staging /\ project'[Slot(p)] = NoProject
  BY <1>1 DEF Clear, Goto, CacheInv, TypeOK
<1>4. QED
  BY <1>2, <1>3 DEF HolderAt, Marked, Built, Pending, Slot

\* The holder of a kept slot that moves the project into place knows what is in
\* it.
LEMMA PlaceLearns ==
  ASSUME CacheInv, KeptInv, NEW p \in Procs, Place(p), Slot(p) \in Kept
  PROVE  HolderAt(p)'
<1> DEFINE s == Slot(p)
           j == loc[p].data.job
           done == [manifest |-> j, files |-> j]
<1>1. pc[p] \in Holding /\ s \in Slots
  BY Inside DEF Place, Holding, Marked
<1>2. /\ OwnBuild(loc[p].prev) /\ entry[s] = loc[p].data /\ p \in staging[s]
  BY <1>1 DEF KeptInv, HolderInv, HolderAt, Place, Marked, Pending
<1>3. loc' = loc /\ cmd' = cmd /\ entry' = entry
  BY DEF Place
<1>4. CASE project'[s] = done
  <2>1. pc'[p] = "complete"
    BY <1>4 DEF Place, Goto, CacheInv, TypeOK
  <2>2. QED
    BY <1>2, <1>3, <1>4, <2>1 DEF HolderAt, Marked, Built, Pending, Slot
<1>5. CASE project'[s] # done
  <2>1. pc'[p] = "place" /\ staging' = staging
    BY <1>5 DEF Place
  <2>2. s \notin Keys
    BY <1>1, <1>5 DEF Place, CacheInv, TypeOK, InCache
  <2>3. QED
    BY <1>2, <1>3, <2>1, <2>2 DEF HolderAt, Marked, Built, Pending, Slot
<1>6. QED
  BY <1>4, <1>5

\* The holder of a kept slot that completes the entry knows what is in it.
LEMMA CompleteLearns ==
  ASSUME CacheInv, KeptInv, NEW p \in Procs, Complete(p), Slot(p) \in Kept
  PROVE  HolderAt(p)' /\ OwnBuild(entry'[Slot(p)])
<1> DEFINE s == Slot(p)
           data == [loc[p].data EXCEPT !.state = "complete", !.build = None]
<1>1. pc[p] \in Holding /\ s \in Slots /\ loc[p] \in Locals
  BY Inside DEF Complete, Holding, Marked
<1>2. loc[p].data \in Entries
  BY DEF Complete, CacheInv, ControlInv, DataAt, DataFits, Marked
<1>3. data \in Entries /\ data.job = loc[p].data.job /\ data.build = None
  BY <1>2 DEF Entries
<1>4. project[s] = [manifest |-> loc[p].data.job, files |-> loc[p].data.job]
  BY <1>1 DEF KeptInv, HolderInv, HolderAt, Complete
<1>5. /\ entry' = [entry EXCEPT ![s] = data]
      /\ loc' = [loc EXCEPT ![p] = [loc[p] EXCEPT !.data = data, !.changed = TRUE]]
      /\ pc' = [pc EXCEPT ![p] = "built"] /\ UNCHANGED <<project, cmd>>
  BY DEF Complete, WriteEntry, Set, Goto
<1> HIDE DEF data
<1>6. pc'[p] = "built" /\ entry'[s] = data /\ loc'[p].data = data /\ Slot(p)' = s
  BY <1>1, <1>5 DEF CacheInv, TypeOK, Slot, Locals
<1>7. QED
  BY <1>3, <1>4, <1>5, <1>6 DEF HolderAt, Marked, Built, Pending, OwnBuild

\* The holder of a kept slot that starts to build knows what is in it.
LEMMA StartBuildLearns ==
  ASSUME CacheInv, KeptInv, NEW p \in Procs, StartBuild(p), Slot(p) \in Kept
  PROVE  HolderAt(p)'
<1> DEFINE s == Slot(p)
           data == loc[p].data
<1>1. pc[p] \in Holding /\ loc[p] \in Locals
  BY DEF StartBuild, Holding, Built, CacheInv, TypeOK
<1>2. data \in Entries /\ data.state = "complete" /\ data # None
  BY AbsentAssumption DEF StartBuild, CacheInv, ControlInv, DataAt, DataFits, Built
<1>3. entry[s] = data /\ project[s] = [manifest |-> data.job, files |-> data.job]
  BY <1>1 DEF KeptInv, HolderInv, HolderAt, StartBuild, Built
<1>4. /\ pc'[p] = "build" /\ UNCHANGED <<entry, project, cmd>>
      /\ loc'[p].data.job = data.job /\ loc'[p].data.key = data.key
  BY <1>1, <1>2 DEF StartBuild, Goto, Set, CacheInv, TypeOK, Locals, Entries, diskVars
<1>5. QED
  BY <1>2, <1>3, <1>4 DEF HolderAt, Marked, Built, Pending, Slot

\* The holder of a kept slot that builds knows what is in it.
LEMMA BuildLearns ==
  ASSUME CacheInv, KeptInv, NEW p \in Procs, Build(p), Slot(p) \in Kept
  PROVE  HolderAt(p)'
<1> DEFINE s == Slot(p)
           data == loc[p].data
           files == project[s].files
<1>1. pc[p] \in Holding /\ loc[p] \in Locals /\ s \in Slots
  BY Inside DEF Build, Holding, Built
<1>2. data \in Entries
  BY DEF Build, CacheInv, ControlInv, DataAt, DataFits, Built
<1>3. /\ project[s] = [manifest |-> data.job, files |-> data.job]
      /\ entry[s] # None /\ entry[s].key = data.key
      /\ entry[s].state = "complete" /\ entry[s].job = data.job
  BY <1>1 DEF KeptInv, HolderInv, HolderAt, Build, Built
<1>4. /\ loc' = [loc EXCEPT ![p] = [loc[p] EXCEPT !.data.build = files]]
      /\ target' = [target EXCEPT ![s] = files]
      /\ pc' = [pc EXCEPT ![p] = "recordbuild"] /\ UNCHANGED <<entry, project, cmd>>
  BY DEF Build, Set, Goto
<1>5. files = data.job
  BY <1>3
<1> HIDE DEF files
<1>6. /\ pc'[p] = "recordbuild" /\ target'[s] = files /\ loc'[p].data.build = files
      /\ loc'[p].data.job = data.job /\ loc'[p].data.key = data.key
  BY <1>1, <1>2, <1>4 DEF CacheInv, TypeOK, Locals, Entries
<1>7. QED
  BY <1>3, <1>4, <1>5, <1>6 DEF HolderAt, Marked, Built, Pending, Slot

----------------------------------------------------------------------------
\* The invariant.

\* A command that holds the lock of a kept slot knows what is in it, whatever
\* step it has taken.
LEMMA Learns ==
  ASSUME CacheInv, KeptInv, NoForce, NEW p \in Procs, Start(p) \/ Progress(p) \/ Die(p),
         pc'[p] \in Holding, Slot(p)' \in Kept
  PROVE  HolderAt(p)'
<1> USE DEF Holding, Marked, Built
<1>0. pc \in [Procs -> Steps]
  BY DEF CacheInv, TypeOK
<1>1. \/ Reuse(p) \/ Translate(p) \/ Submit(p) \/ Record(p) \/ Fetch(p) \/ Resubmit(p)
      \/ Unpack(p) \/ Clear(p) \/ Place(p) \/ Complete(p) \/ StartBuild(p) \/ Build(p)
  <2>1. ~(Start(p) \/ Die(p) \/ CheckDirectory(p) \/ Locate(p) \/ LockingFails(p)
          \/ SubmitFails(p) \/ StopWaiting(p) \/ PollFails(p) \/ PlaceFails(p)
          \/ BuildFails(p))
    BY <1>0 DEF Start, Die, CheckDirectory, Locate, LockingFails, SubmitFails, StopWaiting,
                PollFails, PlaceFails, BuildFails, Exit, Goto
  <2>2. ~Locking(p)
    BY DEF Locking, procVars
  <2>3. ~(UpToDate(p) \/ RecordBuild(p) \/ ScanCache(p) \/ EvictNext(p) \/ EvictSkip(p)
          \/ EvictStart(p) \/ RemoveName(p) \/ RemoveEntryDir(p) \/ RemoveFails(p)
          \/ AfterPrepare(p) \/ RunModel(p) \/ ModelEnds(p))
    BY <1>0 DEF UpToDate, RecordBuild, ScanCache, EvictNext, EvictSkip, EvictStart,
                RemoveName, RemoveEntryDir, RemoveFails, AfterPrepare, RunModel, ModelEnds,
                Exit, Goto
  <2>4. QED
    BY <2>1, <2>2, <2>3 DEF Progress
<1>2. cmd'[p] = cmd[p]
  <2>1. CASE Translate(p) \/ Unpack(p)
    BY <1>0, <2>1 DEF Translate, Unpack, Exit, Goto
  <2>2. QED
    BY <1>1, <2>1 DEF Reuse, Submit, Record, Fetch, Resubmit, Clear, Place, Complete,
                      StartBuild, Build
<1>3. Slot(p) \in Kept
  BY <1>2 DEF Slot
<1>4. QED
  BY <1>1, <1>3, ReuseLearns, TranslateLearns, SubmitLearns, RecordLearns, FetchLearns,
     UnpackLearns, ClearLearns, PlaceLearns, CompleteLearns, StartBuildLearns, BuildLearns

\* The holder of a kept slot leaves an entry whose build is of its own job.
LEMMA WritesOwnBuild ==
  ASSUME CacheInv, KeptInv, NEW p \in Procs, Start(p) \/ Progress(p) \/ Die(p),
         Slot(p) \in Kept, phase[p] = "held", req[p] = Exclusive(p)
  PROVE  OwnBuild(entry'[Slot(p)])
<1> DEFINE s == Slot(p)
<1>0. s \in Slots /\ OwnBuild(entry[s]) /\ OwnBuild(None)
  BY DEF Kept, KeptInv, OwnBuilds, OwnBuild
<1>1. CASE Reuse(p) \/ Record(p) \/ Complete(p)
  BY <1>1, ReuseLearns, RecordLearns, CompleteLearns
<1>2. CASE PollFails(p) \/ Unpack(p)
  <2>1. pc[p] \in Holding
    BY <1>2 DEF PollFails, Unpack, Holding, Marked
  <2>2. OwnBuild(loc[p].prev)
    BY <1>2, <2>1 DEF KeptInv, HolderInv, HolderAt, PollFails, Unpack, Marked
  <2>3. \/ entry' = entry
        \/ entry' = [entry EXCEPT ![s] = loc[p].prev]
        \/ entry' = [entry EXCEPT ![s] = None]
    BY <1>2 DEF PollFails, Unpack, Forget, WriteEntryAndUnlock
  <2>4. QED
    BY <1>0, <2>2, <2>3 DEF CacheInv, TypeOK
<1>3. CASE BuildFails(p) \/ RecordBuild(p)
  <2>1. pc[p] \in Holding
    BY <1>3 DEF BuildFails, RecordBuild, Holding, Built
  <2>2. OwnBuild(loc[p].data)
    <3>1. CASE pc[p] = "build"
      BY <3>1 DEF OwnBuild, CacheInv, ControlInv, DataAt, DataFits
    <3>2. CASE pc[p] = "recordbuild"
      BY <2>1, <3>2 DEF OwnBuild, KeptInv, HolderInv, HolderAt
    <3>3. QED
      BY <1>3, <3>1, <3>2 DEF BuildFails, RecordBuild
  <2>3. entry' = entry \/ entry' = [entry EXCEPT ![s] = loc[p].data]
    BY <1>3 DEF BuildFails, RecordBuild, WriteEntryAndUnlock
  <2>4. QED
    BY <1>0, <2>2, <2>3 DEF CacheInv, TypeOK
<1>4. CASE CheckDirectory(p) \/ RemoveName(p)
  <2>1. pc[p] = "directory" \/ pc[p] \in Evicting
    BY <1>4 DEF CheckDirectory, RemoveName, Evicting
  <2>2. phase[p] = "none" \/ req[p] \in Eviction
    BY <2>1 DEF CacheInv, ControlInv, ControlAt, Unlocked
  <2>3. FALSE
    BY <2>2 DEF Eviction, Exclusive
  <2>4. QED
    BY <2>3
<1>5. CASE entry' = entry
  BY <1>0, <1>5
<1>6. CASE \/ Start(p) \/ Die(p) \/ Locate(p) \/ Locking(p) \/ LockingFails(p)
           \/ Translate(p) \/ Submit(p) \/ SubmitFails(p) \/ StopWaiting(p) \/ Fetch(p)
           \/ Resubmit(p) \/ Clear(p) \/ Place(p) \/ PlaceFails(p) \/ UpToDate(p)
           \/ StartBuild(p) \/ Build(p)
  BY <1>5, <1>6
     DEF Start, Die, Locate, Locking, LockingFails, Translate, Submit, SubmitFails,
         StopWaiting, Fetch, Resubmit, Clear, Place, PlaceFails, UpToDate, StartBuild,
         Build, diskVars
<1>7. CASE \/ ScanCache(p) \/ EvictNext(p) \/ EvictSkip(p) \/ EvictStart(p)
           \/ RemoveEntryDir(p) \/ RemoveFails(p)
           \/ AfterPrepare(p) \/ RunModel(p) \/ ModelEnds(p)
  BY <1>5, <1>7
     DEF ScanCache, EvictNext, EvictSkip, EvictStart, RemoveEntryDir, RemoveFails,
         AfterPrepare, RunModel, ModelEnds, diskVars
<1>8. QED
  BY <1>1, <1>2, <1>3, <1>4, <1>6, <1>7 DEF Progress

\* Every step preserves the invariant of kept slots.
LEMMA KeptStep ==
  ASSUME CacheInv, KeptInv, NoForce, [Next]_vars
  PROVE  KeptInv'
<1>1. CASE ServiceStep
  <2>1. UNCHANGED <<lockVars, diskVars, procVars>>
    BY <1>1, ServiceKeeps, Parts DEF CacheInv
  <2>2. QED
    BY <2>1
       DEF KeptInv, PathInv, LinkedKept, DirKept, NotEvicted, OwnBuilds, HolderInv,
           HolderAt, Slot, lockVars, diskVars, procVars
<1>2. ASSUME NEW p \in Procs, Start(p) \/ Progress(p) \/ Die(p)
      PROVE  KeptInv'
  <2>1. PathInv'
    BY <1>2, PathInvStep DEF KeptInv
  <2>2. OwnBuilds'
    BY <1>2, OnlyHolderWrites, WritesOwnBuild DEF KeptInv, OwnBuilds, SameEntry
  <2>3. HolderInv'
    BY <1>2, OthersKnow, Learns DEF HolderInv
  <2>4. QED
    BY <2>1, <2>2, <2>3 DEF KeptInv
<1>3. QED
  BY <1>1, <1>2, NextSplits

\* The invariant of kept slots holds of an empty cache.
LEMMA KeptInit == Init => KeptInv
  BY DEF Init, LockInit, KeptInv, PathInv, LinkedKept, DirKept, NotEvicted, OwnBuilds,
         OwnBuild, HolderInv, Opened, Evicting, Holding, Marked, Built, Kept

\* What the holder of the lock of a kept entry knows of it is true.
THEOREM KeptInvariant == NoForce => (Spec => []KeptInv)
<1> SUFFICES ASSUME NoForce PROVE Spec => []KeptInv
  OBVIOUS
<1>1. CacheInv /\ KeptInv /\ [Next]_vars => KeptInv'
  BY KeptStep
<1>2. QED
  BY CacheInvariant, KeptInit, <1>1, PTL DEF Spec

----------------------------------------------------------------------------
\* Jobs and the records of them.

\* The record of a job is about a job of the same key.
Known(jobs, e) ==
  e # None /\ e.job # None =>
    jobs[e.job].status # "unused" /\ jobs[e.job].key = e.key

\* Every record of a job, on disk and in memory, is about a job of its key.
KnownAt(step, jobs, l) ==
  /\ step \in {"submit"} \cup Marked => Known(jobs, l.prev)
  /\ step \in Marked \cup Built => Known(jobs, l.data)
JobInv ==
  /\ \A s \in Slots : Known(job, entry[s])
  /\ \A p \in Procs : KnownAt(pc[p], job, loc[p])

\* A job never changes its key.
JobsStay ==
  \A j \in Jobs : job[j].status # "unused" =>
                    job'[j].status # "unused" /\ job'[j].key = job[j].key

\* The service only ends and expires the jobs that there are.
LEMMA ServiceJobs ==
  ASSUME TypeOK, ServiceStep
  PROVE  JobsStay
<1>1. ASSUME NEW j \in Jobs, JobEnds(j) \/ JobExpires(j)
      PROVE  JobsStay
  <2>1. PICK status \in JobStatuses \ {"unused"} : job' = [job EXCEPT ![j].status = status]
    BY <1>1 DEF JobEnds, JobExpires, JobStatuses
  <2>2. QED
    BY <2>1 DEF JobsStay, TypeOK
<1>2. CASE job' = job
  BY <1>2 DEF JobsStay
<1>3. QED
  BY <1>1, <1>2 DEF ServiceStep, Tick, vars

\* A new job takes the place of no job.
LEMMA NewJobStays ==
  ASSUME TypeOK, NEW k \in Keys, NEW j \in Jobs, NewJob(k, j)
  PROVE  JobsStay /\ job'[j] = [status |-> "running", key |-> k]
  BY DEF NewJob, JobsStay, TypeOK

\* Records of old jobs stay true.
LEMMA KnownStays ==
  ASSUME JobsStay, NEW e \in Entries \cup {None}, Known(job, e)
  PROVE  Known(job', e)
<1>1. e # None => e.job \in Jobs
  BY DEF Entries
<1>2. QED
  BY <1>1 DEF JobsStay, Known

\* A copy of a record is as true as the record.
LEMMA KnownCopy ==
  ASSUME NEW jobs, NEW e, NEW f, e # None, Known(jobs, e), f.job = e.job, f.key = e.key
  PROVE  Known(jobs, f)
  BY DEF Known

\* What is proved of the jobs for each step of a process.
JobStep(p) ==
  /\ JobsStay
  /\ \A s \in Slots : Known(job', entry'[s])
  /\ KnownAt(pc'[p], job', loc'[p])

\* A command that holds a lock has an entry or a draft of one.
LEMMA RecordsTyped ==
  ASSUME CacheInv, NEW p \in Procs, pc[p] \in Holding
  PROVE  /\ Slot(p) \in Slots /\ loc[p] \in Locals
         /\ loc[p].prev \in Entries \cup {None}
         /\ pc[p] # "submit" => loc[p].data \in Entries /\ loc[p].data # None
                                /\ loc[p].data.job # None
<1>1. Slot(p) \in Slots /\ loc[p] \in Locals
  BY Inside
<1>2. pc[p] # "submit" => loc[p].data \in Entries
  BY DEF CacheInv, ControlInv, DataAt, DataFits, Holding
<1>3. ASSUME loc[p].data \in Entries
      PROVE  loc[p].data # None /\ loc[p].data.job # None
  BY <1>3, AbsentAssumption DEF Entries
<1>4. QED
  BY <1>1, <1>2, <1>3 DEF Locals

\* A step that leaves the lock and writes what the process knows.
LEMMA LeavesJobs ==
  ASSUME CacheInv, JobInv, JobsStay, NEW p \in Procs, pc'[p] \notin Holding,
         \A s \in Slots :
           \/ entry'[s] = entry[s] \/ entry'[s] = None
           \/ pc[p] \in {"submit"} \cup Marked /\ entry'[s] = loc[p].prev
           \/ pc[p] \in Marked \cup Built /\ entry'[s] = loc[p].data
  PROVE  JobStep(p)
<1>1. ASSUME NEW s \in Slots
      PROVE  Known(job', entry'[s])
  <2>1. CASE entry'[s] = None
    BY <2>1 DEF Known
  <2>2. CASE entry'[s] = entry[s]
    BY <2>2, KnownStays DEF JobInv, CacheInv, TypeOK
  <2>3. CASE pc[p] \in {"submit"} \cup Marked /\ entry'[s] = loc[p].prev
    BY <2>3, KnownStays, RecordsTyped DEF JobInv, KnownAt, Holding
  <2>4. CASE pc[p] \in Marked \cup Built /\ entry'[s] = loc[p].data
    BY <2>4, KnownStays, RecordsTyped DEF JobInv, KnownAt, Holding, Marked, Built
  <2>5. QED
    BY <2>1, <2>2, <2>3, <2>4
<1>2. KnownAt(pc'[p], job', loc'[p])
  BY DEF KnownAt, Holding
<1>3. QED
  BY <1>1, <1>2 DEF JobStep

\* A step under the lock that submits nothing: the process knows a record with
\* the job of the one it knew, and perhaps writes one of the two.
LEMMA StaysJobs ==
  ASSUME CacheInv, JobInv, NEW p \in Procs, job' = job,
         pc[p] \in Marked \cup Built, pc'[p] \in Marked \cup Built,
         pc'[p] \in Marked => pc[p] \in Marked,
         loc'[p].prev = loc[p].prev,
         loc'[p].data.job = loc[p].data.job, loc'[p].data.key = loc[p].data.key,
         \A s \in Slots : entry'[s] = entry[s] \/ entry'[s] = loc'[p].data
  PROVE  JobStep(p)
<1>1. Known(job, loc[p].data) /\ loc[p].data # None
  BY RecordsTyped DEF JobInv, KnownAt, Holding, Marked, Built
<1>2. Known(job, loc'[p].data)
  BY <1>1 DEF Known
<1>3. KnownAt(pc'[p], job', loc'[p])
  BY <1>2 DEF JobInv, KnownAt, Marked, Built
<1>4. JobsStay
  BY DEF JobsStay
<1>5. QED
  BY <1>2, <1>3, <1>4 DEF JobStep, JobInv

\* Steps that only read, lock, unlock or evict: every record is still about a
\* job of its key.
LEMMA LeavingJobs ==
  ASSUME CacheInv, JobInv, NEW p \in Procs,
         \/ Start(p) \/ Die(p) \/ CheckDirectory(p) \/ Locate(p) \/ Locking(p)
         \/ LockingFails(p) \/ SubmitFails(p) \/ StopWaiting(p) \/ PollFails(p)
         \/ PlaceFails(p) \/ UpToDate(p) \/ BuildFails(p) \/ RecordBuild(p)
         \/ ScanCache(p) \/ EvictNext(p) \/ EvictSkip(p) \/ EvictStart(p)
         \/ RemoveName(p) \/ RemoveEntryDir(p) \/ RemoveFails(p)
         \/ AfterPrepare(p) \/ RunModel(p) \/ ModelEnds(p)
  PROVE  JobStep(p)
<1> USE DEF CacheInv, TypeOK
<1>0. job' = job => JobsStay
  BY DEF JobsStay
<1>1. pc'[p] \notin Holding
  <2>1. CASE \/ Start(p) \/ Die(p) \/ CheckDirectory(p) \/ Locate(p)
             \/ LockingFails(p) \/ SubmitFails(p) \/ StopWaiting(p) \/ PollFails(p)
             \/ PlaceFails(p) \/ UpToDate(p) \/ BuildFails(p) \/ RecordBuild(p)
    BY <2>1 DEF Start, Die, CheckDirectory, Locate, LockingFails, SubmitFails, StopWaiting,
                PollFails, PlaceFails, UpToDate, BuildFails, RecordBuild, Exit, Goto,
                Holding, Marked, Built
  <2>2. CASE Locking(p)
    BY <2>2 DEF Locking, procVars, Holding, Marked, Built
  <2>3. CASE \/ ScanCache(p) \/ EvictNext(p) \/ EvictSkip(p) \/ EvictStart(p)
             \/ RemoveName(p) \/ RemoveEntryDir(p) \/ RemoveFails(p)
             \/ AfterPrepare(p) \/ RunModel(p) \/ ModelEnds(p)
    BY <2>3 DEF ScanCache, EvictNext, EvictSkip, EvictStart, RemoveName, RemoveEntryDir,
                RemoveFails, AfterPrepare, RunModel, ModelEnds, Exit, Goto,
                Holding, Marked, Built
  <2>4. QED
    BY <2>1, <2>2, <2>3
<1>2. CASE UNCHANGED <<job, entry>>
  BY <1>0, <1>1, <1>2, LeavesJobs
<1>3. CASE \/ Start(p) \/ Die(p) \/ Locate(p) \/ Locking(p) \/ LockingFails(p)
           \/ StopWaiting(p) \/ PlaceFails(p) \/ UpToDate(p) \/ ScanCache(p)
           \/ EvictNext(p) \/ EvictSkip(p) \/ EvictStart(p)
           \/ RemoveEntryDir(p) \/ RemoveFails(p)
           \/ AfterPrepare(p) \/ RunModel(p) \/ ModelEnds(p)
  BY <1>2, <1>3
     DEF Start, Die, Locate, Locking, LockingFails, StopWaiting, PlaceFails, UpToDate,
         ScanCache, EvictNext, EvictSkip, EvictStart, RemoveEntryDir, RemoveFails,
         AfterPrepare, RunModel, ModelEnds, diskVars
<1>4. CASE CheckDirectory(p) \/ RemoveName(p)
  <2>1. /\ job' = job
        /\ \E s : entry' = [entry EXCEPT ![s] = None] \/ entry' = entry
    BY <1>4 DEF CheckDirectory, RemoveName, diskVars
  <2>2. QED
    BY <1>0, <1>1, <2>1, LeavesJobs
<1>5. CASE SubmitFails(p)
  <2>1. Key(p) \in Keys /\ entry' = entry
    BY <1>5, CommandTyped DEF SubmitFails, diskVars
  <2>2. JobsStay
    BY <1>0, <1>5, <2>1, NewJobStays DEF SubmitFails
  <2>3. QED
    BY <1>1, <2>1, <2>2, LeavesJobs
<1>6. CASE PollFails(p)
  <2>1. /\ job' = job /\ pc[p] \in Marked
        /\ \/ entry' = [entry EXCEPT ![Slot(p)] = loc[p].prev]
           \/ entry' = [entry EXCEPT ![Slot(p)] = None]
    BY <1>6 DEF PollFails, Forget, WriteEntryAndUnlock, Marked
  <2>2. QED
    BY <1>0, <1>1, <2>1, LeavesJobs
<1>7. CASE BuildFails(p) \/ RecordBuild(p)
  <2>1. /\ job' = job /\ pc[p] \in Built
        /\ \/ entry' = [entry EXCEPT ![Slot(p)] = loc[p].data]
           \/ entry' = entry
    BY <1>7 DEF BuildFails, RecordBuild, WriteEntryAndUnlock, Built
  <2>2. QED
    BY <1>0, <1>1, <2>1, LeavesJobs
<1>8. QED
  BY <1>3, <1>4, <1>5, <1>6, <1>7

\* The same for recording, downloading and installing.
LEMMA InstallingJobs ==
  ASSUME CacheInv, JobInv, NEW p \in Procs,
         \/ Record(p) \/ Fetch(p) \/ Unpack(p) \/ Clear(p) \/ Place(p)
  PROVE  JobStep(p)
<1> USE DEF CacheInv, TypeOK
<1>1. CASE Record(p) \/ Fetch(p) \/ Clear(p) \/ Place(p)
  <2>1. /\ pc[p] \in Marked /\ pc'[p] \in Marked
        /\ UNCHANGED <<job, loc>>
        /\ entry' = entry \/ entry' = [entry EXCEPT ![Slot(p)] = loc[p].data]
    BY <1>1 DEF Record, Fetch, Clear, Place, Goto, WriteEntry, Marked, diskVars
  <2>2. QED
    BY <2>1, StaysJobs
<1>2. CASE Unpack(p) /\ Goto(p, "clear") /\ UNCHANGED <<entry, loc>>
  <2>1. pc[p] \in Marked /\ pc'[p] \in Marked /\ job' = job
    BY <1>2 DEF Unpack, Goto, Marked
  <2>2. QED
    BY <1>2, <2>1, StaysJobs
<1>3. CASE Unpack(p) /\ Exit(p, "IO") /\ Forget(p)
  <2>1. /\ pc[p] \in Marked /\ job' = job /\ pc'[p] \notin Holding
        /\ \/ entry' = [entry EXCEPT ![Slot(p)] = loc[p].prev]
           \/ entry' = [entry EXCEPT ![Slot(p)] = None]
    BY <1>3 DEF Unpack, Exit, Goto, Forget, WriteEntryAndUnlock, Holding, Marked, Built
  <2>2. JobsStay
    BY <2>1 DEF JobsStay
  <2>3. QED
    BY <2>1, <2>2, LeavesJobs
<1>4. QED
  BY <1>1, <1>2, <1>3 DEF Unpack

\* The same for a command that reuses an entry.
LEMMA ReuseJobs ==
  ASSUME CacheInv, JobInv, NEW p \in Procs, Reuse(p)
  PROVE  JobStep(p)
<1> DEFINE s == Slot(p)
           e == [entry[s] EXCEPT !.used = clock]
<1>1. s \in Slots /\ loc[p] \in Locals
  BY Inside DEF Reuse
<1>2. entry[s] \in Entries /\ entry[s] # None
  BY <1>1 DEF CacheInv, TypeOK, Reuse, ValidComplete
<1>3. e \in Entries /\ e.job = entry[s].job /\ e.key = entry[s].key
  BY <1>2 DEF CacheInv, TypeOK, Entries
<1>4. /\ entry' = [entry EXCEPT ![s] = e] /\ loc' = [loc EXCEPT ![p] = [loc[p] EXCEPT !.data = e]]
      /\ pc' = [pc EXCEPT ![p] = "built"] /\ job' = job
  BY DEF Reuse, WriteEntry, Set, Goto
<1>5. Known(job, e)
  BY <1>1, <1>2, <1>3, KnownCopy DEF JobInv
<1> HIDE DEF e
<1>6. pc'[p] = "built" /\ loc'[p].data = e
  BY <1>1, <1>3, <1>4, DataTyped DEF CacheInv, TypeOK
<1>7. KnownAt(pc'[p], job', loc'[p])
  BY <1>4, <1>5, <1>6 DEF KnownAt, Marked, Built
<1>8. JobsStay
  BY <1>4 DEF JobsStay
<1>9. QED
  BY <1>1, <1>4, <1>5, <1>7, <1>8 DEF JobStep, JobInv, CacheInv, TypeOK

\* The same for a command that resumes, which takes over the job of the pending
\* entry.
LEMMA TranslateJobs ==
  ASSUME CacheInv, JobInv, NEW p \in Procs, Translate(p)
  PROVE  JobStep(p)
<1> DEFINE s == Slot(p)
           draft == [key |-> Key(p), state |-> "new", job |-> None,
                     used |-> clock, build |-> None]
           resumed == [draft EXCEPT !.state = "pending", !.job = entry[s].job]
<1>1. s \in Slots /\ loc[p] \in Locals /\ Known(job, entry[s])
  BY Inside DEF Translate, JobInv
<1>2. UNCHANGED <<job, entry>> /\ JobsStay
  BY DEF Translate, diskVars, JobsStay
<1>3. CASE Exit(p, "CONFIG")
  <2>1. pc'[p] \notin Holding
    BY <1>3 DEF Exit, Goto, Holding, Marked, Built, CacheInv, TypeOK
  <2>2. QED
    BY <1>2, <2>1, LeavesJobs
<1>4. CASE /\ Resumable(p) /\ Goto(p, "record")
           /\ Set(p, [loc[p] EXCEPT !.data = resumed, !.prev = entry[s], !.resumed = TRUE])
  <2> DEFINE l == [loc[p] EXCEPT !.data = resumed, !.prev = entry[s], !.resumed = TRUE]
  <2>1. resumed.job = entry[s].job /\ resumed.key = Key(p)
    OBVIOUS
  <2>2. entry[s] # None /\ entry[s].key = Key(p)
    BY <1>4 DEF Resumable
  <2>3. Known(job, resumed)
    BY <1>1, <2>1, <2>2, KnownCopy
  <2> HIDE DEF resumed
  <2>4. l.data = resumed /\ l.prev = entry[s]
    BY <1>1 DEF Locals
  <2>5. Set(p, l)
    BY <1>4
  <2> HIDE DEF l
  <2>6. loc'[p] = l
    BY <2>5 DEF Set, CacheInv, TypeOK
  <2>7. KnownAt(pc'[p], job', loc'[p])
    BY <1>1, <1>2, <2>3, <2>4, <2>6 DEF KnownAt
  <2>8. QED
    BY <1>2, <2>7 DEF JobStep, JobInv
<1>5. CASE /\ Goto(p, "submit") /\ Set(p, [loc[p] EXCEPT !.data = draft, !.prev = entry[s]])
  <2>1. loc'[p].prev = entry[s]
    <3>1. loc \in [Procs -> Locals]
      BY DEF CacheInv, TypeOK
    <3> HIDE DEF draft
    <3>2. QED
      BY <1>5, <3>1, PrevSet
  <2>2. pc'[p] = "submit"
    BY <1>5 DEF Goto, CacheInv, TypeOK
  <2>3. KnownAt(pc'[p], job', loc'[p])
    BY <1>1, <1>2, <2>1, <2>2 DEF KnownAt, Marked, Built
  <2>4. QED
    BY <1>2, <2>3 DEF JobStep, JobInv
<1>6. QED
  BY <1>3, <1>4, <1>5 DEF Translate

\* The same for a command that submits a job, which is of its key.
LEMMA SubmitJobs ==
  ASSUME CacheInv, JobInv, NEW p \in Procs, Submit(p)
  PROVE  JobStep(p)
<1>1. /\ pc[p] \in Holding /\ loc[p] \in Locals /\ Key(p) \in Keys
      /\ loc[p].prev \in Entries \cup {None} /\ Known(job, loc[p].prev)
  BY Inside, RecordsTyped DEF Submit, Holding, JobInv, KnownAt
<1>2. PICK j \in Jobs :
        /\ NewJob(Key(p), j)
        /\ Set(p, [loc[p] EXCEPT !.data.state = "pending", !.data.job = j, !.resumed = FALSE])
  BY DEF Submit
<1>3. JobsStay /\ job'[j] = [status |-> "running", key |-> Key(p)]
  BY <1>1, <1>2, NewJobStays DEF CacheInv
<1>4. loc[p].data \in Drafts /\ loc[p].data.key = Key(p)
  BY DEF Submit, CacheInv, ControlInv, DataAt, DataFits
<1>5. loc \in [Procs -> Locals]
  BY DEF CacheInv, TypeOK
<1>6. loc'[p].prev = loc[p].prev
  BY <1>2, <1>5, PrevStays
<1>7. loc'[p].data.job = j /\ loc'[p].data.key = Key(p)
  <2> DEFINE l == [loc[p] EXCEPT !.data.state = "pending", !.data.job = j, !.resumed = FALSE]
  <2>1. l.data.job = j /\ l.data.key = Key(p)
    BY <1>1, <1>4 DEF Locals, Drafts
  <2>2. Set(p, l)
    BY <1>2
  <2> HIDE DEF l
  <2>3. QED
    BY <2>1, <2>2, <1>5 DEF Set
<1>8. Known(job', loc'[p].prev) /\ Known(job', loc'[p].data)
  BY <1>1, <1>3, <1>6, <1>7, KnownStays DEF Known
<1>9. \A s \in Slots : Known(job', entry'[s])
  BY <1>3, KnownStays DEF Submit, diskVars, JobInv, CacheInv, TypeOK
<1>10. QED
  BY <1>3, <1>8, <1>9 DEF JobStep, KnownAt

\* The same for a command whose job has expired, which is put back to
\* submitting.
LEMMA ResubmitJobs ==
  ASSUME CacheInv, JobInv, NEW p \in Procs, Resubmit(p)
  PROVE  JobStep(p)
<1>1. Known(job, loc[p].prev) /\ loc \in [Procs -> Locals]
  BY DEF Resubmit, JobInv, KnownAt, Marked, CacheInv, TypeOK
<1>2. loc'[p].prev = loc[p].prev
  BY <1>1, PrevStays DEF Resubmit
<1>3. pc'[p] = "submit" /\ UNCHANGED <<job, entry>>
  BY DEF Resubmit, Goto, CacheInv, TypeOK, diskVars
<1>4. QED
  BY <1>1, <1>2, <1>3 DEF JobStep, JobsStay, JobInv, KnownAt, Marked, Built

\* The same for completing and building.
LEMMA BuildingJobs ==
  ASSUME CacheInv, JobInv, NEW p \in Procs, Complete(p) \/ StartBuild(p) \/ Build(p)
  PROVE  JobStep(p)
<1>1. pc[p] \in Holding \ {"submit"}
  BY DEF Complete, StartBuild, Build, Holding, Marked, Built
<1>2. loc \in [Procs -> Locals] /\ loc[p] \in Locals /\ loc[p].data \in Entries
  BY <1>1, RecordsTyped DEF CacheInv, TypeOK
<1>3. CASE Complete(p)
  <2> DEFINE data == [loc[p].data EXCEPT !.state = "complete", !.build = None]
             l == [loc[p] EXCEPT !.data = data, !.changed = TRUE]
  <2>1. data.job = loc[p].data.job /\ data.key = loc[p].data.key
    BY <1>2 DEF Entries
  <2>2. Set(p, l) /\ entry' = [entry EXCEPT ![Slot(p)] = data]
    BY <1>3 DEF Complete, WriteEntry
  <2> HIDE DEF data
  <2>3. l.data = data /\ l.prev = loc[p].prev
    BY <1>2 DEF Locals
  <2> HIDE DEF l
  <2>4. loc'[p] = l
    BY <1>2, <2>2 DEF Set
  <2>5. \A s \in Slots : entry'[s] = entry[s] \/ entry'[s] = loc'[p].data
    BY <2>2, <2>3, <2>4 DEF CacheInv, TypeOK
  <2>6. pc[p] \in Marked \cup Built /\ pc'[p] \in Built /\ pc'[p] \notin Marked /\ job' = job
    BY <1>3 DEF Complete, Goto, Marked, Built, CacheInv, TypeOK
  <2>7. QED
    BY <2>1, <2>3, <2>4, <2>5, <2>6, StaysJobs
<1>4. CASE StartBuild(p)
  <2> DEFINE l == [loc[p] EXCEPT !.changed = TRUE, !.data.build = None]
  <2>1. l.data.job = loc[p].data.job /\ l.data.key = loc[p].data.key /\ l.prev = loc[p].prev
    BY <1>2 DEF Locals, Entries
  <2>2. Set(p, l) /\ entry' = entry
    BY <1>4 DEF StartBuild, diskVars
  <2> HIDE DEF l
  <2>3. loc'[p] = l
    BY <1>2, <2>2 DEF Set
  <2>4. pc[p] \in Marked \cup Built /\ pc'[p] \in Built /\ pc'[p] \notin Marked /\ job' = job
    BY <1>4 DEF StartBuild, Goto, Marked, Built, CacheInv, TypeOK
  <2>5. QED
    BY <2>1, <2>2, <2>3, <2>4, StaysJobs
<1>5. CASE Build(p)
  <2> DEFINE files == project[Slot(p)].files
             l == [loc[p] EXCEPT !.data.build = files]
  <2> HIDE DEF files
  <2>1. l.data.job = loc[p].data.job /\ l.data.key = loc[p].data.key /\ l.prev = loc[p].prev
    BY <1>2 DEF Locals, Entries
  <2>2. Set(p, l) /\ entry' = entry
    BY <1>5 DEF Build, files
  <2> HIDE DEF l
  <2>3. loc'[p] = l
    BY <1>2, <2>2 DEF Set
  <2>4. pc[p] \in Marked \cup Built /\ pc'[p] \in Built /\ pc'[p] \notin Marked /\ job' = job
    BY <1>5 DEF Build, Goto, Marked, Built, CacheInv, TypeOK
  <2>5. QED
    BY <2>1, <2>2, <2>3, <2>4, StaysJobs
<1>6. QED
  BY <1>3, <1>4, <1>5

\* Every step keeps the records of jobs.
LEMMA JobInvStep ==
  ASSUME CacheInv, JobInv, [Next]_vars
  PROVE  JobInv' /\ JobsStay
<1>1. CASE ServiceStep
  <2>1. JobsStay /\ UNCHANGED <<diskVars, procVars>>
    BY <1>1, ServiceJobs, ServiceKeeps, Parts DEF CacheInv
  <2>2. entry' = entry /\ pc' = pc /\ loc' = loc
    BY <2>1 DEF diskVars, procVars
  <2>3. \A s \in Slots : Known(job', entry[s])
    BY <2>1, KnownStays DEF JobInv, CacheInv, TypeOK
  <2>4. ASSUME NEW p \in Procs
        PROVE  KnownAt(pc[p], job', loc[p])
    BY <2>1, KnownStays, RecordsTyped DEF JobInv, KnownAt, Holding, Marked, Built
  <2>5. QED
    BY <2>1, <2>2, <2>3, <2>4 DEF JobInv
<1>2. ASSUME NEW p \in Procs, Start(p) \/ Progress(p) \/ Die(p)
      PROVE  JobInv' /\ JobsStay
  <2>1. JobStep(p)
    BY <1>2, LeavingJobs, InstallingJobs, ReuseJobs, TranslateJobs, SubmitJobs,
       ResubmitJobs, BuildingJobs DEF Progress
  <2>2. ASSUME NEW q \in Procs \ {p}
        PROVE  KnownAt(pc'[q], job', loc'[q])
    <3>1. pc'[q] = pc[q] /\ loc'[q] = loc[q]
      BY <1>2, ProcessStep DEF StepOf, OthersStay
    <3>2. KnownAt(pc[q], job', loc[q])
      BY <2>1, KnownStays, RecordsTyped DEF JobStep, JobInv, KnownAt, Holding, Marked, Built
    <3>3. QED
      BY <3>1, <3>2
  <2>3. QED
    BY <2>1, <2>2 DEF JobStep, JobInv
<1>3. QED
  BY <1>1, <1>2, NextSplits

\* On disk and in memory, whatever is removed, a record of a job says for which
\* key the job was submitted.
THEOREM RecordsOfJobs == Spec => []JobInv
<1>1. Init => JobInv
  BY DEF Init, JobInv, Known, KnownAt, Marked, Built
<1>2. CacheInv /\ JobInv /\ [Next]_vars => JobInv'
  BY JobInvStep
<1>3. QED
  BY CacheInvariant, <1>1, <1>2, PTL DEF Spec

----------------------------------------------------------------------------
\* Honest entries.

\* In the cache, a binary goes with the project it was built from.
CacheTarget ==
  \A s \in Keys : target[s] # None => target[s] = project[s].files

\* Every step keeps binaries with their projects.
LEMMA CacheTargetStep ==
  ASSUME CacheInv, CacheTarget, [Next]_vars
  PROVE  CacheTarget'
<1> USE DEF CacheInv, TypeOK
<1>0. Keys \subseteq Slots
  BY SlotsAssumption
<1>1. CASE UNCHANGED <<project, target>>
  BY <1>1 DEF CacheTarget
<1>2. CASE ServiceStep
  BY <1>1, <1>2, ServiceKeeps, Parts DEF diskVars
<1>3. ASSUME NEW p \in Procs, CheckDirectory(p)
      PROVE  CacheTarget'
  <2>1. Slot(p) \in Dirs
    BY <1>3 DEF CheckDirectory, ControlInv, ControlAt
  <2>2. Slot(p) \notin Keys
    BY <2>1, SlotsAssumption
  <2>3. QED
    BY <1>0, <1>3, <2>2 DEF CheckDirectory, CacheTarget, diskVars
<1>4. ASSUME NEW p \in Procs, Clear(p)
      PROVE  CacheTarget'
  BY <1>0, <1>4 DEF Clear, CacheTarget, InCache, NoProject
<1>5. ASSUME NEW p \in Procs, Place(p)
      PROVE  CacheTarget'
  <2>1. CASE InCache(Slot(p))
    <3>1. project[Slot(p)].files = None
      BY <1>5, <2>1 DEF Place, NoProject
    <3>2. target[Slot(p)] = None
      BY <2>1, <3>1 DEF CacheTarget, InCache
    <3>3. QED
      BY <1>0, <1>5, <2>1, <3>2 DEF Place, CacheTarget, InCache
  <2>2. CASE ~InCache(Slot(p))
    BY <1>0, <1>5, <2>2 DEF Place, CacheTarget, InCache
  <2>3. QED
    BY <2>1, <2>2
<1>6. ASSUME NEW p \in Procs, Build(p)
      PROVE  CacheTarget'
  BY <1>0, <1>6 DEF Build, CacheTarget
<1>7. ASSUME NEW p \in Procs, RemoveName(p)
      PROVE  CacheTarget'
  <2>1. req[p].slot \in Keys
    BY <1>7 DEF RemoveName, ControlInv, ControlAt, Evicting, Eviction
  <2>2. PICK n \in loc[p].names :
          /\ project' = IF n \in {"manifest", "files"}
                        THEN [project EXCEPT ![req[p].slot][n] = None] ELSE project
          /\ target' = IF n = "files" THEN [target EXCEPT ![req[p].slot] = None] ELSE target
    BY <1>7 DEF RemoveName
  <2>3. CASE n = "files"
    BY <1>0, <2>1, <2>2, <2>3 DEF CacheTarget
  <2>4. CASE n = "manifest"
    BY <1>0, <2>1, <2>2, <2>4 DEF CacheTarget, Projects
  <2>5. CASE n \notin {"manifest", "files"}
    BY <1>1, <2>2, <2>5
  <2>6. QED
    BY <2>3, <2>4, <2>5
<1>8. ASSUME NEW p \in Procs,
             \/ Start(p) \/ Die(p) \/ Locate(p) \/ Locking(p) \/ LockingFails(p)
             \/ Reuse(p) \/ Translate(p) \/ Submit(p) \/ SubmitFails(p) \/ Record(p)
             \/ StopWaiting(p) \/ Fetch(p) \/ PollFails(p) \/ Resubmit(p)
             \/ Unpack(p) \/ PlaceFails(p) \/ Complete(p)
      PROVE  CacheTarget'
  BY <1>1, <1>8
     DEF Start, Die, Locate, Locking, LockingFails, Reuse, Translate, Submit, SubmitFails,
         Record, StopWaiting, Fetch, PollFails, Resubmit, Unpack, PlaceFails, Complete, diskVars
<1>9. ASSUME NEW p \in Procs,
             \/ UpToDate(p) \/ StartBuild(p) \/ BuildFails(p) \/ RecordBuild(p)
             \/ ScanCache(p) \/ EvictNext(p) \/ EvictSkip(p) \/ EvictStart(p)
             \/ RemoveEntryDir(p) \/ RemoveFails(p)
             \/ AfterPrepare(p) \/ RunModel(p) \/ ModelEnds(p)
      PROVE  CacheTarget'
  BY <1>1, <1>9
     DEF UpToDate, StartBuild, BuildFails, RecordBuild, ScanCache, EvictNext, EvictSkip,
         EvictStart, RemoveEntryDir, RemoveFails, AfterPrepare, RunModel, ModelEnds, diskVars
<1>10. QED
  BY <1>2, <1>3, <1>4, <1>5, <1>6, <1>7, <1>8, <1>9, NextSplits DEF Progress

\* An entry that is complete and valid records a job of its key, and if its
\* build is current, the binary is built from that job's translation: by the
\* project in the cache, by the record of the build in a --to directory.
LEMMA HonestParts ==
  ASSUME TypeOK, JobInv, CacheTarget, OwnBuilds
  PROVE  HonestEntry
<1> SUFFICES ASSUME NEW s \in Slots, entry[s] # None, ValidComplete(s, entry[s].key)
             PROVE  /\ job[entry[s].job].key = entry[s].key
                    /\ project[s] = [manifest |-> entry[s].job, files |-> entry[s].job]
                    /\ IsCurrent(s, entry[s]) => target[s] = entry[s].job
  BY DEF HonestEntry
<1>1. /\ entry[s] \in Entries /\ entry[s].job # None /\ project[s] \in Projects
      /\ project[s].manifest = entry[s].job /\ project[s].files = entry[s].job
  BY AbsentAssumption DEF TypeOK, Entries, ValidComplete
<1>2. job[entry[s].job].key = entry[s].key
  BY <1>1 DEF JobInv, Known
<1>3. project[s] = [manifest |-> entry[s].job, files |-> entry[s].job]
  BY <1>1, WholeProject
<1>4. ASSUME IsCurrent(s, entry[s])
      PROVE  target[s] = entry[s].job
  <2>1. target[s] = entry[s].build /\ entry[s].build # None
    BY <1>4 DEF IsCurrent
  <2>2. CASE s \in Keys
    BY <1>1, <2>1, <2>2 DEF CacheTarget
  <2>3. CASE s \notin Keys
    BY <2>1, <2>3 DEF Kept, OwnBuilds, OwnBuild
  <2>4. QED
    BY <2>2, <2>3
<1>5. QED
  BY <1>2, <1>3, <1>4

\* Whatever is evicted, killed or half done, what a command takes for a complete
\* translation is one, and what it takes for its build is one, if no command
\* empties a --to directory with --force.
THEOREM EntriesAreHonest == NoForce => (Spec => []HonestEntry)
<1> SUFFICES ASSUME NoForce PROVE Spec => []HonestEntry
  OBVIOUS
<1>1. Init => CacheTarget
  BY SlotsAssumption DEF Init, CacheTarget
<1>2. CacheInv /\ CacheTarget /\ [Next]_vars => CacheTarget'
  BY CacheTargetStep
<1>3. CacheInv /\ JobInv /\ CacheTarget /\ KeptInv => HonestEntry
  BY HonestParts DEF CacheInv, KeptInv
<1>4. QED
  BY CacheInvariant, RecordsOfJobs, KeptInvariant, <1>1, <1>2, <1>3, PTL DEF Spec

----------------------------------------------------------------------------
\* A cache with room for all its keys.

Roomy == NoForce /\ Cardinality(Keys) <= CacheLimit

\* Then every slot is kept.
LEMMA AllKept ==
  ASSUME Roomy
  PROVE  Kept = Slots
  BY DEF Roomy, Kept

\* "translating, unpacking, building, and evicting take the lock exclusively":
\* while nothing is removed, an exclusive holder of an entry is alone in it.
THEOREM CacheEntriesExclude == Roomy => (Spec => []EntryMutex)
<1> SUFFICES ASSUME Roomy PROVE Spec => []EntryMutex
  OBVIOUS
<1>1. ASSUME CacheInv, KeptInv
      PROVE  EntryMutex
  <2>1. ASSUME NEW p \in Procs, phase[p] = "held"
        PROVE  req[p].slot \in Kept
    BY <1>1, <2>1, AllKept DEF CacheInv, PhaseInv, Requests
  <2>2. QED
    BY <1>1, <2>1, KeptMutex DEF KeptInv, EntryMutex
<1>2. CacheInv /\ KeptInv => EntryMutex
  BY <1>1
<1>3. NoForce
  BY DEF Roomy
<1>4. QED
  BY CacheInvariant, KeptInvariant, <1>2, <1>3, PTL

\* The lock on an entry is left for the rest of the command in two places.
LEMMA Prepares ==
  ASSUME CacheInv, [Next]_vars, NEW p \in Procs, pc[p] # "after", pc'[p] = "after"
  PROVE  UpToDate(p) \/ RecordBuild(p)
<1> USE DEF CacheInv, TypeOK
<1>1. ~ServiceStep
  BY ServiceKeeps, Parts DEF procVars
<1>2. ASSUME NEW q \in Procs \ {p}
      PROVE  ~(Start(q) \/ Progress(q) \/ Die(q))
  BY <1>2, ProcessStep DEF StepOf, OthersStay
<1>3. ~(Start(p) \/ Die(p) \/ CheckDirectory(p) \/ Locate(p) \/ LockingFails(p)
        \/ Reuse(p) \/ Translate(p) \/ Submit(p) \/ SubmitFails(p) \/ Record(p)
        \/ StopWaiting(p) \/ Fetch(p) \/ PollFails(p) \/ Resubmit(p))
  BY DEF Start, Die, CheckDirectory, Locate, LockingFails, Reuse, Translate, Submit,
         SubmitFails, Record, StopWaiting, Fetch, PollFails, Resubmit, Exit, Goto
<1>4. ~(Unpack(p) \/ Clear(p) \/ Place(p) \/ PlaceFails(p) \/ Complete(p)
        \/ StartBuild(p) \/ Build(p) \/ BuildFails(p))
  BY DEF Unpack, Clear, Place, PlaceFails, Complete, StartBuild, Build, BuildFails,
         Exit, Goto
<1>5. ~(Locking(p) \/ ScanCache(p) \/ EvictNext(p) \/ EvictSkip(p) \/ EvictStart(p)
        \/ RemoveName(p) \/ RemoveEntryDir(p) \/ RemoveFails(p)
        \/ AfterPrepare(p) \/ RunModel(p) \/ ModelEnds(p))
  BY DEF Locking, ScanCache, EvictNext, EvictSkip, EvictStart, RemoveName,
         RemoveEntryDir, RemoveFails, AfterPrepare, RunModel, ModelEnds, Exit, Goto,
         procVars
<1>6. QED
  BY <1>1, <1>2, <1>3, <1>4, <1>5, NextSplits DEF Progress

\* A process that is done with a kept entry leaves it valid and built.
LEMMA ReadyWhenPrepared ==
  ASSUME CacheInv, KeptInv, NEW p \in Procs, Slot(p) \in Kept,
         UpToDate(p) \/ RecordBuild(p)
  PROVE  /\ ValidComplete(Slot(p), Key(p))'
         /\ cmd[p].build => IsCurrent(Slot(p), entry[Slot(p)])'
<1> USE DEF CacheInv, TypeOK
<1>1. UpToDate(p) \/ RecordBuild(p)
  OBVIOUS
<1> DEFINE s == Slot(p)
           data == loc[p].data
<1>2. /\ pc[p] \in Holding /\ s \in Slots
      /\ project[s] = [manifest |-> data.job, files |-> data.job]
      /\ data \in Entries /\ data # None /\ data.key = Key(p) /\ data.state = "complete"
  <2>1. pc[p] \in Holding /\ pc[p] \in Built
    BY <1>1 DEF UpToDate, RecordBuild, Holding, Built
  <2>2. s \in Slots /\ data \in Entries /\ data # None
    BY <1>1, <2>1, RecordsTyped DEF UpToDate, RecordBuild
  <2>3. HolderAt(p) /\ DataAt(p)
    BY <2>1 DEF KeptInv, HolderInv, ControlInv
  <2>4. QED
    BY <2>1, <2>2, <2>3 DEF HolderAt, DataAt, DataFits
<1>3. UNCHANGED <<project, target>> /\ Slot(p)' = s /\ Key(p)' = Key(p)
  BY <1>1 DEF UpToDate, RecordBuild, diskVars, Slot, Key
<1>4. entry'[s] = data
  <2>1. CASE UpToDate(p)
    BY <1>2, <2>1 DEF UpToDate, diskVars, KeptInv, HolderInv, HolderAt
  <2>2. CASE RecordBuild(p)
    BY <1>2, <2>2 DEF RecordBuild, WriteEntryAndUnlock
  <2>3. QED
    BY <1>1, <2>1, <2>2
<1>5. cmd[p].build => data.build # None /\ target[s] = data.build
  <2>1. CASE UpToDate(p)
    BY <2>1 DEF UpToDate, IsCurrent
  <2>2. CASE RecordBuild(p)
    <3>1. data.build = data.job /\ target[s] = data.build
      BY <1>2, <2>2 DEF RecordBuild, KeptInv, HolderInv, HolderAt
    <3>2. QED
      BY <1>2, <3>1, AbsentAssumption DEF Entries
  <2>3. QED
    BY <1>1, <2>1, <2>2
<1> HIDE DEF s, data
<1>6. ValidComplete(Slot(p), Key(p))'
  BY <1>2, <1>3, <1>4 DEF ValidComplete
<1>7. cmd[p].build => IsCurrent(Slot(p), entry[Slot(p)])'
  BY <1>3, <1>4, <1>5 DEF IsCurrent
<1>8. QED
  BY <1>6, <1>7 DEF s

\* A command that goes on to evict or to run the model has prepared its entry:
\* it is valid and, if the command builds, built.
THEOREM CommandsPrepare == Roomy => (Spec => PreparedIsReady)
<1> SUFFICES ASSUME Roomy PROVE Spec => PreparedIsReady
  OBVIOUS
<1>1. ASSUME CacheInv, KeptInv, [Next]_vars, NEW p \in Procs,
             pc[p] # "after", pc'[p] = "after"
      PROVE  /\ ValidComplete(Slot(p), Key(p))'
             /\ cmd[p].build => IsCurrent(Slot(p), entry[Slot(p)])'
  <2>1. (UpToDate(p) \/ RecordBuild(p)) /\ pc[p] # "idle"
    BY <1>1, Prepares DEF UpToDate, RecordBuild
  <2>2. Slot(p) \in Kept
    BY <1>1, <2>1, CommandTyped, AllKept DEF CacheInv
  <2>3. QED
    BY <1>1, <2>1, <2>2, ReadyWhenPrepared
<1>2. CacheInv /\ KeptInv /\ [Next]_vars =>
        [\A p \in Procs :
           pc[p] # "after" /\ pc'[p] = "after" =>
             /\ ValidComplete(Slot(p), Key(p))'
             /\ cmd[p].build => IsCurrent(Slot(p), entry[Slot(p)])']_vars
  BY <1>1
<1>3. NoForce
  BY DEF Roomy
<1>4. QED
  BY CacheInvariant, KeptInvariant, <1>2, <1>3, PTL DEF Spec, PreparedIsReady

\* A process that takes a step of its command has one.
LEMMA AtWork ==
  ASSUME NEW p \in Procs, Progress(p) \/ Die(p)
  PROVE  pc[p] # "idle"
  BY DEF Progress, Die, CheckDirectory, Locate, Locking, LockingFails, Reuse, Translate,
         Submit, SubmitFails, Record, StopWaiting, Fetch, PollFails, Resubmit, Unpack,
         Clear, Place, PlaceFails, Complete, UpToDate, StartBuild, Build, BuildFails,
         RecordBuild, ScanCache, EvictNext, EvictSkip, EvictStart, RemoveName,
         RemoveEntryDir, RemoveFails, AfterPrepare, RunModel, ModelEnds

\* A process that stops waiting leaves the pending entry of the job it waited for.
LEMMA StopWaitingKeeps ==
  ASSUME CacheInv, KeptInv, [Next]_vars, NEW p \in Procs, Slot(p) \in Kept,
         exit[p] # "TEMPFAIL", exit'[p] = "TEMPFAIL"
  PROVE  /\ entry'[Slot(p)] # None
         /\ entry'[Slot(p)].state = "pending"
         /\ entry'[Slot(p)].job = loc[p].data.job
<1> USE DEF CacheInv, TypeOK
<1>1. StopWaiting(p)
  <2>1. ~ServiceStep
    BY ServiceKeeps, Parts DEF procVars
  <2>2. ASSUME NEW q \in Procs \ {p}
        PROVE  ~(Start(q) \/ Progress(q) \/ Die(q))
    BY <2>2, ProcessStep DEF StepOf, OthersStay
  <2>3. ~(Start(p) \/ Die(p) \/ CheckDirectory(p) \/ Locate(p) \/ LockingFails(p)
          \/ Reuse(p) \/ Translate(p) \/ Submit(p) \/ SubmitFails(p) \/ Record(p)
          \/ Fetch(p) \/ PollFails(p) \/ Resubmit(p))
    BY DEF Start, Die, CheckDirectory, Locate, LockingFails, Reuse, Translate, Submit,
           SubmitFails, Record, Fetch, PollFails, Resubmit, Exit
  <2>4. ~(Unpack(p) \/ Clear(p) \/ Place(p) \/ PlaceFails(p) \/ Complete(p) \/ UpToDate(p)
          \/ StartBuild(p) \/ Build(p) \/ BuildFails(p) \/ RecordBuild(p))
    BY DEF Unpack, Clear, Place, PlaceFails, Complete, UpToDate, StartBuild, Build,
           BuildFails, RecordBuild, Exit
  <2>5. ~(Locking(p) \/ ScanCache(p) \/ EvictNext(p) \/ EvictSkip(p) \/ EvictStart(p)
          \/ RemoveName(p) \/ RemoveEntryDir(p) \/ RemoveFails(p)
          \/ AfterPrepare(p) \/ RunModel(p) \/ ModelEnds(p))
    BY DEF Locking, ScanCache, EvictNext, EvictSkip, EvictStart, RemoveName,
           RemoveEntryDir, RemoveFails, AfterPrepare, RunModel, ModelEnds, Exit, procVars
  <2>6. QED
    BY <2>1, <2>2, <2>3, <2>4, <2>5, NextSplits DEF Progress
<1>2. pc[p] = "poll" /\ entry' = entry
  BY <1>1 DEF StopWaiting, diskVars
<1>3. HolderAt(p) /\ DataAt(p)
  BY <1>2 DEF KeptInv, HolderInv, ControlInv, Holding, Marked
<1>4. loc[p].data # None
  BY <1>2, RecordsTyped DEF Holding, Marked
<1>5. QED
  BY <1>2, <1>3, <1>4 DEF HolderAt, DataAt, DataFits, Pending, Marked

\* "stopped waiting for the service; the job continues": exit 75 leaves an entry
\* from which the next command resumes the very job.
THEOREM TempfailsResume == Roomy => (Spec => TempfailResumable)
<1> SUFFICES ASSUME Roomy PROVE Spec => TempfailResumable
  OBVIOUS
<1>1. ASSUME CacheInv, KeptInv, [Next]_vars, NEW p \in Procs,
             exit[p] # "TEMPFAIL", exit'[p] = "TEMPFAIL"
      PROVE  /\ entry'[Slot(p)] # None
             /\ entry'[Slot(p)].state = "pending"
             /\ entry'[Slot(p)].job = loc[p].data.job
  <2>1. pc[p] # "idle"
    <3>1. ~ServiceStep
      BY <1>1, ServiceKeeps, Parts DEF procVars, CacheInv
    <3>2. ~Start(p)
      BY <1>1 DEF Start, CacheInv, TypeOK
    <3>3. \A q \in Procs \ {p} : ~(Start(q) \/ Progress(q) \/ Die(q))
      BY <1>1, ProcessStep DEF StepOf, OthersStay
    <3>4. Progress(p) \/ Die(p)
      BY <1>1, <3>1, <3>2, <3>3, NextSplits
    <3>5. QED
      BY <3>4, AtWork
  <2>2. Slot(p) \in Kept
    BY <1>1, <2>1, CommandTyped, AllKept DEF CacheInv
  <2>3. QED
    BY <1>1, <2>2, StopWaitingKeeps
<1>2. CacheInv /\ KeptInv /\ [Next]_vars =>
        [\A p \in Procs :
           exit[p] # "TEMPFAIL" /\ exit'[p] = "TEMPFAIL" =>
             /\ entry'[Slot(p)] # None
             /\ entry'[Slot(p)].state = "pending"
             /\ entry'[Slot(p)].job = loc[p].data.job]_vars
  BY <1>1
<1>3. NoForce
  BY DEF Roomy
<1>4. QED
  BY CacheInvariant, KeptInvariant, <1>2, <1>3, PTL DEF Spec, TempfailResumable

----------------------------------------------------------------------------
\* The commands are clients of EntryLock that remove nothing.

\* Writing an entry does not make the directory: it is there.
LEMMA WritesInPlace ==
  ASSUME CacheInv, KeptInv, NEW p \in Procs, Slot(p) \in Kept,
         phase[p] = "held", req[p] = Exclusive(p)
  PROVE  [dir EXCEPT ![Slot(p)] = TRUE] = dir
  BY DEF CacheInv, TypeOK, LockTypeOK, KeptInv, PathInv, DirKept, Exclusive

\* `_forget` puts the previous entry of a kept slot back: the directory that it
\* is written to is still there.
LEMMA ForgetsInPlace ==
  ASSUME CacheInv, KeptInv, NEW p \in Procs, Slot(p) \in Kept,
         phase[p] = "held", req[p] = Exclusive(p), Forget(p)
  PROVE  Close(p)
  BY WritesInPlace DEF Forget, WriteEntryAndUnlock, Unlock, Close

\* Every step of a command is one of the lock's clients, or none of its business.
LEMMA ClientStep ==
  ASSUME CacheInv, KeptInv, Roomy, NEW p \in Procs, Start(p) \/ Progress(p) \/ Die(p)
  PROVE  LockNext \/ UNCHANGED lockVars
<1> USE DEF CacheInv
<1>1. CASE UNCHANGED lockVars
  BY <1>1
<1>2. CASE Close(p) \/ Open(p) \/ Try(p) \/ Acquire(p) \/ \E r \in Requests : Enter(p, r)
  BY <1>2 DEF LockNext
<1>3. CASE \/ Start(p) \/ Die(p) \/ Translate(p) \/ Submit(p) \/ SubmitFails(p)
           \/ StopWaiting(p) \/ Fetch(p) \/ Resubmit(p) \/ Clear(p) \/ Place(p)
           \/ PlaceFails(p) \/ UpToDate(p) \/ StartBuild(p) \/ Build(p) \/ ScanCache(p)
           \/ EvictSkip(p) \/ EvictStart(p) \/ RemoveFails(p) \/ RunModel(p) \/ ModelEnds(p)
  BY <1>1, <1>2, <1>3
     DEF Start, Die, Translate, Submit, SubmitFails, StopWaiting, Fetch, Resubmit, Clear,
         Place, PlaceFails, UpToDate, StartBuild, Build, ScanCache, EvictSkip, EvictStart,
         RemoveFails, RunModel, ModelEnds, Unlock
<1>4. CASE \/ Reuse(p) \/ Record(p) \/ Complete(p) \/ PollFails(p) \/ Unpack(p)
           \/ BuildFails(p) \/ RecordBuild(p)
  <2>1. pc[p] \in Holding \/ (pc[p] = "lock" /\ phase[p] = "held")
    BY <1>4 DEF Reuse, Record, Complete, PollFails, Unpack, BuildFails, RecordBuild,
                Holding, Marked, Built
  <2>2. Slot(p) \in Kept /\ phase[p] = "held" /\ req[p] = Exclusive(p)
    BY <2>1, Inside, AllKept
  <2>3. [dir EXCEPT ![Slot(p)] = TRUE] = dir
    BY <2>2, WritesInPlace
  <2>4. CASE Reuse(p) \/ Record(p) \/ Complete(p)
    BY <1>1, <2>3, <2>4 DEF Reuse, Record, Complete, WriteEntry, lockVars
  <2>5. CASE BuildFails(p) \/ RecordBuild(p)
    BY <1>2, <2>2, <2>3, <2>5 DEF BuildFails, RecordBuild, WriteEntryAndUnlock, Unlock, Close
  <2>6. CASE PollFails(p) \/ Unpack(p)
    <3>1. CASE Forget(p)
      BY <1>2, <2>2, <3>1, ForgetsInPlace
    <3>2. CASE ~Forget(p)
      BY <1>1, <2>3, <2>6, <3>2 DEF PollFails, Unpack, lockVars
    <3>3. QED
      BY <3>1, <3>2
  <2>7. QED
    BY <1>4, <2>4, <2>5, <2>6
<1>5. CASE Locking(p)
  BY <1>2, <1>5 DEF Locking
<1>6. CASE CheckDirectory(p)
  <2>1. cmd[p] \in Commands /\ Slot(p) \in Dirs
    BY <1>6 DEF CheckDirectory, ControlInv, ControlAt
  <2>2. ~cmd[p].force
    BY <2>1 DEF Roomy, NoForce, Slot
  <2>3. QED
    BY <1>1, <1>6, <2>2 DEF CheckDirectory
<1>7. CASE Locate(p) \/ AfterPrepare(p)
  <2>1. Exclusive(p) \in Requests /\ Shared(p) \in Requests
    BY <1>7, CommandTyped DEF Locate, AfterPrepare, Exclusive, Shared, Requests
  <2>2. QED
    BY <1>1, <1>2, <1>7, <2>1 DEF Locate, AfterPrepare, Exclusive, Shared
<1>8. CASE EvictNext(p)
  <2>1. ASSUME NEW c \in loc[p].todo
        PROVE  [slot |-> c.key, shared |-> FALSE, blocking |-> FALSE] \in Requests
    BY <2>1, SlotsAssumption DEF TypeOK, Locals, Candidates, Requests
  <2>2. QED
    BY <1>1, <1>2, <1>8, <2>1 DEF EvictNext
<1>9. CASE LockingFails(p)
  <2>1. phase[p] = "open" /\ ~dir[req[p].slot]
    BY <1>9 DEF LockingFails, OpenFails
  <2>2. req[p].slot \in Kept
    BY <2>1, AllKept DEF PhaseInv, Requests
  <2>3. QED
    BY <2>1, <2>2 DEF KeptInv, PathInv, DirKept
<1>10. CASE RemoveName(p) \/ RemoveEntryDir(p)
  <2>1. req[p].slot \notin Kept
    BY <1>10 DEF RemoveName, RemoveEntryDir, KeptInv, PathInv, NotEvicted, Evicting
  <2>2. req[p].slot \in Slots
    BY <1>10, SlotsAssumption DEF RemoveName, RemoveEntryDir, ControlInv, ControlAt, Evicting,
                                 Eviction
  <2>3. QED
    BY <2>1, <2>2, AllKept
<1>11. QED
  BY <1>3, <1>4, <1>5, <1>6, <1>7, <1>8, <1>9, <1>10 DEF Progress

\* The commands of a cache with room for its keys use EntryLock as LockClients
\* does: the detailed specification implements the one of the lock's clients.
THEOREM CommandsAreLockClients == Roomy => (Spec => LockSpec)
<1> SUFFICES ASSUME Roomy PROVE Spec => LockSpec
  OBVIOUS
<1>1. Init => LockInit
  BY DEF Init
<1>2. ASSUME CacheInv, KeptInv, [Next]_vars
      PROVE  [LockNext]_lockVars
  <2>1. CASE ServiceStep
    BY <1>2, <2>1, ServiceKeeps, Parts DEF CacheInv
  <2>2. ASSUME NEW p \in Procs, Start(p) \/ Progress(p) \/ Die(p)
        PROVE  [LockNext]_lockVars
    BY <1>2, <2>2, ClientStep
  <2>3. QED
    BY <1>2, <2>1, <2>2, NextSplits
<1>3. CacheInv /\ KeptInv /\ [Next]_vars => [LockNext]_lockVars
  BY <1>2
<1>4. NoForce
  BY DEF Roomy
<1>5. QED
  BY CacheInvariant, KeptInvariant, <1>1, <1>3, <1>4, PTL DEF Spec, LockSpec

\* So for them the advisory lock of an entry is a readers-writer lock.
THEOREM CommandsShareReadWriteLock == Roomy => (Spec => RWSpec)
  BY CommandsAreLockClients, ImplementsReadWriteLock

----------------------------------------------------------------------------
(* A cache that commands share. *)

\* The commands only share cache entries, and the cache holds all of them.
Sharing ==
  /\ \A c \in Commands : c.slot \in Keys /\ ~c.noCache
  /\ Cardinality(Keys) <= CacheLimit

\* No request is refused or lost, and no process is killed or interrupted.
Reliable == Faults \cap {"refused", "network", "crash", "interrupt"} = {}

\* Without eviction, `--force` and `--to`, every slot is kept.
LEMMA SharingIsRoomy ==
  ASSUME Sharing
  PROVE  Roomy /\ NoForce /\ Kept = Slots
  BY SlotsAssumption, AllKept DEF Sharing, Roomy, NoForce

\* A command of this kind works on the entry of its key.
LEMMA SharedEntry ==
  ASSUME Sharing, CacheInv, NEW p \in Procs, pc[p] # "idle"
  PROVE  /\ Slot(p) = Key(p) /\ Slot(p) \in Keys /\ Slot(p) \in Slots /\ Slot(p) \in Kept
         /\ ~cmd[p].noCache
<1>1. Slot(p) \in Slots /\ cmd[p] \in Commands /\ (Slot(p) \in Keys => Slot(p) = Key(p))
  BY CommandTyped DEF CacheInv
<1>2. Slot(p) \in Keys /\ ~cmd[p].noCache
  BY <1>1 DEF Sharing, Slot
<1>3. QED
  BY <1>1, <1>2, SharingIsRoomy

----------------------------------------------------------------------------
\* A translation is made only while its entry is not valid, and a valid entry
\* stays valid.

\* The steps after the exclusive lock.
Prepared == {"after", "evict", "next", "runlock", "running"}

\* What a process knows of its entry before it has one and after it is done.
SettledAt(p) ==
  LET s == Slot(p)  k == Key(p) IN
  /\ pc[p] \in {"submit"} \cup Marked => ~ValidComplete(s, k)
  /\ pc[p] \in Prepared => /\ ValidComplete(s, k)
                           /\ cmd[p].build => target[s] # None
  /\ pc[p] \in {"runlock", "running"} => cmd[p].runs
SettledInv == \A p \in Procs : SettledAt(p)

\* A valid entry stays so, and its binary stays.
ValidStays ==
  \A s \in Keys :
    ValidComplete(s, s) => /\ ValidComplete(s, s)'
                           /\ target[s] # None => target'[s] # None

\* Whether an entry is complete depends on the files of its slot only.
LEMMA ValidSame ==
  ASSUME NEW s, SameEntry(s), NEW k
  PROVE  ValidComplete(s, k)' <=> ValidComplete(s, k)
  BY DEF SameEntry, ValidComplete

\* An entry that is reused is complete before and after.
LEMMA ReuseKeepsValid ==
  ASSUME CacheInv, NEW p \in Procs, Reuse(p)
  PROVE  /\ ValidComplete(Slot(p), Key(p)) /\ ValidComplete(Slot(p), Key(p))'
         /\ target' = target
<1> DEFINE s == Slot(p)
           k == Key(p)
           e == [entry[s] EXCEPT !.used = clock]
<1>1. s \in Slots /\ entry[s] \in Entries /\ entry[s] # None
  BY Inside DEF Reuse, ValidComplete, CacheInv, TypeOK
<1>2. /\ e \in Entries /\ e.job = entry[s].job /\ e.key = entry[s].key
      /\ e.state = entry[s].state /\ e # None
  BY <1>1, AbsentAssumption DEF CacheInv, TypeOK, Entries
<1>3. entry' = [entry EXCEPT ![s] = e] /\ UNCHANGED <<project, target, cmd>>
  BY DEF Reuse, WriteEntry
<1> HIDE DEF e
<1>4. entry'[s] = e
  BY <1>1, <1>3 DEF CacheInv, TypeOK
<1>5. ValidComplete(s, k)
  BY DEF Reuse
<1>6. entry'[s] # None /\ entry'[s].key = k /\ entry'[s].state = "complete" /\ project'[s].manifest = entry'[s].job /\ project'[s].files = entry'[s].job
  BY <1>2, <1>3, <1>4, <1>5 DEF ValidComplete
<1>7. Slot(p)' = s /\ Key(p)' = k
  BY <1>3 DEF Slot, Key
<1> HIDE DEF s, k
<1>8. ValidComplete(Slot(p), Key(p))'
  BY <1>6, <1>7 DEF ValidComplete
<1>9. QED
  BY <1>3, <1>5, <1>8 DEF s, k

\* Recording a build, or that it failed, keeps the entry of the translation.
LEMMA BuildKeepsValid ==
  ASSUME CacheInv, KeptInv, NEW p \in Procs, Slot(p) \in Kept,
         pc[p] \in {"build", "recordbuild"}, UNCHANGED project,
         entry' = [entry EXCEPT ![Slot(p)] = loc[p].data]
  PROVE  LET s == Slot(p) IN
         /\ entry'[s] # None /\ entry'[s].key = Key(p) /\ entry'[s].state = "complete"
         /\ project'[s].manifest = entry'[s].job /\ project'[s].files = entry'[s].job
<1>1. pc[p] \in Holding /\ pc[p] \in Built /\ pc[p] # "submit"
  BY DEF Holding, Built
<1>2. Slot(p) \in Slots /\ loc[p].data \in Entries /\ loc[p].data # None
  BY <1>1, RecordsTyped
<1>3. HolderAt(p) /\ DataAt(p)
  BY <1>1 DEF KeptInv, HolderInv, CacheInv, ControlInv
<1>4. entry'[Slot(p)] = loc[p].data
  BY <1>2 DEF CacheInv, TypeOK
<1>5. QED
  BY <1>1, <1>2, <1>3, <1>4 DEF HolderAt, DataAt, DataFits

\* While an entry is valid, its holder only reuses, builds or leaves it.
LEMMA ValidStaysStep ==
  ASSUME Sharing, CacheInv, KeptInv, SettledInv, NEW p \in Procs,
         Start(p) \/ Progress(p) \/ Die(p)
  PROVE  ValidStays
<1> SUFFICES ASSUME NEW s \in Keys, ValidComplete(s, s)
             PROVE  /\ ValidComplete(s, s)'
                    /\ target[s] # None => target'[s] # None
  BY DEF ValidStays
<1>0. s \in Slots /\ s \in Kept /\ NoForce
  BY SharingIsRoomy, SlotsAssumption
<1>1. CASE SameEntry(s)
  BY <1>1, ValidSame DEF SameEntry
<1>2. CASE ~SameEntry(s)
  <2>1. s = Slot(p) /\ phase[p] = "held" /\ req[p] = Exclusive(p)
    BY <1>0, <1>2, OnlyHolderWrites DEF KeptInv
  <2>2. pc[p] # "idle"
    BY <2>1 DEF CacheInv, ControlInv, ControlAt, Unlocked
  <2>3. Slot(p) = Key(p) /\ ~cmd[p].noCache
    BY <2>2, SharedEntry
  <2>4. pc[p] \notin {"submit"} \cup Marked
    BY <2>1, <2>3 DEF SettledInv, SettledAt
  <2>5. pc[p] \notin Evicting /\ pc[p] # "directory"
    BY <2>1, <1>0 DEF KeptInv, PathInv, NotEvicted, CacheInv, ControlInv, ControlAt, Unlocked,
                     Exclusive
  <2>6. CASE Reuse(p)
    <3>1. ValidComplete(Slot(p), Key(p))' /\ target' = target /\ cmd' = cmd
      BY <2>6, ReuseKeepsValid DEF Reuse
    <3>2. QED
      BY <2>1, <2>3, <3>1 DEF Slot, Key, ValidComplete
  <2>7. CASE Build(p)
    <3>1. /\ UNCHANGED <<entry, project>>
          /\ target' = [target EXCEPT ![s] = project[s].files] /\ project[s].files # None
      BY <2>1, <2>7 DEF Build
    <3>2. QED
      BY <1>0, <3>1 DEF ValidComplete, CacheInv, TypeOK
  <2>8. CASE BuildFails(p) \/ RecordBuild(p)
    <3>1. entry' # entry
      BY <1>2, <2>8 DEF BuildFails, RecordBuild, SameEntry
    <3>2. /\ pc[p] \in {"build", "recordbuild"} /\ UNCHANGED <<project, target>>
          /\ entry' = [entry EXCEPT ![Slot(p)] = loc[p].data]
      BY <2>8, <3>1 DEF BuildFails, RecordBuild, WriteEntryAndUnlock
    <3>3. QED
      BY <1>0, <2>1, <2>3, <3>2, BuildKeepsValid DEF ValidComplete
  <2>9. CASE UNCHANGED diskVars
    BY <1>2, <2>9 DEF SameEntry, diskVars
  <2>10. ~(CheckDirectory(p) \/ RemoveName(p) \/ Submit(p) \/ SubmitFails(p) \/ Record(p)
           \/ StopWaiting(p) \/ Fetch(p) \/ PollFails(p) \/ Resubmit(p)
           \/ Unpack(p) \/ Clear(p) \/ Place(p) \/ PlaceFails(p) \/ Complete(p))
    BY <2>4, <2>5
       DEF CheckDirectory, RemoveName, Submit, SubmitFails, Record, StopWaiting, Fetch,
           PollFails, Resubmit, Unpack, Clear, Place, PlaceFails, Complete, Marked, Evicting
  <2>11. CASE \/ Start(p) \/ Locate(p) \/ Locking(p) \/ LockingFails(p) \/ Translate(p)
              \/ UpToDate(p) \/ StartBuild(p)
              \/ ScanCache(p) \/ EvictNext(p) \/ EvictSkip(p) \/ EvictStart(p)
              \/ RemoveEntryDir(p) \/ RemoveFails(p)
              \/ AfterPrepare(p) \/ RunModel(p) \/ ModelEnds(p)
    BY <2>9, <2>11
       DEF Start, Locate, Locking, LockingFails, Translate, UpToDate, StartBuild, ScanCache,
           EvictNext, EvictSkip, EvictStart, RemoveEntryDir, RemoveFails, AfterPrepare,
           RunModel, ModelEnds
  <2>12. CASE Die(p)
    BY <2>4, <2>9, <2>12 DEF Die, Marked, diskVars
  <2>13. QED
    BY <2>6, <2>7, <2>8, <2>10, <2>11, <2>12 DEF Progress
<1>3. QED
  BY <1>1, <1>2

\* What another process knows of the validity of its entry stays true.
LEMMA OthersSettled ==
  ASSUME Sharing, CacheInv, KeptInv, SettledInv, NEW p \in Procs,
         Start(p) \/ Progress(p) \/ Die(p), NEW q \in Procs \ {p}
  PROVE  SettledAt(q)'
<1>1. /\ pc'[q] = pc[q] /\ cmd'[q] = cmd[q] /\ loc'[q] = loc[q]
      /\ Slot(q)' = Slot(q) /\ Key(q)' = Key(q)
  BY ProcessStep DEF StepOf, OthersStay, Slot, Key
<1>2. SettledAt(q) /\ NoForce
  BY SharingIsRoomy DEF SettledInv
<1>3. ASSUME pc[q] \in {"submit"} \cup Marked
      PROVE  ~ValidComplete(Slot(q), Key(q))'
  <2>1. pc[q] \in Holding /\ pc'[q] \in Holding /\ pc[q] # "idle"
    BY <1>1, <1>3 DEF Holding, Marked
  <2>2. SameEntry(Slot(q))
    BY <1>1, <1>2, <2>1, SharedEntry, OthersKnow
  <2>3. QED
    BY <1>1, <1>2, <1>3, <2>2 DEF SettledAt, SameEntry, ValidComplete
<1>4. ASSUME pc[q] \in Prepared
      PROVE  ValidComplete(Slot(q), Key(q))' /\ (cmd'[q].build => target'[Slot(q)] # None)
  <2>1. Slot(q) = Key(q) /\ Slot(q) \in Keys
    BY <1>4, SharedEntry DEF Prepared
  <2>2. ValidComplete(Slot(q), Slot(q)) /\ (cmd[q].build => target[Slot(q)] # None)
    BY <1>2, <1>4, <2>1 DEF SettledAt
  <2>3. ValidStays
    BY ValidStaysStep
  <2>4. QED
    BY <1>1, <2>1, <2>2, <2>3 DEF ValidStays, ValidComplete
<1>5. QED
  BY <1>1, <1>2, <1>3, <1>4 DEF SettledAt, ValidComplete

\* A process comes to submit or to record by these steps.
LEMMA BeforeRecord ==
  ASSUME CacheInv, NEW p \in Procs, Start(p) \/ Progress(p) \/ Die(p),
         pc'[p] \in {"submit", "record"}
  PROVE  \/ Translate(p) /\ pc'[p] = "record" /\ Resumable(p)
         \/ Translate(p) /\ pc'[p] = "submit" /\ ~Resumable(p)
         \/ Submit(p) /\ pc'[p] = "record"
         \/ Resubmit(p) /\ pc'[p] = "submit"
<1> USE DEF CacheInv, TypeOK
<1>1. CASE \/ Start(p) \/ Die(p) \/ CheckDirectory(p) \/ Locate(p) \/ LockingFails(p)
           \/ Reuse(p) \/ SubmitFails(p) \/ Record(p)
           \/ StopWaiting(p) \/ Fetch(p) \/ PollFails(p)
  BY <1>1 DEF Start, Die, CheckDirectory, Locate, LockingFails, Reuse, SubmitFails, Record,
              StopWaiting, Fetch, PollFails, Exit, Goto
<1>2. CASE \/ Unpack(p) \/ Clear(p) \/ Place(p) \/ PlaceFails(p) \/ Complete(p) \/ UpToDate(p)
           \/ StartBuild(p) \/ Build(p) \/ BuildFails(p) \/ RecordBuild(p)
  BY <1>2 DEF Unpack, Clear, Place, PlaceFails, Complete, UpToDate, StartBuild, Build,
              BuildFails, RecordBuild, Exit, Goto
<1>3. CASE \/ Locking(p) \/ ScanCache(p) \/ EvictNext(p) \/ EvictSkip(p) \/ EvictStart(p)
           \/ RemoveName(p) \/ RemoveEntryDir(p) \/ RemoveFails(p)
           \/ AfterPrepare(p) \/ RunModel(p) \/ ModelEnds(p)
  BY <1>3 DEF Locking, ScanCache, EvictNext, EvictSkip, EvictStart, RemoveName,
              RemoveEntryDir, RemoveFails, AfterPrepare, RunModel, ModelEnds, Exit, Goto,
              procVars
<1>4. CASE Translate(p)
  BY <1>4 DEF Translate, Exit, Goto
<1>5. CASE Submit(p) \/ Resubmit(p)
  BY <1>5 DEF Submit, Resubmit, Goto
<1>6. QED
  BY <1>1, <1>2, <1>3, <1>4, <1>5 DEF Progress

\* A process goes on from the exclusive lock to the end of its command.
LEMMA AfterLock ==
  ASSUME CacheInv, NEW p \in Procs, Start(p) \/ Progress(p) \/ Die(p), pc'[p] \in Prepared
  PROVE  \/ UpToDate(p) \/ RecordBuild(p)
         \/ pc[p] \in Prepared /\ UNCHANGED <<cmd, diskVars>>
         \/ pc[p] \in Evicting
<1> USE DEF CacheInv, TypeOK
<1>1. CASE \/ Start(p) \/ Die(p) \/ CheckDirectory(p) \/ Locate(p) \/ LockingFails(p)
           \/ Reuse(p) \/ Translate(p) \/ Submit(p) \/ SubmitFails(p) \/ Record(p)
           \/ StopWaiting(p) \/ Fetch(p) \/ PollFails(p) \/ Resubmit(p)
  BY <1>1 DEF Start, Die, CheckDirectory, Locate, LockingFails, Reuse, Translate, Submit,
              SubmitFails, Record, StopWaiting, Fetch, PollFails, Resubmit, Exit, Goto, Prepared
<1>2. CASE \/ Unpack(p) \/ Clear(p) \/ Place(p) \/ PlaceFails(p) \/ Complete(p)
           \/ StartBuild(p) \/ Build(p) \/ BuildFails(p)
  BY <1>2 DEF Unpack, Clear, Place, PlaceFails, Complete, StartBuild, Build, BuildFails,
              Exit, Goto, Prepared
<1>3. CASE Locking(p)
  BY <1>3 DEF Locking, procVars, Evicting, Prepared
<1>4. CASE \/ EvictSkip(p) \/ EvictStart(p) \/ RemoveName(p) \/ RemoveEntryDir(p)
           \/ RemoveFails(p)
  BY <1>4 DEF EvictSkip, EvictStart, RemoveName, RemoveEntryDir, RemoveFails, Evicting
<1>5. CASE ScanCache(p) \/ EvictNext(p)
  BY <1>5 DEF ScanCache, EvictNext, Prepared, diskVars
<1>6. CASE AfterPrepare(p) \/ RunModel(p) \/ ModelEnds(p)
  BY <1>6 DEF AfterPrepare, RunModel, ModelEnds, Exit, Goto, Prepared, diskVars
<1>7. QED
  BY <1>1, <1>2, <1>3, <1>4, <1>5, <1>6 DEF Progress

\* A model is run only by a command that has prepared its entry.
LEMMA RunsAfterPrepare ==
  ASSUME CacheInv, NEW p \in Procs, Start(p) \/ Progress(p) \/ Die(p), ~AfterPrepare(p),
         pc'[p] \in {"runlock", "running"}
  PROVE  pc[p] \in {"runlock", "running"} /\ cmd' = cmd
<1> USE DEF CacheInv, TypeOK
<1>1. CASE \/ Start(p) \/ Die(p) \/ CheckDirectory(p) \/ Locate(p) \/ LockingFails(p)
           \/ Reuse(p) \/ Translate(p) \/ Submit(p) \/ SubmitFails(p) \/ Record(p)
           \/ StopWaiting(p) \/ Fetch(p) \/ PollFails(p) \/ Resubmit(p)
  BY <1>1 DEF Start, Die, CheckDirectory, Locate, LockingFails, Reuse, Translate, Submit,
              SubmitFails, Record, StopWaiting, Fetch, PollFails, Resubmit, Exit, Goto
<1>2. CASE \/ Unpack(p) \/ Clear(p) \/ Place(p) \/ PlaceFails(p) \/ Complete(p)
           \/ UpToDate(p) \/ StartBuild(p) \/ Build(p) \/ BuildFails(p) \/ RecordBuild(p)
  BY <1>2 DEF Unpack, Clear, Place, PlaceFails, Complete, UpToDate, StartBuild, Build,
              BuildFails, RecordBuild, Exit, Goto
<1>3. CASE \/ ScanCache(p) \/ EvictNext(p) \/ EvictSkip(p) \/ EvictStart(p)
           \/ RemoveName(p) \/ RemoveEntryDir(p) \/ RemoveFails(p)
  BY <1>3 DEF ScanCache, EvictNext, EvictSkip, EvictStart, RemoveName, RemoveEntryDir,
              RemoveFails, Exit, Goto
<1>4. CASE Locking(p) \/ RunModel(p) \/ ModelEnds(p)
  BY <1>4 DEF Locking, RunModel, ModelEnds, Exit, Goto, procVars
<1>5. QED
  BY <1>1, <1>2, <1>3, <1>4 DEF Progress

\* A step of a command keeps settled what it has prepared.
LEMMA OwnSettled ==
  ASSUME Sharing, CacheInv, KeptInv, CacheInv', KeptInv', SettledInv, NEW p \in Procs,
         Start(p) \/ Progress(p) \/ Die(p)
  PROVE  SettledAt(p)'
<1>0. Kept = Slots /\ NoForce /\ SettledAt(p)
  BY SharingIsRoomy DEF SettledInv
<1>1. ASSUME pc'[p] \in {"submit", "record"}
      PROVE  ~ValidComplete(Slot(p), Key(p))'
  <2>1. Translate(p) \/ Submit(p) \/ Resubmit(p)
    BY <1>1, BeforeRecord
  <2>2. ~ValidComplete(Slot(p), Key(p))
    <3>1. CASE Translate(p)
      <4>1. ~cmd[p].noCache
        BY <3>1, SharedEntry DEF Translate
      <4>2. QED
        BY <3>1, <4>1 DEF Translate
    <3>2. CASE Submit(p) \/ Resubmit(p)
      BY <1>0, <3>2 DEF Submit, Resubmit, SettledAt, Marked
    <3>3. QED
      BY <2>1, <3>1, <3>2
  <2>3. UNCHANGED <<entry, project>>
    BY <2>1 DEF Translate, Submit, Resubmit, diskVars
  <2>4. cmd' = cmd
    BY <1>1, <2>1 DEF Translate, Submit, Resubmit, Exit, Goto, CacheInv, TypeOK
  <2>5. QED
    BY <2>2, <2>3, <2>4 DEF ValidComplete, Slot, Key
<1>2. ASSUME pc'[p] \in Pending
      PROVE  ~ValidComplete(Slot(p), Key(p))'
  <2>1. HolderAt(p)' /\ DataAt(p)'
    <3>1. pc'[p] \in Holding /\ pc'[p] # "idle"
      BY <1>2 DEF Pending, Holding, Marked
    <3>2. (Slot(p) \in Slots)'
      <4>1. (phase[p] = "held" /\ req[p] = Exclusive(p))'
        BY <3>1 DEF CacheInv, ControlInv, ControlAt
      <4>2. req'[p] \in Requests
        BY <4>1 DEF CacheInv, PhaseInv
      <4>3. QED
        BY <4>1, <4>2 DEF Requests, Exclusive
    <3>3. QED
      BY <1>0, <3>1, <3>2 DEF KeptInv, HolderInv, CacheInv, ControlInv
  <2>2. entry'[Slot(p)'].state = "pending"
    BY <1>2, <2>1 DEF HolderAt, DataAt, DataFits, Pending, Marked
  <2>3. QED
    BY <2>2 DEF ValidComplete
<1>3. ASSUME pc'[p] \in Prepared
      PROVE  (ValidComplete(Slot(p), Key(p)) /\ (cmd[p].build => target[Slot(p)] # None))'
  <2>1. pc[p] \notin Evicting
    BY <1>0, SlotsAssumption
       DEF KeptInv, PathInv, NotEvicted, CacheInv, ControlInv, ControlAt, Evicting, Eviction
  <2>2. CASE UpToDate(p) \/ RecordBuild(p)
    <3>1. pc[p] # "idle" /\ cmd' = cmd
      BY <2>2 DEF UpToDate, RecordBuild
    <3>2. Slot(p) \in Kept
      BY <3>1, SharedEntry
    <3>3. /\ ValidComplete(Slot(p), Key(p))'
          /\ cmd[p].build => IsCurrent(Slot(p), entry[Slot(p)])'
      BY <2>2, <3>2, ReadyWhenPrepared
    <3>4. QED
      BY <3>1, <3>3 DEF IsCurrent, Slot
  <2>3. CASE pc[p] \in Prepared /\ UNCHANGED <<cmd, diskVars>>
    BY <1>0, <2>3 DEF SettledAt, ValidComplete, Slot, Key, diskVars
  <2>4. UpToDate(p) \/ RecordBuild(p) \/ (pc[p] \in Prepared /\ UNCHANGED <<cmd, diskVars>>)
    BY <1>3, <2>1, AfterLock
  <2>5. QED
    BY <2>2, <2>3, <2>4
<1>4. ASSUME pc'[p] \in {"runlock", "running"}
      PROVE  cmd'[p].runs
  <2>1. CASE AfterPrepare(p)
    BY <1>4, <2>1 DEF AfterPrepare, Exit, Goto, CacheInv, TypeOK
  <2>2. CASE ~AfterPrepare(p)
    <3>1. pc[p] \in {"runlock", "running"} /\ cmd' = cmd
      BY <1>4, <2>2, RunsAfterPrepare
    <3>2. QED
      BY <1>0, <3>1 DEF SettledAt
  <2>3. QED
    BY <2>1, <2>2
<1>5. QED
  BY <1>1, <1>2, <1>3, <1>4 DEF SettledAt, Marked, Pending

\* A translation is made only for an entry that is not valid, and once a command
\* has prepared its entry, it stays valid.
LEMMA SettledStep ==
  ASSUME Sharing, CacheInv, KeptInv, SettledInv, [Next]_vars
  PROVE  SettledInv'
<1>1. CASE ServiceStep
  <2>1. UNCHANGED <<diskVars, procVars>>
    BY <1>1, ServiceKeeps, Parts DEF CacheInv
  <2>2. QED
    BY <2>1 DEF SettledInv, SettledAt, ValidComplete, Slot, Key, diskVars, procVars
<1>2. ASSUME NEW p \in Procs, Start(p) \/ Progress(p) \/ Die(p)
      PROVE  SettledInv'
  <2>1. CacheInv' /\ KeptInv'
    BY CacheStep, KeptStep, SharingIsRoomy
  <2>2. QED
    BY <1>2, <2>1, OwnSettled, OthersSettled DEF SettledInv
<1>3. QED
  BY <1>1, <1>2, NextSplits

\* With sharing only, an entry that a command has prepared is complete for as
\* long as the command uses it.
THEOREM SettledInvariant == Sharing => (Spec => []SettledInv)
<1> SUFFICES ASSUME Sharing PROVE Spec => []SettledInv
  OBVIOUS
<1>1. NoForce
  BY SharingIsRoomy
<1>2. Init => SettledInv
  BY DEF Init, SettledInv, SettledAt, Marked, Prepared
<1>3. CacheInv /\ KeptInv /\ SettledInv /\ [Next]_vars => SettledInv'
  BY SettledStep
<1>4. QED
  BY CacheInvariant, KeptInvariant, <1>1, <1>2, <1>3, PTL DEF Spec

----------------------------------------------------------------------------
\* No command fails for want of a file another command has removed.

\* No step of a command fails when the service, the build and the archive are
\* good.
LEMMA NoFailureStep ==
  ASSUME Sharing, CacheInv, KeptInv, SettledInv, NoSpuriousFailure, [Next]_vars
  PROVE  NoSpuriousFailure'
<1> USE DEF CacheInv, TypeOK
<1>0. Kept = Slots /\ NoForce
  BY SharingIsRoomy
<1>1. CASE ServiceStep
  BY <1>1, ServiceKeeps, Parts DEF NoSpuriousFailure, procVars
<1>2. ASSUME NEW p \in Procs, Start(p) \/ Progress(p) \/ Die(p), exit'[p] = "CANT_CREATE"
      PROVE  FALSE
  <2>0. exit[p] # "CANT_CREATE"
    BY DEF NoSpuriousFailure
  <2>1. CASE CheckDirectory(p)
    <3>1. Slot(p) \in Dirs /\ pc[p] # "idle"
      BY <2>1 DEF CheckDirectory, ControlInv, ControlAt
    <3>2. QED
      BY <3>1, SharedEntry, SlotsAssumption
  <2>2. CASE LockingFails(p)
    <3>1. phase[p] = "open" /\ ~dir[req[p].slot]
      BY <2>2 DEF LockingFails, OpenFails
    <3>2. req[p].slot \in Kept
      BY <1>0, <3>1 DEF PhaseInv, Requests
    <3>3. QED
      BY <3>1, <3>2 DEF KeptInv, PathInv, DirKept
  <2>3. CASE PlaceFails(p)
    <3>1. pc[p] \in Holding /\ pc[p] # "idle"
      BY <2>3 DEF PlaceFails, Holding, Marked
    <3>2. HolderAt(p)
      BY <3>1, SharedEntry DEF KeptInv, HolderInv
    <3>3. QED
      BY <2>3, <3>2 DEF PlaceFails, HolderAt, InCache
  <2>4. CASE BuildFails(p)
    <3>1. pc[p] \in Holding /\ pc[p] # "idle" /\ pc[p] # "submit"
      BY <2>4 DEF BuildFails, Holding, Built
    <3>2. HolderAt(p) /\ loc[p].data.job # None
      BY <3>1, SharedEntry, RecordsTyped DEF KeptInv, HolderInv
    <3>3. project[Slot(p)].files # None
      BY <2>4, <3>2 DEF BuildFails, HolderAt, Built
    <3>4. QED
      BY <1>2, <2>4, <3>3 DEF BuildFails, Exit
  <2>5. CASE RemoveFails(p)
    <3>1. req[p].slot \notin Kept /\ req[p].slot \in Slots
      BY <2>5, SlotsAssumption
         DEF RemoveFails, KeptInv, PathInv, NotEvicted, ControlInv, ControlAt, Evicting, Eviction
    <3>2. QED
      BY <1>0, <3>1
  <2>6. CASE RunModel(p)
    <3>1. pc[p] = "runlock" /\ cmd[p] \in Commands
      BY <2>6 DEF RunModel, ControlInv, ControlAt
    <3>2. cmd[p].build => target[Slot(p)] # None
      BY <3>1 DEF SettledInv, SettledAt, Prepared
    <3>3. cmd[p].build
      BY <3>1, CommandsAssumption DEF SettledInv, SettledAt
    <3>4. QED
      BY <1>2, <2>0, <2>6, <3>2, <3>3 DEF RunModel
  <2>7. CASE \/ Start(p) \/ Die(p) \/ Locate(p) \/ Locking(p) \/ Reuse(p) \/ Translate(p)
             \/ Submit(p) \/ SubmitFails(p) \/ Record(p) \/ StopWaiting(p) \/ Fetch(p)
             \/ PollFails(p) \/ Resubmit(p)
    BY <1>2, <2>0, <2>7
       DEF Start, Die, Locate, Locking, Reuse, Translate, Submit, SubmitFails, Record,
           StopWaiting, Fetch, PollFails, Resubmit, Exit, procVars
  <2>8. CASE \/ Unpack(p) \/ Clear(p) \/ Place(p) \/ Complete(p)
             \/ UpToDate(p) \/ StartBuild(p) \/ Build(p) \/ RecordBuild(p)
    BY <1>2, <2>0, <2>8
       DEF Unpack, Clear, Place, Complete, UpToDate, StartBuild, Build, RecordBuild, Exit
  <2>9. CASE \/ ScanCache(p) \/ EvictNext(p) \/ EvictSkip(p) \/ EvictStart(p)
             \/ RemoveName(p) \/ RemoveEntryDir(p) \/ AfterPrepare(p) \/ ModelEnds(p)
    BY <1>2, <2>0, <2>9
       DEF ScanCache, EvictNext, EvictSkip, EvictStart, RemoveName, RemoveEntryDir,
           AfterPrepare, ModelEnds, Exit
  <2>10. QED
    BY <1>2, <2>1, <2>2, <2>3, <2>4, <2>5, <2>6, <2>7, <2>8, <2>9 DEF Progress
<1>3. ASSUME NEW p \in Procs, Start(p) \/ Progress(p) \/ Die(p)
      PROVE  NoSpuriousFailure'
  <2>1. \A q \in Procs \ {p} : exit'[q] = exit[q]
    BY <1>3, ProcessStep DEF StepOf, OthersStay
  <2>2. QED
    BY <1>2, <1>3, <2>1 DEF NoSpuriousFailure
<1>4. QED
  BY <1>1, <1>3, NextSplits

\* While commands share entries that nobody removes, none of them fails with
\* "cannot read input" or an OSError, whatever the service does and whoever dies.
THEOREM NoFileIsMissing == Sharing => (Spec => []NoSpuriousFailure)
<1> SUFFICES ASSUME Sharing PROVE Spec => []NoSpuriousFailure
  OBVIOUS
<1>1. NoForce
  BY SharingIsRoomy
<1>2. Init => NoSpuriousFailure
  BY DEF Init, NoSpuriousFailure
<1>3. CacheInv /\ KeptInv /\ SettledInv /\ NoSpuriousFailure /\ [Next]_vars => NoSpuriousFailure'
  BY NoFailureStep
<1>4. QED
  BY CacheInvariant, KeptInvariant, SettledInvariant, <1>1, <1>2, <1>3, PTL DEF Spec

----------------------------------------------------------------------------
\* A pending job is resumed.

\* No entry is removed and no command translates afresh.
Resuming == Roomy /\ \A c \in Commands : ~c.noCache

\* Commands that only share an entry also resume its job.
LEMMA SharingIsResuming ==
  ASSUME Sharing
  PROVE  Resuming
  BY SharingIsRoomy DEF Sharing, Resuming

\* What a process that has no job, or has one to record, knows of the entry's.
PendingAt(p) ==
  LET s == Slot(p)  k == Key(p) IN
  /\ pc[p] = "submit" => ~LivePending(s, k)
  /\ pc[p] = "record" /\ LivePending(s, k) => entry[s].job = loc[p].data.job
PendingInv == \A p \in Procs : PendingAt(p)

\* A job that has ended does not run again, and one that is gone is gone.
JobsAge ==
  \A j \in Jobs : job[j].status # "unused" =>
    /\ job'[j].status = "running" => job[j].status = "running"
    /\ job'[j].status = "succeeded" => job[j].status \in {"running", "succeeded"}
    /\ job[j].status \in {"succeeded", "gone"} => job'[j].status \in {"succeeded", "gone"}

\* A command changes the jobs of the service only by submitting one.
LEMMA OnlySubmits ==
  ASSUME NEW p \in Procs, Start(p) \/ Progress(p) \/ Die(p)
  PROVE  \/ job' = job
         \/ pc[p] = "submit" /\ \E j \in Jobs : NewJob(Key(p), j)
<1>1. CASE Submit(p) \/ SubmitFails(p)
  BY <1>1 DEF Submit, SubmitFails
<1>2. CASE \/ Start(p) \/ Die(p) \/ CheckDirectory(p) \/ Locate(p) \/ Locking(p)
           \/ LockingFails(p) \/ Reuse(p) \/ Translate(p) \/ Record(p) \/ StopWaiting(p)
           \/ Fetch(p) \/ PollFails(p) \/ Resubmit(p)
           \/ Unpack(p) \/ Clear(p) \/ Place(p) \/ PlaceFails(p) \/ Complete(p)
  BY <1>2 DEF Start, Die, CheckDirectory, Locate, Locking, LockingFails, Reuse, Translate,
              Record, StopWaiting, Fetch, PollFails, Resubmit, Unpack, Clear, Place,
              PlaceFails, Complete
<1>3. CASE \/ UpToDate(p) \/ StartBuild(p) \/ Build(p) \/ BuildFails(p) \/ RecordBuild(p)
           \/ ScanCache(p) \/ EvictNext(p) \/ EvictSkip(p) \/ EvictStart(p)
           \/ RemoveName(p) \/ RemoveEntryDir(p) \/ RemoveFails(p)
           \/ AfterPrepare(p) \/ RunModel(p) \/ ModelEnds(p)
  BY <1>3 DEF UpToDate, StartBuild, Build, BuildFails, RecordBuild, ScanCache, EvictNext,
              EvictSkip, EvictStart, RemoveName, RemoveEntryDir, RemoveFails, AfterPrepare,
              RunModel, ModelEnds
<1>4. QED
  BY <1>1, <1>2, <1>3 DEF Progress

\* A job that has ended does not run again.
LEMMA JobsAgeStep ==
  ASSUME TypeOK, [Next]_vars
  PROVE  JobsAge
<1>1. ASSUME NEW j \in Jobs, JobEnds(j)
      PROVE  JobsAge
  <2>1. PICK status \in {"succeeded", "failed"} : job' = [job EXCEPT ![j].status = status]
    BY <1>1 DEF JobEnds
  <2>2. QED
    BY <1>1, <2>1 DEF JobsAge, JobEnds, TypeOK
<1>2. ASSUME NEW j \in Jobs, JobExpires(j)
      PROVE  JobsAge
  BY <1>2 DEF JobsAge, JobExpires, TypeOK
<1>3. CASE job' = job
  BY <1>3 DEF JobsAge
<1>4. CASE ServiceStep
  BY <1>1, <1>2, <1>3, <1>4 DEF ServiceStep, Tick, vars
<1>5. ASSUME NEW p \in Procs, NEW j \in Jobs, NewJob(Key(p), j)
      PROVE  JobsAge
  BY <1>5 DEF JobsAge, NewJob, TypeOK
<1>6. QED
  BY <1>3, <1>4, <1>5, OnlySubmits, NextSplits

\* The job of an entry does not come to life again.
LEMMA LiveBefore ==
  ASSUME TypeOK, JobInv, JobsAge, NEW s \in Slots, entry[s] # None,
         job'[entry[s].job].status \in {"running", "succeeded"}
  PROVE  job[entry[s].job].status \in {"running", "succeeded"}
<1>1. entry[s].job \in Jobs /\ entry[s].job # None
  BY AbsentAssumption DEF TypeOK, Entries
<1>2. job[entry[s].job].status # "unused"
  BY <1>1 DEF JobInv, Known
<1>3. QED
  BY <1>1, <1>2 DEF JobsAge

\* The step of a process that comes to submit or to record.
LEMMA OwnPending ==
  ASSUME Resuming, CacheInv, KeptInv, JobInv, PendingInv, [Next]_vars, NEW p \in Procs,
         Start(p) \/ Progress(p) \/ Die(p), pc'[p] \in {"submit", "record"}
  PROVE  PendingAt(p)'
<1> DEFINE s == Slot(p)
           k == Key(p)
<1> USE DEF CacheInv, TypeOK
<1>0. JobsAge /\ PendingAt(p) /\ Kept = Slots
  BY JobsAgeStep, AllKept DEF PendingInv, Resuming
<1>1. cmd' = cmd /\ entry' = entry /\ s \in Slots /\ pc[p] # "idle"
  <2>1. Translate(p) \/ Submit(p) \/ Resubmit(p)
    BY BeforeRecord
  <2>2. pc[p] # "idle"
    BY <2>1 DEF Translate, Submit, Resubmit
  <2>3. cmd' = cmd
    BY <2>1 DEF Translate, Submit, Resubmit, Exit, Goto
  <2>4. QED
    BY <2>1, <2>2, <2>3, CommandTyped DEF Translate, Submit, Resubmit, diskVars
<1>2. Slot(p)' = s /\ Key(p)' = k
  BY <1>1 DEF Slot, Key
<1>3. CASE Translate(p) /\ pc'[p] = "record" /\ Resumable(p)
  <2> DEFINE draft == [key |-> Key(p), state |-> "new", job |-> None,
                       used |-> clock, build |-> None]
             resumed == [draft EXCEPT !.state = "pending", !.job = entry[s].job]
             l == [loc[p] EXCEPT !.data = resumed, !.prev = entry[s], !.resumed = TRUE]
  <2>1. loc'[p].data.job = entry[s].job
    <3>1. CASE Exit(p, "CONFIG")
      BY <1>3, <3>1 DEF Exit, Goto
    <3>2. CASE Goto(p, "submit")
      BY <1>3, <3>2 DEF Goto
    <3>3. CASE Set(p, l)
      <4>1. resumed.job = entry[s].job
        OBVIOUS
      <4> HIDE DEF resumed
      <4>2. l.data = resumed
        BY DEF Locals
      <4> HIDE DEF l
      <4>3. loc'[p] = l
        BY <3>3 DEF Set
      <4>4. QED
        BY <4>1, <4>2, <4>3
    <3>4. QED
      BY <1>3, <3>1, <3>2, <3>3 DEF Translate
  <2>2. QED
    BY <1>1, <1>2, <1>3, <2>1 DEF PendingAt
<1>4. CASE Translate(p) /\ pc'[p] = "submit" /\ ~Resumable(p)
  <2>1. cmd[p] \in Commands
    BY <1>1, CommandTyped
  <2>2. ~cmd[p].noCache
    BY <2>1 DEF Resuming
  <2>3. ~(entry[s] # None /\ entry[s].key = k /\ entry[s].state = "pending")
    BY <1>4, <2>2 DEF Resumable
  <2>4. QED
    BY <1>1, <1>2, <1>4, <2>3 DEF PendingAt, LivePending
<1>5. CASE Submit(p) /\ pc'[p] = "record"
  <2>1. ~LivePending(s, k)
    BY <1>0, <1>5 DEF PendingAt, Submit
  <2>2. ASSUME entry[s] # None, entry[s].key = k, entry[s].state = "pending",
               job'[entry[s].job].status \in {"running", "succeeded"}
        PROVE  FALSE
    <3>1. job[entry[s].job].status \in {"running", "succeeded"}
      BY <1>0, <1>1, <2>2, LiveBefore
    <3>2. QED
      BY <2>1, <2>2, <3>1 DEF LivePending
  <2>3. QED
    BY <1>1, <1>2, <1>5, <2>2 DEF PendingAt, LivePending
<1>6. CASE Resubmit(p) /\ pc'[p] = "submit"
  <2>1. HolderAt(p) /\ PollStatus(p) = "gone" /\ job' = job /\ pc[p] = "poll"
    BY <1>0, <1>1, <1>6 DEF Resubmit, KeptInv, HolderInv, Holding, Marked
  <2>2. entry[s] = loc[p].data
    BY <2>1 DEF HolderAt, Pending
  <2>3. QED
    BY <1>1, <1>2, <1>6, <2>1, <2>2 DEF PendingAt, LivePending, PollStatus
<1>7. QED
  BY <1>3, <1>4, <1>5, <1>6, BeforeRecord

\* Every step keeps PendingInv.
LEMMA PendingStep ==
  ASSUME Resuming, CacheInv, KeptInv, JobInv, PendingInv, [Next]_vars
  PROVE  PendingInv'
<1>0. JobsAge /\ NoForce /\ Kept = Slots
  BY JobsAgeStep, AllKept DEF CacheInv, Resuming, Roomy
<1>1. ASSUME NEW q \in Procs, SameEntry(Slot(q)), Slot(q) \in Slots,
             pc'[q] = pc[q], cmd'[q] = cmd[q], loc'[q] = loc[q]
      PROVE  PendingAt(q)'
  <2>1. Slot(q)' = Slot(q) /\ Key(q)' = Key(q) /\ entry'[Slot(q)] = entry[Slot(q)]
    BY <1>1 DEF Slot, Key, SameEntry
  <2>2. ASSUME LivePending(Slot(q), Key(q))'
        PROVE  LivePending(Slot(q), Key(q))
    <3> DEFINE s == Slot(q)
               k == Key(q)
    <3>1. entry'[s] # None /\ entry'[s].key = k /\ entry'[s].state = "pending"
          /\ job'[entry'[s].job].status \in {"running", "succeeded"}
      BY <2>1, <2>2 DEF LivePending
    <3>2. job[entry[s].job].status \in {"running", "succeeded"}
      BY <1>0, <1>1, <2>1, <3>1, LiveBefore DEF CacheInv
    <3>3. QED
      BY <2>1, <3>1, <3>2 DEF LivePending
  <2>3. PendingAt(q)
    BY DEF PendingInv
  <2>4. QED
    BY <1>1, <2>1, <2>2, <2>3 DEF PendingAt, LivePending
<1>2. CASE ServiceStep
  <2>1. UNCHANGED <<diskVars, procVars>>
    BY <1>2, ServiceKeeps, Parts DEF CacheInv
  <2>2. ASSUME NEW q \in Procs
        PROVE  PendingAt(q)'
    <3>1. CASE pc[q] = "idle"
      BY <2>1, <3>1 DEF PendingAt, procVars
    <3>2. CASE pc[q] # "idle"
      BY <1>1, <2>1, <3>2, CommandTyped DEF CacheInv, SameEntry, diskVars, procVars
    <3>3. QED
      BY <3>1, <3>2
  <2>3. QED
    BY <2>2 DEF PendingInv
<1>3. ASSUME NEW p \in Procs, Start(p) \/ Progress(p) \/ Die(p)
      PROVE  PendingInv'
  <2>1. ASSUME NEW q \in Procs \ {p}, pc'[q] \in {"submit", "record"}
        PROVE  PendingAt(q)'
    <3>1. pc'[q] = pc[q] /\ cmd'[q] = cmd[q] /\ loc'[q] = loc[q]
      BY <1>3, ProcessStep DEF StepOf, OthersStay
    <3>2. pc[q] \in Holding /\ pc'[q] \in Holding
      BY <2>1, <3>1 DEF Holding, Marked
    <3>3. Slot(q) \in Slots /\ Slot(q)' = Slot(q)
      BY <3>1, <3>2, Inside DEF Slot
    <3>4. SameEntry(Slot(q))
      BY <1>0, <1>3, <3>2, <3>3, OthersKnow
    <3>5. QED
      BY <1>1, <3>1, <3>3, <3>4
  <2>2. ASSUME pc'[p] \in {"submit", "record"}
        PROVE  PendingAt(p)'
    BY <1>3, <2>2, OwnPending
  <2>3. ASSUME NEW q \in Procs, pc'[q] \notin {"submit", "record"}
        PROVE  PendingAt(q)'
    BY <2>3 DEF PendingAt
  <2>4. QED
    BY <2>1, <2>2, <2>3 DEF PendingInv
<1>4. QED
  BY <1>2, <1>3, NextSplits

\* When no command translates afresh and nothing is evicted, a command submits
\* only when the entry of its key has no live pending job, and the job that it
\* is about to record is not in competition with one.
THEOREM PendingInvariant == Resuming => (Spec => []PendingInv)
<1> SUFFICES ASSUME Resuming PROVE Spec => []PendingInv
  OBVIOUS
<1>1. NoForce
  BY DEF Resuming, Roomy
<1>2. Init => PendingInv
  BY DEF Init, PendingInv, PendingAt
<1>3. CacheInv /\ KeptInv /\ JobInv /\ PendingInv /\ [Next]_vars => PendingInv'
  BY PendingStep
<1>4. QED
  BY CacheInvariant, KeptInvariant, RecordsOfJobs, <1>1, <1>2, <1>3, PTL DEF Spec

\* "a translation that was interrupted is resumed by the next run instead of
\* being submitted again", when no entry is removed and no command asks for a
\* new translation.
THEOREM PendingJobsResume == Resuming => (Spec => ResumesPending)
<1> SUFFICES ASSUME Resuming PROVE Spec => ResumesPending
  OBVIOUS
<1>1. PendingInv =>
        [\A p \in Procs :
           pc[p] = "submit" /\ pc'[p] = "record" => ~LivePending(Slot(p), Key(p))]_vars
  BY DEF PendingInv, PendingAt
<1>2. QED
  BY PendingInvariant, <1>1, PTL DEF ResumesPending

----------------------------------------------------------------------------
\* A translation is submitted once.

\* A process that installs does so after its job has succeeded.
Installing == {"install", "clear", "place", "complete"}
EndedAt(p) ==
  pc[p] \in Installing => job[loc[p].data.job].status \in {"succeeded", "gone"}

\* A running job is the one of the entry, or is about to be recorded there.
AwaitedAt(j, k) ==
  \/ entry[k] # None /\ entry[k].state = "pending" /\ entry[k].job = j
  \/ \E p \in Procs : pc[p] = "record" /\ Slot(p) = k /\ loc[p].data.job = j
Runs(j, k) == job[j].status = "running" /\ job[j].key = k

AwaitedInv ==
  /\ \A p \in Procs : EndedAt(p)
  /\ \A j \in Jobs, k \in Keys : Runs(j, k) => AwaitedAt(j, k)

\* A process installs after it has fetched, and keeps its job in mind.
LEMMA BeforeInstall ==
  ASSUME CacheInv, NEW p \in Procs, Start(p) \/ Progress(p) \/ Die(p), pc'[p] \in Installing
  PROVE  /\ loc'[p] = loc[p] /\ job' = job
         /\ \/ pc[p] = "poll" /\ PollStatus(p) = "succeeded"
            \/ pc[p] \in Installing
<1> USE DEF CacheInv, TypeOK, Installing
<1>1. CASE \/ Start(p) \/ Die(p) \/ CheckDirectory(p) \/ Locate(p) \/ LockingFails(p)
           \/ Reuse(p) \/ Translate(p) \/ Submit(p) \/ SubmitFails(p) \/ Record(p)
           \/ StopWaiting(p) \/ PollFails(p) \/ Resubmit(p)
  BY <1>1 DEF Start, Die, CheckDirectory, Locate, LockingFails, Reuse, Translate, Submit,
              SubmitFails, Record, StopWaiting, PollFails, Resubmit, Exit, Goto
<1>2. CASE Fetch(p) \/ Clear(p)
  BY <1>2 DEF Fetch, Clear
<1>3. CASE Place(p)
  BY <1>3 DEF Place
<1>4. CASE Unpack(p)
  BY <1>4 DEF Unpack, Exit, Goto
<1>5. CASE \/ PlaceFails(p) \/ Complete(p)
           \/ UpToDate(p) \/ StartBuild(p) \/ Build(p) \/ BuildFails(p) \/ RecordBuild(p)
  BY <1>5 DEF PlaceFails, Complete, UpToDate, StartBuild, Build, BuildFails, RecordBuild,
              Exit, Goto
<1>6. CASE \/ Locking(p) \/ ScanCache(p) \/ EvictNext(p) \/ EvictSkip(p) \/ EvictStart(p)
           \/ RemoveName(p) \/ RemoveEntryDir(p) \/ RemoveFails(p)
           \/ AfterPrepare(p) \/ RunModel(p) \/ ModelEnds(p)
  BY <1>6 DEF Locking, ScanCache, EvictNext, EvictSkip, EvictStart, RemoveName,
              RemoveEntryDir, RemoveFails, AfterPrepare, RunModel, ModelEnds, Exit, Goto,
              procVars
<1>7. QED
  BY <1>1, <1>2, <1>3, <1>4, <1>5, <1>6 DEF Progress

\* A process installs what a job has made only after the job has succeeded.
LEMMA EndedStep ==
  ASSUME CacheInv, AwaitedInv, [Next]_vars, NEW q \in Procs
  PROVE  EndedAt(q)'
<1>0. JobsAge /\ EndedAt(q)
  BY JobsAgeStep DEF CacheInv, AwaitedInv
<1>1. CASE pc'[q] = pc[q] /\ loc'[q] = loc[q]
  <2>1. SUFFICES ASSUME pc[q] \in Installing
                 PROVE  job'[loc[q].data.job].status \in {"succeeded", "gone"}
    BY <1>1 DEF EndedAt
  <2>2. loc[q].data.job \in Jobs
    BY <2>1, RecordsTyped DEF Installing, Holding, Marked, Entries
  <2>3. job[loc[q].data.job].status \in {"succeeded", "gone"}
    BY <1>0, <2>1 DEF EndedAt
  <2>4. QED
    BY <1>0, <2>2, <2>3 DEF JobsAge
<1>2. CASE ServiceStep
  BY <1>1, <1>2, ServiceKeeps, Parts DEF CacheInv, procVars
<1>3. ASSUME NEW p \in Procs, Start(p) \/ Progress(p) \/ Die(p)
      PROVE  EndedAt(q)'
  <2>1. CASE q # p
    BY <1>1, <1>3, <2>1, ProcessStep DEF StepOf, OthersStay
  <2>2. CASE q = p /\ pc'[p] \in Installing
    BY <1>0, <1>3, <2>2, BeforeInstall DEF EndedAt, PollStatus
  <2>3. QED
    BY <2>1, <2>2 DEF EndedAt
<1>4. QED
  BY <1>2, <1>3, NextSplits

\* The entry of a running job is only written by those who know the job.
LEMMA AwaitedStays ==
  ASSUME Sharing, Reliable, CacheInv, KeptInv, JobInv, PendingInv, AwaitedInv,
         NEW p \in Procs, Start(p) \/ Progress(p) \/ Die(p),
         NEW j \in Jobs, NEW k \in Keys, Runs(j, k),
         entry[k] # None, entry[k].state = "pending", entry[k].job = j
  PROVE  AwaitedAt(j, k)'
<1> USE DEF CacheInv, TypeOK
<1>0. k \in Slots /\ k \in Kept /\ NoForce
  BY SharingIsRoomy, SlotsAssumption
<1>1. SUFFICES ASSUME entry'[k] # entry[k]
               PROVE  pc[p] = "record" /\ loc[p].data.job = j /\ entry'[k] = loc[p].data
  <2>1. CASE entry'[k] = entry[k]
    BY <2>1 DEF AwaitedAt
  <2>2. CASE pc[p] = "record" /\ loc[p].data.job = j /\ entry'[k] = loc[p].data
    <3>1. loc[p].data \in Entries /\ loc[p].data # None /\ loc[p].data.state = "pending"
      BY <2>2, RecordsTyped DEF ControlInv, DataAt, DataFits, Holding, Marked
    <3>2. QED
      BY <2>2, <3>1 DEF AwaitedAt
  <2>3. QED
    BY <1>1, <2>1, <2>2
<1>2. k = Slot(p) /\ phase[p] = "held" /\ req[p] = Exclusive(p)
  BY <1>0, <1>1, OnlyHolderWrites DEF KeptInv, SameEntry
<1>3. pc[p] # "idle"
  BY <1>2 DEF ControlInv, ControlAt, Unlocked
<1>4. k = Key(p)
  BY <1>2, <1>3, SharedEntry
<1>5. LivePending(k, k)
  <2>1. j # None
    BY AbsentAssumption
  <2>2. QED
    BY <1>0, <2>1 DEF JobInv, Known, LivePending, Runs
<1>6. pc[p] \in Holding => HolderAt(p)
  BY <1>0, <1>2 DEF KeptInv, HolderInv
<1>7. CASE Record(p)
  <2>1. entry[k].job = loc[p].data.job
    BY <1>2, <1>4, <1>5, <1>7 DEF PendingInv, PendingAt, Record
  <2>2. QED
    BY <1>0, <1>2, <1>7, <2>1 DEF Record, WriteEntry
<1>8. CASE Reuse(p)
  BY <1>2, <1>8 DEF Reuse, ValidComplete
<1>9. CASE PollFails(p)
  <2>1. entry[k] = loc[p].data
    BY <1>2, <1>6, <1>9 DEF PollFails, HolderAt, Holding, Marked, Pending
  <2>2. PollStatus(p) = "running"
    BY <2>1 DEF PollStatus, Runs
  <2>3. QED
    BY <1>9, <2>2 DEF PollFails, Reliable
<1>10. CASE Unpack(p) \/ Complete(p)
  <2>1. pc[p] \in Installing /\ pc[p] \in Pending /\ pc[p] \in Holding
    BY <1>10 DEF Unpack, Complete, Installing, Pending, Holding, Marked
  <2>2. entry[k] = loc[p].data
    BY <1>2, <1>6, <2>1 DEF HolderAt
  <2>3. job[j].status \in {"succeeded", "gone"}
    BY <2>1, <2>2 DEF AwaitedInv, EndedAt
  <2>4. QED
    BY <2>3 DEF Runs
<1>11. CASE BuildFails(p) \/ RecordBuild(p)
  <2>1. pc[p] \in {"build", "recordbuild"} /\ pc[p] \in Holding
    BY <1>11 DEF BuildFails, RecordBuild, Holding, Built
  <2>2. entry[k].state = "complete"
    BY <1>2, <1>6, <2>1 DEF HolderAt
  <2>3. QED
    BY <2>2
<1>12. CASE CheckDirectory(p)
  <2>1. Slot(p) \in Dirs
    BY <1>12 DEF CheckDirectory, ControlInv, ControlAt
  <2>2. QED
    BY <1>2, <2>1, SlotsAssumption
<1>13. CASE RemoveName(p)
  BY <1>0, <1>2, <1>13 DEF RemoveName, KeptInv, PathInv, NotEvicted, Evicting, Exclusive
<1>14. CASE entry' = entry
  BY <1>1, <1>14
<1>15. CASE \/ Start(p) \/ Die(p) \/ Locate(p) \/ Locking(p) \/ LockingFails(p) \/ Translate(p)
            \/ Submit(p) \/ SubmitFails(p) \/ StopWaiting(p) \/ Fetch(p) \/ Resubmit(p)
            \/ Clear(p) \/ Place(p) \/ PlaceFails(p) \/ UpToDate(p) \/ StartBuild(p) \/ Build(p)
  BY <1>14, <1>15
     DEF Start, Die, Locate, Locking, LockingFails, Translate, Submit, SubmitFails,
         StopWaiting, Fetch, Resubmit, Clear, Place, PlaceFails, UpToDate, StartBuild, Build,
         diskVars
<1>16. CASE \/ ScanCache(p) \/ EvictNext(p) \/ EvictSkip(p) \/ EvictStart(p)
            \/ RemoveEntryDir(p) \/ RemoveFails(p)
            \/ AfterPrepare(p) \/ RunModel(p) \/ ModelEnds(p)
  BY <1>14, <1>16
     DEF ScanCache, EvictNext, EvictSkip, EvictStart, RemoveEntryDir, RemoveFails,
         AfterPrepare, RunModel, ModelEnds, diskVars
<1>17. QED
  BY <1>7, <1>8, <1>9, <1>10, <1>11, <1>12, <1>13, <1>15, <1>16 DEF Progress

\* A process that is to record a job records it.
LEMMA RecordsNext ==
  ASSUME Reliable, CacheInv, NEW p \in Procs, Start(p) \/ Progress(p) \/ Die(p),
         pc[p] = "record"
  PROVE  Record(p)
<1>1. ~Die(p) /\ ~Start(p) /\ ~Locking(p) /\ ~LockingFails(p)
  BY DEF Die, Start, Locking, LockingFails, Reliable
<1>2. ~(\/ CheckDirectory(p) \/ Locate(p) \/ Reuse(p) \/ Translate(p) \/ Submit(p)
        \/ SubmitFails(p) \/ StopWaiting(p) \/ Fetch(p) \/ PollFails(p) \/ Resubmit(p)
        \/ Unpack(p) \/ Clear(p) \/ Place(p) \/ PlaceFails(p) \/ Complete(p))
  BY DEF CheckDirectory, Locate, Reuse, Translate, Submit, SubmitFails, StopWaiting, Fetch,
         PollFails, Resubmit, Unpack, Clear, Place, PlaceFails, Complete
<1>3. ~(\/ UpToDate(p) \/ StartBuild(p) \/ Build(p) \/ BuildFails(p) \/ RecordBuild(p)
        \/ ScanCache(p) \/ EvictNext(p) \/ EvictSkip(p) \/ EvictStart(p)
        \/ RemoveName(p) \/ RemoveEntryDir(p) \/ RemoveFails(p)
        \/ AfterPrepare(p) \/ RunModel(p) \/ ModelEnds(p))
  BY DEF UpToDate, StartBuild, Build, BuildFails, RecordBuild, ScanCache, EvictNext, EvictSkip,
         EvictStart, RemoveName, RemoveEntryDir, RemoveFails, AfterPrepare, RunModel, ModelEnds
<1>4. QED
  BY <1>1, <1>2, <1>3 DEF Progress

\* A new job is about to be recorded by the process that submitted it.
LEMMA NewJobAwaited ==
  ASSUME Sharing, Reliable, CacheInv, NEW p \in Procs, Start(p) \/ Progress(p) \/ Die(p),
         NEW j \in Jobs, NEW k \in Keys, Runs(j, k)', ~Runs(j, k)
  PROVE  AwaitedAt(j, k)'
<1> USE DEF CacheInv, TypeOK
<1>1. job' # job
  BY DEF Runs
<1>2. pc[p] = "submit" /\ \E i \in Jobs : NewJob(Key(p), i)
  BY <1>1, OnlySubmits
<1>3. Submit(p)
  <2>1. ~SubmitFails(p)
    BY <1>1 DEF SubmitFails, Reliable
  <2>2. ~(\/ Start(p) \/ Die(p) \/ CheckDirectory(p) \/ Locate(p) \/ Locking(p)
           \/ LockingFails(p) \/ Reuse(p) \/ Translate(p) \/ Record(p) \/ StopWaiting(p)
           \/ Fetch(p) \/ PollFails(p) \/ Resubmit(p)
           \/ Unpack(p) \/ Clear(p) \/ Place(p) \/ PlaceFails(p) \/ Complete(p))
    BY <1>1 DEF Start, Die, CheckDirectory, Locate, Locking, LockingFails, Reuse, Translate,
                Record, StopWaiting, Fetch, PollFails, Resubmit, Unpack, Clear, Place,
                PlaceFails, Complete
  <2>3. ~(\/ UpToDate(p) \/ StartBuild(p) \/ Build(p) \/ BuildFails(p) \/ RecordBuild(p)
           \/ ScanCache(p) \/ EvictNext(p) \/ EvictSkip(p) \/ EvictStart(p)
           \/ RemoveName(p) \/ RemoveEntryDir(p) \/ RemoveFails(p)
           \/ AfterPrepare(p) \/ RunModel(p) \/ ModelEnds(p))
    BY <1>1 DEF UpToDate, StartBuild, Build, BuildFails, RecordBuild, ScanCache, EvictNext,
                EvictSkip, EvictStart, RemoveName, RemoveEntryDir, RemoveFails, AfterPrepare,
                RunModel, ModelEnds
  <2>4. QED
    BY <2>1, <2>2, <2>3 DEF Progress
<1>4. PICK i \in Jobs :
        /\ NewJob(Key(p), i)
        /\ Set(p, [loc[p] EXCEPT !.data.state = "pending", !.data.job = i, !.resumed = FALSE])
  BY <1>3 DEF Submit
<1>5. i = j /\ Key(p) = k
  BY <1>4 DEF NewJob, Runs
<1>6. Slot(p) = k /\ cmd' = cmd /\ pc'[p] = "record"
  BY <1>2, <1>3, <1>5, SharedEntry DEF Submit, Goto
<1>7. loc'[p].data.job = i
  <2> DEFINE l == [loc[p] EXCEPT !.data.state = "pending", !.data.job = i, !.resumed = FALSE]
  <2>1. loc[p].data \in Drafts /\ loc[p] \in Locals
    BY <1>2 DEF ControlInv, DataAt, DataFits
  <2>2. l.data.job = i
    BY <2>1 DEF Locals, Drafts
  <2>3. Set(p, l)
    BY <1>4
  <2> HIDE DEF l
  <2>4. QED
    BY <2>2, <2>3 DEF Set
<1>8. QED
  BY <1>5, <1>6, <1>7 DEF AwaitedAt, Slot

\* Every step keeps a running job recorded, or about to be.
LEMMA AwaitedStep ==
  ASSUME Sharing, Reliable, CacheInv, KeptInv, JobInv, PendingInv, AwaitedInv, [Next]_vars
  PROVE  AwaitedInv'
<1>1. \A q \in Procs : EndedAt(q)'
  BY EndedStep
<1>2. ASSUME NEW j \in Jobs, NEW k \in Keys, Runs(j, k)'
      PROVE  AwaitedAt(j, k)'
  <2>1. CASE ServiceStep
    <3>1. UNCHANGED <<diskVars, procVars>>
      BY <2>1, ServiceKeeps, Parts DEF CacheInv
    <3>2. Runs(j, k)
      BY <1>2, <2>1
         DEF ServiceStep, JobEnds, JobExpires, Tick, vars, Runs, CacheInv, TypeOK
    <3>3. QED
      BY <3>1, <3>2 DEF AwaitedInv, AwaitedAt, Slot, diskVars, procVars
  <2>2. ASSUME NEW p \in Procs, Start(p) \/ Progress(p) \/ Die(p)
        PROVE  AwaitedAt(j, k)'
    <3>1. CASE ~Runs(j, k)
      BY <1>2, <2>2, <3>1, NewJobAwaited
    <3>2. CASE Runs(j, k) /\ entry[k] # None /\ entry[k].state = "pending" /\ entry[k].job = j
      BY <2>2, <3>2, AwaitedStays
    <3>3. ASSUME NEW q \in Procs, pc[q] = "record", Slot(q) = k, loc[q].data.job = j
          PROVE  AwaitedAt(j, k)'
      <4>1. CASE q # p
        BY <2>2, <3>3, <4>1, ProcessStep DEF StepOf, OthersStay, AwaitedAt, Slot
      <4>2. CASE q = p
        <5>1. Record(p) /\ k \in Slots
          BY <2>2, <3>3, <4>2, RecordsNext, SlotsAssumption
        <5>2. entry'[k] = loc[p].data
          BY <3>3, <4>2, <5>1 DEF Record, WriteEntry, CacheInv, TypeOK
        <5>3. loc[p].data # None /\ loc[p].data.state = "pending"
          BY <3>3, <4>2, RecordsTyped
             DEF CacheInv, ControlInv, DataAt, DataFits, Holding, Marked
        <5>4. QED
          BY <3>3, <4>2, <5>2, <5>3 DEF AwaitedAt
      <4>3. QED
        BY <4>1, <4>2
    <3>4. QED
      BY <3>1, <3>2, <3>3 DEF AwaitedInv, AwaitedAt
  <2>3. QED
    BY <2>1, <2>2, NextSplits
<1>3. QED
  BY <1>1, <1>2 DEF AwaitedInv

\* Two running jobs of one key would be awaited in one place.
LEMMA OneJobAwaited ==
  ASSUME Sharing, CacheInv, KeptInv, JobInv, PendingInv, AwaitedInv,
         NEW k \in Keys, NEW i \in Jobs, NEW j \in Jobs, Runs(i, k), Runs(j, k)
  PROVE  i = j
<1>0. k \in Slots /\ k \in Kept
  BY SharingIsRoomy, SlotsAssumption
<1>1. ASSUME NEW m \in Jobs, Runs(m, k), NEW n \in Jobs,
             entry[k] # None, entry[k].state = "pending", entry[k].job = m,
             NEW p \in Procs, pc[p] = "record", Slot(p) = k, loc[p].data.job = n
      PROVE  m = n
  <2>1. LivePending(k, k)
    <3>1. m # None
      BY AbsentAssumption
    <3>2. QED
      BY <1>0, <1>1, <3>1 DEF JobInv, Known, LivePending, Runs
  <2>2. Key(p) = k
    BY <1>1, SharedEntry
  <2>3. QED
    BY <1>1, <2>1, <2>2 DEF PendingInv, PendingAt
<1>2. ASSUME NEW p \in Procs, pc[p] = "record", Slot(p) = k, loc[p].data.job = i,
             NEW q \in Procs, pc[q] = "record", Slot(q) = k, loc[q].data.job = j
      PROVE  i = j
  <2>1. pc[p] \in Holding /\ pc[q] \in Holding
    BY <1>2 DEF Holding, Marked
  <2>2. /\ phase[p] = "held" /\ req[p] = Exclusive(p)
        /\ phase[q] = "held" /\ req[q] = Exclusive(q)
    BY <2>1, Inside
  <2>3. p = q
    BY <1>0, <1>2, <2>2, KeptMutex DEF KeptInv, Exclusive
  <2>4. QED
    BY <1>2, <2>3
<1>3. AwaitedAt(i, k) /\ AwaitedAt(j, k)
  BY DEF AwaitedInv
<1>4. QED
  BY <1>1, <1>2, <1>3 DEF AwaitedAt

\* A set whose members are all equal has at most one.
LEMMA AtMostOne ==
  ASSUME NEW S, \A i, j \in S : i = j
  PROVE  Cardinality(S) <= 1
<1>1. CASE S = {}
  BY <1>1, FS_EmptySet
<1>2. ASSUME NEW i \in S
      PROVE  Cardinality(S) <= 1
  <2>1. S = {i}
    OBVIOUS
  <2>2. Cardinality({i}) = 1
    BY FS_Singleton
  <2>3. QED
    BY <2>1, <2>2
<1>3. QED
  BY <1>1, <1>2

\* A running job is recorded in its entry, or is about to be.
THEOREM AwaitedInvariant == Sharing /\ Reliable => (Spec => []AwaitedInv)
<1> SUFFICES ASSUME Sharing, Reliable PROVE Spec => []AwaitedInv
  OBVIOUS
<1>1. Resuming /\ NoForce
  BY SharingIsResuming, SharingIsRoomy
<1>2. Init => AwaitedInv
  BY DEF Init, AwaitedInv, EndedAt, Runs, Installing
<1>3. CacheInv /\ KeptInv /\ JobInv /\ PendingInv /\ AwaitedInv /\ [Next]_vars => AwaitedInv'
  BY AwaitedStep
<1>4. QED
  BY CacheInvariant, KeptInvariant, RecordsOfJobs, PendingInvariant, <1>1, <1>2, <1>3, PTL
     DEF Spec

\* "concurrent runs submit once": as long as no process dies on the way and no
\* answer of the service is lost, one job at most runs for a key.
THEOREM ConcurrentRunsSubmitOnce == Sharing /\ Reliable => (Spec => []SubmittedOnce)
<1> SUFFICES ASSUME Sharing, Reliable PROVE Spec => []SubmittedOnce
  OBVIOUS
<1>1. Resuming /\ NoForce
  BY SharingIsResuming, SharingIsRoomy
<1>2. ASSUME CacheInv, KeptInv, JobInv, PendingInv, AwaitedInv
      PROVE  SubmittedOnce
  <2>1. ASSUME NEW k \in Keys
        PROVE  Cardinality({j \in Jobs : job[j] = [status |-> "running", key |-> k]}) <= 1
    <3>1. ASSUME NEW i \in Jobs, NEW j \in Jobs,
                 job[i] = [status |-> "running", key |-> k],
                 job[j] = [status |-> "running", key |-> k]
          PROVE  i = j
      <4>1. Runs(i, k) /\ Runs(j, k)
        BY <3>1 DEF Runs
      <4>2. QED
        BY <1>2, <4>1, OneJobAwaited
    <3>2. QED
      BY <3>1, AtMostOne
  <2>2. QED
    BY <2>1 DEF SubmittedOnce
<1>3. QED
  BY CacheInvariant, KeptInvariant, RecordsOfJobs, PendingInvariant, AwaitedInvariant,
     <1>1, <1>2, PTL
=============================================================================

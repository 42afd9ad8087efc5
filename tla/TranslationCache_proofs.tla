----------------------- MODULE TranslationCache_proofs -----------------------
(***************************************************************************)
(* Proofs about the entry locks for any number of processes, slots and     *)
(* inodes, and about the translation cache that takes them, for any keys,  *)
(* --to directories, commands and faults, with removals and crashes: its   *)
(* types, the place where each step finds a process and its lock, and what *)
(* holds without any assumption about the commands.                        *)
(***************************************************************************)
EXTENDS TranslationCache, LockClients, FiniteSetTheorems, TLAPS

----------------------------------------------------------------------------
(* The entry locks. *)

\* Who has a request and an open stream, in each phase.
PhaseInv ==
  \A p \in Procs : /\ phase[p] # "none" => req[p] \in Requests
                   /\ phase[p] \in Opened <=> fd[p] # None

KernelInv == LockTypeOK /\ PhaseInv /\ InodeMutex

\* Every step of a client keeps the types and the state of the streams.
LEMMA TypeStep ==
  ASSUME LockTypeOK, PhaseInv, [LockNext]_lockVars
  PROVE  LockTypeOK' /\ PhaseInv'
<1> USE DEF LockTypeOK, PhaseInv, Phases, Opened
<1>1. CASE UNCHANGED lockVars
  BY <1>1 DEF lockVars
<1>2. ASSUME NEW p \in Procs, NEW r \in Requests, Enter(p, r)
      PROVE  LockTypeOK' /\ PhaseInv'
  BY <1>2 DEF Enter, Requests
<1>3. ASSUME NEW p \in Procs, Open(p)
      PROVE  LockTypeOK' /\ PhaseInv'
  <2>1. CASE lockFile[req[p].slot] # None
    BY <1>3, <2>1 DEF Open, Requests
  <2>2. CASE lockFile[req[p].slot] = None
    <3> DEFINE new == CHOOSE i \in Free : TRUE
    <3>1. /\ lockFile' = [lockFile EXCEPT ![req[p].slot] = new]
          /\ fd' = [fd EXCEPT ![p] = new]
          /\ phase' = [phase EXCEPT ![p] = "try"]
          /\ UNCHANGED <<dir, req>>
      BY <1>3, <2>2 DEF Open
    <3>2. new \in Inodes
      BY <1>3, <2>2 DEF Open, Free
    <3>3. new # None
      BY <3>2, NoneAssumption
    <3> HIDE DEF new
    <3>4. QED
      BY <1>3, <3>1, <3>2, <3>3 DEF Open, Requests
  <2>3. QED
    BY <2>1, <2>2
<1>4. ASSUME NEW p \in Procs, Try(p) \/ Acquire(p) \/ Close(p)
      PROVE  LockTypeOK' /\ PhaseInv'
  BY <1>4 DEF Try, Acquire, Close
<1>5. QED
  BY <1>1, <1>2, <1>3, <1>4 DEF LockNext

\* flock never lets an exclusive holder of an inode have company, although
\* inodes are reused.
LEMMA InodeMutexStep ==
  ASSUME KernelInv, [LockNext]_lockVars
  PROVE  InodeMutex'
<1> USE DEF KernelInv, LockTypeOK, PhaseInv, Phases, Opened, InodeMutex
<1>1. CASE UNCHANGED lockVars
  BY <1>1 DEF lockVars
<1>2. ASSUME NEW p \in Procs, NEW r \in Requests, Enter(p, r)
      PROVE  InodeMutex'
  BY <1>2 DEF Enter
<1>3. ASSUME NEW p \in Procs, Open(p)
      PROVE  InodeMutex'
  <2>1. /\ phase' = [phase EXCEPT ![p] = "try"]
        /\ req' = req
        /\ \A q \in Procs : q # p => fd'[q] = fd[q]
    BY <1>3 DEF Open
  <2>2. QED
    BY <2>1
<1>4. ASSUME NEW p \in Procs, Try(p) \/ Acquire(p)
      PROVE  InodeMutex'
  <2>1. /\ \A q \in Procs : q # p => phase'[q] = phase[q]
        /\ phase'[p] = "held" => Compatible(p)
        /\ UNCHANGED <<req, fd>>
    BY <1>4 DEF Try, Acquire
  <2>2. QED
    BY <2>1 DEF Compatible
<1>5. ASSUME NEW p \in Procs, Close(p)
      PROVE  InodeMutex'
  BY <1>5 DEF Close
<1>6. QED
  BY <1>1, <1>2, <1>3, <1>4, <1>5 DEF LockNext

\* No process has a stream at the start.
LEMMA KernelInit == LockInit => KernelInv
  BY DEF LockInit, KernelInv, LockTypeOK, PhaseInv, Phases, Opened, InodeMutex

\* The state of the locks is well typed and the kernel's mutual exclusion
\* holds per inode.
THEOREM KernelInvariant == LockSpec => []KernelInv
<1>1. KernelInv /\ [LockNext]_lockVars => KernelInv'
  BY TypeStep, InodeMutexStep DEF KernelInv
<1>2. QED
  BY KernelInit, <1>1, PTL DEF LockSpec

\* Corollaries in the terms of the runs.
THEOREM TypeCorrect == LockSpec => []LockTypeOK
  BY KernelInvariant, PTL DEF KernelInv

\* No two processes hold conflicting locks of one lock file: what `flock`
\* promises to EntryLock.
THEOREM InodesExclude == LockSpec => []InodeMutex
  BY KernelInvariant, PTL DEF KernelInv

----------------------------------------------------------------------------
\* Every open stream is a stream of the linked lock file.
LEMMA LinkedStep ==
  ASSUME KernelInv, LinkedInode, [LockNext]_lockVars
  PROVE  LinkedInode'
<1> USE DEF KernelInv, LockTypeOK, PhaseInv, Phases, Opened, LinkedInode
<1>1. CASE UNCHANGED lockVars
  BY <1>1 DEF lockVars
<1>2. ASSUME NEW p \in Procs, NEW r \in Requests, Enter(p, r)
      PROVE  LinkedInode'
  BY <1>2 DEF Enter, Requests
<1>3. ASSUME NEW p \in Procs, Open(p)
      PROVE  LinkedInode'
  <2> DEFINE s == req[p].slot
  <2>0. s \in Slots
    BY <1>3 DEF Open, Requests
  <2>1. PICK i \in Inodes :
           /\ fd' = [fd EXCEPT ![p] = i]
           /\ lockFile' = [lockFile EXCEPT ![s] = i]
           /\ lockFile[s] \in {None, i}
    <3>1. CASE lockFile[s] # None
      <4>1. lockFile = [lockFile EXCEPT ![s] = lockFile[s]]
        BY <2>0
      <4>2. QED
        BY <1>3, <2>0, <3>1, <4>1 DEF Open
    <3>2. CASE lockFile[s] = None
      BY <1>3, <3>2 DEF Open, Free
    <3>3. QED
      BY <3>1, <3>2
  <2>2. /\ phase' = [phase EXCEPT ![p] = "try"]
        /\ req' = req
    BY <1>3 DEF Open
  <2>3. i # None
    BY NoneAssumption
  <2> HIDE DEF s
  <2>4. ASSUME NEW q \in Procs, phase'[q] \in Opened
        PROVE  fd'[q] # None /\ fd'[q] = lockFile'[req'[q].slot]
    <3>1. CASE q = p
      BY <2>0, <2>1, <2>2, <2>3, <3>1 DEF s
    <3>2. CASE q # p
      <4>1. /\ phase[q] \in Opened
            /\ fd[q] # None
            /\ fd[q] = lockFile[req[q].slot]
        BY <2>2, <2>4, <3>2
      <4>2. req[q].slot \in Slots
        BY <4>1 DEF Requests
      <4>3. lockFile'[req[q].slot] = lockFile[req[q].slot]
        BY <2>0, <2>1, <4>1, <4>2
      <4>4. QED
        BY <2>1, <2>2, <3>2, <4>1, <4>3
    <3>3. QED
      BY <3>1, <3>2
  <2>5. QED
    BY <2>4
<1>4. ASSUME NEW p \in Procs, Try(p) \/ Acquire(p) \/ Close(p)
      PROVE  LinkedInode'
  BY <1>4 DEF Try, Acquire, Close
<1>5. QED
  BY <1>1, <1>2, <1>3, <1>4 DEF LockNext

LinkedInv == KernelInv /\ LinkedInode

\* Two holders of one entry's lock have the same inode open.
LEMMA MutexFromInodes == LinkedInv => EntryMutex
  BY DEF LinkedInv, KernelInv, InodeMutex, LinkedInode, EntryMutex, Opened

\* As long as no lock file is removed, an open stream is the file of its entry.
THEOREM LinkedInvariant == LockSpec => []LinkedInv
<1>1. LockInit => LinkedInv
  BY KernelInit DEF LockInit, LinkedInv, LinkedInode, Opened
<1>2. LinkedInv /\ [LockNext]_lockVars => LinkedInv'
  BY TypeStep, InodeMutexStep, LinkedStep DEF LinkedInv, KernelInv
<1>3. QED
  BY <1>1, <1>2, PTL DEF LockSpec

\* What EntryLock's docstring promises, for clients that never remove a
\* lock file: an exclusive holder of an entry is alone.
THEOREM EntriesExclude == LockSpec => []EntryMutex
<1>1. LockSpec => []LinkedInv
  BY LinkedInvariant
<1>2. QED
  BY <1>1, MutexFromInodes, PTL

----------------------------------------------------------------------------
\* A step of the clients is a step of the readers-writer lock or a stutter.
LEMMA RefinementStep ==
  ASSUME LinkedInv, [LockNext]_lockVars
  PROVE  [RW!Next]_heldLocks
<1> USE DEF LinkedInv, KernelInv, LockTypeOK, PhaseInv, Phases
<1>1. ASSUME \A p \in Procs : HeldLock(p)' = HeldLock(p)
      PROVE  heldLocks' = heldLocks
  BY <1>1 DEF heldLocks
<1>2. CASE UNCHANGED lockVars
  BY <1>2, <1>1 DEF lockVars, HeldLock
<1>3. ASSUME NEW p \in Procs, NEW r \in Requests, Enter(p, r)
      PROVE  heldLocks' = heldLocks
  BY <1>3, <1>1 DEF Enter, HeldLock
<1>4. ASSUME NEW p \in Procs, Open(p)
      PROVE  heldLocks' = heldLocks
  BY <1>4, <1>1 DEF Open, HeldLock
<1>5. ASSUME NEW p \in Procs, Try(p) \/ Acquire(p)
      PROVE  heldLocks' = heldLocks \/ RW!Acquire(p, [slot |-> req[p].slot,
                                           shared |-> req[p].shared])
  <2> DEFINE l == [slot |-> req[p].slot, shared |-> req[p].shared]
  <2>1. /\ \A q \in Procs : q # p => phase'[q] = phase[q]
        /\ phase[p] # "held" /\ phase[p] \in Opened
        /\ phase'[p] = "held" => Compatible(p)
        /\ UNCHANGED <<dir, lockFile, req, fd>>
    BY <1>5 DEF Try, Acquire, Opened
  <2>2. CASE phase'[p] # "held"
    BY <2>1, <2>2, <1>1 DEF HeldLock, heldLocks
  <2>3. CASE phase'[p] = "held"
    <3>1. heldLocks[p] = None
      BY <2>1 DEF HeldLock, heldLocks
    <3>2. ASSUME NEW q \in Procs \ {p}, heldLocks[q] # None
          PROVE  ~RW!Conflict(l, heldLocks[q])
      <4>1. /\ phase[q] = "held"
            /\ heldLocks[q] = [slot |-> req[q].slot, shared |-> req[q].shared]
        BY <3>2 DEF HeldLock, heldLocks
      <4>2. req[q].slot = req[p].slot => req[q].shared /\ req[p].shared
        BY <2>1, <2>3, <4>1 DEF LinkedInode, Opened, Compatible
      <4>3. QED
        BY <4>1, <4>2 DEF RW!Conflict
    <3>3. heldLocks' = [heldLocks EXCEPT ![p] = l]
      BY <2>1, <2>3 DEF HeldLock, heldLocks
    <3>4. QED
      BY <3>1, <3>2, <3>3 DEF RW!Acquire
  <2>4. QED
    BY <2>2, <2>3
<1>6. ASSUME NEW p \in Procs, Close(p)
      PROVE  heldLocks' = heldLocks \/ RW!Release(p)
  <2>1. \A q \in Procs : q # p => HeldLock(q)' = HeldLock(q)
    BY <1>6 DEF Close, HeldLock
  <2>2. HeldLock(p)' = None
    BY <1>6 DEF Close, HeldLock
  <2>3. heldLocks' = [heldLocks EXCEPT ![p] = None]
    BY <2>1, <2>2 DEF heldLocks
  <2>4. CASE phase[p] = "held"
    <3>1. heldLocks[p] \in [slot : Slots, shared : BOOLEAN]
      BY <2>4 DEF HeldLock, heldLocks, Requests
    <3>2. QED
      BY <2>3, <3>1, NoneAssumption DEF RW!Release
  <2>5. CASE phase[p] # "held"
    <3>1. HeldLock(p) = None
      BY <2>5 DEF HeldLock, heldLocks
    <3>2. QED
      BY <1>1, <2>1, <2>2, <3>1
  <2>6. QED
    BY <2>4, <2>5
<1>7. \A p \in Procs : phase[p] # "none" =>
        [slot |-> req[p].slot, shared |-> req[p].shared] \in RW!Locks
  BY DEF Requests, RW!Locks
<1>8. ASSUME NEW p \in Procs, Try(p) \/ Acquire(p)
      PROVE  [RW!Next]_heldLocks
  <2>1. phase[p] # "none"
    BY <1>8 DEF Try, Acquire
  <2>2. QED
    BY <1>5, <1>7, <1>8, <2>1 DEF RW!Next
<1>9. ASSUME NEW p \in Procs, Close(p)
       PROVE  [RW!Next]_heldLocks
  BY <1>6, <1>9 DEF RW!Next
<1>10. QED
  BY <1>2, <1>3, <1>4, <1>8, <1>9 DEF LockNext

\* An EntryLock whose lock files are never removed implements the
\* readers-writer lock that the commands rely on.
THEOREM ImplementsReadWriteLock == LockSpec => RWSpec
<1>1. LockInit => RW!Init
  BY DEF LockInit, RW!Init, HeldLock, heldLocks
<1>2. LinkedInv /\ [LockNext]_lockVars => [RW!Next]_heldLocks
  BY RefinementStep
<1>3. QED
  BY LinkedInvariant, <1>1, <1>2, PTL DEF LockSpec, RWSpec, RW!Spec

----------------------------------------------------------------------------
(* The translation cache. *)

\* The steps at which a process has no EntryLock, and those at which it is
\* inside the `with EntryLock` of _obtain.
Unlocked == {"idle", "directory", "locate", "after", "evict", "next"}
Marked == {"record", "poll", "install", "clear", "place", "complete"}
Built == {"built", "build", "recordbuild"}
Holding == {"submit"} \cup Marked \cup Built
Evicting == {"evictlock", "rmtree"}

Exclusive(p) == [slot |-> Slot(p), shared |-> FALSE, blocking |-> TRUE]
Shared(p) == [slot |-> Slot(p), shared |-> TRUE, blocking |-> TRUE]
Eviction == [slot : Keys, shared : {FALSE}, blocking : {FALSE}]

\* Where a process is and what it has of its lock.
ControlAt(p) ==
  /\ pc[p] # "idle" => cmd[p] \in Commands /\ exit[p] = "none"
  /\ pc[p] = "directory" => Slot(p) \in Dirs
  /\ pc[p] \in Unlocked => phase[p] = "none"
  /\ pc[p] = "lock" => phase[p] \in {"open", "try", "wait", "held"} /\ req[p] = Exclusive(p)
  /\ pc[p] \in Holding => phase[p] = "held" /\ req[p] = Exclusive(p)
  /\ pc[p] = "evictlock" => phase[p] \in {"open", "try", "held", "missed"}
  /\ pc[p] = "rmtree" => phase[p] = "held"
  /\ pc[p] \in Evicting => req[p] \in Eviction
  /\ pc[p] = "runlock" => phase[p] \in {"open", "try", "wait", "held"}
  /\ pc[p] = "running" => phase[p] = "held"
  /\ pc[p] \in {"runlock", "running"} => req[p] = Shared(p)

\* How far the entry that a process has in memory is.
DataFits(step, data, k) ==
  /\ step = "submit" => data \in Drafts /\ data.key = k
  /\ step \in Marked \cup Built => data \in Entries /\ data.key = k
  /\ step \in Marked => data.state = "pending" /\ data.build = None
  /\ step \in Built => data.state = "complete"
  /\ step = "build" => data.build = None
  /\ step = "recordbuild" => data.build # None
DataAt(p) == DataFits(pc[p], loc[p].data, Key(p))

ControlInv == \A p \in Procs : ControlAt(p) /\ DataAt(p)

\* The inductive invariant of every command.
CacheInv == TypeOK /\ PhaseInv /\ InodeMutex /\ ControlInv

----------------------------------------------------------------------------
\* What a step of p may do to the locks: nothing to p's, enter, open, try or
\* get a lock, or leave it.  Directories and lock files may go at any time.
LockKept == UNCHANGED <<phase, req, fd>>
LockLeft(p) ==
  /\ phase' = [phase EXCEPT ![p] = "none"]
  /\ req' = [req EXCEPT ![p] = None]
  /\ fd' = [fd EXCEPT ![p] = None]
PathsTyped ==
  /\ dir' \in [Slots -> BOOLEAN]
  /\ lockFile' \in [Slots -> Inodes \cup {None}]
LockEffect(p) ==
  \/ LockKept /\ PathsTyped
  \/ \E r \in Requests : Enter(p, r)
  \/ Open(p) \/ Try(p) \/ Acquire(p)
  \/ LockLeft(p) /\ PathsTyped

\* A step that does to the locks what LockEffect allows keeps them exclusive.
LEMMA KernelStep ==
  ASSUME KernelInv, NEW p \in Procs, LockEffect(p)
  PROVE  KernelInv'
<1>1. CASE LockKept /\ PathsTyped
  BY <1>1 DEF LockKept, PathsTyped, KernelInv, LockTypeOK, PhaseInv, InodeMutex
<1>2. CASE LockLeft(p) /\ PathsTyped
  BY <1>2 DEF LockLeft, PathsTyped, KernelInv, LockTypeOK, PhaseInv, InodeMutex,
              Phases, Opened
<1>3. CASE LockNext
  BY <1>3, TypeStep, InodeMutexStep DEF KernelInv
<1>4. QED
  BY <1>1, <1>2, <1>3 DEF LockEffect, LockNext

----------------------------------------------------------------------------
\* The parts of TypeOK that are not about locks.
DiskTypes ==
  /\ entry \in [Slots -> Entries \cup {None}]
  /\ project \in [Slots -> Projects]
  /\ target \in [Slots -> Jobs \cup {None}]
  /\ staging \in [Slots -> SUBSET Procs]
ProcTypes ==
  /\ pc \in [Procs -> Steps]
  /\ cmd \in [Procs -> Commands \cup {None}]
  /\ loc \in [Procs -> Locals]
  /\ exit \in [Procs -> Statuses]
OtherTypes ==
  /\ job \in [Jobs -> [status : JobStatuses, key : Keys \cup {None}]]
  /\ started \in 0..MaxCommands
  /\ clock \in Times

\* A step of p leaves the other processes where they are.
OthersStay(p) ==
  \A q \in Procs \ {p} :
    pc'[q] = pc[q] /\ cmd'[q] = cmd[q] /\ loc'[q] = loc[q] /\ exit'[q] = exit[q]

\* What is proved of each step of p.
StepOf(p) ==
  /\ LockEffect(p)
  /\ ProcTypes' /\ OthersStay(p)
  /\ DiskTypes' /\ OtherTypes'
  /\ ControlAt(p)' /\ DataAt(p)'

\* The type invariant, in the parts that the steps disturb.
LEMMA Parts == TypeOK <=> LockTypeOK /\ DiskTypes /\ ProcTypes /\ OtherTypes
  BY DEF TypeOK, DiskTypes, ProcTypes, OtherTypes

\* A process at work has a command on an entry.
LEMMA CommandTyped ==
  ASSUME ControlInv, NEW p \in Procs, pc[p] # "idle"
  PROVE  /\ cmd[p] \in Commands /\ cmd[p] # None
         /\ Slot(p) \in Slots /\ Key(p) \in Keys
         /\ Slot(p) \in Keys => Slot(p) = Key(p)
         /\ cmd[p].build \in BOOLEAN /\ cmd[p].runs \in BOOLEAN
         /\ cmd[p].runs => cmd[p].build
  BY CommandsAssumption, AbsentAssumption DEF ControlInv, ControlAt, Slot, Key

\* A command without local variables is typed.
LEMMA NoLocalsTyped == NoLocals \in Locals
  BY DEF NoLocals, Locals

----------------------------------------------------------------------------
\* The ways in which a process moves on.

\* It goes to another step of its command, perhaps with other locals.
LEMMA Moves ==
  ASSUME ProcTypes, NEW p \in Procs, NEW step \in Steps, Goto(p, step),
         UNCHANGED <<cmd, exit>>,
         loc' = loc \/ \E l \in Locals : Set(p, l)
  PROVE  /\ ProcTypes' /\ OthersStay(p)
         /\ pc'[p] = step /\ cmd' = cmd /\ exit' = exit
  BY DEF ProcTypes, OthersStay, Goto, Set

\* It ends its command.
LEMMA Exits ==
  ASSUME ProcTypes, NEW p \in Procs, NEW status \in Statuses, Exit(p, status)
  PROVE  ProcTypes' /\ OthersStay(p) /\ pc'[p] = "idle"
  BY NoLocalsTyped DEF ProcTypes, OthersStay, Exit, Goto, Set, Steps

\* A command that has ended holds nothing.
LEMMA IdleControl ==
  ASSUME NEW p \in Procs, pc'[p] = "idle", phase'[p] = "none"
  PROVE  ControlAt(p)' /\ DataAt(p)'
  BY DEF ControlAt, DataAt, DataFits, Unlocked, Holding, Marked, Built, Evicting

\* Leaving the locks alone is an effect on them.
LEMMA LockStays ==
  ASSUME LockTypeOK, UNCHANGED lockVars, NEW p \in Procs
  PROVE  LockEffect(p) /\ phase' = phase /\ req' = req
  BY DEF lockVars, LockTypeOK, LockEffect, LockKept, PathsTyped

\* `__exit__` of EntryLock leaves a process without a lock.
LEMMA Unlocks ==
  ASSUME LockTypeOK, NEW p \in Procs, Unlock(p)
  PROVE  LockEffect(p) /\ phase'[p] = "none"
<1>1. CASE phase[p] = "none"
  BY <1>1, LockStays DEF Unlock, lockVars
<1>2. CASE phase[p] # "none"
  BY <1>2 DEF Unlock, Close, LockEffect, LockLeft, PathsTyped, LockTypeOK
<1>3. QED
  BY <1>1, <1>2

\* `_write_json` of an entry leaves the locks alone.
LEMMA Writes ==
  ASSUME TypeOK, NEW p \in Procs, NEW s \in Slots, NEW e \in Entries \cup {None},
         WriteEntry(s, e), UNCHANGED <<lockFile, phase, req, fd>>
  PROVE  LockEffect(p) /\ entry' \in [Slots -> Entries \cup {None}]
  BY DEF TypeOK, LockTypeOK, WriteEntry, LockEffect, LockKept, PathsTyped

\* An entry is written, then its lock is released.
LEMMA WritesAndUnlocks ==
  ASSUME TypeOK, NEW p \in Procs, Slot(p) \in Slots, NEW e \in Entries \cup {None},
         WriteEntryAndUnlock(p, e)
  PROVE  /\ LockEffect(p) /\ phase'[p] = "none"
         /\ entry' \in [Slots -> Entries \cup {None}]
  BY DEF TypeOK, LockTypeOK, WriteEntryAndUnlock, LockEffect, LockLeft, PathsTyped

\* `_forget` removes an entry.json or puts the previous one back, then the lock
\* is released.
LEMMA Forgets ==
  ASSUME TypeOK, NEW p \in Procs, Slot(p) \in Slots, Forget(p)
  PROVE  /\ LockEffect(p) /\ phase'[p] = "none"
         /\ entry' \in [Slots -> Entries \cup {None}]
<1> DEFINE prev == loc[p].prev
<1>1. prev \in Entries \cup {None}
  BY DEF TypeOK, Locals
<1>2. CASE WriteEntryAndUnlock(p, prev)
  BY <1>1, <1>2, WritesAndUnlocks
<1>3. CASE entry' = [entry EXCEPT ![Slot(p)] = None] /\ Unlock(p)
  BY <1>3, Unlocks DEF TypeOK
<1>4. QED
  BY <1>2, <1>3 DEF Forget

----------------------------------------------------------------------------
\* Up to the lock.

\* `Start` preserves what the invariant says of its process.
LEMMA StartStep ==
  ASSUME CacheInv, NEW p \in Procs, Start(p)
  PROVE  StepOf(p)
<1> USE DEF CacheInv
<1>1. PICK c \in Commands :
        /\ cmd' = [cmd EXCEPT ![p] = c]
        /\ Goto(p, IF InCache(c.slot) THEN "locate" ELSE "directory")
  BY DEF Start
<1>2. c.slot \in Keys \/ c.slot \in Dirs
  BY CommandsAssumption, SlotsAssumption
<1>3. LockEffect(p) /\ phase' = phase /\ req' = req
  BY LockStays DEF TypeOK, Start
<1>4. ProcTypes' /\ OthersStay(p)
  BY <1>1 DEF Start, TypeOK, ProcTypes, OthersStay, Goto, Steps, Statuses
<1>5. DiskTypes' /\ OtherTypes'
  BY BoundsAssumption DEF Start, TypeOK, DiskTypes, OtherTypes, diskVars
<1>6. phase[p] = "none"
  BY DEF Start, ControlInv, ControlAt, Unlocked
<1>7. ControlAt(p)' /\ DataAt(p)'
  BY <1>1, <1>2, <1>3, <1>6
     DEF Start, TypeOK, ControlAt, DataAt, DataFits, Slot, Goto, InCache, Unlocked, Holding,
         Marked, Built, Evicting
<1>8. QED
  BY <1>3, <1>4, <1>5, <1>7 DEF StepOf

\* `CheckDirectory` preserves what the invariant says of its process.
LEMMA CheckDirectoryStep ==
  ASSUME CacheInv, NEW p \in Procs, CheckDirectory(p)
  PROVE  StepOf(p)
<1> USE DEF CacheInv
<1> DEFINE s == Slot(p)
<1>1. s \in Slots /\ cmd[p] \in Commands /\ exit[p] = "none" /\ phase[p] = "none"
  BY CommandTyped DEF CheckDirectory, ControlInv, ControlAt, Unlocked
<1>2. DiskTypes' /\ OtherTypes'
  <2>1. OtherTypes'
    BY DEF CheckDirectory, TypeOK, OtherTypes
  <2>2. CASE UNCHANGED diskVars
    BY <2>1, <2>2 DEF TypeOK, DiskTypes, diskVars
  <2>3. CASE /\ entry' = [entry EXCEPT ![s] = None]
             /\ project' = [project EXCEPT ![s] = NoProject]
             /\ target' = [target EXCEPT ![s] = None]
             /\ UNCHANGED staging
    <3>1. NoProject \in Projects
      BY DEF NoProject, Projects
    <3>2. QED
      BY <1>1, <2>1, <2>3, <3>1 DEF TypeOK, DiskTypes
  <2>4. QED
    BY <2>2, <2>3 DEF CheckDirectory
<1>3. CASE Exit(p, "CANT_CREATE") /\ UNCHANGED lockVars
  <2>1. LockEffect(p) /\ phase' = phase
    BY <1>3, LockStays DEF TypeOK
  <2>2. ProcTypes' /\ OthersStay(p) /\ pc'[p] = "idle"
    BY <1>3, Exits, Parts DEF Statuses
  <2>3. QED
    BY <1>1, <1>2, <2>1, <2>2, IdleControl DEF StepOf
<1>4. CASE Goto(p, "locate") /\ UNCHANGED <<cmd, loc, exit, phase, req, fd>>
  <2>1. LockEffect(p)
    BY <1>1, <1>4 DEF CheckDirectory, LockEffect, LockKept, PathsTyped, TypeOK,
                      LockTypeOK, lockVars, Exit
  <2>2. ProcTypes' /\ OthersStay(p) /\ pc'[p] = "locate" /\ cmd' = cmd /\ exit' = exit
    BY <1>4, Moves, Parts DEF Steps
  <2>3. ControlAt(p)' /\ DataAt(p)'
    BY <1>1, <1>4, <2>2 DEF ControlAt, DataAt, DataFits, Unlocked, Holding, Marked, Built, Evicting
  <2>4. QED
    BY <1>2, <2>1, <2>2, <2>3 DEF StepOf
<1>5. QED
  BY <1>3, <1>4 DEF CheckDirectory, lockVars

\* `Locate` preserves what the invariant says of its process.
LEMMA LocateStep ==
  ASSUME CacheInv, NEW p \in Procs, Locate(p)
  PROVE  StepOf(p)
<1> USE DEF CacheInv
<1>1. Slot(p) \in Slots /\ cmd[p] \in Commands /\ exit[p] = "none" /\ phase[p] = "none"
  BY CommandTyped DEF Locate, ControlInv, ControlAt, Unlocked
<1>2. DiskTypes' /\ OtherTypes'
  BY DEF Locate, TypeOK, DiskTypes, OtherTypes, diskVars
<1>3. CASE Exit(p, "CONFIG") /\ UNCHANGED lockVars
  <2>1. LockEffect(p) /\ phase' = phase
    BY <1>3, LockStays DEF TypeOK
  <2>2. ProcTypes' /\ OthersStay(p) /\ pc'[p] = "idle"
    BY <1>3, Exits, Parts DEF Statuses
  <2>3. QED
    BY <1>1, <1>2, <2>1, <2>2, IdleControl DEF StepOf
<1>4. CASE /\ Enter(p, Exclusive(p)) /\ Goto(p, "lock")
           /\ UNCHANGED <<cmd, loc, exit>>
  <2>1. Exclusive(p) \in Requests
    BY <1>1 DEF Exclusive, Requests
  <2>2. ProcTypes' /\ OthersStay(p) /\ pc'[p] = "lock" /\ cmd' = cmd /\ exit' = exit
    BY <1>4, Moves, Parts DEF Steps
  <2>3. phase'[p] = "open" /\ req'[p] = Exclusive(p)
    BY <1>4 DEF Enter, TypeOK, LockTypeOK
  <2>4. ControlAt(p)' /\ DataAt(p)'
    BY <1>1, <2>2, <2>3
       DEF ControlAt, DataAt, DataFits, Unlocked, Holding, Marked, Built, Evicting, Exclusive, Slot
  <2>5. QED
    BY <1>2, <1>4, <2>1, <2>2, <2>4 DEF StepOf, LockEffect
<1>5. QED
  BY <1>3, <1>4 DEF Locate, Exclusive

\* `Locking` preserves what the invariant says of its process.
LEMMA LockingStep ==
  ASSUME CacheInv, NEW p \in Procs, Locking(p)
  PROVE  StepOf(p)
<1> USE DEF CacheInv
<1>1. LockEffect(p)
  BY DEF Locking, LockEffect
<1>2. ProcTypes' /\ OthersStay(p) /\ DiskTypes' /\ OtherTypes'
  BY DEF Locking, TypeOK, ProcTypes, OthersStay, DiskTypes, OtherTypes, procVars, diskVars
<1>3. /\ req' = req /\ phase'[p] \in {"try", "wait", "held", "missed"}
      /\ phase'[p] = "wait" => phase[p] = "wait" \/ req[p].blocking
      /\ phase'[p] = "missed" => ~req[p].blocking
  BY DEF Locking, Open, Try, Acquire, TypeOK, LockTypeOK
<1>4. pc' = pc /\ cmd' = cmd /\ loc' = loc /\ exit' = exit
  BY DEF Locking, procVars
<1>5. pc[p] \in {"lock", "evictlock", "runlock"} /\ ControlAt(p)
  BY DEF Locking, ControlInv
<1>6. ControlAt(p)'
  <2>1. CASE pc[p] = "evictlock"
    BY <1>3, <1>4, <1>5, <2>1
       DEF ControlAt, Unlocked, Holding, Marked, Built, Evicting, Eviction
  <2>2. CASE pc[p] = "lock"
    BY <1>3, <1>4, <1>5, <2>2
       DEF ControlAt, Unlocked, Holding, Marked, Built, Evicting, Exclusive, Slot
  <2>3. CASE pc[p] = "runlock"
    BY <1>3, <1>4, <1>5, <2>3
       DEF ControlAt, Unlocked, Holding, Marked, Built, Evicting, Shared, Slot
  <2>4. QED
    BY <1>5, <2>1, <2>2, <2>3
<1>7. DataAt(p)'
  BY <1>4, <1>5 DEF DataAt, DataFits, Marked, Built
<1>8. QED
  BY <1>1, <1>2, <1>6, <1>7 DEF StepOf

\* `LockingFails` preserves what the invariant says of its process.
LEMMA LockingFailsStep ==
  ASSUME CacheInv, NEW p \in Procs, LockingFails(p)
  PROVE  StepOf(p)
<1> USE DEF CacheInv
<1>1. LockLeft(p) /\ PathsTyped
  <2>1. fd[p] = None
    BY DEF LockingFails, OpenFails, PhaseInv, Opened
  <2>2. [fd EXCEPT ![p] = None] = fd
    BY <2>1 DEF TypeOK, LockTypeOK
  <2>3. QED
    BY <2>2 DEF LockingFails, OpenFails, LockLeft, PathsTyped, TypeOK, LockTypeOK
<1>2. LockEffect(p) /\ phase'[p] = "none"
  BY <1>1 DEF LockEffect, LockLeft, TypeOK, LockTypeOK
<1>3. ProcTypes' /\ OthersStay(p) /\ pc'[p] = "idle"
  BY Exits, Parts DEF LockingFails, Statuses
<1>4. DiskTypes' /\ OtherTypes'
  BY DEF LockingFails, TypeOK, DiskTypes, OtherTypes, diskVars
<1>5. QED
  BY <1>2, <1>3, <1>4, IdleControl DEF StepOf

----------------------------------------------------------------------------
\* _obtain.

\* A process that ends its command and leaves its lock, if any.
LEMMA Ends ==
  ASSUME CacheInv, NEW p \in Procs, NEW status \in Statuses, Exit(p, status),
         LockEffect(p), phase'[p] = "none", DiskTypes', OtherTypes'
  PROVE  StepOf(p)
  BY Exits, Parts, IdleControl DEF CacheInv, StepOf

\* A process inside the lock at work on data.
LEMMA Inside ==
  ASSUME CacheInv, NEW p \in Procs,
         pc[p] \in Holding \/ (pc[p] = "lock" /\ phase[p] = "held")
  PROVE  /\ Slot(p) \in Slots /\ Key(p) \in Keys
         /\ cmd[p] \in Commands /\ exit[p] = "none"
         /\ phase[p] = "held" /\ req[p] = Exclusive(p) /\ loc[p] \in Locals
  BY CommandTyped DEF CacheInv, ControlInv, ControlAt, Holding, Marked, Built, TypeOK

\* A record that a command reads or drafts is one.
LEMMA DataTyped ==
  ASSUME NEW l \in Locals, NEW d \in Entries \cup Drafts \cup {None}
  PROVE  [l EXCEPT !.data = d] \in Locals /\ [l EXCEPT !.data = d].data = d
  BY DEF Locals

\* A process that goes on inside the lock.
LEMMA GoesOn ==
  ASSUME CacheInv, NEW p \in Procs,
         pc[p] \in Holding \/ (pc[p] = "lock" /\ phase[p] = "held"),
         NEW step \in Holding, Goto(p, step),
         NEW l \in Locals, Set(p, l) \/ (loc' = loc /\ l = loc[p]),
         DataFits(step, l.data, Key(p)),
         LockEffect(p), UNCHANGED <<phase, req, cmd, exit>>,
         DiskTypes', OtherTypes'
  PROVE  StepOf(p)
<1>1. step \in Steps
  BY DEF Holding, Marked, Built, Steps
<1>2. ProcTypes' /\ OthersStay(p) /\ pc'[p] = step
  BY <1>1, Moves, Parts DEF CacheInv
<1>3. ControlAt(p)'
  BY <1>2, Inside
     DEF ControlAt, Unlocked, Holding, Marked, Built, Evicting, Exclusive, Slot
<1>4. loc'[p] = l /\ Key(p)' = Key(p)
  BY DEF Set, Key, CacheInv, TypeOK
<1>5. DataAt(p)'
  BY <1>2, <1>4 DEF DataAt
<1>6. QED
  BY <1>2, <1>3, <1>5 DEF StepOf

\* `Reuse` preserves what the invariant says of its process.
LEMMA ReuseStep ==
  ASSUME CacheInv, NEW p \in Procs, Reuse(p)
  PROVE  StepOf(p)
<1> DEFINE s == Slot(p)
           e == [entry[s] EXCEPT !.used = clock]
           l == [loc[p] EXCEPT !.data = e]
<1>1. s \in Slots /\ loc[p] \in Locals
  BY Inside DEF Reuse
<1>2. e \in Entries /\ e.key = Key(p) /\ e.state = "complete"
  BY <1>1 DEF CacheInv, TypeOK, Reuse, ValidComplete, Entries
<1>3. /\ WriteEntry(s, e) /\ Goto(p, "built") /\ Set(p, l)
      /\ UNCHANGED <<lockFile, phase, req, fd, project, target, staging, cmd, exit,
                     job, started, clock>>
  BY DEF Reuse
<1> HIDE DEF e
<1>4. LockEffect(p) /\ entry' \in [Slots -> Entries \cup {None}]
  BY <1>1, <1>2, <1>3, Writes DEF CacheInv
<1>5. DiskTypes' /\ OtherTypes'
  BY <1>3, <1>4 DEF CacheInv, TypeOK, DiskTypes, OtherTypes
<1>6. l \in Locals /\ l.data = e
  BY <1>1, <1>2, DataTyped
<1> HIDE DEF l
<1>7. DataFits("built", l.data, Key(p)) /\ "built" \in Holding
  BY <1>2, <1>6 DEF DataFits, Holding, Marked, Built
<1>8. QED
  BY <1>3, <1>4, <1>5, <1>6, <1>7, GoesOn DEF Reuse

\* `Translate` preserves what the invariant says of its process.
LEMMA TranslateStep ==
  ASSUME CacheInv, NEW p \in Procs, Translate(p)
  PROVE  StepOf(p)
<1> DEFINE s == Slot(p)
           draft == [key |-> Key(p), state |-> "new", job |-> None,
                     used |-> clock, build |-> None]
           pending == [draft EXCEPT !.state = "pending", !.job = entry[s].job]
           resumed == [loc[p] EXCEPT !.data = pending, !.prev = entry[s], !.resumed = TRUE]
           new == [loc[p] EXCEPT !.data = draft, !.prev = entry[s]]
<1>1. s \in Slots /\ loc[p] \in Locals /\ Key(p) \in Keys
  BY Inside DEF Translate
<1>2. DiskTypes' /\ OtherTypes'
  BY DEF CacheInv, TypeOK, DiskTypes, OtherTypes, Translate, diskVars
<1>3. draft \in Drafts /\ entry[s] \in Entries \cup {None} /\ draft.key = Key(p)
  BY <1>1 DEF CacheInv, TypeOK, Drafts
<1>4. CASE Exit(p, "CONFIG") /\ Unlock(p)
  BY <1>2, <1>4, Unlocks, Ends DEF Statuses, CacheInv, TypeOK
<1>5. CASE /\ Resumable(p)
           /\ Set(p, resumed) /\ Goto(p, "record") /\ UNCHANGED <<cmd, exit, lockVars>>
  <2>1. pending \in Entries /\ pending.key = Key(p) /\ pending.state = "pending"
        /\ pending.build = None
    BY <1>1, <1>3, <1>5 DEF Resumable, Entries, CacheInv, TypeOK
  <2> HIDE DEF pending
  <2>2. resumed \in Locals /\ resumed.data = pending
    BY <1>1, <1>3, <2>1 DEF Locals
  <2> HIDE DEF resumed
  <2>3. DataFits("record", resumed.data, Key(p)) /\ "record" \in Holding
    BY <2>1, <2>2 DEF DataFits, Holding, Marked, Built
  <2>4. LockEffect(p) /\ UNCHANGED <<phase, req>>
    BY <1>5, LockStays DEF CacheInv, TypeOK
  <2>5. QED
    BY <1>2, <1>5, <2>2, <2>3, <2>4, GoesOn DEF Translate
<1>6. CASE Set(p, new) /\ Goto(p, "submit") /\ UNCHANGED <<cmd, exit, lockVars>>
  <2> HIDE DEF draft
  <2>1. new \in Locals /\ new.data = draft
    BY <1>1, <1>3 DEF Locals
  <2> HIDE DEF new
  <2>2. DataFits("submit", new.data, Key(p)) /\ "submit" \in Holding
    BY <1>3, <2>1 DEF DataFits, Holding, Marked, Built
  <2>3. LockEffect(p) /\ UNCHANGED <<phase, req>>
    BY <1>6, LockStays DEF CacheInv, TypeOK
  <2>4. QED
    BY <1>2, <1>6, <2>1, <2>2, <2>3, GoesOn DEF Translate
<1>7. QED
  BY <1>4, <1>5, <1>6 DEF Translate

\* The record of a job that the service has just accepted.
LEMMA SubmittedTyped ==
  ASSUME NEW l \in Locals, NEW j \in Jobs, l.data \in Drafts
  PROVE  LET m == [l EXCEPT !.data.state = "pending", !.data.job = j, !.resumed = FALSE]
         IN  /\ m \in Locals /\ m.data \in Entries
             /\ m.data.key = l.data.key /\ m.data.state = "pending"
             /\ m.data.job = j /\ m.data.build = None
  BY DEF Locals, Drafts, Entries

\* The service knows the new job.
LEMMA NewJobTyped ==
  ASSUME TypeOK, NEW k \in Keys, NEW j \in Jobs, NewJob(k, j)
  PROVE  job' \in [Jobs -> [status : JobStatuses, key : Keys \cup {None}]]
  BY DEF TypeOK, NewJob, JobStatuses

\* `Submit` preserves what the invariant says of its process.
LEMMA SubmitStep ==
  ASSUME CacheInv, NEW p \in Procs, Submit(p)
  PROVE  StepOf(p)
<1>1. /\ Key(p) \in Keys /\ loc[p] \in Locals
      /\ loc[p].data \in Drafts /\ loc[p].data.key = Key(p)
  BY Inside DEF Submit, Holding, CacheInv, ControlInv, DataAt, DataFits
<1>2. PICK j \in Jobs :
        /\ NewJob(Key(p), j)
        /\ Set(p, [loc[p] EXCEPT !.data.state = "pending", !.data.job = j,
                                 !.resumed = FALSE])
  BY DEF Submit
<1> DEFINE l == [loc[p] EXCEPT !.data.state = "pending", !.data.job = j, !.resumed = FALSE]
<1>3. /\ l \in Locals /\ l.data \in Entries /\ l.data.key = Key(p)
      /\ l.data.state = "pending" /\ l.data.build = None
  BY <1>1, SubmittedTyped
<1> HIDE DEF l
<1>4. DataFits("record", l.data, Key(p)) /\ "record" \in Holding
  BY <1>3 DEF DataFits, Holding, Marked, Built
<1>5. DiskTypes' /\ OtherTypes'
  BY <1>1, <1>2, NewJobTyped
     DEF Submit, CacheInv, TypeOK, DiskTypes, OtherTypes, diskVars
<1>6. LockEffect(p) /\ UNCHANGED <<phase, req>>
  BY LockStays DEF Submit, CacheInv, TypeOK
<1>7. Set(p, l) /\ pc[p] \in Holding
  BY <1>2 DEF l, Submit, Holding
<1>8. QED
  BY <1>3, <1>4, <1>5, <1>6, <1>7, GoesOn DEF Submit

\* `SubmitFails` preserves what the invariant says of its process.
LEMMA SubmitFailsStep ==
  ASSUME CacheInv, NEW p \in Procs, SubmitFails(p)
  PROVE  StepOf(p)
<1>1. Key(p) \in Keys
  BY Inside DEF SubmitFails, Holding
<1>2. PICK status \in {"UNAVAILABLE", "IO"} : Exit(p, status)
  BY DEF SubmitFails
<1>3. job' = job \/ \E j \in Jobs : NewJob(Key(p), j)
  BY DEF SubmitFails
<1>4. DiskTypes' /\ OtherTypes'
  BY <1>1, <1>3, NewJobTyped
     DEF SubmitFails, CacheInv, TypeOK, DiskTypes, OtherTypes, diskVars
<1>5. LockEffect(p) /\ phase'[p] = "none"
  BY Unlocks DEF SubmitFails, CacheInv, TypeOK
<1>6. QED
  BY <1>2, <1>4, <1>5, Ends DEF Statuses

\* `Record` preserves what the invariant says of its process.
LEMMA RecordStep ==
  ASSUME CacheInv, NEW p \in Procs, Record(p)
  PROVE  StepOf(p)
<1>1. Slot(p) \in Slots /\ loc[p] \in Locals /\ pc[p] \in Holding
  BY Inside DEF Record, Holding, Marked
<1>2. DataFits("record", loc[p].data, Key(p))
  BY DEF Record, CacheInv, ControlInv, DataAt
<1>3. loc[p].data \in Entries /\ DataFits("poll", loc[p].data, Key(p))
      /\ "poll" \in Holding
  BY <1>2 DEF DataFits, Holding, Marked, Built
<1>4. LockEffect(p) /\ entry' \in [Slots -> Entries \cup {None}]
  BY <1>1, <1>3, Writes DEF CacheInv, Record
<1>5. DiskTypes' /\ OtherTypes'
  BY <1>4 DEF Record, CacheInv, TypeOK, DiskTypes, OtherTypes
<1>6. QED
  BY <1>1, <1>3, <1>4, <1>5, GoesOn DEF Record

\* `StopWaiting` preserves what the invariant says of its process.
LEMMA StopWaitingStep ==
  ASSUME CacheInv, NEW p \in Procs, StopWaiting(p)
  PROVE  StepOf(p)
<1>1. DiskTypes' /\ OtherTypes'
  BY DEF StopWaiting, CacheInv, TypeOK, DiskTypes, OtherTypes, diskVars
<1>2. LockEffect(p) /\ phase'[p] = "none"
  BY Unlocks DEF StopWaiting, CacheInv, TypeOK
<1>3. QED
  BY <1>1, <1>2, Ends DEF StopWaiting, Statuses

\* `Fetch` preserves what the invariant says of its process.
LEMMA FetchStep ==
  ASSUME CacheInv, NEW p \in Procs, Fetch(p)
  PROVE  StepOf(p)
<1>1. DiskTypes' /\ OtherTypes'
  BY DEF Fetch, CacheInv, TypeOK, DiskTypes, OtherTypes, diskVars
<1>2. LockEffect(p) /\ UNCHANGED <<phase, req>>
  BY LockStays DEF Fetch, CacheInv, TypeOK
<1>3. loc[p] \in Locals /\ pc[p] \in Holding
  BY DEF Fetch, Holding, Marked, CacheInv, TypeOK
<1>4. DataFits("install", loc[p].data, Key(p)) /\ "install" \in Holding
  BY DEF Fetch, CacheInv, ControlInv, DataAt, DataFits, Holding, Marked, Built
<1>5. QED
  BY <1>1, <1>2, <1>3, <1>4, GoesOn DEF Fetch

\* `PollFails` preserves what the invariant says of its process.
LEMMA PollFailsStep ==
  ASSUME CacheInv, NEW p \in Procs, PollFails(p)
  PROVE  StepOf(p)
<1>1. PICK status \in {"DATA", "UNAVAILABLE"} : Exit(p, status)
  BY DEF PollFails
<1>2. Slot(p) \in Slots
  BY Inside DEF PollFails, Holding, Marked
<1>3. LockEffect(p) /\ phase'[p] = "none" /\ entry' \in [Slots -> Entries \cup {None}]
  BY <1>2, Forgets DEF PollFails, CacheInv
<1>4. DiskTypes' /\ OtherTypes'
  BY <1>3 DEF PollFails, CacheInv, TypeOK, DiskTypes, OtherTypes
<1>5. QED
  BY <1>1, <1>3, <1>4, Ends DEF Statuses

\* `Resubmit` preserves what the invariant says of its process.
LEMMA ResubmitStep ==
  ASSUME CacheInv, NEW p \in Procs, Resubmit(p)
  PROVE  StepOf(p)
<1> DEFINE l == [loc[p] EXCEPT !.data.job = None, !.data.state = "new"]
<1>1. DataFits("poll", loc[p].data, Key(p)) /\ loc[p] \in Locals /\ pc[p] \in Holding
  BY DEF Resubmit, Holding, Marked, CacheInv, TypeOK, ControlInv, DataAt
<1>2. loc[p].data \in Entries /\ loc[p].data.key = Key(p) /\ loc[p].data.build = None
  BY <1>1 DEF DataFits, Marked
<1>3. l \in Locals /\ l.data \in Drafts /\ l.data.key = Key(p)
  BY <1>1, <1>2 DEF Locals, Entries, Drafts
<1>4. Set(p, l)
  BY DEF Resubmit
<1> HIDE DEF l
<1>5. DataFits("submit", l.data, Key(p)) /\ "submit" \in Holding
  BY <1>3 DEF DataFits, Holding, Marked, Built
<1>6. DiskTypes' /\ OtherTypes'
  BY DEF Resubmit, CacheInv, TypeOK, DiskTypes, OtherTypes, diskVars
<1>7. LockEffect(p) /\ UNCHANGED <<phase, req>>
  BY LockStays DEF Resubmit, CacheInv, TypeOK
<1>8. QED
  BY <1>1, <1>3, <1>4, <1>5, <1>6, <1>7, GoesOn DEF Resubmit

----------------------------------------------------------------------------
\* install_archive and _ensure_built.

\* `Unpack` preserves what the invariant says of its process.
LEMMA UnpackStep ==
  ASSUME CacheInv, NEW p \in Procs, Unpack(p)
  PROVE  StepOf(p)
<1> DEFINE s == Slot(p)
<1>1. s \in Slots /\ loc[p] \in Locals /\ pc[p] \in Holding
  BY Inside DEF Unpack, Holding, Marked
<1>2. OtherTypes'
  BY DEF Unpack, CacheInv, TypeOK, OtherTypes
<1>3. CASE /\ staging' = [staging EXCEPT ![s] = {p}]
           /\ dir' = [dir EXCEPT ![s] = TRUE] /\ Goto(p, "clear")
           /\ UNCHANGED <<entry, lockFile, phase, req, fd, cmd, loc, exit>>
  <2>1. DiskTypes'
    BY <1>1, <1>3 DEF Unpack, CacheInv, TypeOK, DiskTypes
  <2>2. LockEffect(p)
    BY <1>1, <1>3 DEF CacheInv, TypeOK, LockTypeOK, LockEffect, LockKept, PathsTyped
  <2>3. DataFits("clear", loc[p].data, Key(p)) /\ "clear" \in Holding
    BY DEF Unpack, CacheInv, ControlInv, DataAt, DataFits, Holding, Marked, Built
  <2>4. QED
    BY <1>1, <1>2, <1>3, <2>1, <2>2, <2>3, GoesOn DEF Unpack
<1>4. CASE /\ staging' = [staging EXCEPT ![s] = {}]
           /\ Exit(p, "IO") /\ Forget(p)
  <2>1. LockEffect(p) /\ phase'[p] = "none" /\ entry' \in [Slots -> Entries \cup {None}]
    BY <1>1, <1>4, Forgets DEF CacheInv
  <2>2. DiskTypes'
    BY <1>1, <1>4, <2>1 DEF Unpack, CacheInv, TypeOK, DiskTypes
  <2>3. QED
    BY <1>2, <1>4, <2>1, <2>2, Ends DEF Statuses
<1>5. QED
  BY <1>3, <1>4 DEF Unpack

\* `Clear` preserves what the invariant says of its process.
LEMMA ClearStep ==
  ASSUME CacheInv, NEW p \in Procs, Clear(p)
  PROVE  StepOf(p)
<1>1. Slot(p) \in Slots /\ loc[p] \in Locals /\ pc[p] \in Holding
  BY Inside DEF Clear, Holding, Marked
<1>2. NoProject \in Projects
  BY DEF NoProject, Projects
<1>3. DiskTypes' /\ OtherTypes'
  BY <1>1, <1>2 DEF Clear, CacheInv, TypeOK, DiskTypes, OtherTypes
<1>4. LockEffect(p) /\ UNCHANGED <<phase, req>>
  BY LockStays DEF Clear, CacheInv, TypeOK
<1>5. DataFits("place", loc[p].data, Key(p)) /\ "place" \in Holding
  BY DEF Clear, CacheInv, ControlInv, DataAt, DataFits, Holding, Marked, Built
<1>6. QED
  BY <1>1, <1>3, <1>4, <1>5, GoesOn DEF Clear

\* `Place` preserves what the invariant says of its process.
LEMMA PlaceStep ==
  ASSUME CacheInv, NEW p \in Procs, Place(p)
  PROVE  StepOf(p)
<1> DEFINE s == Slot(p)
           j == loc[p].data.job
           done == [manifest |-> j, files |-> j]
<1>1. s \in Slots /\ loc[p] \in Locals /\ pc[p] \in Holding
  BY Inside DEF Place, Holding, Marked
<1>2. DataFits("place", loc[p].data, Key(p))
  BY DEF Place, CacheInv, ControlInv, DataAt
<1>3. j \in Jobs
  BY <1>2 DEF DataFits, Marked, Entries
<1>4. project' \in [Slots -> Projects]
  <2>1. CASE project' = [project EXCEPT ![s] = done]
    BY <1>1, <1>3, <2>1 DEF CacheInv, TypeOK, Projects
  <2>2. ASSUME NEW part \in {"manifest", "files"}, project' = [project EXCEPT ![s][part] = j]
        PROVE  project' \in [Slots -> Projects]
    <3>1. CASE part = "manifest"
      BY <1>1, <1>3, <2>2, <3>1 DEF CacheInv, TypeOK, Projects
    <3>2. CASE part = "files"
      BY <1>1, <1>3, <2>2, <3>2 DEF CacheInv, TypeOK, Projects
    <3>3. QED
      BY <3>1, <3>2
  <2>3. QED
    BY <2>1, <2>2 DEF Place
<1>5. staging' \in [Slots -> SUBSET Procs]
  BY <1>1 DEF Place, CacheInv, TypeOK
<1>6. DiskTypes' /\ OtherTypes'
  BY <1>4, <1>5 DEF Place, CacheInv, TypeOK, DiskTypes, OtherTypes
<1>7. LockEffect(p) /\ UNCHANGED <<phase, req>>
  BY LockStays DEF Place, CacheInv, TypeOK
<1>8. CASE Goto(p, "complete")
  <2>1. DataFits("complete", loc[p].data, Key(p)) /\ "complete" \in Holding
    BY <1>2 DEF DataFits, Holding, Marked, Built
  <2>2. QED
    BY <1>1, <1>6, <1>7, <1>8, <2>1, GoesOn DEF Place
<1>9. CASE UNCHANGED pc
  <2>1. Goto(p, "place")
    BY <1>9 DEF Goto, Place, CacheInv, TypeOK
  <2>2. "place" \in Holding
    BY DEF Holding, Marked
  <2>3. QED
    BY <1>1, <1>2, <1>6, <1>7, <2>1, <2>2, GoesOn DEF Place
<1>10. QED
  BY <1>8, <1>9 DEF Place

\* `PlaceFails` preserves what the invariant says of its process.
LEMMA PlaceFailsStep ==
  ASSUME CacheInv, NEW p \in Procs, PlaceFails(p)
  PROVE  StepOf(p)
<1>1. Slot(p) \in Slots
  BY Inside DEF PlaceFails, Holding, Marked
<1>2. DiskTypes' /\ OtherTypes'
  BY <1>1 DEF PlaceFails, CacheInv, TypeOK, DiskTypes, OtherTypes
<1>3. LockEffect(p) /\ phase'[p] = "none"
  BY Unlocks DEF PlaceFails, CacheInv, TypeOK
<1>4. QED
  BY <1>2, <1>3, Ends DEF PlaceFails, Statuses

\* `Complete` preserves what the invariant says of its process.
LEMMA CompleteStep ==
  ASSUME CacheInv, NEW p \in Procs, Complete(p)
  PROVE  StepOf(p)
<1> DEFINE data == [loc[p].data EXCEPT !.state = "complete", !.build = None]
           l == [loc[p] EXCEPT !.data = data, !.changed = TRUE]
<1>1. Slot(p) \in Slots /\ loc[p] \in Locals /\ pc[p] \in Holding
  BY Inside DEF Complete, Holding, Marked
<1>2. loc[p].data \in Entries /\ loc[p].data.key = Key(p)
  BY DEF Complete, CacheInv, ControlInv, DataAt, DataFits, Marked
<1>3. data \in Entries /\ data.key = Key(p) /\ data.state = "complete"
  BY <1>2 DEF Entries
<1>4. WriteEntry(Slot(p), data) /\ Set(p, l)
  BY DEF Complete
<1> HIDE DEF data
<1>5. l \in Locals /\ l.data = data
  BY <1>1, <1>3 DEF Locals
<1> HIDE DEF l
<1>6. LockEffect(p) /\ entry' \in [Slots -> Entries \cup {None}]
  BY <1>1, <1>3, <1>4, Writes DEF CacheInv, Complete
<1>7. DiskTypes' /\ OtherTypes'
  BY <1>6 DEF Complete, CacheInv, TypeOK, DiskTypes, OtherTypes
<1>8. DataFits("built", l.data, Key(p)) /\ "built" \in Holding
  BY <1>3, <1>5 DEF DataFits, Holding, Marked, Built
<1>9. QED
  BY <1>1, <1>4, <1>5, <1>6, <1>7, <1>8, GoesOn DEF Complete

\* A process that is done with the lock of _obtain goes on without a lock.
LEMMA GoesOut ==
  ASSUME CacheInv, NEW p \in Procs, pc[p] # "idle",
         NEW step \in {"after", "evict", "next"}, Goto(p, step),
         loc' = loc \/ \E l \in Locals : Set(p, l), UNCHANGED <<cmd, exit>>,
         LockEffect(p), phase'[p] = "none", DiskTypes', OtherTypes'
  PROVE  StepOf(p)
<1>1. ProcTypes' /\ OthersStay(p) /\ pc'[p] = step
  BY Moves, Parts DEF CacheInv, Steps
<1>2. cmd[p] \in Commands /\ exit[p] = "none"
  BY DEF CacheInv, ControlInv, ControlAt
<1>3. ControlAt(p)' /\ DataAt(p)'
  BY <1>1, <1>2
     DEF ControlAt, DataAt, DataFits, Unlocked, Holding, Marked, Built, Evicting
<1>4. QED
  BY <1>1, <1>3 DEF StepOf

\* `UpToDate` preserves what the invariant says of its process.
LEMMA UpToDateStep ==
  ASSUME CacheInv, NEW p \in Procs, UpToDate(p)
  PROVE  StepOf(p)
<1>1. LockEffect(p) /\ phase'[p] = "none"
  BY Unlocks DEF UpToDate, CacheInv, TypeOK
<1>2. DiskTypes' /\ OtherTypes'
  BY DEF UpToDate, CacheInv, TypeOK, DiskTypes, OtherTypes, diskVars
<1>3. QED
  BY <1>1, <1>2, GoesOut DEF UpToDate

\* `StartBuild` preserves what the invariant says of its process.
LEMMA StartBuildStep ==
  ASSUME CacheInv, NEW p \in Procs, StartBuild(p)
  PROVE  StepOf(p)
<1> DEFINE l == [loc[p] EXCEPT !.changed = TRUE, !.data.build = None]
<1>1. loc[p] \in Locals /\ pc[p] \in Holding
  BY DEF StartBuild, Holding, Built, CacheInv, TypeOK
<1>2. loc[p].data \in Entries /\ loc[p].data.key = Key(p) /\ loc[p].data.state = "complete"
  BY DEF StartBuild, CacheInv, ControlInv, DataAt, DataFits, Built
<1>3. /\ l \in Locals /\ l.data \in Entries /\ l.data.key = Key(p)
      /\ l.data.state = "complete" /\ l.data.build = None
  BY <1>1, <1>2 DEF Locals, Entries
<1>4. Set(p, l)
  BY DEF StartBuild
<1> HIDE DEF l
<1>5. DataFits("build", l.data, Key(p)) /\ "build" \in Holding
  BY <1>3 DEF DataFits, Holding, Marked, Built
<1>6. DiskTypes' /\ OtherTypes'
  BY DEF StartBuild, CacheInv, TypeOK, DiskTypes, OtherTypes, diskVars
<1>7. LockEffect(p) /\ UNCHANGED <<phase, req>>
  BY LockStays DEF StartBuild, CacheInv, TypeOK
<1>8. QED
  BY <1>1, <1>3, <1>4, <1>5, <1>6, <1>7, GoesOn DEF StartBuild

\* `Build` preserves what the invariant says of its process.
LEMMA BuildStep ==
  ASSUME CacheInv, NEW p \in Procs, Build(p)
  PROVE  StepOf(p)
<1> DEFINE files == project[Slot(p)].files
           l == [loc[p] EXCEPT !.data.build = files]
<1>1. Slot(p) \in Slots /\ loc[p] \in Locals /\ pc[p] \in Holding
  BY Inside DEF Build, Holding, Built
<1>2. files \in Jobs /\ files # None
  BY <1>1 DEF Build, CacheInv, TypeOK, Projects
<1>3. loc[p].data \in Entries /\ loc[p].data.key = Key(p) /\ loc[p].data.state = "complete"
  BY DEF Build, CacheInv, ControlInv, DataAt, DataFits, Built
<1>4. DiskTypes' /\ OtherTypes'
  BY <1>1, <1>2 DEF Build, CacheInv, TypeOK, DiskTypes, OtherTypes
<1>5. Set(p, l)
  BY DEF Build
<1> HIDE DEF files
<1>6. /\ l \in Locals /\ l.data \in Entries /\ l.data.key = Key(p)
      /\ l.data.state = "complete" /\ l.data.build = files
  BY <1>1, <1>2, <1>3 DEF Locals, Entries
<1> HIDE DEF l
<1>7. DataFits("recordbuild", l.data, Key(p)) /\ "recordbuild" \in Holding
  BY <1>2, <1>6 DEF DataFits, Holding, Marked, Built
<1>8. LockEffect(p) /\ UNCHANGED <<phase, req>>
  BY LockStays DEF Build, CacheInv, TypeOK
<1>9. QED
  BY <1>1, <1>4, <1>5, <1>6, <1>7, <1>8, GoesOn DEF Build

\* `BuildFails` preserves what the invariant says of its process.
LEMMA BuildFailsStep ==
  ASSUME CacheInv, NEW p \in Procs, BuildFails(p)
  PROVE  StepOf(p)
<1>1. Slot(p) \in Slots
  BY Inside DEF BuildFails, Holding, Built
<1>2. loc[p].data \in Entries
  BY DEF BuildFails, CacheInv, ControlInv, DataAt, DataFits, Built
<1>3. PICK status \in {"BUILD", "CANT_CREATE"} : Exit(p, status)
  BY DEF BuildFails
<1>4. LockEffect(p) /\ phase'[p] = "none" /\ entry' \in [Slots -> Entries \cup {None}]
  <2>1. CASE WriteEntryAndUnlock(p, loc[p].data)
    BY <1>1, <1>2, <2>1, WritesAndUnlocks DEF CacheInv
  <2>2. CASE Unlock(p) /\ UNCHANGED entry
    BY <2>2, Unlocks DEF CacheInv, TypeOK
  <2>3. QED
    BY <2>1, <2>2 DEF BuildFails
<1>5. DiskTypes' /\ OtherTypes'
  BY <1>4 DEF BuildFails, CacheInv, TypeOK, DiskTypes, OtherTypes
<1>6. QED
  BY <1>3, <1>4, <1>5, Ends DEF Statuses

\* `RecordBuild` preserves what the invariant says of its process.
LEMMA RecordBuildStep ==
  ASSUME CacheInv, NEW p \in Procs, RecordBuild(p)
  PROVE  StepOf(p)
<1>1. Slot(p) \in Slots
  BY Inside DEF RecordBuild, Holding, Built
<1>2. loc[p].data \in Entries
  BY DEF RecordBuild, CacheInv, ControlInv, DataAt, DataFits, Built
<1>3. LockEffect(p) /\ phase'[p] = "none" /\ entry' \in [Slots -> Entries \cup {None}]
  BY <1>1, <1>2, WritesAndUnlocks DEF CacheInv, RecordBuild
<1>4. DiskTypes' /\ OtherTypes'
  BY <1>3 DEF RecordBuild, CacheInv, TypeOK, DiskTypes, OtherTypes
<1>5. QED
  BY <1>3, <1>4, GoesOut DEF RecordBuild

----------------------------------------------------------------------------
\* evict.

\* A process that has the lock of an entry to evict, or tries to get it.
LEMMA EvictingTyped ==
  ASSUME CacheInv, NEW p \in Procs, pc[p] \in Evicting
  PROVE  /\ req[p] \in Eviction /\ req[p].slot \in Keys /\ req[p].slot \in Slots
         /\ phase[p] # "none" /\ loc[p] \in Locals
         /\ cmd[p] \in Commands /\ exit[p] = "none"
  BY SlotsAssumption
     DEF CacheInv, ControlInv, ControlAt, Evicting, Eviction, TypeOK

\* A process that closes its stream has no lock.
LEMMA Closes ==
  ASSUME LockTypeOK, NEW p \in Procs, Close(p)
  PROVE  LockEffect(p) /\ phase'[p] = "none"
  BY DEF Close, LockEffect, LockLeft, PathsTyped, LockTypeOK

\* What eviction notes of an entry is a candidate.
LEMMA CandidateTyped ==
  ASSUME TypeOK, NEW k \in Keys
  PROVE  Candidate(k) \in Candidates
<1>1. k \in Slots
  BY SlotsAssumption
<1>2. CASE entry[k] = None
  BY <1>2, BoundsAssumption DEF Candidate, Candidates
<1>3. CASE entry[k] # None
  <2>1. entry[k].used \in Times
    BY <1>1, <1>3 DEF TypeOK, Entries
  <2>2. 1 + entry[k].used \in 0..(MaxClock + 1)
    BY <2>1, BoundsAssumption DEF Times
  <2>3. QED
    BY <1>3, <2>2 DEF Candidate, Candidates
<1>4. QED
  BY <1>2, <1>3

\* The lists that eviction keeps are typed.
LEMMA ListTyped ==
  ASSUME NEW l \in Locals, NEW todo \in SUBSET Candidates, NEW total \in SUBSET Keys
  PROVE  [l EXCEPT !.todo = todo, !.total = total] \in Locals
  BY DEF Locals

\* `ScanCache` preserves what the invariant says of its process.
LEMMA ScanCacheStep ==
  ASSUME CacheInv, NEW p \in Procs, ScanCache(p)
  PROVE  StepOf(p)
<1>1. LockEffect(p) /\ phase'[p] = "none"
  BY LockStays
     DEF ScanCache, CacheInv, TypeOK, ControlInv, ControlAt, Unlocked
<1>2. DiskTypes' /\ OtherTypes'
  BY DEF ScanCache, CacheInv, TypeOK, DiskTypes, OtherTypes, diskVars
<1>3. CASE Goto(p, "next") /\ UNCHANGED loc
  BY <1>1, <1>2, <1>3, GoesOut DEF ScanCache
<1>4. CASE loc[p].changed /\ InCache(Slot(p))
  <2> DEFINE cached == {k \in Keys : dir[k]}
             todo == {Candidate(k) : k \in cached}
             total == {k \in cached : project[k].files # None}
  <2>1. todo \in SUBSET Candidates /\ total \in SUBSET Keys
    BY CandidateTyped DEF CacheInv
  <2>2. Set(p, [loc[p] EXCEPT !.todo = todo, !.total = total]) /\ Goto(p, "evict")
    BY <1>4 DEF ScanCache
  <2>3. loc[p] \in Locals
    BY DEF CacheInv, TypeOK
  <2> HIDE DEF todo, total
  <2>4. [loc[p] EXCEPT !.todo = todo, !.total = total] \in Locals
    BY <2>1, <2>3, ListTyped
  <2>5. QED
    BY <1>1, <1>2, <2>2, <2>4, GoesOut DEF ScanCache
<1>5. QED
  BY <1>3, <1>4 DEF ScanCache

\* `EvictNext` preserves what the invariant says of its process.
LEMMA EvictNextStep ==
  ASSUME CacheInv, NEW p \in Procs, EvictNext(p)
  PROVE  StepOf(p)
<1>1. /\ cmd[p] \in Commands /\ exit[p] = "none" /\ phase[p] = "none"
      /\ loc[p] \in Locals
  BY DEF EvictNext, CacheInv, ControlInv, ControlAt, TypeOK, Unlocked
<1>2. DiskTypes' /\ OtherTypes'
  BY DEF EvictNext, CacheInv, TypeOK, DiskTypes, OtherTypes, diskVars
<1>3. CASE /\ Set(p, [loc[p] EXCEPT !.todo = {}, !.total = {}])
           /\ Goto(p, "next") /\ UNCHANGED lockVars
  <2>1. [loc[p] EXCEPT !.todo = {}, !.total = {}] \in Locals
    BY <1>1, ListTyped
  <2>2. LockEffect(p) /\ phase' = phase
    BY <1>3, LockStays DEF CacheInv, TypeOK
  <2>3. QED
    BY <1>1, <1>2, <1>3, <2>1, <2>2, GoesOut DEF EvictNext
<1>4. ASSUME NEW c \in loc[p].todo, Set(p, [loc[p] EXCEPT !.todo = @ \ {c}]),
             \/ UNCHANGED <<pc, lockVars>>
             \/ /\ Enter(p, [slot |-> c.key, shared |-> FALSE, blocking |-> FALSE])
                /\ Goto(p, "evictlock")
      PROVE  StepOf(p)
  <2> DEFINE l == [loc[p] EXCEPT !.todo = @ \ {c}]
             r == [slot |-> c.key, shared |-> FALSE, blocking |-> FALSE]
  <2>1. c.key \in Keys /\ c.key \in Slots
    BY <1>1, SlotsAssumption DEF Locals, Candidates
  <2>2. l \in Locals /\ Set(p, l)
    BY <1>1, <1>4 DEF Locals
  <2> HIDE DEF l
  <2>3. CASE UNCHANGED <<pc, lockVars>>
    <3>1. Goto(p, "evict")
      BY <2>3 DEF Goto, EvictNext, CacheInv, TypeOK
    <3>2. LockEffect(p) /\ phase' = phase
      BY <2>3, LockStays DEF CacheInv, TypeOK
    <3>3. QED
      BY <1>1, <1>2, <2>2, <3>1, <3>2, GoesOut DEF EvictNext
  <2>4. CASE Enter(p, r) /\ Goto(p, "evictlock")
    <3>1. ProcTypes' /\ OthersStay(p) /\ pc'[p] = "evictlock"
      BY <2>2, <2>4, Moves, Parts DEF EvictNext, CacheInv, Steps
    <3>2. r \in Requests /\ r \in Eviction
      BY <2>1 DEF Requests, Eviction
    <3>3. phase'[p] = "open" /\ req'[p] = r
      BY <2>4 DEF Enter, CacheInv, TypeOK, LockTypeOK
    <3> HIDE DEF r
    <3>4. ControlAt(p)' /\ DataAt(p)'
      BY <1>1, <3>1, <3>2, <3>3
         DEF EvictNext, ControlAt, DataAt, DataFits, Unlocked, Holding, Marked, Built,
             Evicting, Eviction
    <3>5. LockEffect(p)
      BY <2>4, <3>2 DEF LockEffect
    <3>6. QED
      BY <1>2, <3>1, <3>4, <3>5 DEF StepOf
  <2>5. QED
    BY <1>4, <2>3, <2>4
<1>5. QED
  BY <1>3, <1>4 DEF EvictNext

\* `EvictSkip` preserves what the invariant says of its process.
LEMMA EvictSkipStep ==
  ASSUME CacheInv, NEW p \in Procs, EvictSkip(p)
  PROVE  StepOf(p)
<1>1. LockEffect(p) /\ phase'[p] = "none"
  BY Closes DEF EvictSkip, CacheInv, TypeOK
<1>2. DiskTypes' /\ OtherTypes'
  BY DEF EvictSkip, CacheInv, TypeOK, DiskTypes, OtherTypes, diskVars
<1>3. QED
  BY <1>1, <1>2, GoesOut DEF EvictSkip

\* A process that goes on removing the entry it evicts.
LEMMA GoesOnRemoving ==
  ASSUME CacheInv, NEW p \in Procs, pc[p] \in Evicting, phase[p] = "held",
         pc' = [pc EXCEPT ![p] = "rmtree"], UNCHANGED <<phase, req, cmd, exit>>,
         NEW l \in Locals, Set(p, l), LockEffect(p), DiskTypes', OtherTypes'
  PROVE  StepOf(p)
<1>1. ProcTypes' /\ OthersStay(p) /\ pc'[p] = "rmtree"
  BY Moves, Parts DEF CacheInv, Steps, Goto
<1>2. ControlAt(p)' /\ DataAt(p)'
  BY <1>1, EvictingTyped
     DEF ControlAt, DataAt, DataFits, Unlocked, Holding, Marked, Built, Evicting, Eviction
<1>3. QED
  BY <1>1, <1>2 DEF StepOf

\* `EvictStart` preserves what the invariant says of its process.
LEMMA EvictStartStep ==
  ASSUME CacheInv, NEW p \in Procs, EvictStart(p)
  PROVE  StepOf(p)
<1> DEFINE s == req[p].slot
<1>1. pc[p] \in Evicting /\ s \in Slots /\ loc[p] \in Locals
  BY EvictingTyped DEF EvictStart, Evicting
<1>2. DiskTypes' /\ OtherTypes'
  BY DEF EvictStart, CacheInv, TypeOK, DiskTypes, OtherTypes, diskVars
<1>3. CASE /\ Set(p, [loc[p] EXCEPT !.names = Listing(s)])
           /\ Goto(p, "rmtree") /\ UNCHANGED lockVars
  <2>1. Listing(s) \subseteq Names
    BY DEF Listing
  <2>2. [loc[p] EXCEPT !.names = Listing(s)] \in Locals
    BY <1>1, <2>1 DEF Locals
  <2>3. LockEffect(p) /\ UNCHANGED <<phase, req>>
    BY <1>3, LockStays DEF CacheInv, TypeOK
  <2>4. QED
    BY <1>1, <1>2, <1>3, <2>2, <2>3, GoesOnRemoving DEF EvictStart, Goto
<1>4. CASE /\ Set(p, [loc[p] EXCEPT !.total = @ \ {s}])
           /\ Goto(p, "evict") /\ Close(p)
  <2>1. [loc[p] EXCEPT !.total = @ \ {s}] \in Locals
    BY <1>1 DEF Locals
  <2>2. LockEffect(p) /\ phase'[p] = "none"
    BY <1>4, Closes DEF CacheInv, TypeOK
  <2>3. QED
    BY <1>2, <1>4, <2>1, <2>2, GoesOut DEF EvictStart
<1>5. QED
  BY <1>3, <1>4 DEF EvictStart

\* `RemoveName` preserves what the invariant says of its process.
LEMMA RemoveNameStep ==
  ASSUME CacheInv, NEW p \in Procs, RemoveName(p)
  PROVE  StepOf(p)
<1> DEFINE s == req[p].slot
<1>1. pc[p] \in Evicting /\ s \in Slots /\ loc[p] \in Locals /\ phase[p] = "held"
  BY EvictingTyped DEF RemoveName, Evicting, CacheInv, ControlInv, ControlAt
<1>2. PICK n \in loc[p].names :
        /\ Set(p, [loc[p] EXCEPT !.names = @ \ {n}])
        /\ entry' = IF n = "entry" THEN [entry EXCEPT ![s] = None] ELSE entry
        /\ project' = IF n \in {"manifest", "files"}
                      THEN [project EXCEPT ![s][n] = None] ELSE project
        /\ target' = IF n = "files" THEN [target EXCEPT ![s] = None] ELSE target
        /\ staging' = IF n = "staging" THEN [staging EXCEPT ![s] = {}] ELSE staging
        /\ lockFile' = IF n = "lock" THEN [lockFile EXCEPT ![s] = None] ELSE lockFile
  BY DEF RemoveName
<1>3. [loc[p] EXCEPT !.names = @ \ {n}] \in Locals
  BY <1>1 DEF Locals
<1>4. project' \in [Slots -> Projects]
  <2>1. CASE n = "manifest"
    BY <1>1, <1>2, <2>1 DEF CacheInv, TypeOK, Projects
  <2>2. CASE n = "files"
    BY <1>1, <1>2, <2>2 DEF CacheInv, TypeOK, Projects
  <2>3. CASE n \notin {"manifest", "files"}
    BY <1>2, <2>3 DEF CacheInv, TypeOK
  <2>4. QED
    BY <2>1, <2>2, <2>3
<1>5. DiskTypes' /\ OtherTypes'
  BY <1>1, <1>2, <1>4 DEF RemoveName, CacheInv, TypeOK, DiskTypes, OtherTypes
<1>6. LockEffect(p)
  BY <1>1, <1>2
     DEF RemoveName, LockEffect, LockKept, PathsTyped, CacheInv, TypeOK, LockTypeOK
<1>7. pc' = [pc EXCEPT ![p] = "rmtree"]
  BY DEF RemoveName, CacheInv, TypeOK
<1>8. QED
  BY <1>1, <1>2, <1>3, <1>5, <1>6, <1>7, GoesOnRemoving DEF RemoveName

\* `RemoveEntryDir` preserves what the invariant says of its process.
LEMMA RemoveEntryDirStep ==
  ASSUME CacheInv, NEW p \in Procs, RemoveEntryDir(p)
  PROVE  StepOf(p)
<1> DEFINE s == req[p].slot
<1>1. s \in Slots /\ loc[p] \in Locals
  BY EvictingTyped DEF RemoveEntryDir, Evicting
<1>2. DiskTypes' /\ OtherTypes'
  BY DEF RemoveEntryDir, CacheInv, TypeOK, DiskTypes, OtherTypes, diskVars
<1>3. LockEffect(p) /\ phase'[p] = "none"
  BY <1>1 DEF RemoveEntryDir, LockEffect, LockLeft, PathsTyped, CacheInv, TypeOK, LockTypeOK
<1>4. [loc[p] EXCEPT !.total = @ \ {s}] \in Locals
  BY <1>1 DEF Locals
<1>5. QED
  BY <1>2, <1>3, <1>4, GoesOut DEF RemoveEntryDir

\* `RemoveFails` preserves what the invariant says of its process.
LEMMA RemoveFailsStep ==
  ASSUME CacheInv, NEW p \in Procs, RemoveFails(p)
  PROVE  StepOf(p)
<1>1. LockEffect(p) /\ phase'[p] = "none"
  BY Closes DEF RemoveFails, CacheInv, TypeOK
<1>2. DiskTypes' /\ OtherTypes'
  BY DEF RemoveFails, CacheInv, TypeOK, DiskTypes, OtherTypes, diskVars
<1>3. QED
  BY <1>1, <1>2, Ends DEF RemoveFails, Statuses

----------------------------------------------------------------------------
\* _run_model, and processes that are killed.

\* `AfterPrepare` preserves what the invariant says of its process.
LEMMA AfterPrepareStep ==
  ASSUME CacheInv, NEW p \in Procs, AfterPrepare(p)
  PROVE  StepOf(p)
<1>1. /\ cmd[p] \in Commands /\ exit[p] = "none" /\ phase[p] = "none"
      /\ Slot(p) \in Slots
  BY CommandTyped DEF AfterPrepare, CacheInv, ControlInv, ControlAt, Unlocked
<1>2. DiskTypes' /\ OtherTypes'
  BY DEF AfterPrepare, CacheInv, TypeOK, DiskTypes, OtherTypes, diskVars
<1>3. CASE /\ Enter(p, Shared(p)) /\ Goto(p, "runlock")
           /\ UNCHANGED <<cmd, loc, exit>>
  <2>1. Shared(p) \in Requests
    BY <1>1 DEF Shared, Requests
  <2>2. ProcTypes' /\ OthersStay(p) /\ pc'[p] = "runlock"
    BY <1>3, Moves, Parts DEF CacheInv, Steps
  <2>3. phase'[p] = "open" /\ req'[p] = Shared(p)
    BY <1>3 DEF Enter, CacheInv, TypeOK, LockTypeOK
  <2>4. ControlAt(p)' /\ DataAt(p)'
    BY <1>1, <1>3, <2>2, <2>3
       DEF ControlAt, DataAt, DataFits, Unlocked, Holding, Marked, Built, Evicting,
           Shared, Slot
  <2>5. QED
    BY <1>2, <1>3, <2>1, <2>2, <2>4 DEF StepOf, LockEffect
<1>4. CASE Exit(p, "OK") /\ UNCHANGED lockVars
  <2>1. LockEffect(p) /\ phase' = phase
    BY <1>4, LockStays DEF CacheInv, TypeOK
  <2>2. QED
    BY <1>1, <1>2, <1>4, <2>1, Ends DEF Statuses
<1>5. QED
  BY <1>3, <1>4 DEF AfterPrepare, Shared

\* `RunModel` preserves what the invariant says of its process.
LEMMA RunModelStep ==
  ASSUME CacheInv, NEW p \in Procs, RunModel(p)
  PROVE  StepOf(p)
<1>1. /\ cmd[p] \in Commands /\ exit[p] = "none" /\ req[p] = Shared(p)
      /\ Slot(p) \in Slots /\ loc[p] \in Locals
  BY CommandTyped DEF RunModel, CacheInv, ControlInv, ControlAt, TypeOK
<1>2. DiskTypes' /\ OtherTypes'
  BY DEF RunModel, CacheInv, TypeOK, DiskTypes, OtherTypes, diskVars
<1>3. CASE /\ target[Slot(p)] # None
           /\ Set(p, [loc[p] EXCEPT !.runs = target[Slot(p)]])
           /\ Goto(p, "running") /\ UNCHANGED <<cmd, exit, lockVars>>
  <2>1. target[Slot(p)] \in Jobs
    BY <1>1, <1>3 DEF CacheInv, TypeOK
  <2>2. [loc[p] EXCEPT !.runs = target[Slot(p)]] \in Locals
    BY <1>1, <2>1 DEF Locals
  <2>3. ProcTypes' /\ OthersStay(p) /\ pc'[p] = "running"
    BY <1>3, <2>2, Moves, Parts DEF CacheInv, Steps
  <2>4. LockEffect(p) /\ phase' = phase /\ req' = req
    BY <1>3, LockStays DEF CacheInv, TypeOK
  <2>5. ControlAt(p)' /\ DataAt(p)'
    BY <1>1, <1>3, <2>3, <2>4
       DEF RunModel, ControlAt, DataAt, DataFits, Unlocked, Holding, Marked, Built,
           Evicting, Shared, Slot
  <2>6. QED
    BY <1>2, <2>3, <2>4, <2>5 DEF StepOf
<1>4. CASE Exit(p, "CANT_CREATE") /\ Close(p)
  BY <1>2, <1>4, Closes, Ends DEF Statuses, CacheInv, TypeOK
<1>5. QED
  BY <1>3, <1>4 DEF RunModel

\* `ModelEnds` preserves what the invariant says of its process.
LEMMA ModelEndsStep ==
  ASSUME CacheInv, NEW p \in Procs, ModelEnds(p)
  PROVE  StepOf(p)
<1>1. LockEffect(p) /\ phase'[p] = "none"
  BY Closes DEF ModelEnds, CacheInv, TypeOK
<1>2. DiskTypes' /\ OtherTypes'
  BY DEF ModelEnds, CacheInv, TypeOK, DiskTypes, OtherTypes, diskVars
<1>3. QED
  BY <1>1, <1>2, Ends DEF ModelEnds, Statuses

\* `Die` preserves what the invariant says of its process.
LEMMA DieStep ==
  ASSUME CacheInv, NEW p \in Procs, Die(p)
  PROVE  StepOf(p)
<1>1. Slot(p) \in Slots
  BY CommandTyped DEF Die, CacheInv
<1>2. LockEffect(p) /\ phase'[p] = "none"
  BY Unlocks DEF Die, CacheInv, TypeOK
<1>3. DiskTypes' /\ OtherTypes'
  BY <1>1 DEF Die, CacheInv, TypeOK, DiskTypes, OtherTypes
<1>4. QED
  BY <1>2, <1>3, Ends DEF Die, Statuses

----------------------------------------------------------------------------
\* Every step.

\* Every step of a process preserves its part of the invariant and is local to
\* it.
LEMMA ProcessStep ==
  ASSUME CacheInv, NEW p \in Procs, Start(p) \/ Progress(p) \/ Die(p)
  PROVE  StepOf(p)
<1>1. CASE Start(p) \/ Die(p)
  BY <1>1, StartStep, DieStep
<1>2. CASE CheckDirectory(p) \/ Locate(p) \/ Locking(p) \/ LockingFails(p)
  BY <1>2, CheckDirectoryStep, LocateStep, LockingStep, LockingFailsStep
<1>3. CASE \/ Reuse(p) \/ Translate(p) \/ Submit(p) \/ SubmitFails(p) \/ Record(p)
           \/ StopWaiting(p) \/ Fetch(p) \/ PollFails(p) \/ Resubmit(p)
  BY <1>3, ReuseStep, TranslateStep, SubmitStep, SubmitFailsStep, RecordStep,
     StopWaitingStep, FetchStep, PollFailsStep, ResubmitStep
<1>4. CASE Unpack(p) \/ Clear(p) \/ Place(p) \/ PlaceFails(p) \/ Complete(p)
  BY <1>4, UnpackStep, ClearStep, PlaceStep, PlaceFailsStep, CompleteStep
<1>5. CASE UpToDate(p) \/ StartBuild(p) \/ Build(p) \/ BuildFails(p) \/ RecordBuild(p)
  BY <1>5, UpToDateStep, StartBuildStep, BuildStep, BuildFailsStep, RecordBuildStep
<1>6. CASE \/ ScanCache(p) \/ EvictNext(p) \/ EvictSkip(p) \/ EvictStart(p)
           \/ RemoveName(p) \/ RemoveEntryDir(p) \/ RemoveFails(p)
  BY <1>6, ScanCacheStep, EvictNextStep, EvictSkipStep, EvictStartStep,
     RemoveNameStep, RemoveEntryDirStep, RemoveFailsStep
<1>7. CASE AfterPrepare(p) \/ RunModel(p) \/ ModelEnds(p)
  BY <1>7, AfterPrepareStep, RunModelStep, ModelEndsStep
<1>8. QED
  BY <1>1, <1>2, <1>3, <1>4, <1>5, <1>6, <1>7 DEF Progress

\* The locks and the processes do not see the service and the clock.
ServiceStep ==
  \/ \E j \in Jobs : JobEnds(j) \/ JobExpires(j)
  \/ Tick
  \/ UNCHANGED vars

\* The service changes its jobs only.
LEMMA ServiceKeeps ==
  ASSUME OtherTypes, ServiceStep
  PROVE  OtherTypes' /\ UNCHANGED <<lockVars, diskVars, procVars>>
<1> USE DEF OtherTypes
<1>1. ASSUME NEW j \in Jobs, JobEnds(j)
      PROVE  OtherTypes' /\ UNCHANGED <<lockVars, diskVars, procVars>>
  BY <1>1 DEF JobEnds, JobStatuses
<1>2. ASSUME NEW j \in Jobs, JobExpires(j)
      PROVE  OtherTypes' /\ UNCHANGED <<lockVars, diskVars, procVars>>
  BY <1>2 DEF JobExpires, JobStatuses
<1>3. CASE Tick
  BY <1>3, BoundsAssumption DEF Tick, Times
<1>4. CASE UNCHANGED vars
  BY <1>4 DEF vars
<1>5. QED
  BY <1>1, <1>2, <1>3, <1>4 DEF ServiceStep

\* A step is one of the service or of one process.
LEMMA NextSplits ==
  ASSUME [Next]_vars
  PROVE  ServiceStep \/ \E p \in Procs : Start(p) \/ Progress(p) \/ Die(p)
  BY DEF Next, ServiceStep, Rest

\* The invariant holds of an empty cache.
LEMMA CacheInit == Init => CacheInv
<1> SUFFICES ASSUME Init PROVE CacheInv
  OBVIOUS
<1>1. LockTypeOK /\ PhaseInv /\ InodeMutex
  BY KernelInit DEF Init, KernelInv
<1>2. DiskTypes
  BY DEF Init, DiskTypes, NoProject, Projects
<1>3. ProcTypes
  BY NoLocalsTyped DEF Init, ProcTypes, Steps, Statuses
<1>4. OtherTypes
  BY BoundsAssumption DEF Init, OtherTypes, JobStatuses, Times
<1>5. ControlInv
  BY DEF Init, LockInit, ControlInv, ControlAt, DataAt, DataFits, Unlocked, Holding,
         Marked, Built, Evicting
<1>6. QED
  BY <1>1, <1>2, <1>3, <1>4, <1>5, Parts DEF CacheInv

\* A step of a process does nothing to the streams of the others.
LEMMA LockEffectLocal ==
  ASSUME NEW p \in Procs, LockEffect(p), NEW q \in Procs \ {p}, LockTypeOK
  PROVE  phase'[q] = phase[q] /\ req'[q] = req[q] /\ fd'[q] = fd[q]
<1>1. CASE LockKept \/ LockLeft(p)
  BY <1>1 DEF LockKept, LockLeft, LockTypeOK
<1>2. CASE Open(p)
  BY <1>2 DEF Open, LockTypeOK
<1>3. CASE (\E r \in Requests : Enter(p, r)) \/ Try(p) \/ Acquire(p)
  BY <1>3 DEF Enter, Try, Acquire, LockTypeOK
<1>4. QED
  BY <1>1, <1>2, <1>3 DEF LockEffect

\* Every step preserves the invariant.
LEMMA CacheStep ==
  ASSUME CacheInv, [Next]_vars
  PROVE  CacheInv'
<1>1. CASE ServiceStep
  <2>1. OtherTypes' /\ UNCHANGED <<lockVars, diskVars, procVars>>
    BY <1>1, ServiceKeeps, Parts DEF CacheInv
  <2>2. DiskTypes' /\ ProcTypes' /\ LockTypeOK' /\ PhaseInv' /\ InodeMutex'
    BY <2>1, Parts
       DEF CacheInv, DiskTypes, ProcTypes, diskVars, procVars, lockVars,
           LockTypeOK, PhaseInv, InodeMutex
  <2>3. ControlInv'
    BY <2>1
       DEF CacheInv, ControlInv, ControlAt, DataAt, DataFits, Exclusive, Shared, Slot, Key,
           procVars, lockVars
  <2>4. TypeOK'
    BY <2>1, <2>2 DEF TypeOK, DiskTypes, ProcTypes, OtherTypes
  <2>5. QED
    BY <2>2, <2>3, <2>4 DEF CacheInv
<1>2. ASSUME NEW p \in Procs, Start(p) \/ Progress(p) \/ Die(p)
      PROVE  CacheInv'
  <2>1. StepOf(p)
    BY <1>2, ProcessStep
  <2>2. KernelInv'
    BY <2>1, KernelStep DEF StepOf, CacheInv, KernelInv, TypeOK
  <2>3. TypeOK'
    BY <2>1, <2>2 DEF StepOf, KernelInv, TypeOK, DiskTypes, ProcTypes, OtherTypes
  <2>4. ASSUME NEW q \in Procs \ {p}
        PROVE  ControlAt(q)' /\ DataAt(q)'
    <3>1. phase'[q] = phase[q] /\ req'[q] = req[q]
      BY <2>1, LockEffectLocal DEF StepOf, CacheInv, TypeOK
    <3>2. pc'[q] = pc[q] /\ cmd'[q] = cmd[q] /\ loc'[q] = loc[q] /\ exit'[q] = exit[q]
      BY <2>1 DEF StepOf, OthersStay
    <3>3. ControlAt(q) /\ DataAt(q)
      BY DEF CacheInv, ControlInv
    <3>4. QED
      BY <3>1, <3>2, <3>3
         DEF ControlAt, DataAt, DataFits, Exclusive, Shared, Slot, Key
  <2>5. ControlInv'
    BY <2>1, <2>4 DEF StepOf, ControlInv
  <2>6. QED
    BY <2>2, <2>3, <2>5 DEF CacheInv, KernelInv
<1>3. QED
  BY <1>1, <1>2, NextSplits

\* Through crashes, evictions and emptied directories, the state is well typed
\* and each process is where its lock and its data say.
THEOREM CacheInvariant == Spec => []CacheInv
<1>1. CacheInv /\ [Next]_vars => CacheInv'
  BY CacheStep
<1>2. QED
  BY CacheInit, <1>1, PTL DEF Spec

\* Type correctness of the translation cache.
THEOREM CacheTypeCorrect == Spec => []TypeOK
  BY CacheInvariant, PTL DEF CacheInv

\* flock keeps its promise for the commands, although they remove lock files:
\* the holders of one inode share it or there is one of them.
THEOREM CacheInodesExclude == Spec => []InodeMutex
  BY CacheInvariant, PTL DEF CacheInv

----------------------------------------------------------------------------
\* A failed translation in a --to directory.

\* A translation that fails leaves the complete translation that a `--to`
\* directory held.
LEMMA FailureKeepsPrevious ==
  ASSUME CacheInv, [Next]_vars, NEW p \in Procs,
         pc[p] \in {"poll", "install"}, ~InCache(Slot(p)),
         loc[p].prev # None, loc[p].prev.state = "complete",
         exit'[p] \in {"DATA", "UNAVAILABLE", "IO"}
  PROVE  LET s == Slot(p) IN
         entry'[s] = loc[p].prev /\ project'[s] = project[s] /\ target'[s] = target[s]
<1>1. exit[p] = "none" /\ Slot(p) \in Slots
  BY CommandTyped DEF CacheInv, ControlInv, ControlAt
<1>2. CASE ServiceStep
  <2>1. exit' = exit
    BY <1>2, ServiceKeeps, Parts DEF CacheInv, procVars
  <2>2. QED
    BY <1>1, <2>1
<1>3. ASSUME NEW q \in Procs \ {p}, Start(q) \/ Progress(q) \/ Die(q)
      PROVE  FALSE
  <2>1. exit'[p] = exit[p]
    BY <1>3, ProcessStep DEF StepOf, OthersStay
  <2>2. QED
    BY <1>1, <2>1
<1>4. CASE Start(p) \/ Progress(p) \/ Die(p)
  <2>1. exit' # exit
    BY <1>1
  <2>2. CASE PollFails(p) \/ Unpack(p)
    <3>1. Forget(p) /\ UNCHANGED <<project, target>>
      BY <2>1, <2>2 DEF PollFails, Unpack
    <3>2. entry' = [entry EXCEPT ![Slot(p)] = loc[p].prev]
      BY <3>1 DEF Forget, WriteEntryAndUnlock
    <3>3. QED
      BY <1>1, <3>1, <3>2 DEF CacheInv, TypeOK
  <2>3. CASE StopWaiting(p) \/ Die(p)
    BY <2>3 DEF StopWaiting, Die, Exit, CacheInv, TypeOK
  <2>4. CASE Fetch(p) \/ Resubmit(p)
    BY <2>1, <2>4 DEF Fetch, Resubmit
  <2>5. Start(p) \/ Progress(p) \/ Die(p) => PollFails(p) \/ Unpack(p) \/ StopWaiting(p)
             \/ Die(p) \/ Fetch(p) \/ Resubmit(p)
    BY DEF Progress, Start, CheckDirectory, Locate, Locking, LockingFails, Reuse, Translate,
           Submit, SubmitFails, Record, Clear, Place, PlaceFails, Complete, UpToDate,
           StartBuild, Build, BuildFails, RecordBuild, ScanCache, EvictNext, EvictSkip,
           EvictStart, RemoveName, RemoveEntryDir, RemoveFails, AfterPrepare, RunModel,
           ModelEnds
  <2>6. QED
    BY <1>4, <2>2, <2>3, <2>4, <2>5
<1>5. QED
  BY <1>2, <1>3, <1>4, NextSplits

\* A translation that fails in a --to directory, or a bad archive, leaves the
\* complete project and the entry that were there, whatever else goes on.
THEOREM FailuresKeepPrevious == Spec => DirectoryKeepsPrevious
<1>1. CacheInv /\ [Next]_vars =>
        [\A p \in Procs :
           LET s == Slot(p)  prev == loc[p].prev IN
           /\ pc[p] \in {"poll", "install"} /\ ~InCache(s)
           /\ prev # None /\ prev.state = "complete"
           /\ project[s] = [manifest |-> prev.job, files |-> prev.job]
           /\ exit'[p] \in {"DATA", "UNAVAILABLE", "IO"}
           => entry'[s] = prev /\ project'[s] = project[s] /\ target'[s] = target[s]]_vars
  BY FailureKeepsPrevious
<1>2. QED
  BY CacheInvariant, <1>1, PTL DEF Spec, DirectoryKeepsPrevious
============================================================================

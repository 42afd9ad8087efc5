----------------------------- MODULE EntryLock -----------------------------
(***************************************************************************)
(* The advisory lock of a translation-cache entry, class EntryLock of      *)
(* wunderspec/rust_cli/cache.py.  The lock is flock(2) on the file         *)
(* <entry>/lock, so it belongs to the inode that was opened, not to the    *)
(* path: a process that opened the file keeps waiting for the old inode    *)
(* after evict() has removed the entry's directory, lock file included.    *)
(*                                                                         *)
(* LockClients closes the module with arbitrary clients, TranslationCache  *)
(* with the commands of `wunderspec rust`.                                 *)
(***************************************************************************)
CONSTANTS
  Procs,      \* processes of `wunderspec rust`
  Slots,      \* directories that hold an entry.json and its lock file
  Inodes,     \* identities of lock files
  None

ASSUME NoneAssumption == None \notin Inodes \cup [slot : Slots, shared : BOOLEAN]

VARIABLES
  dir,        \* dir[s]: the directory of s exists
  lockFile,   \* lockFile[s]: the inode at the path <s>/lock, or None
  phase,      \* phase[p]: how far p is in EntryLock.__enter__
  req,        \* req[p]: the arguments of p's EntryLock, None if it has none
  fd          \* fd[p]: the inode of p's open stream, or None

lockVars == <<dir, lockFile, phase, req, fd>>

Requests == [slot : Slots, shared : BOOLEAN, blocking : BOOLEAN]
Phases == {"none", "open", "try", "wait", "held", "missed"}

\* Phases in which the stream of the lock file is open.
Opened == {"try", "wait", "held", "missed"}

LockTypeOK ==
  /\ dir \in [Slots -> BOOLEAN]
  /\ lockFile \in [Slots -> Inodes \cup {None}]
  /\ phase \in [Procs -> Phases]
  /\ req \in [Procs -> Requests \cup {None}]
  /\ fd \in [Procs -> Inodes \cup {None}]

----------------------------------------------------------------------------
\* Mutants of Compatible: a check of one side's mode only.
CompatibleIfReader(p) ==
  \A q \in Procs \ {p} :
     phase[q] = "held" /\ fd[q] = fd[p] => req[p].shared
CompatibleWithReaders(p) ==
  \A q \in Procs \ {p} :
     phase[q] = "held" /\ fd[q] = fd[p] => req[q].shared

\* flock(2): an exclusive lock on an inode excludes every other holder.
Compatible(p) ==
  \A q \in Procs \ {p} :
     phase[q] = "held" /\ fd[q] = fd[p] => req[q].shared /\ req[p].shared

\* Inodes that are neither linked nor open: a new file gets one of them.
Free == Inodes \ ({lockFile[s] : s \in Slots} \cup {fd[p] : p \in Procs})

\* self.path.parent.mkdir(parents=True, exist_ok=True)
Enter(p, r) ==
  /\ phase[p] = "none"
  /\ dir' = [dir EXCEPT ![r.slot] = TRUE]
  /\ req' = [req EXCEPT ![p] = r]
  /\ phase' = [phase EXCEPT ![p] = "open"]
  /\ UNCHANGED <<lockFile, fd>>

\* open(self.path, "a+b") creates the file or opens the one that is there.
Open(p) ==
  LET s == req[p].slot IN
  /\ phase[p] = "open"
  /\ dir[s]
  /\ \/ /\ lockFile[s] # None
        /\ fd' = [fd EXCEPT ![p] = lockFile[s]]
        /\ UNCHANGED lockFile
     \/ /\ lockFile[s] = None
        /\ Free # {}
        /\ LET new == CHOOSE i \in Free : TRUE
           IN /\ lockFile' = [lockFile EXCEPT ![s] = new]
              /\ fd' = [fd EXCEPT ![p] = new]
  /\ phase' = [phase EXCEPT ![p] = "try"]
  /\ UNCHANGED <<dir, req>>

\* The directory went away after mkdir: open raises FileNotFoundError.
OpenFails(p) ==
  /\ phase[p] = "open"
  /\ ~dir[req[p].slot]
  /\ phase' = [phase EXCEPT ![p] = "none"]
  /\ req' = [req EXCEPT ![p] = None]
  /\ UNCHANGED <<dir, lockFile, fd>>

\* self._try(blocking=False)
Try(p) ==
  /\ phase[p] = "try"
  /\ phase' = [phase EXCEPT ![p] =
                 IF Compatible(p) THEN "held"
                 ELSE IF req[p].blocking THEN "wait" ELSE "missed"]
  /\ UNCHANGED <<dir, lockFile, req, fd>>

\* self._try(blocking=True) returns: nothing is checked again.
Acquire(p) ==
  /\ phase[p] = "wait"
  /\ Compatible(p)
  /\ phase' = [phase EXCEPT ![p] = "held"]
  /\ UNCHANGED <<dir, lockFile, req, fd>>

\* __exit__, or the kernel closing the stream of a process that died.
Close(p) ==
  /\ phase[p] # "none"
  /\ phase' = [phase EXCEPT ![p] = "none"]
  /\ req' = [req EXCEPT ![p] = None]
  /\ fd' = [fd EXCEPT ![p] = None]
  /\ UNCHANGED <<dir, lockFile>>

LockInit ==
  /\ dir = [s \in Slots |-> FALSE]
  /\ lockFile = [s \in Slots |-> None]
  /\ phase = [p \in Procs |-> "none"]
  /\ req = [p \in Procs |-> None]
  /\ fd = [p \in Procs |-> None]

----------------------------------------------------------------------------
\* The kernel's guarantee, whatever happens to the path: the holders of one
\* inode all share it or there is one of them.
InodeMutex ==
  \A p, q \in Procs :
     p # q /\ phase[p] = "held" /\ phase[q] = "held" /\ fd[p] = fd[q]
       => req[p].shared /\ req[q].shared

\* What the docstring of EntryLock promises to its clients: "translating,
\* unpacking, building, and evicting take the lock exclusively".  A holder of
\* the exclusive lock of an entry is alone in the entry.
EntryMutex ==
  \A p, q \in Procs :
     p # q /\ phase[p] = "held" /\ phase[q] = "held"
           /\ req[p].slot = req[q].slot
       => req[p].shared /\ req[q].shared
============================================================================

---------------------------- MODULE LockClients ----------------------------
(***************************************************************************)
(* Clients of EntryLock that take and leave the locks of entries in any    *)
(* order and remove no lock file, as the commands do while the cache is    *)
(* below its limit.  For them the lock is the readers-writer lock of       *)
(* module ReadWriteLock.                                                   *)
(***************************************************************************)
EXTENDS EntryLock

LockNext ==
  \E p \in Procs :
     \/ \E r \in Requests : Enter(p, r)
     \/ Open(p) \/ Try(p) \/ Acquire(p) \/ Close(p)

LockSpec == LockInit /\ [][LockNext]_lockVars

----------------------------------------------------------------------------
\* The client-visible lock of each process.
HeldLock(p) ==
  IF phase[p] = "held" THEN [slot |-> req[p].slot, shared |-> req[p].shared]
  ELSE None

heldLocks == [p \in Procs |-> HeldLock(p)]

\* An EntryLock whose file is never removed is a readers-writer lock.
RW == INSTANCE ReadWriteLock WITH held <- heldLocks, NotHeld <- None

RWSpec == RW!Spec

\* Inductive strengthening of EntryMutex: whoever has the lock file open has
\* the one that is linked at the path.
LinkedInode ==
  \A p \in Procs : phase[p] \in Opened => /\ fd[p] # None
                                          /\ fd[p] = lockFile[req[p].slot]
============================================================================

--------------------------- MODULE ReadWriteLock ---------------------------
(***************************************************************************)
(* What an EntryLock promises to the commands that use it: a set of        *)
(* readers-writer locks, one per cache entry.  A process holds at most one *)
(* of them, either shared (run a model) or exclusive (translate, unpack,   *)
(* build, evict).                                                          *)
(***************************************************************************)
CONSTANTS Procs, Slots, NotHeld

VARIABLE held    \* held[p]: NotHeld, or the lock that p holds

Locks == [slot : Slots, shared : BOOLEAN]

\* Two processes may hold the same lock only if both share it.
Conflict(l, m) == l.slot = m.slot /\ ~(l.shared /\ m.shared)

Init == held = [p \in Procs |-> NotHeld]

Acquire(p, l) ==
  /\ held[p] = NotHeld
  /\ \A q \in Procs \ {p} : held[q] # NotHeld => ~Conflict(l, held[q])
  /\ held' = [held EXCEPT ![p] = l]

Release(p) ==
  /\ held[p] # NotHeld
  /\ held' = [held EXCEPT ![p] = NotHeld]

Next == \E p \in Procs : Release(p) \/ \E l \in Locks : Acquire(p, l)

Spec == Init /\ [][Next]_held
============================================================================

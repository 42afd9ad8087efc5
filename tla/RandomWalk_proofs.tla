------------------------- MODULE RandomWalk_proofs -------------------------
(***************************************************************************)
(* Proofs about random walks and replays of any machines, for any number   *)
(* of steps, retries and samples, and any schedules: what `run` prints is  *)
(* what `replay` shows, and a schedule that `replay` writes replays to the *)
(* same trace.                                                             *)
(*                                                                         *)
(* A replay is a function of the number of attempts.  While a trace is     *)
(* walked, the replay of any numbers that begin with its tape has after as *)
(* many attempts the same states and retries and has taken the tape; once  *)
(* it stops it stays as it is.                                             *)
(***************************************************************************)
EXTENDS RandomWalk, SequenceTheorems, WellFoundedInduction, TLAPS

----------------------------------------------------------------------------
(* Induction and recursion over the naturals. *)

\* A set of naturals that has 0 and the successor of each member has all.
LEMMA Induct ==
  ASSUME NEW P, 0 \in P, \A n \in Nat : n \in P => n + 1 \in P
  PROVE  \A n \in Nat : n \in P
<1> DEFINE Missing == {n \in Nat : n \notin P}
<1>1. SUFFICES ASSUME Missing # {} PROVE FALSE
  OBVIOUS
<1>2. PICK x \in Missing : \A y \in Missing : ~(<<y, x>> \in OpToRel(<, Nat))
  <2>1. Missing \subseteq Nat
    OBVIOUS
  <2> HIDE DEF Missing
  <2>2. QED
    BY <1>1, <2>1, NatLessThanWellFounded, WFMin, Zenon
<1>3. \A y \in Missing : ~(y < x)
  <2>1. \A y \in Missing : y \in Nat
    OBVIOUS
  <2>2. QED
    BY <1>2, <2>1, Zenon DEF OpToRel
<1>4. x \in Nat /\ x # 0 /\ x - 1 \in Nat /\ x - 1 < x /\ (x - 1) + 1 = x
  OBVIOUS
<1>5. x - 1 \notin P
  BY <1>4
<1>6. x - 1 \in Missing
  BY <1>4, <1>5
<1>7. QED
  BY <1>3, <1>4, <1>6

\* A function that is given by its value at 0 and a step.
GivenBy(f, S, x, step) ==
  f \in [Nat -> S] /\ f[0] = x /\ \A n \in Nat : f[n + 1] = step[<<n, f[n]>>]
LEMMA Recursion ==
  ASSUME NEW S, NEW x \in S, NEW step \in [Nat \X S -> S]
  PROVE  \E f : GivenBy(f, S, x, step)
<1> DEFINE Ok(k, g) == /\ g \in [0..k -> S] /\ g[0] = x
                       /\ \A n \in Nat : n < k => g[n + 1] = step[<<n, g[n]>>]
           Has == {k \in Nat : \E g : Ok(k, g)}
<1>1. \A k \in Nat : k \in Has
  <2>1. 0 \in Has
    <3>1. Ok(0, [n \in 0..0 |-> x])
      OBVIOUS
    <3>2. QED
      BY <3>1
  <2>2. ASSUME NEW k \in Nat, k \in Has
        PROVE  k + 1 \in Has
    <3>1. PICK g : Ok(k, g)
      BY <2>2
    <3> DEFINE h == [n \in 0..(k + 1) |-> IF n = k + 1 THEN step[<<k, g[k]>>] ELSE g[n]]
    <3>2. k \in 0..k /\ 0 \in 0..k /\ 0 # k + 1 /\ 0 \in 0..(k + 1)
      OBVIOUS
    <3>3. g[k] \in S /\ step[<<k, g[k]>>] \in S
      BY <3>1, <3>2
    <3>4. h \in [0..(k + 1) -> S]
      <4>1. \A n \in 0..(k + 1) : n = k + 1 \/ n \in 0..k
        OBVIOUS
      <4>2. QED
        BY <3>1, <3>3, <4>1
    <3>5. h[0] = x
      BY <3>1, <3>2
    <3>6. ASSUME NEW n \in Nat, n < k + 1
          PROVE  h[n + 1] = step[<<n, h[n]>>]
      <4>1. n \in 0..(k + 1) /\ n + 1 \in 0..(k + 1) /\ n # k + 1
        BY <3>6
      <4>2. CASE n = k
        BY <4>1, <4>2
      <4>3. CASE n # k
        <5>1. n < k /\ n + 1 # k + 1
          BY <3>6, <4>3
        <5>2. h[n + 1] = g[n + 1] /\ h[n] = g[n]
          BY <4>1, <5>1
        <5>3. QED
          BY <3>1, <5>1, <5>2
      <4>4. QED
        BY <4>2, <4>3
    <3> HIDE DEF h
    <3>7. Ok(k + 1, h)
      BY <3>4, <3>5, <3>6
    <3>8. QED
      BY <3>7
  <2> HIDE DEF Has
  <2>3. QED
    BY <2>1, <2>2, Induct
<1>2. ASSUME NEW k \in Nat, NEW l \in Nat, k <= l, NEW g, Ok(k, g), NEW h, Ok(l, h)
      PROVE  \A n \in Nat : n <= k => g[n] = h[n]
  <2> DEFINE Same == {n \in Nat : n <= k => g[n] = h[n]}
  <2>1. 0 \in Same
    BY <1>2
  <2>2. ASSUME NEW n \in Nat, n \in Same
        PROVE  n + 1 \in Same
    <3>1. SUFFICES ASSUME n + 1 <= k PROVE g[n + 1] = h[n + 1]
      OBVIOUS
    <3>2. n <= k /\ n < k /\ n < l
      BY <1>2, <3>1
    <3>3. g[n] = h[n]
      BY <2>2, <3>2
    <3>4. g[n + 1] = step[<<n, g[n]>>] /\ h[n + 1] = step[<<n, h[n]>>]
      BY <1>2, <3>2
    <3>5. QED
      BY <3>3, <3>4
  <2> HIDE DEF Same
  <2>3. \A n \in Nat : n \in Same
    BY <2>1, <2>2, Induct
  <2>4. QED
    BY <2>3 DEF Same
<1> DEFINE G(k) == CHOOSE g : Ok(k, g)
           f == [k \in Nat |-> G(k)[k]]
<1>3. \A k \in Nat : Ok(k, G(k))
  BY <1>1, Zenon
<1>4. f \in [Nat -> S]
  <2>1. ASSUME NEW k \in Nat PROVE G(k)[k] \in S
    <3>1. k \in 0..k
      OBVIOUS
    <3>2. Ok(k, G(k))
      <4> HIDE DEF Ok, G
      <4>1. QED
        BY <1>3
    <3> HIDE DEF G
    <3>3. QED
      BY <3>1, <3>2
  <2> HIDE DEF G
  <2>2. QED
    BY <2>1
<1>5. f[0] = x
  <2>1. 0 \in Nat
    OBVIOUS
  <2>2. Ok(0, G(0))
    <3> HIDE DEF Ok, G
    <3>1. QED
      BY <1>3, <2>1
  <2> HIDE DEF G
  <2>3. QED
    BY <2>1, <2>2
<1>6. ASSUME NEW n \in Nat
      PROVE  f[n + 1] = step[<<n, f[n]>>]
  <2>1. n + 1 \in Nat /\ n <= n + 1 /\ n < n + 1 /\ n <= n
    OBVIOUS
  <2>2. Ok(n, G(n)) /\ Ok(n + 1, G(n + 1))
    BY <1>3, <2>1
  <2> HIDE DEF G
  <2>3. G(n)[n] = G(n + 1)[n]
    <3> HIDE DEF Ok
    <3>1. QED
      BY <1>2, <2>1, <2>2
  <2>4. G(n + 1)[n + 1] = step[<<n, G(n + 1)[n]>>]
    BY <2>1, <2>2
  <2>5. QED
    BY <2>1, <2>3, <2>4
<1>7. GivenBy(f, S, x, step)
  BY <1>4, <1>5, <1>6 DEF GivenBy
<1>8. QED
  BY <1>7

----------------------------------------------------------------------------
(* Replays. *)

ReplayEntries == {"tape", "choice", "sample"} \X Raw
Replays(m) ==
  [trace : Seq(StatesOf(m)), left : Int, taken : Nat, bounds : Seq(Nat),
   status : {"ok", "exhausted", "rejected", "failed"}]
Results(m) == StatesOf(m) \cup {Blocked, Failure}

\* The next action, and what it can end in.
LEMMA ActionFacts ==
  ASSUME NEW m \in Machines, NEW states \in Seq(StatesOf(m))
  PROVE  /\ Action(m, states).kind \in {"plain", "choice", "oneOf"}
         /\ \A raw \in Raw : Action(m, states).to[raw] \in Results(m)
<1>1. m.init \in ActionsAmong(StatesOf(m)) /\ m.step \in [StatesOf(m) -> ActionsAmong(StatesOf(m))]
  BY MachinesAssumption
<1>2. Action(m, states) \in ActionsAmong(StatesOf(m))
  <2>1. CASE states = <<>>
    BY <1>1, <2>1 DEF Action
  <2>2. CASE states # <<>>
    <3>1. Len(states) \in 1..Len(states)
      BY <2>2
    <3>2. Last(states) \in StatesOf(m)
      BY <3>1, ElementOfSeq DEF Last
    <3>3. QED
      BY <1>1, <2>2, <3>2 DEF Action
  <2>3. QED
    BY <2>1, <2>2
<1>3. QED
  BY <1>2 DEF ActionsAmong, Results

\* The result of an action is recorded in the replay.
LEMMA AfterResultTyped ==
  ASSUME NEW m, NEW r \in Replays(m), NEW taken \in Nat, NEW result \in Results(m)
  PROVE  AfterResult(r, taken, result) \in Replays(m)
<1>1. CASE result = Failure
  BY <1>1 DEF AfterResult, Replays
<1>2. CASE result = Blocked
  <2>1. AfterResult(r, taken, result) = [r EXCEPT !.taken = taken, !.left = r.left - 1]
    BY <1>2 DEF AfterResult, Blocked, Failure
  <2>2. r.left - 1 \in Int
    BY DEF Replays
  <2>3. QED
    BY <2>1, <2>2 DEF Replays
<1>3. CASE result \notin {Failure, Blocked}
  <2>1. result \in StatesOf(m)
    BY <1>3 DEF Results
  <2>2. /\ r.trace \in Seq(StatesOf(m)) /\ r.bounds \in Seq(Nat)
    BY DEF Replays
  <2>3. Append(r.trace, result) \in Seq(StatesOf(m)) /\ Append(r.bounds, taken) \in Seq(Nat)
    BY <2>1, <2>2
  <2>4. AfterResult(r, taken, result)
          = [r EXCEPT !.taken = taken, !.trace = Append(@, result), !.bounds = Append(@, taken)]
    BY <1>3 DEF AfterResult
  <2>5. QED
    BY <2>3, <2>4 DEF Replays
<1>4. QED
  BY <1>1, <1>2, <1>3

\* An attempt takes a decision at most, which is there, or ends the replay.
LEMMA StepCases ==
  ASSUME NEW m \in Machines, NEW entries \in Seq(ReplayEntries), NEW r \in Replays(m)
  PROVE  \/ \E status \in {"exhausted", "rejected"} :
              ReplayStep(m, entries, r) = [r EXCEPT !.status = status]
         \/ \E taken \in Nat, result \in Results(m) :
              /\ ReplayStep(m, entries, r) = AfterResult(r, taken, result)
              /\ taken = r.taken \/ (taken = r.taken + 1 /\ taken <= Len(entries))
<1> DEFINE action == Action(m, r.trace)
           choice == Decision(action, entries[r.taken + 1])
<1>1. /\ action.kind \in {"plain", "choice", "oneOf"}
      /\ \A raw \in Raw : action.to[raw] \in Results(m)
  BY ActionFacts DEF Replays
<1>2. r.taken \in Nat /\ Len(entries) \in Nat
  BY DEF Replays
<1>3. CASE ~Draws(action)
  <2>1. ReplayStep(m, entries, r) = AfterResult(r, r.taken, action.to[0]) /\ 0 \in Raw
    BY <1>3 DEF ReplayStep, Raw
  <2>2. QED
    BY <1>1, <1>2, <2>1
<1>4. CASE Draws(action) /\ r.taken >= Len(entries)
  BY <1>4 DEF ReplayStep
<1>5. CASE Draws(action) /\ ~(r.taken >= Len(entries)) /\ choice = None
  BY <1>5 DEF ReplayStep
<1>6. CASE Draws(action) /\ ~(r.taken >= Len(entries)) /\ choice # None
  <2>1. r.taken + 1 \in 1..Len(entries)
    BY <1>2, <1>6
  <2>2. entries[r.taken + 1] \in ReplayEntries
    BY <2>1, ElementOfSeq
  <2>3. choice \in Raw
    BY <1>6, <2>2 DEF Decision, ReplayEntries
  <2>4. ReplayStep(m, entries, r) = AfterResult(r, r.taken + 1, action.to[choice])
    BY <1>6 DEF ReplayStep
  <2>5. QED
    BY <1>1, <1>2, <2>1, <2>3, <2>4
<1>7. QED
  BY <1>3, <1>4, <1>5, <1>6

LEMMA ReplayNextTyped ==
  ASSUME NEW m \in Machines, NEW entries \in Seq(ReplayEntries), NEW steps \in Nat, NEW r \in Replays(m)
  PROVE  ReplayNext(m, entries, steps, r) \in Replays(m)
<1>1. ReplayStep(m, entries, r) \in Replays(m)
  <2>1. CASE \E status \in {"exhausted", "rejected"} :
               ReplayStep(m, entries, r) = [r EXCEPT !.status = status]
    BY <2>1 DEF Replays
  <2>2. CASE \E taken \in Nat, result \in Results(m) :
               ReplayStep(m, entries, r) = AfterResult(r, taken, result)
    BY <2>2, AfterResultTyped
  <2>3. QED
    BY <2>1, <2>2, StepCases
<1>2. QED
  BY <1>1 DEF ReplayNext

LEMMA ReplayStartTyped ==
  ASSUME NEW m, NEW steps \in Nat, NEW retriesPerStep \in Nat
  PROVE  /\ ReplayStart(steps, retriesPerStep) \in Replays(m)
         /\ Budget(steps, retriesPerStep) \in Nat
  BY DEF ReplayStart, Replays, Budget

\* The attempts of a replay, one after the other.
AreAttempts(A, m, entries, steps, retriesPerStep) ==
  /\ A \in [Nat -> Replays(m)]
  /\ A[0] = ReplayStart(steps, retriesPerStep)
  /\ \A n \in Nat : A[n + 1] = ReplayNext(m, entries, steps, A[n])
LEMMA AttemptsFacts ==
  ASSUME NEW m \in Machines, NEW entries \in Seq(ReplayEntries), NEW steps \in Nat,
         NEW retriesPerStep \in Nat
  PROVE  AreAttempts(Attempts(m, entries, steps, retriesPerStep), m, entries, steps, retriesPerStep)
<1> DEFINE start == ReplayStart(steps, retriesPerStep)
           step == [p \in Nat \X Replays(m) |-> ReplayNext(m, entries, steps, p[2])]
           A == Attempts(m, entries, steps, retriesPerStep)
           Of(g) == [n \in Nat |-> IF n = 0 THEN start ELSE ReplayNext(m, entries, steps, g[n - 1])]
<1>1. start \in Replays(m)
  BY ReplayStartTyped
<1>2. step \in [Nat \X Replays(m) -> Replays(m)]
  <2>1. \A p \in Nat \X Replays(m) : p[2] \in Replays(m)
    OBVIOUS
  <2>2. QED
    BY <2>1, ReplayNextTyped
<1>3. PICK f : GivenBy(f, Replays(m), start, step)
  <2> HIDE DEF A, start, step
  <2>1. QED
    BY <1>1, <1>2, Recursion, Zenon
<1>4. /\ f \in [Nat -> Replays(m)] /\ f[0] = start
      /\ \A n \in Nat : f[n + 1] = ReplayNext(m, entries, steps, f[n])
  BY <1>3 DEF GivenBy
<1>5. f = Of(f)
  <2>1. ASSUME NEW n \in Nat PROVE f[n] = Of(f)[n]
    <3>1. CASE n = 0
      BY <1>4, <3>1
    <3>2. CASE n # 0
      <4>1. n - 1 \in Nat /\ (n - 1) + 1 = n
        BY <3>2
      <4>2. f[n] = ReplayNext(m, entries, steps, f[n - 1])
        BY <1>4, <4>1
      <4>3. QED
        BY <3>2, <4>2
    <3>3. QED
      BY <3>1, <3>2
  <2>2. QED
    BY <1>4, <2>1
<1>6. A = CHOOSE g : g = Of(g)
  BY DEF Attempts
<1>7. A = Of(A)
  <2> HIDE DEF Of, A
  <2>1. QED
    BY <1>5, <1>6, Zenon
<1>8. A[0] = start /\ \A n \in Nat : A[n + 1] = ReplayNext(m, entries, steps, A[n])
  <2> HIDE DEF A, start
  <2>1. A[0] = start
    BY <1>7
  <2>2. ASSUME NEW n \in Nat PROVE A[n + 1] = ReplayNext(m, entries, steps, A[n])
    <3>1. n + 1 \in Nat /\ n + 1 # 0 /\ (n + 1) - 1 = n
      OBVIOUS
    <3>2. QED
      BY <1>7, <3>1
  <2>3. QED
    BY <2>1, <2>2
<1>9. A \in [Nat -> Replays(m)]
  <2> DEFINE P == {n \in Nat : A[n] \in Replays(m)}
  <2> HIDE DEF A, start
  <2>1. 0 \in P
    BY <1>1, <1>8
  <2>2. \A n \in Nat : n \in P => n + 1 \in P
    <3>1. ASSUME NEW n \in Nat, A[n] \in Replays(m) PROVE A[n + 1] \in Replays(m)
      <4>1. ReplayNext(m, entries, steps, A[n]) \in Replays(m)
        BY <3>1, ReplayNextTyped
      <4>2. QED
        BY <1>8, <4>1
    <3>2. QED
      BY <3>1
  <2> HIDE DEF P
  <2>3. \A n \in Nat : n \in P
    BY <2>1, <2>2, Induct
  <2> USE DEF P
  <2>4. \A n \in Nat : A[n] \in Replays(m)
    BY <2>3
  <2>5. QED
    BY <1>7, <2>4
<1>10. QED
  BY <1>8, <1>9 DEF AreAttempts

\* A replay that is over stays as it is.
LEMMA ReplayStays ==
  ASSUME NEW m \in Machines, NEW entries \in Seq(ReplayEntries), NEW steps \in Nat,
         NEW retriesPerStep \in Nat, NEW A, AreAttempts(A, m, entries, steps, retriesPerStep),
         NEW k \in Nat, ~(A[k].status = "ok" /\ Walking(A[k].trace, A[k].left, steps)),
         NEW l \in Nat, k <= l
  PROVE  A[l] = A[k]
<1> DEFINE P == {d \in Nat : A[k + d] = A[k]}
<1>1. 0 \in P
  OBVIOUS
<1>2. ASSUME NEW d \in Nat, d \in P PROVE d + 1 \in P
  <2>1. k + d \in Nat /\ k + (d + 1) = (k + d) + 1 /\ A[k + d] = A[k]
    BY <1>2
  <2>2. A[(k + d) + 1] = ReplayNext(m, entries, steps, A[k + d])
    BY <2>1 DEF AreAttempts
  <2>3. QED
    BY <2>1, <2>2 DEF ReplayNext
<1> HIDE DEF P
<1>3. \A d \in Nat : d \in P
  BY <1>1, <1>2, Induct
<1>4. l - k \in Nat /\ k + (l - k) = l
  OBVIOUS
<1>5. l - k \in P
  BY <1>3, <1>4
<1>6. A[k + (l - k)] = A[k]
  BY <1>5 DEF P
<1>7. QED
  BY <1>4, <1>6

----------------------------------------------------------------------------
(* What has been recorded. *)

\* The numbers do not fall, nor pass the top.
Grows(bounds, top) ==
  /\ \A i \in 1..Len(bounds) : bounds[i] <= top
  /\ \A i, j \in 1..Len(bounds) : i <= j => bounds[i] <= bounds[j]

\* Each state of a replay has the number of decisions up to it, which grows, and the
\* last of the states that are wanted has all.
Recorded(entries, steps, r) ==
  /\ Len(r.bounds) = Len(r.trace) /\ Len(r.trace) <= steps
  /\ r.taken <= Len(entries)
  /\ Grows(r.bounds, r.taken)
  /\ Len(r.trace) = steps /\ steps > 0 => r.bounds[steps] = r.taken

\* One more number that is not below the others.
LEMMA GrowsAppend ==
  ASSUME NEW b \in Seq(Nat), NEW t \in Nat, NEW u \in Nat, t <= u, Grows(b, t)
  PROVE  Grows(b, u) /\ Grows(Append(b, u), u)
<1>1. Len(b) \in Nat /\ \A i \in 1..Len(b) : b[i] \in Nat /\ b[i] <= u
  BY DEF Grows
<1> DEFINE c == Append(b, u)
<1>2. /\ Len(c) = Len(b) + 1 /\ c[Len(b) + 1] = u
      /\ \A i \in 1..Len(b) : c[i] = b[i]
  BY AppendProperties
<1> HIDE DEF c
<1>3. \A i \in 1..Len(c) : i = Len(b) + 1 \/ i \in 1..Len(b)
  BY <1>1, <1>2
<1>4. \A i \in 1..Len(c) : c[i] <= u
  BY <1>1, <1>2, <1>3
<1>5. ASSUME NEW i \in 1..Len(c), NEW j \in 1..Len(c), i <= j
      PROVE  c[i] <= c[j]
  <2>1. CASE j = Len(b) + 1
    BY <1>2, <1>4, <2>1
  <2>2. CASE j # Len(b) + 1
    <3>1. i \in 1..Len(b) /\ j \in 1..Len(b)
      BY <1>1, <1>3, <1>5, <2>2
    <3>2. b[i] <= b[j]
      BY <1>5, <3>1 DEF Grows
    <3>3. QED
      BY <1>2, <3>1, <3>2
  <2>3. QED
    BY <2>1, <2>2
<1>6. Grows(b, u)
  BY <1>1 DEF Grows
<1>7. Grows(c, u)
  BY <1>4, <1>5 DEF Grows
<1>8. QED
  BY <1>6, <1>7 DEF c

LEMMA AfterResultRecorded ==
  ASSUME NEW m, NEW entries \in Seq(ReplayEntries), NEW steps \in Nat, NEW r \in Replays(m),
         Recorded(entries, steps, r), Len(r.trace) < steps,
         NEW taken \in Nat, NEW result \in Results(m), r.taken <= taken, taken <= Len(entries)
  PROVE  Recorded(entries, steps, AfterResult(r, taken, result))
<1>1. /\ r.trace \in Seq(StatesOf(m)) /\ r.bounds \in Seq(Nat) /\ r.taken \in Nat
      /\ Len(r.trace) \in Nat /\ Len(r.bounds) \in Nat
  BY DEF Replays
<1>2. Grows(r.bounds, taken) /\ Grows(Append(r.bounds, taken), taken) /\ Len(r.bounds) = Len(r.trace)
  BY <1>1, GrowsAppend DEF Recorded
<1> DEFINE q == AfterResult(r, taken, result)
<1>3. CASE result \in {Failure, Blocked}
  <2>1. q.trace = r.trace /\ q.bounds = r.bounds /\ q.taken = taken
    BY <1>3 DEF AfterResult, Replays
  <2> HIDE DEF q
  <2>2. Len(q.trace) # steps /\ Len(q.trace) <= steps
    BY <1>1, <2>1
  <2>3. Recorded(entries, steps, q)
    BY <1>2, <2>1, <2>2 DEF Recorded
  <2>4. QED
    BY <2>3 DEF q
<1>4. CASE result \notin {Failure, Blocked}
  <2>1. /\ q.trace = Append(r.trace, result) /\ q.bounds = Append(r.bounds, taken) /\ q.taken = taken
        /\ result \in StatesOf(m)
    BY <1>4 DEF AfterResult, Replays, Results
  <2> HIDE DEF q
  <2>2. /\ Len(q.trace) = Len(r.trace) + 1 /\ Len(q.bounds) = Len(r.bounds) + 1
        /\ q.bounds[Len(r.bounds) + 1] = taken
    BY <1>1, <2>1, AppendProperties
  <2>3. Len(q.bounds) = Len(q.trace) /\ Len(q.trace) <= steps
    BY <1>1, <1>2, <2>2
  <2>4. Len(q.trace) = steps => q.bounds[steps] = taken
    BY <1>1, <1>2, <2>2
  <2>5. Recorded(entries, steps, q)
    BY <1>2, <2>1, <2>3, <2>4 DEF Recorded
  <2>6. QED
    BY <2>5 DEF q
<1>5. QED
  BY <1>3, <1>4

LEMMA NextRecorded ==
  ASSUME NEW m \in Machines, NEW entries \in Seq(ReplayEntries), NEW steps \in Nat, NEW r \in Replays(m),
         Recorded(entries, steps, r), NEW q, q = ReplayNext(m, entries, steps, r)
  PROVE  /\ Recorded(entries, steps, q) /\ r.taken <= q.taken
         /\ q.status = "ok" => r.status = "ok"
<1>0. r.taken \in Nat /\ Len(r.trace) \in Nat /\ Len(entries) \in Nat
  BY DEF Replays
<1>1. CASE ~(r.status = "ok" /\ Walking(r.trace, r.left, steps))
  BY <1>0, <1>1 DEF ReplayNext
<1>2. CASE r.status = "ok" /\ Walking(r.trace, r.left, steps)
  <2>1. q = ReplayStep(m, entries, r) /\ Len(r.trace) < steps
    BY <1>2 DEF ReplayNext, Walking
  <2>2. CASE \E status \in {"exhausted", "rejected"} : q = [r EXCEPT !.status = status]
    <3>1. q.trace = r.trace /\ q.bounds = r.bounds /\ q.taken = r.taken /\ q.status # "ok"
      BY <2>2 DEF Replays
    <3>2. QED
      BY <1>0, <1>2, <3>1 DEF Recorded
  <2>3. CASE \E taken \in Nat, result \in Results(m) :
               /\ q = AfterResult(r, taken, result)
               /\ taken = r.taken \/ (taken = r.taken + 1 /\ taken <= Len(entries))
    <3>1. PICK taken \in Nat, result \in Results(m) :
               /\ q = AfterResult(r, taken, result)
               /\ taken = r.taken \/ (taken = r.taken + 1 /\ taken <= Len(entries))
      BY <2>3
    <3>2. r.taken <= taken /\ taken <= Len(entries)
      BY <1>0, <3>1 DEF Recorded
    <3>3. Recorded(entries, steps, q)
      BY <2>1, <3>1, <3>2, AfterResultRecorded
    <3>4. AfterResult(r, taken, result).taken = taken
      BY DEF AfterResult, Replays
    <3>5. QED
      BY <1>2, <3>1, <3>2, <3>3, <3>4
  <2>4. QED
    BY <2>1, <2>2, <2>3, StepCases
<1>3. QED
  BY <1>1, <1>2

LEMMA AttemptsRecorded ==
  ASSUME NEW m \in Machines, NEW entries \in Seq(ReplayEntries), NEW steps \in Nat,
         NEW retriesPerStep \in Nat, NEW A, AreAttempts(A, m, entries, steps, retriesPerStep),
         NEW n \in Nat
  PROVE  /\ A[n] \in Replays(m) /\ Recorded(entries, steps, A[n])
         /\ A[n].taken <= A[n + 1].taken
         /\ A[n + 1].status = "ok" => A[n].status = "ok"
<1>1. /\ A \in [Nat -> Replays(m)] /\ A[0] = ReplayStart(steps, retriesPerStep)
      /\ \A k \in Nat : A[k + 1] = ReplayNext(m, entries, steps, A[k])
  BY DEF AreAttempts
<1> DEFINE P == {k \in Nat : Recorded(entries, steps, A[k])}
<1>2. 0 \in P
  <2>1. A[0].trace = <<>> /\ A[0].bounds = <<>> /\ A[0].taken = 0
    BY <1>1 DEF ReplayStart
  <2>2. Len(<<>>) = 0 /\ 0 <= steps /\ 0 <= Len(entries) /\ 1..0 = {}
    OBVIOUS
  <2>3. Grows(<<>>, 0)
    BY <2>2 DEF Grows
  <2>4. Recorded(entries, steps, A[0])
    BY <2>1, <2>2, <2>3 DEF Recorded
  <2> HIDE DEF Recorded
  <2>5. QED
    BY <2>4
<1>3. ASSUME NEW k \in Nat, k \in P
      PROVE  /\ k + 1 \in P /\ A[k].taken <= A[k + 1].taken
             /\ A[k + 1].status = "ok" => A[k].status = "ok"
  <2>1. A[k] \in Replays(m) /\ A[k + 1] = ReplayNext(m, entries, steps, A[k])
        /\ Recorded(entries, steps, A[k]) /\ k + 1 \in Nat
    BY <1>1, <1>3
  <2>2. QED
    BY <2>1, NextRecorded
<1> HIDE DEF P
<1>4. \A k \in Nat : k \in P
  BY <1>2, <1>3, Induct
<1>5. QED
  BY <1>1, <1>3, <1>4 DEF P

LEMMA AttemptsGrow ==
  ASSUME NEW m \in Machines, NEW entries \in Seq(ReplayEntries), NEW steps \in Nat,
         NEW retriesPerStep \in Nat, NEW A, AreAttempts(A, m, entries, steps, retriesPerStep),
         NEW k \in Nat, NEW l \in Nat, k <= l
  PROVE  A[k].taken <= A[l].taken /\ (A[l].status = "ok" => A[k].status = "ok")
<1> DEFINE P == {d \in Nat : /\ A[k].taken <= A[k + d].taken
                             /\ A[k + d].status = "ok" => A[k].status = "ok"}
<1>0. \A n \in Nat : /\ A[n] \in Replays(m) /\ Recorded(entries, steps, A[n])
                     /\ A[n].taken <= A[n + 1].taken
                     /\ A[n + 1].status = "ok" => A[n].status = "ok"
  BY AttemptsRecorded
<1>1. \A n \in Nat : A[n].taken \in Nat
  BY <1>0 DEF Replays
<1>2. 0 \in P
  BY <1>1
<1>3. ASSUME NEW d \in Nat, d \in P PROVE d + 1 \in P
  <2>1. k + d \in Nat /\ k + (d + 1) = (k + d) + 1 /\ (k + d) + 1 \in Nat
    OBVIOUS
  <2>2. /\ A[k + d].taken <= A[(k + d) + 1].taken
        /\ A[(k + d) + 1].status = "ok" => A[k + d].status = "ok"
    BY <1>0, <2>1
  <2>3. A[k].taken \in Nat /\ A[k + d].taken \in Nat /\ A[(k + d) + 1].taken \in Nat
    BY <1>1, <2>1
  <2>4. QED
    BY <1>3, <2>1, <2>2, <2>3
<1> HIDE DEF P
<1>4. \A d \in Nat : d \in P
  BY <1>2, <1>3, Induct
<1>5. l - k \in Nat /\ k + (l - k) = l
  OBVIOUS
<1>6. l - k \in P
  BY <1>4, <1>5
<1>7. QED
  BY <1>5, <1>6 DEF P

----------------------------------------------------------------------------
(* Sequences of sequences, flattened. *)

LEMMA FlattenFacts ==
  ASSUME NEW T, NEW seqs \in Seq(Seq(T)), Len(seqs) # 0
  PROVE  \E f : /\ FlattenSeq(seqs) = f[Len(seqs)] /\ f[1] = seqs[1]
                /\ \A i \in 1..Len(seqs) : f[i] \in Seq(T)
                /\ \A i \in 1..(Len(seqs) - 1) : f[i + 1] = f[i] \o seqs[i + 1]
<1> DEFINE L == Len(seqs)
           step == [p \in Nat \X Seq(T) |-> IF p[1] < L THEN p[2] \o seqs[p[1] + 1] ELSE p[2]]
           Of(q) == [i \in 1..L |-> IF i = 1 THEN seqs[i] ELSE q[i - 1] \o seqs[i]]
           F == CHOOSE q : q = Of(q)
<1>1. L \in Nat /\ L # 0 /\ \A i \in 1..L : seqs[i] \in Seq(T)
  OBVIOUS
<1>2. step \in [Nat \X Seq(T) -> Seq(T)]
  <2>1. ASSUME NEW p \in Nat \X Seq(T)
        PROVE  (IF p[1] < L THEN p[2] \o seqs[p[1] + 1] ELSE p[2]) \in Seq(T)
    <3>1. p[1] \in Nat /\ p[2] \in Seq(T)
      OBVIOUS
    <3>2. CASE p[1] < L
      <4>1. seqs[p[1] + 1] \in Seq(T)
        BY <1>1, <3>1, <3>2
      <4>2. QED
        BY <3>1, <3>2, <4>1
    <3>3. QED
      BY <3>1, <3>2
  <2>2. QED
    BY <2>1
<1>3. <<>> \in Seq(T)
  OBVIOUS
<1>4. PICK g : GivenBy(g, Seq(T), <<>>, step)
  <2> HIDE DEF step
  <2>1. QED
    BY <1>2, <1>3, Recursion, Zenon
<1>5. /\ g[0] = <<>> /\ \A n \in Nat : g[n] \in Seq(T)
      /\ \A n \in Nat : n < L => g[n + 1] = g[n] \o seqs[n + 1]
  BY <1>4 DEF GivenBy
<1> DEFINE h == [i \in 1..L |-> g[i]]
<1>6. h = Of(h)
  <2>1. ASSUME NEW i \in 1..L PROVE h[i] = Of(h)[i]
    <3>1. i \in Nat /\ i - 1 \in Nat /\ (i - 1) + 1 = i /\ i - 1 < L /\ seqs[i] \in Seq(T)
      BY <1>1
    <3>2. g[i] = g[i - 1] \o seqs[i]
      BY <1>5, <3>1
    <3>3. CASE i = 1
      <4>1. i - 1 = 0 /\ g[i - 1] = <<>>
        BY <1>5, <3>3
      <4>2. <<>> \o seqs[1] = seqs[1]
        BY <3>1, <3>3, ConcatEmptySeq
      <4>3. QED
        BY <3>2, <3>3, <4>1, <4>2
    <3>4. CASE i # 1
      <4>1. i - 1 \in 1..L
        BY <1>1, <3>4
      <4>2. QED
        BY <3>2, <3>4, <4>1
    <3>5. QED
      BY <3>3, <3>4
  <2>2. QED
    BY <2>1
<1>7. F = Of(F)
  <2> HIDE DEF Of, h
  <2>1. QED
    BY <1>6, Zenon
<1>8. FlattenSeq(seqs) = F[L]
  BY <1>1 DEF FlattenSeq
<1> HIDE DEF F
<1>9. F[1] = seqs[1]
  BY <1>1, <1>7
<1>10. ASSUME NEW i \in 1..(L - 1) PROVE F[i + 1] = F[i] \o seqs[i + 1]
  <2>1. i + 1 \in 1..L /\ i + 1 # 1 /\ (i + 1) - 1 = i
    BY <1>1
  <2>2. QED
    BY <1>7, <2>1
<1>11. \A i \in 1..L : F[i] \in Seq(T)
  <2> DEFINE P == {n \in Nat : n < L => F[n + 1] \in Seq(T)}
  <2>1. 0 \in P
    BY <1>1, <1>9
  <2>2. ASSUME NEW n \in Nat, n \in P PROVE n + 1 \in P
    <3>1. SUFFICES ASSUME n + 1 < L PROVE F[(n + 1) + 1] \in Seq(T)
      OBVIOUS
    <3>2. n + 1 \in 1..(L - 1) /\ (n + 1) + 1 \in 1..L /\ n < L
      BY <1>1, <3>1
    <3>3. F[n + 1] \in Seq(T) /\ seqs[(n + 1) + 1] \in Seq(T)
      BY <1>1, <2>2, <3>2
    <3>4. F[(n + 1) + 1] = F[n + 1] \o seqs[(n + 1) + 1]
      BY <1>10, <3>2
    <3>5. QED
      BY <3>3, <3>4, ConcatProperties
  <2> HIDE DEF P
  <2>3. \A n \in Nat : n \in P
    BY <2>1, <2>2, Induct
  <2>4. ASSUME NEW i \in 1..L PROVE F[i] \in Seq(T)
    <3>1. i - 1 \in Nat /\ (i - 1) + 1 = i /\ i - 1 < L
      BY <1>1
    <3>2. i - 1 \in P
      BY <2>3, <3>1
    <3>3. QED
      BY <3>1, <3>2 DEF P
  <2>5. QED
    BY <2>4
<1>12. QED
  BY <1>8, <1>9, <1>10, <1>11

LEMMA FlattenTyped ==
  ASSUME NEW T, NEW seqs \in Seq(Seq(T))
  PROVE  FlattenSeq(seqs) \in Seq(T)
<1>1. CASE Len(seqs) = 0
  <2>1. seqs = <<>>
    BY <1>1
  <2>2. QED
    BY <1>1, <2>1 DEF FlattenSeq
<1>2. CASE Len(seqs) # 0
  <2>1. PICK f : FlattenSeq(seqs) = f[Len(seqs)] /\ \A i \in 1..Len(seqs) : f[i] \in Seq(T)
    BY <1>2, FlattenFacts
  <2>2. Len(seqs) \in 1..Len(seqs)
    BY <1>2
  <2>3. QED
    BY <2>1, <2>2
<1>3. QED
  BY <1>1, <1>2

\* What is written is all that was taken up to the last bound.
LEMMA WrittenFlattened ==
  ASSUME NEW T, NEW entries \in Seq(T), NEW bounds \in Seq(Nat), Grows(bounds, Len(entries))
  PROVE  /\ Written(entries, bounds) \in Seq(Seq(T)) /\ Len(Written(entries, bounds)) = Len(bounds)
         /\ Len(bounds) # 0 =>
              FlattenSeq(Written(entries, bounds)) = SubSeq(entries, 1, bounds[Len(bounds)])
<1> DEFINE W == Written(entries, bounds)
           L == Len(bounds)
           From(i) == 1 + (IF i = 1 THEN 0 ELSE bounds[i - 1])
<1>1. L \in Nat /\ Len(entries) \in Nat /\ DOMAIN bounds = 1..L /\ \A i \in 1..L : bounds[i] \in 0..Len(entries)
  BY DEF Grows
<1>2. ASSUME NEW i \in 1..L
      PROVE  From(i) \in 1..(Len(entries) + 1) /\ SubSeq(entries, From(i), bounds[i]) \in Seq(T)
  <2>1. i = 1 \/ i - 1 \in 1..L
    BY <1>1
  <2>2. From(i) \in 1..(Len(entries) + 1) /\ bounds[i] \in 0..Len(entries)
    BY <1>1, <2>1
  <2> HIDE DEF From
  <2>3. From(i) \in Int /\ bounds[i] \in Int
    BY <1>1, <2>2
  <2>4. \A k \in From(i)..bounds[i] : k \in 1..Len(entries)
    BY <1>1, <2>2
  <2>5. \A k \in From(i)..bounds[i] : entries[k] \in T
    BY <2>4, ElementOfSeq
  <2>6. QED
    BY <2>2, <2>3, <2>5, SubSeqProperties
<1>3. W = [i \in 1..L |-> SubSeq(entries, From(i), bounds[i])]
  BY <1>1 DEF Written
<1> HIDE DEF From, W
<1>4. W \in Seq(Seq(T)) /\ Len(W) = L
  <2>1. W \in [1..L -> Seq(T)]
    BY <1>2, <1>3
  <2> HIDE DEF L
  <2>2. QED
    BY <1>1, <2>1
<1>5. ASSUME L # 0 PROVE FlattenSeq(W) = SubSeq(entries, 1, bounds[L])
  <2>1. PICK f : /\ FlattenSeq(W) = f[L] /\ f[1] = W[1]
                 /\ \A i \in 1..(L - 1) : f[i + 1] = f[i] \o W[i + 1]
    <3>1. \E f : /\ FlattenSeq(W) = f[Len(W)] /\ f[1] = W[1]
                 /\ \A i \in 1..Len(W) : f[i] \in Seq(T)
                 /\ \A i \in 1..(Len(W) - 1) : f[i + 1] = f[i] \o W[i + 1]
      <4>1. Len(W) # 0
        BY <1>4, <1>5
      <4>2. QED
        BY <1>4, <4>1, FlattenFacts, Zenon
    <3>2. QED
      BY <1>4, <3>1
  <2> DEFINE P == {n \in Nat : n < L => f[n + 1] = SubSeq(entries, 1, bounds[n + 1])}
  <2>2. 0 \in P
    <3>1. 1 \in 1..L /\ 0 + 1 = 1 /\ From(1) = 1
      BY <1>1, <1>5 DEF From
    <3>2. f[1] = SubSeq(entries, 1, bounds[1])
      BY <1>3, <2>1, <3>1
    <3>3. QED
      BY <3>1, <3>2
  <2>3. ASSUME NEW n \in Nat, n \in P PROVE n + 1 \in P
    <3>1. SUFFICES ASSUME n + 1 < L
                   PROVE  f[(n + 1) + 1] = SubSeq(entries, 1, bounds[(n + 1) + 1])
      OBVIOUS
    <3>2. /\ n + 1 \in 1..(L - 1) /\ n + 1 \in 1..L /\ (n + 1) + 1 \in 1..L /\ n < L
          /\ (n + 1) + 1 # 1 /\ ((n + 1) + 1) - 1 = n + 1 /\ n + 1 <= (n + 1) + 1
      BY <1>1, <3>1
    <3>3. f[n + 1] = SubSeq(entries, 1, bounds[n + 1])
      BY <2>3, <3>2
    <3>4. W[(n + 1) + 1] = SubSeq(entries, bounds[n + 1] + 1, bounds[(n + 1) + 1])
      <4>1. From((n + 1) + 1) = bounds[n + 1] + 1
        BY <1>1, <3>2 DEF From
      <4>2. QED
        BY <1>3, <3>2, <4>1
    <3>5. bounds[n + 1] <= bounds[(n + 1) + 1]
      BY <3>2 DEF Grows
    <3>6. /\ bounds[n + 1] \in (1 - 1)..Len(entries)
          /\ bounds[(n + 1) + 1] \in bounds[n + 1]..Len(entries)
          /\ 1 \in 1..(Len(entries) + 1)
      BY <1>1, <3>2, <3>5
    <3>7. SubSeq(entries, 1, bounds[n + 1]) \o SubSeq(entries, bounds[n + 1] + 1, bounds[(n + 1) + 1])
            = SubSeq(entries, 1, bounds[(n + 1) + 1])
      BY <3>6, ConcatAdjacentSubSeq
    <3>8. f[(n + 1) + 1] = f[n + 1] \o W[(n + 1) + 1]
      BY <2>1, <3>2
    <3>9. QED
      BY <3>3, <3>4, <3>7, <3>8
  <2> HIDE DEF P
  <2>4. \A n \in Nat : n \in P
    BY <2>2, <2>3, Induct
  <2>5. L - 1 \in Nat /\ (L - 1) + 1 = L /\ L - 1 < L
    BY <1>1, <1>5
  <2>6. L - 1 \in P
    BY <2>4, <2>5
  <2>7. QED
    BY <2>1, <2>5, <2>6 DEF P
<1>6. QED
  BY <1>4, <1>5 DEF W

----------------------------------------------------------------------------
(* A schedule and what is written of it. *)

\* A step that succeeds needs of the entries only those that it and the steps before took.
LEMMA StepSame ==
  ASSUME NEW m \in Machines, NEW entries \in Seq(ReplayEntries), NEW others \in Seq(ReplayEntries),
         NEW r \in Replays(m), r.status = "ok", NEW q, q = ReplayStep(m, entries, r), q.status = "ok",
         q.taken <= Len(others), \A i \in 1..Len(others) : others[i] = entries[i]
  PROVE  ReplayStep(m, others, r) = q
<1> DEFINE action == Action(m, r.trace)
           choice == Decision(action, entries[r.taken + 1])
<1>1. r.taken \in Nat /\ Len(entries) \in Nat /\ Len(others) \in Nat
  BY DEF Replays
<1>2. CASE ~Draws(action)
  BY <1>2 DEF ReplayStep
<1>3. CASE Draws(action)
  <2>1. ~(r.taken >= Len(entries))
    <3>1. [r EXCEPT !.status = "exhausted"].status # "ok"
      BY DEF Replays
    <3>2. QED
      BY <1>3, <3>1 DEF ReplayStep
  <2>2. choice # None
    <3>1. [r EXCEPT !.status = "rejected"].status # "ok"
      BY DEF Replays
    <3>2. QED
      BY <1>3, <2>1, <3>1 DEF ReplayStep
  <2>3. q = AfterResult(r, r.taken + 1, action.to[choice])
    BY <1>3, <2>1, <2>2 DEF ReplayStep
  <2>4. q.taken = r.taken + 1
    BY <2>3 DEF AfterResult, Replays
  <2>5. others[r.taken + 1] = entries[r.taken + 1] /\ ~(r.taken >= Len(others))
    BY <1>1, <2>4
  <2>6. QED
    BY <1>3, <2>2, <2>3, <2>5 DEF ReplayStep
<1>4. QED
  BY <1>2, <1>3

LEMMA SameReplay ==
  ASSUME NEW m \in Machines, NEW entries \in Seq(ReplayEntries), NEW others \in Seq(ReplayEntries),
         NEW steps \in Nat, NEW retriesPerStep \in Nat,
         NEW A, AreAttempts(A, m, entries, steps, retriesPerStep),
         NEW B, AreAttempts(B, m, others, steps, retriesPerStep),
         NEW N \in Nat, A[N].status = "ok", Len(others) = A[N].taken,
         \A i \in 1..Len(others) : others[i] = entries[i]
  PROVE  B[N] = A[N]
<1> DEFINE P == {n \in Nat : n <= N => B[n] = A[n]}
<1>1. /\ \A n \in Nat : A[n] \in Replays(m)
      /\ A[0] = ReplayStart(steps, retriesPerStep) /\ B[0] = ReplayStart(steps, retriesPerStep)
      /\ \A n \in Nat : A[n + 1] = ReplayNext(m, entries, steps, A[n])
      /\ \A n \in Nat : B[n + 1] = ReplayNext(m, others, steps, B[n])
  BY DEF AreAttempts
<1>2. 0 \in P
  BY <1>1
<1>3. ASSUME NEW n \in Nat, n \in P PROVE n + 1 \in P
  <2>1. SUFFICES ASSUME n + 1 <= N PROVE B[n + 1] = A[n + 1]
    OBVIOUS
  <2>2. n <= N /\ n + 1 \in Nat
    BY <2>1
  <2>3. B[n] = A[n] /\ A[n] \in Replays(m)
    BY <1>1, <1>3, <2>2
  <2>4. /\ A[n + 1] = ReplayNext(m, entries, steps, A[n])
        /\ B[n + 1] = ReplayNext(m, others, steps, A[n])
    BY <1>1, <2>3
  <2>5. A[n + 1].taken <= Len(others) /\ A[n + 1].status = "ok"
    <3> HIDE DEF P
    <3>1. A[n + 1].taken <= A[N].taken /\ (A[N].status = "ok" => A[n + 1].status = "ok")
      BY <2>1, <2>2, AttemptsGrow
    <3>2. QED
      BY <3>1
  <2>6. CASE A[n].status = "ok" /\ Walking(A[n].trace, A[n].left, steps)
    <3>1. A[n + 1] = ReplayStep(m, entries, A[n]) /\ B[n + 1] = ReplayStep(m, others, A[n])
      BY <2>4, <2>6 DEF ReplayNext
    <3>2. QED
      BY <2>3, <2>5, <2>6, <3>1, StepSame
  <2>7. CASE ~(A[n].status = "ok" /\ Walking(A[n].trace, A[n].left, steps))
    BY <2>4, <2>7 DEF ReplayNext
  <2>8. QED
    BY <2>6, <2>7
<1> HIDE DEF P
<1>4. \A n \in Nat : n \in P
  BY <1>2, <1>3, Induct
<1>5. N \in P /\ N <= N
  BY <1>4
<1>6. QED
  BY <1>5 DEF P

\* The pieces of the entries up to a point are pieces of all of them.
LEMMA WrittenSame ==
  ASSUME NEW T, NEW entries \in Seq(T), NEW n \in 0..Len(entries), NEW bounds \in Seq(Nat), Grows(bounds, n)
  PROVE  Written(SubSeq(entries, 1, n), bounds) = Written(entries, bounds)
<1> DEFINE L == Len(bounds)
           From(i) == 1 + (IF i = 1 THEN 0 ELSE bounds[i - 1])
           E == SubSeq(entries, 1, n)
<1>1. L \in Nat /\ Len(entries) \in Nat /\ n \in Nat /\ DOMAIN bounds = 1..L
      /\ \A i \in 1..L : bounds[i] \in 0..n
  BY DEF Grows
<1>2. E \in Seq(T) /\ Len(E) = n /\ \A k \in 1..n : E[k] = entries[k]
  <2>1. \A k \in 1..n : entries[k] \in T
    BY <1>1, ElementOfSeq
  <2>2. QED
    BY <1>1, <2>1, SubSeqProperties
<1>3. ASSUME NEW i \in 1..L
      PROVE  SubSeq(E, From(i), bounds[i]) = SubSeq(entries, From(i), bounds[i])
  <2>1. i = 1 \/ i - 1 \in 1..L
    BY <1>1
  <2>2. From(i) \in Nat /\ From(i) >= 1 /\ bounds[i] \in 0..n
    BY <1>1, <2>1
  <2> DEFINE a == From(i)
             b == bounds[i]
  <2>3. a \in Int /\ b \in Int /\ a >= 1 /\ b <= n
    BY <1>1, <2>2
  <2> HIDE DEF E, From, a, b
  <2>4. ASSUME NEW k \in a..b PROVE E[k] = entries[k] /\ E[k] \in T /\ entries[k] \in T
    <3>1. k \in 1..n /\ k \in 1..Len(entries)
      BY <1>1, <2>3
    <3>2. QED
      BY <1>2, <3>1, ElementOfSeq
  <2>5. /\ SubSeq(E, a, b) \in Seq(T) /\ Len(SubSeq(E, a, b)) = IF a <= b THEN b - a + 1 ELSE 0
        /\ \A k \in 1..(b - a + 1) : SubSeq(E, a, b)[k] = E[a + k - 1]
    BY <2>3, <2>4, SubSeqProperties
  <2>6. /\ SubSeq(entries, a, b) \in Seq(T) /\ Len(SubSeq(entries, a, b)) = IF a <= b THEN b - a + 1 ELSE 0
        /\ \A k \in 1..(b - a + 1) : SubSeq(entries, a, b)[k] = entries[a + k - 1]
    BY <2>3, <2>4, SubSeqProperties
  <2>7. ASSUME NEW k \in 1..Len(SubSeq(E, a, b)) PROVE SubSeq(E, a, b)[k] = SubSeq(entries, a, b)[k]
    <3>1. k \in 1..(b - a + 1) /\ a + k - 1 \in a..b
      BY <2>3, <2>5
    <3>2. QED
      BY <2>4, <2>5, <2>6, <3>1
  <2>8. SubSeq(E, a, b) = SubSeq(entries, a, b)
    BY <2>5, <2>6, <2>7, SeqEqual
  <2>9. QED
    BY <2>8 DEF a, b
<1>4. Written(E, bounds) = [i \in 1..L |-> SubSeq(E, From(i), bounds[i])]
  BY <1>1 DEF Written
<1>5. Written(entries, bounds) = [i \in 1..L |-> SubSeq(entries, From(i), bounds[i])]
  BY <1>1 DEF Written
<1> HIDE DEF From, L
<1>6. Written(E, bounds) = Written(entries, bounds)
  BY <1>3, <1>4, <1>5
<1>7. QED
  BY <1>6 DEF E

\* A schedule that replays to the end is written as one that replays to the same
\* trace and is written as it is.
LEMMA WrittenReplays ==
  ASSUME NEW m \in Machines, NEW schedule \in Seq(Seq(ScheduleEntries)),
         NEW first, first = ScheduleReplay(m, schedule),
         first.status = "ok", Len(first.trace) = Len(schedule),
         NEW written, written = Rewritten(m, schedule)
  PROVE  /\ ScheduleReplay(m, written) = first
         /\ Rewritten(m, written) = written
<1> DEFINE E == FlattenSeq(schedule)
           steps == Len(schedule)
           N == steps + Budget(steps, MaxRetriesPerStep)
           A == Attempts(m, E, steps, MaxRetriesPerStep)
           F == FlattenSeq(written)
           B == Attempts(m, F, steps, MaxRetriesPerStep)
<1>1. E \in Seq(ScheduleEntries) /\ E \in Seq(ReplayEntries) /\ Len(E) \in Nat
  <2>1. E \in Seq(ScheduleEntries)
    BY FlattenTyped
  <2>2. ScheduleEntries \subseteq ReplayEntries
    BY DEF ScheduleEntries, ReplayEntries
  <2> HIDE DEF E
  <2>3. QED
    BY <2>1, <2>2, SeqMonotonic
<1>2. steps \in Nat /\ N \in Nat /\ MaxRetriesPerStep \in Nat
  <2>1. steps \in Nat /\ MaxRetriesPerStep \in Nat
    BY SettingsAssumption
  <2>2. Budget(steps, MaxRetriesPerStep) \in Nat
    BY <2>1, ReplayStartTyped
  <2>3. QED
    BY <2>1, <2>2
<1>3. first = A[N]
  BY DEF ScheduleReplay, Replayed
<1>4. written = Written(E, first.bounds)
  BY DEF Rewritten
<1> HIDE DEF E, steps, A
<1>5. AreAttempts(A, m, E, steps, MaxRetriesPerStep)
  BY <1>1, <1>2, AttemptsFacts DEF A
<1>6. first \in Replays(m) /\ Recorded(E, steps, first)
  <2> HIDE DEF B, F, N
  <2>1. A[N] \in Replays(m) /\ Recorded(E, steps, A[N])
    BY <1>1, <1>2, <1>5, AttemptsRecorded
  <2>2. QED
    BY <1>3, <2>1
<1>7. /\ first.bounds \in Seq(Nat) /\ first.taken \in 0..Len(E) /\ Grows(first.bounds, first.taken)
      /\ Len(first.bounds) = steps /\ (steps > 0 => first.bounds[steps] = first.taken)
  <2>1. first.bounds \in Seq(Nat) /\ first.taken \in Nat
    BY <1>6 DEF Replays
  <2>2. Len(first.trace) = steps
    BY DEF steps
  <2>3. QED
    BY <1>1, <1>6, <2>1, <2>2 DEF Recorded
<1>8. Grows(first.bounds, Len(E))
  <2>1. first.taken \in Nat /\ first.taken <= Len(E)
    BY <1>1, <1>7
  <2>2. QED
    BY <1>1, <1>7, <2>1, GrowsAppend
<1>9. /\ written \in Seq(Seq(ScheduleEntries)) /\ Len(written) = steps
      /\ steps # 0 => F = SubSeq(E, 1, first.bounds[steps])
  BY <1>1, <1>4, <1>7, <1>8, WrittenFlattened
<1>10. F = SubSeq(E, 1, first.taken)
  <2>1. CASE steps # 0
    BY <1>2, <1>7, <1>9, <2>1
  <2>2. CASE steps = 0
    <3>1. written = <<>> /\ schedule = <<>>
      BY <1>9, <2>2 DEF steps
    <3>2. F = <<>> /\ E = <<>>
      BY <3>1 DEF FlattenSeq, E
    <3>3. first.taken = 0
      BY <1>7, <3>2
    <3> HIDE DEF F
    <3>4. QED
      BY <3>2, <3>3, SubSeqEmpty
  <2>3. QED
    BY <2>1, <2>2
<1>11. /\ F \in Seq(ReplayEntries) /\ Len(F) = first.taken
       /\ \A i \in 1..Len(F) : F[i] = E[i]
  <2> HIDE DEF F
  <2>1. \A k \in 1..first.taken : E[k] \in ReplayEntries
    BY <1>1, <1>7, ElementOfSeq
  <2>2. first.taken \in Int /\ first.taken >= 0
    BY <1>1, <1>7
  <2>3. QED
    BY <1>10, <2>1, <2>2, SubSeqProperties
<1>12. B[N] = first
  <2> HIDE DEF B, F, N
  <2>1. AreAttempts(B, m, F, steps, MaxRetriesPerStep)
    BY <1>2, <1>11, AttemptsFacts DEF B
  <2>2. QED
    BY <1>1, <1>2, <1>3, <1>5, <1>11, <2>1, SameReplay
<1>13. ScheduleReplay(m, written) = first
  BY <1>9, <1>12 DEF ScheduleReplay, Replayed
<1>14. Rewritten(m, written) = Written(F, first.bounds)
  BY <1>13 DEF Rewritten
<1>15. Written(F, first.bounds) = written
  <2> HIDE DEF F
  <2>1. QED
    BY <1>1, <1>4, <1>7, <1>10, WrittenSame
<1>16. QED
  BY <1>13, <1>14, <1>15

----------------------------------------------------------------------------
(* The verdicts, from the cache or not. *)

\* The entries of a cache that say what the invariant says.
Cached(S) == {e \in S \X BOOLEAN : e[2] <=> e[1] \in Bad}

\* A nonempty set of naturals has a smallest member, which Min returns.
LEMMA MinIsSmallest ==
  ASSUME NEW T \in SUBSET Nat, T # {}
  PROVE  Min(T) \in T /\ \A y \in T : Min(T) <= y
<1>1. PICK x \in T : \A y \in T : ~(<<y, x>> \in OpToRel(<, Nat))
  BY NatLessThanWellFounded, WFMin, Zenon
<1>2. \A y \in T : ~(y < x)
  BY <1>1, Zenon DEF OpToRel
<1>3. \E z \in T : \A y \in T : z <= y
  BY <1>2
<1>4. QED
  BY <1>3 DEF Min

LEMMA FirstBadFacts ==
  ASSUME NEW S, NEW states \in Seq(S)
  PROVE  /\ FirstBad(states) \in 0..Len(states)
         /\ FirstBad(states) # 0 => /\ states[FirstBad(states)] \in Bad
                                    /\ \A i \in 1..(FirstBad(states) - 1) : states[i] \notin Bad
         /\ FirstBad(states) = 0 => \A i \in 1..Len(states) : states[i] \notin Bad
<1> DEFINE I == {i \in 1..Len(states) : states[i] \in Bad}
<1>1. FirstBad(states) = IF I # {} THEN Min(I) ELSE 0
  BY DEF FirstBad, SelectInSeq
<1>2. Len(states) \in Nat /\ I \in SUBSET Nat
  OBVIOUS
<1>3. CASE I = {}
  BY <1>1, <1>2, <1>3
<1>4. CASE I # {}
  <2>1. Min(I) \in I /\ \A y \in I : Min(I) <= y
    BY <1>2, <1>4, MinIsSmallest
  <2>2. FirstBad(states) = Min(I)
    BY <1>1, <1>4
  <2>3. FirstBad(states) \in 1..Len(states) /\ states[FirstBad(states)] \in Bad
    BY <2>1, <2>2
  <2>4. ASSUME NEW i \in 1..(FirstBad(states) - 1) PROVE states[i] \notin Bad
    <3>1. i \in 1..Len(states) /\ ~(FirstBad(states) <= i)
      BY <1>2, <2>3
    <3>2. QED
      BY <2>1, <2>2, <3>1
  <2>5. QED
    BY <1>2, <2>3, <2>4
<1>5. QED
  BY <1>3, <1>4

LEMMA PairFacts ==
  ASSUME NEW S, NEW s \in S, NEW b \in BOOLEAN
  PROVE  <<s, b>> \in S \X BOOLEAN /\ <<s, b>>[1] = s /\ <<s, b>>[2] = b
  OBVIOUS

\* A verdict on a state is what the invariant says of it, and so is what is kept.
LEMMA EvaluatedFacts ==
  ASSUME NEW S, NEW c \in Seq(Cached(S)), NEW s \in S
  PROVE  /\ Evaluated(c, s).cache \in Seq(Cached(S))
         /\ Evaluated(c, s).matches <=> s \in Bad
<1> DEFINE I == {i \in 1..Len(c) : c[i][1] = s}
           at == SelectInSeq(c, LAMBDA e : e[1] = s)
           entry == IF at = 0 THEN <<s, s \in Bad>> ELSE c[at]
           kept == Append(IF at = 0 THEN c ELSE RemoveAt(c, at), entry)
           after == IF Len(kept) > CacheSize THEN Tail(kept) ELSE kept
<1>1. at = 0 \/ at \in I
  <2>1. at = IF I # {} THEN Min(I) ELSE 0
    BY DEF SelectInSeq
  <2>2. I \in SUBSET Nat
    OBVIOUS
  <2>3. I # {} => Min(I) \in I
    BY <2>2, MinIsSmallest
  <2>4. QED
    BY <2>1, <2>3
<1>2. Evaluated(c, s) = [cache |-> after, matches |-> entry[2]]
  BY DEF Evaluated
<1> HIDE DEF at
<1>3. entry \in Cached(S) /\ entry[1] = s
  <2>1. CASE at = 0
    <3>1. entry = <<s, s \in Bad>>
      BY <2>1
    <3>2. (s \in Bad) \in BOOLEAN
      OBVIOUS
    <3>3. /\ <<s, s \in Bad>> \in S \X BOOLEAN
          /\ <<s, s \in Bad>>[1] = s /\ <<s, s \in Bad>>[2] = (s \in Bad)
      BY <3>2, PairFacts, Zenon
    <3>4. QED
      BY <3>1, <3>3, Zenon DEF Cached
  <2>2. CASE at \in I
    <3>1. at # 0 /\ at \in 1..Len(c) /\ c[at][1] = s
      BY <2>2
    <3> HIDE DEF I
    <3>2. c[at] \in Cached(S)
      BY <3>1, ElementOfSeq
    <3>3. QED
      BY <3>1, <3>2
  <2>3. QED
    BY <1>1, <2>1, <2>2
<1> HIDE DEF entry
<1>4. entry[2] <=> s \in Bad
  BY <1>3, Zenon DEF Cached
<1>5. (IF at = 0 THEN c ELSE RemoveAt(c, at)) \in Seq(Cached(S))
  <2>1. CASE at = 0
    BY <2>1
  <2>2. CASE at \in I
    <3>1. at \in 1..Len(c)
      BY <2>2
    <3> HIDE DEF I
    <3> DEFINE C == Cached(S)
    <3>2. \A k \in 1..Len(c) : c[k] \in C
      BY ElementOfSeq
    <3> HIDE DEF C
    <3>3. SubSeq(c, 1, at - 1) \in Seq(C)
      <4>1. \A k \in 1..(at - 1) : k \in 1..Len(c)
        BY <3>1
      <4>2. QED
        BY <3>1, <3>2, <4>1, SubSeqProperties
    <3>4. SubSeq(c, at + 1, Len(c)) \in Seq(C)
      <4>1. \A k \in (at + 1)..Len(c) : k \in 1..Len(c)
        BY <3>1
      <4>2. Len(c) \in Int /\ at + 1 \in Int
        BY <3>1
      <4>3. QED
        BY <3>2, <4>1, <4>2, SubSeqProperties
    <3>5. RemoveAt(c, at) \in Seq(C)
      BY <3>3, <3>4, ConcatProperties DEF RemoveAt
    <3>6. QED
      BY <3>1, <3>5 DEF C
  <2>3. QED
    BY <1>1, <2>1, <2>2
<1>6. kept \in Seq(Cached(S)) /\ kept # <<>>
  BY <1>3, <1>5, AppendProperties
<1> HIDE DEF kept
<1>7. after \in Seq(Cached(S))
  BY <1>6, HeadTailProperties
<1> HIDE DEF after
<1>8. Evaluated(c, s).cache = after /\ Evaluated(c, s).matches = entry[2]
  BY <1>2
<1>9. QED
  BY <1>4, <1>7, <1>8, Zenon

Checks(S) == [cache : Seq(Cached(S)), at : Nat]

LEMMA EvaluatedNextFacts ==
  ASSUME NEW S, NEW r \in Checks(S), NEW s \in S, NEW i \in Nat
  PROVE  /\ EvaluatedNext(r, s, i) \in Checks(S)
         /\ r.at # 0 => EvaluatedNext(r, s, i) = r
         /\ r.at = 0 => EvaluatedNext(r, s, i).at = IF s \in Bad THEN i ELSE 0
<1>1. CASE r.at # 0
  BY <1>1 DEF EvaluatedNext
<1>2. CASE r.at = 0
  <2> DEFINE e == Evaluated(r.cache, s)
  <2>1. e.cache \in Seq(Cached(S)) /\ (e.matches <=> s \in Bad)
    BY EvaluatedFacts DEF Checks
  <2>2. EvaluatedNext(r, s, i) = [cache |-> e.cache, at |-> IF e.matches THEN i ELSE 0]
    BY <1>2 DEF EvaluatedNext
  <2> HIDE DEF e
  <2>3. (IF e.matches THEN i ELSE 0) = (IF s \in Bad THEN i ELSE 0)
    <3>1. CASE s \in Bad
      BY <2>1, <3>1, Zenon
    <3>2. CASE s \notin Bad
      BY <2>1, <3>2, Zenon
    <3>3. QED
      BY <3>1, <3>2
  <2>4. EvaluatedNext(r, s, i) = [cache |-> e.cache, at |-> IF s \in Bad THEN i ELSE 0]
    BY <2>2, <2>3, Zenon
  <2>5. e.cache \in Seq(Cached(S))
    BY <2>1, Zenon
  <2>6. QED
    BY <1>2, <2>4, <2>5 DEF Checks
<1>3. QED
  BY <1>1, <1>2

LEMMA EvaluatedUpToFacts ==
  ASSUME NEW S, NEW c \in Seq(Cached(S)), NEW states \in Seq(S), NEW F, F = EvaluatedUpTo(c, states)
  PROVE  /\ F[0] = [cache |-> c, at |-> 0]
         /\ \A n \in Nat : n < Len(states) => F[n + 1] = EvaluatedNext(F[n], states[n + 1], n + 1)
<1> DEFINE L == Len(states)
           start == [cache |-> c, at |-> 0]
           step == [p \in Nat \X Checks(S) |->
                      IF p[1] < L THEN EvaluatedNext(p[2], states[p[1] + 1], p[1] + 1) ELSE p[2]]
           Of(q) == [n \in 0..L |-> IF n = 0 THEN start ELSE EvaluatedNext(q[n - 1], states[n], n)]
<1>1. L \in Nat /\ \A i \in 1..L : states[i] \in S
  BY ElementOfSeq
<1>2. start \in Checks(S)
  BY DEF Checks
<1>3. step \in [Nat \X Checks(S) -> Checks(S)]
  <2>1. ASSUME NEW p \in Nat \X Checks(S)
        PROVE  (IF p[1] < L THEN EvaluatedNext(p[2], states[p[1] + 1], p[1] + 1) ELSE p[2]) \in Checks(S)
    <3>1. p[1] \in Nat /\ p[1] + 1 \in Nat /\ p[2] \in Checks(S)
      OBVIOUS
    <3>2. CASE p[1] < L
      <4>1. states[p[1] + 1] \in S
        BY <1>1, <3>1, <3>2
      <4>2. EvaluatedNext(p[2], states[p[1] + 1], p[1] + 1) \in Checks(S)
        BY <3>1, <4>1, EvaluatedNextFacts
      <4>3. QED
        BY <3>2, <4>2
    <3>3. QED
      BY <3>1, <3>2
  <2>2. QED
    BY <2>1
<1>4. PICK g : GivenBy(g, Checks(S), start, step)
  <2> HIDE DEF start, step
  <2>1. QED
    BY <1>2, <1>3, Recursion, Zenon
<1>5. /\ g[0] = start /\ \A n \in Nat : g[n] \in Checks(S)
      /\ \A n \in Nat : n < L => g[n + 1] = EvaluatedNext(g[n], states[n + 1], n + 1)
  BY <1>4 DEF GivenBy
<1> DEFINE h == [n \in 0..L |-> g[n]]
<1>6. h = Of(h)
  <2> HIDE DEF start
  <2>1. ASSUME NEW n \in 0..L PROVE h[n] = Of(h)[n]
    <3>1. CASE n = 0
      BY <1>5, <3>1
    <3>2. CASE n # 0
      <4>1. n - 1 \in Nat /\ (n - 1) + 1 = n /\ n - 1 < L /\ n - 1 \in 0..L
        BY <1>1, <3>2
      <4>2. g[n] = EvaluatedNext(g[n - 1], states[n], n)
        BY <1>5, <4>1
      <4>3. QED
        BY <3>2, <4>1, <4>2
    <3>3. QED
      BY <3>1, <3>2
  <2>2. QED
    BY <2>1
<1>7. F = CHOOSE q : q = Of(q)
  BY DEF EvaluatedUpTo
<1>8. F = Of(F)
  <2> HIDE DEF Of, h
  <2>1. QED
    BY <1>6, <1>7, Zenon
<1>9. F[0] = start
  <2> HIDE DEF start
  <2>1. 0 \in 0..L
    BY <1>1
  <2>2. QED
    BY <1>8, <2>1
<1>10. ASSUME NEW n \in Nat, n < L PROVE F[n + 1] = EvaluatedNext(F[n], states[n + 1], n + 1)
  <2>1. n + 1 \in 0..L /\ n + 1 # 0 /\ (n + 1) - 1 = n
    BY <1>1, <1>10
  <2> HIDE DEF start, L
  <2>2. QED
    BY <1>8, <2>1
<1>11. QED
  BY <1>9, <1>10

\* The first state that violates the invariant is found, whatever the cache knows.
LEMMA CheckedFacts ==
  ASSUME NEW S, NEW c \in Seq(Cached(S)), NEW states \in Seq(S)
  PROVE  /\ Checked(c, states).cache \in Seq(Cached(S))
         /\ Checked(c, states).at = FirstBad(states)
<1> DEFINE F == EvaluatedUpTo(c, states)
           L == Len(states)
           Ok(n) == /\ F[n] \in Checks(S) /\ F[n].at <= n
                    /\ F[n].at # 0 => /\ states[F[n].at] \in Bad
                                      /\ \A i \in 1..(F[n].at - 1) : states[i] \notin Bad
                    /\ F[n].at = 0 => \A i \in 1..n : states[i] \notin Bad
           P == {n \in Nat : n <= L => Ok(n)}
<1>1. L \in Nat
  OBVIOUS
<1>2. /\ F[0] = [cache |-> c, at |-> 0]
      /\ \A n \in Nat : n < L => F[n + 1] = EvaluatedNext(F[n], states[n + 1], n + 1)
  BY EvaluatedUpToFacts
<1> HIDE DEF F
<1>3. 0 \in P
  BY <1>2 DEF Checks
<1>4. ASSUME NEW n \in Nat, n \in P PROVE n + 1 \in P
  <2>1. SUFFICES ASSUME n + 1 <= L PROVE Ok(n + 1)
    OBVIOUS
  <2>2. n <= L /\ n < L /\ n + 1 \in 1..L /\ n + 1 \in Nat /\ n + 1 # 0
    BY <1>1, <2>1
  <2>3. Ok(n)
    BY <1>4, <2>2
  <2>4. F[n + 1] = EvaluatedNext(F[n], states[n + 1], n + 1) /\ states[n + 1] \in S
    BY <1>2, <2>2, ElementOfSeq
  <2>5. /\ F[n + 1] \in Checks(S)
        /\ F[n].at # 0 => F[n + 1] = F[n]
        /\ F[n].at = 0 => F[n + 1].at = IF states[n + 1] \in Bad THEN n + 1 ELSE 0
    BY <2>2, <2>3, <2>4, EvaluatedNextFacts
  <2>6. F[n].at \in Nat /\ F[n].at <= n
    BY <2>3 DEF Checks
  <2>7. CASE F[n].at # 0
    <3>1. F[n + 1] = F[n] /\ F[n].at <= n + 1
      BY <2>5, <2>6, <2>7
    <3>2. QED
      BY <2>3, <2>7, <3>1
  <2>8. CASE F[n].at = 0
    <3>1. \A i \in 1..n : states[i] \notin Bad
      BY <2>3, <2>8
    <3>2. \A i \in 1..(n + 1) : i \in 1..n \/ i = n + 1
      OBVIOUS
    <3>3. (n + 1) - 1 = n
      OBVIOUS
    <3>4. CASE states[n + 1] \in Bad
      <4>1. F[n + 1].at = n + 1
        BY <2>5, <2>8, <3>4
      <4>2. QED
        BY <2>2, <2>5, <3>1, <3>3, <3>4, <4>1
    <3>5. CASE states[n + 1] \notin Bad
      <4>1. F[n + 1].at = 0
        BY <2>5, <2>8, <3>5
      <4>2. QED
        BY <2>2, <2>5, <3>1, <3>2, <3>5, <4>1
    <3>6. QED
      BY <3>4, <3>5
  <2>9. QED
    BY <2>7, <2>8
<1> HIDE DEF P
<1>5. \A n \in Nat : n \in P
  BY <1>3, <1>4, Induct
<1>6. Ok(L)
  BY <1>1, <1>5 DEF P
<1>7. Checked(c, states) = F[L]
  BY DEF Checked, F
<1>8. F[L].at = FirstBad(states)
  <2>1. /\ FirstBad(states) \in 0..L
        /\ FirstBad(states) # 0 => /\ states[FirstBad(states)] \in Bad
                                   /\ \A i \in 1..(FirstBad(states) - 1) : states[i] \notin Bad
        /\ FirstBad(states) = 0 => \A i \in 1..L : states[i] \notin Bad
    BY FirstBadFacts
  <2> DEFINE a == F[L].at
             b == FirstBad(states)
  <2>2. a \in 0..L /\ b \in 0..L
    BY <1>1, <1>6, <2>1 DEF Checks
  <2>3. /\ a # 0 => states[a] \in Bad /\ \A i \in 1..(a - 1) : states[i] \notin Bad
        /\ a = 0 => \A i \in 1..L : states[i] \notin Bad
    BY <1>6
  <2>4. /\ b # 0 => states[b] \in Bad /\ \A i \in 1..(b - 1) : states[i] \notin Bad
        /\ b = 0 => \A i \in 1..L : states[i] \notin Bad
    BY <2>1
  <2> HIDE DEF a, b
  <2>5. a = b
    <3>1. CASE a = 0 \/ b = 0
      BY <1>1, <2>2, <2>3, <2>4, <3>1
    <3>2. CASE a # 0 /\ b # 0
      <4>1. ~(a < b) /\ ~(b < a)
        BY <1>1, <2>2, <2>3, <2>4, <3>2
      <4>2. QED
        BY <1>1, <2>2, <4>1
    <3>3. QED
      BY <3>1, <3>2
  <2>6. QED
    BY <2>5 DEF a, b
<1>9. QED
  BY <1>6, <1>7, <1>8 DEF Checks

----------------------------------------------------------------------------
(* A walk and the replays of its tape. *)

TapeEntries == {"tape"} \X Raw
\* The entries begin with the numbers of a tape.
BeginsWith(entries, numbers) ==
  Len(numbers) <= Len(entries) /\ \A i \in 1..Len(numbers) : entries[i] = <<"tape", numbers[i]>>

LEMMA AfterResultFields ==
  ASSUME NEW m, NEW r \in Replays(m), NEW taken, NEW result
  PROVE  LET q == AfterResult(r, taken, result)
         IN /\ q.trace = IF result \in {Blocked, Failure} THEN r.trace ELSE Append(r.trace, result)
            /\ q.left = IF result = Blocked THEN r.left - 1 ELSE r.left
            /\ q.taken = taken
            /\ q.status = IF result = Failure THEN "failed" ELSE r.status
<1>1. CASE result = Failure
  BY <1>1 DEF AfterResult, Replays, Failure, Blocked
<1>2. CASE result = Blocked
  BY <1>2 DEF AfterResult, Replays, Failure, Blocked
<1>3. CASE result \notin {Blocked, Failure}
  BY <1>3 DEF AfterResult, Replays
<1>4. QED
  BY <1>1, <1>2, <1>3

Follows(q, r, result, taken) ==
  /\ q.trace = IF result \in {Blocked, Failure} THEN r.trace ELSE Append(r.trace, result)
  /\ q.left = IF result = Blocked THEN r.left - 1 ELSE r.left
  /\ q.taken = taken
  /\ q.status = IF result = Failure THEN "failed" ELSE "ok"

\* An attempt of a walk is an attempt of a replay of what its tape becomes.
LEMMA StepFollows ==
  ASSUME NEW m \in Machines, NEW entries \in Seq(TapeEntries), NEW r \in Replays(m), r.status = "ok",
         NEW numbers \in Seq(Raw), r.taken = Len(numbers),
         NEW action, action = Action(m, r.trace), NEW raw \in IF Draws(action) THEN Raw ELSE {None},
         NEW result, result = IF Draws(action) THEN action.to[raw] ELSE action.to[0],
         NEW after, after = (IF Draws(action) THEN Append(numbers, raw) ELSE numbers),
         BeginsWith(entries, after)
  PROVE  Follows(ReplayStep(m, entries, r), r, result, Len(after))
<1>1. ReplayStep(m, entries, r) = AfterResult(r, Len(after), result)
  <2>1. CASE ~Draws(action)
    BY <2>1 DEF ReplayStep
  <2>2. CASE Draws(action)
    <3>1. after = Append(numbers, raw) /\ raw \in Raw
      BY <2>2
    <3>2. Len(after) = Len(numbers) + 1 /\ after[Len(numbers) + 1] = raw /\ Len(numbers) \in Nat
          /\ Len(entries) \in Nat
      BY <3>1, AppendProperties
    <3>3. entries[r.taken + 1] = <<"tape", raw>> /\ ~(r.taken >= Len(entries))
      BY <3>2 DEF BeginsWith
    <3>4. Decision(action, entries[r.taken + 1]) = raw /\ raw # None
      BY <3>1, <3>3 DEF Decision, Raw, None
    <3>5. QED
      BY <2>2, <3>2, <3>3, <3>4 DEF ReplayStep
  <2>3. QED
    BY <2>1, <2>2
<1>2. QED
  BY <1>1, AfterResultFields DEF Follows

\* What an attempt draws and ends in.
LEMMA AttemptTyped ==
  ASSUME NEW m \in Machines, NEW states \in Seq(StatesOf(m)), NEW numbers \in Seq(Raw),
         NEW action, action = Action(m, states), NEW raw \in IF Draws(action) THEN Raw ELSE {None},
         NEW result, result = IF Draws(action) THEN action.to[raw] ELSE action.to[0]
  PROVE  /\ (IF Draws(action) THEN Append(numbers, raw) ELSE numbers) \in Seq(Raw)
         /\ \A entries : BeginsWith(entries, IF Draws(action) THEN Append(numbers, raw) ELSE numbers)
                           /\ Len(entries) \in Nat => BeginsWith(entries, numbers)
         /\ (IF result \in {Blocked, Failure} THEN states ELSE Append(states, result)) \in Seq(StatesOf(m))
<1>1. CASE Draws(action)
  <2>1. raw \in Raw /\ result = action.to[raw]
    BY <1>1
  <2>2. result \in Results(m)
    BY <2>1, ActionFacts
  <2>3. /\ Append(numbers, raw) \in Seq(Raw) /\ Len(Append(numbers, raw)) = Len(numbers) + 1
        /\ \A i \in 1..Len(numbers) : Append(numbers, raw)[i] = numbers[i]
    BY <2>1, AppendProperties
  <2>4. result \notin {Blocked, Failure} => Append(states, result) \in Seq(StatesOf(m))
    BY <2>2 DEF Results
  <2>5. ASSUME NEW entries, BeginsWith(entries, Append(numbers, raw)), Len(entries) \in Nat
        PROVE  BeginsWith(entries, numbers)
    <3>1. Len(numbers) \in Nat /\ Len(numbers) + 1 <= Len(entries)
      BY <2>3, <2>5 DEF BeginsWith
    <3>2. \A i \in 1..Len(numbers) : i \in 1..(Len(numbers) + 1)
      BY <3>1
    <3>3. QED
      BY <2>3, <2>5, <3>1, <3>2 DEF BeginsWith
  <2>6. QED
    BY <1>1, <2>3, <2>4, <2>5
<1>2. CASE ~Draws(action)
  <2>1. 0 \in Raw /\ result = action.to[0]
    BY <1>2 DEF Raw
  <2>2. result \in Results(m)
    BY <2>1, ActionFacts
  <2>3. result \notin {Blocked, Failure} => Append(states, result) \in Seq(StatesOf(m))
    BY <2>2 DEF Results
  <2>4. QED
    BY <1>2, <2>3
<1>3. QED
  BY <1>1, <1>2

----------------------------------------------------------------------------
(* The invariant of the walks. *)

WalkBudget == Budget(MaxSteps, MaxRetriesPerStep)
Findings(m) == [tape : Seq(Raw), at : Nat, prefix : Seq(StatesOf(m))]

WalkTypeOK ==
  /\ machine \in Machines
  /\ phase \in {"walking", "checking", "over", "failed", "loading", "replayed"}
  /\ tape \in Seq(Raw) /\ trace \in Seq(StatesOf(machine)) /\ retries \in Int
  /\ found \in Seq(Findings(machine))
  /\ best \in [tape : Seq(Raw), trace : Seq(StatesOf(machine))]
  /\ cache \in Seq(Cached(StatesOf(machine)))
  /\ phase = "replayed" => \E schedule \in GivenSchedules : scheduled = <<schedule>>

\* The replay of any numbers that begin with the tape is after as many attempts
\* where the walk is.
AttemptsMade ==
  Len(trace) + (WalkBudget - retries) + (IF phase = "failed" THEN 1 ELSE 0)
ReplaysTo(m, numbers, states, left, attempts, status) ==
  \A entries \in Seq(TapeEntries) :
    BeginsWith(entries, numbers) =>
      LET r == Attempts(m, entries, MaxSteps, MaxRetriesPerStep)[attempts]
      IN r.trace = states /\ r.left = left /\ r.taken = Len(numbers) /\ r.status = status
WalkStatus == IF phase = "failed" THEN "failed" ELSE "ok"
InStep == ReplaysTo(machine, tape, trace, retries, AttemptsMade, WalkStatus)
WithinBudget ==
  /\ Len(trace) <= MaxSteps /\ 0 <= retries /\ retries <= WalkBudget
  /\ phase = "failed" => Walking(trace, retries, MaxSteps)
  /\ phase = "checking" => ~Walking(trace, retries, MaxSteps)

WalkInv ==
  /\ WalkTypeOK
  /\ phase \in {"walking", "checking", "failed"} => WithinBudget /\ InStep
  /\ PrintedSeedsReplay

LEMMA BudgetTyped == WalkBudget \in Nat /\ MaxSteps \in Nat /\ MaxRetriesPerStep \in Nat
<1>1. MaxSteps \in Nat /\ MaxRetriesPerStep \in Nat
  BY SettingsAssumption
<1>2. QED
  BY <1>1, ReplayStartTyped DEF WalkBudget

LEMMA TapeEntriesReplay ==
  ASSUME NEW entries \in Seq(TapeEntries)
  PROVE  entries \in Seq(ReplayEntries)
<1>1. TapeEntries \subseteq ReplayEntries
  BY DEF TapeEntries, ReplayEntries
<1>2. QED
  BY <1>1, SeqMonotonic

LEMMA TapeBegins ==
  ASSUME NEW numbers \in Seq(Raw)
  PROVE  OfTape(numbers) \in Seq(TapeEntries) /\ BeginsWith(OfTape(numbers), numbers)
<1>1. DOMAIN numbers = 1..Len(numbers) /\ Len(numbers) \in Nat /\ \A i \in 1..Len(numbers) : numbers[i] \in Raw
  BY ElementOfSeq
<1>2. OfTape(numbers) = [i \in 1..Len(numbers) |-> <<"tape", numbers[i]>>]
  BY <1>1 DEF OfTape
<1>3. OfTape(numbers) \in [1..Len(numbers) -> TapeEntries]
  BY <1>1, <1>2 DEF TapeEntries
<1>4. OfTape(numbers) \in Seq(TapeEntries) /\ Len(OfTape(numbers)) = Len(numbers)
  BY <1>1, <1>3
<1>5. QED
  BY <1>1, <1>2, <1>4 DEF BeginsWith

\* A trace that is complete, or that an error ended, is replayed from its tape.
LEMMA TapeReplays ==
  ASSUME NEW m \in Machines, NEW numbers \in Seq(Raw), NEW states, NEW left, NEW k \in Nat, NEW status,
         k <= MaxSteps + WalkBudget, ReplaysTo(m, numbers, states, left, k, status),
         ~(status = "ok" /\ Walking(states, left, MaxSteps))
  PROVE  SeedReplay(m, numbers).trace = states /\ SeedReplay(m, numbers).status = status
<1> DEFINE E == OfTape(numbers)
           A == Attempts(m, E, MaxSteps, MaxRetriesPerStep)
           N == MaxSteps + WalkBudget
<1>1. E \in Seq(TapeEntries) /\ E \in Seq(ReplayEntries) /\ BeginsWith(E, numbers)
  BY TapeBegins, TapeEntriesReplay
<1>2. N \in Nat /\ k <= N
  BY BudgetTyped
<1>3. A[k].trace = states /\ A[k].left = left /\ A[k].status = status
  BY <1>1 DEF ReplaysTo
<1>4. SeedReplay(m, numbers) = A[N]
  BY DEF SeedReplay, Replayed, WalkBudget
<1> HIDE DEF E, N
<1>5. AreAttempts(A, m, E, MaxSteps, MaxRetriesPerStep)
  BY <1>1, BudgetTyped, AttemptsFacts
<1> HIDE DEF A
<1>6. ~(A[k].status = "ok" /\ Walking(A[k].trace, A[k].left, MaxSteps))
  BY <1>3
<1>7. A[N] = A[k]
  BY <1>1, <1>2, <1>5, <1>6, BudgetTyped, ReplayStays
<1>8. QED
  BY <1>3, <1>4, <1>7

LEMMA WithinBudgetAttempts ==
  ASSUME WalkTypeOK, WithinBudget
  PROVE  AttemptsMade \in Nat /\ AttemptsMade <= MaxSteps + WalkBudget
<1>1. retries \in Int /\ Len(trace) \in Nat
  BY DEF WalkTypeOK
<1>2. phase = "failed" => Len(trace) < MaxSteps
  BY DEF WithinBudget, Walking
<1>3. CASE phase = "failed"
  BY <1>1, <1>2, <1>3, BudgetTyped DEF AttemptsMade, WithinBudget
<1>4. CASE phase # "failed"
  BY <1>1, <1>4, BudgetTyped DEF AttemptsMade, WithinBudget
<1>5. QED
  BY <1>3, <1>4

----------------------------------------------------------------------------
(* The steps of the walks. *)

\* Before the first attempt.
LEMMA StartReplays ==
  ASSUME NEW m \in Machines, NEW entries \in Seq(TapeEntries)
  PROVE  LET r == Attempts(m, entries, MaxSteps, MaxRetriesPerStep)[0]
         IN r.trace = <<>> /\ r.left = WalkBudget /\ r.taken = 0 /\ r.status = "ok"
<1> DEFINE A == Attempts(m, entries, MaxSteps, MaxRetriesPerStep)
<1>1. AreAttempts(A, m, entries, MaxSteps, MaxRetriesPerStep)
  BY BudgetTyped, TapeEntriesReplay, AttemptsFacts
<1>2. A[0] = ReplayStart(MaxSteps, MaxRetriesPerStep)
  BY <1>1 DEF AreAttempts
<1>3. QED
  BY <1>2 DEF ReplayStart, WalkBudget

LEMMA WalkInitInv == WalkInit => WalkInv
<1>1. SUFFICES ASSUME WalkInit PROVE WalkInv
  OBVIOUS
<1>2. /\ machine \in Machines /\ phase \in {"walking", "loading"}
      /\ tape = <<>> /\ trace = <<>> /\ retries = WalkBudget /\ found = <<>>
      /\ best = [tape |-> <<>>, trace |-> <<>>] /\ cache = <<>>
  BY <1>1 DEF WalkInit, WalkBudget
<1>3. WalkTypeOK
  BY <1>2, BudgetTyped DEF WalkTypeOK
<1>4. WithinBudget
  BY <1>2, BudgetTyped DEF WithinBudget
<1>5. ASSUME NEW entries \in Seq(TapeEntries)
      PROVE  LET r == Attempts(machine, entries, MaxSteps, MaxRetriesPerStep)[0]
             IN r.trace = <<>> /\ r.left = WalkBudget /\ r.taken = 0 /\ r.status = "ok"
  BY <1>2, StartReplays
<1>6. InStep
  <2>1. AttemptsMade = 0 /\ WalkStatus = "ok" /\ Len(tape) = 0
    BY <1>2, BudgetTyped DEF AttemptsMade, WalkStatus
  <2>2. QED
    BY <1>2, <1>5, <2>1 DEF InStep, ReplaysTo
<1>7. PrintedSeedsReplay
  BY <1>2 DEF PrintedSeedsReplay, BestReplays, FailureReplays
<1>8. QED
  BY <1>3, <1>4, <1>6, <1>7 DEF WalkInv

LEMMA AttemptInv ==
  ASSUME WalkInv, Attempt
  PROVE  WalkInv'
<1> DEFINE action == Action(machine, trace)
<1>1. /\ WalkTypeOK /\ phase = "walking" /\ Walking(trace, retries, MaxSteps) /\ WithinBudget /\ InStep
      /\ PrintedSeedsReplay
  BY DEF WalkInv, Attempt
<1>2. PICK raw \in IF Draws(action) THEN Raw ELSE {None} :
        LET to == IF Draws(action) THEN action.to[raw] ELSE action.to[0]
        IN /\ tape' = IF Draws(action) THEN Append(tape, raw) ELSE tape
           /\ trace' = IF to \in {Blocked, Failure} THEN trace ELSE Append(trace, to)
           /\ retries' = IF to = Blocked THEN retries - 1 ELSE retries
           /\ phase' = IF to = Failure THEN "failed" ELSE phase
  BY DEF Attempt
<1> DEFINE result == IF Draws(action) THEN action.to[raw] ELSE action.to[0]
<1>3. /\ raw \in IF Draws(action) THEN Raw ELSE {None}
      /\ tape' = IF Draws(action) THEN Append(tape, raw) ELSE tape
      /\ trace' = IF result \in {Blocked, Failure} THEN trace ELSE Append(trace, result)
      /\ retries' = IF result = Blocked THEN retries - 1 ELSE retries
      /\ phase' = IF result = Failure THEN "failed" ELSE "walking"
  BY <1>1, <1>2
<1>4. UNCHANGED <<machine, found, best, cache, scheduled>>
  BY DEF Attempt
<1>5. machine \in Machines /\ tape \in Seq(Raw) /\ trace \in Seq(StatesOf(machine)) /\ retries \in Int
      /\ Len(trace) \in Nat
  BY <1>1 DEF WalkTypeOK
<1> HIDE DEF action
<1>6. /\ tape' \in Seq(Raw) /\ trace' \in Seq(StatesOf(machine))
      /\ \A entries : BeginsWith(entries, tape') /\ Len(entries) \in Nat => BeginsWith(entries, tape)
  <2> HIDE DEF result
  <2>1. /\ (IF Draws(action) THEN Append(tape, raw) ELSE tape) \in Seq(Raw)
        /\ \A entries : BeginsWith(entries, IF Draws(action) THEN Append(tape, raw) ELSE tape)
                          /\ Len(entries) \in Nat => BeginsWith(entries, tape)
        /\ (IF result \in {Blocked, Failure} THEN trace ELSE Append(trace, result)) \in Seq(StatesOf(machine))
    BY <1>5, AttemptTyped DEF action, result
  <2>2. QED
    BY <1>3, <2>1
<1> HIDE DEF result
<1>7. WalkTypeOK'
  <2>1. retries' \in Int /\ phase' \in {"walking", "failed"}
    BY <1>3, <1>5
  <2>2. QED
    BY <1>1, <1>4, <1>6, <2>1 DEF WalkTypeOK
<1>8. result \notin {Blocked, Failure} => Len(trace') = Len(trace) + 1
  BY <1>3, <1>5, <1>6
<1>9. Len(trace) < MaxSteps /\ retries > 0
  BY <1>1 DEF Walking
<1>10. Blocked # Failure
  BY DEF Blocked, Failure
<1>11. WithinBudget'
  <2>1. Len(trace') <= MaxSteps /\ 0 <= retries' /\ retries' <= WalkBudget
    <3>1. retries' \in {retries, retries - 1}
      BY <1>3
    <3>2. Len(trace') \in {Len(trace), Len(trace) + 1}
      BY <1>3, <1>8
    <3>3. QED
      BY <1>1, <1>5, <1>9, <3>1, <3>2, BudgetTyped DEF WithinBudget
  <2>2. phase' = "failed" => trace' = trace /\ retries' = retries
    BY <1>3, <1>10
  <2>3. phase' = "failed" => Walking(trace', retries', MaxSteps)
    BY <1>1, <2>2
  <2>4. phase' # "checking"
    BY <1>3
  <2>5. QED
    BY <2>1, <2>3, <2>4 DEF WithinBudget, WalkBudget, Budget, Walking
<1>12. AttemptsMade \in Nat /\ AttemptsMade' = AttemptsMade + 1
  <2>1. AttemptsMade = Len(trace) + (WalkBudget - retries) /\ AttemptsMade \in Nat
    BY <1>1, <1>5, BudgetTyped DEF AttemptsMade, WithinBudget
  <2>2. WalkBudget' = WalkBudget
    BY DEF WalkBudget, Budget
  <2>3. AttemptsMade' = Len(trace') + (WalkBudget - retries') + (IF phase' = "failed" THEN 1 ELSE 0)
    BY <2>2 DEF AttemptsMade
  <2>4. CASE result = Failure
    <3>1. phase' = "failed" /\ trace' = trace /\ retries' = retries
      BY <1>3, <1>10, <2>4
    <3>2. QED
      BY <1>5, <2>1, <2>3, <3>1, BudgetTyped
  <2>5. CASE result = Blocked
    <3>1. phase' = "walking" /\ trace' = trace /\ retries' = retries - 1
      BY <1>3, <1>10, <2>5
    <3>2. QED
      BY <1>5, <2>1, <2>3, <3>1, BudgetTyped
  <2>6. CASE result \notin {Blocked, Failure}
    <3>1. phase' = "walking" /\ Len(trace') = Len(trace) + 1 /\ retries' = retries
      BY <1>3, <1>8, <2>6
    <3>2. QED
      BY <1>5, <2>1, <2>3, <3>1, BudgetTyped
  <2>7. QED
    BY <2>4, <2>5, <2>6
<1>13. InStep'
  <2>1. ASSUME NEW entries \in Seq(TapeEntries), BeginsWith(entries, tape')
        PROVE  LET r == Attempts(machine, entries, MaxSteps, MaxRetriesPerStep)[AttemptsMade + 1]
               IN r.trace = trace' /\ r.left = retries' /\ r.taken = Len(tape') /\ r.status = WalkStatus'
    <3> DEFINE A == Attempts(machine, entries, MaxSteps, MaxRetriesPerStep)
               k == AttemptsMade
    <3>1. Len(entries) \in Nat
      OBVIOUS
    <3>2. BeginsWith(entries, tape)
      BY <1>6, <2>1, <3>1
    <3>3. A[k].trace = trace /\ A[k].left = retries /\ A[k].taken = Len(tape) /\ A[k].status = "ok"
      BY <1>1, <3>2 DEF InStep, ReplaysTo, WalkStatus
    <3>4. AreAttempts(A, machine, entries, MaxSteps, MaxRetriesPerStep)
      BY <1>5, BudgetTyped, TapeEntriesReplay, AttemptsFacts
    <3> HIDE DEF A, k
    <3>5. A[k] \in Replays(machine) /\ A[k + 1] = ReplayNext(machine, entries, MaxSteps, A[k])
      BY <1>12, <3>4 DEF AreAttempts, k
    <3>6. A[k + 1] = ReplayStep(machine, entries, A[k])
      BY <1>1, <3>3, <3>5 DEF ReplayNext
    <3>7. action = Action(machine, A[k].trace)
      BY <3>3 DEF action
    <3>8. result = (IF Draws(action) THEN action.to[raw] ELSE action.to[0])
      BY DEF result
    <3> DEFINE after == tape'
               r == A[k]
    <3>9. after = (IF Draws(action) THEN Append(tape, raw) ELSE tape) /\ BeginsWith(entries, after)
      BY <1>3, <2>1
    <3>10. r \in Replays(machine) /\ r.status = "ok" /\ r.taken = Len(tape) /\ action = Action(machine, r.trace)
      BY <3>3, <3>5, <3>7
    <3>11. raw \in IF Draws(action) THEN Raw ELSE {None}
      BY <1>3
    <3> HIDE DEF after, r
    <3> DEFINE q == ReplayStep(machine, entries, r)
    <3>12. Follows(q, r, result, Len(after))
      BY <1>5, <3>8, <3>9, <3>10, <3>11, StepFollows
    <3> HIDE DEF q
    <3>13. /\ q.trace = trace' /\ q.left = retries' /\ q.taken = Len(tape') /\ q.status = WalkStatus'
      BY <1>3, <3>3, <3>12 DEF r, after, WalkStatus, Follows
    <3>14. QED
      BY <3>6, <3>13 DEF A, k, q, r
  <2>2. QED
    BY <1>4, <1>12, <2>1 DEF InStep, ReplaysTo
<1>14. PrintedSeedsReplay'
  <2>1. (\A i \in DOMAIN found : FindingReplays(found[i]))'
    BY <1>1, <1>4 DEF PrintedSeedsReplay, FindingReplays
  <2>2. BestReplays'
    BY <1>1, <1>4 DEF PrintedSeedsReplay, BestReplays
  <2>3. FailureReplays'
    <3>1. SUFFICES ASSUME phase' = "failed"
                   PROVE  /\ SeedReplay(machine, tape').trace = trace'
                          /\ SeedReplay(machine, tape').status = "failed"
      BY <1>4 DEF FailureReplays
    <3>2. ReplaysTo(machine, tape', trace', retries', AttemptsMade', "failed")
      BY <1>4, <1>13, <3>1 DEF InStep, WalkStatus
    <3>3. AttemptsMade' \in Nat /\ AttemptsMade' <= MaxSteps + WalkBudget
      <4>1. AttemptsMade = Len(trace) + (WalkBudget - retries)
        BY <1>1, <1>5, BudgetTyped DEF AttemptsMade
      <4>2. QED
        BY <1>1, <1>5, <1>9, <1>12, <4>1, BudgetTyped DEF WithinBudget
    <3> DEFINE k == AttemptsMade'
               numbers == tape'
               states == trace'
               left == retries'
    <3>4. ReplaysTo(machine, numbers, states, left, k, "failed") /\ k \in Nat /\ k <= MaxSteps + WalkBudget
          /\ numbers \in Seq(Raw)
      BY <1>6, <3>2, <3>3
    <3> HIDE DEF k, numbers, states, left
    <3>5. SeedReplay(machine, numbers).trace = states /\ SeedReplay(machine, numbers).status = "failed"
      BY <1>5, <3>4, TapeReplays
    <3>6. QED
      BY <3>5 DEF numbers, states
  <2>4. QED
    BY <2>1, <2>2, <2>3 DEF PrintedSeedsReplay
<1>15. QED
  BY <1>3, <1>7, <1>11, <1>13, <1>14 DEF WalkInv

LEMMA EndTraceInv ==
  ASSUME WalkInv, EndTrace
  PROVE  WalkInv'
<1>1. /\ WalkTypeOK /\ WithinBudget /\ InStep /\ PrintedSeedsReplay
      /\ phase = "walking" /\ ~Walking(trace, retries, MaxSteps) /\ phase' = "checking"
      /\ UNCHANGED <<machine, tape, trace, retries, found, best, cache, scheduled>>
  BY DEF WalkInv, EndTrace
<1>2. WalkTypeOK'
  BY <1>1 DEF WalkTypeOK
<1>3. WithinBudget'
  BY <1>1 DEF WithinBudget, WalkBudget, Budget, Walking
<1>4. AttemptsMade' = AttemptsMade /\ WalkStatus' = WalkStatus
  BY <1>1 DEF AttemptsMade, WalkStatus, WalkBudget, Budget
<1>5. InStep'
  BY <1>1, <1>4 DEF InStep, ReplaysTo
<1>6. PrintedSeedsReplay'
  BY <1>1 DEF PrintedSeedsReplay, FindingReplays, BestReplays, FailureReplays
<1>7. QED
  BY <1>1, <1>2, <1>3, <1>5, <1>6 DEF WalkInv

LEMMA CheckInv ==
  ASSUME WalkInv, Check
  PROVE  WalkInv'
<1> DEFINE r == Checked(cache, trace)
           finding == [tape |-> tape, at |-> r.at, prefix |-> SubSeq(trace, 1, r.at)]
<1>1. /\ WalkTypeOK /\ WithinBudget /\ InStep /\ PrintedSeedsReplay /\ phase = "checking"
      /\ cache' = r.cache /\ found' = (IF r.at = 0 THEN found ELSE Append(found, finding))
      /\ best' = (IF Len(trace) > Len(best.trace) THEN [tape |-> tape, trace |-> trace] ELSE best)
      /\ phase' \in {"over", "walking"}
      /\ tape' = <<>> /\ trace' = <<>> /\ retries' = WalkBudget
      /\ UNCHANGED <<machine, scheduled>>
  BY DEF WalkInv, Check, WalkBudget
<1>2. /\ machine \in Machines /\ tape \in Seq(Raw) /\ trace \in Seq(StatesOf(machine)) /\ retries \in Int
      /\ found \in Seq(Findings(machine)) /\ best \in [tape : Seq(Raw), trace : Seq(StatesOf(machine))]
      /\ cache \in Seq(Cached(StatesOf(machine))) /\ Len(trace) \in Nat
  BY <1>1 DEF WalkTypeOK
<1>3. r.cache \in Seq(Cached(StatesOf(machine))) /\ r.at = FirstBad(trace) /\ r.at \in 0..Len(trace)
  BY <1>2, CheckedFacts, FirstBadFacts
<1>4. SeedReplay(machine, tape).trace = trace /\ SeedReplay(machine, tape).status = "ok"
  <2>1. AttemptsMade \in Nat /\ AttemptsMade <= MaxSteps + WalkBudget
    BY <1>1, WithinBudgetAttempts
  <2>2. ReplaysTo(machine, tape, trace, retries, AttemptsMade, "ok")
    BY <1>1 DEF InStep, WalkStatus
  <2>3. ~Walking(trace, retries, MaxSteps)
    BY <1>1 DEF WithinBudget
  <2>4. QED
    BY <1>2, <2>1, <2>2, <2>3, TapeReplays
<1> HIDE DEF r
<1>5. r.at # 0 => /\ finding \in Findings(machine) /\ IsPrefix(finding.prefix, trace)
                  /\ finding.tape = tape /\ finding.at = FirstBad(trace)
  <2>1. SUFFICES ASSUME r.at # 0
                 PROVE  /\ finding \in Findings(machine) /\ IsPrefix(finding.prefix, trace)
                        /\ finding.tape = tape /\ finding.at = FirstBad(trace)
    OBVIOUS
  <2> DEFINE prefix == SubSeq(trace, 1, r.at)
             S == StatesOf(machine)
             a == r.at
  <2>2. a \in 1..Len(trace) /\ a \in Nat /\ a \in Int
    BY <1>2, <1>3, <2>1
  <2>3. trace \in Seq(S)
    BY <1>2
  <2> HIDE DEF S
  <2>4. \A i \in 1..a : trace[i] \in S
    <3>1. \A i \in 1..a : i \in 1..Len(trace)
      BY <1>2, <2>2
    <3>2. QED
      BY <2>3, <3>1, ElementOfSeq
  <2> HIDE DEF a
  <2>5. /\ SubSeq(trace, 1, a) \in Seq(S) /\ Len(SubSeq(trace, 1, a)) = a
    BY <2>2, <2>4, SubSeqProperties
  <2>6. SubSeq(SubSeq(trace, 1, a), 1, a) = SubSeq(trace, 1, a)
    BY <2>5, SubSeqFull
  <2>7. IsPrefix(SubSeq(trace, 1, a), trace)
    BY <1>2, <2>2, <2>5, <2>6 DEF IsPrefix
  <2>8. finding = [tape |-> tape, at |-> a, prefix |-> SubSeq(trace, 1, a)]
    BY DEF a
  <2>9. finding \in Findings(machine)
    BY <1>2, <2>2, <2>5, <2>8 DEF Findings, S
  <2>10. QED
    BY <1>3, <2>7, <2>8, <2>9 DEF a
<1> HIDE DEF finding
<1>6. WalkTypeOK'
  <2>1. found' \in Seq(Findings(machine))
    BY <1>1, <1>2, <1>5
  <2>2. best' \in [tape : Seq(Raw), trace : Seq(StatesOf(machine))]
    BY <1>1, <1>2
  <2>3. retries' \in Int
    BY <1>1, BudgetTyped
  <2>4. QED
    BY <1>1, <1>2, <1>3, <2>1, <2>2, <2>3 DEF WalkTypeOK
<1>7. WithinBudget'
  <2>1. Len(trace') = 0
    BY <1>1
  <2>2. QED
    BY <1>1, <2>1, BudgetTyped DEF WithinBudget, WalkBudget, Budget
<1>8. InStep'
  <2>1. ASSUME NEW entries \in Seq(TapeEntries)
        PROVE  LET q == Attempts(machine, entries, MaxSteps, MaxRetriesPerStep)[0]
               IN q.trace = <<>> /\ q.left = WalkBudget /\ q.taken = 0 /\ q.status = "ok"
    BY <1>2, StartReplays
  <2>2. AttemptsMade' = 0 /\ WalkStatus' = "ok" /\ Len(tape') = 0
    <3>1. WalkBudget' = WalkBudget
      BY DEF WalkBudget, Budget
    <3>2. QED
      BY <1>1, <3>1, BudgetTyped DEF AttemptsMade, WalkStatus
  <2>3. QED
    BY <1>1, <2>1, <2>2 DEF InStep, ReplaysTo
<1>9. PrintedSeedsReplay'
  <2>1. (\A i \in DOMAIN found : FindingReplays(found[i]))'
    <3>1. \A i \in DOMAIN found : FindingReplays(found[i])
      BY <1>1 DEF PrintedSeedsReplay
    <3>2. CASE r.at = 0
      BY <1>1, <3>1, <3>2 DEF FindingReplays
    <3>3. CASE r.at # 0
      <4>1. found' = Append(found, finding)
        BY <1>1, <3>3
      <4>2. FindingReplays(finding)
        BY <1>4, <1>5, <3>3 DEF FindingReplays
      <4>3. \A i \in DOMAIN found' : FindingReplays(Append(found, finding)[i])
        <5>1. finding \in Findings(machine)
          BY <1>5, <3>3
        <5>2. /\ Len(Append(found, finding)) = Len(found) + 1 /\ Append(found, finding)[Len(found) + 1] = finding
              /\ \A i \in 1..Len(found) : Append(found, finding)[i] = found[i]
          BY <1>2, <5>1, AppendProperties
        <5>3. DOMAIN found = 1..Len(found) /\ DOMAIN found' = 1..(Len(found) + 1) /\ Len(found) \in Nat
          BY <1>2, <4>1, <5>1, <5>2
        <5>4. \A i \in DOMAIN found' : i \in DOMAIN found \/ i = Len(found) + 1
          BY <5>3
        <5>5. QED
          BY <3>1, <4>2, <5>2, <5>3, <5>4
      <4>4. QED
        BY <1>1, <4>1, <4>3 DEF FindingReplays
    <3>4. QED
      BY <3>2, <3>3
  <2>2. BestReplays'
    <3>1. BestReplays
      BY <1>1 DEF PrintedSeedsReplay
    <3>2. CASE Len(trace) > Len(best.trace)
      <4>1. best'.tape = tape /\ best'.trace = trace
        BY <1>1, <3>2
      <4>2. QED
        BY <1>1, <1>4, <4>1 DEF BestReplays
    <3>3. CASE ~(Len(trace) > Len(best.trace))
      <4>1. best' = best
        BY <1>1, <3>3
      <4>2. QED
        BY <1>1, <3>1, <4>1 DEF BestReplays
    <3>4. QED
      BY <3>2, <3>3
  <2>3. FailureReplays'
    BY <1>1 DEF FailureReplays
  <2>4. QED
    BY <2>1, <2>2, <2>3 DEF PrintedSeedsReplay
<1>10. QED
  BY <1>6, <1>7, <1>8, <1>9 DEF WalkInv

LEMMA OtherStepsInv ==
  ASSUME WalkInv, TimeOut \/ Replay \/ UNCHANGED walkVars
  PROVE  WalkInv'
<1>1. CASE TimeOut \/ Replay
  <2>1. /\ phase' \in {"over", "replayed"}
        /\ UNCHANGED <<machine, tape, trace, retries, found, best, cache>>
    BY <1>1 DEF TimeOut, Replay
  <2>2. phase' = "replayed" => \E schedule \in GivenSchedules : scheduled' = <<schedule>>
    BY <1>1 DEF TimeOut, Replay
  <2>3. WalkTypeOK'
    BY <2>1, <2>2 DEF WalkInv, WalkTypeOK
  <2>4. PrintedSeedsReplay'
    BY <2>1 DEF WalkInv, PrintedSeedsReplay, FindingReplays, BestReplays, FailureReplays
  <2>5. QED
    BY <2>1, <2>3, <2>4 DEF WalkInv
<1>2. CASE UNCHANGED walkVars
  <2>1. UNCHANGED <<machine, phase, tape, trace, retries, found, best, cache, scheduled>>
    BY <1>2 DEF walkVars
  <2>2. WalkTypeOK'
    BY <2>1 DEF WalkInv, WalkTypeOK
  <2>3. PrintedSeedsReplay'
    BY <2>1 DEF WalkInv, PrintedSeedsReplay, FindingReplays, BestReplays, FailureReplays
  <2>4. phase \in {"walking", "checking", "failed"} => WithinBudget' /\ InStep'
    <3>1. SUFFICES ASSUME phase \in {"walking", "checking", "failed"} PROVE WithinBudget' /\ InStep'
      OBVIOUS
    <3>2. WithinBudget /\ InStep
      BY <3>1 DEF WalkInv
    <3>3. WithinBudget'
      BY <2>1, <3>2 DEF WithinBudget, WalkBudget, Budget, Walking
    <3>4. AttemptsMade' = AttemptsMade /\ WalkStatus' = WalkStatus
      BY <2>1 DEF AttemptsMade, WalkStatus, WalkBudget, Budget
    <3>5. QED
      BY <2>1, <3>2, <3>3, <3>4 DEF InStep, ReplaysTo
  <2>5. QED
    BY <2>1, <2>2, <2>3, <2>4 DEF WalkInv
<1>3. QED
  BY <1>1, <1>2

----------------------------------------------------------------------------
(* The theorems. *)

(* random_traces and _run_impl: while a trace is walked, the replay of its   *)
(* tape, after as many attempts as there were, is where the walk is, and the *)
(* findings and the best trace that have been kept replay.                   *)
THEOREM WalkInvariant == WalkSpec => []WalkInv
<1>1. WalkInv /\ [WalkNext]_walkVars => WalkInv'
  BY AttemptInv, EndTraceInv, CheckInv, OtherStepsInv DEF WalkNext
<1>2. QED
  BY WalkInitInv, <1>1, PTL DEF WalkSpec

(* What `run` prints is what `replay` shows: the `replay --seed` commands of *)
(* findings and of the best trace repeat them, to the index that was told,   *)
(* and locate_evaluation_error meets the error again where it was, for every *)
(* machine, predicate, retry budget, cache size and number of samples.       *)
THEOREM SeedsAlwaysReplay == WalkSpec => []PrintedSeedsReplay
<1>1. WalkInv => PrintedSeedsReplay
  BY DEF WalkInv
<1>2. QED
  BY WalkInvariant, <1>1, PTL

(* `replay --out-schedule`: what it writes for a schedule that replays to    *)
(* the end replays to the same trace, whatever attempts failed on the way,   *)
(* and is written as itself.                                                 *)
THEOREM SchedulesAlwaysReplay == WalkSpec => []WrittenSchedulesReplay
<1>1. WalkInv => WrittenSchedulesReplay
  <2>1. SUFFICES ASSUME WalkInv, phase = "replayed",
                        ScheduleReplay(machine, scheduled[1]).status = "ok",
                        Len(ScheduleReplay(machine, scheduled[1]).trace) = Len(scheduled[1])
                 PROVE  LET first == ScheduleReplay(machine, scheduled[1])
                            written == Rewritten(machine, scheduled[1])
                            again == ScheduleReplay(machine, written)
                        IN again = first /\ Rewritten(machine, written) = written /\ first.status = "ok"
    BY DEF WrittenSchedulesReplay
  <2> DEFINE schedule == scheduled[1]
             first == ScheduleReplay(machine, schedule)
             written == Rewritten(machine, schedule)
  <2>2. machine \in Machines /\ schedule \in Seq(Seq(ScheduleEntries))
    BY <2>1, SettingsAssumption DEF WalkInv, WalkTypeOK
  <2>3. first.status = "ok" /\ Len(first.trace) = Len(schedule)
    BY <2>1
  <2>4. first = ScheduleReplay(machine, schedule) /\ written = Rewritten(machine, schedule)
    OBVIOUS
  <2> HIDE DEF schedule, first, written
  <2>5. ScheduleReplay(machine, written) = first /\ Rewritten(machine, written) = written
    BY <2>2, <2>3, <2>4, WrittenReplays
  <2>6. QED
    BY <2>3, <2>5 DEF schedule, first, written
<1>2. QED
  BY WalkInvariant, <1>1, PTL
=============================================================================

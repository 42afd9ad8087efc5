--------------------------- MODULE CheckDfs_proofs ---------------------------
(***************************************************************************)
(* Proofs about CheckDfs for every set of states and every input: its      *)
(* counterexamples replay, a search that ends without a cutoff has left    *)
(* nothing out, and check_dfs implements the exhaustive search of module   *)
(* Search.                                                                 *)
(***************************************************************************)
EXTENDS CheckDfs, SequenceTheorems, TLAPS

----------------------------------------------------------------------------
\* The trace is a path from an initial state, replayed by its schedule,
\* through visited states that satisfy the invariant.
TraceReplays ==
  \A k \in 1..Len(trace) : /\ traceSchedule[k] \in 1..Len(Outcomes(k))
                           /\ Outcomes(k)[traceSchedule[k]] = trace[k]
TraceVisited == \A k \in 1..Len(trace) : trace[k] \in visited \ input.bad

\* What a scheduler has run so far has been visited.
SchedulesVisited ==
  \A k \in 1..Len(schedulers) :
    /\ schedulers[k] <= Len(Outcomes(k))
    /\ result \in {"running", "exhausted"} =>
         \A i \in 1..schedulers[k] : Outcomes(k)[i] \in visited \cup {None}

\* A state that is not on the trace any more has been left for good.
LeftIsClosed ==
  result \in {"running", "exhausted"} /\ input.maxSteps = None =>
    \A v \in visited \ input.bad :
      \/ \E k \in 1..Len(trace) : trace[k] = v
      \/ S!Elements(input.step[v]) \cap States \subseteq visited

RootExhausted ==
  result = "exhausted" => trace = <<>> /\ schedulers[1] = Len(input.init)

BadIsReported == visited \cap input.bad = {violations[n] : n \in 1..Len(found)}

FewFindings == result = "running" => Len(found) < input.maxFindings

IInv ==
  /\ TypeOK
  /\ TraceReplays /\ TraceVisited
  /\ SchedulesVisited /\ LeftIsClosed /\ RootExhausted
  /\ FindingsReplay /\ BadIsReported
  /\ FewFindings /\ FindingsDistinct

----------------------------------------------------------------------------
\* An input has an initial action, a step of every state, and disjoint sets of
\* bad and undefined states.
LEMMA InputTyped ==
  ASSUME input \in Inputs
  PROVE  /\ input.init \in Seq(S!Outcome) /\ input.init # <<>>
         /\ \A s \in States : input.step[s] \in Seq(S!Outcome) /\ input.step[s] # <<>>
         /\ input.bad \subseteq States /\ input.undefined \subseteq States
         /\ input.bad \cap input.undefined = {}
         /\ input.maxSteps \in Nat \cup {None}
         /\ input.maxFindings \in Nat \ {0}
BY InputsAssumption DEF S!InputTypes

\* A scheduler on the stack has at least one schedule, and a list of outcomes.
LEMMA OutcomesTyped ==
  ASSUME TypeOK, NEW k \in 1..Len(schedulers)
  PROVE  Outcomes(k) \in Seq(S!Outcome) /\ Outcomes(k) # <<>>
<1>1. k # 1 => trace[k - 1] \in States
  BY ElementOfSeq DEF TypeOK
<1>2. QED
  BY <1>1, InputTyped DEF TypeOK, Outcomes

\* `list.pop` takes the last element and leaves the others where they are.
LEMMA PopProperties ==
  ASSUME NEW T, NEW seq \in Seq(T), Len(seq) > 0
  PROVE  /\ Pop(seq) \in Seq(T)
         /\ Len(Pop(seq)) = Len(seq) - 1
         /\ \A i \in 1..Len(Pop(seq)) : Pop(seq)[i] = seq[i]
<1>1. Len(seq) \in Nat /\ \A i \in 1..(Len(seq) - 1) : seq[i] \in T
  BY LenProperties
<1> DEFINE n == Len(seq) - 1
<1>2. n \in Nat
  BY <1>1
<1>3. /\ SubSeq(seq, 1, n) \in Seq(T)
      /\ Len(SubSeq(seq, 1, n)) = IF 1 <= n THEN n - 1 + 1 ELSE 0
      /\ \A i \in 1..(n - 1 + 1) : SubSeq(seq, 1, n)[i] = seq[1 + i - 1]
  <2> HIDE DEF n
  <2>1. 1 \in Int /\ n \in Int
    BY <1>2
  <2>2. \A i \in 1..n : seq[i] \in T
    BY <1>1, <1>2 DEF n
  <2>3. QED
    BY <2>1, <2>2, SubSeqProperties
<1>4. Pop(seq) = SubSeq(seq, 1, n)
  BY DEF Pop
<1> HIDE DEF n
<1>5. /\ Len(SubSeq(seq, 1, n)) = n
      /\ \A i \in 1..n : SubSeq(seq, 1, n)[i] = seq[i]
  BY <1>2, <1>3
<1>6. QED
  BY <1>3, <1>4, <1>5 DEF n

\* `check_dfs` starts with an empty trace, one scheduler and nothing visited.
LEMMA InitIInv == Init => IInv
<1> SUFFICES ASSUME Init PROVE IInv
  OBVIOUS
<1> USE DEF Init
<1>1. TypeOK
  BY EmptySeq DEF TypeOK, Results
<1>2. TraceReplays /\ TraceVisited
  BY DEF TraceReplays, TraceVisited
<1>3. SchedulesVisited
  <2>1. Len(schedulers) = 1 /\ schedulers[1] = 0
    OBVIOUS
  <2>2. Outcomes(1) \in Seq(S!Outcome)
    BY <1>1, <2>1, OutcomesTyped
  <2>3. Len(Outcomes(1)) \in Nat
    BY <2>2, LenProperties
  <2>4. QED
    BY <2>1, <2>3 DEF SchedulesVisited
<1>4. LeftIsClosed /\ RootExhausted
  BY DEF LeftIsClosed, RootExhausted
<1>5. FindingsReplay /\ BadIsReported /\ FindingsDistinct /\ FewFindings
  BY InputTyped DEF FindingsReplay, BadIsReported, FindingsDistinct, FewFindings
<1>6. QED
  BY <1>1, <1>2, <1>3, <1>4, <1>5 DEF IInv

\* A step that records nothing keeps what the findings promise.
LEMMA FindingsKept ==
  ASSUME IInv, UNCHANGED <<input, visited, found>>
  PROVE  FindingsReplay' /\ BadIsReported' /\ FindingsDistinct'
<1>1. violations' = violations
  BY DEF violations, Violation
<1>2. FindingsReplay'
  BY DEF IInv, FindingsReplay, Replays
<1>3. BadIsReported'
  BY <1>1 DEF IInv, BadIsReported
<1>4. FindingsDistinct'
  BY <1>1 DEF IInv, FindingsDistinct
<1>5. QED
  BY <1>2, <1>3, <1>4

----------------------------------------------------------------------------
\* Leaving the state at the end of the trace, at the cutoff or when all its
\* schedules were run.
LEMMA PopStep ==
  ASSUME IInv, result = "running", trace # <<>>, PopAll,
         input.maxSteps = None => Exhausted,
         UNCHANGED <<input, visited, produced, found, result>>
  PROVE  IInv'
<1> USE DEF IInv, PopAll
<1> DEFINE n == Len(trace)
<1>1. n \in Nat \ {0} /\ Len(traceSchedule) = n /\ Len(schedulers) = n + 1
  BY EmptySeq DEF TypeOK
<1>2. /\ trace' \in Seq(States) /\ Len(trace') = n - 1
      /\ \A k \in 1..(n - 1) : trace'[k] = trace[k]
  <2>1. /\ Pop(trace) \in Seq(States) /\ Len(Pop(trace)) = Len(trace) - 1
        /\ \A k \in 1..Len(Pop(trace)) : Pop(trace)[k] = trace[k]
    <3>1. Len(trace) > 0
      BY <1>1
    <3>2. QED
      BY <3>1, PopProperties DEF TypeOK
  <2>2. QED
    BY <2>1
<1>3. /\ traceSchedule' \in Seq(Nat) /\ Len(traceSchedule') = n - 1
      /\ \A k \in 1..(n - 1) : traceSchedule'[k] = traceSchedule[k]
  <2>1. Len(traceSchedule) > 0
    BY <1>1
  <2>2. /\ Pop(traceSchedule) \in Seq(Nat)
        /\ Len(Pop(traceSchedule)) = Len(traceSchedule) - 1
        /\ \A k \in 1..Len(Pop(traceSchedule)) : Pop(traceSchedule)[k] = traceSchedule[k]
    BY <2>1, PopProperties DEF TypeOK
  <2>3. QED
    BY <1>1, <2>2
<1>4. /\ schedulers' \in Seq(Nat) /\ Len(schedulers') = n
      /\ \A k \in 1..n : schedulers'[k] = schedulers[k]
  <2>1. Len(schedulers) > 0
    BY <1>1
  <2>2. /\ Pop(schedulers) \in Seq(Nat) /\ Len(Pop(schedulers)) = Len(schedulers) - 1
        /\ \A k \in 1..Len(Pop(schedulers)) : Pop(schedulers)[k] = schedulers[k]
    BY <2>1, PopProperties DEF TypeOK
  <2>3. QED
    BY <1>1, <2>2
<1> HIDE DEF n
<1>5. TypeOK'
  BY <1>1, <1>2, <1>3, <1>4 DEF TypeOK
<1>6. \A k \in 1..n : Outcomes(k)' = Outcomes(k)
  BY <1>1, <1>2 DEF Outcomes
<1>7. TraceReplays' /\ TraceVisited'
  <2>1. TraceVisited'
    BY <1>1, <1>2 DEF TraceVisited, n
  <2>2. TraceReplays'
    <3> SUFFICES ASSUME NEW k \in 1..(n - 1)
                 PROVE  /\ traceSchedule'[k] \in 1..Len(Outcomes(k)')
                        /\ Outcomes(k)'[traceSchedule'[k]] = trace'[k]
      BY <1>2 DEF TraceReplays
    <3>1. k \in 1..n /\ k \in 1..Len(trace)
      BY <1>1 DEF n
    <3>2. /\ traceSchedule[k] \in 1..Len(Outcomes(k))
          /\ Outcomes(k)[traceSchedule[k]] = trace[k]
      BY <3>1 DEF TraceReplays
    <3>3. QED
      BY <1>2, <1>3, <1>6, <3>1, <3>2
  <2>3. QED
    BY <2>1, <2>2
<1>8. SchedulesVisited'
  BY <1>1, <1>4, <1>6 DEF SchedulesVisited
<1>9. LeftIsClosed'
  <2> SUFFICES ASSUME input.maxSteps = None, NEW v \in visited \ input.bad
               PROVE  \/ \E k \in 1..Len(trace') : trace'[k] = v
                      \/ S!Elements(input.step[v]) \cap States \subseteq visited
    BY DEF LeftIsClosed
  <2>1. CASE v = trace[n]
    <3>1. Outcomes(n + 1) = input.step[v]
      BY <1>1, <2>1 DEF Outcomes
    <3>2. schedulers[n + 1] >= Len(input.step[v]) /\ schedulers[n + 1] \in Nat
      BY <1>1, <3>1, ElementOfSeq DEF Exhausted, Top, TypeOK
    <3>3. \A i \in 1..schedulers[n + 1] : input.step[v][i] \in visited \cup {None}
      BY <1>1, <3>1 DEF SchedulesVisited
    <3>4. Len(input.step[v]) \in Nat
      BY InputTyped, LenProperties DEF TypeOK
    <3>5. S!Elements(input.step[v]) \subseteq visited \cup {None}
      BY <3>2, <3>3, <3>4 DEF S!Elements
    <3>6. QED
      BY <3>5, OutcomeAssumption
  <2>2. CASE v # trace[n] /\ \E k \in 1..n : trace[k] = v
    BY <1>1, <1>2, <2>2
  <2>3. CASE ~ \E k \in 1..n : trace[k] = v
    BY <2>3 DEF LeftIsClosed, n
  <2>4. QED
    BY <1>1, <2>1, <2>2, <2>3
<1>10. FindingsReplay' /\ BadIsReported' /\ FindingsDistinct'
  BY FindingsKept
<1>11. RootExhausted' /\ FewFindings'
  BY DEF RootExhausted, FewFindings
<1>12. QED
  BY <1>5, <1>7, <1>8, <1>9, <1>10, <1>11

----------------------------------------------------------------------------
\* The schedule that runs is one of the top scheduler, and its outcome one of
\* those the abstract search may visit.
LEMMA RunFacts ==
  ASSUME IInv, NEW i, NEW o, RunSchedule(i, o)
  PROVE  /\ Top \in Nat \ {0} /\ Len(trace) = Top - 1
         /\ schedulers[Top] \in Nat
         /\ i = schedulers[Top] + 1
         /\ i \in 1..Len(Outcomes(Top)) /\ o = Outcomes(Top)[i]
         /\ o \in S!Outcome
         /\ o \in States => o \in S!Produced
<1>1. Top \in Nat \ {0} /\ Len(trace) = Top - 1
  BY LenProperties DEF IInv, TypeOK, Top
<1>2. schedulers[Top] \in Nat
  BY <1>1, ElementOfSeq DEF IInv, TypeOK, Top
<1>3. Outcomes(Top) \in Seq(S!Outcome) /\ Len(Outcomes(Top)) \in Nat
  BY <1>1, OutcomesTyped, LenProperties DEF IInv, Top
<1>4. i \in 1..Len(Outcomes(Top)) /\ o = Outcomes(Top)[i] /\ i = schedulers[Top] + 1
  BY <1>2, <1>3 DEF RunSchedule, Exhausted
<1>5. o \in S!Outcome
  BY <1>3, <1>4, ElementOfSeq
<1>6. ASSUME o \in States PROVE o \in S!Produced
  <2>1. CASE Top = 1
    BY <1>4, <1>6, <2>1 DEF Outcomes, S!Produced, S!Elements
  <2>2. CASE Top # 1
    <3>1. trace[Top - 1] \in visited \ input.bad
      BY <1>1, <2>2 DEF IInv, TraceVisited
    <3>2. o \in S!Elements(input.step[trace[Top - 1]])
      BY <1>4, <2>2 DEF Outcomes, S!Elements
    <3>3. QED
      BY <1>6, <3>1, <3>2 DEF S!Produced
  <2>3. QED
    BY <2>1, <2>2
<1>7. QED
  BY <1>1, <1>2, <1>4, <1>5, <1>6

\* What a schedule changes that leaves the trace as it is.
LEMMA AdvanceStep ==
  ASSUME IInv, NEW i, NEW o, RunSchedule(i, o), schedulers' = Advanced,
         UNCHANGED <<input, trace, traceSchedule>>, visited \subseteq visited',
         result' \in {"running", "exhausted"} => o \in visited' \cup {None}
  PROVE  /\ schedulers' \in Seq(Nat) /\ Len(schedulers') = Len(trace') + 1
         /\ TraceReplays' /\ TraceVisited' /\ SchedulesVisited'
<1>1. /\ Top \in 1..Len(schedulers) /\ schedulers[Top] \in Nat
      /\ i = schedulers[Top] + 1 /\ i \in 1..Len(Outcomes(Top)) /\ o = Outcomes(Top)[i]
  BY RunFacts DEF Top
<1>2. /\ schedulers' \in Seq(Nat) /\ Len(schedulers') = Len(schedulers)
      /\ \A k \in 1..Len(schedulers) :
           schedulers'[k] = IF k = Top THEN i ELSE schedulers[k]
  BY <1>1, ExceptSeq DEF IInv, TypeOK, Advanced
<1>3. \A k : Outcomes(k)' = Outcomes(k)
  BY DEF Outcomes
<1>4. TraceReplays' /\ TraceVisited'
  BY <1>3 DEF IInv, TraceReplays, TraceVisited
<1>5. SchedulesVisited'
  <2> SUFFICES ASSUME NEW k \in 1..Len(schedulers)
               PROVE  /\ schedulers'[k] <= Len(Outcomes(k))
                      /\ result' \in {"running", "exhausted"} =>
                           \A j \in 1..schedulers'[k] :
                             Outcomes(k)[j] \in visited' \cup {None}
    BY <1>2, <1>3 DEF SchedulesVisited
  <2>1. /\ schedulers[k] <= Len(Outcomes(k))
        /\ \A j \in 1..schedulers[k] : Outcomes(k)[j] \in visited \cup {None}
    BY DEF IInv, SchedulesVisited, RunSchedule
  <2>2. CASE k = Top
    <3>1. \A j \in 1..i : j \in 1..schedulers[k] \/ j = i
      BY <1>1, <2>2
    <3>2. Len(Outcomes(Top)) \in Nat
      BY <1>1, OutcomesTyped, LenProperties DEF IInv
    <3>3. QED
      BY <1>1, <1>2, <2>1, <2>2, <3>1, <3>2
  <2>3. CASE k # Top
    BY <1>2, <2>1, <2>3
  <2>4. QED
    BY <2>2, <2>3
<1>6. QED
  BY <1>2, <1>4, <1>5 DEF IInv, TypeOK

\* Schedules that neither visit nor find anything.
LEMMA NothingNewStep ==
  ASSUME IInv, Infeasible \/ Revisit \/ ActionError \/ TimeOut
  PROVE  IInv'
<1>1. PICK i, o : RunSchedule(i, o) /\ (result' = "running" => o \in visited \cup {None})
  <2>1. CASE Infeasible
    BY <2>1 DEF Infeasible
  <2>2. CASE Revisit
    BY <2>2 DEF Revisit
  <2>3. CASE ActionError \/ TimeOut
    BY <2>3 DEF ActionError, TimeOut
  <2>4. QED
    BY <2>1, <2>2, <2>3
<1>2. /\ result = "running" /\ result' \in {"running", "error", "timeout"}
      /\ schedulers' = Advanced /\ produced' \in Nat
      /\ UNCHANGED <<input, trace, traceSchedule, visited, found>>
  BY <1>1 DEF Infeasible, Revisit, ActionError, TimeOut, RunSchedule, IInv, TypeOK
<1>3. /\ schedulers' \in Seq(Nat) /\ Len(schedulers') = Len(trace') + 1
      /\ TraceReplays' /\ TraceVisited' /\ SchedulesVisited'
  BY <1>1, <1>2, AdvanceStep
<1>4. TypeOK'
  BY <1>2, <1>3 DEF IInv, TypeOK, Results
<1>5. LeftIsClosed' /\ RootExhausted' /\ FewFindings'
  BY <1>2 DEF IInv, LeftIsClosed, RootExhausted, FewFindings
<1>6. FindingsReplay' /\ BadIsReported' /\ FindingsDistinct'
  BY <1>2, FindingsKept
<1>7. QED
  BY <1>3, <1>4, <1>5, <1>6 DEF IInv

----------------------------------------------------------------------------
\* The trace, one state longer.
LEMMA Appended ==
  ASSUME IInv, NEW i, NEW o \in States, RunSchedule(i, o)
  PROVE  /\ Append(trace, o) \in Seq(States) /\ Append(traceSchedule, i) \in Seq(Nat)
         /\ Len(Append(trace, o)) = Top /\ Len(Append(traceSchedule, i)) = Top
         /\ \A k \in 1..(Top - 1) : /\ Append(trace, o)[k] = trace[k]
                                    /\ Append(traceSchedule, i)[k] = traceSchedule[k]
         /\ Append(trace, o)[Top] = o /\ Append(traceSchedule, i)[Top] = i
<1>1. /\ Top \in Nat \ {0} /\ Len(trace) = Top - 1 /\ Len(traceSchedule) = Top - 1
      /\ trace \in Seq(States) /\ traceSchedule \in Seq(Nat) /\ i \in Nat
  BY RunFacts DEF IInv, TypeOK
<1>2. /\ Append(trace, o) \in Seq(States)
      /\ Len(Append(trace, o)) = Len(trace) + 1
      /\ \A k \in 1..Len(trace) : Append(trace, o)[k] = trace[k]
      /\ Append(trace, o)[Len(trace) + 1] = o
  BY <1>1, AppendProperties
<1>3. /\ Append(traceSchedule, i) \in Seq(Nat)
      /\ Len(Append(traceSchedule, i)) = Len(traceSchedule) + 1
      /\ \A k \in 1..Len(traceSchedule) : Append(traceSchedule, i)[k] = traceSchedule[k]
      /\ Append(traceSchedule, i)[Len(traceSchedule) + 1] = i
  BY <1>1, AppendProperties
<1>4. QED
  BY <1>1, <1>2, <1>3

\* A new state goes to the end of the trace, with a scheduler of its own.
LEMMA VisitStep ==
  ASSUME IInv, Visit
  PROVE  IInv'
<1>1. PICK i \in 1..Len(Outcomes(Top)), o \in States \ (visited \cup input.bad) :
        /\ RunSchedule(i, o)
        /\ trace' = Append(trace, o)
        /\ traceSchedule' = Append(traceSchedule, i)
        /\ schedulers' = Append(Advanced, 0)
        /\ visited' = visited \cup {o}
        /\ produced' = produced + 1
        /\ result' = IF o \in input.undefined THEN "error" ELSE "running"
        /\ UNCHANGED <<input, found>>
  BY DEF Visit
<1>2. /\ Top \in Nat \ {0} /\ Len(schedulers) = Top /\ Len(trace) = Top - 1
      /\ schedulers[Top] \in Nat /\ i = schedulers[Top] + 1
      /\ i \in 1..Len(Outcomes(Top)) /\ o = Outcomes(Top)[i]
  BY <1>1, RunFacts DEF Top
<1>3. /\ trace' \in Seq(States) /\ traceSchedule' \in Seq(Nat)
      /\ Len(trace') = Top /\ Len(traceSchedule') = Top
      /\ \A k \in 1..(Top - 1) : trace'[k] = trace[k] /\ traceSchedule'[k] = traceSchedule[k]
      /\ trace'[Top] = o /\ traceSchedule'[Top] = i
  BY <1>1, Appended
<1>4. /\ schedulers' \in Seq(Nat) /\ Len(schedulers') = Top + 1
      /\ \A k \in 1..Top : schedulers'[k] = IF k = Top THEN i ELSE schedulers[k]
      /\ schedulers'[Top + 1] = 0
  <2>1. /\ Advanced \in Seq(Nat) /\ Len(Advanced) = Top
        /\ \A k \in 1..Top : Advanced[k] = IF k = Top THEN i ELSE schedulers[k]
    BY <1>2, ExceptSeq DEF IInv, TypeOK, Advanced
  <2>2. QED
    BY <1>1, <1>2, <2>1, AppendProperties
<1>5. TypeOK'
  BY <1>1, <1>3, <1>4 DEF IInv, TypeOK, Results
<1>6. /\ \A k \in 1..Top : Outcomes(k)' = Outcomes(k)
      /\ \A k : k = Top + 1 => Len(Outcomes(k)') \in Nat
  <2>1. ASSUME NEW k \in 1..Top PROVE Outcomes(k)' = Outcomes(k)
    <3>1. k # 1 => trace'[k - 1] = trace[k - 1]
      BY <1>2, <1>3
    <3>2. QED
      BY <1>1, <3>1 DEF Outcomes
  <2>2. ASSUME NEW k, k = Top + 1 PROVE Len(Outcomes(k)') \in Nat
    <3>1. k # 1 /\ k - 1 = Top /\ trace'[k - 1] = o
      BY <1>2, <1>3, <2>2
    <3>2. Outcomes(k)' = input.step[o]
      BY <1>1, <3>1 DEF Outcomes
    <3>3. QED
      BY <3>2, InputTyped, LenProperties DEF IInv, TypeOK
  <2>3. QED
    BY <2>1, <2>2
<1>7. TraceReplays'
  <2> SUFFICES ASSUME NEW k \in 1..Top
               PROVE  /\ traceSchedule'[k] \in 1..Len(Outcomes(k)')
                      /\ Outcomes(k)'[traceSchedule'[k]] = trace'[k]
    BY <1>3 DEF TraceReplays
  <2>1. CASE k = Top
    BY <1>2, <1>3, <1>6, <2>1
  <2>2. CASE k # Top
    <3>1. k \in 1..(Top - 1) /\ k \in 1..Len(trace)
      BY <1>2, <2>2
    <3>2. /\ traceSchedule[k] \in 1..Len(Outcomes(k))
          /\ Outcomes(k)[traceSchedule[k]] = trace[k]
      BY <3>1 DEF IInv, TraceReplays
    <3>3. QED
      BY <1>3, <1>6, <3>1, <3>2
  <2>3. QED
    BY <2>1, <2>2
<1>8. TraceVisited'
  BY <1>1, <1>2, <1>3 DEF IInv, TraceVisited
<1>9. SchedulesVisited'
  <2> SUFFICES ASSUME NEW k \in 1..(Top + 1)
               PROVE  /\ schedulers'[k] <= Len(Outcomes(k)')
                      /\ \A j \in 1..schedulers'[k] :
                           Outcomes(k)'[j] \in visited' \cup {None}
    BY <1>4 DEF SchedulesVisited
  <2>1. CASE k = Top + 1
    BY <1>2, <1>4, <1>6, <2>1
  <2>2. CASE k = Top
    <3>1. \A j \in 1..i : j \in 1..schedulers[Top] \/ j = i
      BY <1>2
    <3>2. \A j \in 1..schedulers[Top] : Outcomes(Top)[j] \in visited \cup {None}
      BY <1>1, <1>2 DEF IInv, SchedulesVisited, RunSchedule
    <3>3. i <= Len(Outcomes(Top))
      BY <1>2, OutcomesTyped, LenProperties DEF IInv
    <3>4. QED
      BY <1>1, <1>2, <1>4, <1>6, <2>2, <3>1, <3>2, <3>3
  <2>3. CASE k \notin {Top, Top + 1}
    <3>1. k \in 1..Top /\ k # Top /\ k \in 1..Len(schedulers)
      BY <1>2, <2>3
    <3>2. /\ schedulers[k] <= Len(Outcomes(k))
          /\ \A j \in 1..schedulers[k] : Outcomes(k)[j] \in visited \cup {None}
      BY <1>1, <3>1 DEF IInv, SchedulesVisited, RunSchedule
    <3>3. QED
      BY <1>1, <1>4, <1>6, <3>1, <3>2
  <2>4. QED
    BY <2>1, <2>2, <2>3
<1>10. LeftIsClosed'
  <2> SUFFICES ASSUME input.maxSteps = None, NEW v \in visited' \ input.bad
               PROVE  \/ \E k \in 1..Len(trace') : trace'[k] = v
                      \/ S!Elements(input.step[v]) \cap States \subseteq visited'
    BY <1>1 DEF LeftIsClosed
  <2>1. CASE v = o
    BY <1>2, <1>3, <2>1
  <2>2. CASE v # o
    <3>1. \/ \E k \in 1..(Top - 1) : trace[k] = v
          \/ S!Elements(input.step[v]) \cap States \subseteq visited
      BY <1>1, <1>2, <2>2 DEF IInv, LeftIsClosed, RunSchedule
    <3>2. \A k \in 1..(Top - 1) : k \in 1..Len(trace') /\ trace'[k] = trace[k]
      BY <1>2, <1>3
    <3>3. QED
      BY <1>1, <3>1, <3>2
  <2>3. QED
    BY <2>1, <2>2
<1>11. RootExhausted' /\ FewFindings' /\ BadIsReported'
  BY <1>1 DEF IInv, RootExhausted, FewFindings, BadIsReported, violations, Violation, RunSchedule
<1>12. FindingsReplay' /\ FindingsDistinct'
  BY <1>1 DEF IInv, FindingsReplay, FindingsDistinct, violations, Violation, Replays
<1>13. QED
  BY <1>5, <1>7, <1>8, <1>9, <1>10, <1>11, <1>12 DEF IInv

----------------------------------------------------------------------------
\* A schedule that produces a state extends a trace that replays.
LEMMA AppendedReplays ==
  ASSUME IInv, NEW i, NEW o \in States, RunSchedule(i, o)
  PROVE  Replays(Append(trace, o), Append(traceSchedule, i))
<1> DEFINE t == Append(trace, o)
           sch == Append(traceSchedule, i)
<1>1. /\ Top \in Nat \ {0} /\ Len(trace) = Top - 1
      /\ i \in 1..Len(Outcomes(Top)) /\ o = Outcomes(Top)[i]
  BY RunFacts
<1>2. /\ Len(t) = Top /\ Len(sch) = Top /\ t[Top] = o /\ sch[Top] = i
      /\ \A k \in 1..(Top - 1) : t[k] = trace[k] /\ sch[k] = traceSchedule[k]
  BY Appended
<1> HIDE DEF t, sch
<1>3. ASSUME NEW k \in 1..Top
      PROVE  Outcomes(k) = IF k = 1 THEN input.init ELSE input.step[t[k - 1]]
  <2>1. k # 1 => t[k - 1] = trace[k - 1]
    BY <1>1, <1>2
  <2>2. QED
    BY <2>1 DEF Outcomes
<1>4. ASSUME NEW k \in 1..Top
      PROVE  sch[k] \in 1..Len(Outcomes(k)) /\ Outcomes(k)[sch[k]] = t[k]
  <2>1. CASE k = Top
    BY <1>1, <1>2, <2>1
  <2>2. CASE k # Top
    <3>1. k \in 1..(Top - 1) /\ k \in 1..Len(trace)
      BY <1>1, <2>2
    <3>2. QED
      BY <1>2, <3>1 DEF IInv, TraceReplays
  <2>3. QED
    BY <2>1, <2>2
<1>5. Replays(t, sch)
  BY <1>2, <1>3, <1>4 DEF Replays
<1>6. QED
  BY <1>5 DEF t, sch

\* What Report appends to the findings.
LEMMA Reported ==
  ASSUME IInv, NEW i, NEW o \in input.bad \ visited, RunSchedule(i, o),
         NEW f, f = [trace |-> Append(trace, o), schedule |-> Append(traceSchedule, i)],
         found' = Append(found, f)
  PROVE  /\ o \in States /\ Violation(f) = o
         /\ found' \in Seq([trace : Seq(States), schedule : Seq(Nat)])
         /\ Len(found) \in Nat /\ Len(found') = Len(found) + 1
         /\ \A n \in 1..Len(found) : found'[n] = found[n]
         /\ found'[Len(found) + 1] = f
<1>1. o \in States
  BY InputTyped DEF IInv, TypeOK
<1>2. /\ Append(trace, o) \in Seq(States) /\ Append(traceSchedule, i) \in Seq(Nat)
      /\ Len(Append(trace, o)) = Top /\ Append(trace, o)[Top] = o
  BY <1>1, Appended
<1>3. f \in [trace : Seq(States), schedule : Seq(Nat)] /\ f.trace = Append(trace, o)
  BY <1>2
<1>4. Violation(f) = o
  BY <1>2, <1>3 DEF Violation
<1>5. found \in Seq([trace : Seq(States), schedule : Seq(Nat)])
  BY DEF IInv, TypeOK
<1>6. QED
  BY <1>1, <1>3, <1>4, <1>5, AppendProperties, LenProperties

\* A violating state is recorded with the schedule that leads to it.
LEMMA ReportStep ==
  ASSUME IInv, Report
  PROVE  IInv'
<1>1. PICK i \in 1..Len(Outcomes(Top)), o \in input.bad \ visited :
        /\ RunSchedule(i, o)
        /\ schedulers' = Advanced
        /\ visited' = visited \cup {o}
        /\ produced' = produced + 1
        /\ found' = Append(found, [trace |-> Append(trace, o),
                                   schedule |-> Append(traceSchedule, i)])
        /\ result' = IF Len(found') >= input.maxFindings THEN "found" ELSE "running"
        /\ UNCHANGED <<input, trace, traceSchedule>>
  BY DEF Report
<1>2. PICK f : f = [trace |-> Append(trace, o), schedule |-> Append(traceSchedule, i)]
  OBVIOUS
<1>3. /\ o \in States /\ Violation(f) = o
      /\ found' \in Seq([trace : Seq(States), schedule : Seq(Nat)])
      /\ Len(found) \in Nat /\ Len(found') = Len(found) + 1
      /\ \A n \in 1..Len(found) : found'[n] = found[n]
      /\ found'[Len(found) + 1] = f
  BY <1>1, <1>2, Reported
<1>4. /\ schedulers' \in Seq(Nat) /\ Len(schedulers') = Len(trace') + 1
      /\ TraceReplays' /\ TraceVisited' /\ SchedulesVisited'
  BY <1>1, AdvanceStep
<1>5. TypeOK'
  BY <1>1, <1>3, <1>4 DEF IInv, TypeOK, Results
<1>6. LeftIsClosed' /\ RootExhausted'
  BY <1>1 DEF IInv, LeftIsClosed, RootExhausted, RunSchedule
<1>7. input.maxFindings \in Nat /\ Len(found) < input.maxFindings
  BY <1>1, InputTyped DEF IInv, TypeOK, FewFindings, RunSchedule
<1>8. FewFindings'
  BY <1>1, <1>3, <1>7 DEF FewFindings
<1>9. /\ \A n \in 1..Len(found) : violations'[n] = violations[n] /\ violations[n] \in visited
      /\ violations'[Len(found) + 1] = o
  <2>1. /\ violations = [n \in 1..Len(found) |-> Violation(found[n])]
        /\ violations' = [n \in 1..Len(found') |-> Violation(found'[n])]
    BY DEF violations, Violation
  <2>2. \A n \in 1..Len(found) : n \in 1..Len(found')
    BY <1>3
  <2>3. Len(found) + 1 \in 1..Len(found')
    BY <1>3
  <2>4. \A n \in 1..Len(found) : violations[n] \in visited
    BY DEF IInv, BadIsReported
  <2>5. QED
    BY <1>3, <2>1, <2>2, <2>3, <2>4
<1>10. BadIsReported'
  <2>1. 1..Len(found') = 1..Len(found) \cup {Len(found) + 1}
    BY <1>3
  <2>2. {violations'[n] : n \in 1..Len(found')}
          = {violations[n] : n \in 1..Len(found)} \cup {o}
    BY <1>9, <2>1
  <2>3. QED
    BY <1>1, <2>2 DEF IInv, BadIsReported
<1>11. FindingsDistinct'
  <2>1. Len(found') <= input'.maxFindings
    BY <1>1, <1>3, <1>7
  <2>2. \A m, n \in 1..Len(found) : violations[m] = violations[n] => m = n
    BY DEF IInv, FindingsDistinct
  <2>3. ASSUME NEW m \in 1..Len(found'), NEW n \in 1..Len(found'),
               violations'[m] = violations'[n]
        PROVE  m = n
    <3>1. /\ m \in 1..Len(found) \/ m = Len(found) + 1
          /\ n \in 1..Len(found) \/ n = Len(found) + 1
      BY <1>3
    <3>2. \A k \in 1..Len(found) : violations'[k] # o
      BY <1>9
    <3>3. QED
      BY <1>9, <2>2, <2>3, <3>1, <3>2
  <2>4. QED
    BY <2>1, <2>3 DEF FindingsDistinct
<1>12. FindingsReplay'
  <2> DEFINE Good(g) == /\ g.trace # <<>>
                        /\ Replays(g.trace, g.schedule)
                        /\ \A k \in 1..Len(g.trace) :
                             g.trace[k] \in input.bad <=> k = Len(g.trace)
  <2>1. \A n \in 1..Len(found) : Good(found[n])
    BY DEF IInv, FindingsReplay
  <2>2. Good(f)
    <3>1. f.trace = Append(trace, o) /\ f.schedule = Append(traceSchedule, i)
      BY <1>2
    <3>2. Replays(f.trace, f.schedule)
      BY <1>1, <1>3, <3>1, AppendedReplays
    <3>3. /\ Top \in Nat \ {0} /\ Len(trace) = Top - 1
          /\ f.trace \in Seq(States) /\ Len(f.trace) = Top /\ f.trace[Top] = o
          /\ \A k \in 1..(Top - 1) : f.trace[k] = trace[k]
      BY <1>1, <1>3, <3>1, RunFacts, Appended
    <3>4. \A k \in 1..Top : f.trace[k] \in input.bad <=> k = Top
      BY <3>3 DEF IInv, TraceVisited
    <3>5. QED
      BY <3>2, <3>3, <3>4
  <2> HIDE DEF Good
  <2>3. ASSUME NEW n \in 1..Len(found') PROVE Good(found'[n])
    <3>1. CASE n \in 1..Len(found)
      <4>1. found'[n] = found[n]
        BY <1>3, <3>1
      <4>2. QED
        BY <2>1, <3>1, <4>1
    <3>2. CASE n = Len(found) + 1
      BY <1>3, <2>2, <3>2
    <3>3. QED
      BY <1>3, <3>1, <3>2
  <2>4. \A n \in 1..Len(found') : Good(found'[n])
    BY <2>3
  <2>5. \A u, sch : Replays(u, sch)' <=> Replays(u, sch)
    BY <1>1 DEF Replays
  <2>6. QED
    BY <1>1, <2>4, <2>5 DEF Good, FindingsReplay
<1>13. QED
  BY <1>4, <1>5, <1>6, <1>8, <1>10, <1>11, <1>12 DEF IInv

\* The search ends as exhausted only when its first scheduler is.
LEMMA FinishStep ==
  ASSUME IInv, Finish
  PROVE  IInv'
<1>1. Top = 1 /\ schedulers[1] = Len(input.init)
  <2>1. Top = 1
    BY EmptySeq DEF IInv, TypeOK, Top, Finish
  <2>2. schedulers[1] \in Nat /\ Len(input.init) \in Nat
    <3>1. schedulers \in Seq(Nat) /\ 1 \in 1..Len(schedulers)
      BY <2>1 DEF IInv, TypeOK, Top
    <3>2. QED
      BY <3>1, ElementOfSeq, InputTyped, LenProperties DEF IInv, TypeOK
  <2>3. schedulers[1] >= Len(input.init) /\ schedulers[1] <= Len(input.init)
    BY <2>1 DEF Finish, Exhausted, Outcomes, IInv, SchedulesVisited, Top
  <2>4. QED
    BY <2>1, <2>2, <2>3
<1>2. /\ result = "running" /\ result' = "exhausted" /\ trace = <<>>
      /\ UNCHANGED <<input, trace, traceSchedule, schedulers, visited, produced, found>>
  BY DEF Finish, stacks
<1>3. TypeOK' /\ RootExhausted'
  BY <1>1, <1>2 DEF IInv, TypeOK, Results, RootExhausted
<1>4. TraceReplays' /\ TraceVisited' /\ SchedulesVisited'
  BY <1>2 DEF IInv, TraceReplays, TraceVisited, SchedulesVisited, Outcomes
<1>5. LeftIsClosed' /\ FewFindings'
  BY <1>2 DEF IInv, LeftIsClosed, FewFindings
<1>6. FindingsReplay' /\ BadIsReported' /\ FindingsDistinct'
  BY <1>2, FindingsKept
<1>7. QED
  BY <1>3, <1>4, <1>5, <1>6 DEF IInv

----------------------------------------------------------------------------
\* Every pass of the loop of `check_dfs` preserves the inductive invariant.
LEMMA StepIInv == IInv /\ [Next]_vars => IInv'
<1> SUFFICES ASSUME IInv, [Next]_vars
             PROVE  IInv'
  OBVIOUS
<1>1. CASE CutOff
  BY <1>1, OutcomeAssumption, PopStep DEF CutOff, AtCutoff
<1>2. CASE Backtrack
  BY <1>2, PopStep DEF Backtrack
<1>3. CASE Finish
  BY <1>3, FinishStep
<1>4. CASE Infeasible \/ Revisit \/ ActionError \/ TimeOut
  BY <1>4, NothingNewStep
<1>5. CASE Visit
  BY <1>5, VisitStep
<1>6. CASE Report
  BY <1>6, ReportStep
<1>7. CASE UNCHANGED vars
  <2>1. FindingsReplay' /\ BadIsReported' /\ FindingsDistinct'
    BY <1>7, FindingsKept DEF vars
  <2>2. TypeOK' /\ TraceReplays' /\ TraceVisited' /\ SchedulesVisited'
    BY <1>7 DEF vars, IInv, TypeOK, TraceReplays, TraceVisited, SchedulesVisited, Outcomes
  <2>3. LeftIsClosed' /\ RootExhausted' /\ FewFindings'
    BY <1>7 DEF vars, IInv, LeftIsClosed, RootExhausted, FewFindings
  <2>4. QED
    BY <2>1, <2>2, <2>3 DEF IInv
<1>8. QED
  BY <1>1, <1>2, <1>3, <1>4, <1>5, <1>6, <1>7 DEF Next

\* The stack, the trace and the visited states of `check_dfs` mean what IInv
\* says, always.
THEOREM SearchInvariant == Spec => []IInv
<1>1. QED
  BY InitIInv, StepIInv, PTL DEF Spec

\* The stacks of check_dfs stay aligned.
THEOREM TypeCorrect == Spec => []TypeOK
<1>1. IInv => TypeOK
  BY DEF IInv
<1>2. QED
  BY <1>1, SearchInvariant, PTL

\* Every counterexample that check_dfs returns is one.
THEOREM CounterexamplesReplay == Spec => []FindingsReplay
<1>1. IInv => FindingsReplay
  BY DEF IInv
<1>2. QED
  BY <1>1, SearchInvariant, PTL

\* No more than max_findings counterexamples, of different states.
THEOREM CounterexamplesDistinct == Spec => []FindingsDistinct
<1>1. IInv => FindingsDistinct
  BY DEF IInv
<1>2. QED
  BY <1>1, SearchInvariant, PTL

\* What the search has left for good, once the root is exhausted, is closed
\* under init and step.
LEMMA ExhaustedClosed ==
  IInv /\ result = "exhausted" /\ input.maxSteps = None => S!Produced \subseteq visited
<1> SUFFICES ASSUME IInv, result = "exhausted", input.maxSteps = None
             PROVE  S!Produced \subseteq visited
  OBVIOUS
<1>1. S!Elements(input.init) \cap States \subseteq visited
  <2>1. Len(schedulers) = 1 /\ schedulers[1] = Len(input.init)
    BY DEF IInv, TypeOK, RootExhausted
  <2>2. \A j \in 1..Len(input.init) : input.init[j] \in visited \cup {None}
    BY <2>1 DEF IInv, SchedulesVisited, Outcomes
  <2>3. QED
    BY <2>2, OutcomeAssumption DEF S!Elements
<1>2. ASSUME NEW v \in visited \ input.bad
      PROVE  S!Elements(input.step[v]) \cap States \subseteq visited
  <2>1. Len(trace) = 0
    BY DEF IInv, RootExhausted
  <2>2. QED
    BY <2>1 DEF IInv, LeftIsClosed
<1>3. QED
  BY <1>1, <1>2 DEF S!Produced

\* A search without a cutoff that ends has visited all there is to visit and
\* reported every violation.
THEOREM SearchIsExhaustive == Spec => []ExhaustedIsComplete
<1>1. IInv => ExhaustedIsComplete
  BY ExhaustedClosed DEF IInv, BadIsReported, ExhaustedIsComplete
<1>2. QED
  BY <1>1, SearchInvariant, PTL

----------------------------------------------------------------------------
\* The cutoff.  FindingsWithinCutoff is not inductive by itself: a finding is
\* the trace and one more state.
CutoffInv ==
  /\ input.maxSteps # None => Len(trace) <= input.maxSteps + 1
  /\ FindingsWithinCutoff

\* A schedule runs only while the trace has at most maxSteps states, or none.
LEMMA RunsWithinCutoff ==
  ASSUME IInv, NEW i, NEW o \in States, RunSchedule(i, o), input.maxSteps # None
  PROVE  /\ input.maxSteps \in Nat
         /\ Len(Append(trace, o)) \in Nat
         /\ Len(Append(trace, o)) <= input.maxSteps + 1
<1>1. input.maxSteps \in Nat
  BY InputTyped DEF IInv, TypeOK
<1>2. /\ Len(trace) \in Nat /\ ~AtCutoff
  BY LenProperties DEF IInv, TypeOK, RunSchedule
<1>3. Len(trace) <= input.maxSteps
  BY <1>1, <1>2 DEF AtCutoff
<1>4. Len(Append(trace, o)) = Len(trace) + 1
  BY AppendProperties DEF IInv, TypeOK
<1>5. QED
  BY <1>1, <1>2, <1>3, <1>4

\* Only Visit and Report make a trace, and both append one state to it.
LEMMA CutoffStep ==
  ASSUME IInv, CutoffInv, [Next]_vars
  PROVE  CutoffInv'
<1>1. CASE CutOff \/ Backtrack
  <2>1. /\ trace' = Pop(trace) /\ UNCHANGED <<input, found>>
        /\ trace # <<>> /\ trace \in Seq(States)
    BY <1>1, EmptySeq DEF CutOff, Backtrack, PopAll, AtCutoff, IInv, TypeOK
  <2>2. Len(trace) \in Nat /\ Len(trace) > 0
    BY <2>1, EmptySeq, LenProperties
  <2>3. Len(trace') = Len(trace) - 1
    BY <2>1, <2>2, PopProperties
  <2>4. input.maxSteps # None => input.maxSteps \in Nat
    BY InputTyped DEF IInv, TypeOK
  <2>5. input.maxSteps # None => Len(trace') <= input.maxSteps + 1
    BY <2>2, <2>3, <2>4 DEF CutoffInv
  <2>6. QED
    BY <2>1, <2>5 DEF CutoffInv, FindingsWithinCutoff
<1>2. CASE Finish \/ ActionError \/ TimeOut \/ Infeasible \/ Revisit \/ UNCHANGED vars
  <2>1. UNCHANGED <<input, trace, found>>
    BY <1>2 DEF Finish, ActionError, TimeOut, Infeasible, Revisit, stacks, vars
  <2>2. QED
    BY <2>1 DEF CutoffInv, FindingsWithinCutoff
<1>3. CASE Visit
  <2>1. PICK i \in 1..Len(Outcomes(Top)), o \in States \ (visited \cup input.bad) :
          /\ RunSchedule(i, o)
          /\ trace' = Append(trace, o)
          /\ UNCHANGED <<input, found>>
    BY <1>3 DEF Visit
  <2>2. QED
    BY <2>1, RunsWithinCutoff DEF CutoffInv, FindingsWithinCutoff
<1>4. CASE Report
  <2>1. PICK i \in 1..Len(Outcomes(Top)), o \in input.bad \ visited :
          /\ RunSchedule(i, o)
          /\ found' = Append(found, [trace |-> Append(trace, o),
                                     schedule |-> Append(traceSchedule, i)])
          /\ UNCHANGED <<input, trace>>
    BY <1>4 DEF Report
  <2> DEFINE f == [trace |-> Append(trace, o), schedule |-> Append(traceSchedule, i)]
  <2>2. f.trace = Append(trace, o)
    OBVIOUS
  <2>3. f = [trace |-> Append(trace, o), schedule |-> Append(traceSchedule, i)]
    OBVIOUS
  <2>4. found' = Append(found, f)
    BY <2>1
  <2> HIDE DEF f
  <2>5. /\ o \in States
        /\ Len(found) \in Nat /\ Len(found') = Len(found) + 1
        /\ \A n \in 1..Len(found) : found'[n] = found[n]
        /\ found'[Len(found) + 1] = f
    BY <2>1, <2>3, <2>4, Reported
  <2>6. ASSUME input.maxSteps # None, NEW n \in 1..Len(found')
        PROVE  Len(found'[n].trace) <= input.maxSteps + 1
    <3>1. CASE n \in 1..Len(found)
      BY <2>5, <2>6, <3>1 DEF CutoffInv, FindingsWithinCutoff
    <3>2. CASE n = Len(found) + 1
      BY <2>1, <2>2, <2>5, <2>6, <3>2, RunsWithinCutoff
    <3>3. QED
      BY <2>5, <2>6, <3>1, <3>2
  <2>7. QED
    BY <2>1, <2>6 DEF CutoffInv, FindingsWithinCutoff
<1>5. QED
  BY <1>1, <1>2, <1>3, <1>4 DEF Next

\* --max-steps: no counterexample is longer than the cutoff allows.
THEOREM CounterexamplesWithinCutoff == Spec => []FindingsWithinCutoff
<1>1. Init => CutoffInv
  <2> SUFFICES ASSUME Init PROVE CutoffInv
    OBVIOUS
  <2>1. Len(trace) = 0 /\ Len(found) = 0 /\ input \in Inputs
    BY DEF Init
  <2>2. input.maxSteps # None => input.maxSteps \in Nat
    BY <2>1, InputTyped
  <2>3. QED
    BY <2>1, <2>2 DEF CutoffInv, FindingsWithinCutoff
<1>2. IInv /\ CutoffInv /\ [Next]_vars => CutoffInv'
  BY CutoffStep
<1>3. CutoffInv => FindingsWithinCutoff
  BY DEF CutoffInv
<1>4. QED
  BY <1>1, <1>2, <1>3, SearchInvariant, PTL DEF Spec

----------------------------------------------------------------------------
\* check_dfs refines the abstract search.
LEMMA VisitRefines ==
  ASSUME IInv, Visit
  PROVE  S!Next
<1>1. PICK i \in 1..Len(Outcomes(Top)), o \in States \ (visited \cup input.bad) :
        /\ RunSchedule(i, o)
        /\ visited' = visited \cup {o}
        /\ result' = IF o \in input.undefined THEN "error" ELSE "running"
        /\ UNCHANGED <<input, found>>
  BY DEF Visit
<1>2. o \in S!Produced \ visited /\ result = "running"
  BY <1>1, RunFacts DEF RunSchedule
<1>3. violations' = violations
  BY <1>1 DEF violations, Violation
<1>4. S!Visit(o)
  BY <1>1, <1>2, <1>3 DEF S!Visit
<1>5. QED
  BY <1>1, <1>4 DEF S!Next

\* Recording a counterexample is a visit of the abstract search.
LEMMA ReportRefines ==
  ASSUME IInv, Report
  PROVE  S!Next
<1>1. PICK i \in 1..Len(Outcomes(Top)), o \in input.bad \ visited :
        /\ RunSchedule(i, o)
        /\ visited' = visited \cup {o}
        /\ found' = Append(found, [trace |-> Append(trace, o),
                                   schedule |-> Append(traceSchedule, i)])
        /\ result' = IF Len(found') >= input.maxFindings THEN "found" ELSE "running"
        /\ UNCHANGED input
  BY DEF Report
<1>2. PICK f : f = [trace |-> Append(trace, o), schedule |-> Append(traceSchedule, i)]
  OBVIOUS
<1>3. /\ o \in States /\ Violation(f) = o
      /\ Len(found) \in Nat /\ Len(found') = Len(found) + 1
      /\ \A n \in 1..Len(found) : found'[n] = found[n]
      /\ found'[Len(found) + 1] = f
  BY <1>1, <1>2, Reported
<1>4. o \in S!Produced \ visited /\ result = "running"
  BY <1>1, <1>3, RunFacts DEF RunSchedule
<1>5. violations' = Append(violations, o)
  <2>1. /\ violations = [n \in 1..Len(found) |-> Violation(found[n])]
        /\ violations' = [n \in 1..Len(found') |-> Violation(found'[n])]
    BY DEF violations, Violation
  <2>2. /\ violations \in Seq(States) /\ Len(violations) = Len(found)
        /\ \A n \in 1..Len(found) : violations[n] = Violation(found[n])
    <3>1. \A n \in 1..Len(found) : violations[n] \in States
      BY DEF IInv, TypeOK, BadIsReported
    <3>2. QED
      BY <1>3, <2>1, <3>1
  <2>3. violations' \in Seq(States) /\ Len(violations') = Len(found) + 1
    <3>1. \A n \in 1..Len(found') : violations'[n] \in States
      BY <1>1, <1>3, ReportStep DEF IInv, TypeOK, BadIsReported
    <3>2. QED
      BY <1>3, <2>1, <3>1
  <2>4. /\ Append(violations, o) \in Seq(States)
        /\ Len(Append(violations, o)) = Len(found) + 1
        /\ \A n \in 1..Len(found) : Append(violations, o)[n] = violations[n]
        /\ Append(violations, o)[Len(found) + 1] = o
    BY <1>3, <2>2, AppendProperties
  <2>5. ASSUME NEW n \in 1..(Len(found) + 1)
        PROVE  violations'[n] = Append(violations, o)[n]
    BY <1>3, <2>1, <2>2, <2>4
  <2>6. QED
    BY <1>3, <2>3, <2>4, <2>5, SeqEqual
<1>6. Len(violations') = Len(found')
  BY <1>3 DEF violations
<1>7. input.bad \cap input.undefined = {}
  BY InputTyped DEF IInv, TypeOK
<1>8. S!Visit(o)
  BY <1>1, <1>4, <1>5, <1>6, <1>7 DEF S!Visit
<1>9. QED
  BY <1>3, <1>8 DEF S!Next

\* A pass of the loop is a step of the abstract search, or none.
LEMMA StepRefines == IInv /\ [Next]_vars => [S!Next]_(S!vars)
<1> SUFFICES ASSUME IInv, [Next]_vars
             PROVE  S!Next \/ UNCHANGED S!vars
  BY DEF S!vars
<1>1. CASE CutOff \/ Backtrack \/ Infeasible \/ Revisit \/ UNCHANGED vars
  BY <1>1 DEF CutOff, Backtrack, Infeasible, Revisit, vars, S!vars, violations, Violation
<1>2. CASE ActionError \/ TimeOut
  <2>1. /\ result = "running" /\ result' \in {"error", "timeout"}
        /\ UNCHANGED <<input, visited, found>>
    BY <1>2 DEF ActionError, TimeOut, RunSchedule
  <2>2. violations' = violations
    BY <2>1 DEF violations, Violation
  <2>3. S!GiveUp
    BY <2>1, <2>2 DEF S!GiveUp
  <2>4. QED
    BY <2>3 DEF S!Next
<1>3. CASE Finish
  <2>1. /\ result = "running" /\ result' = "exhausted"
        /\ UNCHANGED <<input, visited, found>>
    BY <1>3 DEF Finish
  <2>2. violations' = violations
    BY <2>1 DEF violations, Violation
  <2>3. S!Produced \subseteq visited \/ input.maxSteps # None
    <3>1. (IInv /\ result = "exhausted" /\ input.maxSteps = None
             => S!Produced \subseteq visited)'
      BY ExhaustedClosed, PTL
    <3>2. IInv'
      BY <1>3, FinishStep
    <3>3. S!Produced' = S!Produced
      BY <2>1 DEF S!Produced, S!Elements
    <3>4. QED
      BY <2>1, <3>1, <3>2, <3>3
  <2>4. S!Finish
    BY <2>1, <2>2, <2>3 DEF S!Finish
  <2>5. QED
    BY <2>4 DEF S!Next
<1>4. CASE Visit
  BY <1>4, VisitRefines
<1>5. CASE Report
  BY <1>5, ReportRefines
<1>6. QED
  BY <1>1, <1>2, <1>3, <1>4, <1>5 DEF Next

\* check_dfs is an exhaustive search in the sense of module Search.
THEOREM ImplementsSearch == Spec => SearchSpec
<1>1. Init => S!Init
  BY DEF Init, S!Init, violations
<1>2. QED
  BY <1>1, SearchInvariant, StepRefines, PTL DEF Spec, SearchSpec, S!Spec
=============================================================================

------------------------ MODULE MachineState_proofs ------------------------
(***************************************************************************)
(* Proofs about a @state object for any fields, keys and nesting of        *)
(* blocks: the writes of an action are what the state is in the end, and a *)
(* write is refused only to a field that was written.                      *)
(*                                                                         *)
(* The argument is about one field that is not tangled.  In every version  *)
(* of the object, the current one and those that alternatives have saved,  *)
(* the field is what the writes mean; one session at most holds it, and    *)
(* what that session will write is what it says.                           *)
(***************************************************************************)
EXTENDS MachineState, SequenceTheorems, WellFoundedInduction, TLAPS

----------------------------------------------------------------------------
\* Types.

Maps == UNION {[K -> Nat] : K \in SUBSET (ObjectKeys \cup {1})}
Values == [MachineFields -> Maps]
Objects == [value : Values, count : [MachineFields -> {0, 1}], edited : SUBSET MachineFields]
Drafts == Seq([field : MachineFields, value : Maps])
Snapshots ==
  [object : Objects, meant : Values, written : SUBSET MachineFields, recorded : Values]
SessionBlocks ==
  [kind : {"session"}, deferred : BOOLEAN, builders : Drafts, replacements : Drafts, says : Values]
ArmBlocks == [kind : {"arm"}, saved : Snapshots]
ChoiceBlocks ==
  [kind : {"alternatives"}, arm : {1, 2}, chosen : {1, 2}, state : Snapshots \cup {Nothing}]
Blocks == SessionBlocks \cup ArmBlocks \cup ChoiceBlocks

MachineTypeOK ==
  /\ object \in Objects /\ meant \in Values /\ recorded \in Values
  /\ withBlocks \in Seq(Blocks)
  /\ written \subseteq MachineFields /\ tangled \subseteq MachineFields
  /\ writes \in Nat
  /\ status \in {<<>>} \cup {<<f>> : f \in MachineFields}

\* An arm is in its alternatives, and these have the state of the chosen arm once it
\* has run.  Only a deferred session has replacements.
NestInv ==
  \A i \in DOMAIN withBlocks :
    /\ withBlocks[i].kind = "session" => (withBlocks[i].deferred \/ withBlocks[i].replacements = <<>>)
    /\ withBlocks[i].kind = "arm" => i > 1 /\ withBlocks[i - 1].kind = "alternatives"
    /\ withBlocks[i].kind = "alternatives" =>
         /\ i < Len(withBlocks) => withBlocks[i + 1].kind = "arm"
         /\ withBlocks[i].arm = 2 /\ withBlocks[i].chosen = 1 => withBlocks[i].state # Nothing

----------------------------------------------------------------------------
\* A field that is not tangled.

\* The versions of the object that a block has saved.
SavedIn(b) ==
  IF b.kind = "arm" THEN {b.saved}
  ELSE IF b.kind = "alternatives" THEN {b.state} \ {Nothing} ELSE {}
SavedAbove(i) == UNION {SavedIn(withBlocks[j]) : j \in {j \in DOMAIN withBlocks : j > i}}

\* In a version, the field is what the writes mean, and counts as written only if it was.
Faithful(x, f) ==
  /\ x.object.value[f] = x.meant[f] /\ x.recorded[f] = x.meant[f]
  /\ x.object.count[f] # 0 \/ f \in x.object.edited => f \in x.written

\* What a session that holds the field will write.
Draft(s, f) ==
  LET i == Touched(s.builders, f)
  IN IF i # 0 THEN s.builders[i].value ELSE s.replacements[Touched(s.replacements, f)].value
\* What the versions tell of it that are made while the session is open.
Follows(s, x, f) == f \in x.written /\ (~s.deferred => x.object.value[f] = Draft(s, f))

HolderInv(i, f) ==
  /\ \A j \in Sessions : Holds(j, f) => j = i
  /\ withBlocks[i].deferred => Draft(withBlocks[i], f) = withBlocks[i].says[f]
  /\ \A x \in {Snapshot} \cup SavedAbove(i) : Follows(withBlocks[i], x, f)

FieldInv(f) ==
  /\ \A x \in {Snapshot} \cup SavedAbove(0) : Faithful(x, f)
  /\ \A i \in Sessions : Holds(i, f) => HolderInv(i, f)

MachineInv ==
  /\ MachineTypeOK
  /\ Running => NestInv /\ \A f \in MachineFields \ tangled : FieldInv(f)
  /\ RefusedOnlyIfWritten

----------------------------------------------------------------------------
\* Lists of drafts.

\* A nonempty set of naturals has a smallest member, which Min returns.
LEMMA MinIsSmallest ==
  ASSUME NEW T \in SUBSET Nat, T # {}
  PROVE  Min(T) \in T /\ \A y \in T : Min(T) <= y
<1>1. PICK x \in T : \A y \in T : ~(<<y, x>> \in OpToRel(<, Nat))
  BY NatLessThanWellFounded, WFMin, Zenon
<1>2. \A y \in T : ~(y < x)
  BY <1>1, Zenon DEF OpToRel
<1>3. \E z \in T : \A y \in T : z <= y
  BY <1>2
<1>4. QED
  BY <1>3 DEF Min

\* Touched is the first draft of a field, or 0 if there is none.
LEMMA TouchedFacts ==
  ASSUME NEW d \in Drafts, NEW f
  PROVE  /\ Touched(d, f) \in 0..Len(d)
         /\ Touched(d, f) # 0 => /\ d[Touched(d, f)].field = f
                                 /\ \A i \in 1..(Touched(d, f) - 1) : d[i].field # f
         /\ Touched(d, f) = 0 => \A i \in 1..Len(d) : d[i].field # f
<1> DEFINE I == {i \in 1..Len(d) : d[i].field = f}
<1>1. Touched(d, f) = IF I # {} THEN Min(I) ELSE 0
  BY DEF Touched, SelectInSeq
<1>2. Len(d) \in Nat /\ I \in SUBSET Nat
  BY DEF Drafts
<1>3. CASE I = {}
  BY <1>1, <1>2, <1>3
<1>4. CASE I # {}
  <2>1. Min(I) \in I /\ \A y \in I : Min(I) <= y
    BY <1>2, <1>4, MinIsSmallest
  <2>2. Touched(d, f) = Min(I)
    BY <1>1, <1>4
  <2>3. Touched(d, f) \in 1..Len(d) /\ d[Touched(d, f)].field = f
    BY <2>1, <2>2
  <2>4. ASSUME NEW i \in 1..(Touched(d, f) - 1) PROVE d[i].field # f
    <3>1. i \in 1..Len(d) /\ ~(Touched(d, f) <= i)
      BY <1>2, <2>3
    <3>2. QED
      BY <2>1, <2>2, <3>1
  <2>5. QED
    BY <1>2, <2>3, <2>4
<1>5. QED
  BY <1>3, <1>4

\* That is all there is to it.
LEMMA TouchedFirst ==
  ASSUME NEW d \in Drafts, NEW f, NEW n \in 1..Len(d), d[n].field = f,
         \A i \in 1..(n - 1) : d[i].field # f
  PROVE  Touched(d, f) = n
<1>1. Len(d) \in Nat
  BY DEF Drafts
<1>2. QED
  BY <1>1, TouchedFacts

LEMMA TouchedNone ==
  ASSUME NEW d \in Drafts, NEW f, \A i \in 1..Len(d) : d[i].field # f
  PROVE  Touched(d, f) = 0
<1>1. Len(d) \in Nat
  BY DEF Drafts
<1>2. QED
  BY <1>1, TouchedFacts

\* The same fields are touched in drafts of the same fields.
LEMMA TouchedSame ==
  ASSUME NEW d \in Drafts, NEW e \in Drafts, Len(e) = Len(d),
         \A i \in 1..Len(d) : e[i].field = d[i].field, NEW f
  PROVE  Touched(e, f) = Touched(d, f)
<1>1. Len(d) \in Nat
  BY DEF Drafts
<1>2. CASE Touched(d, f) = 0
  BY <1>1, <1>2, TouchedFacts, TouchedNone
<1>3. CASE Touched(d, f) # 0
  BY <1>1, <1>3, TouchedFacts, TouchedFirst
<1>4. QED
  BY <1>2, <1>3

\* An appended draft is the first of its field if there was none.
LEMMA TouchedAppend ==
  ASSUME NEW d \in Drafts, NEW b \in [field : MachineFields, value : Maps], NEW f
  PROVE  /\ Append(d, b) \in Drafts
         /\ Touched(Append(d, b), f) =
              IF Touched(d, f) # 0 THEN Touched(d, f)
              ELSE IF b.field = f THEN Len(d) + 1 ELSE 0
<1> DEFINE D == [field : MachineFields, value : Maps]
<1> HIDE DEF D
<1>1. d \in Seq(D) /\ b \in D
  BY DEF Drafts, D
<1>2. /\ Append(d, b) \in Seq(D) /\ Len(Append(d, b)) = Len(d) + 1
      /\ \A i \in 1..Len(d) : Append(d, b)[i] = d[i]
      /\ Append(d, b)[Len(d) + 1] = b
  BY <1>1, AppendProperties
<1>3. Append(d, b) \in Drafts /\ Len(d) \in Nat
  BY <1>1, <1>2 DEF Drafts, D
<1>4. CASE Touched(d, f) # 0
  <2>1. Touched(d, f) \in 1..Len(d) /\ d[Touched(d, f)].field = f
    BY <1>3, <1>4, TouchedFacts
  <2>2. \A i \in 1..(Touched(d, f) - 1) : Append(d, b)[i].field # f
    BY <1>2, <1>3, <1>4, <2>1, TouchedFacts
  <2>3. Touched(d, f) \in 1..Len(Append(d, b)) /\ Append(d, b)[Touched(d, f)].field = f
    BY <1>2, <1>3, <2>1
  <2>4. Touched(Append(d, b), f) = Touched(d, f)
    BY <1>3, <2>2, <2>3, TouchedFirst
  <2>5. QED
    BY <1>3, <1>4, <2>4
<1>5. CASE Touched(d, f) = 0 /\ b.field = f
  <2>1. \A i \in 1..Len(d) : Append(d, b)[i].field # f
    BY <1>2, <1>5, TouchedFacts
  <2> DEFINE n == Len(d) + 1
  <2>2. /\ n \in 1..Len(Append(d, b)) /\ Append(d, b)[n].field = f
        /\ \A i \in 1..(n - 1) : Append(d, b)[i].field # f
    BY <1>2, <1>3, <1>5, <2>1
  <2> HIDE DEF n
  <2>3. Touched(Append(d, b), f) = n
    BY <1>3, <2>2, TouchedFirst
  <2>4. QED
    BY <1>3, <1>5, <2>3 DEF n
<1>6. CASE Touched(d, f) = 0 /\ b.field # f
  <2>1. \A i \in 1..(Len(d) + 1) : Append(d, b)[i].field # f
    BY <1>2, <1>3, <1>6, TouchedFacts
  <2>2. Touched(Append(d, b), f) = 0
    BY <1>2, <1>3, <2>1, TouchedNone
  <2>3. QED
    BY <1>3, <1>6, <2>2
<1>7. QED
  BY <1>4, <1>5, <1>6

\* In a concatenation, the first drafts of a field come first.
LEMMA TouchedConcat ==
  ASSUME NEW d \in Drafts, NEW e \in Drafts, NEW f
  PROVE  /\ d \o e \in Drafts
         /\ Touched(d \o e, f) =
              IF Touched(d, f) # 0 THEN Touched(d, f)
              ELSE IF Touched(e, f) # 0 THEN Len(d) + Touched(e, f) ELSE 0
<1> DEFINE D == [field : MachineFields, value : Maps]
<1> HIDE DEF D
<1>1. d \in Seq(D) /\ e \in Seq(D)
  BY DEF Drafts, D
<1>2. /\ d \o e \in Seq(D) /\ Len(d \o e) = Len(d) + Len(e)
      /\ \A i \in 1..(Len(d) + Len(e)) : (d \o e)[i] = IF i <= Len(d) THEN d[i] ELSE e[i - Len(d)]
  BY <1>1, ConcatProperties
<1>3. d \o e \in Drafts /\ Len(d) \in Nat /\ Len(e) \in Nat
  BY <1>1, <1>2 DEF Drafts, D
<1>4. CASE Touched(d, f) # 0
  <2>1. Touched(d, f) \in 1..Len(d) /\ d[Touched(d, f)].field = f
    BY <1>3, <1>4, TouchedFacts
  <2>2. \A i \in 1..(Touched(d, f) - 1) : (d \o e)[i].field # f
    BY <1>2, <1>3, <1>4, <2>1, TouchedFacts
  <2>3. Touched(d, f) \in 1..Len(d \o e) /\ (d \o e)[Touched(d, f)].field = f
    BY <1>2, <1>3, <2>1
  <2>4. Touched(d \o e, f) = Touched(d, f)
    BY <1>3, <2>2, <2>3, TouchedFirst
  <2>5. QED
    BY <1>3, <1>4, <2>4
<1>5. CASE Touched(d, f) = 0 /\ Touched(e, f) # 0
  <2> DEFINE n == Len(d) + Touched(e, f)
  <2>1. Touched(e, f) \in 1..Len(e) /\ e[Touched(e, f)].field = f
    BY <1>3, <1>5, TouchedFacts
  <2>2. n \in 1..Len(d \o e) /\ (d \o e)[n].field = f
    BY <1>2, <1>3, <2>1
  <2>3. ASSUME NEW i \in 1..(n - 1) PROVE (d \o e)[i].field # f
    <3>1. CASE i <= Len(d)
      BY <1>2, <1>3, <1>5, <2>1, <3>1, TouchedFacts
    <3>2. CASE ~(i <= Len(d))
      <4>1. i - Len(d) \in 1..(Touched(e, f) - 1) /\ (d \o e)[i] = e[i - Len(d)]
        BY <1>2, <1>3, <2>1, <3>2
      <4>2. QED
        BY <1>5, <4>1, TouchedFacts
    <3>3. QED
      BY <3>1, <3>2
  <2> HIDE DEF n
  <2>4. Touched(d \o e, f) = n
    BY <1>3, <2>2, <2>3, TouchedFirst
  <2>5. QED
    BY <1>3, <1>5, <2>4 DEF n
<1>6. CASE Touched(d, f) = 0 /\ Touched(e, f) = 0
  <2>1. \A i \in 1..Len(d) : d[i].field # f
    BY <1>6, TouchedFacts
  <2>2. \A i \in 1..Len(e) : e[i].field # f
    BY <1>6, TouchedFacts
  <2>3. ASSUME NEW i \in 1..Len(d \o e) PROVE (d \o e)[i].field # f
    <3>1. CASE i <= Len(d)
      BY <1>2, <1>3, <2>1, <3>1
    <3>2. CASE ~(i <= Len(d))
      <4>1. i - Len(d) \in 1..Len(e) /\ (d \o e)[i] = e[i - Len(d)]
        BY <1>2, <1>3, <3>2
      <4>2. QED
        BY <2>2, <4>1
    <3>3. QED
      BY <3>1, <3>2
  <2>4. Touched(d \o e, f) = 0
    BY <1>3, <2>3, TouchedNone
  <2>5. QED
    BY <1>3, <1>6, <2>4
<1>7. QED
  BY <1>4, <1>5, <1>6

----------------------------------------------------------------------------
\* What a session writes.

\* A new map is a map of the field.
LEMMA WholeTyped ==
  ASSUME NEW n \in Nat
  PROVE  Whole(n) \in Maps
<1>1. Whole(n) \in [{1} -> Nat]
  BY DEF Whole
<1>2. QED
  BY <1>1 DEF Maps

\* So is one with an entry more or another one.
LEMMA MapsTyped ==
  ASSUME NEW n \in Nat, NEW f, NEW m \in Maps, NEW k \in ObjectKeys
  PROVE  PutKey(f, m, k, n) \in Maps
<1>2. PICK K \in SUBSET (ObjectKeys \cup {1}) : m \in [K -> Nat]
  BY DEF Maps
<1>3. PutKey(f, m, k, n) \in [K -> Nat] \/ PutKey(f, m, k, n) \in [K \cup {k} -> Nat]
  BY <1>2 DEF PutKey
<1>4. K \cup {k} \in SUBSET (ObjectKeys \cup {1})
  BY <1>2
<1>5. QED
  BY <1>2, <1>3, <1>4 DEF Maps

\* The draft of a field in a list.
At(d, f) == d[Touched(d, f)].value

\* A draft of f is one.
LEMMA DraftOf ==
  ASSUME NEW d \in Drafts, NEW f, Touched(d, f) # 0
  PROVE  /\ Len(d) \in Nat /\ d \in [1..Len(d) -> [field : MachineFields, value : Maps]]
         /\ Touched(d, f) \in 1..Len(d) /\ d[Touched(d, f)].field = f
         /\ f \in MachineFields /\ At(d, f) \in Maps
         /\ d[Touched(d, f)] = [field |-> f, value |-> At(d, f)]
<1> DEFINE D == [field : MachineFields, value : Maps]
<1> HIDE DEF D
<1>1. Len(d) \in Nat
  BY DEF Drafts
<1>2. d \in [1..Len(d) -> D]
  BY LenProperties DEF Drafts, D
<1>3. Touched(d, f) \in 0..Len(d) /\ d[Touched(d, f)].field = f
  BY TouchedFacts
<1>4. Touched(d, f) \in 1..Len(d)
  BY <1>1, <1>3
<1>5. d[Touched(d, f)] \in D
  BY <1>2, <1>4
<1>6. QED
  BY <1>1, <1>2, <1>3, <1>4, <1>5 DEF At, D

DraftType == [field : MachineFields, value : Maps]

\* A list with another value in place of the draft of f.
LEMMA WithDraft ==
  ASSUME NEW d \in Drafts, NEW f, Touched(d, f) # 0,
         NEW e \in [1..Len(d) -> DraftType],
         \A i \in 1..Len(d) : e[i].field = d[i].field,
         \A i \in 1..Len(d) : i # Touched(d, f) => e[i] = d[i]
  PROVE  /\ e \in Drafts
         /\ \A g : Touched(e, g) = Touched(d, g)
         /\ At(e, f) = e[Touched(d, f)].value
         /\ \A g : g # f /\ Touched(d, g) # 0 => At(e, g) = At(d, g)
<1> DEFINE t == Touched(d, f)
<1>1. t \in 1..Len(d) /\ d[t].field = f /\ Len(d) \in Nat
  BY DraftOf
<1>2. e \in Seq(DraftType) /\ Len(e) = Len(d)
  <2>1. e \in Seq(DraftType)
    BY <1>1, SeqDef
  <2>2. DOMAIN e = 1..Len(e) /\ Len(e) \in Nat
    BY <2>1, LenProperties
  <2>3. DOMAIN e = 1..Len(d)
    OBVIOUS
  <2>4. QED
    BY <1>1, <2>1, <2>2, <2>3
<1>3. e \in Drafts
  BY <1>2 DEF Drafts, DraftType
<1> HIDE DEF t
<1>4. \A g : Touched(e, g) = Touched(d, g)
  BY <1>2, <1>3, TouchedSame
<1>5. At(e, f) = e[Touched(d, f)].value
  BY <1>4 DEF At
<1>6. ASSUME NEW g, g # f, Touched(d, g) # 0 PROVE At(e, g) = At(d, g)
  <2>1. Touched(d, g) \in 1..Len(d) /\ d[Touched(d, g)].field = g
    BY <1>6, DraftOf
  <2>2. Touched(d, g) # Touched(d, f)
    BY <1>1, <1>6, <2>1 DEF t
  <2>3. QED
    BY <1>4, <2>1, <2>2 DEF At
<1>7. QED
  BY <1>3, <1>4, <1>5, <1>6

\* A list with a first draft of f.
LEMMA NewDraft ==
  ASSUME NEW d \in Drafts, NEW b \in DraftType, Touched(d, b.field) = 0
  PROVE  LET e == Append(d, b) IN
         /\ e \in Drafts
         /\ Touched(e, b.field) # 0 /\ At(e, b.field) = b.value
         /\ \A g : g # b.field => Touched(e, g) = Touched(d, g)
         /\ \A g : g # b.field /\ Touched(d, g) # 0 => At(e, g) = At(d, g)
<1> DEFINE e == Append(d, b)
<1>1. e \in Drafts /\ \A g : Touched(e, g) = IF Touched(d, g) # 0 THEN Touched(d, g)
                                             ELSE IF b.field = g THEN Len(d) + 1 ELSE 0
  BY TouchedAppend DEF DraftType
<1>2. d \in Seq(DraftType) /\ Len(d) \in Nat
  BY DEF Drafts, DraftType
<1>3. /\ \A i \in 1..Len(d) : e[i] = d[i]
      /\ e[Len(d) + 1] = b
  BY <1>2, AppendProperties
<1> HIDE DEF e
<1>4. Touched(e, b.field) = Len(d) + 1 /\ Touched(e, b.field) # 0
  BY <1>1, <1>2
<1>5. At(e, b.field) = b.value
  BY <1>3, <1>4 DEF At
<1>6. ASSUME NEW g, g # b.field PROVE Touched(e, g) = Touched(d, g)
  BY <1>1, <1>2, <1>6, TouchedFacts
<1>7. ASSUME NEW g, g # b.field, Touched(d, g) # 0 PROVE At(e, g) = At(d, g)
  <2>1. Touched(d, g) \in 1..Len(d)
    BY <1>7, DraftOf
  <2>2. QED
    BY <1>3, <1>6, <1>7, <2>1 DEF At
<1>8. QED
  BY <1>1, <1>4, <1>5, <1>6, <1>7 DEF e

\* `u.f[k] = n`: the builder of f takes the entry, and no other builder changes.
LEMMA BuiltFacts ==
  ASSUME NEW d \in Drafts, NEW f \in MachineFields, NEW k \in ObjectKeys, NEW n \in Nat,
         object.value[f] \in Maps
  PROVE  LET e == Built(d, f, k, n) IN
         /\ e \in Drafts
         /\ Touched(e, f) # 0
         /\ At(e, f) = PutKey(f, IF Touched(d, f) = 0 THEN object.value[f] ELSE At(d, f), k, n)
         /\ \A g : g # f => (Touched(e, g) # 0 <=> Touched(d, g) # 0)
         /\ \A g : g # f /\ Touched(d, g) # 0 => At(e, g) = At(d, g)
<1>1. CASE Touched(d, f) = 0
  <2>1. PutKey(f, object.value[f], k, n) \in Maps
    BY MapsTyped
  <2> DEFINE e == Built(d, f, k, n)
             v == PutKey(f, object.value[f], k, n)
             b == [field |-> f, value |-> v]
  <2>2. e = Append(d, b) /\ b.field = f /\ b.value = v /\ b \in DraftType
    BY <1>1, <2>1 DEF Built, DraftType
  <2> HIDE DEF e, v, b
  <2>3. /\ e \in Drafts
        /\ Touched(e, f) # 0 /\ At(e, f) = v
        /\ \A g : g # f => Touched(e, g) = Touched(d, g)
        /\ \A g : g # f /\ Touched(d, g) # 0 => At(e, g) = At(d, g)
    BY <1>1, <2>2, NewDraft
  <2>4. QED
    BY <1>1, <2>3 DEF e, v
<1>2. CASE Touched(d, f) # 0
  <2> DEFINE v == PutKey(f, At(d, f), k, n)
             t == Touched(d, f)
             e == [d EXCEPT ![t].value = v]
             b == [field |-> f, value |-> v]
  <2>1. /\ At(d, f) \in Maps /\ v \in Maps
        /\ t \in 1..Len(d) /\ d[t].field = f /\ d[t] = [field |-> f, value |-> At(d, f)]
        /\ d \in [1..Len(d) -> DraftType]
    BY <1>2, DraftOf, MapsTyped DEF DraftType
  <2>2. Built(d, f, k, n) = e
    BY <1>2 DEF Built, At
  <2> HIDE DEF v, t
  <2>6. [d[t] EXCEPT !.value = v] = b /\ b \in DraftType /\ b.field = f /\ b.value = v
    BY <2>1 DEF DraftType
  <2> HIDE DEF b
  <2>7. e = [d EXCEPT ![t] = b]
    BY <2>1, <2>6
  <2> HIDE DEF e
  <2>8. /\ e \in [1..Len(d) -> DraftType]
        /\ \A i \in 1..Len(d) : e[i].field = d[i].field
        /\ \A i \in 1..Len(d) : i # t => e[i] = d[i]
        /\ e[t].value = v
    BY <2>1, <2>6, <2>7
  <2>3. /\ e \in Drafts
        /\ \A g : Touched(e, g) = Touched(d, g)
        /\ At(e, f) = v
        /\ \A g : g # f /\ Touched(d, g) # 0 => At(e, g) = At(d, g)
    BY <1>2, <2>8, WithDraft DEF t
  <2>4. Touched(e, f) # 0 /\ (\A g : g # f => (Touched(e, g) # 0 <=> Touched(d, g) # 0))
    BY <1>2, <2>3
  <2>5. QED
    BY <1>2, <2>2, <2>3, <2>4 DEF v
<1>3. QED
  BY <1>1, <1>2

\* `u.f = v` of a deferred session: the replacement of f, and no other, is v.
LEMMA ReplacedFacts ==
  ASSUME NEW d \in Drafts, NEW f \in MachineFields, NEW v \in Maps
  PROVE  LET e == Replaced(d, f, v) IN
         /\ e \in Drafts
         /\ Touched(e, f) # 0 /\ At(e, f) = v
         /\ \A g : g # f => (Touched(e, g) # 0 <=> Touched(d, g) # 0)
         /\ \A g : g # f /\ Touched(d, g) # 0 => At(e, g) = At(d, g)
<1>1. CASE Touched(d, f) = 0
  <2> DEFINE e == Replaced(d, f, v)
             b == [field |-> f, value |-> v]
  <2>1. e = Append(d, b) /\ b.field = f /\ b.value = v /\ b \in DraftType
    BY <1>1 DEF Replaced, DraftType
  <2> HIDE DEF e, b
  <2>2. /\ e \in Drafts
        /\ Touched(e, f) # 0 /\ At(e, f) = v
        /\ \A g : g # f => Touched(e, g) = Touched(d, g)
        /\ \A g : g # f /\ Touched(d, g) # 0 => At(e, g) = At(d, g)
    BY <1>1, <2>1, NewDraft
  <2>3. QED
    BY <1>1, <2>2 DEF e
<1>2. CASE Touched(d, f) # 0
  <2> DEFINE e == Replaced(d, f, v)
             t == Touched(d, f)
             b == [field |-> f, value |-> v]
  <2>1. /\ t \in 1..Len(d) /\ d[t].field = f /\ d \in [1..Len(d) -> DraftType]
        /\ b \in DraftType /\ b.field = f /\ b.value = v
    BY <1>2, DraftOf DEF DraftType
  <2>2. e = [d EXCEPT ![t] = b]
    BY <1>2 DEF Replaced
  <2> HIDE DEF e, b, t
  <2>3. /\ e \in [1..Len(d) -> DraftType]
        /\ \A i \in 1..Len(d) : e[i].field = d[i].field
        /\ \A i \in 1..Len(d) : i # t => e[i] = d[i]
        /\ e[t].value = v
    BY <2>1, <2>2
  <2>4. /\ e \in Drafts
        /\ \A g : Touched(e, g) = Touched(d, g)
        /\ At(e, f) = v
        /\ \A g : g # f /\ Touched(d, g) # 0 => At(e, g) = At(d, g)
    BY <1>2, <2>3, WithDraft DEF t
  <2>5. Touched(e, f) # 0 /\ (\A g : g # f => (Touched(e, g) # 0 <=> Touched(d, g) # 0))
    BY <1>2, <2>4
  <2>6. QED
    BY <2>4, <2>5 DEF e
<1>3. QED
  BY <1>1, <1>2

----------------------------------------------------------------------------
\* The object, and the blocks.

\* An assignment writes its field only, in the value and in what is remembered of it.
LEMMA WriteFacts ==
  ASSUME NEW o \in Objects, NEW f \in MachineFields, NEW v \in Maps,
         NEW p, p = Set(o, f, v) \/ p = Edit(o, f, v)
  PROVE  /\ p \in Objects /\ p.value[f] = v
         /\ \A g \in MachineFields : g # f =>
              /\ p.value[g] = o.value[g] /\ p.count[g] = o.count[g]
              /\ g \in p.edited <=> g \in o.edited
<1>1. o.value \in Values /\ o.count \in [MachineFields -> {0, 1}] /\ o.edited \subseteq MachineFields
  BY DEF Objects
<1> DEFINE w == [o.value EXCEPT ![f] = v]
           c == [o.count EXCEPT ![f] = 1]
           e == o.edited \cup {f}
<1>2. /\ w \in Values /\ w[f] = v /\ \A g \in MachineFields : g # f => w[g] = o.value[g]
      /\ c \in [MachineFields -> {0, 1}] /\ \A g \in MachineFields : g # f => c[g] = o.count[g]
      /\ e \subseteq MachineFields /\ \A g \in MachineFields : g # f => (g \in e <=> g \in o.edited)
  BY <1>1 DEF Values
<1>3. Set(o, f, v) = [o EXCEPT !.value = w, !.count = c]
  BY DEF Set
<1>4. Edit(o, f, v) = [o EXCEPT !.value = w, !.edited = e]
  BY DEF Edit
<1> HIDE DEF w, c, e
<1>5. CASE p = Set(o, f, v)
  <2>1. p \in Objects /\ p.value = w /\ p.count = c /\ p.edited = o.edited
    BY <1>2, <1>3, <1>5 DEF Objects
  <2>2. QED
    BY <1>2, <2>1
<1>6. CASE p = Edit(o, f, v)
  <2>1. p \in Objects /\ p.value = w /\ p.count = o.count /\ p.edited = e
    BY <1>2, <1>4, <1>6 DEF Objects
  <2>2. QED
    BY <1>2, <2>1
<1>7. QED
  BY <1>5, <1>6

\* The blocks are typed by their kind.
LEMMA BlockFacts ==
  ASSUME MachineTypeOK
  PROVE  /\ Len(withBlocks) \in Nat /\ DOMAIN withBlocks = 1..Len(withBlocks)
         /\ \A i \in DOMAIN withBlocks :
              /\ withBlocks[i] \in Blocks
              /\ withBlocks[i].kind = "session" => withBlocks[i] \in SessionBlocks
              /\ withBlocks[i].kind = "arm" => withBlocks[i] \in ArmBlocks
              /\ withBlocks[i].kind = "alternatives" => withBlocks[i] \in ChoiceBlocks
              /\ withBlocks[i].kind \in {"session", "arm", "alternatives"}
<1>1. Len(withBlocks) \in Nat /\ DOMAIN withBlocks = 1..Len(withBlocks)
      /\ \A i \in DOMAIN withBlocks : withBlocks[i] \in Blocks
  BY LenProperties DEF MachineTypeOK
<1>2. \A b \in Blocks :
        /\ b.kind = "session" => b \in SessionBlocks
        /\ b.kind = "arm" => b \in ArmBlocks
        /\ b.kind = "alternatives" => b \in ChoiceBlocks
        /\ b.kind \in {"session", "arm", "alternatives"}
  BY DEF Blocks, SessionBlocks, ArmBlocks, ChoiceBlocks
<1>3. QED
  BY <1>1, <1>2

\* What is saved is typed.
LEMMA SavedTyped ==
  ASSUME MachineTypeOK, NEW i
  PROVE  Snapshot \in Snapshots /\ SavedAbove(i) \subseteq Snapshots
<1>1. Snapshot \in Snapshots
  BY DEF MachineTypeOK, Snapshot, Snapshots
<1>2. \A j \in DOMAIN withBlocks : SavedIn(withBlocks[j]) \subseteq Snapshots
  BY BlockFacts DEF SavedIn, ArmBlocks, ChoiceBlocks
<1>3. QED
  BY <1>1, <1>2 DEF SavedAbove

\* Two versions tell the same of a field.
SameAt(x, y, f) ==
  /\ x.object.value[f] = y.object.value[f] /\ x.object.count[f] = y.object.count[f]
  /\ f \in x.object.edited <=> f \in y.object.edited
  /\ x.meant[f] = y.meant[f] /\ x.recorded[f] = y.recorded[f]
  /\ f \in x.written <=> f \in y.written

\* The same blocks are open, and they have saved the same.
SameBlocks ==
  /\ DOMAIN withBlocks' = DOMAIN withBlocks
  /\ \A i \in DOMAIN withBlocks : /\ (withBlocks'[i].kind = "session" <=> withBlocks[i].kind = "session")
                              /\ SavedIn(withBlocks'[i]) = SavedIn(withBlocks[i])
                              /\ withBlocks'[i].deferred = withBlocks[i].deferred
\* A session has the same for a field.
SameDraft(i, f) ==
  /\ Holds(i, f)' <=> Holds(i, f)
  /\ Holds(i, f) => /\ Draft(withBlocks'[i], f) = Draft(withBlocks[i], f)
                    /\ withBlocks'[i].says[f] = withBlocks[i].says[f]

LEMMA SameSaved ==
  ASSUME SameBlocks
  PROVE  Sessions' = Sessions /\ \A i : SavedAbove(i)' = SavedAbove(i)
BY DEF SameBlocks, Sessions, SavedAbove

\* A step that leaves a field alone keeps what holds of it.
LEMMA FieldStays ==
  ASSUME NEW f \in MachineFields, FieldInv(f), SameBlocks, SameAt(Snapshot, Snapshot', f),
         \A i \in Sessions : SameDraft(i, f)
  PROVE  FieldInv(f)'
<1>1. Sessions' = Sessions /\ \A i : SavedAbove(i)' = SavedAbove(i)
  BY SameSaved
<1>2. Faithful(Snapshot, f) => Faithful(Snapshot', f)
  BY DEF SameAt, Faithful
<1>3. \A x \in {Snapshot'} \cup SavedAbove(0)' : Faithful(x, f)
  BY <1>1, <1>2 DEF FieldInv
<1>4. ASSUME NEW i \in Sessions, Holds(i, f)'
      PROVE  HolderInv(i, f)'
  <2>1. Holds(i, f) /\ HolderInv(i, f) /\ SameDraft(i, f)
    BY <1>4 DEF SameDraft, FieldInv
  <2>2. \A j \in Sessions : Holds(j, f)' => j = i
    BY <2>1 DEF SameDraft, HolderInv
  <2>3. withBlocks'[i].deferred = withBlocks[i].deferred
    BY DEF SameBlocks, Sessions
  <2>4. withBlocks'[i].deferred => Draft(withBlocks'[i], f) = withBlocks'[i].says[f]
    BY <2>1, <2>3 DEF HolderInv, SameDraft
  <2>5. \A x : Follows(withBlocks[i], x, f) => Follows(withBlocks'[i], x, f)
    BY <2>1, <2>3 DEF Follows, SameDraft
  <2>6. Follows(withBlocks[i], Snapshot, f) => Follows(withBlocks[i], Snapshot', f)
    BY DEF Follows, SameAt
  <2>7. \A x \in {Snapshot'} \cup SavedAbove(i)' : Follows(withBlocks'[i], x, f)
    BY <1>1, <2>1, <2>5, <2>6 DEF HolderInv
  <2>8. QED
    BY <1>1, <2>2, <2>4, <2>7 DEF HolderInv
<1>5. QED
  BY <1>1, <1>3, <1>4 DEF FieldInv

\* A write to a field by a session that nothing has saved after, or by none (0), keeps
\* what holds of it.
LEMMA FieldWritten ==
  ASSUME NEW f \in MachineFields, FieldInv(f), SameBlocks, Faithful(Snapshot', f), NEW own,
         \A i \in Sessions \ {own} : ~Holds(i, f) /\ SameDraft(i, f),
         own \in Sessions /\ Holds(own, f)' =>
                             /\ SavedAbove(own) = {}
                             /\ Follows(withBlocks'[own], Snapshot', f)
                             /\ withBlocks'[own].deferred => Draft(withBlocks'[own], f) = withBlocks'[own].says[f]
  PROVE  FieldInv(f)'
<1>1. Sessions' = Sessions /\ \A i : SavedAbove(i)' = SavedAbove(i)
  BY SameSaved
<1>2. \A x \in {Snapshot'} \cup SavedAbove(0)' : Faithful(x, f)
  BY <1>1 DEF FieldInv
<1>3. \A i \in Sessions : Holds(i, f)' => i = own
  BY DEF SameDraft
<1>4. ASSUME NEW i \in Sessions, Holds(i, f)'
      PROVE  HolderInv(i, f)'
  BY <1>1, <1>3, <1>4 DEF HolderInv
<1>5. QED
  BY <1>1, <1>2, <1>4 DEF FieldInv

----------------------------------------------------------------------------
\* The steps.

\* A write is refused to a field that was written, or is tangled.
LEMMA DeniedIsWritten ==
  ASSUME MachineInv, Running, NEW f \in MachineFields,
         \/ object.count[f] # 0 \/ f \in object.edited
         \/ \E i \in Sessions : Holds(i, f)
  PROVE  f \in written \cup tangled
<1> SUFFICES ASSUME f \notin tangled PROVE f \in written
  OBVIOUS
<1>1. FieldInv(f)
  BY DEF MachineInv
<1>2. CASE object.count[f] # 0 \/ f \in object.edited
  <2>1. Faithful(Snapshot, f)
    BY <1>1 DEF FieldInv
  <2>2. QED
    BY <1>2, <2>1 DEF Faithful, Snapshot
<1>3. CASE \E i \in Sessions : Holds(i, f)
  <2>1. PICK i \in Sessions : Holds(i, f)
    BY <1>3
  <2>2. Follows(withBlocks[i], Snapshot, f)
    BY <1>1, <2>1 DEF FieldInv, HolderInv
  <2>3. QED
    BY <2>2 DEF Follows, Snapshot
<1>4. QED
  BY <1>2, <1>3

\* That write ends the run.
LEMMA RaiseKeeps ==
  ASSUME MachineInv, Running, NEW f \in MachineFields, Raise(f), writes' \in Nat,
         \/ object.count[f] # 0 \/ f \in object.edited
         \/ \E i \in Sessions : Holds(i, f)
  PROVE  MachineInv'
<1>1. f \in written \cup tangled
  BY DeniedIsWritten
<1>2. MachineTypeOK'
  BY DEF MachineInv, MachineTypeOK, Raise
<1>3. status' = <<f>> /\ ~Running' /\ written' = written /\ tangled' = tangled
  BY DEF Raise, Running
<1>4. RefusedOnlyIfWritten'
  BY <1>1, <1>3 DEF RefusedOnlyIfWritten
<1>5. QED
  BY <1>2, <1>3, <1>4 DEF MachineInv

\* Nothing is saved above a session that is not open around an arm.
LEMMA NothingAbove ==
  ASSUME MachineInv, Writes, NEW i \in Sessions, ~InArm(i)
  PROVE  SavedAbove(i) = {}
<1>1. NestInv /\ MachineTypeOK
  BY DEF MachineInv, Writes
<1>2. SUFFICES ASSUME NEW j \in DOMAIN withBlocks, j > i PROVE SavedIn(withBlocks[j]) = {}
  BY DEF SavedAbove
<1>3. Len(withBlocks) \in Nat /\ DOMAIN withBlocks = 1..Len(withBlocks) /\ i \in 1..Len(withBlocks)
  BY <1>1, BlockFacts DEF Sessions
<1>4. withBlocks[j].kind # "arm"
  BY <1>2 DEF InArm
<1>5. withBlocks[j].kind # "alternatives"
  <2>1. SUFFICES ASSUME withBlocks[j].kind = "alternatives" PROVE FALSE
    OBVIOUS
  <2>2. CASE j < Len(withBlocks)
    <3>1. withBlocks[j + 1].kind = "arm"
      BY <1>1, <2>1, <2>2 DEF NestInv
    <3>2. j + 1 \in DOMAIN withBlocks /\ j + 1 > i
      BY <1>2, <1>3, <2>2
    <3>3. QED
      BY <3>1, <3>2 DEF InArm
  <2>3. CASE j = Len(withBlocks)
    BY <1>3, <2>1, <2>3 DEF Writes, Last
  <2>4. QED
    BY <1>3, <2>2, <2>3
<1>6. QED
  BY <1>4, <1>5 DEF SavedIn

\* A write of f, by session `own` or by none (0), keeps the invariant.
LEMMA WriteKeeps ==
  ASSUME MachineInv, Writes, MachineTypeOK', UNCHANGED status,
         NEW f \in MachineFields, NEW own \in Sessions \cup {0},
         written' = written \cup {f}, tangled' = tangled \cup Tangles(own, f),
         NestInv', SameBlocks,
         \A i \in Sessions \ {own} : SameDraft(i, f),
         \A g \in MachineFields \ {f} : /\ SameAt(Snapshot, Snapshot', g)
                                       /\ \A i \in Sessions : SameDraft(i, g),
         f \notin tangled => Faithful(Snapshot', f),
         own \in Sessions /\ Holds(own, f)' /\ f \notin tangled =>
           /\ Follows(withBlocks'[own], Snapshot', f)
           /\ withBlocks'[own].deferred => Draft(withBlocks'[own], f) = withBlocks'[own].says[f]
  PROVE  MachineInv'
<1>1. /\ \A g \in MachineFields \ tangled : FieldInv(g)
      /\ Running /\ Running'
  BY DEF MachineInv, Writes, Running
<1>2. ASSUME NEW g \in MachineFields \ tangled', g # f PROVE FieldInv(g)'
  <2>1. FieldInv(g) /\ SameAt(Snapshot, Snapshot', g) /\ \A i \in Sessions : SameDraft(i, g)
    BY <1>1, <1>2
  <2>2. QED
    BY <2>1, FieldStays
<1>3. ASSUME f \notin tangled' PROVE FieldInv(f)'
  <2>1. /\ f \notin tangled /\ f \notin Tangles(own, f)
    BY <1>3
  <2>2. (\A i \in Sessions \ {own} : ~Holds(i, f)) /\ (own # 0 => ~InArm(own))
    BY <2>1 DEF Tangles
  <2>3. own \in Sessions => own # 0
    BY BlockFacts DEF Sessions, MachineInv
  <2>4. own \in Sessions => SavedAbove(own) = {}
    BY <2>2, <2>3, NothingAbove
  <2>5. FieldInv(f) /\ Faithful(Snapshot', f)
    BY <1>1, <2>1
  <2>6. QED
    BY <2>1, <2>2, <2>4, <2>5, FieldWritten
<1>4. RefusedOnlyIfWritten'
  BY <1>1 DEF RefusedOnlyIfWritten
<1>5. QED
  BY <1>2, <1>3, <1>4 DEF MachineInv

----------------------------------------------------------------------------
\* The steps that leave the blocks alone.

\* SetField and SetKey: the object takes the value, which is meant.
LEMMA OwnWriteKeeps ==
  ASSUME MachineInv, Writes, NEW f \in MachineFields, NEW own \in Sessions \cup {0},
         NEW o \in Objects, NEW v \in Maps, o.value[f] = v,
         \A g \in MachineFields : g # f =>
           /\ o.value[g] = object.value[g] /\ o.count[g] = object.count[g]
           /\ g \in o.edited <=> g \in object.edited,
         Wrote(f, own, o), UNCHANGED withBlocks,
         f \notin tangled => meant' = [meant EXCEPT ![f] = v],
         meant' \in Values, \A g \in MachineFields : g # f => meant'[g] = meant[g],
         own # 0 => ~Holds(own, f)
  PROVE  MachineInv'
<1>1. /\ object' = o /\ written' = written \cup {f} /\ tangled' = tangled \cup Tangles(own, f)
      /\ recorded' = [recorded EXCEPT ![f] = v] /\ status' = status /\ withBlocks' = withBlocks
  BY DEF Wrote
<1>2. MachineTypeOK /\ writes' \in Nat /\ NestInv
  BY DEF MachineInv, MachineTypeOK, Writes
<1>3. Tangles(own, f) \subseteq MachineFields
  BY DEF Tangles
<1>4. recorded' \in Values /\ recorded'[f] = v
      /\ \A g \in MachineFields : g # f => recorded'[g] = recorded[g]
  BY <1>1, <1>2 DEF MachineTypeOK, Values
<1>5. MachineTypeOK'
  BY <1>1, <1>2, <1>3, <1>4 DEF MachineTypeOK
<1>6. NestInv' /\ SameBlocks /\ \A i \in Sessions : \A g : SameDraft(i, g)
  BY <1>1, <1>2 DEF NestInv, SameBlocks, SameDraft, Holds
<1>7. ASSUME NEW g \in MachineFields \ {f} PROVE SameAt(Snapshot, Snapshot', g)
  BY <1>1, <1>4, <1>7 DEF SameAt, Snapshot
<1>8. ASSUME f \notin tangled PROVE Faithful(Snapshot', f)
  <2>1. meant'[f] = v
    BY <1>2, <1>8 DEF MachineTypeOK, Values
  <2>2. QED
    BY <1>1, <1>4, <2>1 DEF Faithful, Snapshot
<1>9. own \in Sessions => ~Holds(own, f)'
  <2>1. own \in Sessions => own # 0
    BY <1>2, BlockFacts DEF Sessions
  <2>2. QED
    BY <1>1, <2>1 DEF Holds
<1>10. QED
  BY <1>1, <1>5, <1>6, <1>7, <1>8, <1>9, WriteKeeps

\* s.f = n
LEMMA SetFieldKeeps ==
  ASSUME MachineInv, NEW f \in MachineFields, SetField(f)
  PROVE  MachineInv'
<1> DEFINE v == Whole(writes')
           o == Set(object, f, v)
<1>1. Writes /\ Running /\ writes' \in Nat /\ MachineTypeOK
  BY DEF SetField, Writes, MachineInv, MachineTypeOK
<1>2. CASE MaySet(object, f)
  <2>1. v \in Maps
    BY <1>1, WholeTyped
  <2>2. Wrote(f, 0, o) /\ meant' = [meant EXCEPT ![f] = v] /\ UNCHANGED withBlocks
    BY <1>2 DEF SetField
  <2>3. object \in Objects /\ meant \in Values
    BY <1>1 DEF MachineTypeOK
  <2> HIDE DEF v
  <2>4. /\ o \in Objects /\ o.value[f] = v
        /\ \A g \in MachineFields : g # f =>
             /\ o.value[g] = object.value[g] /\ o.count[g] = object.count[g]
             /\ g \in o.edited <=> g \in object.edited
    BY <2>1, <2>3, WriteFacts
  <2> HIDE DEF o
  <2>5. meant' \in Values /\ \A g \in MachineFields : g # f => meant'[g] = meant[g]
    BY <2>1, <2>2, <2>3 DEF Values
  <2>6. QED
    BY <1>1, <2>1, <2>2, <2>4, <2>5, OwnWriteKeeps
<1>3. CASE ~MaySet(object, f)
  <2>1. Raise(f) /\ (object.count[f] # 0 \/ f \in object.edited)
    BY <1>3 DEF SetField, MaySet
  <2>2. QED
    BY <1>1, <2>1, RaiseKeeps
<1>4. QED
  BY <1>2, <1>3

\* s.f[k] = n
LEMMA SetKeyKeeps ==
  ASSUME MachineInv, NEW f \in MachineFields, NEW k \in ObjectKeys, SetKey(f, k)
  PROVE  MachineInv'
<1> DEFINE v == PutKey(f, object.value[f], k, writes')
           o == Edit(object, f, v)
<1>1. Writes /\ Running /\ writes' \in Nat /\ MachineTypeOK
  BY DEF SetKey, Writes, MachineInv, MachineTypeOK
<1>2. CASE MayEdit(object, f)
  <2>1. object \in Objects /\ meant \in Values /\ object.value[f] \in Maps /\ meant[f] \in Maps
    BY <1>1 DEF MachineTypeOK, Objects, Values
  <2>2. v \in Maps /\ PutKey(f, meant[f], k, writes') \in Maps
    BY <1>1, <2>1, MapsTyped
  <2>3. Wrote(f, 0, o) /\ meant' = [meant EXCEPT ![f] = PutKey(f, meant[f], k, writes')] /\ UNCHANGED withBlocks
    BY <1>2, <2>1 DEF SetKey, Values
  <2>4. f \notin tangled => meant[f] = object.value[f]
    <3>1. f \notin tangled => Faithful(Snapshot, f)
      BY <1>1 DEF MachineInv, FieldInv
    <3>2. QED
      BY <3>1 DEF Faithful, Snapshot
  <2>5. f \notin tangled => meant' = [meant EXCEPT ![f] = v]
    BY <2>3, <2>4
  <2>6. meant' \in Values /\ \A g \in MachineFields : g # f => meant'[g] = meant[g]
    BY <2>1, <2>2, <2>3 DEF Values
  <2> HIDE DEF v
  <2>7. /\ o \in Objects /\ o.value[f] = v
        /\ \A g \in MachineFields : g # f =>
             /\ o.value[g] = object.value[g] /\ o.count[g] = object.count[g]
             /\ g \in o.edited <=> g \in object.edited
    BY <2>1, <2>2, WriteFacts
  <2> HIDE DEF o
  <2>8. QED
    BY <1>1, <2>2, <2>3, <2>5, <2>6, <2>7, OwnWriteKeeps
<1>3. CASE ~MayEdit(object, f)
  <2>1. Raise(f) /\ object.count[f] # 0
    BY <1>3 DEF SetKey, MayEdit
  <2>2. QED
    BY <1>1, <2>1, RaiseKeeps
<1>4. QED
  BY <1>2, <1>3

----------------------------------------------------------------------------
\* The steps of a session.

\* A session in the place of a session.
LEMMA SessionInPlace ==
  ASSUME MachineTypeOK, NEW i \in Sessions, NEW t \in SessionBlocks
  PROVE  LET e == [withBlocks EXCEPT ![i] = t] IN
         /\ e \in Seq(Blocks) /\ DOMAIN e = DOMAIN withBlocks /\ e[i] = t
         /\ \A j \in DOMAIN withBlocks : j # i => e[j] = withBlocks[j]
<1>1. i \in 1..Len(withBlocks) /\ i \in DOMAIN withBlocks
  BY BlockFacts DEF Sessions
<1>2. t \in Blocks /\ withBlocks \in Seq(Blocks)
  BY DEF Blocks, MachineTypeOK
<1>3. [withBlocks EXCEPT ![i] = t] \in Seq(Blocks)
  BY <1>1, <1>2, ExceptSeq
<1>4. QED
  BY <1>1, <1>3

\* A session whose drafts of f are others keeps the invariant if it says what it drafts.
LEMMA SessionKeeps ==
  ASSUME MachineInv, Writes, UNCHANGED status,
         NEW i \in Sessions, NEW f \in MachineFields, NEW t \in SessionBlocks,
         t.deferred = withBlocks[i].deferred, t.deferred \/ t.replacements = <<>>,
         withBlocks' \in Seq(Blocks), DOMAIN withBlocks' = DOMAIN withBlocks, withBlocks'[i] = t,
         \A j \in DOMAIN withBlocks : j # i => withBlocks'[j] = withBlocks[j],
         \A g \in MachineFields : g # f =>
           /\ Held(t, g) <=> Held(withBlocks[i], g)
           /\ Held(t, g) => Draft(t, g) = Draft(withBlocks[i], g) /\ t.says[g] = withBlocks[i].says[g],
         written' = written \cup {f}, tangled' = tangled \cup Tangles(i, f),
         object' \in Objects, meant' \in Values, recorded' \in Values,
         \A g \in MachineFields \ {f} : SameAt(Snapshot, Snapshot', g),
         f \notin tangled => /\ Faithful(Snapshot', f)
                             /\ Follows(t, Snapshot', f)
                             /\ t.deferred => Draft(t, f) = t.says[f]
  PROVE  MachineInv'
<1>1. MachineTypeOK /\ NestInv /\ writes' \in Nat
  BY DEF MachineInv, MachineTypeOK, Writes
<1>2. /\ i \in DOMAIN withBlocks /\ withBlocks[i].kind = "session" /\ t.kind = "session"
      /\ DOMAIN withBlocks = 1..Len(withBlocks) /\ Len(withBlocks) \in Nat /\ i # 0
  BY <1>1, BlockFacts DEF Sessions, SessionBlocks
<1>3. /\ DOMAIN withBlocks' = DOMAIN withBlocks /\ withBlocks'[i] = t
      /\ \A j \in DOMAIN withBlocks : j # i => withBlocks'[j] = withBlocks[j]
  OBVIOUS
<1>4. withBlocks' \in Seq(Blocks) /\ Len(withBlocks') = Len(withBlocks)
  <2>1. DOMAIN withBlocks' = 1..Len(withBlocks') /\ Len(withBlocks') \in Nat
    BY LenProperties
  <2>2. QED
    BY <1>2, <1>3, <2>1
<1>5. Tangles(i, f) \subseteq MachineFields
  BY DEF Tangles
<1>6. MachineTypeOK'
  BY <1>1, <1>4, <1>5 DEF MachineTypeOK
<1>7. NestInv'
  <2>1. \A j \in DOMAIN withBlocks : withBlocks'[j].kind = withBlocks[j].kind
    BY <1>2, <1>3
  <2>2. ASSUME NEW j \in DOMAIN withBlocks, j # i
        PROVE  /\ withBlocks'[j].kind = "session" => (withBlocks'[j].deferred \/ withBlocks'[j].replacements = <<>>)
               /\ withBlocks'[j].kind = "arm" => j > 1 /\ withBlocks'[j - 1].kind = "alternatives"
               /\ withBlocks'[j].kind = "alternatives" =>
                    /\ j < Len(withBlocks) => withBlocks'[j + 1].kind = "arm"
                    /\ withBlocks'[j].arm = 2 /\ withBlocks'[j].chosen = 1 => withBlocks'[j].state # Nothing
    <3>1. withBlocks'[j] = withBlocks[j]
      BY <1>3, <2>2
    <3>2. j > 1 => j - 1 \in DOMAIN withBlocks
      BY <1>2
    <3>3. j < Len(withBlocks) => j + 1 \in DOMAIN withBlocks
      BY <1>2
    <3>4. QED
      BY <1>1, <2>1, <3>1, <3>2, <3>3 DEF NestInv
  <2>3. QED
    BY <1>2, <1>3, <1>4, <2>2 DEF NestInv
<1>8. SameBlocks
  <2>1. SavedIn(t) = SavedIn(withBlocks[i])
    BY <1>2 DEF SavedIn
  <2>2. QED
    BY <1>2, <1>3, <2>1 DEF SameBlocks
<1>9. \A j \in Sessions \ {i} : \A g : SameDraft(j, g)
  BY <1>3 DEF SameDraft, Holds, Sessions
<1>10. \A g \in MachineFields \ {f} : SameDraft(i, g)
  BY <1>3 DEF SameDraft, Holds
<1>11. /\ f \notin tangled => Faithful(Snapshot', f)
       /\ f \notin tangled => /\ Follows(withBlocks'[i], Snapshot', f)
                              /\ withBlocks'[i].deferred => Draft(withBlocks'[i], f) = withBlocks'[i].says[f]
  <2>1. withBlocks'[i] = t
    BY <1>3
  <2>2. QED
    BY <2>1, Zenon
<1>12. QED
  BY <1>2, <1>6, <1>7, <1>8, <1>9, <1>10, <1>11, WriteKeeps

\* u.f[k] = n
LEMMA EditKeyKeeps ==
  ASSUME MachineInv, NEW i \in Sessions, NEW f \in MachineFields, NEW k \in ObjectKeys,
         EditKey(i, f, k)
  PROVE  MachineInv'
<1> DEFINE s == withBlocks[i]
           n == writes'
           d == Built(s.builders, f, k, n)
           said == PutKey(f, Said(s, f), k, n)
           says == [s.says EXCEPT ![f] = said]
           t == [s EXCEPT !.builders = d, !.says = says]
           v == At(d, f)
           o == Edit(object, f, v)
<1>1. Writes /\ Running /\ n \in Nat /\ MachineTypeOK /\ NestInv
  BY DEF EditKey, Writes, MachineInv, MachineTypeOK
<1>2. CASE Touched(s.replacements, f) # 0 \/ (~s.deferred /\ ~MayEdit(object, f))
  <2>1. Raise(f)
    BY <1>2 DEF EditKey
  <2>2. object.count[f] # 0 \/ Holds(i, f)
    BY <1>2 DEF MayEdit, Holds, Held
  <2>3. QED
    BY <1>1, <2>1, <2>2, RaiseKeeps
<1>3. CASE ~(Touched(s.replacements, f) # 0 \/ (~s.deferred /\ ~MayEdit(object, f)))
  <2>1. /\ s \in SessionBlocks /\ s.builders \in Drafts /\ s.replacements \in Drafts
        /\ s.says \in Values /\ s.deferred \in BOOLEAN
        /\ s.deferred \/ s.replacements = <<>>
    BY <1>1, BlockFacts DEF Sessions, SessionBlocks, NestInv
  <2>2. /\ object \in Objects /\ meant \in Values /\ recorded \in Values
        /\ object.value[f] \in Maps /\ meant[f] \in Maps /\ Said(s, f) \in Maps
    BY <1>1, <2>1 DEF MachineTypeOK, Objects, Values, Said
  <2>3. said \in Maps /\ PutKey(f, meant[f], k, n) \in Maps
    BY <1>1, <2>2, MapsTyped
  <2>4. /\ d \in Drafts
        /\ Touched(d, f) # 0
        /\ v = PutKey(f, IF Touched(s.builders, f) = 0 THEN object.value[f] ELSE At(s.builders, f), k, n)
        /\ \A g : g # f => (Touched(d, g) # 0 <=> Touched(s.builders, g) # 0)
        /\ \A g : g # f /\ Touched(s.builders, g) # 0 => At(d, g) = At(s.builders, g)
    BY <1>1, <2>1, <2>2, BuiltFacts
  <2>5. v \in Maps
    BY <2>4, DraftOf
  <2>6. /\ withBlocks' = [withBlocks EXCEPT ![i].builders = d, ![i].says[f] = said]
        /\ IF s.deferred
           THEN /\ tangled' = tangled \cup Tangles(i, f)
                /\ written' = written \cup {f}
                /\ UNCHANGED <<object, recorded, meant, status>>
           ELSE /\ Wrote(f, i, o)
                /\ meant' = [meant EXCEPT ![f] = PutKey(f, meant[f], k, n)]
    BY <1>3, <2>2 DEF EditKey, At, Values
  <2>7. withBlocks' = [withBlocks EXCEPT ![i] = t]
    BY <2>1, <2>6 DEF SessionBlocks, Sessions
  <2> HIDE DEF d, said
  <2>8. says \in Values /\ says[f] = said /\ \A g : g # f => says[g] = s.says[g]
    BY <2>1, <2>3 DEF Values
  <2> HIDE DEF says, s
  <2>9. /\ t \in SessionBlocks /\ t.deferred = s.deferred /\ t.builders = d
        /\ t.replacements = s.replacements /\ t.says = says
    BY <2>1, <2>4, <2>8 DEF SessionBlocks
  <2> HIDE DEF t
  <2>19. /\ withBlocks' \in Seq(Blocks) /\ DOMAIN withBlocks' = DOMAIN withBlocks /\ withBlocks'[i] = t
         /\ \A j \in DOMAIN withBlocks : j # i => withBlocks'[j] = withBlocks[j]
    BY <1>1, <2>7, <2>9, SessionInPlace
  <2>10. ASSUME NEW g \in MachineFields, g # f
         PROVE  /\ Held(t, g) <=> Held(s, g)
                /\ Held(t, g) => Draft(t, g) = Draft(s, g) /\ t.says[g] = s.says[g]
    <3>1. Held(t, g) <=> Held(s, g)
      BY <2>4, <2>9, <2>10 DEF Held
    <3>2. Draft(t, g) = Draft(s, g)
      BY <2>4, <2>9, <2>10 DEF Draft, At
    <3>3. QED
      BY <2>8, <2>9, <2>10, <3>1, <3>2
  <2>11. Draft(t, f) = v
    BY <2>4, <2>9 DEF Draft, At
  <2>12. Touched(s.replacements, f) = 0
    BY <1>3
  <2>13. f \notin tangled => Faithful(Snapshot, f)
    BY <1>1 DEF MachineInv, FieldInv
  <2>14. f \notin tangled => meant[f] = object.value[f]
    BY <2>13 DEF Faithful, Snapshot
  <2>15. f \notin tangled /\ Touched(s.builders, f) # 0 =>
           /\ s.deferred => At(s.builders, f) = s.says[f]
           /\ ~s.deferred => At(s.builders, f) = object.value[f]
    <3>1. SUFFICES ASSUME f \notin tangled, Touched(s.builders, f) # 0
                   PROVE  /\ s.deferred => At(s.builders, f) = s.says[f]
                          /\ ~s.deferred => At(s.builders, f) = object.value[f]
      OBVIOUS
    <3>2. HolderInv(i, f)
      BY <1>1, <3>1 DEF MachineInv, FieldInv, Holds, Held, s
    <3>3. /\ s.deferred => Draft(s, f) = s.says[f]
          /\ Follows(s, Snapshot, f)
      BY <3>2 DEF HolderInv, s
    <3>4. Draft(s, f) = At(s.builders, f)
      BY <3>1 DEF Draft, At
    <3>5. QED
      BY <3>3, <3>4 DEF Follows, Snapshot
  <2>16. CASE s.deferred
    <3>1. /\ tangled' = tangled \cup Tangles(i, f) /\ written' = written \cup {f}
          /\ UNCHANGED <<object, recorded, meant, status>>
      BY <2>6, <2>16
    <3>2. \A g \in MachineFields \ {f} : SameAt(Snapshot, Snapshot', g)
      BY <3>1 DEF SameAt, Snapshot
    <3>3. f \notin tangled => Faithful(Snapshot', f)
      BY <2>13, <3>1 DEF Faithful, Snapshot
    <3>4. Follows(t, Snapshot', f)
      BY <2>9, <2>16, <3>1 DEF Follows, Snapshot
    <3>5. f \notin tangled => v = said
      <4>1. CASE Touched(s.builders, f) # 0
        <5>1. Said(s, f) = s.says[f]
          BY <4>1 DEF Said, Held
        <5>2. QED
          BY <2>4, <2>15, <2>16, <4>1, <5>1 DEF said
      <4>2. CASE Touched(s.builders, f) = 0
        <5>1. Said(s, f) = meant[f]
          BY <2>12, <4>2 DEF Said, Held
        <5>2. QED
          BY <2>4, <2>14, <4>2, <5>1 DEF said
      <4>3. QED
        BY <4>1, <4>2
    <3>6. f \notin tangled => Draft(t, f) = t.says[f]
      BY <2>8, <2>9, <2>11, <3>5
    <3> HIDE DEF v, o
    <3>7. /\ UNCHANGED status /\ object' \in Objects /\ meant' \in Values /\ recorded' \in Values
          /\ written' = written \cup {f} /\ tangled' = tangled \cup Tangles(i, f)
      BY <2>2, <3>1
    <3>8. /\ t \in SessionBlocks /\ t.deferred = withBlocks[i].deferred
          /\ t.deferred \/ t.replacements = <<>>
      BY <2>1, <2>9 DEF s
    <3>9. \A g \in MachineFields : g # f =>
           /\ Held(t, g) <=> Held(withBlocks[i], g)
           /\ Held(t, g) => Draft(t, g) = Draft(withBlocks[i], g) /\ t.says[g] = withBlocks[i].says[g]
      BY <2>10 DEF s
    <3>10. f \notin tangled => /\ Faithful(Snapshot', f)
                               /\ Follows(t, Snapshot', f)
                               /\ t.deferred => Draft(t, f) = t.says[f]
      BY <3>3, <3>4, <3>6
    <3> HIDE DEF n, t
    <3>11. QED
      BY <1>1, <2>19, <3>2, <3>7, <3>8, <3>9, <3>10, SessionKeeps
  <2>17. CASE ~s.deferred
    <3>1. Wrote(f, i, o) /\ meant' = [meant EXCEPT ![f] = PutKey(f, meant[f], k, n)]
      BY <2>6, <2>17
    <3> HIDE DEF v
    <3>2. /\ o \in Objects /\ o.value[f] = v
          /\ \A g \in MachineFields : g # f =>
               /\ o.value[g] = object.value[g] /\ o.count[g] = object.count[g]
               /\ g \in o.edited <=> g \in object.edited
      BY <2>2, <2>5, WriteFacts
    <3> HIDE DEF o
    <3>3. /\ object' = o /\ written' = written \cup {f} /\ tangled' = tangled \cup Tangles(i, f)
          /\ recorded' = [recorded EXCEPT ![f] = v] /\ status' = status
      BY <3>1, <3>2 DEF Wrote
    <3>4. /\ meant' \in Values /\ recorded' \in Values
          /\ meant'[f] = PutKey(f, meant[f], k, n) /\ recorded'[f] = v
          /\ \A g \in MachineFields : g # f => meant'[g] = meant[g] /\ recorded'[g] = recorded[g]
      BY <2>2, <2>3, <2>5, <3>1, <3>3 DEF Values
    <3>5. \A g \in MachineFields \ {f} : SameAt(Snapshot, Snapshot', g)
      BY <3>2, <3>3, <3>4 DEF SameAt, Snapshot
    <3>6. f \notin tangled => v = PutKey(f, meant[f], k, n)
      BY <2>4, <2>14, <2>15, <2>17
    <3>7. f \notin tangled => Faithful(Snapshot', f)
      BY <3>2, <3>3, <3>4, <3>6 DEF Faithful, Snapshot
    <3>8. Follows(t, Snapshot', f)
      BY <2>11, <3>2, <3>3 DEF Follows, Snapshot
    <3>9. /\ UNCHANGED status /\ object' \in Objects
          /\ t \in SessionBlocks /\ t.deferred = withBlocks[i].deferred
          /\ t.deferred \/ t.replacements = <<>>
      BY <2>1, <2>9, <3>2, <3>3 DEF s
    <3>10. \A g \in MachineFields : g # f =>
           /\ Held(t, g) <=> Held(withBlocks[i], g)
           /\ Held(t, g) => Draft(t, g) = Draft(withBlocks[i], g) /\ t.says[g] = withBlocks[i].says[g]
      BY <2>10 DEF s
    <3>11. ~t.deferred
      BY <2>9, <2>17
    <3> HIDE DEF n, t
    <3>12. QED
      BY <1>1, <2>19, <3>3, <3>4, <3>5, <3>7, <3>8, <3>9, <3>10, <3>11, SessionKeeps
  <2>18. QED
    BY <2>16, <2>17
<1>4. QED
  BY <1>2, <1>3

\* u.f = n
LEMMA EditFieldKeeps ==
  ASSUME MachineInv, NEW i \in Sessions, NEW f \in MachineFields, EditField(i, f)
  PROVE  MachineInv'
<1> DEFINE s == withBlocks[i]
           v == Whole(writes')
           d == Replaced(s.replacements, f, v)
           says == [s.says EXCEPT ![f] = v]
           t == [s EXCEPT !.replacements = d, !.says = says]
           o == Edit(object, f, v)
<1>1. Writes /\ Running /\ writes' \in Nat /\ MachineTypeOK /\ NestInv
  BY DEF EditField, Writes, MachineInv, MachineTypeOK
<1>2. CASE Touched(s.builders, f) # 0 \/ (~s.deferred /\ ~MayEdit(object, f))
  <2>1. Raise(f)
    BY <1>2 DEF EditField
  <2>2. object.count[f] # 0 \/ Holds(i, f)
    BY <1>2 DEF MayEdit, Holds, Held
  <2>3. QED
    BY <1>1, <2>1, <2>2, RaiseKeeps
<1>3. CASE ~(Touched(s.builders, f) # 0 \/ (~s.deferred /\ ~MayEdit(object, f)))
  <2>1. /\ s \in SessionBlocks /\ s.builders \in Drafts /\ s.replacements \in Drafts
        /\ s.says \in Values /\ s.deferred \in BOOLEAN
        /\ s.deferred \/ s.replacements = <<>>
    BY <1>1, BlockFacts DEF Sessions, SessionBlocks, NestInv
  <2>2. object \in Objects /\ meant \in Values /\ recorded \in Values
    BY <1>1 DEF MachineTypeOK
  <2>3. v \in Maps
    BY <1>1, WholeTyped
  <2>4. CASE s.deferred
    <3>1. /\ withBlocks' = [withBlocks EXCEPT ![i].replacements = d, ![i].says[f] = v]
          /\ tangled' = tangled \cup Tangles(i, f) /\ written' = written \cup {f}
          /\ UNCHANGED <<object, recorded, meant, status>>
      BY <1>3, <2>1, <2>4 DEF EditField, SessionBlocks, Sessions
    <3>2. withBlocks' = [withBlocks EXCEPT ![i] = t]
      BY <2>1, <3>1 DEF SessionBlocks, Sessions
    <3> HIDE DEF v
    <3>3. /\ d \in Drafts
          /\ Touched(d, f) # 0 /\ At(d, f) = v
          /\ \A g : g # f => (Touched(d, g) # 0 <=> Touched(s.replacements, g) # 0)
          /\ \A g : g # f /\ Touched(s.replacements, g) # 0 => At(d, g) = At(s.replacements, g)
      BY <2>1, <2>3, ReplacedFacts
    <3> HIDE DEF d
    <3>4. says \in Values /\ says[f] = v /\ \A g : g # f => says[g] = s.says[g]
      BY <2>1, <2>3 DEF Values
    <3> HIDE DEF says, s
    <3>5. /\ t \in SessionBlocks /\ t.deferred = s.deferred /\ t.builders = s.builders
          /\ t.replacements = d /\ t.says = says
      BY <2>1, <3>3, <3>4 DEF SessionBlocks
    <3> HIDE DEF t
    <3>12. /\ withBlocks' \in Seq(Blocks) /\ DOMAIN withBlocks' = DOMAIN withBlocks /\ withBlocks'[i] = t
           /\ \A j \in DOMAIN withBlocks : j # i => withBlocks'[j] = withBlocks[j]
      BY <1>1, <3>2, <3>5, SessionInPlace
    <3>6. ASSUME NEW g \in MachineFields, g # f
          PROVE  /\ Held(t, g) <=> Held(s, g)
                 /\ Held(t, g) => Draft(t, g) = Draft(s, g) /\ t.says[g] = s.says[g]
      <4>1. Held(t, g) <=> Held(s, g)
        BY <3>3, <3>5, <3>6 DEF Held
      <4>2. Held(t, g) => Draft(t, g) = Draft(s, g)
        BY <3>3, <3>5, <3>6, <4>1 DEF Draft, At, Held
      <4>3. QED
        BY <3>4, <3>5, <3>6, <4>1, <4>2
    <3>7. Draft(t, f) = t.says[f]
      BY <1>3, <3>3, <3>4, <3>5 DEF Draft, At, s
    <3>8. \A g \in MachineFields \ {f} : SameAt(Snapshot, Snapshot', g)
      BY <3>1 DEF SameAt, Snapshot
    <3>9. f \notin tangled => Faithful(Snapshot', f)
      <4>1. f \notin tangled => Faithful(Snapshot, f)
        BY <1>1 DEF MachineInv, FieldInv
      <4>2. QED
        BY <3>1, <4>1 DEF Faithful, Snapshot
    <3>10. Follows(t, Snapshot', f)
      BY <2>4, <3>1, <3>5 DEF Follows, Snapshot
    <3>11. /\ UNCHANGED status /\ object' \in Objects /\ meant' \in Values /\ recorded' \in Values
           /\ written' = written \cup {f} /\ tangled' = tangled \cup Tangles(i, f)
      BY <2>2, <3>1
    <3>13. /\ t \in SessionBlocks /\ t.deferred = withBlocks[i].deferred
           /\ t.deferred \/ t.replacements = <<>>
      BY <2>4, <3>5 DEF s
    <3>14. \A g \in MachineFields : g # f =>
            /\ Held(t, g) <=> Held(withBlocks[i], g)
            /\ Held(t, g) => Draft(t, g) = Draft(withBlocks[i], g) /\ t.says[g] = withBlocks[i].says[g]
      BY <3>6 DEF s
    <3>15. QED
      BY <1>1, <3>7, <3>8, <3>9, <3>10, <3>11, <3>12, <3>13, <3>14, SessionKeeps
  <2>5. CASE ~s.deferred
    <3>1. Wrote(f, i, o) /\ meant' = [meant EXCEPT ![f] = v] /\ UNCHANGED withBlocks
      BY <1>3, <2>5 DEF EditField
    <3>2. ~Holds(i, f)
      <4>1. s.replacements = <<>>
        BY <2>1, <2>5
      <4>2. Touched(s.replacements, f) = 0
        BY <2>1, <4>1, TouchedNone
      <4>3. QED
        BY <1>3, <4>2 DEF Holds, Held
    <3> HIDE DEF v
    <3>3. /\ o \in Objects /\ o.value[f] = v
          /\ \A g \in MachineFields : g # f =>
               /\ o.value[g] = object.value[g] /\ o.count[g] = object.count[g]
               /\ g \in o.edited <=> g \in object.edited
      BY <2>2, <2>3, WriteFacts
    <3>4. meant' \in Values /\ \A g \in MachineFields : g # f => meant'[g] = meant[g]
      BY <2>2, <2>3, <3>1 DEF Values
    <3> HIDE DEF o
    <3>5. QED
      BY <1>1, <2>3, <3>1, <3>2, <3>3, <3>4, OwnWriteKeeps
  <2>6. QED
    BY <2>4, <2>5
<1>4. QED
  BY <1>2, <1>3

----------------------------------------------------------------------------
\* The steps that open and close blocks.

\* A step after which the versions of the object are some of those before, and the
\* sessions that hold the field are some of those before, keeps what holds of the field.
LEMMA FieldMoves ==
  ASSUME NEW f \in MachineFields, FieldInv(f),
         \A i \in Sessions' \cup {0} :
           /\ SavedAbove(i)' \subseteq {Snapshot} \cup SavedAbove(i)
           /\ \E x \in {Snapshot} \cup SavedAbove(i) : SameAt(x, Snapshot', f),
         \A i \in Sessions' : Holds(i, f)' => i \in Sessions /\ withBlocks'[i] = withBlocks[i]
  PROVE  FieldInv(f)'
<1>1. \A x \in {Snapshot} \cup SavedAbove(0) : Faithful(x, f)
  BY DEF FieldInv
<1>2. Faithful(Snapshot', f)
  <2>1. PICK x \in {Snapshot} \cup SavedAbove(0) : SameAt(x, Snapshot', f)
    OBVIOUS
  <2>2. QED
    BY <1>1, <2>1 DEF SameAt, Faithful
<1>3. \A x \in {Snapshot'} \cup SavedAbove(0)' : Faithful(x, f)
  BY <1>1, <1>2
<1>4. \A i \in Sessions' : Holds(i, f)' => i \in Sessions /\ Holds(i, f)
  BY DEF Holds
<1>5. ASSUME NEW i \in Sessions', Holds(i, f)'
      PROVE  HolderInv(i, f)'
  <2>1. i \in Sessions /\ HolderInv(i, f) /\ withBlocks'[i] = withBlocks[i]
    BY <1>4, <1>5 DEF FieldInv
  <2>2. \A j \in Sessions' : Holds(j, f)' => j = i
    BY <1>4, <2>1 DEF HolderInv
  <2>3. \A x \in {Snapshot} \cup SavedAbove(i) : Follows(withBlocks'[i], x, f)
    BY <2>1 DEF HolderInv
  <2>4. Follows(withBlocks'[i], Snapshot', f)
    <3>1. PICK x \in {Snapshot} \cup SavedAbove(i) : SameAt(x, Snapshot', f)
      BY <1>5
    <3>2. QED
      BY <2>3, <3>1 DEF SameAt, Follows
  <2>5. \A x \in {Snapshot'} \cup SavedAbove(i)' : Follows(withBlocks'[i], x, f)
    BY <1>5, <2>3, <2>4
  <2>6. QED
    BY <2>1, <2>2, <2>5 DEF HolderInv
<1>6. QED
  BY <1>3, <1>5 DEF FieldInv

\* A new block: a session that holds nothing, alternatives of which no arm has run, or
\* their next arm.
LEMMA PushKeeps ==
  ASSUME MachineInv, Running, NEW b \in Blocks, withBlocks' = Append(withBlocks, b),
         UNCHANGED <<object, recorded, meant, written, tangled, status>>, writes' \in Nat,
         b.kind = "arm" <=> withBlocks # <<>> /\ Last(withBlocks).kind = "alternatives",
         b.kind = "alternatives" => b.arm = 1,
         b.kind = "session" => b.builders = <<>> /\ b.replacements = <<>>,
         SavedIn(b) \subseteq {Snapshot}
  PROVE  MachineInv'
<1> DEFINE n == Len(withBlocks)
<1>1. MachineTypeOK /\ NestInv /\ withBlocks \in Seq(Blocks)
      /\ n \in Nat /\ DOMAIN withBlocks = 1..n /\ (withBlocks # <<>> <=> n # 0)
      /\ \A f \in MachineFields \ tangled : FieldInv(f)
  BY BlockFacts DEF MachineInv, MachineTypeOK
<1>2. /\ withBlocks' \in Seq(Blocks) /\ Len(withBlocks') = n + 1 /\ DOMAIN withBlocks' = 1..(n + 1)
      /\ withBlocks'[n + 1] = b /\ \A i \in 1..n : withBlocks'[i] = withBlocks[i]
  <2>1. /\ withBlocks' \in Seq(Blocks) /\ Len(withBlocks') = n + 1
        /\ withBlocks'[n + 1] = b /\ \A i \in 1..n : withBlocks'[i] = withBlocks[i]
    BY <1>1, AppendProperties
  <2>2. QED
    BY <2>1, LenProperties
<1>3. MachineTypeOK'
  BY <1>1, <1>2 DEF MachineTypeOK
<1>4. Last(withBlocks) = withBlocks[n]
  BY DEF Last
<1> HIDE DEF n
<1>5. NestInv'
  <2>1. ASSUME NEW i \in 1..n
        PROVE  /\ withBlocks'[i].kind = "session" => (withBlocks'[i].deferred \/ withBlocks'[i].replacements = <<>>)
               /\ withBlocks'[i].kind = "arm" => i > 1 /\ withBlocks'[i - 1].kind = "alternatives"
               /\ withBlocks'[i].kind = "alternatives" =>
                    /\ withBlocks'[i + 1].kind = "arm"
                    /\ withBlocks'[i].arm = 2 /\ withBlocks'[i].chosen = 1 => withBlocks'[i].state # Nothing
    <3>1. withBlocks'[i] = withBlocks[i]
      BY <1>2
    <3>2. i > 1 => i - 1 \in 1..n /\ withBlocks'[i - 1] = withBlocks[i - 1]
      BY <1>1, <1>2
    <3>3. withBlocks[i].kind = "alternatives" => withBlocks'[i + 1].kind = "arm"
      <4>1. CASE i = n
        BY <1>1, <1>2, <1>4, <4>1
      <4>2. CASE i # n
        <5>1. i < n /\ i + 1 \in 1..n
          BY <1>1, <4>2
        <5>2. withBlocks'[i + 1] = withBlocks[i + 1]
          BY <1>2, <5>1
        <5>3. QED
          BY <1>1, <5>1, <5>2 DEF NestInv, n
      <4>3. QED
        BY <4>1, <4>2
    <3>4. QED
      BY <1>1, <3>1, <3>2, <3>3 DEF NestInv
  <2>2. /\ b.kind = "session" => (b.deferred \/ b.replacements = <<>>)
        /\ b.kind = "arm" => n + 1 > 1 /\ withBlocks'[n].kind = "alternatives"
        /\ b.kind = "alternatives" => b.arm # 2
    BY <1>1, <1>2, <1>4
  <2>3. (n + 1) - 1 = n
    BY <1>1
  <2>4. ASSUME NEW i \in 1..(n + 1)
        PROVE  /\ withBlocks'[i].kind = "session" => (withBlocks'[i].deferred \/ withBlocks'[i].replacements = <<>>)
               /\ withBlocks'[i].kind = "arm" => i > 1 /\ withBlocks'[i - 1].kind = "alternatives"
               /\ withBlocks'[i].kind = "alternatives" =>
                    /\ i < n + 1 => withBlocks'[i + 1].kind = "arm"
                    /\ withBlocks'[i].arm = 2 /\ withBlocks'[i].chosen = 1 => withBlocks'[i].state # Nothing
    <3>1. CASE i \in 1..n
      BY <2>1, <3>1
    <3>2. CASE i = n + 1
      BY <1>1, <1>2, <2>2, <2>3, <3>2
    <3>3. QED
      BY <1>1, <3>1, <3>2
  <2>5. QED
    BY <1>2, <2>4 DEF NestInv
<1>6. \A i : SavedAbove(i)' \subseteq {Snapshot} \cup SavedAbove(i)
  <2>1. SUFFICES ASSUME NEW i, NEW x \in SavedAbove(i)' PROVE x = Snapshot \/ x \in SavedAbove(i)
    OBVIOUS
  <2>2. PICK j \in 1..(n + 1) : j > i /\ x \in SavedIn(withBlocks'[j])
    BY <1>2, <2>1 DEF SavedAbove
  <2>3. CASE j = n + 1
    BY <1>2, <2>2, <2>3
  <2>4. CASE j # n + 1
    <3>1. j \in DOMAIN withBlocks /\ withBlocks'[j] = withBlocks[j]
      BY <1>1, <1>2, <2>4
    <3>2. QED
      BY <2>2, <3>1 DEF SavedAbove
  <2>5. QED
    BY <2>3, <2>4
<1>7. ASSUME NEW f \in MachineFields \ tangled' PROVE FieldInv(f)'
  <2>1. FieldInv(f) /\ Snapshot' = Snapshot
    BY <1>1, <1>7 DEF Snapshot
  <2>2. SameAt(Snapshot, Snapshot', f)
    BY <2>1 DEF SameAt
  <2>3. ASSUME NEW i \in Sessions', Holds(i, f)' PROVE i \in Sessions /\ withBlocks'[i] = withBlocks[i]
    <3>1. i \in 1..(n + 1) /\ withBlocks'[i].kind = "session"
      BY <1>2, <2>3 DEF Sessions
    <3>2. i # n + 1
      <4>1. SUFFICES ASSUME i = n + 1 PROVE FALSE
        OBVIOUS
      <4>2. b.builders = <<>> /\ b.replacements = <<>>
        BY <1>2, <3>1, <4>1
      <4>3. <<>> \in Drafts /\ Len(<<>>) = 0
        BY DEF Drafts
      <4>4. Touched(<<>>, f) = 0
        BY <4>3, TouchedNone
      <4>5. QED
        BY <1>2, <2>3, <4>1, <4>2, <4>4 DEF Holds, Held
    <3>3. i \in 1..n
      BY <1>1, <3>1, <3>2
    <3>4. QED
      BY <1>1, <1>2, <3>1, <3>3 DEF Sessions
  <2>4. QED
    BY <1>6, <2>1, <2>2, <2>3, FieldMoves
<1>8. Running' /\ RefusedOnlyIfWritten'
  BY DEF Running, RefusedOnlyIfWritten
<1>9. QED
  BY <1>3, <1>5, <1>7, <1>8 DEF MachineInv

\* with s.editing(deferred=...) as u:
LEMMA EditingKeeps ==
  ASSUME MachineInv, Editing
  PROVE  MachineInv'
<1>1. PICK deferred \in BOOLEAN : withBlocks' = Append(withBlocks, NewSession(deferred))
  BY DEF Editing
<1> DEFINE b == NewSession(deferred)
<1>2. b \in SessionBlocks
  <2>1. meant \in Values /\ <<>> \in Drafts
    BY DEF MachineInv, MachineTypeOK, Drafts
  <2>2. QED
    BY <2>1 DEF NewSession, SessionBlocks
<1>3. /\ b \in Blocks /\ b.kind = "session" /\ b.builders = <<>> /\ b.replacements = <<>>
      /\ SavedIn(b) = {}
  BY <1>2 DEF Blocks, NewSession, SavedIn
<1> HIDE DEF b
<1>4. /\ Running /\ writes' \in Nat /\ ~(withBlocks # <<>> /\ Last(withBlocks).kind = "alternatives")
      /\ UNCHANGED <<object, recorded, meant, written, tangled, status>>
  BY DEF Editing, Writes, MachineInv, MachineTypeOK
<1>5. withBlocks' = Append(withBlocks, b)
  BY <1>1 DEF b
<1>6. QED
  BY <1>3, <1>4, <1>5, PushKeeps

\* with c.alternatives(...)
LEMMA AlternativesKeep ==
  ASSUME MachineInv, OpenAlternatives
  PROVE  MachineInv'
<1>1. PICK chosen \in {1, 2} :
        withBlocks' = Append(withBlocks, [kind |-> "alternatives", arm |-> 1, chosen |-> chosen,
                                  state |-> Nothing])
  BY DEF OpenAlternatives
<1> DEFINE b == [kind |-> "alternatives", arm |-> 1, chosen |-> chosen, state |-> Nothing]
<1>2. b \in ChoiceBlocks
  BY DEF ChoiceBlocks
<1>3. b \in Blocks /\ b.kind = "alternatives" /\ b.arm = 1 /\ SavedIn(b) = {}
  BY <1>2 DEF Blocks, SavedIn
<1> HIDE DEF b
<1>4. /\ Running /\ writes' \in Nat /\ ~(withBlocks # <<>> /\ Last(withBlocks).kind = "alternatives")
      /\ UNCHANGED <<object, recorded, meant, written, tangled, status>>
  BY DEF OpenAlternatives, Writes, MachineInv, MachineTypeOK
<1>5. withBlocks' = Append(withBlocks, b)
  BY <1>1 DEF b
<1>6. QED
  BY <1>3, <1>4, <1>5, PushKeeps

\* with alternative:
LEMMA EnterArmKeeps ==
  ASSUME MachineInv, EnterArm
  PROVE  MachineInv'
<1> DEFINE b == [kind |-> "arm", saved |-> Snapshot]
<1>1. b \in ArmBlocks
  BY SavedTyped DEF ArmBlocks, MachineInv
<1>2. b \in Blocks /\ b.kind = "arm" /\ SavedIn(b) = {Snapshot}
  BY <1>1 DEF Blocks, SavedIn
<1>3. withBlocks' = Append(withBlocks, b)
  BY DEF EnterArm
<1> HIDE DEF b
<1>4. /\ Running /\ writes' \in Nat /\ withBlocks # <<>> /\ Last(withBlocks).kind = "alternatives"
      /\ UNCHANGED <<object, recorded, meant, written, tangled, status>>
  BY DEF EnterArm, MachineInv, MachineTypeOK
<1>5. QED
  BY <1>2, <1>3, <1>4, PushKeeps

\* The last block is closed.
LEMMA FrontFacts ==
  ASSUME NEW S, NEW e \in Seq(S), e # <<>>
  PROVE  /\ Len(e) \in Nat \ {0} /\ Last(e) = e[Len(e)] /\ Last(e) \in S
         /\ Front(e) \in Seq(S) /\ Len(Front(e)) = Len(e) - 1
         /\ \A i \in 1..(Len(e) - 1) : Front(e)[i] = e[i]
<1>1. Len(e) \in Nat \ {0} /\ \A i \in 1..Len(e) : e[i] \in S
  <2>1. Len(e) \in Nat /\ e \in [1..Len(e) -> S]
    BY LenProperties
  <2>2. Len(e) # 0
    BY EmptySeq
  <2>3. QED
    BY <2>1, <2>2
<1>2. Last(e) = e[Len(e)] /\ Last(e) \in S
  BY <1>1 DEF Last
<1> DEFINE n == Len(e) - 1
<1>3. n \in Nat /\ \A i \in 1..n : e[i] \in S
  BY <1>1
<1>4. Front(e) = SubSeq(e, 1, n)
  BY DEF Front
<1> HIDE DEF n
<1>5. /\ SubSeq(e, 1, n) \in Seq(S)
      /\ Len(SubSeq(e, 1, n)) = IF 1 <= n THEN n - 1 + 1 ELSE 0
      /\ \A i \in 1..(n - 1 + 1) : SubSeq(e, 1, n)[i] = e[1 + i - 1]
  BY <1>3, SubSeqProperties
<1>6. Front(e) \in Seq(S) /\ Len(Front(e)) = n /\ \A i \in 1..n : Front(e)[i] = e[i]
  BY <1>3, <1>4, <1>5
<1>7. QED
  BY <1>1, <1>2, <1>6 DEF n

\* What is left of the blocks is nested as before, and no version is saved in addition.
LEMMA Shortened ==
  ASSUME MachineTypeOK, NestInv, withBlocks' \in Seq(Blocks), Len(withBlocks') < Len(withBlocks),
         \A i \in 1..Len(withBlocks') : withBlocks'[i] = withBlocks[i]
  PROVE  /\ NestInv'
         /\ \A i : SavedAbove(i)' \subseteq SavedAbove(i)
         /\ \A i \in Sessions' : i \in Sessions /\ withBlocks'[i] = withBlocks[i]
         /\ \A i \in Sessions' : i \in 1..Len(withBlocks')
<1>1. /\ Len(withBlocks) \in Nat /\ DOMAIN withBlocks = 1..Len(withBlocks)
      /\ Len(withBlocks') \in Nat /\ DOMAIN withBlocks' = 1..Len(withBlocks')
  BY BlockFacts, LenProperties
<1>2. \A i \in DOMAIN withBlocks' : i \in DOMAIN withBlocks /\ withBlocks'[i] = withBlocks[i]
  BY <1>1
<1>3. NestInv'
  <2>1. ASSUME NEW i \in DOMAIN withBlocks'
        PROVE  /\ withBlocks'[i].kind = "session" => (withBlocks'[i].deferred \/ withBlocks'[i].replacements = <<>>)
               /\ withBlocks'[i].kind = "arm" => i > 1 /\ withBlocks'[i - 1].kind = "alternatives"
               /\ withBlocks'[i].kind = "alternatives" =>
                    /\ i < Len(withBlocks') => withBlocks'[i + 1].kind = "arm"
                    /\ withBlocks'[i].arm = 2 /\ withBlocks'[i].chosen = 1 => withBlocks'[i].state # Nothing
    <3>1. i \in DOMAIN withBlocks /\ withBlocks'[i] = withBlocks[i] /\ i < Len(withBlocks)
      BY <1>1, <1>2
    <3>2. i > 1 => i - 1 \in DOMAIN withBlocks' /\ withBlocks'[i - 1] = withBlocks[i - 1]
      BY <1>1
    <3>3. i < Len(withBlocks') => i + 1 \in DOMAIN withBlocks' /\ withBlocks'[i + 1] = withBlocks[i + 1]
      BY <1>1
    <3>4. QED
      BY <3>1, <3>2, <3>3 DEF NestInv
  <2>2. QED
    BY <2>1 DEF NestInv
<1>4. QED
  BY <1>1, <1>2, <1>3 DEF SavedAbove, Sessions

\* What a session applies is what it drafts.
LEMMA PendingFacts ==
  ASSUME NEW s, s.builders \in Drafts, s.replacements \in Drafts
  PROVE  /\ Pending(s) \in Drafts
         /\ \A f : Touched(Pending(s), f) # 0 <=> Held(s, f)
         /\ \A f : Held(s, f) => At(Pending(s), f) = Draft(s, f)
<1> DEFINE d == s.builders
           e == s.replacements
<1>1. /\ Pending(s) = d \o e /\ d \o e \in Drafts
      /\ \A f : Touched(d \o e, f) = IF Touched(d, f) # 0 THEN Touched(d, f)
                                   ELSE IF Touched(e, f) # 0 THEN Len(d) + Touched(e, f) ELSE 0
  BY TouchedConcat DEF Pending
<1>2. Len(d) \in Nat /\ Len(e) \in Nat /\ d \in Seq(DraftType) /\ e \in Seq(DraftType)
      /\ d \in Drafts /\ e \in Drafts
  BY DEF Drafts, DraftType
<1> HIDE DEF d, e
<1>3. \A i \in 1..(Len(d) + Len(e)) : (d \o e)[i] = IF i <= Len(d) THEN d[i] ELSE e[i - Len(d)]
  BY <1>2, ConcatProperties
<1>4. ASSUME NEW f
      PROVE  /\ Touched(d, f) # 0 => Touched(d, f) \in 1..Len(d)
             /\ Touched(e, f) # 0 => Touched(e, f) \in 1..Len(e)
  BY <1>2, DraftOf
<1>5. ASSUME NEW f PROVE Touched(d \o e, f) # 0 <=> Held(s, f)
  BY <1>1, <1>2, <1>4 DEF Held, d, e
<1>6. ASSUME NEW f, Held(s, f) PROVE At(d \o e, f) = Draft(s, f)
  <2>1. CASE Touched(d, f) # 0
    <3>1. (d \o e)[Touched(d, f)] = d[Touched(d, f)]
      BY <1>2, <1>3, <1>4, <2>1
    <3>2. QED
      BY <1>1, <2>1, <3>1 DEF At, Draft, d, e
  <2>2. CASE Touched(d, f) = 0
    <3>1. Touched(e, f) \in 1..Len(e) /\ Touched(e, f) # 0
      BY <1>4, <1>6, <2>2 DEF Held, d, e
    <3>2. (d \o e)[Len(d) + Touched(e, f)] = e[Touched(e, f)]
      BY <1>2, <1>3, <3>1
    <3>3. QED
      BY <1>1, <2>2, <3>1, <3>2 DEF At, Draft, d, e
  <2>3. QED
    BY <2>1, <2>2
<1>7. QED
  BY <1>1, <1>5, <1>6

\* The object after drafts are applied.
LEMMA AppliedFacts ==
  ASSUME NEW o \in Objects, NEW d \in Drafts, NEW p, p = Applied(o, d)
  PROVE  /\ p \in Objects
         /\ \A f \in MachineFields :
              /\ p.value[f] = IF Touched(d, f) = 0 THEN o.value[f] ELSE At(d, f)
              /\ p.count[f] = o.count[f]
              /\ f \in p.edited <=> f \in o.edited \/ Touched(d, f) # 0
<1> DEFINE V == [f \in MachineFields |-> IF Touched(d, f) = 0 THEN o.value[f] ELSE At(d, f)]
           E == o.edited \cup {d[i].field : i \in DOMAIN d}
<1>1. p = [o EXCEPT !.value = V, !.edited = E]
  BY DEF Applied, At
<1>2. o.value \in Values /\ o.edited \subseteq MachineFields
  BY DEF Objects
<1>3. V \in Values
  BY <1>2, DraftOf DEF Values
<1>4. Len(d) \in Nat /\ DOMAIN d = 1..Len(d) /\ d \in [1..Len(d) -> DraftType]
  BY LenProperties DEF Drafts, DraftType
<1>5. E \subseteq MachineFields
  BY <1>2, <1>4 DEF DraftType
<1>6. ASSUME NEW f \in MachineFields PROVE f \in E <=> f \in o.edited \/ Touched(d, f) # 0
  <2>1. Touched(d, f) # 0 => f \in E
    BY <1>4, DraftOf
  <2>2. Touched(d, f) = 0 => \A i \in DOMAIN d : d[i].field # f
    BY <1>4, TouchedFacts
  <2>3. QED
    BY <2>1, <2>2
<1>7. \A f \in MachineFields : V[f] = IF Touched(d, f) = 0 THEN o.value[f] ELSE At(d, f)
  OBVIOUS
<1> HIDE DEF V, E
<1>8. p \in Objects /\ p.value = V /\ p.count = o.count /\ p.edited = E
  BY <1>1, <1>3, <1>5 DEF Objects
<1>9. QED
  BY <1>6, <1>7, <1>8

\* The innermost session ends.
LEMMA EndEditingKeeps ==
  ASSUME MachineInv, EndEditing
  PROVE  MachineInv'
<1> DEFINE n == Len(withBlocks)
           s == Last(withBlocks)
           d == Pending(s)
           denied == Denied(object, s)
<1>1. /\ Running /\ withBlocks # <<>> /\ writes' = writes
      /\ MachineTypeOK /\ NestInv /\ withBlocks \in Seq(Blocks)
      /\ \A f \in MachineFields \ tangled : FieldInv(f)
  BY DEF EndEditing, MachineInv, MachineTypeOK
<1>2. /\ n \in Nat \ {0} /\ s = withBlocks[n]
      /\ Front(withBlocks) \in Seq(Blocks) /\ Len(Front(withBlocks)) = n - 1
      /\ \A i \in 1..(n - 1) : Front(withBlocks)[i] = withBlocks[i]
  BY <1>1, FrontFacts
<1>3. n \in DOMAIN withBlocks /\ n \in Sessions /\ s \in SessionBlocks
  BY <1>1, <1>2, BlockFacts DEF EndEditing, Sessions
<1>4. s.builders \in Drafts /\ s.replacements \in Drafts /\ s.says \in Values
  BY <1>3 DEF SessionBlocks
<1>5. /\ d \in Drafts
      /\ \A f : Touched(d, f) # 0 <=> Held(s, f)
      /\ \A f : Held(s, f) => At(d, f) = Draft(s, f)
  BY <1>4, PendingFacts
<1>6. object \in Objects /\ meant \in Values /\ recorded \in Values
  BY <1>1 DEF MachineTypeOK
<1>7. CASE s.deferred /\ denied # 0
  <2>1. /\ object' = Applied(object, SubSeq(d, 1, denied - 1))
        /\ status' = <<d[denied].field>>
        /\ UNCHANGED <<withBlocks, recorded, meant, written, tangled>>
    BY <1>7 DEF EndEditing
  <2>2. Len(d) \in Nat /\ d \in [1..Len(d) -> DraftType]
    BY <1>5, LenProperties DEF Drafts, DraftType
  <2>3. denied \in 1..Len(d) /\ object.count[d[denied].field] # 0
    <3> DEFINE I == {i \in 1..Len(d) : ~MayEdit(object, d[i].field)}
    <3>1. denied = IF I # {} THEN Min(I) ELSE 0
      BY DEF Denied, SelectInSeq
    <3>2. I # {} /\ I \in SUBSET Nat
      BY <1>7, <2>2, <3>1
    <3>3. denied \in I
      BY <3>1, <3>2, MinIsSmallest
    <3>4. QED
      BY <3>3 DEF MayEdit
  <2>4. d[denied].field \in MachineFields
    BY <2>2, <2>3 DEF DraftType
  <2>5. d[denied].field \in written \cup tangled
    BY <1>1, <2>3, <2>4, DeniedIsWritten
  <2> HIDE DEF d, denied
  <2>6. SubSeq(d, 1, denied - 1) \in Drafts
    <3>1. denied - 1 \in Int /\ \A i \in 1..(denied - 1) : d[i] \in DraftType
      BY <2>2, <2>3
    <3> DEFINE m == denied - 1
    <3>2. m \in Int /\ \A i \in 1..m : d[i] \in DraftType
      BY <3>1
    <3> HIDE DEF m
    <3>3. SubSeq(d, 1, m) \in Seq(DraftType)
      BY <3>2, SubSeqProperties
    <3>4. QED
      BY <3>3 DEF m, Drafts, DraftType
  <2>7. object' \in Objects
    BY <1>6, <2>1, <2>6, AppliedFacts
  <2>8. MachineTypeOK'
    BY <1>1, <2>1, <2>4, <2>7 DEF MachineTypeOK
  <2>9. ~Running' /\ RefusedOnlyIfWritten'
    BY <2>1, <2>5 DEF Running, RefusedOnlyIfWritten
  <2>10. QED
    BY <2>8, <2>9 DEF MachineInv
<1>8. CASE ~(s.deferred /\ denied # 0)
  <2>1. /\ withBlocks' = Front(withBlocks)
        /\ IF s.deferred
           THEN /\ object' = Applied(object, d)
                /\ recorded' = [f \in MachineFields |->
                     IF Holds(n, f) THEN object'.value[f] ELSE recorded[f]]
                /\ meant' = [f \in MachineFields |-> Said(s, f)]
           ELSE UNCHANGED <<object, recorded, meant>>
        /\ UNCHANGED <<written, tangled, status>>
    BY <1>8 DEF EndEditing
  <2>2. \A f : Holds(n, f) <=> Held(s, f)
    BY <1>2 DEF Holds
  <2>3. /\ object' \in Objects /\ recorded' \in Values /\ meant' \in Values
        /\ \A f \in MachineFields :
             /\ object'.count[f] = object.count[f]
             /\ ~(s.deferred /\ Held(s, f)) =>
                  /\ object'.value[f] = object.value[f]
                  /\ f \in object'.edited <=> f \in object.edited
                  /\ meant'[f] = meant[f] /\ recorded'[f] = recorded[f]
             /\ s.deferred /\ Held(s, f) =>
                  /\ object'.value[f] = Draft(s, f) /\ recorded'[f] = Draft(s, f)
                  /\ meant'[f] = s.says[f]
    <3>1. CASE s.deferred
      <4>1. /\ object' = Applied(object, d)
            /\ recorded' = [f \in MachineFields |->
                 IF Held(s, f) THEN object'.value[f] ELSE recorded[f]]
            /\ meant' = [f \in MachineFields |-> Said(s, f)]
        BY <2>1, <2>2, <3>1
      <4> HIDE DEF d, s
      <4>2. /\ object' \in Objects
            /\ \A f \in MachineFields :
                 /\ object'.value[f] = IF Touched(d, f) = 0 THEN object.value[f] ELSE At(d, f)
                 /\ object'.count[f] = object.count[f]
                 /\ f \in object'.edited <=> f \in object.edited \/ Touched(d, f) # 0
        BY <1>5, <1>6, <4>1, AppliedFacts
      <4>3. \A f \in MachineFields : object'.value[f] \in Maps /\ recorded[f] \in Maps
        BY <1>6, <4>2 DEF Objects, Values
      <4>4. recorded' \in Values
        BY <4>1, <4>3 DEF Values
      <4>5. \A f \in MachineFields : Said(s, f) = IF Held(s, f) THEN s.says[f] ELSE meant[f]
        BY DEF Said
      <4>6. meant' \in Values
        BY <1>4, <1>6, <4>1, <4>5 DEF Values
      <4>7. ASSUME NEW f \in MachineFields, ~Held(s, f)
            PROVE  /\ object'.value[f] = object.value[f]
                   /\ f \in object'.edited <=> f \in object.edited
                   /\ meant'[f] = meant[f] /\ recorded'[f] = recorded[f]
        BY <1>5, <4>1, <4>2, <4>5, <4>7
      <4>8. ASSUME NEW f \in MachineFields, Held(s, f)
            PROVE  /\ object'.value[f] = Draft(s, f) /\ recorded'[f] = Draft(s, f)
                   /\ meant'[f] = s.says[f]
        BY <1>5, <4>1, <4>2, <4>5, <4>8
      <4>9. QED
        BY <3>1, <4>2, <4>4, <4>6, <4>7, <4>8
    <3>2. CASE ~s.deferred
      BY <1>6, <2>1, <3>2
    <3>3. QED
      BY <3>1, <3>2
  <2>4. MachineTypeOK'
    BY <1>1, <1>2, <2>1, <2>3 DEF MachineTypeOK
  <2>5. /\ NestInv'
        /\ \A i : SavedAbove(i)' \subseteq SavedAbove(i)
        /\ \A i \in Sessions' : i \in Sessions /\ withBlocks'[i] = withBlocks[i]
        /\ \A i \in Sessions' : i # n
    <3>1. /\ withBlocks' \in Seq(Blocks) /\ Len(withBlocks') < Len(withBlocks) /\ Len(withBlocks') = n - 1
          /\ \A i \in 1..Len(withBlocks') : withBlocks'[i] = withBlocks[i]
      BY <1>2, <2>1
    <3>2. QED
      BY <1>1, <1>2, <3>1, Shortened
  <2>6. ASSUME NEW f \in MachineFields \ tangled' PROVE FieldInv(f)'
    <3>1. FieldInv(f)
      BY <1>1, <2>1, <2>6
    <3>2. CASE ~(s.deferred /\ Held(s, f))
      <4>1. SameAt(Snapshot, Snapshot', f)
        BY <2>1, <2>3, <2>6, <3>2 DEF SameAt, Snapshot
      <4>2. QED
        BY <2>5, <2>6, <3>1, <4>1, FieldMoves
    <3>3. CASE s.deferred /\ Held(s, f)
      <4>1. HolderInv(n, f)
        BY <1>3, <2>2, <3>1, <3>3 DEF FieldInv
      <4>2. Draft(s, f) = s.says[f] /\ Follows(s, Snapshot, f)
            /\ \A j \in Sessions : Holds(j, f) => j = n
        BY <1>2, <3>3, <4>1 DEF HolderInv
      <4>3. \A j \in Sessions' : ~Holds(j, f)'
        BY <2>5, <4>2 DEF Holds
      <4>4. f \in written
        BY <4>2 DEF Follows, Snapshot
      <4>5. Faithful(Snapshot', f)
        BY <2>1, <2>3, <2>6, <3>3, <4>2, <4>4 DEF Faithful, Snapshot
      <4>6. \A x \in {Snapshot'} \cup SavedAbove(0)' : Faithful(x, f)
        BY <2>5, <3>1, <4>5 DEF FieldInv
      <4>7. QED
        BY <4>3, <4>6 DEF FieldInv
    <3>4. QED
      BY <3>2, <3>3
  <2>7. Running' /\ RefusedOnlyIfWritten'
    BY <1>1, <2>1 DEF Running, RefusedOnlyIfWritten
  <2>8. QED
    BY <2>4, <2>5, <2>6, <2>7 DEF MachineInv
<1>9. QED
  BY <1>7, <1>8

\* An arm ends: back to the saved state or, behind the last arm, to the kept one.
LEMMA ExitArmKeeps ==
  ASSUME MachineInv, ExitArm
  PROVE  MachineInv'
<1> DEFINE n == Len(withBlocks)
           saved == Last(withBlocks).saved
           outer == Front(withBlocks)
           alts == Last(outer)
           kept == IF alts.chosen = alts.arm THEN Snapshot ELSE alts.state
           next == IF alts.arm = 2 THEN kept ELSE saved
           went == [alts EXCEPT !.arm = 2, !.state = kept]
<1>1. /\ Running /\ withBlocks # <<>> /\ writes' = writes
      /\ MachineTypeOK /\ NestInv /\ withBlocks \in Seq(Blocks)
      /\ \A f \in MachineFields \ tangled : FieldInv(f)
  BY DEF ExitArm, MachineInv, MachineTypeOK
<1>2. /\ n \in Nat \ {0} /\ Last(withBlocks) = withBlocks[n]
      /\ outer \in Seq(Blocks) /\ Len(outer) = n - 1
      /\ \A i \in 1..(n - 1) : outer[i] = withBlocks[i]
  BY <1>1, FrontFacts
<1>3. n \in DOMAIN withBlocks /\ withBlocks[n].kind = "arm" /\ withBlocks[n] \in ArmBlocks
  BY <1>1, <1>2, BlockFacts DEF ExitArm
<1>4. n > 1 /\ n - 1 \in DOMAIN withBlocks /\ withBlocks[n - 1].kind = "alternatives"
      /\ withBlocks[n - 1] \in ChoiceBlocks
  <2>1. n > 1 /\ withBlocks[n - 1].kind = "alternatives"
    BY <1>1, <1>3 DEF NestInv
  <2>2. n - 1 \in DOMAIN withBlocks
    BY <1>1, <1>2, <2>1, BlockFacts
  <2>3. QED
    BY <1>1, <2>1, <2>2, BlockFacts
<1>5. /\ outer # <<>> /\ alts = withBlocks[n - 1] /\ alts = outer[n - 1]
      /\ Front(outer) \in Seq(Blocks) /\ Len(Front(outer)) = n - 2
      /\ \A i \in 1..(n - 2) : Front(outer)[i] = withBlocks[i]
  <2>1. outer # <<>>
    BY <1>2, <1>4
  <2> HIDE DEF outer
  <2>2. /\ alts = outer[Len(outer)]
        /\ Front(outer) \in Seq(Blocks) /\ Len(Front(outer)) = Len(outer) - 1
        /\ \A i \in 1..(Len(outer) - 1) : Front(outer)[i] = outer[i]
    BY <1>2, <2>1, FrontFacts
  <2>3. n - 1 \in 1..(n - 1) /\ (n - 1) - 1 = n - 2 /\ \A i \in 1..(n - 2) : i \in 1..(n - 1)
    BY <1>2, <1>4
  <2> HIDE DEF n
  <2>4. QED
    BY <1>2, <2>1, <2>2, <2>3
<1>6. /\ object' = next.object /\ meant' = next.meant /\ written' = next.written
      /\ recorded' = next.recorded /\ tangled' = tangled /\ status' = status
      /\ withBlocks' = IF alts.arm = 2 THEN Front(outer)
                   ELSE [outer EXCEPT ![Len(outer)].arm = 2, ![Len(outer)].state = kept]
  BY DEF ExitArm, CopyFrom
<1> HIDE DEF outer, alts, n, saved
<1>7. /\ Snapshot \in Snapshots /\ saved \in Snapshots
      /\ alts \in ChoiceBlocks /\ alts.kind = "alternatives"
      /\ alts.arm \in {1, 2} /\ alts.chosen \in {1, 2} /\ alts.state \in Snapshots \cup {Nothing}
  BY <1>1, <1>2, <1>3, <1>4, <1>5, SavedTyped DEF ArmBlocks, ChoiceBlocks, saved
<1>8. Snapshot # Nothing
  <2>1. Snapshot.object = object /\ DOMAIN Snapshot = {"object", "meant", "written", "recorded"}
    BY DEF Snapshot
  <2>2. DOMAIN Nothing = {"none"}
    BY DEF Nothing
  <2>3. QED
    BY <2>1, <2>2
<1>9. \A i \in Nat : i < n - 1 => saved \in SavedAbove(i) /\ (alts.state # Nothing => alts.state \in SavedAbove(i))
  <2>1. saved \in SavedIn(withBlocks[n])
    BY <1>2, <1>3 DEF SavedIn, saved
  <2>2. alts.state # Nothing => alts.state \in SavedIn(withBlocks[n - 1])
    BY <1>4, <1>5 DEF SavedIn
  <2>3. SUFFICES ASSUME NEW i \in Nat, i < n - 1
                 PROVE  saved \in SavedAbove(i) /\ (alts.state # Nothing => alts.state \in SavedAbove(i))
    OBVIOUS
  <2>4. n - 1 > i /\ n > i
    BY <1>2, <2>3
  <2>5. QED
    BY <1>3, <1>4, <2>1, <2>2, <2>3, <2>4 DEF SavedAbove
<1>10. kept \in {Snapshot, alts.state} /\ (alts.arm = 2 => kept # Nothing)
  <2>1. alts.arm = 2 /\ alts.chosen # alts.arm => alts.state # Nothing
    <3>1. alts.arm = 2 /\ alts.chosen = 1 => alts.state # Nothing
      BY <1>1, <1>4, <1>5 DEF NestInv
    <3>2. QED
      BY <1>7, <3>1
  <2>2. QED
    BY <1>8, <2>1
<1> HIDE DEF kept
<1>11. /\ next \in Snapshots
       /\ \A i \in Nat : i < n - 1 => next \in {Snapshot} \cup SavedAbove(i)
  <2>1. CASE alts.arm = 2
    BY <1>7, <1>9, <1>10, <2>1
  <2>2. CASE alts.arm # 2
    BY <1>7, <1>9, <2>2
  <2>3. QED
    BY <2>1, <2>2
<1> HIDE DEF next
<1>12. Snapshot' = next
  <2>1. next = [object |-> next.object, meant |-> next.meant, written |-> next.written,
                recorded |-> next.recorded]
    BY <1>11 DEF Snapshots
  <2>2. QED
    BY <1>6, <2>1 DEF Snapshot
<1>13. \A f : SameAt(next, Snapshot', f)
  BY <1>12 DEF SameAt
<1>14. withBlocks' \in Seq(Blocks) =>  MachineTypeOK'
  BY <1>1, <1>6, <1>11 DEF MachineTypeOK, Snapshots
<1>15. /\ withBlocks' \in Seq(Blocks) /\ NestInv'
       /\ \A i \in Sessions' : i \in Sessions /\ withBlocks'[i] = withBlocks[i] /\ i \in Nat /\ i < n - 1
       /\ \A i \in Nat : i < n - 1 => SavedAbove(i)' \subseteq {Snapshot} \cup SavedAbove(i)
  <2>1. CASE alts.arm = 2
    <3>1. /\ withBlocks' \in Seq(Blocks) /\ Len(withBlocks') = n - 2
          /\ \A i \in 1..Len(withBlocks') : withBlocks'[i] = withBlocks[i]
      BY <1>5, <1>6, <2>1
    <3>2. Len(withBlocks') < Len(withBlocks)
      BY <1>2, <3>1 DEF n
    <3>3. /\ NestInv'
          /\ \A i : SavedAbove(i)' \subseteq SavedAbove(i)
          /\ \A i \in Sessions' : i \in Sessions /\ withBlocks'[i] = withBlocks[i]
          /\ \A i \in Sessions' : i \in 1..Len(withBlocks')
      BY <1>1, <3>1, <3>2, Shortened
    <3>4. \A i \in 1..(n - 2) : i \in Nat /\ i < n - 1
      BY <1>2
    <3>5. QED
      BY <3>1, <3>3, <3>4
  <2>2. CASE alts.arm # 2
    <3>1. withBlocks' = [outer EXCEPT ![n - 1].arm = 2, ![n - 1].state = kept]
      BY <1>2, <1>6, <2>2
    <3>2. n - 1 \in 1..Len(outer) /\ n - 1 \in DOMAIN outer /\ DOMAIN outer = 1..(n - 1)
      BY <1>2, <1>4, LenProperties
    <3>3. withBlocks' = [outer EXCEPT ![n - 1] = went]
      BY <1>5, <3>1, <3>2
    <3>4. kept \in Snapshots \cup {Nothing}
      BY <1>7, <1>10
    <3>5. /\ went \in ChoiceBlocks /\ went.kind = "alternatives" /\ went.state = kept
          /\ went.chosen = alts.chosen
      BY <1>7, <3>4 DEF ChoiceBlocks
    <3>6. went.chosen = 1 => went.state # Nothing
      BY <1>7, <1>8, <2>2, <3>5 DEF kept
    <3> HIDE DEF went
    <3>7. went \in Blocks
      BY <3>5 DEF Blocks
    <3>8. /\ withBlocks' \in Seq(Blocks) /\ Len(withBlocks') = n - 1
          /\ \A i \in 1..(n - 1) : withBlocks'[i] = IF i = n - 1 THEN went ELSE outer[i]
      BY <1>2, <3>2, <3>3, <3>7, ExceptSeq
    <3>9. DOMAIN withBlocks' = 1..(n - 1) /\ DOMAIN withBlocks = 1..n
      BY <1>1, <3>8, LenProperties, BlockFacts DEF n
    <3>10. withBlocks'[n - 1] = went /\ \A i \in 1..(n - 1) : i # n - 1 => withBlocks'[i] = withBlocks[i]
      BY <1>2, <3>2, <3>8
    <3>11. \A i \in 1..(n - 1) : withBlocks'[i].kind = withBlocks[i].kind
      BY <1>4, <3>5, <3>10
    <3>12. NestInv'
      <4>1. ASSUME NEW i \in 1..(n - 1)
            PROVE  /\ withBlocks'[i].kind = "session" => (withBlocks'[i].deferred \/ withBlocks'[i].replacements = <<>>)
                   /\ withBlocks'[i].kind = "arm" => i > 1 /\ withBlocks'[i - 1].kind = "alternatives"
                   /\ withBlocks'[i].kind = "alternatives" =>
                        /\ i < n - 1 => withBlocks'[i + 1].kind = "arm"
                        /\ withBlocks'[i].arm = 2 /\ withBlocks'[i].chosen = 1 => withBlocks'[i].state # Nothing
        <5>1. CASE i = n - 1
          BY <1>2, <3>5, <3>6, <3>10, <5>1
        <5>2. CASE i # n - 1
          <6>1. withBlocks'[i] = withBlocks[i] /\ i \in DOMAIN withBlocks /\ i < Len(withBlocks)
            BY <1>2, <3>9, <3>10, <5>2 DEF n
          <6>2. i + 1 \in 1..(n - 1)
            BY <1>2, <5>2
          <6>3. i > 1 => i - 1 \in 1..(n - 1)
            BY <1>2
          <6>4. QED
            BY <1>1, <3>11, <6>1, <6>2, <6>3 DEF NestInv
        <5>3. QED
          BY <5>1, <5>2
      <4>2. QED
        BY <3>8, <3>9, <4>1 DEF NestInv
    <3>13. ASSUME NEW i \in Sessions'
           PROVE  i \in Sessions /\ withBlocks'[i] = withBlocks[i] /\ i \in Nat /\ i < n - 1
      <4>1. i \in 1..(n - 1) /\ withBlocks'[i].kind = "session"
        BY <3>9 DEF Sessions
      <4>2. i # n - 1
        BY <3>5, <3>10, <4>1
      <4>3. i \in 1..n /\ i < n - 1
        BY <1>2, <4>1, <4>2
      <4>4. QED
        BY <3>9, <3>10, <4>1, <4>2, <4>3 DEF Sessions
    <3>14. ASSUME NEW i \in Nat, i < n - 1, NEW x \in SavedAbove(i)'
           PROVE  x \in {Snapshot} \cup SavedAbove(i)
      <4>1. PICK j \in 1..(n - 1) : j > i /\ x \in SavedIn(withBlocks'[j])
        BY <3>9, <3>14 DEF SavedAbove
      <4>2. CASE j = n - 1
        <5>1. x = kept /\ x # Nothing
          BY <3>5, <3>10, <4>1, <4>2 DEF SavedIn
        <5>2. QED
          BY <1>9, <1>10, <3>14, <5>1
      <4>3. CASE j # n - 1
        <5>1. j \in DOMAIN withBlocks /\ withBlocks'[j] = withBlocks[j]
          BY <1>2, <3>9, <3>10, <4>3
        <5>2. QED
          BY <4>1, <5>1 DEF SavedAbove
      <4>4. QED
        BY <4>2, <4>3
    <3>15. QED
      BY <3>8, <3>12, <3>13, <3>14
  <2>3. QED
    BY <2>1, <2>2
<1>16. ASSUME NEW f \in MachineFields \ tangled' PROVE FieldInv(f)'
  <2>1. FieldInv(f)
    BY <1>1, <1>6, <1>16
  <2>2. 0 < n - 1 /\ 0 \in Nat
    BY <1>2, <1>4
  <2>3. \A i \in Sessions' \cup {0} :
          /\ SavedAbove(i)' \subseteq {Snapshot} \cup SavedAbove(i)
          /\ \E x \in {Snapshot} \cup SavedAbove(i) : SameAt(x, Snapshot', f)
    BY <1>11, <1>13, <1>15, <2>2
  <2>4. QED
    BY <1>15, <2>1, <2>3, FieldMoves
<1>17. Running' /\ RefusedOnlyIfWritten'
  BY <1>1, <1>6 DEF Running, RefusedOnlyIfWritten
<1>18. QED
  BY <1>14, <1>15, <1>16, <1>17 DEF MachineInv

\* The action returns.
LEMMA CommitKeeps ==
  ASSUME MachineInv, Commit
  PROVE  MachineInv'
<1> DEFINE C == [f \in MachineFields |-> 0]
<1>1. /\ Running /\ withBlocks = <<>> /\ withBlocks' = <<>> /\ object' = Finalized(object)
      /\ meant' = object.value /\ recorded' = object.value /\ written' = {} /\ tangled' = {}
      /\ status' = status /\ writes' \in Nat /\ object \in Objects /\ MachineTypeOK
  BY DEF Commit, MachineInv, MachineTypeOK
<1>2. C \in [MachineFields -> {0, 1}] /\ \A f \in MachineFields : C[f] = 0
  OBVIOUS
<1>3. object' = [object EXCEPT !.count = C, !.edited = {}]
  BY <1>1 DEF Finalized
<1> HIDE DEF C
<1>4. object' \in Objects /\ object'.value = object.value /\ object'.count = C /\ object'.edited = {}
      /\ object.value \in Values
  BY <1>1, <1>2, <1>3 DEF Objects
<1>5. MachineTypeOK'
  BY <1>1, <1>4 DEF MachineTypeOK
<1>6. NestInv' /\ Sessions' = {} /\ SavedAbove(0)' = {}
  BY <1>1 DEF NestInv, Sessions, SavedAbove
<1>7. ASSUME NEW f \in MachineFields PROVE FieldInv(f)'
  <2>1. Faithful(Snapshot', f)
    BY <1>1, <1>2, <1>4 DEF Faithful, Snapshot
  <2>2. QED
    BY <1>6, <2>1 DEF FieldInv
<1>8. Running' /\ RefusedOnlyIfWritten'
  BY <1>1 DEF Running, RefusedOnlyIfWritten
<1>9. QED
  BY <1>5, <1>6, <1>7, <1>8 DEF MachineInv

----------------------------------------------------------------------------
\* The theorems.

\* The invariant holds of a new object.
LEMMA MachineStarts ==
  ASSUME MachineInit
  PROVE  MachineInv
<1> DEFINE V == [f \in MachineFields |-> Whole(0)]
           C == [f \in MachineFields |-> 0]
<1>1. V \in Values /\ C \in [MachineFields -> {0, 1}] /\ \A f \in MachineFields : C[f] = 0
  BY WholeTyped DEF Values
<1>2. NewObject = [value |-> V, count |-> C, edited |-> {}]
  BY DEF NewObject
<1> HIDE DEF V, C
<1>3. /\ object \in Objects /\ object.value = V /\ object.count = C /\ object.edited = {}
      /\ meant = V /\ recorded = V
      /\ withBlocks = <<>> /\ written = {} /\ tangled = {} /\ writes = 0 /\ status = <<>>
  BY <1>1, <1>2 DEF MachineInit, Objects
<1>4. MachineTypeOK
  BY <1>1, <1>3 DEF MachineTypeOK
<1>5. NestInv /\ Sessions = {} /\ SavedAbove(0) = {}
  BY <1>3 DEF NestInv, Sessions, SavedAbove
<1>6. ASSUME NEW f \in MachineFields PROVE FieldInv(f)
  <2>1. Faithful(Snapshot, f)
    BY <1>1, <1>3 DEF Faithful, Snapshot
  <2>2. QED
    BY <1>5, <2>1 DEF FieldInv
<1>7. Running /\ RefusedOnlyIfWritten
  BY <1>3 DEF Running, RefusedOnlyIfWritten
<1>8. QED
  BY <1>4, <1>5, <1>6, <1>7 DEF MachineInv

\* A stutter changes nothing.
LEMMA MachineStutters ==
  ASSUME MachineInv, UNCHANGED machineVars
  PROVE  MachineInv'
<1>1. MachineTypeOK'
  BY DEF MachineInv, MachineTypeOK, machineVars
<1>2. Running' = Running /\ (RefusedOnlyIfWritten' <=> RefusedOnlyIfWritten)
  BY DEF Running, RefusedOnlyIfWritten, machineVars
<1>3. NestInv => NestInv'
  BY DEF NestInv, machineVars
<1>4. tangled' = tangled
  BY DEF machineVars
<1>5. ASSUME NEW f \in MachineFields, FieldInv(f) PROVE FieldInv(f)'
  <2>1. withBlocks' = withBlocks /\ Snapshot' = Snapshot
    BY DEF machineVars, Snapshot
  <2>2. SameBlocks /\ SameAt(Snapshot, Snapshot', f) /\ \A i \in Sessions : SameDraft(i, f)
    BY <2>1 DEF SameBlocks, SameAt, SameDraft, Holds
  <2>3. QED
    BY <1>5, <2>2, FieldStays
<1>6. QED
  BY <1>1, <1>2, <1>3, <1>4, <1>5 DEF MachineInv

\* Whatever is written in an action, and however its blocks are nested: in each version
\* of the object, the current one and those that alternatives have saved, a field that
\* no session wrote together with something else is what its writes mean.
THEOREM MachineInvariant == MachineSpec => []MachineInv
<1>1. MachineInit => MachineInv
  BY MachineStarts
<1>2. MachineInv /\ [MachineNext]_machineVars => MachineInv'
  <2>1. SUFFICES ASSUME MachineInv, [MachineNext]_machineVars PROVE MachineInv'
    OBVIOUS
  <2>2. CASE \E f \in MachineFields : SetField(f)
    BY <2>1, <2>2, SetFieldKeeps
  <2>3. CASE \E f \in MachineFields, k \in ObjectKeys : SetKey(f, k)
    BY <2>1, <2>3, SetKeyKeeps
  <2>4. CASE Editing
    BY <2>1, <2>4, EditingKeeps
  <2>5. CASE \E i \in Sessions, f \in MachineFields, k \in ObjectKeys : EditKey(i, f, k)
    BY <2>1, <2>5, EditKeyKeeps
  <2>6. CASE \E i \in Sessions, f \in MachineFields : EditField(i, f)
    BY <2>1, <2>6, EditFieldKeeps
  <2>7. CASE EndEditing
    BY <2>1, <2>7, EndEditingKeeps
  <2>8. CASE OpenAlternatives
    BY <2>1, <2>8, AlternativesKeep
  <2>9. CASE EnterArm
    BY <2>1, <2>9, EnterArmKeeps
  <2>10. CASE ExitArm
    BY <2>1, <2>10, ExitArmKeeps
  <2>11. CASE Commit
    BY <2>1, <2>11, CommitKeeps
  <2>12. CASE UNCHANGED machineVars
    BY <2>1, <2>12, MachineStutters
  <2>13. QED
    BY <2>1, <2>2, <2>3, <2>4, <2>5, <2>6, <2>7, <2>8, <2>9, <2>10, <2>11, <2>12 DEF MachineNext
<1>3. QED
  BY <1>1, <1>2, PTL DEF MachineSpec

\* The writes that an action makes, in whatever forms and blocks, are what the state is
\* when no block is open, and the last that __edit_callback was told.
THEOREM MachineWritesAreKept == MachineSpec => []WritesAreKept
<1>1. MachineInv => WritesAreKept
  <2>1. SUFFICES ASSUME MachineInv, Running, NEW f \in MachineFields \ tangled
                 PROVE  object.value[f] = meant[f] /\ recorded[f] = meant[f]
    BY DEF WritesAreKept
  <2>2. Faithful(Snapshot, f)
    BY <2>1 DEF MachineInv, FieldInv
  <2>3. QED
    BY <2>2 DEF Faithful, Snapshot
<1>2. QED
  BY <1>1, MachineInvariant, PTL

\* AttributeError is raised only for a field that this path of this action has written.
THEOREM MachineRefusals == MachineSpec => []RefusedOnlyIfWritten
<1>1. MachineInv => RefusedOnlyIfWritten
  BY DEF MachineInv
<1>2. QED
  BY <1>1, MachineInvariant, PTL
=============================================================================

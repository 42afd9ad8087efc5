------------------------------ MODULE SetValues ------------------------------
(***************************************************************************)
(* The values of sets of wunderspec/interpreter_value.py, the operations   *)
(* of wunderspec/interpreter.py on them and the draws of                   *)
(* wunderspec/interpreter_sampling.py.                                     *)
(*                                                                         *)
(* A set value is evaluated lazily: it is enumerated, or an interval, or   *)
(* the integers, or a filter or an image of another set value, or all      *)
(* subsets, maps or tuples over the elements of others.  A value is a      *)
(* tuple that starts with its class.  Predicates and mappers are a few     *)
(* named ones.  Denotation is what a value stands for; the rest of the     *)
(* module is what the code does.                                           *)
(***************************************************************************)
EXTENDS Integers, Sequences, SequencesExt, FiniteSetsExt, BagsExt

CONSTANTS
  MaterializationBound,   \* the most elements that an All-set is enumerated to
  DrawBound               \* the bound of a scheduler on draws

Int1(n) == <<"int", n>>
Tuple(s) == <<"tuple", s>>
Map(f) == <<"map", f>>
Enumerated(S) == <<"enum", S>>
Interval(lo, hi) == <<"interval", lo, hi>>
InfInt(signed) == <<"inf", signed>>
\* counted tells whether len() of the filter has been asked for (_len_cache).
Filter(base, predicate, counted) == <<"filter", base, predicate, counted>>
Image(base, mapper) == <<"image", base, mapper>>
AllSubsets(elems) == <<"subsets", elems>>
AllMaps(keys, values) == <<"maps", keys, values>>
AllTuples(dims) == <<"tuples", dims>>

Class(v) == v[1]
SetClasses ==
  {"enum", "interval", "inf", "filter", "image", "subsets", "maps", "tuples"}
IsSet(v) == Class(v) \in SetClasses
Lazy == {"subsets", "maps", "tuples"}

\* A method of a class may call any method of any value, and, through "abstract"
\* and "lazy", the one that the class inherits.
RECURSIVE Ask(_, _, _, _)
Iteration(v) == Ask(Class(v), "iter", v, v)
Materialized(v) == Ask(Class(v), "materialize", v, v)
Key(v) == Ask(Class(v), "hash", v, v)
In(v, e) == Ask(Class(v), "contains", v, e)
Equal(v, w) == Ask(Class(v), "eq", v, w)
Fingerprint(v) == Ask(Class(v), "fingerprint", v, v)

\* The constructor of an enumerated set materializes the elements.
Set1(S) == Enumerated({Materialized(x) : x \in S})

\* The user's predicates and mappers.
Holds(predicate, v) ==
  CASE predicate = "any" -> TRUE
    [] predicate = "zero" -> v = Int1(0)
    [] predicate = "notZero" -> v # Int1(0)
Mapped(mapper, v) ==
  CASE mapper = "same" -> v
    [] mapper = "const" -> Int1(0)
    [] mapper = "wrap" -> Set1({v})
    [] mapper = "pair" -> Tuple(<<v, v>>)
    [] mapper = "subsets" -> AllSubsets(<<v>>)

----------------------------------------------------------------------------
\* What a value stands for: sets as sets.
RECURSIVE Denotation(_)
DenotedSet(v) == Denotation(v)[2]
Denotations(s) == [i \in DOMAIN s |-> Denotation(s[i])]
Denotation(v) ==
  CASE Class(v) = "int" -> v
    [] Class(v) = "tuple" -> Tuple(Denotations(v[2]))
    [] Class(v) = "map" ->
         Map([k \in {Denotation(x) : x \in DOMAIN v[2]} |->
                Denotation(v[2][CHOOSE x \in DOMAIN v[2] : Denotation(x) = k])])
    [] Class(v) = "enum" -> Enumerated({Denotation(x) : x \in v[2]})
    [] Class(v) = "interval" -> Enumerated({Int1(n) : n \in v[2]..v[3]})
    [] Class(v) = "inf" -> v
    [] Class(v) = "filter" -> Enumerated({x \in DenotedSet(v[2]) : Holds(v[3], x)})
    [] Class(v) = "image" -> Enumerated({Denotation(Mapped(v[3], x)) : x \in DenotedSet(v[2])})
    [] Class(v) = "subsets" ->
         Enumerated({Enumerated(X) : X \in SUBSET ToSet(Denotations(v[2]))})
    [] Class(v) = "maps" ->
         Enumerated({Map(f) : f \in [ToSet(Denotations(v[2])) -> ToSet(Denotations(v[3]))]})
    [] Class(v) = "tuples" ->
         Enumerated({Tuple(s) : s \in
           {t \in [DOMAIN v[2] -> UNION {ToSet(Denotations(v[2][i])) : i \in DOMAIN v[2]}] :
              \A i \in DOMAIN v[2] : t[i] \in ToSet(Denotations(v[2][i]))}})

RECURSIVE Denotes(_, _)
Denotes(v, e) ==
  CASE Class(v) = "inf" -> Class(e) = "int" /\ (v[2] \/ e[2] >= 0)
    [] Class(v) = "filter" -> Denotes(v[2], e) /\ Holds(v[3], Denotation(e))
    [] OTHER -> Denotation(e) \in DenotedSet(v)

----------------------------------------------------------------------------
\* Whether the elements can be listed at all, and how many there are as far as
\* _cardinality tells without listing them.
RECURSIVE Enumerable(_)
Enumerable(v) ==
  CASE Class(v) = "inf" -> FALSE
    [] Class(v) \in {"filter", "image"} -> Enumerable(v[2])
    [] OTHER -> TRUE

Unknown == -1
Infinite == 1000000

\* _size of the All-sets: from the tuples of elements, as they are.
Size(v) ==
  CASE v[1] = "subsets" -> 2 ^ Len(v[2])
    [] v[1] = "maps" -> IF v[2] = <<>> THEN 1 ELSE Len(v[3]) ^ Len(v[2])
    [] v[1] = "tuples" -> FoldLeft(LAMBDA n, dim : n * Len(dim), 1, v[2])

\* A set in the order of its fingerprints: some fixed order.
Listed(S) == FoldSet(LAMBDA x, s : Append(s, x), <<>>, S)

\* Digits of an index, least significant first: product() and draw() number
\* the combinations of the dimensions.
Digit(dims, i, index) ==
  (index \div FoldLeft(LAMBDA n, d : n * d, 1, SubSeq(dims, 1, i - 1))) % dims[i]
Combination(dims, index) ==
  [i \in DOMAIN dims |->
     dims[i][1 + Digit([j \in DOMAIN dims |-> Len(dims[j])], i, index)]]

MapOf(keys, combo) ==
  Map([k \in ToSet(keys) |-> combo[Max({i \in DOMAIN keys : keys[i] = k})]])

\* What the index-th element of an All-set is.
Nth(v, index) ==
  CASE Class(v) = "subsets" ->
         Set1({v[2][i] : i \in {j \in DOMAIN v[2] : (index \div 2 ^ (j - 1)) % 2 = 1}})
    [] Class(v) = "maps" ->
         MapOf(v[2], Combination([i \in DOMAIN v[2] |-> v[3]], index))
    [] Class(v) = "tuples" -> Tuple(Combination(v[2], index))

----------------------------------------------------------------------------
(* The classes, by method: iter is what a loop over the set goes through,   *)
(* repetitions included; len is _cardinality; materialize gives Failed when *)
(* an All-set is too large, at any depth of sets (the components of tuples  *)
(* and maps stay as they are); hash stands for what hash-based containers   *)
(* take for one value; contains is asked of an element that InNode has      *)
(* materialized; eq answers "yes", "no" or "failed", when a set cannot be   *)
(* materialized; fingerprint is the bag of what the loop over the set       *)
(* mixes, with no two values mixed into one.                                *)

Failed == <<"failed">>
Answer(b) == IF b THEN "yes" ELSE "no"
Keys(S) == {Key(x) : x \in S}
\* == of two elements: of sets as below, of the rest as their keys.
Same(x, y) == IF IsSet(x) /\ IsSet(y) THEN Equal(x, y) = "yes" ELSE Key(x) = Key(y)
Mixed(elems) ==
  <<"set", FoldLeft(LAMBDA b, x : b (+) SetToBag({Fingerprint(x)}), EmptyBag, elems)>>

Cardinality1(v) ==
  CASE Class(v) = "enum" -> Cardinality(v[2])
    [] Class(v) = "interval" -> Max({0, v[3] - v[2] + 1})
    [] Class(v) = "inf" -> Infinite
    [] Class(v) = "filter" -> IF v[4] THEN Len(Iteration(v)) ELSE Unknown
    [] Class(v) = "image" -> Unknown
    [] OTHER -> Size(v)

\* AbstractSetValue.__eq__: cardinalities, then members, then materialization.
SetsEqual(v, w) ==
  LET cv == Cardinality1(v)
      cw == Cardinality1(w)
      known == cv # Unknown /\ cw # Unknown
      mv == Materialized(v)
      mw == Materialized(w)
  IN CASE known /\ cv # cw -> "no"
       [] known /\ Class(v) = "enum" -> Answer(\A e \in v[2] : In(w, e))
       [] known /\ Class(v) # "enum" /\ Class(w) = "enum" ->
            Answer(\A e \in w[2] : In(v, e))
       [] OTHER -> IF Failed \in {mv, mw} THEN "failed" ELSE Answer(Keys(mv[2]) = Keys(mw[2]))
AbstractSet(method, v, w) ==
  CASE method = "materialize" ->
         LET elems == {Materialized(x) : x \in ToSet(Iteration(v))}
         IN IF ~Enumerable(v) \/ Failed \in elems THEN Failed ELSE Enumerated(elems)
    [] method = "hash" -> Enumerated(Keys(Materialized(v)[2]))
    [] method = "eq" -> SetsEqual(v, w)
    [] method = "fingerprint" -> Mixed(Iteration(v))

EnumeratedSet(method, v, w) ==
  CASE method = "iter" -> Listed(v[2])
    [] method = "materialize" -> v
    [] method = "contains" -> Key(w) \in Keys(v[2])
    [] method = "eq" /\ Class(w) = "enum" -> Answer(Key(v) = Key(w))
    [] OTHER -> Ask("abstract", method, v, w)
IntervalSet(method, v, w) ==
  CASE method = "iter" -> [i \in 1..Cardinality1(v) |-> Int1(v[2] + i - 1)]
    [] method = "contains" -> Class(w) = "int" /\ v[2] <= w[2] /\ w[2] <= v[3]
    [] method = "eq" /\ Class(w) = "interval" -> Answer(v = w)
    [] OTHER -> Ask("abstract", method, v, w)
InfIntSet(method, v, w) ==
  CASE method = "materialize" -> Failed
    [] method = "contains" -> Class(w) = "int" /\ (v[2] \/ w[2] >= 0)
    [] method = "eq" -> Answer(v = w)
    [] method \in {"hash", "fingerprint"} -> v
SetFilter(method, v, w) ==
  CASE method = "iter" -> SelectSeq(Iteration(v[2]), LAMBDA x : Holds(v[3], x))
    [] method = "contains" -> In(v[2], w) /\ Holds(v[3], w)
    [] OTHER -> Ask("abstract", method, v, w)
SetMap(method, v, w) ==
  CASE method = "iter" ->
         LET elems == Iteration(v[2]) IN [i \in DOMAIN elems |-> Mapped(v[3], elems[i])]
    [] method = "contains" -> \E x \in ToSet(Iteration(v[2])) : Same(Mapped(v[3], x), w)
    [] method = "fingerprint" -> Fingerprint(Materialized(v))
    [] OTHER -> Ask("abstract", method, v, w)

\* The All-sets: __hash__ is made of their elements and differs from that of the
\* set they stand for; a fingerprint they have none.
LazySet(method, v, w) ==
  CASE method = "iter" -> [i \in 1..Size(v) |-> Nth(v, i - 1)]
    [] method = "materialize" -> IF Size(v) > MaterializationBound THEN Failed
                                 ELSE Set1(ToSet(Iteration(v)))
    [] method = "eq" /\ Class(v) = Class(w) -> Answer(Key(v) = Key(w))
    [] method = "fingerprint" -> Failed
    [] OTHER -> Ask("abstract", method, v, w)
AllSubsetsSet(method, v, w) ==
  CASE method = "contains" ->
         IsSet(w) /\ \A x \in ToSet(Iteration(w)) : Key(x) \in Keys(ToSet(v[2]))
    [] method = "hash" -> AllSubsets(Keys(ToSet(v[2])))
    [] OTHER -> Ask("lazy", method, v, w)
\* Mutant of AllMapsSet: a map over some other keys is a member.
AllMapsSetAnyKeys(method, v, w) ==
  CASE method = "iter" /\ v[2] = <<>> -> <<Map(<<>>)>>
    [] method = "contains" ->
         Class(w) = "map" /\ \A k \in DOMAIN w[2] : Key(w[2][k]) \in Keys(ToSet(v[3]))
    [] method = "hash" -> AllMaps(Keys(ToSet(v[2])), Keys(ToSet(v[3])))
    [] OTHER -> Ask("lazy", method, v, w)
AllMapsSet(method, v, w) ==
  CASE method = "iter" /\ v[2] = <<>> -> <<Map(<<>>)>>
    [] method = "contains" ->
         /\ Class(w) = "map"
         /\ Keys(DOMAIN w[2]) = Keys(ToSet(v[2]))
         /\ \A k \in DOMAIN w[2] : Key(w[2][k]) \in Keys(ToSet(v[3]))
    [] method = "hash" -> AllMaps(Keys(ToSet(v[2])), Keys(ToSet(v[3])))
    [] OTHER -> Ask("lazy", method, v, w)
AllTuplesSet(method, v, w) ==
  CASE method = "iter" /\ v[2] = <<>> -> <<>>
    [] method = "contains" ->
         /\ Class(w) = "tuple"
         /\ Len(w[2]) = Len(v[2])
         /\ \A i \in DOMAIN v[2] : \E x \in ToSet(v[2][i]) : Same(x, w[2][i])
    [] method = "hash" -> AllTuples([i \in DOMAIN v[2] |-> Keys(ToSet(v[2][i]))])
    [] OTHER -> Ask("lazy", method, v, w)

\* Integers, tuples and maps.
PlainValue(method, v) ==
  LET hash(x) == IF method = "hash" THEN Key(x) ELSE Fingerprint(x)
  IN CASE method = "materialize" \/ Class(v) = "int" -> v
       [] Class(v) = "tuple" -> Tuple([i \in DOMAIN v[2] |-> hash(v[2][i])])
       [] Class(v) = "map" -> Map([k \in {hash(x) : x \in DOMAIN v[2]} |->
                                     hash(v[2][CHOOSE x \in DOMAIN v[2] : hash(x) = k])])

Ask(class, method, v, w) ==
  CASE class = "abstract" -> AbstractSet(method, v, w)
    [] class = "enum" -> EnumeratedSet(method, v, w)
    [] class = "interval" -> IntervalSet(method, v, w)
    [] class = "inf" -> InfIntSet(method, v, w)
    [] class = "filter" -> SetFilter(method, v, w)
    [] class = "image" -> SetMap(method, v, w)
    [] class = "lazy" -> LazySet(method, v, w)
    [] class = "subsets" -> AllSubsetsSet(method, v, w)
    [] class = "maps" -> AllMapsSet(method, v, w)
    [] class = "tuples" -> AllTuplesSet(method, v, w)
    [] OTHER -> PlainValue(method, v)

----------------------------------------------------------------------------
(* The set operators of interpreter.py on values. *)

\* CARDINALITY: len() where the class has it, else the materialized set.
Failure == -1
Count(v) ==
  IF Class(v) = "filter" /\ Enumerable(v) THEN Len(Iteration(v))
  ELSE LET m == Materialized(v)
       IN IF m = Failed THEN Failure ELSE Cardinality(Keys(m[2]))

\* SUBSETEQ tests the elements as they are listed, not materialized.
SubsetEq(v, w) == \A x \in ToSet(Iteration(v)) : In(w, x)

\* UNION, INTERSECT and DIFFERENCE of materialized sets.
Algebra(op, v, w) ==
  LET mv == Materialized(v)
      mw == Materialized(w)
  IN CASE Failed \in {mv, mw} -> Failed
       [] op = "union" -> Enumerated(mv[2] \cup mw[2])
       [] op = "intersect" -> Enumerated({x \in mv[2] : Key(x) \in Keys(mw[2])})
       [] op = "difference" -> Enumerated({x \in mv[2] : Key(x) \notin Keys(mw[2])})

Flatten(v) ==
  LET inner == ToSet(Iteration(v))
      elems == {Materialized(x) : x \in UNION {ToSet(Iteration(s)) : s \in inner}}
  IN IF Failed \in elems THEN Failed ELSE Enumerated(elems)

----------------------------------------------------------------------------
\* UniformSamplingStrategy.draw with a bound: an All-set is drawn from by index,
\* the rest from the first elements.  The index is any in 0..Choices(v, bound) - 1;
\* none is a draw that raises.
Choices1(v, bound) ==
  CASE Class(v) = "inf" -> IF v[2] THEN 2 * bound - 1 ELSE bound
    [] Class(v) = "maps" /\ v[2] = <<>> -> 1
    [] Class(v) = "tuples" /\ v[2] = <<>> -> 0
    [] Class(v) \in Lazy -> Min({Size(v), bound})
    [] OTHER -> Min({Len(Iteration(v)), bound})

Drawn(v, bound, index) ==
  CASE Class(v) = "inf" -> Int1(IF v[2] THEN index - bound + 1 ELSE index)
    [] Class(v) = "maps" /\ v[2] = <<>> -> Map(<<>>)
    [] Class(v) \in Lazy -> Nth(v, index)
    [] OTHER -> Iteration(v)[index + 1]

Draws(v, bound) == {Drawn(v, bound, i) : i \in 0..(Choices1(v, bound) - 1)}

\* Mutant of UpperBound: the last element of a set of the size of the bound is lost.
UpperBoundOneLess(v, bound) ==
  IF Cardinality1(v) = Unknown THEN Min({Len(Iteration(v)), bound})
  ELSE Min({Cardinality1(v), bound - 1})
\* EnumerativeScheduler._one_of_upper_bound: how many indices the exhaustive
\* search tries; 0 when it raises.  The integers are drawn as if there were
\* bound of them.
UpperBound(v, bound) ==
  IF Cardinality1(v) = Unknown THEN Min({Len(Iteration(v)), bound})
  ELSE Min({Cardinality1(v), bound})
----------------------------------------------------------------------------
(***************************************************************************)
(* The laws.  Their assumptions name the values for which the code keeps   *)
(* them: nothing else is excluded.                                         *)
(***************************************************************************)

\* The loop over v repeats nothing.  An image may, and with it everything that
\* takes the elements of an image as they come.
Distinct(v) ==
  /\ Len(Iteration(v)) = Cardinality(Keys(ToSet(Iteration(v))))
  /\ Class(v) = "subsets" => Len(v[2]) = Cardinality(Keys(ToSet(v[2])))

\* No element is an All-set.
Settled(v) == \A x \in ToSet(Iteration(v)) : Class(x) \notin Lazy

\* What makes a set empty shows in several ways, which == of one class tells
\* apart.
Degenerate(v) ==
  CASE Class(v) = "interval" -> v[3] < v[2]
    [] Class(v) = "maps" -> <<>> \in {v[2], v[3]}
    [] Class(v) = "tuples" -> \E i \in DOMAIN v[2] : v[2][i] = <<>>
    [] OTHER -> FALSE

TooLarge(v) == Class(v) \in Lazy /\ Size(v) > MaterializationBound

MembershipLaw(v, e) ==
  Materialized(e) # Failed =>
    (In(v, Materialized(e)) <=> Denotes(v, e))

AlgebraLaw(v, w) ==
  /\ Settled(v) => (SubsetEq(v, w) <=> DenotedSet(v) \subseteq DenotedSet(w))
  /\ \A op \in {"union", "intersect", "difference"} :
       \E r \in {Algebra(op, v, w)}, x \in {DenotedSet(v)}, y \in {DenotedSet(w)} :
         r = Failed \/ DenotedSet(r) = CASE op = "union" -> x \cup y
                                         [] op = "intersect" -> x \cap y
                                         [] op = "difference" -> x \ y
  /\ TooLarge(v) => Algebra("union", v, w) = Failed

CountLaw(v) ==
  Distinct(v) => Count(v) \in {Cardinality(DenotedSet(v))}
                   \cup (IF Materialized(v) = Failed THEN {Failure} ELSE {})

FlattenLaw(v) ==
  (\A x \in ToSet(Iteration(v)) : IsSet(x)) =>
    Flatten(v) \in {Enumerated(UNION {x[2] : x \in DenotedSet(v)}), Failed}

EqualityLaw(v, w) ==
  \/ \E x \in {v, w} : Class(x) # "inf" /\ ~Enumerable(x)
  \/ Class(v) = Class(w) /\ Degenerate(v) /\ Degenerate(w)
  \/ Enumerable(v) /\ Enumerable(w) /\ ~(Distinct(v) /\ Distinct(w))
  \/ Equal(v, w) = "failed" /\ Failed \in {Materialized(v), Materialized(w)}
  \/ Equal(v, w) = Answer(Denotation(v) = Denotation(w))

\* The model checker takes two states for one when their fingerprints agree.
FingerprintLaw(v, w) ==
  \/ \E x \in {v, w} : Class(x) \in Lazy \/ ~Enumerable(x) \/ ~Settled(x) \/ ~Distinct(x)
  \/ (Fingerprint(v) = Fingerprint(w)) <=> (Denotation(v) = Denotation(w))

\* A draw is a member.  With room for all of them every member is drawn, by
\* index in the exhaustive search as well, and only the empty set refuses.
DrawLaw(v, bound) ==
  LET exhaustive == {Drawn(v, UpperBound(v, bound), i) : i \in 0..(UpperBound(v, bound) - 1)}
  IN /\ \A e \in Draws(v, bound) \cup exhaustive : Denotes(v, e)
     /\ Enumerable(v) =>
          /\ (Draws(v, bound) = {}) <=> (DenotedSet(v) = {})
          /\ Len(Iteration(v)) <= bound =>
               /\ DenotedSet(v) = {Denotation(e) : e \in Draws(v, bound)}
               /\ DenotedSet(v) = {Denotation(e) : e \in exhaustive}

=============================================================================

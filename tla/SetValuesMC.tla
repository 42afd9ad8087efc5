----------------------------- MODULE SetValuesMC -----------------------------
(* Pairs of set values: the plain ones over {0, 1} and two more integers,   *)
(* what one lazy constructor makes of them, products of two, and what is    *)
(* made of images that repeat elements.                                     *)
EXTENDS SetValues

VARIABLES left, right

Predicates == {"any", "zero", "notZero"}
Mappers == {"same", "const", "wrap", "pair", "subsets"}
Plain ==
  {Enumerated(S) : S \in SUBSET {Int1(0), Int1(1)}}
  \cup {Interval(0, 1), Interval(1, 1), Interval(2, 0), InfInt(FALSE), InfInt(TRUE)}
Listable(B) == {b \in B : Enumerable(b)}
Derived(B) ==
  {Filter(b, p, FALSE) : b \in B, p \in Predicates}
  \cup {Filter(b, "zero", TRUE) : b \in Listable(B)}
  \cup {Image(b, m) : b \in Listable(B), m \in Mappers}
  \cup {AllSubsets(Iteration(b)) : b \in Listable(B)}
ProductsOf(B) ==
  UNION {{AllMaps(Iteration(a), Iteration(b)), AllTuples(<<Iteration(a), Iteration(b)>>)} :
           a, b \in Listable(B)}
Twice == Derived({Image(Interval(0, 1), m) : m \in {"const", "wrap", "same"}})
SetValuesChecked == Plain \cup Derived(Plain) \cup ProductsOf(Plain) \cup Twice

None == <<"none">>
Init == left \in SetValuesChecked /\ right = None
Meet == right = None /\ right' \in SetValuesChecked /\ UNCHANGED left

\* IN, SUBSETEQ, UNION, INTERSECT, DIFFERENCE, CARDINALITY and the flat union of
\* lazy values give what they give for the sets that the values stand for.
SetOperationsAgree ==
  IF right = None THEN Enumerable(left) => CountLaw(left) /\ FlattenLaw(left)
  ELSE Enumerable(right) =>
         /\ \A e \in {right} \cup ToSet(Iteration(right)) : MembershipLaw(left, e)
         /\ Enumerable(left) => AlgebraLaw(left, right)
\* == and the fingerprints of states tell two set values apart exactly when they
\* stand for two sets.
EqualSetsAreOneState ==
  right # None => EqualityLaw(left, right) /\ FingerprintLaw(left, right)
\* Draws by index stay in the set and, given room, reach each element of it: at
\* random as well as in the exhaustive search.
DrawsCoverTheSet ==
  right = None /\ (Enumerable(left) \/ Class(left) = "inf") =>
    \A bound \in {2, DrawBound} : DrawLaw(left, bound)
=============================================================================

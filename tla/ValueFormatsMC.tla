--------------------------- MODULE ValueFormatsMC ---------------------------
(* One sort of each kind and nested ones, and small values of each: names   *)
(* that the formats treat in special ways ("TRUE", tags that differ in      *)
(* their case, records that look like variants), functions on 1..n, empty   *)
(* collections and negative numbers.                                        *)
EXTENDS ValueFormats

VARIABLES left, right

Numbers == {IntOf(n) : n \in {-1, 0, 1}}
Bools == {BoolOf(FALSE), BoolOf(TRUE)}
Texts == {StrOf(s) : s \in {"a", "b c", "TRUE"}}
Members == {EnumOf(m) : m \in {"RED", "GREEN"}}
Sequences2(S) == {<<>>} \cup {<<x>> : x \in S} \cup (S \X S)
FunctionsFrom(S, T) == UNION {[D -> T] : D \in {E \in SUBSET S : Cardinality(E) <= 2}}

Pair == TupleSort(<<IntSort, BoolSort>>)
PairValues == {TupleWith(<<n, b>>) : n \in Numbers, b \in Bools}
Payloads == [ok |-> IntSort, Ok |-> BoolSort, None |-> NoPayload, Int |-> SetSort(IntSort),
             rec |-> RecordSort([a |-> IntSort]), wrap |-> RecordSort([value |-> IntSort])]
PayloadValues(tag) ==
  CASE tag = "ok" -> Numbers
    [] tag = "Ok" -> Bools
    [] tag = "None" -> {NoPayload}
    [] tag = "Int" -> {SetOf({}), SetOf(Numbers)}
    [] tag = "rec" -> {RecordOf([a |-> IntOf(1)])}
    [] tag = "wrap" -> {RecordOf([value |-> IntOf(1)])}
Variants == UNION {{UnionOf(tag, p) : p \in PayloadValues(tag)} : tag \in DOMAIN Payloads}

\* Sorts with the values that are taken of them.
Samples == {
  <<BoolSort, Bools>>, <<IntSort, Numbers>>, <<StrSort, Texts>>, <<EnumSort({"RED", "GREEN"}), Members>>,
  <<SetSort(IntSort), {SetOf(S) : S \in SUBSET Numbers}>>,
  <<SetSort(SetSort(IntSort)), {SetOf(S) : S \in SUBSET {SetOf({}), SetOf({IntOf(0)})}}>>,
  <<ListSort(StrSort), {ListOf(s) : s \in Sequences2(Texts)}>>,
  <<ListSort(ListSort(IntSort)), {ListOf(s) : s \in Sequences2({ListOf(<<>>), ListOf(<<IntOf(1)>>)})}>>,
  <<Pair, PairValues>>,
  <<MapSort(IntSort, BoolSort), {MapOf(f) : f \in FunctionsFrom({IntOf(n) : n \in 0..2}, Bools)}>>,
  <<MapSort(StrSort, IntSort), {MapOf(f) : f \in FunctionsFrom(Texts, {IntOf(0), IntOf(1)})}>>,
  <<MapSort(EnumSort({"RED", "GREEN"}), SetSort(IntSort)),
    {MapOf(f) : f \in FunctionsFrom(Members, {SetOf({}), SetOf({IntOf(0)})})}>>,
  <<MapSort(Pair, StrSort), {MapOf(f) : f \in FunctionsFrom({TupleWith(<<IntOf(0), b>>) : b \in Bools}, Texts)}>>,
  <<RecordSort([a |-> IntSort, TRUE |-> BoolSort]),
    {RecordOf([a |-> n, TRUE |-> b]) : n \in Numbers, b \in Bools}>>,
  <<RecordSort([value |-> IntSort]), {RecordOf([value |-> n]) : n \in Numbers}>>,
  <<RecordSort([tag |-> StrSort, value |-> IntSort]),
    {RecordOf([tag |-> s, value |-> IntOf(1)]) : s \in Texts}>>,
  <<UnionSort(Payloads), Variants>>,
  <<SetSort(UnionSort(Payloads)), {SetOf({u, w}) : u, w \in Variants}>>}

None == <<"none">>
Init == left \in Samples /\ right = None
Take == right = None /\ right' \in left[2] /\ UNCHANGED left

\* The values that a value is made of.
RECURSIVE Parts(_)
Parts(v) ==
  {v} \cup CASE Class(v) \in {"record", "tuple", "list"} -> UNION {Parts(x) : x \in Values(v[2])}
             [] Class(v) = "set" -> UNION {Parts(x) : x \in v[2]}
             [] Class(v) = "map" -> UNION {Parts(x) : x \in DOMAIN v[2] \cup Values(v[2])}
             [] Class(v) = "union" /\ v[3] # NoPayload -> Parts(v[3])
             [] OTHER -> {}

\* itf_py takes a record of a tag and a value for a variant, and a variant that holds
\* a record of one field `value` for one that holds the field.
LooksLikeVariant(v) ==
  \E p \in Parts(v) :
    \/ Class(p) = "record" /\ DOMAIN p[2] = {"tag", "value"}
    \/ Class(p) = "union" /\ Class(p[3]) = "record" /\ DOMAIN p[3][2] = {"value"}
\* TLC prints a function on names as a record, also when a name is a keyword.
PrintsKeyword(tokens) ==
  \E i \in DOMAIN tokens : i > 1 /\ tokens[i] = Sym("|->")
                           /\ tokens[i - 1] \in {Name("TRUE"), Name("FALSE")}
\* Python has no sort for an empty collection inside another, no mark on what was a
\* variant, and one class for tuples and lists.
KeepsItsClass(v) ==
  \A p \in Parts(v) :
    /\ Class(p) \notin {"list", "union"}
    /\ Class(p) = "set" => Failures({SortOf(x) : x \in p[2]}) = {}
    /\ Class(p) = "map" => Failures({SortOf(x) : x \in DOMAIN p[2] \cup Values(p[2])}) = {}

\* A value that is written to a schedule, printed by TLC or Apalache, or handed to
\* Python is the same value when it is read back, and so are the traces that it is in.
ReadsBack(v, w, sort) ==
  LET sorts == [x |-> sort, y |-> sort]
      states == <<[x |-> v, y |-> w], [x |-> w, y |-> v]>>
      printed == [x |-> Printed(TlaOf(v, sort)), y |-> Printed(TlaOf(w, sort))]
      traces == <<<<printed>>, <<printed, [x |-> printed.y, y |-> printed.x]>>>>
  IN /\ ~LooksLikeVariant(v) => Sampled(DecisionJson(v), sort) = v
     /\ KeepsItsClass(v) => FromPython(ToPython(v)) = v
     /\ ReadItfState([x |-> ApalacheJson(v, sort), y |-> ApalacheJson(w, sort), z |-> Unit], sorts) = states[1]
     /\ ~PrintsKeyword(printed.x) /\ ~PrintsKeyword(printed.y) =>
          \A folded \in BOOLEAN :
            ParseTlcTraces(TlcOutput(traces, folded), sorts) = <<<<states[1]>>, states>>
ValuesReadBack ==
  right # None => ReadsBack(right, CHOOSE w \in left[2] : TRUE, left[1])

\* Two values of a sort have one fingerprint, one text and one Python object exactly
\* when they are equal.
EqualValuesAreOneState ==
  right # None =>
    \A w \in left[2] :
      LET same == Same(right, w)
      IN /\ same <=> right = w
         /\ same <=> Fingerprint(right) = Fingerprint(w)
         /\ same <=> Text(right) = Text(w)
         /\ same <=> ToPython(right) = ToPython(w)
         /\ same <=> StateText(0, StateView([x |-> right], [x |-> w, y |-> right]))
                     = StateText(0, StateView([x |-> w], [x |-> right, y |-> w]))
=============================================================================

------------------------------- MODULE ExprApi -------------------------------
(***************************************************************************)
(* What a script writes: the methods of wunderspec/expr.py and the         *)
(* functions of wunderspec/lang.py.  Each checks the sorts of its          *)
(* arguments and gives a node of Expressions, or Rejected.                 *)
(*                                                                         *)
(* An argument is a node or Py(v), a Python literal.  A method with a      *)
(* callback is two operators: what the callback is called with, as in      *)
(* ParamOf(x, id), and the method, which takes the result as `body`.  id   *)
(* names the call, so that no two calls of fresh_name give one name.       *)
(* Every callback calls its parameter "x": what calls must not mix up.     *)
(***************************************************************************)
EXTENDS Expressions

Py(v) == <<"py", v>>
IsPy(x) == Op(x) = "py"
PyInt(n) == Py(<<"int", n>>)

CoerceInt(x) ==
  CASE IsPy(x) /\ x[2][1] \in {"int", "bool"} -> Lit(x[2])
    [] ~IsPy(x) /\ Sort(x) = IntSort -> x
    [] OTHER -> Rejected
CoerceBool(x) ==
  CASE IsPy(x) /\ x[2][1] = "bool" -> Lit(x[2])
    [] ~IsPy(x) /\ Sort(x) = BoolSort -> x
    [] OTHER -> Rejected
\* coerce_expr with and without a sort.
CoerceTo(x, sort) ==
  CASE IsPy(x) /\ <<x[2][1]>> = sort -> Lit(x[2])
    [] ~IsPy(x) /\ Sort(x) = sort -> x
    [] OTHER -> Rejected
Coerce(x) == IF IsPy(x) THEN Lit(x[2]) ELSE x

Accepted(e) == e # Rejected
\* The result of a callback that has to be an expression: of a literal Python takes
\* .node and raises AttributeError.
Returned(body) == IF IsPy(body) THEN Rejected ELSE body
\* Python calls the method of the right operand when the left one is a literal:
\* the reflected methods put the operands back in order.
OnSort(x, kinds, result) == IF ~IsPy(x) /\ Sort(x)[1] \in kinds THEN result ELSE Rejected

----------------------------------------------------------------------------
(* Variables of callbacks. *)
PlainKey(name) == <<name>>
\* Mutant of FreshVar: the name of the callback's parameter, not made unique.
FreshVarNotUnique(id, sort) == Var("x", <<"x", 0>>, sort)
FreshVar(id, sort) == Var("x", <<"x", id>>, sort)
\* match() and the parameters of @expr(inline=False) are known by their name only.
PlainVar(name, sort) == Var(name, PlainKey(name), sort)

----------------------------------------------------------------------------
(* Operators and methods of Expr, by the sort of what they are called on. *)

Compare(op, x, y) ==
  IF IsPy(x) THEN Algebra(BoolSort, op, <<y, CoerceTo(x, Sort(y))>>)
  ELSE Algebra(BoolSort, op, <<x, CoerceTo(y, Sort(x))>>)
IsEmpty(x) ==
  CASE IsPy(x) -> Rejected
    [] SortIs(x, "set") -> Algebra(BoolSort, "eq", <<x, SetEnum(Elem(x), <<>>)>>)
    [] SortIs(x, "map") -> Algebra(BoolSort, "eq", <<MapKeys(x), SetEnum(Elem(x), <<>>)>>)
    [] SortIs(x, "list") -> Algebra(BoolSort, "eq", <<x, ListEnum(Elem(x), <<>>)>>)
    [] OTHER -> Rejected
\* Mutant of InMethod: the sorts are not checked.
InMethodUnchecked(x, set) == IF ~IsPy(x) /\ ~IsPy(set) THEN In(x, set) ELSE Rejected
InMethod(x, set) ==
  IF ~IsPy(x) /\ ~IsPy(set) /\ Sort(set) = SetSort(Sort(x)) THEN In(x, set) ELSE Rejected
ElseBranch(cond, then, other) == Ite(cond, then, CoerceTo(other, Sort(then)))
IfElse(x, cond, other) ==
  IF IsPy(x) THEN Rejected ELSE ElseBranch(CoerceTo(cond, BoolSort), x, other)
Upto(x, y) == OnSort(x, {"int"}, Interval(x, CoerceInt(y)))

\* IntExpr: the right operand may be a literal.
IntBinary(op, x, y) == Algebra(IntSort, op, <<x, CoerceInt(y)>>)
IntOrder(op, x, y) == OnSort(x, {"int"}, Algebra(BoolSort, op, <<x, CoerceInt(y)>>))
\* int with int or a literal on either side
Arith(op, x, y) ==
  IF IsPy(x) THEN OnSort(y, {"int"}, IntBinary(op, CoerceInt(x), y))
  ELSE OnSort(x, {"int"}, IntBinary(op, x, y))
SameSets(x, y) == ~IsPy(x) /\ ~IsPy(y) /\ SortIs(x, "set") /\ Sort(x) = Sort(y)
SetAlgebra(op, x, y) == IF SameSets(x, y) THEN Algebra(Sort(x), op, <<x, y>>) ELSE Rejected
Concat(x, y) ==
  IF ~IsPy(x) /\ ~IsPy(y) /\ SortIs(x, "list") /\ Sort(x) = Sort(y)
  THEN Algebra(Sort(x), "concat", <<x, y>>) ELSE Rejected
Plus(x, y) ==
  IF SortIs(IF IsPy(x) THEN y ELSE x, "list") THEN Concat(x, y) ELSE Arith("add", x, y)
Minus(x, y) ==
  IF SortIs(IF IsPy(x) THEN y ELSE x, "set") THEN SetAlgebra("difference", x, y)
  ELSE Arith("sub", x, y)
Negative(x) == OnSort(x, {"int"}, Algebra(IntSort, "neg", <<x>>))

IsSubset(x, y) == IF SameSets(x, y) THEN Algebra(BoolSort, "subseteq", <<x, y>>) ELSE Rejected
\* and_ and or_ of Booleans put their operands next to those of the left one.
Flattened(op, x, y) ==
  Algebra(BoolSort, op, (IF Op(x) = op THEN Args(x) ELSE <<x>>) \o <<CoerceBool(y)>>)
NotBool(x) == OnSort(x, {"bool"}, Algebra(BoolSort, "not", <<x>>))
Swapped == [lt |-> "gt", gt |-> "lt", le |-> "ge", ge |-> "le"]
Order(op, x, y) ==
  LET strict(small, large) ==
        IF IsSubset(small, large) = Rejected THEN Rejected
        ELSE Flattened("and", IsSubset(small, large), NotBool(Compare("eq", x, y)))
  IN CASE IsPy(x) -> IntOrder(Swapped[op], y, x)
       [] ~SortIs(x, "set") -> IntOrder(op, x, y)
       [] op = "le" -> IsSubset(x, y)
       [] op = "ge" -> IsSubset(y, x)
       [] op = "lt" -> strict(x, y)
       [] op = "gt" -> strict(y, x)

\* The operators & and | : of temporal formulas both operands must be temporal.
BoolJunction(op, x, y) == Algebra(BoolSort, op, <<x, CoerceBool(y)>>)
TemporalJunction(op, x, y) ==
  IF SortIs(y, "temporal") THEN Algebra(TemporalSort, op, <<x, y>>) ELSE Rejected
Junction(op, x, y) ==
  CASE IsPy(x) -> OnSort(y, {"bool"}, BoolJunction(op, CoerceBool(x), y))
    [] SortIs(x, "bool") -> BoolJunction(op, x, y)
    [] SortIs(x, "set") -> SetAlgebra(IF op = "and" THEN "intersect" ELSE "union", x, y)
    [] SortIs(x, "temporal") -> TemporalJunction(op, x, y)
    [] OTHER -> Rejected
Lift(x) ==
  CASE IsPy(x) -> IF x[2][1] = "bool" THEN ToTemporal(Lit(x[2])) ELSE Rejected
    [] SortIs(x, "temporal") -> x
    [] SortIs(x, "bool") -> ToTemporal(x)
    [] OTHER -> Rejected
Lifted(op, x, y) == Algebra(TemporalSort, op, <<Lift(x), Lift(y)>>)
\* The methods and_ and or_ lift.
JunctionMethod(op, x, y) ==
  CASE IsPy(x) -> Rejected
    [] SortIs(x, "bool") -> Flattened(op, x, y)
    [] SortIs(x, "temporal") -> Lifted(op, x, y)
    [] OTHER -> Rejected
Invert(x) ==
  CASE IsPy(x) -> Rejected
    [] SortIs(x, "temporal") -> Algebra(TemporalSort, "not", <<x>>)
    [] OTHER -> NotBool(x)
BoolImplies(x, y) == Algebra(BoolSort, "implies", <<x, CoerceBool(y)>>)
ImpliesMethod(x, y) ==
  CASE IsPy(x) -> Rejected
    [] SortIs(x, "bool") -> BoolImplies(x, y)
    [] SortIs(x, "temporal") -> Lifted("implies", x, y)
    [] OTHER -> Rejected

\* Access by key.  What a key of a map that is no Expr is coerced to does not
\* depend on the map.
ItemOfTuple(x, index) ==
  IF Op(index) = "lit" /\ Sort(index) = IntSort THEN TupleGet(x, Label(index)[2]) ELSE Rejected
FieldOfRecord(x, name) == RecordGet(x, name)
ItemOfList(x, index) == ListGet(x, CoerceInt(index))
ItemOfMap(x, key) == MapGet(x, key)
GetItem(x, key) ==
  CASE IsPy(x) -> Rejected
    [] SortIs(x, "map") -> ItemOfMap(x, Coerce(key))
    [] SortIs(x, "tuple") -> ItemOfTuple(x, Coerce(key))
    [] SortIs(x, "record") ->
         IF IsPy(key) /\ key[2][1] = "str" THEN FieldOfRecord(x, key[2][2]) ELSE Rejected
    [] SortIs(x, "list") ->
         IF IsPy(key) /\ key[2][1] # "int" THEN Rejected ELSE ItemOfList(x, key)
    [] OTHER -> Rejected
SizeOfList(x) == Algebra(IntSort, "size", <<x>>)
Slice(x, start, end) ==
  OnSort(x, {"list"},
         ListSlice(x, IF start = <<>> THEN Lit(<<"int", 0>>) ELSE CoerceInt(start[1]),
                   IF end = <<>> THEN SizeOfList(x) ELSE CoerceInt(end[1])))
ReplaceInMap(x, key, val) == MapSet(x, key, CoerceTo(val, Sort(x)[3]), TRUE)
ReplaceInTuple(x, index, val) ==
  IF HasIndex(x, index) THEN TupleUpdate(x, index, CoerceTo(val, Elem(x)[index + 1])) ELSE Rejected
ReplaceInRecord(x, name, val) ==
  IF HasField(x, name) THEN RecordUpdate(x, name, CoerceTo(val, Elem(x)[name])) ELSE Rejected
ReplaceInList(x, index, val) == ListUpdate(x, CoerceInt(index), CoerceTo(val, Elem(x)))
Replace(x, key, val) ==
  CASE IsPy(x) -> Rejected
    [] SortIs(x, "map") -> ReplaceInMap(x, Coerce(key), val)
    [] SortIs(x, "tuple") ->
         IF IsPy(key) /\ key[2][1] = "int" THEN ReplaceInTuple(x, key[2][2], val) ELSE Rejected
    [] SortIs(x, "record") ->
         IF IsPy(key) /\ key[2][1] = "str" THEN ReplaceInRecord(x, key[2][2], val) ELSE Rejected
    [] SortIs(x, "list") ->
         IF IsPy(key) /\ key[2][1] = "str" THEN Rejected ELSE ReplaceInList(x, key, val)
    [] OTHER -> Rejected
ContainsMethod(x, elem) == OnSort(x, {"set"}, In(CoerceTo(elem, Elem(x)), x))
Insert(x, key, val) ==
  OnSort(x, {"map"}, MapSet(x, CoerceTo(key, Elem(x)), CoerceTo(val, Sort(x)[3]), FALSE))
SizeOfMap(x) == Algebra(IntSort, "cardinality", <<MapKeys(x)>>)
SizeOf(x) ==
  CASE IsPy(x) -> Rejected
    [] SortIs(x, "set") -> Algebra(IntSort, "cardinality", <<x>>)
    [] SortIs(x, "list") -> SizeOfList(x)
    [] SortIs(x, "map") -> SizeOfMap(x)
    [] OTHER -> Rejected
Flattened1(x) ==
  OnSort(x, {"set"}, IF Elem(x)[1] = "set" THEN Algebra(Elem(x), "flatten", <<x>>) ELSE Rejected)
KeysOf(x) ==
  CASE IsPy(x) -> Rejected
    [] SortIs(x, "map") -> MapKeys(x)
    [] SortIs(x, "list") -> ListKeys(x)
    [] OTHER -> Rejected
TagOf(x) == OnSort(x, {"union"}, UnionGetTag(x))

----------------------------------------------------------------------------
(* Methods with callbacks. *)

\* What a callback of one parameter is called with: a list is quantified over by
\* its keys.
ParamOf(x, id) == FreshVar(id, Elem(x))
DomainOf(x) == IF SortIs(x, "list") THEN ListKeys(x) ELSE x
ElementAt(x, v) == IF SortIs(x, "list") THEN ListGet(x, v) ELSE v
QuantParamOf(x, id) == ElementAt(x, ParamOf(DomainOf(x), id))

FilterSet(x, id, body) == SetFilter(<<Label(ParamOf(x, id))>>, <<x>>, Returned(body))
FilterList(x, id, body) == ListFilter(x, Label(ParamOf(x, id)), Returned(body))
Filter(x, id, body) ==
  CASE IsPy(x) -> Rejected
    [] SortIs(x, "set") -> FilterSet(x, id, body)
    [] SortIs(x, "list") -> FilterList(x, id, body)
    [] OTHER -> Rejected
MapMethod(x, id, body) ==
  OnSort(x, {"set"}, SetMap(<<Label(ParamOf(x, id))>>, <<x>>, Returned(body)))
MapTo(x, id, body) == OnSort(x, {"set"}, MapLambda(x, ParamOf(x, id), Coerce(body)))
Values(x, id) ==
  LET keys == MapKeys(x) IN OnSort(x, {"map"}, MapMethod(keys, id, MapGet(x, ParamOf(keys, id))))
Items(x, id) ==
  LET keys == MapKeys(x)
      k == ParamOf(keys, id)
  IN OnSort(x, {"map"}, MapMethod(keys, id, TupleCtor(<<k, MapGet(x, k)>>)))
\* The node is Boolean for a temporal predicate as well.
QuantifySet(quant, x, id, body) ==
  IF Sort(Returned(body)) \in {BoolSort, TemporalSort}
  THEN SetQuant(quant, BoolSort, <<Label(ParamOf(x, id))>>, <<x>>, body) ELSE Rejected
QuantifyList(quant, x, id, body) == QuantifySet(quant, ListKeys(x), id, body)
QuantifyMethod(quant, x, id, body) ==
  CASE IsPy(x) -> Rejected
    [] SortIs(x, "set") -> QuantifySet(quant, x, id, body)
    [] SortIs(x, "list") -> QuantifyList(quant, x, id, body)
    [] OTHER -> Rejected
ChooseMethod(x, id, body) == OnSort(x, {"set"}, Choose(x, Label(ParamOf(x, id)), Returned(body)))
\* A reducer takes the accumulator and the element, that of a map the
\* accumulator, the key and the value.
ReducerParams(x, id, initial) == <<FreshVar(<<id, "acc">>, Sort(Coerce(initial))), ParamOf(x, id)>>
MapReducerParams(x, id, initial) ==
  LET ps == ReducerParams(MapKeys(x), id, initial) IN Append(ps, MapGet(x, ps[2]))
ReducerNames(x, id, initial) ==
  LET ps == ReducerParams(x, id, initial) IN <<Label(ps[1]), Label(ps[2])>>
ReduceOverSet(x, id, body, initial) ==
  SetReduce(x, ReducerNames(x, id, initial), Returned(body), Coerce(initial))
ReduceOverList(x, id, body, initial) ==
  ListReduce(x, ReducerNames(x, id, initial), Returned(body), Coerce(initial))
Reduce(x, id, body, initial) ==
  CASE IsPy(x) -> Rejected
    [] SortIs(x, "set") -> ReduceOverSet(x, id, body, initial)
    [] SortIs(x, "list") -> ReduceOverList(x, id, body, initial)
    [] OTHER -> Rejected
MapReduce(x, id, body, initial) == OnSort(x, {"map"}, Reduce(MapKeys(x), id, body, initial))
\* bodies: of the tags that have a callback; default: <<>> or the body of the rest.
CaseParams(x, t, name) ==
  IF Elem(x)[t] = NoPayload THEN <<>> ELSE <<PlainVar(name, Elem(x)[t])>>
\* The tags that the default stands for; every other one needs a case.
DefaultTags(x, bodies) == DOMAIN Elem(x) \ DOMAIN bodies
DefaultCases(x, bodies, default) ==
  [t \in DefaultTags(x, bodies) |-> [vars |-> CaseParams(x, t, "_"), body |-> Coerce(default[1])]]
Cases(x, bodies) ==
  [t \in DOMAIN bodies |-> [vars |-> CaseParams(x, t, "x"), body |-> Coerce(bodies[t])]]
Match(x, bodies, default) ==
  OnSort(x, {"union"},
         IF /\ DOMAIN bodies \subseteq DOMAIN Elem(x)
            /\ DefaultTags(x, bodies) = {} \/ default # <<>>
         THEN UnionMatch(x, Cases(x, bodies) @@ DefaultCases(x, bodies, default)) ELSE Rejected)

----------------------------------------------------------------------------
(* lang.py *)

SortOfAll(args) == Sort(Coerce(args[1]))
Coerced(args) == [i \in DOMAIN args |-> Coerce(args[i])]
SetOf(args) == SetEnum(SortOfAll(args), Coerced(args))
ListOf(args) == ListEnum(SortOfAll(args), Coerced(args))
EmptySet(sort) == SetEnum(sort, <<>>)
EmptyList(sort) == ListEnum(sort, <<>>)
IntervalOf(lower, upper) == Interval(CoerceInt(lower), CoerceInt(upper))
RangeOf(lower, upper) == ListRange(CoerceInt(lower), CoerceInt(upper))
Record(fields, args) == RecordCtor(fields, Coerced(args))
Tuple(args) == TupleCtor(Coerced(args))
MapOf(args) == MapEnum(SortOfAll(args), Sort(Coerce(args[2])), Coerced(args))
And(args) == Algebra(BoolSort, "and", [i \in DOMAIN args |-> CoerceBool(args[i])])
Or(args) == Algebra(BoolSort, "or", [i \in DOMAIN args |-> CoerceBool(args[i])])
Implies(x, y) == Algebra(BoolSort, "implies", <<CoerceBool(x), CoerceBool(y)>>)
AndT(args) == Algebra(TemporalSort, "and", [i \in DOMAIN args |-> Lift(args[i])])
AlwaysOf(x) ==
  IF ~IsPy(x) /\ Sort(x) \in {BoolSort, TemporalSort} THEN Always(x) ELSE Rejected
IfThenElse(cond, then, else) ==
  LET sort == CASE ~IsPy(then) -> Sort(then)
                [] ~IsPy(else) -> Sort(else)
                [] OTHER -> Sort(Coerce(then))
  IN Ite(CoerceBool(cond), CoerceTo(then, sort), CoerceTo(else, sort))
KeepsNew(max, new, acc) == Order(IF max THEN "gt" ELSE "lt", new, acc)
\* Of two integers, and of a collection from a default.
MinMax(max, x, y) ==
  LET a == Coerce(x)
      b == Coerce(y)
  IN IF AllOf(<<a, b>>, IntSort) THEN IfThenElse(KeepsNew(max, b, a), b, a) ELSE Rejected
MinMaxOf(max, x, id, default) ==
  IF Sort(x) \in {SetSort(IntSort), ListSort(IntSort)} /\ Sort(Coerce(default)) = IntSort
  THEN LET ps == ReducerParams(x, id, default)
       IN Reduce(x, id, IfThenElse(KeepsNew(max, ps[2], ps[1]), ps[2], ps[1]), default)
  ELSE Rejected

\* Generators: one binder per `for`, over a set or the keys of a list, all
\* evaluated before the first binds anything.
GeneratorVars(domains, id) ==
  [i \in DOMAIN domains |-> ParamOf(DomainOf(domains[i]), <<id, i>>)]
GeneratorParams(domains, id) ==
  [i \in DOMAIN domains |-> ElementAt(domains[i], GeneratorVars(domains, id)[i])]
Generator(kind, domains, id, body) ==
  LET over == [i \in DOMAIN domains |-> DomainOf(domains[i])]
      vars == GeneratorVars(domains, id)
      names == [i \in DOMAIN vars |-> Label(vars[i])]
      inner == Coerce(body)
  IN IF \E i \in DOMAIN domains : IsPy(domains[i]) \/ ~(Sort(domains[i])[1] \in {"set", "list"})
     THEN Rejected
     ELSE CASE kind = "set" -> SetMap(names, over, inner)
            [] kind = "setif" -> SetFilter(names, over, inner)
            [] kind = "map" -> IF Len(domains) = 1 THEN MapLambda(over[1], vars[1], inner)
                               ELSE Rejected
            [] OTHER -> SetQuant(kind, Sort(inner), names, over, Returned(body))

\* @expr: the arguments that are no variables get names, in the inlined body and
\* as parameters of a call.
IsNamed(arg) == Op(Coerce(arg)) # "var"
InlinedParams(args, id) ==
  [i \in DOMAIN args |->
     IF IsNamed(args[i]) THEN Var("a", <<"a", id, i>>, Sort(Coerce(args[i]))) ELSE args[i]]
Inlined(args, id, body) ==
  LET params == InlinedParams(args, id)
      named(i, e) ==
        IF IsNamed(args[i]) THEN Let(Label(params[i]), Coerce(args[i]), e) ELSE e
  IN FoldRight(named, [i \in DOMAIN args |-> i], Coerce(body))
CallParams(args, names) == [i \in DOMAIN args |-> PlainVar(names[i], Sort(Coerce(args[i])))]
NotInlined(args, names, body) ==
  LET params == CallParams(args, names)
  IN ExprCall([i \in DOMAIN params |-> Label(params[i])], Coerced(args), Coerce(body))

----------------------------------------------------------------------------
(* edit(): UpdateContext.  A path is a sequence of keys. *)

ChildOf(node, key) ==
  IF SortIs(node, "record") THEN RecordGet(node, Label(key)[2])
  ELSE IF SortIs(node, "tuple") THEN TupleGet(node, Label(key)[2])
  ELSE IF SortIs(node, "list") THEN ListGet(node, key) ELSE MapGet(node, key)
WithChild(node, key, val, replaceOnly) ==
  IF SortIs(node, "record") THEN RecordUpdate(node, Label(key)[2], val)
  ELSE IF SortIs(node, "tuple") THEN TupleUpdate(node, Label(key)[2], val)
  ELSE IF SortIs(node, "list") THEN ListUpdate(node, key, val)
  ELSE MapSet(node, key, val, replaceOnly)
AliasOf(node, id, i) == Var("_tmp", <<"_tmp", id, i>>, Sort(node))

\* The aliases from the root to the parent of the last key: pairs of a variable
\* and the node that it stands for.  A variable at the root has none.
Aliases(node, keys, id) ==
  LET root == IF Op(node) = "var" THEN <<>> ELSE <<<<AliasOf(node, id, 0), node>>>>
      step(as, i) ==
        LET parent == IF as = <<>> THEN node ELSE Last(as)[1]
            child == ChildOf(parent, Coerce(keys[i]))
        IN Append(as, <<AliasOf(child, id, i), child>>)
  IN FoldLeft(step, root, [i \in 1..(Len(keys) - 1) |-> i])
Edited(node, keys, val, replaceOnly, id) ==
  LET as == Aliases(node, keys, id)
      parents == (IF Op(node) = "var" THEN <<node>> ELSE <<>>) \o [i \in DOMAIN as |-> as[i][1]]
      rebuilt == FoldRight(LAMBDA i, e : WithChild(parents[i], Coerce(keys[i]), e, replaceOnly),
                           [i \in DOMAIN keys |-> i], val)
  IN FoldRight(LAMBDA a, e : Let(Label(a[1]), a[2], e), as, rebuilt)
Editable(x) == Accepted(OnSort(x, {"map", "tuple", "record", "list"}, x))
\* updates: for each u[k1]..[kn] = val the keys and the value, in turn.  Their
\* sorts come from x as it was before.
Edit(x, updates, replaceOnly, id) ==
  LET item(keys) == FoldLeft(LAMBDA e, k : IF Accepted(e) THEN GetItem(e, k) ELSE e, x, keys)
      step(e, i) ==
        LET keys == updates[i][1]
        IN IF Accepted(e) /\ Accepted(item(keys))
           THEN Edited(e, keys, CoerceTo(updates[i][2], Sort(item(keys))), replaceOnly, <<id, i>>)
           ELSE Rejected
  IN IF Editable(x) THEN FoldLeft(step, x, [i \in DOMAIN updates |-> i]) ELSE Rejected
=============================================================================

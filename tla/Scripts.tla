------------------------------- MODULE Scripts -------------------------------
(***************************************************************************)
(* Scripts: what a user writes with ExprApi, what node it builds, what the *)
(* interpreter makes of the node, and what the script means.               *)
(*                                                                         *)
(* A script is a literal, a state variable, a parameter of an enclosing    *)
(* callback (a Python variable, found by the position of the callback) or  *)
(* a call <<"call", method, arguments, callback>>.                         *)
(***************************************************************************)
EXTENDS ExprApi, Interpreter

PyS(kind, x) == <<"py", <<kind, x>>>>
StateS(name) == <<"state", name>>
Param(i) == <<"param", i>>
Call(method, args) == <<"call", method, args, <<>>>>
CallWith(method, args, callback) == <<"call", method, args, callback>>

\* A state with a variable of every sort, and the sorts.
UnionS == UnionSort([n |-> NoPayload, p |-> IntSort])
State ==
  [i |-> IntV(1), b |-> BoolV(TRUE), s |-> SetV({IntV(1), IntV(2)}),
   l |-> ListV(<<IntV(2), IntV(0)>>), m |-> MapV(IntV(1) :> IntV(2)),
   r |-> <<"record", [f |-> IntV(1), g |-> ListV(<<IntV(1)>>)]>>,
   t |-> <<"tuple", <<IntV(2), BoolV(FALSE)>>>>,
   u |-> <<"union", "p", <<IntV(2)>>>>,
   ss |-> SetV({SetV({}), SetV({IntV(1)})}),
   ml |-> MapV(IntV(1) :> ListV(<<IntV(1), IntV(2)>>))]
StateSort ==
  [i |-> IntSort, b |-> BoolSort, s |-> SetSort(IntSort), l |-> ListSort(IntSort),
   m |-> MapSort(IntSort, IntSort),
   r |-> RecordSort([f |-> IntSort, g |-> ListSort(IntSort)]),
   t |-> TupleSort(<<IntSort, BoolSort>>), u |-> UnionS, ss |-> SetSort(SetSort(IntSort)),
   ml |-> MapSort(IntSort, ListSort(IntSort))]

----------------------------------------------------------------------------
\* The call of a method without a callback.
Built0(method, x, id) ==
  CASE method \in {"eq", "ne"} -> Compare(method, x[1], x[2])
    [] method \in OrderOps -> Order(method, x[1], x[2])
    [] method \in {"mul", "div", "mod", "pow"} -> Arith(method, x[1], x[2])
    [] method = "plus" -> Plus(x[1], x[2])
    [] method = "minus" -> Minus(x[1], x[2])
    [] method = "neg" -> Negative(x[1])
    [] method = "empty" -> IsEmpty(x[1])
    [] method = "in" -> InMethod(x[1], x[2])
    [] method = "contains" -> ContainsMethod(x[1], x[2])
    [] method = "ifelse" -> IfElse(x[1], x[2], x[3])
    [] method = "ite" -> IfThenElse(x[1], x[2], x[3])
    [] method = "upto" -> Upto(x[1], x[2])
    [] method = "interval" -> IntervalOf(x[1], x[2])
    [] method = "range" -> RangeOf(x[1], x[2])
    [] method = "&" -> Junction("and", x[1], x[2])
    [] method = "|" -> Junction("or", x[1], x[2])
    [] method = "and" -> JunctionMethod("and", x[1], x[2])
    [] method = "or" -> JunctionMethod("or", x[1], x[2])
    [] method = "And" -> And(x)
    [] method = "Or" -> Or(x)
    [] method = "~" -> Invert(x[1])
    [] method = "implies" -> ImpliesMethod(x[1], x[2])
    [] method = "Implies" -> Implies(x[1], x[2])
    [] method = "item" -> GetItem(x[1], x[2])
    [] method = "from" -> Slice(x[1], <<x[2]>>, <<>>)
    [] method = "to" -> Slice(x[1], <<>>, <<x[2]>>)
    [] method = "slice" -> Slice(x[1], <<x[2]>>, <<x[3]>>)
    [] method = "Val" -> Coerce(x[1])
    [] method = "no ints" -> EmptyList(IntSort)
    [] method = "replace" -> Replace(x[1], x[2], x[3])
    [] method = "insert" -> Insert(x[1], x[2], x[3])
    [] method = "size" -> SizeOf(x[1])
    [] method = "flattened" -> Flattened1(x[1])
    [] method = "keys" -> KeysOf(x[1])
    [] method = "values" -> Values(x[1], id)
    [] method = "items" -> Items(x[1], id)
    [] method = "tag" -> TagOf(x[1])
    [] method = "Set" -> SetOf(x)
    [] method = "List" -> ListOf(x)
    [] method = "Tuple" -> Tuple(x)
    [] method = "Record" -> Record(<<"f", "g">>, x)
    [] method = "Map" -> MapOf(x)
    [] method = "some" -> UnionCtor(UnionS, "p", <<Coerce(x[1])>>)
    [] method = "none" -> UnionCtor(UnionS, "n", <<>>)
    [] method = "subsets" -> IF IsPy(x[1]) THEN Rejected ELSE AllSubsets(x[1])
    [] method = "maps" -> IF IsPy(x[1]) \/ IsPy(x[2]) THEN Rejected ELSE AllMaps(x[1], x[2])
    [] method = "tuples" -> IF IsPy(x[1]) \/ IsPy(x[2]) THEN Rejected ELSE AllTuples(x)
    [] method = "records" ->
         IF IsPy(x[1]) \/ IsPy(x[2]) THEN Rejected ELSE AllRecords(<<"f", "g">>, x)
    [] method = "Max" -> MinMax(TRUE, x[1], x[2])
    [] method = "Min" -> MinMax(FALSE, x[1], x[2])
    [] method = "MaxOf" -> IF IsPy(x[1]) THEN Rejected ELSE MinMaxOf(TRUE, x[1], id, x[2])
    [] method = "Always" -> AlwaysOf(x[1])
    [] method = "AndT" -> AndT(x)
    [] method = "edit" -> Edit(x[1], <<<<<<x[2]>>, x[3]>>>>, FALSE, id)
    [] method = "edit2" -> Edit(x[1], <<<<<<x[2], x[3]>>, x[4]>>, <<<<x[2], x[5]>>, x[4]>>>>, FALSE, id)

RECURSIVE NodeOf(_, _, _)
NodeOf(s, scope, id) ==
  LET x == [i \in DOMAIN s[3] |-> NodeOf(s[3][i], scope, Append(id, i))]
      inner == Append(id, 0)
      body(params) == NodeOf(s[4], scope \o params, inner)
      kind == CASE s[2] = "all" -> "forall" [] s[2] = "mapgen" -> "map" [] OTHER -> s[2]
      acc == MapReducerParams(x[1], id, x[2])
      names == <<"x", "y">>
  IN CASE s[1] = "py" -> s
       [] s[1] = "state" -> PlainVar(s[2], StateSort[s[2]])
       [] s[1] = "param" -> scope[s[2]]
       [] s[2] = "filter" -> Filter(x[1], id, body(<<ParamOf(x[1], id)>>))
       [] s[2] = "map" -> MapMethod(x[1], id, body(<<ParamOf(x[1], id)>>))
       [] s[2] = "map_to" -> MapTo(x[1], id, body(<<ParamOf(x[1], id)>>))
       [] s[2] \in {"forall", "exists"} ->
            QuantifyMethod(s[2], x[1], id, body(<<QuantParamOf(x[1], id)>>))
       [] s[2] = "choose" -> ChooseMethod(x[1], id, body(<<ParamOf(x[1], id)>>))
       [] s[2] = "reduce" /\ Sort(x[1])[1] = "map" ->
            MapReduce(x[1], id, body(<<acc[1], acc[3]>>), x[2])
       [] s[2] = "reduce" -> Reduce(x[1], id, body(ReducerParams(x[1], id, x[2])), x[2])
       [] s[2] = "match" ->
            Match(x[1], [t \in {"p"} |-> body(CaseParams(x[1], t, "x"))], <<x[2]>>)
       [] s[2] = "matchAll" ->
            Match(x[1], [n |-> x[2], p |-> body(CaseParams(x[1], "p", "x"))], <<>>)
       [] s[2] \in {"set", "setif", "all", "mapgen"} ->
            Generator(kind, x, id, body(GeneratorParams(x, id)))
       [] s[2] = "expr" -> Inlined(x, id, body(InlinedParams(x, id)))
       [] s[2] = "exprcall" -> NotInlined(x, names, body(CallParams(x, names)))
       [] OTHER -> Built0(s[2], x, id)

\* An expression is what coerce_expr makes of the script's result.
Node(s) == Coerce(NodeOf(s, <<>>, <<>>))
Result(e) == Denoted(Value(e, StateEnv([k \in {PlainKey(n) : n \in DOMAIN State} |-> State[k[1]]])))

----------------------------------------------------------------------------
(* What a script means: with sets as sets and parameters as Python has them. *)

Defined(cond, v) == IF cond THEN v ELSE Domain
Lesser(x, y) ==
  IF Kind(x) = "set" THEN x[2] \subseteq y[2] /\ x # y ELSE x[2] < y[2]
LesserEq(x, y) == x = y \/ Lesser(x, y)
Quotient(a, b) == CHOOSE q \in -100..100 : \E r \in -20..20 :
                    a = q * b + r /\ IF b > 0 THEN 0 <= r /\ r < b ELSE b < r /\ r <= 0
Components(x) == x[2]
\* x[key] and x with another value there.
Position(x, key) ==
  CASE Kind(x) = "record" -> key[2] [] Kind(x) = "map" -> key [] OTHER -> key[2] + 1
Item(x, key) ==
  IF Position(x, key) \in DOMAIN x[2] THEN x[2][Position(x, key)] ELSE Domain
WithItem(x, key, v, insert) ==
  CASE Position(x, key) \in DOMAIN x[2] -> [x EXCEPT ![2][Position(x, key)] = v]
    [] Kind(x) = "map" -> IF insert THEN MapV((key :> v) @@ x[2]) ELSE x
    [] OTHER -> Domain

Meaning0(method, x) ==
  CASE method = "eq" -> BoolV(x[1] = x[2])
    [] method = "ne" -> BoolV(x[1] # x[2])
    [] method = "lt" -> BoolV(Lesser(x[1], x[2]))
    [] method = "le" -> BoolV(LesserEq(x[1], x[2]))
    [] method = "gt" -> BoolV(Lesser(x[2], x[1]))
    [] method = "ge" -> BoolV(LesserEq(x[2], x[1]))
    [] method = "mul" -> IntV(x[1][2] * x[2][2])
    [] method = "div" -> IF x[2][2] = 0 THEN Domain ELSE IntV(Quotient(x[1][2], x[2][2]))
    [] method = "mod" -> IF x[2][2] = 0 THEN Domain
                         ELSE IntV(x[1][2] - x[2][2] * Quotient(x[1][2], x[2][2]))
    [] method = "pow" -> Defined(x[2][2] > 0 \/ (x[2][2] = 0 /\ x[1][2] # 0), IntV(x[1][2] ^ x[2][2]))
    [] method = "plus" -> IF Kind(x[1]) = "list" THEN ListV(x[1][2] \o x[2][2]) ELSE IntV(x[1][2] + x[2][2])
    [] method = "minus" -> IF Kind(x[1]) = "set" THEN SetV(x[1][2] \ x[2][2]) ELSE IntV(x[1][2] - x[2][2])
    [] method = "neg" -> IntV(-x[1][2])
    [] method = "empty" -> BoolV(IF Kind(x[1]) = "set" THEN x[1][2] = {} ELSE DOMAIN x[1][2] = {})
    [] method = "in" -> BoolV(x[1] \in x[2][2])
    [] method = "contains" -> BoolV(x[2] \in x[1][2])
    [] method \in {"upto", "interval"} -> SetV({IntV(n) : n \in x[1][2]..x[2][2]})
    [] method = "range" -> ListV([n \in 1..Max({0, x[2][2] - x[1][2]}) |-> IntV(x[1][2] + n - 1)])
    [] method = "~" -> BoolV(~x[1][2])
    [] method = "item" -> Item(x[1], x[2])
    [] method = "from" -> ListV(SubSeq(x[1][2], 1 + Max({0, IF x[2][2] < 0 THEN Len(x[1][2]) + x[2][2] ELSE x[2][2]}),
                                       Len(x[1][2])))
    [] method = "to" -> ListV(SubSeq(x[1][2], 1, Min({Len(x[1][2]), IF x[2][2] < 0 THEN Len(x[1][2]) + x[2][2] ELSE x[2][2]})))
    [] method = "replace" -> WithItem(x[1], x[2], x[3], FALSE)
    [] method = "insert" -> WithItem(x[1], x[2], x[3], TRUE)
    [] method = "edit" -> IF IsError(Item(x[1], x[2])) /\ Kind(x[1]) # "map" THEN Domain
                          ELSE WithItem(x[1], x[2], x[3], TRUE)
    [] method = "edit2" ->
         LET one(root, key) ==
               IF IsError(root) \/ IsError(Item(root, x[2])) THEN Domain
               ELSE LET child == WithItem(Item(root, x[2]), key, x[4], TRUE)
                    IN IF IsError(child) THEN Domain ELSE WithItem(root, x[2], child, TRUE)
         IN one(one(x[1], x[3]), x[5])
    [] method = "size" -> IntV(IF Kind(x[1]) = "set" THEN Cardinality(x[1][2]) ELSE Cardinality(DOMAIN x[1][2]))
    [] method = "flattened" -> SetV(UNION {y[2] : y \in x[1][2]})
    [] method = "keys" -> SetV(IF Kind(x[1]) = "map" THEN DOMAIN x[1][2]
                               ELSE {IntV(n - 1) : n \in DOMAIN x[1][2]})
    [] method = "values" -> SetV({x[1][2][k] : k \in DOMAIN x[1][2]})
    [] method = "items" -> SetV({<<"tuple", <<k, x[1][2][k]>>>> : k \in DOMAIN x[1][2]})
    [] method = "tag" -> <<"str", x[1][2]>>
    [] method = "Set" -> SetV(ToSet(x))
    [] method = "List" -> ListV(x)
    [] method = "Tuple" -> <<"tuple", x>>
    [] method = "Record" -> <<"record", [f |-> x[1], g |-> x[2]]>>
    [] method = "Map" -> MapV((x[1] :> x[2]))
    [] method = "some" -> <<"union", "p", <<x[1]>>>>
    [] method = "subsets" -> SetV({SetV(X) : X \in SUBSET x[1][2]})
    [] method = "maps" -> SetV({MapV(f) : f \in [x[1][2] -> x[2][2]]})
    [] method = "tuples" -> SetV({<<"tuple", <<p[1], p[2]>>>> : p \in x[1][2] \X x[2][2]})
    [] method = "records" -> SetV({<<"record", [f |-> p[1], g |-> p[2]]>> : p \in x[1][2] \X x[2][2]})
    [] method = "Max" -> IF x[1][2] >= x[2][2] THEN x[1] ELSE x[2]
    [] method = "Min" -> IF x[1][2] <= x[2][2] THEN x[1] ELSE x[2]
    [] method = "MaxOf" ->
         IntV(Max({x[2][2]} \cup {n[2] : n \in IF Kind(x[1]) = "set" THEN x[1][2] ELSE ToSet(x[1][2])}))
    [] method = "Always" -> Temporal

\* And, or and the like are defined when the first operand that settles them is.
RECURSIVE Meaning(_, _)
Meaning(s, scope) ==
  LET args == [i \in DOMAIN s[3] |-> Meaning(s[3][i], scope)]
      body1(v) == Meaning(s[4], Append(scope, v))
      body2(v, w) == Meaning(s[4], scope \o <<v, w>>)
      bodyS(vs) == Meaning(s[4], scope \o vs)
      elems(v) == IF Kind(v) = "list" THEN v[2] ELSE Elements(v[2])
      all(S, F(_), v) == Unless([i \in DOMAIN Elements(S) |-> F(Elements(S)[i])], v)
      where(S, F(_)) == {x \in S : F(x) = BoolV(TRUE)}
      rows == AllTuplesOf([i \in DOMAIN args |-> IF Kind(args[i]) = "list" THEN ToSet(args[i][2]) ELSE args[i][2]])
      c == args[1]
      first(i) == Meaning(s[3][i], scope)
      lazily(v, stop, other) ==
        IF IsError(v) \/ v[2] = stop THEN v ELSE Meaning(other, scope)
      fold(seq, init) == FoldLeft(LAMBDA a, x : IF IsError(a) THEN a ELSE body2(a, x), init, seq)
  IN CASE s[1] = "py" -> s[2]
       [] s[1] = "state" -> State[s[2]]
       [] s[1] = "param" -> scope[s[2]]
       [] s[2] \in {"&", "|"} /\ Kind(first(1)) = "set" ->
            Unless(args, SetV(IF s[2] = "&" THEN args[1][2] \cap args[2][2] ELSE args[1][2] \cup args[2][2]))
       [] s[2] \in {"&", "and", "And", "AndT"} -> lazily(first(1), FALSE, s[3][2])
       [] s[2] \in {"|", "or", "Or"} -> lazily(first(1), TRUE, s[3][2])
       [] s[2] \in {"implies", "Implies"} ->
            IF first(1) = BoolV(FALSE) THEN BoolV(TRUE) ELSE lazily(first(1), FALSE, s[3][2])
       [] s[2] = "ite" -> IF IsError(first(1)) THEN first(1) ELSE first(IF first(1)[2] THEN 2 ELSE 3)
       [] s[2] = "ifelse" -> IF IsError(first(2)) THEN first(2) ELSE first(IF first(2)[2] THEN 1 ELSE 3)
       [] Errors(args) # <<>> -> Errors(args)[1]
       [] s[2] = "filter" /\ Kind(c) = "list" ->
            Unless([i \in DOMAIN c[2] |-> body1(c[2][i])],
                   ListV(SelectSeq(c[2], LAMBDA x : body1(x) = BoolV(TRUE))))
       [] s[2] = "filter" -> all(c[2], body1, SetV(where(c[2], body1)))
       [] s[2] = "map" -> all(c[2], body1, SetV({body1(x) : x \in c[2]}))
       [] s[2] = "map_to" -> all(c[2], body1, MapV([x \in c[2] |-> body1(x)]))
       [] s[2] = "forall" -> LET S == ToSet(elems(c)) IN all(S, body1, BoolV(where(S, body1) = S))
       [] s[2] = "exists" -> LET S == ToSet(elems(c)) IN all(S, body1, BoolV(where(S, body1) # {}))
       [] s[2] = "choose" ->
            all(c[2], body1, IF where(c[2], body1) = {} THEN Domain
                             ELSE CHOOSE x \in where(c[2], body1) : TRUE)
       [] s[2] = "reduce" ->
            IF Kind(c) = "map"
            THEN fold([i \in DOMAIN Elements(DOMAIN c[2]) |-> c[2][Elements(DOMAIN c[2])[i]]], args[2])
            ELSE fold(elems(c), args[2])
       [] s[2] = "match" -> IF c[2] = "p" THEN bodyS(c[3]) ELSE args[2]
       [] s[2] = "set" -> all(rows, bodyS, SetV({bodyS(x) : x \in rows}))
       [] s[2] = "setif" -> all(rows, bodyS, SetV({Last(x) : x \in where(rows, bodyS)}))
       [] s[2] = "all" -> all(rows, bodyS, BoolV(where(rows, bodyS) = rows))
       [] s[2] = "mapgen" ->
            all(rows, bodyS, MapV([x \in {r[1] : r \in rows} |-> bodyS(<<x>>)]))
       [] s[2] \in {"expr", "exprcall"} -> bodyS(args)
       [] OTHER -> Meaning0(s[2], args)

----------------------------------------------------------------------------
(***************************************************************************)
(* The laws, and the scripts that they leave out.                          *)
(***************************************************************************)

RECURSIVE HasSort(_, _)
HasSort(v, sort) ==
  /\ IF sort = TemporalSort THEN Kind(v) = "bool"
     ELSE IF Kind(v) = "ints" THEN sort = SetSort(IntSort) ELSE Kind(v) = sort[1]
  /\ CASE Kind(v) = "set" -> \A x \in v[2] : HasSort(x, sort[2])
       [] Kind(v) = "list" -> \A i \in DOMAIN v[2] : HasSort(v[2][i], sort[2])
       [] Kind(v) = "map" ->
            \A k \in DOMAIN v[2] : HasSort(k, sort[2]) /\ HasSort(v[2][k], sort[3])
       [] Kind(v) \in {"tuple", "record"} ->
            DOMAIN v[2] = DOMAIN sort[2] /\ \A k \in DOMAIN v[2] : HasSort(v[2][k], sort[2][k])
       [] Kind(v) = "union" ->
            v[2] \in DOMAIN sort[2] /\ IF v[3] = <<>> THEN sort[2][v[2]] = NoPayload
                                       ELSE HasSort(v[3][1], sort[2][v[2]])
       [] OTHER -> TRUE

\* What no call checks: that predicates are Boolean and not temporal, that a
\* reducer keeps the sort of its initial value, that a bound of an interval is
\* no Python Boolean.
RECURSIVE Checked(_)
Checked(e) ==
  /\ \A i \in DOMAIN Args(e) : Checked(Args(e)[i])
  /\ Op(e) \in {"filter", "choose", "forall", "exists"} => Sort(Last(Args(e))) = BoolSort
  /\ Op(e) \in {"reduce", "listreduce"} => Sort(Args(e)[2]) = Sort(Args(e)[3])
  /\ Op(e) = "interval" => AllOf(Args(e), IntSort)

\* The nodes of e, with the operators above them.
RECURSIVE Nodes(_)
Nodes(e) == {e} \cup UNION {Nodes(Args(e)[i]) : i \in DOMAIN Args(e)}
Ops(e) == {Op(n) : n \in Nodes(e)}

\* A loop over an image meets an element once for each that it is the image of:
\* a reduction and the count of a filter over an image differ from those of a set.
FoldsImage(e) ==
  \E n \in Nodes(e) : /\ Op(n) \in {"reduce", "cardinality"}
                     /\ \E x \in Nodes(Args(n)[1]) : Op(x) = "setmap"

\* match() and @expr(inline=False) know a parameter by its name: inside of two
\* of them the outer parameter of that name is out of reach.
Shadows(e) ==
  \E n \in Nodes(e) : /\ Op(n) \in {"match", "call"}
                     /\ \E x \in Nodes(n) \ {n} : Op(x) \in {"match", "call"}

\* The values of a map made by map_to and the accumulator of a list are lazy
\* sets that mention the parameter of the loop.
LazyInLoop(e) ==
  \E n \in Nodes(e) : /\ Op(n) \in {"maplambda", "listreduce"}
                     /\ Ops(Args(n)[2]) \cap {"filter", "setmap"} # {}

Modelled(e) ==
  Accepted(e) /\ Checked(e) /\ ~Shadows(e) /\ "always" \notin Ops(e)

\* An accepted expression has a value of its sort, or the script divides by
\* zero, leaves the bounds of a list and the like.
SortLaw(e, v) ==
  Modelled(e) =>
    IF IsError(v) THEN v = Domain \/ (LazyInLoop(e) /\ v = Recursion)
    ELSE HasSort(v, Sort(e))

Faithful(s, v) == IF IsError(Meaning(s, <<>>)) THEN IsError(v) ELSE v = Meaning(s, <<>>)
\* The value of the node of s is what the script means.
MeaningLaw(s, e, v) ==
  Modelled(e) /\ ~FoldsImage(e) /\ ~LazyInLoop(e) => Faithful(s, v)
=============================================================================

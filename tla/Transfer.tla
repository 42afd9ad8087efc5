------------------------------- MODULE Transfer -------------------------------
(***************************************************************************)
(* The transfer format (wunderspec/transfer): what `export_spec` writes    *)
(* for an expression, what `import_spec` builds from it and the checks     *)
(* that a document must pass.                                              *)
(*                                                                         *)
(* A document node [kind, node, nodes, data] has the nodes that stand      *)
(* under a field name of their own, the nodes in its list, in order, and   *)
(* the rest of its fields.  Names of record types, source locations and    *)
(* the size limits of the format are left out.                             *)
(***************************************************************************)
EXTENDS Expressions, TLC

Json(kind, node, nodes, data) == [kind |-> kind, node |-> node, nodes |-> nodes, data |-> data]
NoFields == <<>>
Null == <<>>

----------------------------------------------------------------------------
(* encode.py *)

RECURSIVE SortJson(_)
SortJson(s) ==
  LET pairs(f) == LET names == SetToSeq(DOMAIN f)
                  IN [i \in DOMAIN names |-> <<names[i], SortJson(f[names[i]])>>]
  IN CASE s[1] \in {"set", "list"} -> [kind |-> s[1], elem |-> SortJson(s[2])]
       [] s[1] = "map" -> [kind |-> "map", key |-> SortJson(s[2]), val |-> SortJson(s[3])]
       [] s[1] = "tuple" ->
            [kind |-> "tuple", elems |-> [i \in DOMAIN s[2] |-> SortJson(s[2][i])]]
       [] s[1] = "record" -> [kind |-> "record", fields |-> pairs(s[2])]
       [] s[1] = "union" -> [kind |-> "union", variants |-> pairs(s[2])]
       [] OTHER -> [kind |-> s[1]]

LitJson(v) ==
  CASE v[1] = "bool" -> [kind |-> "bool", b |-> v[2]]
    [] v[1] = "int" -> [kind |-> "int", n |-> v[2]]
    [] v[1] = "str" -> [kind |-> "str", s |-> v[2]]

\* A parameter of a callback has the name that Python gives it and a unique one;
\* every other variable has one name.
HasUniqueName(v) == Len(v[2]) = 2
NameOf(v) == IF HasUniqueName(v) THEN v[1] ELSE v[2]
VarJson(v, sort) ==
  Json("var", NoFields, <<>>,
       [name |-> NameOf(v), uniqueName |-> IF HasUniqueName(v) THEN <<v[2]>> ELSE Null,
        sort |-> SortJson(sort)])

\* The operators of algebra nodes.
AlgebraOps ==
  [o \in {"add", "sub", "mul", "div", "mod", "pow", "neg", "lt", "le", "gt", "ge", "eq", "ne",
          "and", "or", "implies", "not", "union", "intersect", "difference", "cardinality",
          "subseteq", "flatten"} |-> o]
  @@ [concat |-> "listConcat", size |-> "listSize"]

\* The kind of each node with children in a fixed order, and their fields.
FieldsOf ==
  [in |-> <<"inE", "elem", "setNode">>,
   ite |-> <<"ite", "condition", "thenNode", "elseNode">>,
   interval |-> <<"interval", "lower", "upper">>,
   subsets |-> <<"allSubsets", "baseSet">>, maps |-> <<"allMaps", "keySet", "valueSet">>,
   mapget |-> <<"mapGet", "mapNode", "key">>, mapkeys |-> <<"mapKeys", "mapNode">>,
   mapset |-> <<"mapSet", "mapNode", "key", "value">>,
   range |-> <<"listRange", "lower", "upper">>, listget |-> <<"listGet", "listNode", "index">>,
   listset |-> <<"listUpdate", "baseList", "index", "newValue">>,
   slice |-> <<"listSlice", "baseList", "start", "stop">>,
   listkeys |-> <<"listKeys", "listNode">>,
   recset |-> <<"recordUpdate", "baseRecord", "newValue">>,
   recget |-> <<"recordGet", "recordNode">>,
   tupset |-> <<"tupleUpdate", "baseTuple", "newValue">>, tupget |-> <<"tupleGet", "tupleNode">>,
   tag |-> <<"unionGetTag", "unionNode">>, totemporal |-> <<"toTemporal", "boolFormula">>,
   always |-> <<"always", "subformula">>, eventually |-> <<"eventually", "subformula">>]

RECURSIVE Encoded(_)
Encoded(e) ==
  LET all(nodes) == [i \in DOMAIN nodes |-> Encoded(nodes[i])]
      child(i) == Encoded(Args(e)[i])
      binder(i, sort) == VarJson(Label(e)[i], sort)
      elem == Elem(Args(e)[1])
      op == Op(e)
      folded(kind, base) ==
        Json(kind, (base :> child(1)) @@
                   [accVar |-> binder(1, Sort(Args(e)[3])), elemVar |-> binder(2, elem),
                    func |-> child(2), initial |-> child(3)], <<>>, NoFields)
      over(kind, base, body) ==
        Json(kind, (base :> child(1)) @@ (body :> child(2)) @@ [var |-> binder(1, elem)], <<>>, NoFields)
  IN CASE op = "var" -> VarJson(Label(e), Sort(e))
       [] op = "lit" -> Json("lit", NoFields, <<>>, [value |-> LitJson(Label(e))])
       [] op = "let" ->
            Json("letE", [value |-> child(1), body |-> child(2)], <<>>, [name |-> NameOf(Label(e))])
       [] op = "call" ->
            Json("exprCall", [body |-> Encoded(Last(Args(e)))], all(Front(Args(e))),
                 [paramNames |-> [i \in DOMAIN Label(e) |-> NameOf(Label(e)[i])],
                  sort |-> SortJson(Sort(e))])
       [] op \in DOMAIN AlgebraOps ->
            Json("algebra", NoFields, all(Args(e)),
                 [resultSort |-> SortJson(Sort(e)), op |-> AlgebraOps[op]])
       [] op \in {"set", "list"} ->
            Json(IF op = "set" THEN "setEnum" ELSE "listEnum", NoFields, all(Args(e)),
                 [elemSort |-> SortJson(Elem(e))])
       [] op = "ints" -> Json("setIntOrNat", NoFields, <<>>, [isSigned |-> Label(e)])
       [] op \in {"filter", "setmap", "forall", "exists"} ->
            Json(CASE op = "filter" -> "setFilter" [] op = "setmap" -> "setMap" [] OTHER -> "setQuant",
                 [body |-> Encoded(Last(Args(e)))], <<>>,
                 [bindings |-> [i \in DOMAIN Label(e) |-> <<binder(i, Elem(Args(e)[i])), child(i)>>],
                  quant |-> op, sort |-> SortJson(Sort(e))])
       [] op = "reduce" -> folded("setReduce", "baseSet")
       [] op = "listreduce" -> folded("listReduce", "baseList")
       [] op = "choose" -> over("choose", "baseSet", "predicate")
       [] op = "maplambda" -> over("mapLambda", "baseSet", "mapper")
       [] op = "listfilter" -> over("listFilter", "baseList", "predicate")
       [] op = "tuples" -> Json("allTuples", NoFields, all(Args(e)), NoFields)
       [] op = "records" -> Json("allRecords", NoFields, all(Args(e)), [names |-> Label(e)])
       [] op = "record" -> Json("recordCtor", NoFields, all(Args(e)), [names |-> Label(e)])
       [] op = "tuple" -> Json("tupleCtor", NoFields, all(Args(e)), NoFields)
       [] op = "map" ->
            Json("mapEnum", NoFields, all(Args(e)),
                 [keySort |-> SortJson(Sort(e)[2]), valueSort |-> SortJson(Sort(e)[3])])
       [] op = "variant" ->
            Json("unionCtor", NoFields, all(Args(e)), [unionSort |-> SortJson(Sort(e)), tag |-> Label(e)])
       [] op = "match" ->
            Json("unionMatch", [unionNode |-> child(1)], <<>>,
                 [cases |-> [i \in DOMAIN Label(e) |->
                    <<Label(e)[i][1],
                      [j \in DOMAIN Label(e)[i][2] |-> VarJson(Label(e)[i][2][j], elem[Label(e)[i][1]])],
                      child(i + 1)>>]])
       [] OTHER ->
            LET fields == Tail(FieldsOf[op])
            IN Json(FieldsOf[op][1],
                    [f \in ToSet(fields) |-> child(CHOOSE i \in DOMAIN fields : fields[i] = f)], <<>>,
                    [label |-> Label(e)])

----------------------------------------------------------------------------
(* _construct.py *)

RECURSIVE SortOf(_)
SortOf(j) ==
  LET named(pairs) ==
        [n \in {pairs[i][1] : i \in DOMAIN pairs} |->
           SortOf(pairs[CHOOSE i \in DOMAIN pairs : pairs[i][1] = n][2])]
  IN CASE j.kind = "set" -> SetSort(SortOf(j.elem))
       [] j.kind = "list" -> ListSort(SortOf(j.elem))
       [] j.kind = "map" -> MapSort(SortOf(j.key), SortOf(j.val))
       [] j.kind = "tuple" -> TupleSort([i \in DOMAIN j.elems |-> SortOf(j.elems[i])])
       [] j.kind = "record" -> RecordSort(named(j.fields))
       [] j.kind = "union" -> UnionSort(named(j.variants))
       [] OTHER -> <<j.kind>>

LiteralOf(j) ==
  CASE j.kind = "bool" -> <<"bool", j.b>>
    [] j.kind = "int" -> <<"int", j.n>>
    [] j.kind = "str" -> <<"str", j.s>>
\* The operator of an algebra node, from its name.
OpNamed(name) == CHOOSE o \in DOMAIN AlgebraOps : AlgebraOps[o] = name

RECURSIVE Decoded(_)
Decoded(j) ==
  LET n(f) == Decoded(j.node[f])
      ns == [i \in DOMAIN j.nodes |-> Decoded(j.nodes[i])]
      d == j.data
      var(f) == Label(n(f))
      bound == [i \in DOMAIN d.bindings |-> Label(Decoded(d.bindings[i][1]))]
      domains == [i \in DOMAIN d.bindings |-> Decoded(d.bindings[i][2])]
      vars == <<var("accVar"), var("elemVar")>>
      case(t) == d.cases[CHOOSE i \in DOMAIN d.cases : d.cases[i][1] = t]
  IN CASE j.kind = "var" ->
            IF d.uniqueName = Null THEN Var(d.name[1], d.name, SortOf(d.sort))
            ELSE Var(d.name, d.uniqueName[1], SortOf(d.sort))
       [] j.kind = "lit" -> Lit(LiteralOf(d.value))
       [] j.kind = "letE" -> Let(<<d.name[1], d.name>>, n("value"), n("body"))
       [] j.kind = "exprCall" ->
            ExprCall([i \in DOMAIN d.paramNames |-> <<d.paramNames[i][1], d.paramNames[i]>>], ns, n("body"))
       [] j.kind = "algebra" -> Algebra(SortOf(d.resultSort), OpNamed(d.op), ns)
       [] j.kind = "inE" -> In(n("elem"), n("setNode"))
       [] j.kind = "ite" -> Ite(n("condition"), n("thenNode"), n("elseNode"))
       [] j.kind = "setEnum" -> SetEnum(SortOf(d.elemSort), ns)
       [] j.kind = "setIntOrNat" -> SetIntOrNat(d.isSigned)
       [] j.kind = "setFilter" -> SetFilter(bound, domains, n("body"))
       [] j.kind = "setMap" -> SetMap(bound, domains, n("body"))
       [] j.kind = "setQuant" -> SetQuant(d.quant, SortOf(d.sort), bound, domains, n("body"))
       [] j.kind = "setReduce" -> SetReduce(n("baseSet"), vars, n("func"), n("initial"))
       [] j.kind = "interval" -> Interval(n("lower"), n("upper"))
       [] j.kind = "choose" -> Choose(n("baseSet"), var("var"), n("predicate"))
       [] j.kind = "allSubsets" -> AllSubsets(n("baseSet"))
       [] j.kind = "allMaps" -> AllMaps(n("keySet"), n("valueSet"))
       [] j.kind = "allTuples" -> AllTuples(ns)
       [] j.kind = "allRecords" -> AllRecords(d.names, ns)
       [] j.kind = "mapEnum" -> MapEnum(SortOf(d.keySort), SortOf(d.valueSort), ns)
       [] j.kind = "mapLambda" -> MapLambda(n("baseSet"), n("var"), n("mapper"))
       [] j.kind = "mapGet" -> MapGet(n("mapNode"), n("key"))
       [] j.kind = "mapSet" -> MapSet(n("mapNode"), n("key"), n("value"), d.label)
       [] j.kind = "mapKeys" -> MapKeys(n("mapNode"))
       [] j.kind = "listEnum" -> ListEnum(SortOf(d.elemSort), ns)
       [] j.kind = "listRange" -> ListRange(n("lower"), n("upper"))
       [] j.kind = "listGet" -> ListGet(n("listNode"), n("index"))
       [] j.kind = "listUpdate" -> ListUpdate(n("baseList"), n("index"), n("newValue"))
       [] j.kind = "listSlice" -> ListSlice(n("baseList"), n("start"), n("stop"))
       [] j.kind = "listFilter" -> ListFilter(n("baseList"), var("var"), n("predicate"))
       [] j.kind = "listReduce" -> ListReduce(n("baseList"), vars, n("func"), n("initial"))
       [] j.kind = "listKeys" -> ListKeys(n("listNode"))
       [] j.kind = "recordCtor" -> RecordCtor(d.names, ns)
       [] j.kind = "recordUpdate" -> RecordUpdate(n("baseRecord"), d.label, n("newValue"))
       [] j.kind = "recordGet" -> RecordGet(n("recordNode"), d.label)
       [] j.kind = "tupleCtor" -> TupleCtor(ns)
       [] j.kind = "tupleUpdate" -> TupleUpdate(n("baseTuple"), d.label, n("newValue"))
       [] j.kind = "tupleGet" -> TupleGet(n("tupleNode"), d.label)
       [] j.kind = "unionCtor" -> UnionCtor(SortOf(d.unionSort), d.tag, ns)
       [] j.kind = "unionGetTag" -> UnionGetTag(n("unionNode"))
       [] j.kind = "unionMatch" ->
            UnionMatch(n("unionNode"),
              [t \in {d.cases[i][1] : i \in DOMAIN d.cases} |->
                 [vars |-> [i \in DOMAIN case(t)[2] |-> Decoded(case(t)[2][i])],
                  body |-> Decoded(case(t)[3])]])
       [] j.kind = "toTemporal" -> ToTemporal(n("boolFormula"))
       [] j.kind = "always" -> Always(n("subformula"))
       [] j.kind = "eventually" -> Eventually(n("subformula"))

----------------------------------------------------------------------------
(* _checks.py: what the constructors do not check.  A scope gives each name  *)
(* that is bound its sort.                                                   *)

\* Mutant of ScopeKey: callbacks are told apart by the names that Python gives.
ScopeKeyNotUnique(name, uniqueName) == IF uniqueName = Null THEN name ELSE <<name>>
ScopeKey(name, uniqueName) == IF uniqueName = Null THEN name ELSE <<name, uniqueName[1]>>
Bind(var, scope, sort) == (ScopeKey(var.data.name, var.data.uniqueName) :> sort) @@ scope
SortsTo(j, sort) == Sort(Decoded(j)) = sort
ElemOf(j) == Elem(Decoded(j))

RECURSIVE InScope(_, _)
InScope(j, scope) ==
  LET d == j.data
      ok(f, inner) == InScope(j.node[f], inner)
      listed == \A i \in DOMAIN j.nodes : InScope(j.nodes[i], scope)
      others == listed /\ \A f \in DOMAIN j.node : ok(f, scope)
      \* the scopes of the bindings: each sees the ones before it
      inner(i) == FoldLeft(LAMBDA s, k : Bind(d.bindings[k][1], s, ElemOf(d.bindings[k][2])), scope,
                           [k \in 1..i |-> k])
      over(base, body) ==
        /\ ok(base, scope)
        /\ SortsTo(j.node.var, ElemOf(j.node[base]))
        /\ ok(body, Bind(j.node.var, scope, Sort(Decoded(j.node.var))))
      folded(base) ==
        /\ ok(base, scope) /\ ok("initial", scope)
        /\ SortsTo(j.node.accVar, Sort(Decoded(j.node.initial)))
        /\ SortsTo(j.node.elemVar, ElemOf(j.node[base]))
        /\ ok("func", Bind(j.node.elemVar,
                           Bind(j.node.accVar, scope, Sort(Decoded(j.node.accVar))), ElemOf(j.node[base])))
  IN CASE j.kind = "var" ->
            LET key == ScopeKey(d.name, d.uniqueName)
            IN key \in DOMAIN scope /\ scope[key] = SortOf(d.sort)
       [] j.kind = "letE" -> ok("value", scope) /\ ok("body", (d.name :> Sort(Decoded(j.node.value))) @@ scope)
       [] j.kind = "exprCall" ->
            /\ Len(j.nodes) = Len(d.paramNames) /\ listed /\ SortsTo(j, SortOf(d.sort))
            /\ ok("body", [p \in ToSet(d.paramNames) |->
                             Sort(Decoded(j.nodes[CHOOSE i \in DOMAIN d.paramNames : d.paramNames[i] = p]))]
                          @@ scope)
       [] j.kind \in {"setFilter", "setMap", "setQuant"} ->
            /\ \A i \in DOMAIN d.bindings :
                 /\ InScope(d.bindings[i][2], inner(i - 1))
                 /\ SortsTo(d.bindings[i][1], ElemOf(d.bindings[i][2]))
            /\ ok("body", inner(Len(d.bindings)))
            /\ j.kind = "setFilter" => SortsTo(j.node.body, BoolSort)
       [] j.kind = "choose" -> over("baseSet", "predicate") /\ SortsTo(j.node.predicate, BoolSort)
       [] j.kind = "mapLambda" -> over("baseSet", "mapper")
       [] j.kind = "listFilter" -> over("baseList", "predicate")
       [] j.kind = "setReduce" -> folded("baseSet")
       [] j.kind = "listReduce" -> folded("baseList")
       [] j.kind = "unionMatch" ->
            /\ ok("unionNode", scope)
            /\ \A i \in DOMAIN d.cases :
                 InScope(d.cases[i][3],
                         IF d.cases[i][2] = Null THEN scope
                         ELSE Bind(d.cases[i][2][1], scope, Sort(Decoded(d.cases[i][2][1]))))
       [] OTHER ->
            /\ others
            /\ j.kind = "inE" => SortsTo(j.node.elem, ElemOf(j.node.setNode))
            /\ j.kind = "interval" => SortsTo(j.node.lower, IntSort) /\ SortsTo(j.node.upper, IntSort)
            /\ j.kind = "toTemporal" => SortsTo(j.node.boolFormula, BoolSort)
            /\ j.kind \in {"always", "eventually"} =>
                 Sort(Decoded(j.node.subformula)) \in {BoolSort, TemporalSort}

\* An expression over the given variables is exported, accepted and imported as
\* it was.
RoundTrips(e, scope) == Decoded(Encoded(e)) = e /\ InScope(Encoded(e), scope)
=============================================================================

----------------------------- MODULE Expressions -----------------------------
(***************************************************************************)
(* Expression nodes (wunderspec/ast/*.py) and the interface that builds    *)
(* them (wunderspec/expr.py and wunderspec/lang.py).                       *)
(*                                                                         *)
(* A node is <<op, sort, args, label>>: its class or operator, its sort,   *)
(* the nodes below it and the rest of what it holds.  A constructor that   *)
(* raises TypeError, ValueError or AssertionError gives Rejected, and so   *)
(* does every call that was to be given its result.                        *)
(***************************************************************************)
EXTENDS Integers, Sequences, SequencesExt, FiniteSets

IntSort == <<"int">>
BoolSort == <<"bool">>
StrSort == <<"str">>
TemporalSort == <<"temporal">>
SetSort(elem) == <<"set", elem>>
ListSort(elem) == <<"list", elem>>
MapSort(key, val) == <<"map", key, val>>
TupleSort(elems) == <<"tuple", elems>>
RecordSort(fields) == <<"record", fields>>
UnionSort(variants) == <<"union", variants>>
\* The payload of a variant that has none.
NoPayload == <<"none">>

Rejected == <<"rejected", <<"rejected">>, <<>>, <<>>>>
Op(e) == e[1]
Sort(e) == e[2]
Args(e) == e[3]
Label(e) == e[4]
SortIs(e, kind) == Sort(e)[1] = kind
Elem(e) == Sort(e)[2]

New(op, sort, args, label, checks) ==
  IF checks /\ Rejected \notin ToSet(args) THEN <<op, sort, args, label>> ELSE Rejected
AllOf(args, sort) == \A i \in DOMAIN args : Sort(args[i]) = sort

----------------------------------------------------------------------------
(* ast.py.  A variable is known by its key: the unique name if it has one.  *)

Var(name, key, sort) == <<"var", sort, <<>>, <<name, key>>>>
Lit(v) == <<"lit", <<v[1]>>, <<>>, v>>
Let(name, val, body) == New("let", Sort(body), <<val, body>>, name, TRUE)
ExprCall(params, args, body) == New("call", Sort(body), args \o <<body>>, params, TRUE)
\* All the arguments have one sort; which one is not looked at.
Algebra(sort, op, args) ==
  New(op, sort, args, <<>>, \A i \in DOMAIN args : Sort(args[i]) = Sort(args[1]))
In(elem, set) == New("in", BoolSort, <<elem, set>>, <<>>, TRUE)
Ite(cond, then, else) ==
  New("ite", Sort(then), <<cond, then, else>>, <<>>,
      Sort(cond) = BoolSort /\ Sort(then) = Sort(else))

(* set_ast.py.  Binders have variables and domains; the body comes last. *)
SetEnum(elem, args) == New("set", SetSort(elem), args, <<>>, AllOf(args, elem))
SetIntOrNat(signed) == <<"ints", SetSort(IntSort), <<>>, signed>>
Binding(op, sort, vars, domains, body) ==
  New(op, sort, domains \o <<body>>, vars, \A i \in DOMAIN domains : SortIs(domains[i], "set"))
SetFilter(vars, domains, body) ==
  Binding("filter", IF SortIs(Last(domains), "set") THEN Sort(Last(domains)) ELSE <<"rejected">>,
          vars, domains, body)
SetMap(vars, domains, body) == Binding("setmap", SetSort(Sort(body)), vars, domains, body)
SetQuant(quant, sort, vars, domains, body) ==
  IF sort \in {BoolSort, TemporalSort} THEN Binding(quant, sort, vars, domains, body) ELSE Rejected
\* The sort is that of the function; the initial value may have another.
SetReduce(base, vars, fun, initial) ==
  New("reduce", Sort(fun), <<base, fun, initial>>, vars, TRUE)
Interval(lower, upper) == New("interval", SetSort(IntSort), <<lower, upper>>, <<>>, TRUE)
Choose(base, var, pred) ==
  IF SortIs(base, "set") THEN New("choose", Elem(base), <<base, pred>>, <<var>>, TRUE) ELSE Rejected
AllSubsets(base) == New("subsets", SetSort(Sort(base)), <<base>>, <<>>, SortIs(base, "set"))
AllMaps(keys, vals) ==
  IF SortIs(keys, "set") /\ SortIs(vals, "set")
  THEN New("maps", SetSort(MapSort(Elem(keys), Elem(vals))), <<keys, vals>>, <<>>, TRUE)
  ELSE Rejected
AllTuples(sets) ==
  IF sets # <<>> /\ \A i \in DOMAIN sets : SortIs(sets[i], "set")
  THEN New("tuples", SetSort(TupleSort([i \in DOMAIN sets |-> Elem(sets[i])])), sets, <<>>, TRUE)
  ELSE Rejected
AllRecords(fields, sets) ==
  IF sets # <<>> /\ \A i \in DOMAIN sets : SortIs(sets[i], "set")
  THEN New("records", SetSort(RecordSort([f \in ToSet(fields) |->
             Elem(sets[CHOOSE i \in DOMAIN fields : fields[i] = f])])), sets, fields, TRUE)
  ELSE Rejected

(* list_ast.py *)
ListEnum(elem, args) == New("list", ListSort(elem), args, <<>>, AllOf(args, elem))
ListRange(lower, upper) ==
  New("range", ListSort(IntSort), <<lower, upper>>, <<>>, AllOf(<<lower, upper>>, IntSort))
ListGet(list, index) ==
  IF SortIs(list, "list") /\ Sort(index) = IntSort
  THEN New("listget", Elem(list), <<list, index>>, <<>>, TRUE) ELSE Rejected
ListUpdate(list, index, val) ==
  New("listset", Sort(list), <<list, index, val>>, <<>>,
      Sort(list) = ListSort(Sort(val)) /\ Sort(index) = IntSort)
ListSlice(list, start, end) ==
  New("slice", Sort(list), <<list, start, end>>, <<>>,
      SortIs(list, "list") /\ AllOf(<<start, end>>, IntSort))
ListFilter(list, var, pred) ==
  New("listfilter", Sort(list), <<list, pred>>, <<var>>,
      SortIs(list, "list") /\ Sort(pred) = BoolSort)
ListReduce(list, vars, fun, initial) ==
  New("listreduce", Sort(fun), <<list, fun, initial>>, vars, SortIs(list, "list"))
ListKeys(list) == New("listkeys", SetSort(IntSort), <<list>>, <<>>, SortIs(list, "list"))

(* map_ast.py.  A map is given as keys and values in turn. *)
MapEnum(key, val, args) ==
  New("map", MapSort(key, val), args, <<>>,
      \A i \in DOMAIN args : Sort(args[i]) = IF i % 2 = 1 THEN key ELSE val)
MapLambda(base, var, mapper) ==
  New("maplambda", MapSort(Sort(var), Sort(mapper)), <<base, mapper>>, <<Label(var)>>, TRUE)
MapGet(map, key) ==
  IF SortIs(map, "map") /\ Sort(key) = Elem(map)
  THEN New("mapget", Sort(map)[3], <<map, key>>, <<>>, TRUE) ELSE Rejected
MapSet(map, key, val, replaceOnly) ==
  New("mapset", Sort(map), <<map, key, val>>, replaceOnly, Sort(map) = MapSort(Sort(key), Sort(val)))
MapKeys(map) ==
  IF SortIs(map, "map") THEN New("mapkeys", SetSort(Elem(map)), <<map>>, <<>>, TRUE) ELSE Rejected

(* record_ast.py and tuple_ast.py.  The first element of a tuple has index 0. *)
RecordCtor(fields, args) ==
  New("record", RecordSort([f \in ToSet(fields) |-> Sort(args[CHOOSE i \in DOMAIN fields : fields[i] = f])]),
      args, fields, TRUE)
HasField(e, f) == SortIs(e, "record") /\ f \in DOMAIN Elem(e)
RecordUpdate(rec, field, val) ==
  New("recset", Sort(rec), <<rec, val>>, field, HasField(rec, field) /\ Elem(rec)[field] = Sort(val))
RecordGet(rec, field) ==
  IF HasField(rec, field) THEN New("recget", Elem(rec)[field], <<rec>>, field, TRUE) ELSE Rejected
TupleCtor(args) ==
  New("tuple", TupleSort([i \in DOMAIN args |-> Sort(args[i])]), args, <<>>, args # <<>>)
HasIndex(e, index) == SortIs(e, "tuple") /\ index + 1 \in DOMAIN Elem(e)
TupleUpdate(tup, index, val) ==
  New("tupset", Sort(tup), <<tup, val>>, index, HasIndex(tup, index) /\ Elem(tup)[index + 1] = Sort(val))
TupleGet(tup, index) ==
  IF HasIndex(tup, index) THEN New("tupget", Elem(tup)[index + 1], <<tup>>, index, TRUE) ELSE Rejected

(* union_ast.py.  Without a payload there is no argument and no variable. *)
UnionCtor(sort, tag, payload) ==
  New("variant", sort, payload, tag,
      /\ tag \in DOMAIN sort[2]
      /\ IF payload = <<>> THEN sort[2][tag] = NoPayload ELSE sort[2][tag] = Sort(payload[1]))
UnionGetTag(u) == New("tag", StrSort, <<u>>, <<>>, SortIs(u, "union"))
\* cases: a function from tags to a record with the variables and the body
UnionMatch(u, cases) ==
  LET tags == SetToSeq(DOMAIN cases)
  IN IF /\ SortIs(u, "union") /\ DOMAIN cases = DOMAIN Elem(u)
        /\ \A t \in DOMAIN cases :
             /\ (cases[t].vars = <<>>) <=> (Elem(u)[t] = NoPayload)
             /\ \A i \in DOMAIN cases[t].vars : Sort(cases[t].vars[i]) = Elem(u)[t]
             /\ Sort(cases[t].body) = Sort(cases[tags[1]].body)
     THEN New("match", Sort(cases[tags[1]].body),
              <<u>> \o [i \in DOMAIN tags |-> cases[tags[i]].body],
              [i \in DOMAIN tags |-> <<tags[i], [j \in DOMAIN cases[tags[i]].vars |->
                                                   Label(cases[tags[i]].vars[j])]>>], TRUE)
     ELSE Rejected

(* temporal_ast.py *)
ToTemporal(e) == New("totemporal", TemporalSort, <<e>>, <<>>, TRUE)
Always(e) == New("always", TemporalSort, <<e>>, <<>>, TRUE)
Eventually(e) == New("eventually", TemporalSort, <<e>>, <<>>, TRUE)
=============================================================================

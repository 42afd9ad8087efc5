---------------------------- MODULE QuintConvert ----------------------------
(***************************************************************************)
(* The conversion of Quint (wunderspec/quint_convert.py): the script that  *)
(* is generated for a Quint expression, and what it means in Quint.        *)
(*                                                                         *)
(* A Quint expression is a literal, a state variable, a local name (by its *)
(* position), an application <<"qapp", opcode, arguments, lambda>>, a      *)
(* nested definition <<"qlet", values, body>> or the call of a local       *)
(* operator <<"qcall", arguments, body>>.                                  *)
(***************************************************************************)
EXTENDS Scripts

QLit(kind, x) == <<"qlit", <<kind, x>>>>
QVar(name) == <<"qvar", name>>
QLocal(i) == <<"qlocal", i>>
QApp(op, args) == <<"qapp", op, args, <<>>>>
QLambda(op, args, body) == <<"qapp", op, args, body>>
QLet(values, body) == <<"qlet", values, body>>
QCall(args, body) == <<"qcall", args, body>>

----------------------------------------------------------------------------
(* _expr: the script of an application, by opcode.  x are the scripts of its  *)
(* arguments, and q the application where they do not tell enough.            *)

Binary ==
  [eq |-> "eq", neq |-> "ne", iadd |-> "plus", isub |-> "minus", imul |-> "mul", idiv |-> "div",
   imod |-> "mod", ilt |-> "lt", ilte |-> "le", igt |-> "gt", igte |-> "ge", ipow |-> "pow",
   iff |-> "eq"]
Boolean ==
  [and |-> "And", or |-> "Or", implies |-> "Implies", not |-> "~", iuminus |-> "neg", ite |-> "ite"]
Collection == [Set |-> "Set", List |-> "List", Map |-> "Map", range |-> "range"]
SetOperator ==
  [union |-> "|", exclude |-> "minus", intersect |-> "&", subseteq |-> "le",
   powerset |-> "subsets", setOfMaps |-> "maps", tuples |-> "tuples"]
Attribute == [size |-> "size", length |-> "size", keys |-> "keys", flatten |-> "flattened"]
Fold == [fold |-> "reduce"]
Callback ==
  [forall |-> "forall", exists |-> "exists", filter |-> "filter", map |-> "map", mapBy |-> "map_to"]

Literal(value) == Call("Val", <<<<"py", value>>>>)
NameScript(name) == StateS(name)
\* A local operator becomes an @expr function.
LocalOperator(values, body) == CallWith("expr", values, body)
TupleScript(x) == Call("Tuple", x)
RecordScript(x) == Call("Record", x)
MatchVariant(x, branch) == CallWith("matchAll", x, branch)
\* set and put alike.
Replaced(x) == Call("replace", x)
ItemOf(x, key) == Call("item", <<x, key>>)
TupleItem(x, q) == ItemOf(x[1], PyS("int", q[3][2][2][2] - 1))
FieldOf(x, q) == ItemOf(x[1], PyS("str", q[3][2][2][2]))
\* update is the script of the lambda at the value of the key.
ReplacedBy(x, update) == Call("replace", <<x[1], x[2], update>>)
WithField(x, q) == Call("replace", <<x[1], PyS("str", q[3][2][2][2]), x[3]>>)
ContainsKeyOrMember(x, type) ==
  Call("contains", <<IF type[1] = "map" THEN Call("keys", <<x[1]>>) ELSE x[1], x[2]>>)
ListScript(op, x) ==
  CASE op = "append" -> Call("plus", <<x[1], Call("List", <<x[2]>>)>>)
    [] op = "concat" -> Call("plus", x)
    [] op = "head" -> ItemOf(x[1], PyS("int", 0))
    [] op = "tail" -> Call("from", <<x[1], PyS("int", 1)>>)
    [] op = "slice" -> Call("slice", x)
    [] op = "nth" -> ItemOf(x[1], x[2])
    [] op = "indices" ->
         Call("interval", <<PyS("int", 0), Call("minus", <<Call("size", x), Literal(<<"int", 1>>)>>)>>)
    [] op = "to" -> Call("interval", x)
Variant(op, x) == IF op = "n" THEN Call("none", <<>>) ELSE Call("some", x)

\* _quint_sort_list, in the prelude of each generated file: insertion into a sorted
\* list; its callback compares integers.  d callbacks are open.
SortedList(list, d) ==
  LET acc == Param(d + 3)
      current == Param(d + 4)
      item == Param(d + 2)
      first(t) == ItemOf(t, PyS("int", 0))
      second(t) == ItemOf(t, PyS("int", 1))
      pair(l, done) == Call("Tuple", <<l, Call("Val", <<PyS("bool", done)>>)>>)
      plus(l, e) == Call("plus", <<l, Call("List", <<e>>)>>)
      body == Call("ite", <<second(acc), pair(plus(first(acc), current), TRUE),
                Call("ite", <<Call("lt", <<current, item>>), pair(plus(first(acc), current), FALSE),
                              pair(plus(plus(first(acc), item), current), TRUE)>>)>>)
      insertion == CallWith("reduce", <<Param(d + 1), pair(Call("no ints", <<>>), FALSE)>>, body)
  IN CallWith("reduce", <<list, Call("no ints", <<>>)>>,
              Call("ite", <<second(insertion), first(insertion), plus(first(insertion), item)>>))

----------------------------------------------------------------------------
(* The types of Quint, as sorts. *)

Untyped == <<"untyped">>
Typed(cond, type) == IF cond THEN type ELSE Untyped
IntSet == SetSort(IntSort)
ParamTypes(op, t) ==
  CASE op = "fold" -> <<t[2], t[1][2]>>
    [] op = "setBy" -> <<t[1][3]>>
    [] op = "matchVariant" -> <<IntSort>>
    [] OTHER -> <<t[1][2]>>
Iterable(op) ==
  CASE op \in {"forall", "exists", "filter", "map", "mapBy"} -> {"set"}
    [] op = "fold" -> {"set", "list"}
    [] op = "setBy" -> {"map"}
    [] op = "matchVariant" -> {"union"}

\* The type of an application; b is the type of its lambda's body.
AppType(op, t, q, b) ==
  LET all(s) == \A i \in DOMAIN t : t[i] = s
      same == \A i \in DOMAIN t : t[i] = t[1]
      one(kind) == t[1][1] = kind
      literal(kind) == q[3][2][1] = "qlit" /\ q[3][2][2][1] = kind
      member(k) == IF k \in DOMAIN t[1][2] THEN t[1][2][k] ELSE Untyped
  IN CASE op \in {"iadd", "isub", "imul", "idiv", "imod", "ipow", "iuminus"} -> Typed(all(IntSort), IntSort)
       [] op \in {"ilt", "ilte", "igt", "igte"} -> Typed(all(IntSort), BoolSort)
       [] op \in {"eq", "neq"} -> Typed(same, BoolSort)
       [] op \in {"and", "or", "implies", "iff", "not"} -> Typed(all(BoolSort), BoolSort)
       [] op = "ite" -> Typed(t[1] = BoolSort /\ t[2] = t[3], t[2])
       [] op \in {"range"} -> Typed(all(IntSort), ListSort(IntSort))
       [] op = "to" -> Typed(all(IntSort), IntSet)
       [] op = "Set" -> Typed(same, SetSort(t[1]))
       [] op = "List" -> Typed(same, ListSort(t[1]))
       [] op = "Map" -> MapSort(t[1], t[2])
       [] op = "Tup" -> TupleSort(t)
       [] op = "Rec" -> RecordSort([f |-> t[1], g |-> t[2]])
       [] op = "p" -> Typed(all(IntSort), UnionS)
       [] op = "item" -> IF one("tuple") /\ literal("int") THEN member(q[3][2][2][2]) ELSE Untyped
       [] op = "field" -> IF one("record") /\ literal("str") THEN member(q[3][2][2][2]) ELSE Untyped
       [] op = "with" -> IF one("record") /\ literal("str")
                         THEN Typed(member(q[3][2][2][2]) = t[3], t[1]) ELSE Untyped
       [] op = "get" -> Typed(one("map") /\ t[1][2] = t[2], t[1][3])
       [] op \in {"set", "put"} -> Typed(one("map") /\ t[1] = MapSort(t[2], t[3]), t[1])
       [] op = "setBy" -> Typed(t[1][2] = t[2] /\ b = t[1][3], t[1])
       [] op \in {"union", "exclude", "intersect"} -> Typed(one("set") /\ same, t[1])
       [] op = "subseteq" -> Typed(one("set") /\ same, BoolSort)
       [] op = "in" -> Typed(t[2] = SetSort(t[1]), BoolSort)
       [] op = "contains" -> Typed(t[1][1] \in {"set", "map"} /\ t[1][2] = t[2], BoolSort)
       [] op = "powerset" -> Typed(one("set"), SetSort(t[1]))
       [] op = "setOfMaps" -> Typed(one("set") /\ t[2][1] = "set", SetSort(MapSort(t[1][2], t[2][2])))
       [] op = "tuples" -> Typed(one("set") /\ t[2][1] = "set", SetSort(TupleSort(<<t[1][2], t[2][2]>>)))
       [] op = "size" -> Typed(one("set"), IntSort)
       [] op \in {"length", "head", "nth", "append", "concat", "tail", "slice", "indices", "sortList"} ->
            Typed(one("list") /\ CASE op \in {"nth", "slice"} -> \A i \in 2..Len(t) : t[i] = IntSort
                                   [] op = "append" -> t[2] = t[1][2]
                                   [] op = "concat" -> same
                                   [] op = "sortList" -> t[1] = ListSort(IntSort)
                                   [] OTHER -> TRUE,
                  CASE op = "length" -> IntSort [] op \in {"head", "nth"} -> t[1][2]
                    [] op = "indices" -> IntSet [] OTHER -> t[1])
       [] op = "keys" -> Typed(one("map"), SetSort(t[1][2]))
       [] op = "flatten" -> Typed(one("set") /\ t[1][2][1] = "set", t[1][2])
       [] op \in {"forall", "exists"} -> Typed(b = BoolSort, BoolSort)
       [] op = "filter" -> Typed(b = BoolSort, t[1])
       [] op = "map" -> SetSort(b)
       [] op = "mapBy" -> MapSort(t[1][2], b)
       [] op = "fold" -> Typed(b = t[2], b)
       [] op = "matchVariant" -> Typed(t[1] = UnionS /\ b = t[2], b)

RECURSIVE TypeOf(_, _)
TypeOf(q, locals) ==
  LET t == [i \in DOMAIN q[3] |-> TypeOf(q[3][i], locals)]
      values == [i \in DOMAIN q[2] |-> TypeOf(q[2][i], locals)]
  IN CASE q[1] = "qlit" -> <<q[2][1]>>
       [] q[1] = "qvar" -> StateSort[q[2]]
       [] q[1] = "qlocal" -> IF q[2] \in DOMAIN locals THEN locals[q[2]] ELSE Untyped
       [] q[1] \in {"qlet", "qcall"} ->
            IF Untyped \in ToSet(values) THEN Untyped ELSE TypeOf(q[3], locals \o values)
       [] q[2] = "n" -> UnionS
       [] Untyped \in ToSet(t) -> Untyped
       [] q[4] = <<>> -> AppType(q[2], t, q, Untyped)
       [] ~(t[1][1] \in Iterable(q[2])) -> Untyped
       [] OTHER -> LET b == TypeOf(q[4], locals \o ParamTypes(q[2], t))
                   IN IF b = Untyped THEN Untyped ELSE AppType(q[2], t, q, b)

----------------------------------------------------------------------------
\* The script of an expression in which the locals have the given scripts and
\* types, inside of d callbacks.
RECURSIVE Script(_, _, _, _)
Script(q, scope, types, d) ==
  LET x == [i \in DOMAIN q[3] |-> Script(q[3][i], scope, types, d)]
      t == [i \in DOMAIN q[3] |-> TypeOf(q[3][i], types)]
      values == [i \in DOMAIN q[2] |-> Script(q[2][i], scope, types, d)]
      valueTypes == [i \in DOMAIN q[2] |-> TypeOf(q[2][i], types)]
      op == q[2]
      \* The body of the lambda, with the scripts of its parameters.
      applied(scripts, depth) == Script(q[4], scope \o scripts, types \o ParamTypes(op, t), depth)
      lambda == LET n == Len(ParamTypes(op, t)) IN applied([i \in 1..n |-> Param(d + i)], d + n)
  IN CASE q[1] = "qlit" -> Literal(q[2])
       [] q[1] = "qvar" -> NameScript(q[2])
       [] q[1] = "qlocal" -> scope[q[2]]
       \* (lambda name: body)(value), and the definitions of a module: functions of Python.
       [] q[1] = "qlet" -> Script(q[3], scope \o values, types \o valueTypes, d)
       [] q[1] = "qcall" ->
            LocalOperator(values,
                          Script(q[3], scope \o [i \in DOMAIN values |-> Param(d + i)],
                                 types \o valueTypes, d + Len(values)))
       [] op \in DOMAIN Binary -> Call(Binary[op], x)
       [] op = "in" -> Call("contains", <<x[2], x[1]>>)
       [] op \in DOMAIN Boolean -> Call(Boolean[op], x)
       [] op \in DOMAIN Collection -> Call(Collection[op], x)
       [] op = "Tup" -> TupleScript(x)
       [] op = "Rec" -> RecordScript(x)
       [] op \in {"n", "p"} -> Variant(op, x)
       [] op = "get" -> ItemOf(x[1], x[2])
       [] op = "item" -> TupleItem(x, q)
       [] op = "field" -> FieldOf(x, q)
       [] op \in {"set", "put"} -> Replaced(x)
       [] op = "setBy" -> ReplacedBy(x, applied(<<ItemOf(x[1], x[2])>>, d))
       [] op = "with" -> WithField(x, q)
       [] op \in DOMAIN SetOperator -> Call(SetOperator[op], x)
       [] op = "contains" -> ContainsKeyOrMember(x, t[1])
       [] op \in DOMAIN Attribute -> Call(Attribute[op], x)
       [] op = "sortList" -> SortedList(x[1], d)
       [] op = "matchVariant" -> MatchVariant(x, lambda)
       [] op \in DOMAIN Callback -> CallWith(Callback[op], x, lambda)
       [] op \in DOMAIN Fold -> CallWith(Fold[op], x, lambda)
       [] OTHER -> ListScript(op, x)

----------------------------------------------------------------------------
(* What a Quint expression means.  Of what stops a run of Quint nothing is    *)
(* said, nor of the quotient of negative numbers.                             *)

NotSaid == <<"error", "open">>
Said(cond, v) == IF cond THEN v ELSE NotSaid
Members(S, P(_)) == {x \in S : P(x) = BoolV(TRUE)}
QuintApp(op, x, q) ==
  LET a == x[1][2]
      b == x[2][2]
      c == x[3][2]
  IN CASE op \in {"eq", "iff"} -> BoolV(x[1] = x[2])
       [] op = "neq" -> BoolV(x[1] # x[2])
       [] op = "iadd" -> IntV(a + b)
       [] op = "isub" -> IntV(a - b)
       [] op = "imul" -> IntV(a * b)
       [] op = "idiv" -> Said(a >= 0 /\ b > 0, IntV(a \div b))
       [] op = "imod" -> Said(a >= 0 /\ b > 0, IntV(a % b))
       [] op = "ipow" -> Said(b > 0 \/ (b = 0 /\ a # 0), IntV(a ^ b))
       [] op = "ilt" -> BoolV(a < b)
       [] op = "ilte" -> BoolV(a <= b)
       [] op = "igt" -> BoolV(a > b)
       [] op = "igte" -> BoolV(a >= b)
       [] op = "not" -> BoolV(~a)
       [] op = "iuminus" -> IntV(-a)
       [] op = "range" -> Said(a <= b, ListV([i \in 1..(b - a) |-> IntV(a + i - 1)]))
       [] op = "to" -> SetV({IntV(n) : n \in a..b})
       [] op = "Set" -> SetV(ToSet(x))
       [] op = "List" -> ListV(x)
       [] op = "Map" -> MapV(x[1] :> x[2])
       [] op = "Tup" -> <<"tuple", x>>
       [] op = "Rec" -> <<"record", [f |-> x[1], g |-> x[2]]>>
       [] op = "n" -> <<"union", "n", <<>>>>
       [] op = "p" -> <<"union", "p", x>>
       [] op \in {"item", "field"} -> a[b]
       [] op = "with" -> <<"record", [a EXCEPT ![b] = x[3]]>>
       [] op = "get" -> IF x[2] \in DOMAIN a THEN a[x[2]] ELSE NotSaid
       [] op = "set" -> Said(x[2] \in DOMAIN a, MapV([a EXCEPT ![x[2]] = x[3]]))
       [] op = "put" -> MapV((x[2] :> x[3]) @@ a)
       [] op = "union" -> SetV(a \cup b)
       [] op = "exclude" -> SetV(a \ b)
       [] op = "intersect" -> SetV(a \cap b)
       [] op = "subseteq" -> BoolV(a \subseteq b)
       [] op = "in" -> BoolV(x[1] \in b)
       [] op = "contains" -> BoolV(x[2] \in IF Kind(x[1]) = "map" THEN DOMAIN a ELSE a)
       [] op = "powerset" -> SetV({SetV(S) : S \in SUBSET a})
       [] op = "setOfMaps" -> SetV({MapV(f) : f \in [a -> b]})
       [] op = "tuples" -> SetV({<<"tuple", p>> : p \in a \X b})
       [] op = "size" -> IntV(Cardinality(a))
       [] op = "length" -> IntV(Len(a))
       [] op = "keys" -> SetV(DOMAIN a)
       [] op = "append" -> ListV(Append(a, x[2]))
       [] op = "concat" -> ListV(a \o b)
       [] op = "flatten" -> SetV(UNION {y[2] : y \in a})
       [] op = "head" -> IF a = <<>> THEN NotSaid ELSE a[1]
       [] op = "tail" -> IF a = <<>> THEN NotSaid ELSE ListV(Tail(a))
       [] op = "slice" -> Said(0 <= b /\ b <= c /\ c <= Len(a), ListV(SubSeq(a, b + 1, c)))
       [] op = "nth" -> IF b \in 0..(Len(a) - 1) THEN a[b + 1] ELSE NotSaid
       [] op = "indices" -> SetV({IntV(i - 1) : i \in DOMAIN a})
       [] op = "sortList" -> ListV(SortSeq(a, LAMBDA v, w : v[2] < w[2]))

RECURSIVE QuintValue(_, _)
QuintValue(q, locals) ==
  LET arg(i) == QuintValue(q[3][i], locals)
      x == [i \in DOMAIN q[3] |-> arg(i)]
      values == [i \in DOMAIN q[2] |-> QuintValue(q[2][i], locals)]
      body(vs) == QuintValue(q[4], locals \o vs)
      body1(v) == body(<<v>>)
      op == q[2]
      S == x[1][2]
      over(v) == IF \E e \in S : IsError(body1(e)) THEN NotSaid ELSE v
      fold(acc, e) == IF IsError(acc) THEN acc ELSE body(<<acc, e>>)
      short(stop) == IF IsError(arg(1)) \/ arg(1)[2] = stop THEN arg(1) ELSE arg(2)
  IN CASE q[1] = "qlit" -> q[2]
       [] q[1] = "qvar" -> State[q[2]]
       [] q[1] = "qlocal" -> locals[q[2]]
       [] q[1] \in {"qlet", "qcall"} ->
            IF Errors(values) # <<>> THEN NotSaid ELSE QuintValue(q[3], locals \o values)
       [] op = "and" -> short(FALSE)
       [] op = "or" -> short(TRUE)
       [] op = "implies" -> IF arg(1) = BoolV(FALSE) THEN BoolV(TRUE) ELSE short(FALSE)
       [] op = "ite" -> IF IsError(arg(1)) THEN NotSaid ELSE arg(IF arg(1)[2] THEN 2 ELSE 3)
       [] op = "matchVariant" ->
            CASE IsError(arg(1)) -> NotSaid [] arg(1)[2] = "p" -> body(arg(1)[3]) [] OTHER -> arg(2)
       [] Errors(x) # <<>> -> NotSaid
       [] op = "setBy" ->
            IF x[2] \in DOMAIN S /\ ~IsError(body1(S[x[2]]))
            THEN MapV([S EXCEPT ![x[2]] = body1(S[x[2]])]) ELSE NotSaid
       [] op = "forall" -> over(BoolV(Members(S, body1) = S))
       [] op = "exists" -> over(BoolV(Members(S, body1) # {}))
       [] op = "filter" -> over(SetV(Members(S, body1)))
       [] op = "map" -> over(SetV({body1(e) : e \in S}))
       [] op = "mapBy" -> over(MapV([e \in S |-> body1(e)]))
       [] op = "fold" -> FoldLeft(fold, x[2], IF Kind(x[1]) = "set" THEN Elements(S) ELSE S)
       [] OTHER -> QuintApp(op, x, q)
=============================================================================

----------------------------- MODULE Interpreter -----------------------------
(***************************************************************************)
(* Native evaluation of expression nodes: value() of                       *)
(* wunderspec/interpreter.py.                                              *)
(*                                                                         *)
(* A value is a tuple that starts with its kind.  A set is either listed,  *)
(* <<"set", S>>, or a filter or an image of another one, which keeps the   *)
(* node of its body and the environment it was made in and evaluates them  *)
(* when it is looked at.  How listed, counted and compared sets agree is   *)
(* the matter of SetValues.                                                *)
(*                                                                         *)
(* An environment is a record: vals are the values of the keys, top the    *)
(* keys of its innermost dictionary, and shared the keys of dictionaries   *)
(* that a running loop will write to again.                                *)
(***************************************************************************)
EXTENDS Expressions, FiniteSetsExt, Functions, TLC

Domain == <<"error", "domain">>     \* ValueError and ZeroDivisionError of the user's doing
SortError == <<"error", "sort">>    \* "Expected ...Value, got ..."
Unbound == <<"error", "unbound">>
Rebound == <<"error", "rebound">>
Recursion == <<"error", "recursion">>
Temporal == <<"error", "temporal">>
Kind(v) == v[1]
IsError(v) == Kind(v) = "error"

IntV(n) == <<"int", n>>
BoolV(b) == <<"bool", b>>
SetV(S) == <<"set", S>>
ListV(s) == <<"list", s>>
MapV(f) == <<"map", f>>
Ints(signed) == <<"ints", signed>>
FilterV(base, key, body, env) == <<"filter", base, key, body, env>>
ImageV(base, key, body, env) == <<"image", base, key, body, env>>
\* What acc is to a set that evaluates acc after it became the value of acc.
Loop == <<"loop">>

IsSetV(v) == Kind(v) \in {"set", "filter", "image", "ints"}

----------------------------------------------------------------------------
(* _BindingEnv *)

StateEnv(state) == [vals |-> state, top |-> {}, shared |-> {}]
Bind(env, new) == [env EXCEPT !.vals = new @@ @, !.top = DOMAIN new]
\* set() copies the innermost dictionary.
SetIn(env, new) ==
  [vals |-> new @@ env.vals, top |-> env.top \cup DOMAIN new, shared |-> env.shared \ env.top]
\* One dictionary for all turns of a loop.
LoopEnv(env, new) == [Bind(env, new) EXCEPT !.shared = @ \cup DOMAIN new]

\* The sets in v see what the loop has written to its dictionary since.
RECURSIVE Rewritten(_, _)
Rewritten(v, new) ==
  CASE Kind(v) \in {"filter", "image"} ->
         LET seen == {k \in DOMAIN new : k \in v[5].shared}
         IN [v EXCEPT ![2] = Rewritten(@, new),
                      ![5].vals = [k \in DOMAIN @ |-> IF k \in seen THEN new[k]
                                                     ELSE Rewritten(@[k], new)]]
    [] Kind(v) \in {"list", "map", "tuple", "record"} ->
         <<v[1], [k \in DOMAIN v[2] |-> Rewritten(v[2][k], new)]>>
    [] Kind(v) = "union" /\ v[3] # <<>> -> [v EXCEPT ![3] = <<Rewritten(@[1], new)>>]
    [] OTHER -> v

----------------------------------------------------------------------------
(* Arithmetic, comparison and Boolean nodes on evaluated arguments. *)

BothInts(l, r, result) == IF Kind(l) = "int" /\ Kind(r) = "int" THEN result ELSE SortError
ArithValue(op, l, r) ==
  LET a == l[2]
      b == r[2]
  IN BothInts(l, r,
       CASE op = "add" -> IntV(a + b)
         [] op = "sub" -> IntV(a - b)
         [] op = "mul" -> IntV(a * b)
         [] op = "div" -> IF b = 0 THEN Domain
                          ELSE IntV(IF b > 0 THEN a \div b ELSE (-a) \div (-b))
         [] op = "mod" -> IF b = 0 THEN Domain
                          ELSE IntV(IF b > 0 THEN a % b ELSE -((-a) % (-b)))
         [] op = "pow" -> IF b < 0 \/ (a = 0 /\ b = 0) THEN Domain ELSE IntV(a ^ b))
OrderValue(op, l, r) ==
  BothInts(l, r, BoolV(CASE op = "lt" -> l[2] < r[2]
                         [] op = "le" -> l[2] <= r[2]
                         [] op = "gt" -> l[2] > r[2]
                         [] op = "ge" -> l[2] >= r[2]))
ArithOps == {"add", "sub", "mul", "div", "mod", "pow"}
OrderOps == {"lt", "le", "gt", "ge"}
SetOps == {"union", "intersect", "difference", "subseteq"}

\* list(elements)[a:b]: a negative end counts from the last element.
SliceBound(n, len) == Max({0, Min({len, IF n < 0 THEN n + len ELSE n})})
SliceOf(s, a, b) == SubSeq(s, SliceBound(a, Len(s)) + 1, SliceBound(b, Len(s)))

----------------------------------------------------------------------------
\* Evaluation is one recursion: of a node, of the elements that a set lists, and
\* of a value without lazy sets in it.
RECURSIVE Eval(_)
Value(e, env) == Eval(<<"value", e, env>>)
Listing(v) == Eval(<<"listing", v>>)
Denoted(v) == Eval(<<"denoted", v>>)

\* The elements in the order of a loop over the set; the body of an image may
\* give one of them more than once.
Elements(S) == FoldSet(LAMBDA x, s : Append(s, x), <<>>, S)
ListingOf(v) ==
  CASE Kind(v) = "set" -> Elements(v[2])
    [] Kind(v) = "ints" -> <<Domain>>
    [] Kind(v) = "filter" ->
         LET base == Listing(v[2])
             holds(x) == IF IsError(x) THEN x ELSE Value(v[4], Bind(v[5], v[3] :> x))
             kept(s, x) == CASE holds(x) = BoolV(TRUE) -> Append(s, x)
                             [] holds(x) = BoolV(FALSE) -> s
                             [] OTHER -> Append(s, IF IsError(holds(x)) THEN holds(x) ELSE SortError)
         IN FoldLeft(kept, <<>>, base)
    [] Kind(v) = "image" ->
         LET base == Listing(v[2])
         IN [i \in DOMAIN base |-> IF IsError(base[i]) THEN base[i]
                                   ELSE Value(v[4], Bind(v[5], v[3] :> base[i]))]

\* The first error of a sequence of values, else what they make.
Errors(vals) == SelectSeq(vals, IsError)
Unless(vals, result) == IF Errors(vals) # <<>> THEN Errors(vals)[1] ELSE result
Over(v, result) ==
  IF IsError(v) THEN v ELSE IF ~IsSetV(v) THEN SortError ELSE Unless(Listing(v), result)

\* materialize, at every depth.
DenotedAll(s) == [i \in DOMAIN s |-> Denoted(s[i])]
DenotedOf(v) ==
  CASE Kind(v) = "set" \/ Kind(v) = "ints" -> v
    [] Kind(v) \in {"filter", "image"} ->
         LET elems == DenotedAll(Listing(v)) IN Unless(elems, SetV(ToSet(elems)))
    [] Kind(v) \in {"list", "tuple"} ->
         LET elems == DenotedAll(v[2]) IN Unless(elems, <<v[1], elems>>)
    [] Kind(v) \in {"map", "record"} ->
         LET f == [k \in DOMAIN v[2] |-> Denoted(v[2][k])]
             bad == {k \in DOMAIN f : IsError(f[k])}
         IN IF bad # {} THEN f[CHOOSE k \in bad : TRUE] ELSE <<v[1], f>>
    [] Kind(v) = "union" ->
         LET p == DenotedAll(v[3]) IN Unless(p, <<"union", v[2], p>>)
    [] OTHER -> v
\* The constructor of a listed set materializes its elements.
SetOfValues(vals) == LET elems == DenotedAll(vals) IN Unless(elems, SetV(ToSet(elems)))

VarValue(e, env) ==
  LET key == Label(e)[2]
      plain == <<Label(e)[1]>>
      found == IF key \in DOMAIN env.vals THEN env.vals[key]
               ELSE IF plain \in DOMAIN env.vals THEN env.vals[plain] ELSE Unbound
  IN IF found = Loop THEN Recursion ELSE found

\* and, or and implies stop at the first operand that settles them.
RECURSIVE Settled(_, _, _)
Settled(args, env, stop) ==
  IF args = <<>> THEN BoolV(~stop)
  ELSE LET v == Value(args[1], env)
       IN CASE IsError(v) -> v
            [] Kind(v) # "bool" -> SortError
            [] v[2] = stop -> v
            [] OTHER -> Settled(Tail(args), env, stop)

\* The environments of a body: one for each element in turn, or for each member
\* of the product of several domains, which are all evaluated before.  An error
\* stands for the turn that raises it.
Products(domains) ==
  FoldLeft(LAMBDA rows, d : FlattenSeq([i \in DOMAIN rows |->
             [j \in DOMAIN d |-> Append(rows[i], d[j])]]), <<<<>>>>, domains)
Turns(e, env) ==
  LET key(i) == Label(e)[i][2]
      n == Len(Label(e))
      domains == [i \in 1..n |-> LET d == Value(Args(e)[i], env)
                                 IN IF IsError(d) THEN <<d>>
                                    ELSE IF IsSetV(d) THEN Listing(d) ELSE <<SortError>>]
      errors == Errors(FlattenSeq(domains))
      rows == Products(domains)
      bound(row) == <<"env", Bind(env, [k \in {key(i) : i \in 1..n} |->
                                         row[CHOOSE i \in 1..n : key(i) = k]])>>
  IN IF n > 1 /\ errors # <<>> THEN <<errors[1]>>
     ELSE [i \in DOMAIN rows |-> IF Errors(rows[i]) # <<>> THEN Errors(rows[i])[1]
                                 ELSE bound(rows[i])]
Body(e, turn) == IF IsError(turn) THEN turn ELSE Value(Last(Args(e)), turn[2])
Predicate(e, turn) ==
  LET v == Body(e, turn) IN IF Kind(v) \in {"bool", "error"} THEN v ELSE SortError

\* One binder stays lazy, several are evaluated at once.  Of several binders a
\* filter keeps the last.
Lazily(e, env, v) ==
  LET base == Value(Args(e)[1], env)
  IN IF IsError(base) THEN base ELSE IF IsSetV(base) THEN v ELSE SortError
FilterValue(e, env) ==
  LET turns == Turns(e, env)
      preds == [i \in DOMAIN turns |-> Predicate(e, turns[i])]
      kept == SelectSeq([i \in DOMAIN turns |-> i], LAMBDA i : preds[i] = BoolV(TRUE))
      last == Last(Label(e))[2]
  IN IF Len(Label(e)) = 1
     THEN Lazily(e, env, FilterV(Value(Args(e)[1], env), Label(e)[1][2], Args(e)[2], env))
     ELSE Unless(preds, SetOfValues([i \in DOMAIN kept |-> turns[kept[i]][2].vals[last]]))
ImageValue(e, env) ==
  LET turns == Turns(e, env)
  IN IF Len(Label(e)) = 1
     THEN Lazily(e, env, ImageV(Value(Args(e)[1], env), Label(e)[1][2], Args(e)[2], env))
     ELSE SetOfValues([i \in DOMAIN turns |-> Body(e, turns[i])])

\* Stops at the first turn that settles it.
RECURSIVE FirstTurn(_, _, _)
FirstTurn(e, turns, stop) ==
  IF turns = <<>> THEN BoolV(~stop)
  ELSE LET v == Predicate(e, turns[1])
       IN IF IsError(v) \/ v[2] = stop THEN v ELSE FirstTurn(e, Tail(turns), stop)
QuantValue(e, env) == FirstTurn(e, Turns(e, env), Op(e) = "exists")

\* A set is reduced in the environment that set() copies; the initial value is
\* evaluated outside of it.
ReduceValue(e, env) ==
  LET base == Value(Args(e)[1], env)
      init == Value(Args(e)[3], env)
      step(acc, x) ==
        IF IsError(acc) THEN acc
        ELSE Value(Args(e)[2], SetIn(SetIn(env, Label(e)[1][2] :> acc), Label(e)[2][2] :> x))
  IN IF IsError(base) THEN base
     ELSE IF IsError(init) THEN init
     ELSE Over(base, FoldLeft(step, init, Listing(base)))

\* The element with the least fingerprint: which one that is, is arbitrary but
\* depends on the elements only.
ChooseValue(e, env) ==
  LET base == Value(Args(e)[1], env)
      holds(x) == Value(Args(e)[2], SetIn(env, Label(e)[1][2] :> x))
      preds == [i \in DOMAIN Listing(base) |-> holds(Listing(base)[i])]
      kept == {Denoted(Listing(base)[i]) : i \in {j \in DOMAIN preds : preds[j] = BoolV(TRUE)}}
  IN Over(base, Unless([i \in DOMAIN preds |-> IF Kind(preds[i]) \in {"bool", "error"}
                                               THEN preds[i] ELSE SortError],
                       IF kept = {} THEN Domain ELSE CHOOSE x \in kept : TRUE))

\* One dictionary for all elements: the sets among the values see its last state.
MapLambdaValue(e, env) ==
  LET base == Value(Args(e)[1], env)
      key == Label(e)[1][2]
      elems == Listing(base)
      vals == [i \in DOMAIN elems |-> Value(Args(e)[2], LoopEnv(env, key :> elems[i]))]
      final(v) == Rewritten(v, key :> Last(elems))
  IN Over(base, Unless(vals,
       MapV([k \in {Denoted(x) : x \in ToSet(elems)} |->
               final(vals[Max({i \in DOMAIN elems : Denoted(elems[i]) = k})])])))
ListFilterValue(e, env) ==
  LET base == Value(Args(e)[1], env)
      preds == [i \in DOMAIN base[2] |-> Value(Args(e)[2], LoopEnv(env, Label(e)[1][2] :> base[2][i]))]
      kept == SelectSeq([i \in DOMAIN preds |-> i], LAMBDA i : preds[i] = BoolV(TRUE))
  IN IF IsError(base) THEN base ELSE IF Kind(base) # "list" THEN SortError
     ELSE Unless([i \in DOMAIN preds |-> IF Kind(preds[i]) \in {"bool", "error"} THEN preds[i]
                                         ELSE SortError],
                 ListV([i \in DOMAIN kept |-> base[2][kept[i]]]))
ListReduceValue(e, env) ==
  LET base == Value(Args(e)[1], env)
      init == Value(Args(e)[3], env)
      acc == Label(e)[1][2]
      elem == Label(e)[2][2]
      step(a, x) ==
        IF IsError(a) THEN a
        ELSE LET current == Rewritten(a, (acc :> Loop) @@ (elem :> x))
             IN Value(Args(e)[2], LoopEnv(env, (acc :> current) @@ (elem :> x)))
  IN CASE IsError(base) -> base
       [] Kind(base) # "list" -> SortError
       [] OTHER -> FoldLeft(step, init, base[2])

----------------------------------------------------------------------------
(* Nodes without binders: from the values of their arguments. *)

GetAt(s, n, result) == IF n < 0 \/ n >= Len(s) THEN Domain ELSE result
Expect(kind, v, result) == IF Kind(v) = kind THEN result ELSE SortError
SetsOnly(vals, result) == IF \A i \in DOMAIN vals : IsSetV(vals[i]) THEN result ELSE SortError

SetAlgebraValue(op, l, r) ==
  SetsOnly(<<l, r>>,
    LET a == Denoted(l)
        b == Denoted(r)
    IN IF op = "subseteq"
       THEN Over(l, IF Kind(r) = "ints" THEN BoolV(\A x \in Denoted(l)[2] : r[2] \/ x[2] >= 0)
                    ELSE Over(r, BoolV(Denoted(l)[2] \subseteq Denoted(r)[2])))
       ELSE IF \E x \in {l, r} : Kind(x) = "ints" THEN Domain
       ELSE Unless(<<a, b>>, SetV(CASE op = "union" -> a[2] \cup b[2]
                                    [] op = "intersect" -> a[2] \cap b[2]
                                    [] op = "difference" -> a[2] \ b[2])))
EqValue(op, l, r) ==
  LET a == Denoted(l)
      b == Denoted(r)
  IN Unless(<<a, b>>, BoolV(IF op = "eq" THEN a = b ELSE a # b))
InValue(x, s) ==
  LET e == Denoted(x)
  IN SetsOnly(<<s>>,
       IF IsError(e) THEN e
       ELSE IF Kind(s) = "ints" THEN BoolV(Kind(e) = "int" /\ (s[2] \/ e[2] >= 0))
       ELSE LET d == Denoted(s) IN IF IsError(d) THEN d ELSE BoolV(e \in d[2]))
\* len() counts what a filter lists; an image is materialized first.
CountValue(s) ==
  SetsOnly(<<s>>, IF Kind(s) = "filter" THEN Over(s, IntV(Len(Listing(s))))
                  ELSE IF Kind(s) = "ints" THEN Domain
                  ELSE LET d == Denoted(s) IN IF IsError(d) THEN d ELSE IntV(Cardinality(d[2])))
FlattenValue(s) ==
  LET inner == Listing(s)
  IN Over(s, SetsOnly(inner, SetOfValues(FlattenSeq([i \in DOMAIN inner |-> Listing(inner[i])]))))

MapSetValue(m, k, v, replaceOnly) ==
  LET key == Denoted(k)
  IN Expect("map", m, IF IsError(key) THEN key
                      ELSE IF replaceOnly /\ key \notin DOMAIN m[2] THEN m
                      ELSE MapV((key :> v) @@ m[2]))
MapGetValue(m, k) ==
  LET key == Denoted(k)
  IN Expect("map", m, IF IsError(key) THEN key
                      ELSE IF key \in DOMAIN m[2] THEN m[2][key] ELSE Domain)
MapEnumValue(vals) ==
  LET keys == {Denoted(vals[i]) : i \in {j \in DOMAIN vals : j % 2 = 1}}
      place(k) == Max({i \in DOMAIN vals : i % 2 = 1 /\ Denoted(vals[i]) = k})
  IN MapV([k \in keys |-> vals[place(k) + 1]])
AllTuplesOf(sets) ==
  {s \in [DOMAIN sets -> UNION ToSet(sets)] : \A i \in DOMAIN sets : s[i] \in sets[i]}
AllValues(op, vals, label) ==
  SetsOnly(vals,
    LET d == DenotedAll(vals)
        sets == [i \in DOMAIN d |-> d[i][2]]
    IN IF \E i \in DOMAIN vals : Kind(vals[i]) = "ints" THEN Domain
       ELSE Unless(d, SetV(
         CASE op = "subsets" -> {SetV(S) : S \in SUBSET sets[1]}
           [] op = "maps" -> {MapV(f) : f \in [sets[1] -> sets[2]]}
           [] op = "tuples" -> {<<"tuple", s>> : s \in AllTuplesOf(sets)}
           [] op = "records" ->
                {<<"record", [f \in ToSet(label) |-> s[CHOOSE i \in DOMAIN label : label[i] = f]]>> :
                   s \in AllTuplesOf(sets)})))

ListNodeValue(op, vals) ==
  LET s == vals[1][2]
      ints == \A i \in 2..3 : i \in DOMAIN vals => Kind(vals[i]) = "int"
  IN Expect("list", vals[1],
       CASE op = "size" -> IntV(Len(s))
         [] op = "listkeys" -> SetV({IntV(n) : n \in 0..(Len(s) - 1)})
         [] op = "concat" -> Expect("list", vals[2], ListV(s \o vals[2][2]))
         [] op = "listget" ->
              Expect("int", vals[2], GetAt(s, vals[2][2], s[vals[2][2] + 1]))
         [] op = "listset" ->
              Expect("int", vals[2],
                     GetAt(s, vals[2][2], ListV([s EXCEPT ![vals[2][2] + 1] = vals[3]])))
         [] op = "slice" ->
              IF ints THEN ListV(SliceOf(s, vals[2][2], vals[3][2])) ELSE SortError)
ListOps == {"size", "listkeys", "concat", "listget", "listset", "slice"}

RecordBuilt(op, label, vals) ==
  CASE op = "record" ->
         <<"record", [f \in ToSet(label) |-> vals[CHOOSE i \in DOMAIN label : label[i] = f]]>>
    [] op = "recget" -> Expect("record", vals[1], vals[1][2][label])
    [] op = "recset" -> Expect("record", vals[1], <<"record", [vals[1][2] EXCEPT ![label] = vals[2]]>>)
TupleBuilt(op, label, vals) ==
  CASE op = "tuple" -> <<"tuple", vals>>
    [] op = "tupget" -> Expect("tuple", vals[1], GetAt(vals[1][2], label, vals[1][2][label + 1]))
    [] op = "tupset" -> Expect("tuple", vals[1], <<"tuple", [vals[1][2] EXCEPT ![label + 1] = vals[2]]>>)
UnionBuilt(op, label, vals) ==
  IF op = "variant" THEN <<"union", label, vals>>
  ELSE Expect("union", vals[1], <<"str", vals[1][2]>>)
\* Both ends of an interval belong to it, of a list range the first.
IntervalBuilt(lo, hi) == BothInts(lo, hi, SetV({IntV(n) : n \in lo[2]..hi[2]}))
ListRangeBuilt(lo, hi) ==
  BothInts(lo, hi, ListV([i \in 1..Max({0, hi[2] - lo[2]}) |-> IntV(lo[2] + i - 1)]))

Built(op, label, vals) ==
  CASE op = "list" -> ListV(vals)
    [] op = "set" -> SetOfValues(vals)
    [] op = "map" -> MapEnumValue(vals)
    [] op \in {"record", "recget", "recset"} -> RecordBuilt(op, label, vals)
    [] op \in {"tuple", "tupget", "tupset"} -> TupleBuilt(op, label, vals)
    [] op \in {"variant", "tag"} -> UnionBuilt(op, label, vals)
    [] op = "interval" -> IntervalBuilt(vals[1], vals[2])
    [] op = "range" -> ListRangeBuilt(vals[1], vals[2])
    [] op = "mapkeys" -> Expect("map", vals[1], SetV(DOMAIN vals[1][2]))
    [] op = "neg" -> Expect("int", vals[1], IntV(-vals[1][2]))
    [] op = "not" -> Expect("bool", vals[1], BoolV(~vals[1][2]))
    [] op = "cardinality" -> CountValue(vals[1])
    [] op = "flatten" -> FlattenValue(vals[1])
    [] op = "in" -> InValue(vals[1], vals[2])
    [] op \in {"eq", "ne"} -> EqValue(op, vals[1], vals[2])
    [] op = "mapget" -> MapGetValue(vals[1], vals[2])
    [] op = "mapset" -> MapSetValue(vals[1], vals[2], vals[3], label)
    [] op \in ArithOps -> ArithValue(op, vals[1], vals[2])
    [] op \in OrderOps -> OrderValue(op, vals[1], vals[2])
    [] op \in SetOps -> SetAlgebraValue(op, vals[1], vals[2])
    [] op \in ListOps -> ListNodeValue(op, vals)
    [] op \in {"subsets", "maps", "tuples", "records"} -> AllValues(op, vals, label)
    [] op = "totemporal" -> vals[1]
    [] op \in {"always", "eventually"} -> Temporal

IteValue(e, env) ==
  LET c == Value(Args(e)[1], env)
  IN CASE IsError(c) -> c
       [] Kind(c) # "bool" -> SortError
       [] OTHER -> Value(Args(e)[IF c[2] THEN 2 ELSE 3], env)
ImpliesValue(e, env) ==
  LET l == Value(Args(e)[1], env)
      r == Value(Args(e)[2], env)
  IN CASE IsError(l) -> l
       [] Kind(l) # "bool" -> SortError
       [] ~l[2] -> BoolV(TRUE)
       [] IsError(r) -> r
       [] OTHER -> Expect("bool", r, r)
LetValue(e, env) ==
  LET v == Value(Args(e)[1], env)
      key == Label(e)[2]
  IN CASE IsError(v) -> v
       [] key \in DOMAIN env.vals -> Rebound
       [] OTHER -> Value(Args(e)[2], Bind(env, key :> v))
CallValue(e, env) ==
  LET n == Len(Args(e)) - 1
      vals == [i \in 1..n |-> Value(Args(e)[i], env)]
  IN Unless(vals, Value(Last(Args(e)),
       FoldLeft(LAMBDA en, i : Bind(en, Label(e)[i][2] :> vals[i]), env, [i \in 1..n |-> i])))
MatchValue(e, env) ==
  LET u == Value(Args(e)[1], env)
      i == CHOOSE j \in DOMAIN Label(e) : Label(e)[j][1] = u[2]
      vars == Label(e)[i][2]
  IN CASE IsError(u) -> u
       [] Kind(u) # "union" -> SortError
       [] OTHER -> Value(Args(e)[i + 1],
                         IF vars = <<>> THEN env ELSE SetIn(env, vars[1][2] :> u[3][1]))

ValueOf(e, env) ==
  CASE Op(e) = "lit" -> Label(e)
    [] Op(e) = "ints" -> Ints(Label(e))
    [] Op(e) = "var" -> VarValue(e, env)
    [] Op(e) = "let" -> LetValue(e, env)
    [] Op(e) = "call" -> CallValue(e, env)
    [] Op(e) = "ite" -> IteValue(e, env)
    [] Op(e) = "match" -> MatchValue(e, env)
    [] Op(e) = "implies" -> ImpliesValue(e, env)
    [] Op(e) = "and" -> Settled(Args(e), env, FALSE)
    [] Op(e) = "or" -> Settled(Args(e), env, TRUE)
    [] Op(e) = "filter" -> FilterValue(e, env)
    [] Op(e) = "setmap" -> ImageValue(e, env)
    [] Op(e) \in {"forall", "exists"} -> QuantValue(e, env)
    [] Op(e) = "reduce" -> ReduceValue(e, env)
    [] Op(e) = "choose" -> ChooseValue(e, env)
    [] Op(e) = "maplambda" -> MapLambdaValue(e, env)
    [] Op(e) = "listfilter" -> ListFilterValue(e, env)
    [] Op(e) = "listreduce" -> ListReduceValue(e, env)
    [] OTHER -> LET vals == [i \in DOMAIN Args(e) |-> Value(Args(e)[i], env)]
                IN Unless(vals, Built(Op(e), Label(e), vals))
Eval(job) ==
  CASE job[1] = "value" -> ValueOf(job[2], job[3])
    [] job[1] = "listing" -> ListingOf(job[2])
    [] job[1] = "denoted" -> DenotedOf(job[2])
=============================================================================

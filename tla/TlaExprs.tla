------------------------------ MODULE TlaExprs ------------------------------
(***************************************************************************)
(* Expressions in TLA+: the term that wunderspec/tla.py writes for an      *)
(* expression node, and what the term means in TLA+.                       *)
(*                                                                         *)
(* A term is <<construct, terms below it, label>>; a name is the key of    *)
(* its variable.  Text, parentheses and type annotations are left out.     *)
(* TLA+ has no lists, tuples, maps and records apart from functions: all   *)
(* are <<"fun", f>>.                                                       *)
(***************************************************************************)
EXTENDS Interpreter

Term1(tla, args, label) == <<tla, args, label>>
Plain(tla, args) == Term1(tla, args, <<>>)
Number(n) == Term1("lit", <<>>, IntV(n))
Apply(f, x) == Plain("apply", <<f, x>>)
\* path: the terms of the keys, from the outermost.
Except(base, path, val) == Plain("except", <<base, val>> \o path)
Fun(name, domain, body) == Term1("fun", <<domain, body>>, name)
IfThen(cond, then, else) == Plain("ite", <<cond, then, else>>)
Names(vars) == [i \in DOMAIN vars |-> vars[i][2]]

\* Lists count from 0, sequences from 1.
\* Mutant of Position1: the position of the list.
Position0(index) == index
Position1(index) == Plain("add", <<index, Number(1)>>)

\* Names of variants start with a capital letter; two tags that become one name
\* are numbered.
Capital == [n |-> "N", p |-> "P"]
SafeTag(sort, tag) ==
  LET tags == SetToSeq(DOMAIN sort[2])
      number(t) == CHOOSE i \in DOMAIN tags : tags[i] = t
  IN <<Capital[tag], Cardinality({t \in DOMAIN sort[2] : /\ Capital[t] = Capital[tag]
                                                       /\ number(t) <= number(tag)})>>

----------------------------------------------------------------------------
(* _node_to_doc, by the classes of nodes; a are the terms of the arguments. *)

RECURSIVE Term(_)

\* These are operators of TLA+ with the meaning of the node.
ArithTerms == {"sub", "add", "mul", "div", "mod", "pow", "neg"}
OrderTerms == {"lt", "le", "gt", "ge", "eq", "ne"}
BoolTerms == {"and", "or", "not", "implies"}
SetTerms == {"set", "interval", "union", "intersect", "difference", "cardinality", "subseteq",
             "flatten", "in"}
AllSetTerms == {"subsets", "maps"}
TemporalTerms == {"totemporal", "always", "eventually"}
SameOps ==
  ArithTerms \cup OrderTerms \cup BoolTerms \cup SetTerms \cup AllSetTerms \cup TemporalTerms
    \cup {"ite"}
QuantTerm(e, a) == Term1(Op(e), a, Names(Label(e)))
\* Nested: {x \in S: {y \in T: ...}}.
FilterTerm(e, a) ==
  FoldRight(LAMBDA i, body : Term1("filter", <<a[i], body>>, <<Label(e)[i][2]>>),
            [i \in DOMAIN Label(e) |-> i], Last(a))
ImageTerm(e, a) == Term1("setmap", a, Names(Label(e)))
ChooseTerm(e, a) == Term1("choose", a, Names(Label(e)))
MapLambdaTerm(e, a) == Fun(Label(e)[1][2], a[1], a[2])

\* _min_max_reduce_op: the reducer is IF new > acc THEN new ELSE acc, or with < .
IsMinMax(e) ==
  LET fun == Args(e)[2]
      cond == Args(fun)[1]
      is(x, var) == Op(x) = "var" /\ Label(x) = var
  IN /\ Op(fun) = "ite" /\ Op(cond) \in {"gt", "lt"}
     /\ is(Args(cond)[1], Label(e)[2]) /\ is(Args(cond)[2], Label(e)[1])
     /\ is(Args(fun)[2], Label(e)[2]) /\ is(Args(fun)[3], Label(e)[1])
     /\ Sort(e) = IntSort /\ Sort(Args(e)[3]) = IntSort
ListKeysTerm(l) ==
  Plain("difference",
        <<Plain("union", <<Plain("set", <<Number(0)>>), Plain("domain", <<l>>)>>),
          Plain("set", <<Plain("len", <<l>>)>>)>>)
Fresh(name) == <<"fresh", name>>
NameOf(key) == Term1("name", <<>>, key)
\* _list_values_set_doc
ListValues(l) ==
  Term1("setmap", <<ListKeysTerm(l), Apply(l, Position1(NameOf(Fresh("i"))))>>, <<Fresh("i")>>)
\* The candidate that no other one is beyond.
MinMaxTerm(e, a) ==
  LET values == IF Op(e) = "reduce" THEN a[1] ELSE ListValues(a[1])
      candidates == NameOf(Fresh("candidates"))
      order == IF Op(Args(Args(e)[2])[1]) = "gt" THEN "ge" ELSE "le"
      beyondNone ==
        Term1("forall", <<candidates, Plain(order, <<NameOf(Fresh("chosen")), NameOf(Fresh("other"))>>)>>,
              <<Fresh("other")>>)
  IN Term1("let",
           <<Plain("union", <<values, Plain("set", <<a[3]>>)>>),
             Term1("choose", <<candidates, beyondNone>>, <<Fresh("chosen")>>)>>,
           Fresh("candidates"))
\* A local operator of the accumulator and the element, folded over the base.
ReduceTerm(e, a) ==
  IF IsMinMax(e) THEN MinMaxTerm(e, a)
  ELSE Term1(IF Op(e) = "reduce" THEN "foldset" ELSE "foldseq", a, Names(Label(e)))

MapEnumTerm(a) ==
  Plain("merge", [i \in 1..(Len(a) \div 2) |-> Plain("pair", <<a[2 * i - 1], a[2 * i]>>)])
TupleTerm(a) == Plain("tuple", a)
IndexTerm(e) == Number(Label(e) + 1)
FieldTerm(e) == Term1("lit", <<>>, <<"str", Label(e)>>)
RecordTerm(e, a) == Term1("record", a, Label(e))
\* (A) \X (B): of one set the set itself.
ProductTerm(a) == IF Len(a) = 1 THEN a[1] ELSE Plain("product", a)
AllRecordsTerm(e, a) == Term1("allrecords", a, Label(e))

ListRangeTerm(a) ==
  Fun(<<"i">>, Plain("interval", <<a[1], Plain("sub", <<a[2], Number(1)>>)>>), NameOf(<<"i">>))
SliceTerm(a) == Plain("subseq", <<a[1], Position1(a[2]), a[3]>>)
ListFilterTerm(e, a) == Term1("selectseq", a, Names(Label(e)))
ConcatTerm(e, a) ==
  LET right == Args(e)[2]
  IN IF Op(right) = "list" /\ Len(Args(right)) = 1 THEN Plain("append", <<a[1], a[2][2][1]>>)
     ELSE Plain("concat", a)

\* The key of a get or an update, and its term in [... EXCEPT ![key] = ...].
KeyTerm(e, a) ==
  CASE Op(e) \in {"mapget", "mapset"} -> a[2]
    [] Op(e) \in {"tupget", "tupset"} -> IndexTerm(e)
    [] Op(e) \in {"listget", "listset"} -> Position1(a[2])
    [] Op(e) \in {"recget", "recset"} -> FieldTerm(e)
Gets == {"mapget", "tupget", "listget", "recget"}
Updates == {"mapset", "tupset", "listset", "recset"}

\* _try_collapse_except: LET t == root[k] IN [root EXCEPT ![k] = [t EXCEPT ![l] = v]]
\* is [root EXCEPT ![k][l] = v], for chains of any length and with an alias of the root.
RECURSIVE LetChain(_)
LetChain(e) == IF Op(e) = "let" THEN <<e>> \o LetChain(Args(e)[2]) ELSE <<e>>
RECURSIVE UpdateChain(_, _)
UpdateChain(e, n) ==
  IF n > 0 /\ Op(e) \in Updates THEN <<e>> \o UpdateChain(Last(Args(e)), n - 1) ELSE <<>>
KeyOf(e) == IF Op(e) \in {"tupget", "tupset", "recget", "recset"} THEN Label(e) ELSE Args(e)[2]
IsVarNamed(e, label) == Op(e) = "var" /\ Label(e) = label
Collapsible(e) ==
  LET lets == Front(LetChain(e))
      n == Len(lets)
      val(i) == Args(lets[i])[1]
      inlined == Op(val(1)) \in Gets /\ Op(Args(val(1))[1]) = "var"
      root == IF inlined THEN Args(val(1))[1] ELSE val(1)
      gets == IF inlined THEN [i \in 1..n |-> val(i)] ELSE [i \in 1..(n - 1) |-> val(i + 1)]
      parents == (IF inlined THEN <<Label(root)>> ELSE <<>>) \o [i \in 1..n |-> Label(lets[i])]
      sets == UpdateChain(Last(LetChain(e)), Len(parents))
  IN IF /\ \A i \in 2..n : Op(val(i)) \in Gets /\ IsVarNamed(Args(val(i))[1], Label(lets[i - 1]))
        /\ Len(sets) = Len(parents)
        /\ \A i \in DOMAIN sets : IsVarNamed(Args(sets[i])[1], parents[i])
        /\ \A i \in DOMAIN gets : KeyOf(gets[i]) = KeyOf(sets[i])
     THEN <<[root |-> root, sets |-> sets]>>
     ELSE <<>>
CollapsedTerm(term(_), root, sets) ==
  Except(term(root),
         [i \in DOMAIN sets |->
            KeyTerm(sets[i], [j \in DOMAIN Args(sets[i]) |-> term(Args(sets[i])[j])])],
         term(Last(Args(Last(sets)))))
LetTerm(e, a) == Term1("let", a, Label(e)[2])

\* The operator that _collect_extracted_exprs defines for the call.
CallTerm(e, a) == Term1("call", a, Names(Label(e)))
VariantTerm(e, a) == Term1("variant", a, SafeTag(Sort(e), Label(e)))
\* The tag as the user knows it.
TagTerm(e, a) ==
  LET sort == Sort(Args(e)[1])
  IN FoldSet(LAMBDA t, else :
               IfThen(Plain("eq", <<Plain("tag", a), Term1("lit", <<>>, SafeTag(sort, t))>>),
                      Term1("lit", <<>>, <<"str", t>>), else),
             Plain("tag", a), DOMAIN sort[2])
MatchTerm(e, a) ==
  LET sort == Sort(Args(e)[1])
      case(i) ==
        LET vars == Label(e)[i][2]
        IN IF vars = <<>> THEN a[i + 1]
           ELSE Term1("let", <<Term1("payload", <<a[1]>>, SafeTag(sort, Label(e)[i][1])), a[i + 1]>>,
                      vars[1][2])
      is(i) == Plain("eq", <<Plain("tag", <<a[1]>>), Term1("lit", <<>>, SafeTag(sort, Label(e)[i][1]))>>)
  IN FoldRight(LAMBDA i, else : IfThen(is(i), case(i), else),
               [i \in 1..(Len(Label(e)) - 1) |-> i], case(Len(Label(e))))

Term(e) ==
  LET term(x) == Term(x)
      a == [i \in DOMAIN Args(e) |-> term(Args(e)[i])]
  IN CASE Op(e) = "lit" -> Term1("lit", <<>>, Label(e))
       [] Op(e) = "var" -> Term1("name", <<>>, Label(e)[2])
       [] Op(e) = "ints" -> Term1("lit", <<>>, Ints(Label(e)))
       [] Op(e) \in SameOps -> Plain(Op(e), a)
       [] Op(e) \in {"forall", "exists"} -> QuantTerm(e, a)
       [] Op(e) = "filter" -> FilterTerm(e, a)
       [] Op(e) = "setmap" -> ImageTerm(e, a)
       [] Op(e) = "choose" -> ChooseTerm(e, a)
       [] Op(e) = "maplambda" -> MapLambdaTerm(e, a)
       [] Op(e) \in {"reduce", "listreduce"} -> ReduceTerm(e, a)
       [] Op(e) = "map" -> MapEnumTerm(a)
       [] Op(e) \in {"tuple", "list"} -> TupleTerm(a)
       [] Op(e) = "record" -> RecordTerm(e, a)
       [] Op(e) = "tuples" -> ProductTerm(a)
       [] Op(e) = "records" -> AllRecordsTerm(e, a)
       [] Op(e) = "range" -> ListRangeTerm(a)
       [] Op(e) = "slice" -> SliceTerm(a)
       [] Op(e) = "size" -> Plain("len", a)
       [] Op(e) = "listkeys" -> ListKeysTerm(a[1])
       [] Op(e) = "mapkeys" -> Plain("domain", a)
       [] Op(e) = "listfilter" -> ListFilterTerm(e, a)
       [] Op(e) = "concat" -> ConcatTerm(e, a)
       [] Op(e) \in Gets -> Apply(a[1], KeyTerm(e, a))
       [] Op(e) \in Updates -> Except(a[1], <<KeyTerm(e, a)>>, Last(a))
       [] Op(e) = "let" ->
            LET updates == Collapsible(e)
            IN IF updates = <<>> THEN LetTerm(e, a)
               ELSE CollapsedTerm(term, updates[1].root, updates[1].sets)
       [] Op(e) = "call" -> CallTerm(e, a)
       [] Op(e) = "variant" -> VariantTerm(e, a)
       [] Op(e) = "tag" -> TagTerm(e, a)
       [] Op(e) = "match" -> MatchTerm(e, a)

----------------------------------------------------------------------------
(***************************************************************************)
(* What a term means in TLA+.                                              *)
(***************************************************************************)

Undefined == <<"error", "undefined">>
\* TLA+ does not fix the value: CHOOSE of several, % by a negative number.
Open == <<"error", "open">>
FunV(f) == <<"fun", f>>
SeqV(s) == FunV([k \in {IntV(i) : i \in DOMAIN s} |-> s[k[2]]])
IsSeqV(v) == Kind(v) = "fun" /\ DOMAIN v[2] = {IntV(i) : i \in 1..Cardinality(DOMAIN v[2])}
Items(v) == [i \in 1..Cardinality(DOMAIN v[2]) |-> v[2][IntV(i)]]
OnSeq(v, result) == IF IsSeqV(v) THEN result ELSE Undefined
OnSets(vals, result) ==
  IF \A i \in DOMAIN vals : Kind(vals[i]) = "set" THEN result ELSE Undefined
OnInts(vals, result) ==
  IF \A i \in DOMAIN vals : Kind(vals[i]) = "int" THEN result ELSE Undefined
Product(sets) == {s \in [DOMAIN sets -> UNION ToSet(sets)] : \A i \in DOMAIN sets : s[i] \in sets[i]}

\* An EXCEPT changes nothing where the function is not defined.
RECURSIVE Updated(_, _, _)
Updated(f, path, val) ==
  CASE path = <<>> -> val
    [] Kind(f) # "fun" -> Undefined
    [] path[1] \notin DOMAIN f[2] -> f
    [] OTHER -> LET new == Updated(f[2][path[1]], Tail(path), val)
                IN IF IsError(new) THEN new ELSE FunV([f[2] EXCEPT ![path[1]] = new])

\* Operators on the values of their arguments.
Applied(tla, label, v) ==
  CASE tla \in {"div", "mod"} -> OnInts(v, IF v[2][2] <= 0 THEN Open ELSE ArithValue(tla, v[1], v[2]))
    [] tla \in ArithOps -> OnInts(v, ArithValue(tla, v[1], v[2]))
    [] tla \in OrderOps -> OnInts(v, OrderValue(tla, v[1], v[2]))
    [] tla = "neg" -> OnInts(v, IntV(-v[1][2]))
    [] tla = "eq" -> BoolV(v[1] = v[2])
    [] tla = "ne" -> BoolV(v[1] # v[2])
    [] tla = "not" -> IF Kind(v[1]) = "bool" THEN BoolV(~v[1][2]) ELSE Undefined
    [] tla = "set" -> SetV(ToSet(v))
    [] tla = "interval" -> OnInts(v, SetV({IntV(n) : n \in v[1][2]..v[2][2]}))
    [] tla = "union" -> OnSets(v, SetV(v[1][2] \cup v[2][2]))
    [] tla = "intersect" -> OnSets(v, SetV(v[1][2] \cap v[2][2]))
    [] tla = "difference" -> OnSets(v, SetV(v[1][2] \ v[2][2]))
    [] tla = "subseteq" -> OnSets(v, BoolV(v[1][2] \subseteq v[2][2]))
    [] tla = "cardinality" -> OnSets(v, IntV(Cardinality(v[1][2])))
    [] tla = "flatten" -> OnSets(v, OnSets(Elements(v[1][2]), SetV(UNION {x[2] : x \in v[1][2]})))
    [] tla = "in" -> OnSets(<<v[2]>>, BoolV(v[1] \in v[2][2]))
    [] tla = "subsets" -> OnSets(v, SetV({SetV(X) : X \in SUBSET v[1][2]}))
    [] tla = "maps" -> OnSets(v, SetV({FunV(f) : f \in [v[1][2] -> v[2][2]]}))
    [] tla = "product" ->
         OnSets(v, SetV({SeqV(s) : s \in Product([i \in DOMAIN v |-> v[i][2]])}))
    [] tla = "allrecords" ->
         OnSets(v, SetV({FunV([k \in {<<"str", f>> : f \in ToSet(label)} |->
                                 s[CHOOSE i \in DOMAIN label : label[i] = k[2]]]) :
                           s \in Product([i \in DOMAIN v |-> v[i][2]])}))
    [] tla = "record" ->
         FunV([k \in {<<"str", f>> : f \in ToSet(label)} |->
                 v[CHOOSE i \in DOMAIN label : label[i] = k[2]]])
    [] tla = "tuple" -> SeqV(v)
    [] tla = "pair" -> FunV(v[1] :> v[2])
    [] tla = "merge" -> FoldLeft(LAMBDA f, g : FunV(f[2] @@ g[2]), v[1], Tail(v))
    [] tla = "apply" -> IF Kind(v[1]) = "fun" /\ v[2] \in DOMAIN v[1][2] THEN v[1][2][v[2]] ELSE Undefined
    [] tla = "except" -> Updated(v[1], SubSeq(v, 3, Len(v)), v[2])
    [] tla = "domain" -> IF Kind(v[1]) = "fun" THEN SetV(DOMAIN v[1][2]) ELSE Undefined
    [] tla = "len" -> OnSeq(v[1], IntV(Len(Items(v[1]))))
    [] tla = "concat" -> OnSeq(v[1], OnSeq(v[2], SeqV(Items(v[1]) \o Items(v[2]))))
    [] tla = "append" -> OnSeq(v[1], SeqV(Append(Items(v[1]), v[2])))
    [] tla = "subseq" ->
         OnSeq(v[1], OnInts(<<v[2], v[3]>>,
           IF v[2][2] > v[3][2] THEN SeqV(<<>>)
           ELSE IF v[2][2] < 1 \/ v[3][2] > Len(Items(v[1])) THEN Undefined
           ELSE SeqV(SubSeq(Items(v[1]), v[2][2], v[3][2]))))
    [] tla = "variant" -> <<"variant", label, v>>
    [] tla = "tag" -> IF Kind(v[1]) = "variant" THEN v[1][2] ELSE Undefined
    [] tla = "payload" -> IF Kind(v[1]) = "variant" THEN v[1][3][1] ELSE Undefined
    [] tla = "totemporal" -> v[1]

\* env.state are the variables of the module, env.locals the names bound around the
\* term; at(i, env) is the value of the term's i-th subterm.
Scope(env) == env.locals @@ env.state
\* A name in scope cannot be bound again.
InScope(at(_, _), i, env, new) ==
  IF DOMAIN new \cap DOMAIN Scope(env) # {} THEN Undefined
  ELSE at(i, [env EXCEPT !.locals = new @@ @])

\* The values of the body of a term for each row of its domains, as <<row, value>>.
Rows(at(_, _), names, env) ==
  LET domains == [i \in DOMAIN names |-> at(i, env)]
      rows == Elements(Product([i \in DOMAIN domains |-> domains[i][2]]))
      bound(row) == [k \in ToSet(names) |-> row[CHOOSE i \in DOMAIN row : names[i] = k]]
      vals == [i \in DOMAIN rows |-> InScope(at, Len(names) + 1, env, bound(rows[i]))]
  IN Unless(domains, OnSets(domains, Unless(vals,
       <<"rows", {<<rows[i], vals[i]>> : i \in DOMAIN rows}>>)))
OnRows(rows, result) == IF IsError(rows) THEN rows ELSE result
\* Those for which a predicate holds.
OnTrue(rows, result) ==
  OnRows(rows, IF \A r \in rows[2] : Kind(r[2]) = "bool" THEN result ELSE Undefined)
Where(rows) == {r \in rows[2] : r[2] = BoolV(TRUE)}
Bound(tla, rows) ==
  CASE tla = "forall" -> OnTrue(rows, BoolV(Where(rows) = rows[2]))
    [] tla = "exists" -> OnTrue(rows, BoolV(Where(rows) # {}))
    [] tla = "filter" -> OnTrue(rows, SetV({r[1][1] : r \in Where(rows)}))
    [] tla = "setmap" -> OnRows(rows, SetV({r[2] : r \in rows[2]}))
    [] tla = "choose" ->
         OnTrue(rows, IF Where(rows) = {} THEN Undefined
                      ELSE IF Cardinality(Where(rows)) > 1 THEN Open
                      ELSE (CHOOSE r \in Where(rows) : TRUE)[1][1])
    [] tla = "fun" ->
         OnRows(rows, FunV([k \in {r[1][1] : r \in rows[2]} |->
                             (CHOOSE r \in rows[2] : r[1][1] = k)[2]]))

\* Folds and SelectSeq over the items of a base.
Folded(at(_, _), names, items, init, env) ==
  FoldLeft(LAMBDA acc, x : IF IsError(acc) THEN acc
                           ELSE InScope(at, 2, env, (names[1] :> acc) @@ (names[2] :> x)),
           init, items)
Selected(at(_, _), names, items, env) ==
  LET vals == [i \in DOMAIN items |-> InScope(at, 2, env, names[1] :> items[i])]
      kept == SelectSeq([i \in DOMAIN items |-> i], LAMBDA i : vals[i] = BoolV(TRUE))
  IN Unless(vals, SeqV([i \in DOMAIN kept |-> items[kept[i]]]))
Sequential(at(_, _), t, base, env) ==
  CASE t[1] = "selectseq" -> OnSeq(base, Selected(at, t[3], Items(base), env))
    [] t[1] = "foldset" ->
         OnSets(<<base>>, Folded(at, t[3], Elements(base[2]), at(3, env), env))
    [] t[1] = "foldseq" -> OnSeq(base, Folded(at, t[3], Items(base), at(3, env), env))
\* TLC looks at the operands of a junction in their order, up to one that is `stop`.
Juncts(at(_, _), operands, env, stop) ==
  LET junct(v) == IF IsError(v) \/ Kind(v) = "bool" THEN v ELSE Undefined
  IN FoldLeft(LAMBDA acc, i : IF acc = BoolV(~stop) THEN junct(at(i, env)) ELSE acc,
              BoolV(~stop), operands)
Called(at(_, _), names, env) ==
  LET args == [i \in DOMAIN names |-> at(i, env)]
  IN Unless(args, InScope(at, Len(names) + 1, [env EXCEPT !.locals = <<>>],
                          [k \in ToSet(names) |-> args[CHOOSE i \in DOMAIN args : names[i] = k]]))

RECURSIVE Means(_, _)
Means(t, env) ==
  LET at(i, e) == Means(t[2][i], e)
      all == [i \in DOMAIN t[2] |-> i]
      strict(v) == IF IsError(at(1, env)) THEN at(1, env) ELSE v
  IN CASE t[1] = "lit" -> t[3]
       [] t[1] = "name" -> IF t[3] \in DOMAIN Scope(env) THEN Scope(env)[t[3]] ELSE Undefined
       [] t[1] = "and" -> Juncts(at, all, env, FALSE)
       [] t[1] = "or" -> Juncts(at, all, env, TRUE)
       [] t[1] = "implies" ->
            strict(IF at(1, env) = BoolV(FALSE) THEN BoolV(TRUE) ELSE Juncts(at, all, env, FALSE))
       [] t[1] = "ite" ->
            strict(IF Kind(at(1, env)) # "bool" THEN Undefined
                   ELSE at(IF at(1, env)[2] THEN 2 ELSE 3, env))
       [] t[1] = "let" -> strict(InScope(at, 2, env, t[3] :> at(1, env)))
       [] t[1] = "call" -> Called(at, t[3], env)
       [] t[1] \in {"forall", "exists", "filter", "setmap", "choose"} ->
            Bound(t[1], Rows(at, t[3], env))
       [] t[1] = "fun" -> Bound("fun", Rows(at, <<t[3]>>, env))
       [] t[1] \in {"selectseq", "foldset", "foldseq"} -> strict(Sequential(at, t, at(1, env), env))
       [] OTHER -> LET vals == [i \in DOMAIN t[2] |-> at(i, env)]
                   IN Unless(vals, Applied(t[1], t[3], vals))

\* The value of TLA+ that stands for a value of the interpreter.
RECURSIVE InTla(_, _)
InTla(v, sort) ==
  CASE Kind(v) = "set" -> SetV({InTla(x, sort[2]) : x \in v[2]})
    [] Kind(v) = "list" -> SeqV([i \in DOMAIN v[2] |-> InTla(v[2][i], sort[2])])
    [] Kind(v) = "tuple" -> SeqV([i \in DOMAIN v[2] |-> InTla(v[2][i], sort[2][i])])
    [] Kind(v) = "map" ->
         FunV([k \in {InTla(x, sort[2]) : x \in DOMAIN v[2]} |->
                 InTla(v[2][CHOOSE x \in DOMAIN v[2] : InTla(x, sort[2]) = k], sort[3])])
    [] Kind(v) = "record" ->
         FunV([k \in {<<"str", f>> : f \in DOMAIN v[2]} |-> InTla(v[2][k[2]], sort[2][k[2]])])
    [] Kind(v) = "union" ->
         <<"variant", SafeTag(sort, v[2]), [i \in DOMAIN v[3] |-> InTla(v[3][i], sort[2][v[2]])]>>
    [] OTHER -> v
=============================================================================

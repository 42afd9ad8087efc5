------------------------------ MODULE ScriptsMC ------------------------------
(* The scripts that are checked: calls of state variables and literals, and *)
(* callbacks up to two deep.                                                *)
EXTENDS Scripts

\* A script that is written step by step: `draft` is a body or an operand, and
\* the script is a call with it; node is what the call builds, value its result.
VARIABLES draft, node, value

Literals == {PyS("int", -1), PyS("int", 0), PyS("int", 2), PyS("bool", TRUE), PyS("str", "f")}
Leaves == {StateS(n) : n \in DOMAIN State} \cup Literals
UnaryMethods ==
  {"neg", "empty", "~", "size", "flattened", "keys", "values", "items", "tag", "Set", "List",
   "some", "subsets", "Always"}
BinaryMethods ==
  {"eq", "ne", "lt", "le", "gt", "ge", "mul", "div", "mod", "pow", "plus", "minus", "in",
   "contains", "upto", "interval", "range", "&", "|", "and", "or", "And", "Or", "implies",
   "Implies", "item", "from", "to", "Set", "List", "Tuple", "Record", "Map", "maps", "tuples",
   "records", "Max", "Min", "MaxOf", "AndT"}
TernaryMethods == {"ite", "ifelse", "replace", "insert", "edit"}
Callbacks == {"filter", "map", "map_to", "forall", "exists", "choose"}
Generators == {"set", "setif", "all", "mapgen", "expr", "exprcall"}
Sum == Call("plus", <<StateS("i"), PyS("int", 2)>>)

\* Calls without a callback, of one operand.
Calls(x) ==
  {Call(m, <<x>>) : m \in UnaryMethods}
  \cup {Call(m, <<x, y>>) : m \in BinaryMethods, y \in Leaves}
  \cup {Call(m, <<x, y, z>>) : m \in TernaryMethods,
          y \in {StateS("b"), StateS("i"), PyS("int", 0), PyS("str", "g")},
          z \in {StateS("i"), StateS("l"), PyS("int", 0), PyS("bool", TRUE)}}
\* Two edits of one expression: of a map of lists, a record and a tuple.
Edits ==
  {Call("edit2", <<x, k, a, v, b>>) :
     x \in {StateS("ml"), StateS("r"), Call("Tuple", <<StateS("m"), StateS("l")>>)},
     k \in {PyS("int", 1), PyS("str", "g")}, a \in {PyS("int", 0), StateS("i")},
     b \in {PyS("int", 0), StateS("i"), PyS("int", 5)},
     v \in {PyS("int", 7), Call("size", <<StateS("s")>>)}}

\* Calls with a callback of one parameter and of two.  A generator filters sets:
\* of a list it keeps the keys, which a comprehension in Python does not.
WithOne(body) ==
  {CallWith(m, <<x>>, body) : m \in Callbacks, x \in {StateS("s"), StateS("l"), StateS("ss")}}
  \cup {CallWith(m, <<x>>, body) : m \in {"mapgen", "expr", "exprcall"},
                                   x \in {StateS("s"), StateS("i"), Sum}}
  \cup {CallWith("match", <<StateS("u"), x>>, body) : x \in {PyS("int", 0), StateS("s")}}
WithTwo(body) ==
  {CallWith("reduce", <<x, y>>, body) : x \in {StateS("s"), StateS("l"), StateS("m")},
                                        y \in {PyS("int", 0), StateS("s")}}
  \cup {CallWith(m, <<x, y>>, body) : m \in {"set", "all", "expr", "exprcall"},
          x \in {StateS("l"), Sum}, y \in {StateS("s"), StateS("i")}}
  \cup {CallWith(m, <<x, y>>, body) : m \in {"set", "setif"}, x \in {StateS("s")},
                                      y \in {StateS("s")}}

\* Bodies over the parameters k and k + 1.
Of(k) == {Param(k), Param(k + 1)}
Bodies1(k) ==
  {Param(k), Call("size", <<Param(k)>>)}
  \cup {Call(m, <<Param(k), x>>) : m \in BinaryMethods, x \in {StateS("i"), StateS("s"), PyS("int", 2)}}
Bodies2(k) ==
  {Call(m, <<x, y>>) : m \in {"eq", "lt", "plus", "minus", "Set"}, x \in Of(k), y \in Of(k)}
Inner(k) ==
  UNION {{CallWith(m, <<x>>, b) : m \in {"filter", "map", "map_to", "exists", "choose", "expr"},
                                  x \in {StateS("s"), StateS("l")}} : b \in Bodies2(k)}
  \cup {CallWith("match", <<StateS("u"), PyS("int", 0)>>, b) : b \in Bodies2(k)}
  \cup {CallWith("exprcall", <<Sum>>, b) : b \in Bodies2(k)}
  \cup {CallWith("reduce", <<x, y>>, Call(m, <<p, q>>)) :
          x \in {StateS("s"), StateS("l")}, y \in {PyS("int", 0), StateS("s")},
          m \in {"plus", "minus"}, p \in {Param(k), Param(k + 1)}, q \in {Param(k + 1), Param(k + 2)}}

\* CallOperands that are calls themselves.
CallOperands ==
  {Call(m, <<x>>) : m \in UnaryMethods, x \in {StateS(n) : n \in {"i", "b", "s", "l", "m", "ss"}}}
  \cup {Call(m, <<x, y>>) : m \in {"upto", "plus", "minus", "&", "lt", "eq", "item", "Tuple", "maps"},
                            x \in {StateS("i"), StateS("s"), StateS("l"), StateS("m")},
                            y \in {StateS("i"), StateS("s"), PyS("int", 2)}}

Drafts ==
  {<<"operand", x>> : x \in Leaves \cup {c \in CallOperands : Accepted(Node(c))}}
  \cup {<<"edits">>}
  \cup {<<"body1", b>> : b \in Bodies1(1) \cup Inner(1)}
  \cup {<<"body2", b>> : b \in Bodies2(1) \cup Inner(2)}
Written(d) ==
  CASE d[1] = "operand" -> Calls(d[2])
    [] d[1] = "edits" -> Edits
    [] d[1] = "body1" -> WithOne(d[2])
    [] d[1] = "body2" -> WithTwo(d[2])

Init == draft \in Drafts /\ node = Rejected /\ value = Rejected
Write ==
  /\ draft[1] \in {"operand", "edits", "body1", "body2"}
  /\ \E s \in Written(draft) :
       /\ Accepted(Node(s))
       /\ draft' = s
       /\ node' = Node(s)
       /\ value' = Result(Node(s))

\* Each expression that the API accepts has a value of the sort that the API gave
\* it, or an error that is the script's own.
AcceptedScriptsEvaluate == SortLaw(node, value)
\* The value is the one that the script means in Python and in mathematics.
ScriptsMeanWhatTheySay == draft[1] = "call" => MeaningLaw(draft, node, value)

\* What the interface lets pass and the transfer format does not: predicates that
\* are not Boolean, and Python Booleans as bounds of an interval.
Transferable(e) ==
  \A n \in Nodes(e) : /\ Op(n) \in {"filter", "choose"} => Sort(Last(Args(n))) = BoolSort
                      /\ Op(n) = "interval" => AllOf(Args(n), IntSort)

\* An expression that the API builds is exported to a document that import_spec
\* accepts, in the scope of the state's variables, and rebuilds as it was.
Transfers == INSTANCE Transfer
ExportedIsImported ==
  Accepted(node) /\ Transferable(node) /\ ~Shadows(node) =>
    Transfers!RoundTrips(node, [k \in {PlainKey(n) : n \in DOMAIN State} |-> StateSort[k[1]]])

\* What tla.py does not convert to the same meaning: a filter with several binders,
\* list ranges, slices that leave the list, a call whose body mentions the variables
\* around it.  An insert is converted as a replacement.
RECURSIVE Replacing(_)
Replacing(e) ==
  <<Op(e), Sort(e), [i \in DOMAIN Args(e) |-> Replacing(Args(e)[i])],
    IF Op(e) = "mapset" THEN TRUE ELSE Label(e)>>
InList(e) ==
  \E v \in {[i \in 1..3 |-> Result(Args(e)[i])]} :
    Errors(v) = <<>> /\ \A i \in {2, 3} : v[i][2] \in 0..Len(v[1][2])
BoundIn(e) ==
  CASE Op(e) = "let" -> {Label(e)[2]}
    [] Op(e) = "match" -> UNION {{v[2] : v \in ToSet(c[2])} : c \in ToSet(Label(e))}
    [] Op(e) \in {"filter", "setmap", "forall", "exists", "reduce", "choose", "maplambda",
                  "listfilter", "listreduce", "call"} -> {v[2] : v \in ToSet(Label(e))}
    [] OTHER -> {}
Closed(e) ==
  {Label(n)[2] : n \in {x \in Nodes(e) : Op(x) = "var"}}
    \subseteq {PlainKey(n) : n \in DOMAIN State} \cup UNION {BoundIn(n) : n \in Nodes(e)}
Convertible(e) ==
  /\ \A n \in Nodes(e) : /\ Op(n) = "filter" => Len(Label(n)) = 1
                         /\ Op(n) # "range"
                         /\ Op(n) = "call" => Closed(<<"call", Sort(n), <<Last(Args(n))>>, Label(n)>>)
  /\ "slice" \in Ops(e) => Op(e) = "slice" /\ InList(e)

\* The term that tla.py writes for the script's expression.
Tla == INSTANCE TlaExprs
TlaState ==
  [state |-> [k \in {PlainKey(n) : n \in DOMAIN State} |-> Tla!InTla(State[k[1]], StateSort[k[1]])],
   locals |-> <<>>]
ToTla ==
  /\ draft[1] = "call"
  /\ Modelled(node) /\ ~FoldsImage(node) /\ ~LazyInLoop(node) /\ Convertible(node)
  /\ draft' = <<"term", draft[2], Tla!Term(node), Result(Replacing(node)), Sort(node)>>
  /\ node' = Rejected
  /\ UNCHANGED value

\* The term has the value v of the expression, where TLA+ fixes one.
TermMeans(term, v, sort) ==
  ~IsError(v) => Tla!Means(term, TlaState) \in {Tla!Open, Tla!InTla(v, sort)}
ConvertedExpressionsAgree == draft[1] = "term" => TermMeans(draft[3], draft[4], draft[5])

\* "insert(key, value) returns a new map with the entry added or replaced."
\* (docs/user-references/maps.md:79): so does the term that is written for it.
InsertAddsInTla ==
  draft[1] = "term" /\ draft[2] = "insert" => TermMeans(draft[3], value, draft[5])

\* map_to "Create[s] a map: [ x \in self |-> mapper ]." (expr.py:1579): each element is
\* mapped to what the mapper gives for it.
MapToMapsEachElement ==
  ~IsError(node) /\ draft[1] = "call" /\ draft[2] = "map_to" /\ Modelled(node) /\ ~FoldsImage(node)
    => Faithful(draft, value)

Spec == Init /\ [][Write \/ ToTla]_<<draft, node, value>>
=============================================================================

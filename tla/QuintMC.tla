------------------------------- MODULE QuintMC -------------------------------
(* Scripts that are written by hand and scripts that are generated for Quint: *)
(* of each typed application of an operator, two operators deep, of lambdas,  *)
(* nested definitions and local operators; and Quint actions and runs.        *)
EXTENDS ScriptsMC, QuintConvert

Actions == INSTANCE QuintActions WITH Modulus <- 3, Fields <- {"x", "y"}

QLeaves == {QVar(n) : n \in DOMAIN State} \cup {QLit("int", n) : n \in 0..2}
QStrings == {QLit("str", "f"), QLit("str", "g")}
QUnary ==
  {"not", "iuminus", "Set", "List", "Tup", "p", "powerset", "size", "length", "keys", "flatten",
   "head", "tail", "indices", "sortList"}
QBinary ==
  DOMAIN Binary \cup
  {"and", "or", "implies", "range", "to", "Set", "List", "Map", "Tup", "Rec", "item", "field",
   "get", "union", "exclude", "intersect", "subseteq", "in", "contains", "setOfMaps", "tuples",
   "append", "concat", "nth"}
QOneLambda == {"forall", "exists", "filter", "map", "mapBy"}
QBase == {QVar("s"), QVar("ss"), QVar("m"), QVar("l"), QApp("to", <<QLit("int", 0), QVar("i")>>)}
QNone == QApp("n", <<>>)

\* Applications to x, and definitions with the value x.
QFew == {QVar("i"), QVar("s"), QVar("l"), QVar("m"), QLit("int", 0)}
QuintCalls(x) ==
  {QApp(op, <<x>>) : op \in QUnary}
  \cup {QApp(op, <<x, y>>) : op \in QBinary, y \in QLeaves \cup QStrings \cup {QNone}}
  \cup {QApp(op, <<y, x>>) : op \in QBinary, y \in QFew}
  \cup {QApp("ite", <<QVar("b"), x, y>>) : y \in QFew}
  \cup {QApp("ite", <<x, y, z>>) : y \in {QLit("int", 0), QVar("i")}, z \in {QLit("int", 1), QVar("i")}}
  \cup {QApp("set", <<x, y, z>>) : y \in QFew, z \in QFew}
  \cup {QApp("with", <<x, f, y>>) : f \in QStrings, y \in QFew}
  \cup {QApp("slice", <<x, y, z>>) : y \in QFew, z \in QFew}
  \cup UNION {{QLet(<<x>>, QApp(op, <<QLocal(1), y>>)), QCall(<<x>>, QApp(op, <<QLocal(1), y>>)),
               QLet(<<x, y>>, QApp(op, <<QLocal(2), QLocal(1)>>)),
               QCall(<<x, y>>, QApp(op, <<QLocal(2), QLocal(1)>>))} :
                op \in {"isub", "exclude", "Tup", "get"}, y \in QFew}

\* Lambdas with the body b over the local names.
QuintLambdas(b) ==
  {QLambda(op, <<x>>, b) : op \in QOneLambda, x \in QBase}
  \cup {QLambda("fold", <<x, y>>, b) : x \in QBase, y \in {QLit("int", 0), QVar("s"), QVar("l")}}
  \cup {QLambda("setBy", <<x, y>>, b) : x \in {QVar("m"), QVar("ml")}, y \in {QVar("i"), QLit("int", 0)}}
  \cup {QLambda("matchVariant", <<x, y>>, b) :
          x \in {QVar("u"), QNone, QApp("p", <<QVar("i")>>)}, y \in {QLit("int", 0), QVar("s"), QVar("b")}}
\* Bodies over the locals k and, of a fold, k + 1.
QuintBodies(k) ==
  UNION {{QApp(op, <<QLocal(k), y>>), QApp(op, <<y, QLocal(k)>>)} :
           op \in QBinary, y \in {QVar("i"), QVar("s"), QLit("int", 2), QLocal(k)}}
  \cup {QApp(op, <<QLocal(k)>>) : op \in QUnary} \cup {QLocal(k)}
QuintBodies2(k) ==
  {QApp(op, <<x, y>>) : op \in {"iadd", "isub", "ilt", "union", "append", "contains", "Tup", "eq"},
                        x \in {QLocal(k), QLocal(k + 1)}, y \in {QLocal(k), QLocal(k + 1)}}
QuintInner(k) ==
  {QLambda(op, <<x>>, b) : op \in QOneLambda, x \in {QVar("s"), QLocal(k)}, b \in QuintBodies2(k)}
  \cup UNION {{QLet(<<QLocal(k)>>, b), QCall(<<QLocal(k)>>, b), QLet(<<QVar("i")>>, b)} :
                b \in QuintBodies2(k)}
  \cup {QLambda("fold", <<x, QLocal(k)>>, QApp(op, <<y, z>>)) :
          x \in {QVar("s"), QVar("l")}, op \in {"iadd", "isub"},
          y \in {QLocal(k), QLocal(k + 1)}, z \in {QLocal(k + 1), QLocal(k + 2)}}

\* Operands: the leaves, and the typed applications to variables.
QuintOperands ==
  QLeaves \cup {QNone} \cup
  {q \in {QApp(op, <<QVar(n)>>) : op \in QUnary, n \in {"i", "b", "s", "l", "m", "ss"}}
          \cup {QApp(op, <<QVar(n), y>>) : op \in QBinary, n \in {"i", "s", "l", "m", "r", "t"},
                   y \in {QVar("i"), QVar("s"), QVar("l"), QLit("int", 2), QLit("str", "g")}} :
     TypeOf(q, <<>>) # Untyped}

\* Actions: the parts, and what is made of a part.
E(n, k) == Actions!Expr(n, k)
Basic == {Actions!AssignTo("x", E("y", 0)), Actions!AssignTo("x", E("x", 1)),
          Actions!AssignTo("y", E("x", 0)), Actions!AssignTo("y", E("y", 2)),
          Actions!Condition(E("x", 0))}
Combined(a, b) ==
  {Actions!AllOf(a, b), Actions!AnyOf(a, b), Actions!If(E("x", 1), a, b), Actions!If(E("y", 0), b, a),
   Actions!AllOf(b, a)}
Wrapped(a) == {a, Actions!CallOf(a), Actions!Local(a)}
QuintParts ==
  UNION {Combined(a, b) : a \in Basic, b \in Basic} \cup
  {Actions!Nondet("v", E("y", 0), Actions!AllOf(a, Actions!AssignTo("x", E("v", 1)))) : a \in Basic}
QuintWholes(a) == UNION {Combined(w, b) : w \in Wrapped(a), b \in Basic}
QuintRuns(a) ==
  {Actions!Then(a, b) : b \in Basic}
  \cup {Actions!Then(Actions!CallOf(a), Actions!Expect(b, E("y", 0))) : b \in Basic}
  \cup {Actions!Expect(Actions!Reps(2, a), E("x", 0)), Actions!Fail(a), Actions!Fail(Actions!CallOf(a))}

QuintInit ==
  /\ draft \in {<<"operand of Quint", q>> : q \in QuintOperands}
       \cup {<<"body of Quint", q>> :
               q \in QuintBodies(1) \cup QuintInner(1) \cup QuintBodies2(1) \cup QuintInner(2)}
       \cup {<<"part of Quint", a>> : a \in QuintParts}
  /\ node = Rejected
  /\ value = Rejected
Quints(d) == IF d[1] = "operand of Quint" THEN QuintCalls(d[2]) ELSE QuintLambdas(d[2])
Convert ==
  /\ draft[1] \in {"operand of Quint", "body of Quint"}
  /\ \E q \in Quints(draft) :
       /\ TypeOf(q, <<>>) # Untyped
       /\ draft' = <<"quint", q>>
       /\ \E s \in {Script(q, <<>>, <<>>, 0)} : node' = Node(s)
       /\ \E n \in {node'} : value' = IF Accepted(n) THEN Result(n) ELSE Rejected
ConvertAction ==
  /\ draft[1] = "part of Quint"
  /\ draft' \in {<<"quint action", a>> : a \in QuintWholes(draft[2])}
       \cup {<<"quint run", r, draft[2]>> : r \in QuintRuns(draft[2])}
  /\ UNCHANGED <<node, value>>

QuintSpec == QuintInit /\ [][Convert \/ ConvertAction]_<<draft, node, value>>
=============================================================================

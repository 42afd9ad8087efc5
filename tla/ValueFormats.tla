---------------------------- MODULE ValueFormats ----------------------------
(***************************************************************************)
(* The values of states in every form that the tools give them: equality,  *)
(* sorts and fingerprints of wunderspec/interpreter_value.py, Python       *)
(* objects, ITF (itf_trace.py), what TLC prints (tlc_trace.py), the sample *)
(* values of schedules (api.py, exec/scheduler.py), and the text that a    *)
(* user is shown (trace_output.py).                                        *)
(*                                                                         *)
(* A value is a tuple that starts with its class; the sorts that empty     *)
(* collections are told are left out.  Python objects, JSON and tokens are *)
(* tuples of the same kind.  What itf_py, Apalache and TLC do is taken     *)
(* from how the code uses them.                                            *)
(***************************************************************************)
EXTENDS Expressions, FiniteSetsExt, Functions, TLC

\* Fingerprints are taken of integers modulo 2^FingerprintWidth (64 in the code).
CONSTANT FingerprintWidth

EnumSort(members) == <<"enum", members>>

BoolOf(b) == <<"bool", b>>
IntOf(n) == <<"int", n>>
StrOf(s) == <<"str", s>>
EnumOf(member) == <<"enum", member>>
RecordOf(fields) == <<"record", fields>>
TupleWith(elems) == <<"tuple", elems>>
UnionOf(tag, payload) == <<"union", tag, payload>>
ListOf(elems) == <<"list", elems>>
MapOf(f) == <<"map", f>>
SetOf(S) == <<"set", S>>
Class(v) == v[1]

\* The names of the members of the only enumeration.
PythonName(member) == "Color." \o member
TlaName(member) == member \o "_OF_COLOR"

Failure == <<"failure">>
Failures(S) == {x \in S : x = Failure}
Unless(S, result) == IF Failures(S) = {} THEN result ELSE Failure
Values(f) == {f[x] : x \in DOMAIN f}

----------------------------------------------------------------------------
(* The classes of values.  Mix and Crc are _mix and crc32 without           *)
(* collisions; Num is an integer that they are given.                       *)

Num(n) == <<n>>
Mix(a, b) == <<a, b>>
Crc(s) == <<s, "crc", "32">>
Mixed(tag, prints) == FoldLeft(Mix, Num(tag), prints)

RECURSIVE Ask(_, _, _)
SortOf(v) == Ask("sort", v, v)
Fingerprint(v) == Ask("fingerprint", v, v)
Same(v, w) == Ask("eq", v, w)
SameAll(f, g) == DOMAIN f = DOMAIN g /\ \A x \in DOMAIN f : Same(f[x], g[x])
SortsOf(f) == [x \in DOMAIN f |-> SortOf(f[x])]

BoolAnswer(ask, v, w) ==
  CASE ask = "sort" -> BoolSort
    [] ask = "eq" -> Class(w) = "bool" /\ v[2] = w[2]
    [] ask = "fingerprint" -> Mix(Num(1), Num(IF v[2] THEN 1 ELSE 0))
IntAnswer(ask, v, w) ==
  CASE ask = "sort" -> IntSort
    [] ask = "eq" -> Class(w) = "int" /\ v[2] = w[2]
    [] ask = "fingerprint" -> Mix(Num(2), Num(v[2] % 2 ^ FingerprintWidth))
StrAnswer(ask, v, w) ==
  CASE ask = "sort" -> StrSort
    [] ask = "eq" -> Class(w) = "str" /\ v[2] = w[2]
    [] ask = "fingerprint" -> Mix(Num(3), Crc(v[2]))
EnumAnswer(ask, v, w) ==
  CASE ask = "sort" -> EnumSort({"RED", "GREEN"})
    [] ask = "eq" -> Class(w) = "enum" /\ v[2] = w[2]
    [] ask = "fingerprint" -> Mix(Num(4), Crc(PythonName(v[2])))
RecordAnswer(ask, v, w) ==
  CASE ask = "sort" -> Unless(Values(SortsOf(v[2])), RecordSort(SortsOf(v[2])))
    [] ask = "eq" -> Class(w) = "record" /\ SameAll(v[2], w[2])
    [] ask = "fingerprint" ->
         LET names == SetToSeq(DOMAIN v[2])
         IN Mixed(5, [i \in DOMAIN names |-> Mix(Crc(names[i]), Fingerprint(v[2][names[i]]))])
TupleAnswer(ask, v, w) ==
  CASE ask = "sort" -> Unless(Values(SortsOf(v[2])), TupleSort(SortsOf(v[2])))
    [] ask = "eq" -> Class(w) = "tuple" /\ SameAll(v[2], w[2])
    [] ask = "fingerprint" -> Mixed(6, [i \in DOMAIN v[2] |-> Fingerprint(v[2][i])])
UnionAnswer(ask, v, w) ==
  LET bare(u) == u[3] = NoPayload
  IN CASE ask = "sort" -> UnionSort(v[2] :> IF bare(v) THEN NoPayload ELSE SortOf(v[3]))
       [] ask = "eq" -> /\ Class(w) = "union" /\ v[2] = w[2]
                        /\ IF bare(v) \/ bare(w) THEN bare(v) /\ bare(w) ELSE Same(v[3], w[3])
       [] ask = "fingerprint" ->
            Mix(Num(7), Mix(Crc(v[2]), IF bare(v) THEN Num(0) ELSE Fingerprint(v[3])))
ListAnswer(ask, v, w) ==
  CASE ask = "sort" -> IF v[2] = <<>> THEN Failure
                       ELSE Unless({SortOf(v[2][1])}, ListSort(SortOf(v[2][1])))
    [] ask = "eq" -> Class(w) = "list" /\ SameAll(v[2], w[2])
    [] ask = "fingerprint" -> Mixed(8, [i \in DOMAIN v[2] |-> Fingerprint(v[2][i])])
\* Mutant of MapAnswer: what a key maps to is mixed in, but not the key.
MapAnswerOfValues(ask, v, w) ==
  IF ask = "fingerprint"
  THEN Mixed(9, SetToSeq({Fingerprint(v[2][k]) : k \in DOMAIN v[2]}))
  ELSE Class(w) = "map" /\ SameAll(v[2], w[2])
MapAnswer(ask, v, w) ==
  CASE ask = "sort" ->
         IF DOMAIN v[2] = {} THEN Failure
         ELSE LET k == CHOOSE x \in DOMAIN v[2] : TRUE
              IN Unless({SortOf(k), SortOf(v[2][k])}, MapSort(SortOf(k), SortOf(v[2][k])))
    [] ask = "eq" -> Class(w) = "map" /\ SameAll(v[2], w[2])
    [] ask = "fingerprint" ->
         Mixed(9, SetToSeq({Mix(Fingerprint(k), Fingerprint(v[2][k])) : k \in DOMAIN v[2]}))
SetAnswer(ask, v, w) ==
  CASE ask = "sort" -> IF v[2] = {} THEN Failure
                       ELSE LET s == SortOf(CHOOSE x \in v[2] : TRUE) IN Unless({s}, SetSort(s))
    [] ask = "eq" -> Class(w) = "set" /\ v[2] = w[2]
    [] ask = "fingerprint" -> <<Num(10), {Fingerprint(x) : x \in v[2]}, Num(0)>>

Ask(ask, v, w) ==
  CASE Class(v) = "bool" -> BoolAnswer(ask, v, w)
    [] Class(v) = "int" -> IntAnswer(ask, v, w)
    [] Class(v) = "str" -> StrAnswer(ask, v, w)
    [] Class(v) = "enum" -> EnumAnswer(ask, v, w)
    [] Class(v) = "record" -> RecordAnswer(ask, v, w)
    [] Class(v) = "tuple" -> TupleAnswer(ask, v, w)
    [] Class(v) = "union" -> UnionAnswer(ask, v, w)
    [] Class(v) = "list" -> ListAnswer(ask, v, w)
    [] Class(v) = "map" -> MapAnswer(ask, v, w)
    [] Class(v) = "set" -> SetAnswer(ask, v, w)

----------------------------------------------------------------------------
(* StateView: fields and parameters of a state; a field hides a parameter   *)
(* of its name.                                                             *)

StateView(fields, params) == [fields |-> fields, params |-> params]
FieldOf(view, name) ==
  CASE name \in DOMAIN view.fields -> view.fields[name]
    [] name \in DOMAIN view.params /\ name \notin DOMAIN view.fields -> view.params[name]
    [] OTHER -> Failure
AllFields(view) == view.fields @@ view.params

----------------------------------------------------------------------------
(* Python objects *)

\* What a decoded ITF object is: a named tuple, marked if it is a variant.
Named(fields) == <<"named", fields>>
Variant(tag, fields) == <<"variant", tag, fields>>
Frozenset(S) == <<"frozenset", S>>
Mapping(f) == <<"mapping", f>>
PyTuple(s) == <<"pytuple", s>>
PyList(s) == <<"pylist", s>>
Absent == <<"None">>

RECURSIVE ToPython(_)
ToPython(v) ==
  CASE Class(v) \in {"bool", "int", "str", "enum"} -> v
    [] Class(v) = "set" -> Frozenset({ToPython(x) : x \in v[2]})
    [] Class(v) \in {"list", "tuple"} -> PyTuple([i \in DOMAIN v[2] |-> ToPython(v[2][i])])
    [] Class(v) = "map" ->
         Mapping([k \in {ToPython(x) : x \in DOMAIN v[2]} |->
                    ToPython(v[2][CHOOSE x \in DOMAIN v[2] : ToPython(x) = k])])
    [] Class(v) = "record" -> Named([n \in DOMAIN v[2] |-> ToPython(v[2][n])])
    [] Class(v) = "union" ->
         Named([tag |-> StrOf(v[2]),
                payload |-> IF v[3] = NoPayload THEN Absent ELSE ToPython(v[3])])

\* from_python: a collection asks its first element for the sort of the elements.
RECURSIVE FromPython(_)
Converted(f) == [x \in DOMAIN f |-> FromPython(f[x])]
FromPython(p) ==
  CASE Class(p) \in {"bool", "int", "str", "enum"} -> p
    [] Class(p) = "frozenset" ->
         LET elems == {FromPython(x) : x \in p[2]}
         IN IF Failures(elems) # {} \/ \E x \in elems : SortOf(x) = Failure
            THEN Failure ELSE SetOf(elems)
    [] Class(p) = "variant" ->
         LET payload == IF DOMAIN p[3] = {"value"} THEN FromPython(p[3]["value"])
                        ELSE Unless(Values(Converted(p[3])), RecordOf(Converted(p[3])))
         IN Unless({payload}, UnionOf(p[2], payload))
    [] Class(p) = "named" -> Unless(Values(Converted(p[2])), RecordOf(Converted(p[2])))
    [] Class(p) = "pytuple" ->
         IF p[2] = <<>> THEN Failure ELSE Unless(Values(Converted(p[2])), TupleWith(Converted(p[2])))
    [] Class(p) = "pylist" ->
         LET elems == Converted(p[2])
         IN IF Failures(Values(elems)) # {} \/ (elems # <<>> /\ SortOf(elems[1]) = Failure)
            THEN Failure ELSE ListOf(elems)
    [] Class(p) = "mapping" ->
         LET keys == {FromPython(k) : k \in DOMAIN p[2]}
             vals == Values(Converted(p[2]))
         IN IF \E x \in keys \cup vals : x = Failure \/ SortOf(x) = Failure THEN Failure
            ELSE MapOf([k \in keys |-> FromPython(p[2][CHOOSE x \in DOMAIN p[2] : FromPython(x) = k])])
    [] OTHER -> Failure

\* A member of an enumeration by its name or by its long name in one language.
MemberOf(sort, s, language) ==
  LET long(m) == IF language = "Python" THEN PythonName(m) ELSE TlaName(m)
      members == {m \in sort[2] : s \in {m, long(m)}}
  IN IF members = {} THEN Failure ELSE EnumOf(CHOOSE m \in members : TRUE)

\* The fields of what may stand for a record.
FieldsOfPython(p) == IF Class(p) = "mapping"
             THEN [n \in {k[2] : k \in DOMAIN p[2]} |-> p[2][StrOf(n)]] ELSE Last(p)

RECURSIVE FromPythonWithSort(_, _)
FromPythonWithSort(p, sort) ==
  LET kind == sort[1]
      each(f, s) == [x \in DOMAIN f |-> FromPythonWithSort(f[x], s)]
  IN CASE kind \in {"bool", "int", "str"} -> IF Class(p) = kind THEN p ELSE Failure
       [] kind = "enum" -> IF Class(p) = "enum" THEN p
                           ELSE IF Class(p) = "str" THEN MemberOf(sort, p[2], "Python") ELSE Failure
       [] kind = "set" ->
            IF Class(p) # "frozenset" THEN Failure
            ELSE LET elems == {FromPythonWithSort(x, sort[2]) : x \in p[2]}
                 IN Unless(elems, SetOf(elems))
       [] kind = "list" ->
            IF Class(p) # "pylist" THEN Failure
            ELSE Unless(Values(each(p[2], sort[2])), ListOf(each(p[2], sort[2])))
       [] kind = "tuple" ->
            IF Class(p) # "pytuple" \/ Len(p[2]) # Len(sort[2]) THEN Failure
            ELSE LET elems == [i \in DOMAIN p[2] |-> FromPythonWithSort(p[2][i], sort[2][i])]
                 IN Unless(Values(elems), TupleWith(elems))
       [] kind = "map" ->
            IF Class(p) # "mapping" THEN Failure
            ELSE LET key(k) == FromPythonWithSort(k, sort[2])
                     keys == {key(k) : k \in DOMAIN p[2]}
                     vals == each(p[2], sort[3])
                 IN Unless(keys \cup Values(vals),
                           MapOf([k \in keys |-> vals[CHOOSE x \in DOMAIN p[2] : key(x) = k]]))
       [] kind = "record" ->
            IF Class(p) \notin {"mapping", "named", "variant"} THEN Failure
            ELSE IF DOMAIN FieldsOfPython(p) # DOMAIN sort[2] THEN Failure
            ELSE LET fields == [n \in DOMAIN sort[2] |-> FromPythonWithSort(FieldsOfPython(p)[n], sort[2][n])]
                 IN Unless(Values(fields), RecordOf(fields))
       [] kind = "union" ->
            IF Class(p) # "variant" THEN Failure
            ELSE IF p[2] \notin DOMAIN sort[2] THEN Failure
            ELSE IF sort[2][p[2]] = NoPayload THEN UnionOf(p[2], NoPayload)
            ELSE LET inner == IF DOMAIN p[3] = {"value"} THEN p[3]["value"]
                              ELSE Mapping([k \in {StrOf(n) : n \in DOMAIN p[3]} |-> p[3][k[2]]])
                     payload == FromPythonWithSort(inner, sort[2][p[2]])
                 IN Unless({payload}, UnionOf(p[2], payload))

----------------------------------------------------------------------------
(* ITF: what value_to_itf builds, the JSON that itf_py makes of it and the  *)
(* Python object that itf_py makes of the JSON.                             *)

RECURSIVE ToItf(_)
ToItf(v) ==
  CASE Class(v) \in {"bool", "int", "str"} -> v
    [] Class(v) = "enum" -> StrOf(PythonName(v[2]))
    [] Class(v) = "set" -> Frozenset({ToItf(x) : x \in v[2]})
    [] Class(v) = "list" -> PyList([i \in DOMAIN v[2] |-> ToItf(v[2][i])])
    [] Class(v) = "tuple" -> PyTuple([i \in DOMAIN v[2] |-> ToItf(v[2][i])])
    [] Class(v) = "map" ->
         Mapping([k \in {ToItf(x) : x \in DOMAIN v[2]} |->
                    ToItf(v[2][CHOOSE x \in DOMAIN v[2] : ToItf(x) = k])])
    [] Class(v) = "record" -> Named([n \in DOMAIN v[2] |-> ToItf(v[2][n])])
    [] Class(v) = "union" ->
         Variant(v[2], IF v[3] = NoPayload THEN <<>> ELSE [value |-> ToItf(v[3])])

\* JSON: Booleans and strings as they are, an integer as a #bigint, arrays, and
\* objects by their keys.
Array(s) == <<"array", s>>
Object(f) == <<"object", f>>
Tagged(tag, x) == Object(tag :> x)
Pairs(f) == {Array(<<k, f[k]>>) : k \in DOMAIN f}

RECURSIVE JsonOf(_)
JsonOf(p) ==
  CASE Class(p) \in {"bool", "str"} -> p
    [] Class(p) = "int" -> Tagged("#bigint", p)
    [] Class(p) = "pylist" -> Array([i \in DOMAIN p[2] |-> JsonOf(p[2][i])])
    [] Class(p) = "pytuple" -> Tagged("#tup", Array([i \in DOMAIN p[2] |-> JsonOf(p[2][i])]))
    [] Class(p) = "frozenset" -> Tagged("#set", Array(SetToSeq({JsonOf(x) : x \in p[2]})))
    [] Class(p) = "mapping" ->
         Tagged("#map", Array(SetToSeq({Array(<<JsonOf(k), JsonOf(p[2][k])>>) : k \in DOMAIN p[2]})))
    [] Class(p) = "named" -> Object([n \in DOMAIN p[2] |-> JsonOf(p[2][n])])
    [] Class(p) = "variant" ->
         Object([tag |-> StrOf(p[2]),
                 value |-> IF DOMAIN p[3] = {"value"} THEN JsonOf(p[3]["value"])
                           ELSE Object([n \in DOMAIN p[3] |-> JsonOf(p[3][n])])])

\* The payload of a variant that is a record gives its fields to the named tuple.
RECURSIVE ObjectOf(_)
ObjectOf(json) ==
  LET each(s) == [i \in DOMAIN s |-> ObjectOf(s[i])]
      has(key) == key \in DOMAIN json[2]
  IN CASE Class(json) \in {"bool", "str"} -> json
       [] Class(json) = "array" -> PyList(each(json[2]))
       [] Class(json) = "object" ->
            CASE has("#bigint") -> json[2]["#bigint"]
              [] has("#tup") -> PyTuple(each(json[2]["#tup"][2]))
              [] has("#set") -> Frozenset({ObjectOf(x) : x \in ToSet(json[2]["#set"][2])})
              [] has("#map") ->
                   LET pairs == {x[2] : x \in ToSet(json[2]["#map"][2])}
                   IN Mapping([k \in {ObjectOf(x[1]) : x \in pairs} |->
                                 ObjectOf((CHOOSE x \in pairs : ObjectOf(x[1]) = k)[2])])
              [] DOMAIN json[2] = {"tag", "value"} ->
                   LET payload == ObjectOf(json[2]["value"])
                   IN Variant(json[2]["tag"][2],
                              IF Class(payload) = "named" THEN payload[2] ELSE [value |-> payload])
              [] OTHER -> Named([n \in DOMAIN json[2] |-> ObjectOf(json[2][n])])

\* A decision of a schedule as JSON, and the value that a one_of takes from it.
DecisionJson(v) == Tagged("sample_value", JsonOf(ToItf(v)))
LoadedDecision(json) ==
  IF DOMAIN json[2] = {"sample_value"} THEN ObjectOf(json[2]["sample_value"]) ELSE Failure
Sampled(json, sort) ==
  IF LoadedDecision(json) = Failure THEN Failure
  ELSE FromPythonWithSort(LoadedDecision(json), sort)

----------------------------------------------------------------------------
(* What a value is in the TLA+ that is generated for it.                    *)

\* The tags of a union as Apalache takes them: in the order of the variants.
\* CamelCase stands for the part that turns a tag into an identifier.
CamelCase(tag) ==
  LET base == IF tag \in {"ok", "o k"} THEN "Ok" ELSE tag
  IN IF base \in {"Bool", "Int", "Seq", "Set", "Str", "UNIT", "Variant"} THEN base \o "Tag" ELSE base
FreshTag(base, used) ==
  IF base \notin used THEN base
  ELSE LET suffixes == {n \in 2..(Cardinality(used) + 2) : base \o ToString(n) \notin used}
       IN base \o ToString(CHOOSE n \in suffixes : \A m \in suffixes : n <= m)
TagNames(sort) ==
  FoldLeft(LAMBDA names, tag : names @@ (tag :> FreshTag(CamelCase(tag), Values(names))),
           <<>>, SetToSeq(DOMAIN sort[2]))
TagOf(sort, name) ==
  LET names == TagNames(sort)
      tags == {t \in DOMAIN names : names[t] = name}
  IN IF tags # {} THEN CHOOSE t \in tags : TRUE ELSE name

Unit == StrOf("U_OF_UNIT")
\* Values of TLA+: numbers, strings, Booleans, sets and functions.
Fun(f) == <<"fun", f>>
RECURSIVE TlaOf(_, _)
TlaOf(v, sort) ==
  CASE Class(v) \in {"bool", "int", "str"} -> v
    [] Class(v) = "enum" -> StrOf(TlaName(v[2]))
    [] Class(v) = "set" -> SetOf({TlaOf(x, sort[2]) : x \in v[2]})
    [] Class(v) = "list" ->
         Fun([k \in {IntOf(i) : i \in DOMAIN v[2]} |-> TlaOf(v[2][k[2]], sort[2])])
    [] Class(v) = "tuple" ->
         Fun([k \in {IntOf(i) : i \in DOMAIN v[2]} |-> TlaOf(v[2][k[2]], sort[2][k[2]])])
    [] Class(v) = "map" ->
         Fun([k \in {TlaOf(x, sort[2]) : x \in DOMAIN v[2]} |->
                TlaOf(v[2][CHOOSE x \in DOMAIN v[2] : TlaOf(x, sort[2]) = k], sort[3])])
    [] Class(v) = "record" ->
         Fun([k \in {StrOf(n) : n \in DOMAIN v[2]} |-> TlaOf(v[2][k[2]], sort[2][k[2]])])
    [] Class(v) = "union" ->
         Fun(StrOf(TagNames(sort)[v[2]]) :>
               IF v[3] = NoPayload THEN Unit ELSE TlaOf(v[3], sort[2][v[2]]))

----------------------------------------------------------------------------
(* What Apalache writes for a value, and how itf_trace.py reads it.         *)

RECURSIVE ApalacheJson(_, _)
ApalacheJson(v, sort) ==
  LET each(s) == Array([i \in DOMAIN s |-> ApalacheJson(s[i], sort[2])])
  IN CASE Class(v) \in {"bool", "str"} -> v
       [] Class(v) = "int" -> Tagged("#bigint", v)
       [] Class(v) = "enum" -> StrOf(TlaName(v[2]))
       [] Class(v) = "set" -> Tagged("#set", each(SetToSeq(v[2])))
       [] Class(v) = "list" -> each(v[2])
       [] Class(v) = "tuple" ->
            Tagged("#tup", Array([i \in DOMAIN v[2] |-> ApalacheJson(v[2][i], sort[2][i])]))
       [] Class(v) = "map" ->
            Tagged("#map", Array(SetToSeq({Array(<<ApalacheJson(k, sort[2]), ApalacheJson(v[2][k], sort[3])>>) :
                                             k \in DOMAIN v[2]})))
       [] Class(v) = "record" -> Object([n \in DOMAIN v[2] |-> ApalacheJson(v[2][n], sort[2][n])])
       [] Class(v) = "union" ->
            Object([tag |-> StrOf(TagNames(sort)[v[2]]),
                    value |-> IF v[3] = NoPayload THEN Unit ELSE ApalacheJson(v[3], sort[2][v[2]])])

ItfInt(json) ==
  CASE Class(json) = "int" -> json
    [] Class(json) = "object" -> IF "#bigint" \in DOMAIN json[2] THEN json[2]["#bigint"] ELSE Failure
    [] OTHER -> Failure
ItfCollection(json, tag) ==
  CASE Class(json) = "array" -> json
    [] Class(json) = "object" -> IF tag \in DOMAIN json[2] THEN json[2][tag] ELSE Failure
    [] OTHER -> Failure
\* A function on 1..n comes as the sequence of its values.
ItfMapPairs(json) ==
  CASE Class(json) = "array" -> Array([i \in DOMAIN json[2] |-> Array(<<IntOf(i), json[2][i]>>)])
    [] Class(json) = "object" -> IF "#map" \in DOMAIN json[2] THEN json[2]["#map"] ELSE Failure
    [] OTHER -> Failure

RECURSIVE ItfToValue(_, _)
ItfToValue(json, sort) ==
  LET kind == sort[1]
      elems == ItfCollection(json, IF kind = "set" THEN "#set" ELSE "#tup")
  IN CASE kind \in {"bool", "str"} -> IF Class(json) = kind THEN json ELSE Failure
       [] kind = "int" -> ItfInt(json)
       [] kind = "enum" -> IF Class(json) = "str" THEN MemberOf(sort, json[2], "TLA+") ELSE Failure
       [] kind = "set" ->
            IF elems = Failure THEN Failure
            ELSE LET values == {ItfToValue(x, sort[2]) : x \in ToSet(elems[2])}
                 IN Unless(values, SetOf(values))
       [] kind = "list" ->
            IF elems = Failure THEN Failure
            ELSE LET values == [i \in DOMAIN elems[2] |-> ItfToValue(elems[2][i], sort[2])]
                 IN Unless(ToSet(values), ListOf(values))
       [] kind = "tuple" ->
            IF elems = Failure \/ Len(elems[2]) # Len(sort[2]) THEN Failure
            ELSE LET values == [i \in DOMAIN elems[2] |-> ItfToValue(elems[2][i], sort[2][i])]
                 IN Unless(ToSet(values), TupleWith(values))
       [] kind = "map" ->
            IF ItfMapPairs(json) = Failure THEN Failure
            ELSE LET pairs == {<<ItfToValue(p[2][1], sort[2]), ItfToValue(p[2][2], sort[3])>> :
                                 p \in ToSet(ItfMapPairs(json)[2])}
                 IN Unless(UNION {ToSet(p) : p \in pairs},
                           MapOf([k \in {p[1] : p \in pairs} |-> (CHOOSE p \in pairs : p[1] = k)[2]]))
       [] kind = "record" ->
            IF Class(json) # "object" \/ ~(DOMAIN json[2] \subseteq DOMAIN sort[2]) THEN Failure
            ELSE LET fields == [n \in DOMAIN json[2] |-> ItfToValue(json[2][n], sort[2][n])]
                 IN Unless(Values(fields), RecordOf(fields))
       [] kind = "union" ->
            IF Class(json) # "object" THEN Failure
            ELSE IF "tag" \notin DOMAIN json[2] THEN Failure
            ELSE LET tag == TagOf(sort, json[2]["tag"][2])
                 IN IF tag \notin DOMAIN sort[2] THEN Failure
                    ELSE IF sort[2][tag] = NoPayload THEN UnionOf(tag, NoPayload)
                    ELSE LET payload == ItfToValue(json[2]["value"], sort[2][tag])
                         IN Unless({payload}, UnionOf(tag, payload))

\* The fields of a state that have a sort are read, whatever else it holds.
ReadItfState(json, sorts) ==
  [name \in DOMAIN json \cap DOMAIN sorts |-> ItfToValue(json[name], sorts[name])]

----------------------------------------------------------------------------
(* What TLC prints for a value: a function on 1..n as a sequence, one on    *)
(* identifiers as a record.                                                 *)

Sym(s) == <<"symbol", s>>
Name(s) == <<"name", s>>
Identifiers == {"a", "b", "Ok", "Ok2", "RED", "TRUE", "tag", "value", "Int", "IntTag", "None"}

Separated(parts, sep) ==
  [i \in DOMAIN parts |-> IF i = 1 THEN parts[i] ELSE <<Sym(sep)>> \o parts[i]]
Enclosed(open, parts, sep, close) == <<Sym(open)>> \o FlattenSeq(Separated(parts, sep)) \o <<Sym(close)>>

RECURSIVE Printed(_)
Printed(tla) ==
  CASE Class(tla) = "bool" -> <<Name(IF tla[2] THEN "TRUE" ELSE "FALSE")>>
    [] Class(tla) \in {"int", "str"} -> <<tla>>
    [] Class(tla) = "set" ->
         LET elems == SetToSeq(tla[2])
         IN Enclosed("{", [i \in DOMAIN elems |-> Printed(elems[i])], ",", "}")
    [] Class(tla) = "fun" ->
         LET f == tla[2]
             keys == SetToSeq(DOMAIN f)
             pair(k, key, arrow) == key \o <<Sym(arrow)>> \o Printed(f[k])
         IN CASE DOMAIN f = {IntOf(i) : i \in 1..Cardinality(DOMAIN f)} ->
                   Enclosed("<<", [i \in 1..Len(keys) |-> Printed(f[IntOf(i)])], ",", ">>")
              [] \A k \in DOMAIN f : Class(k) = "str" /\ k[2] \in Identifiers ->
                   Enclosed("[", [i \in DOMAIN keys |-> pair(keys[i], <<Name(keys[i][2])>>, "|->")], ",", "]")
              [] OTHER ->
                   Enclosed("(", [i \in DOMAIN keys |-> pair(keys[i], Printed(keys[i]), ":>")], "@@", ")")

----------------------------------------------------------------------------
(* tlc_trace.py: values from tokens, and from them values of sorts.  Each   *)
(* parsing operator gives what it read and the tokens that are left.        *)

Read(result, rest) == [raw |-> result, rest |-> rest]
Unread == Read(Failure, <<>>)
Follows(read, symbol) == read.raw # Failure /\ read.rest # <<>> /\ read.rest[1] = Sym(symbol)

RECURSIVE ParseValue(_), ParseItems(_, _, _, _, _)
\* Values, or pairs joined by the arrow, up to the symbol that closes them.
ParseItems(tokens, close, arrow, sep, items) ==
  LET item == ParseValue(tokens)
      value == IF arrow = "" THEN item
               ELSE IF Follows(item, arrow) THEN ParseValue(Tail(item.rest)) ELSE Unread
      all == Append(items, IF arrow = "" THEN item.raw ELSE <<item.raw, value.raw>>)
  IN IF Follows(value, sep) THEN ParseItems(Tail(value.rest), close, arrow, sep, all)
     ELSE IF Follows(value, close) THEN Read(<<"items", all>>, Tail(value.rest)) ELSE Unread
ParseCommaValues(tokens, close) ==
  IF Follows(Read(Absent, tokens), close) THEN Read(<<"items", <<>>>>, Tail(tokens))
  ELSE ParseItems(tokens, close, "", ",", <<>>)
ParsePairs(tokens) ==
  IF Follows(Read(Absent, tokens), "]") THEN Read(<<"items", <<>>>>, Tail(tokens))
  ELSE ParseItems(tokens, "]", "|->", ",", <<>>)
As(class, read) == IF read.raw = Failure THEN Unread ELSE Read(<<class, read.raw[2]>>, read.rest)

ParseValue(tokens) ==
  IF tokens = <<>> THEN Unread
  ELSE LET token == tokens[1]
           rest == Tail(tokens)
       IN CASE token \in {Name("TRUE"), Name("FALSE")} -> Read(BoolOf(token[2] = "TRUE"), rest)
            [] Class(token) \in {"int", "str"} -> Read(token, rest)
            [] Class(token) = "name" /\ token[2] \notin {"TRUE", "FALSE"} -> Read(StrOf(token[2]), rest)
            [] token = Sym("{") -> As("rawset", ParseCommaValues(rest, "}"))
            [] token = Sym("<<") -> As("rawseq", ParseCommaValues(rest, ">>"))
            [] token = Sym("[") -> As("rawpairs", ParsePairs(rest))
            [] token = Sym("(") ->
                 LET first == ParseValue(rest)
                 IN IF Follows(first, ":>") THEN As("rawpairs", ParseItems(rest, ")", ":>", "@@", <<>>))
                    ELSE IF Follows(first, ")") THEN Read(first.raw, Tail(first.rest)) ELSE Unread
            [] OTHER -> Unread
ParseValueText(tokens) == LET read == ParseValue(tokens)
                          IN IF read.rest = <<>> THEN read.raw ELSE Failure

\* Mutant of RawMapPairs: the keys of a sequence are counted from zero.
RawMapPairsFromZero(raw) ==
  CASE Class(raw) = "rawpairs" -> raw
    [] Class(raw) = "rawseq" -> <<"rawpairs", [i \in DOMAIN raw[2] |-> <<IntOf(i - 1), raw[2][i]>>]>>
    [] OTHER -> Failure
RawMapPairs(raw) ==
  CASE Class(raw) = "rawpairs" -> raw
    [] Class(raw) = "rawseq" -> <<"rawpairs", [i \in DOMAIN raw[2] |-> <<IntOf(i), raw[2][i]>>]>>
    [] OTHER -> Failure

RECURSIVE RawToIValue(_, _)
RawToIValue(raw, sort) ==
  LET kind == sort[1]
      keyed == {p \in ToSet(raw[2]) : Class(p[1]) = "str"}
  IN CASE kind \in {"bool", "int", "str"} -> IF Class(raw) = kind THEN raw ELSE Failure
       [] kind = "enum" -> IF Class(raw) = "str" THEN MemberOf(sort, raw[2], "TLA+") ELSE Failure
       [] kind = "set" ->
            IF Class(raw) # "rawset" THEN Failure
            ELSE LET values == {RawToIValue(x, sort[2]) : x \in ToSet(raw[2])}
                 IN Unless(values, SetOf(values))
       [] kind = "list" ->
            IF Class(raw) # "rawseq" THEN Failure
            ELSE LET values == [i \in DOMAIN raw[2] |-> RawToIValue(raw[2][i], sort[2])]
                 IN Unless(ToSet(values), ListOf(values))
       [] kind = "tuple" ->
            IF Class(raw) # "rawseq" \/ Len(raw[2]) # Len(sort[2]) THEN Failure
            ELSE LET values == [i \in DOMAIN raw[2] |-> RawToIValue(raw[2][i], sort[2][i])]
                 IN Unless(ToSet(values), TupleWith(values))
       [] kind = "map" ->
            IF RawMapPairs(raw) = Failure THEN Failure
            ELSE LET pairs == {<<RawToIValue(p[1], sort[2]), RawToIValue(p[2], sort[3])>> :
                                 p \in ToSet(RawMapPairs(raw)[2])}
                 IN Unless(UNION {ToSet(p) : p \in pairs},
                           MapOf([k \in {p[1] : p \in pairs} |-> (CHOOSE p \in pairs : p[1] = k)[2]]))
       [] kind = "record" ->
            IF Class(raw) # "rawpairs" THEN Failure
            ELSE IF keyed # ToSet(raw[2]) \/ ~({p[1][2] : p \in keyed} \subseteq DOMAIN sort[2]) THEN Failure
            ELSE LET fields == [n \in {p[1][2] : p \in keyed} |->
                                  RawToIValue((CHOOSE p \in keyed : p[1][2] = n)[2], sort[2][n])]
                 IN Unless(Values(fields), RecordOf(fields))
       [] kind = "union" ->
            IF Class(raw) # "rawpairs" \/ Len(raw[2]) # 1 THEN Failure
            ELSE IF keyed = {} THEN Failure
            ELSE LET tag == TagOf(sort, raw[2][1][1][2])
                 IN IF tag \notin DOMAIN sort[2] THEN Failure
                    ELSE IF sort[2][tag] = NoPayload THEN UnionOf(tag, NoPayload)
                    ELSE LET payload == RawToIValue(raw[2][1][2], sort[2][tag])
                         IN Unless({payload}, UnionOf(tag, payload))

----------------------------------------------------------------------------
(* The lines of TLC's output: what starts a trace, states, assignments and  *)
(* what continues them, and the rest of the output.                         *)

Line(class) == [class |-> class, name |-> "", tokens |-> <<>>]
Assignment(name, tokens) == [class |-> "assignment", name |-> name, tokens |-> tokens]
Continuation(tokens) == [class |-> "indented", name |-> "", tokens |-> tokens]
Markers == {"behavior", "initial"}

\* The first trace in the output and the output without it; <<>> if there is none.
MarkersIn(lines) == {i \in DOMAIN lines : lines[i].class \in Markers}
TraceEnd(lines, start) ==
  LET ends == {e \in (start + 1)..(Len(lines) + 1) :
                 \/ e = Len(lines) + 1
                 \/ /\ lines[e].class \in Markers \cup {"error", "other"}
                    /\ \E i \in (start + 1)..(e - 1) : lines[i].class = "assignment"}
  IN CHOOSE e \in ends : \A f \in ends : e <= f
ExtractTraceBlock(lines) ==
  IF MarkersIn(lines) = {} THEN <<>>
  ELSE LET start == CHOOSE i \in MarkersIn(lines) : \A j \in MarkersIn(lines) : i <= j
           end == TraceEnd(lines, start)
       IN <<SubSeq(lines, start + 1, end - 1),
            SubSeq(lines, 1, start - 1) \o SubSeq(lines, end, Len(lines))>>
RECURSIVE ExtractTraceBlocks(_)
ExtractTraceBlocks(lines) ==
  LET found == ExtractTraceBlock(lines)
  IN IF found = <<>> THEN <<<<>>, lines>>
     ELSE LET others == ExtractTraceBlocks(found[2]) IN <<<<found[1]>> \o others[1], others[2]>>

\* The states of a trace: the tokens that are assigned to each name.
ParseStateAssignments(block) ==
  LET put(at, states, name, tokens) == [states EXCEPT ![at] = (name :> tokens) @@ states[at]]
      step(acc, line) ==
        LET states == acc.states
            last == Len(states)
        IN CASE line.class = "state" -> [states |-> Append(states, <<>>), name |-> ""]
             [] line.class = "assignment" ->
                  [states |-> IF last = 0 THEN <<line.name :> line.tokens>>
                              ELSE put(last, states, line.name, line.tokens),
                   name |-> line.name]
             [] line.class \notin {"state", "assignment", "blank"} /\ acc.name # "" ->
                  [acc EXCEPT !.states = put(last, states, acc.name, states[last][acc.name] \o line.tokens)]
             [] OTHER -> acc
      parsed == FoldLeft(step, [states |-> <<>>, name |-> ""], block).states
  IN [i \in DOMAIN parsed |-> [name \in DOMAIN parsed[i] |-> ParseValueText(parsed[i][name])]]

ParseTraceBlock(block, sorts) ==
  LET states == ParseStateAssignments(block)
  IN [i \in DOMAIN states |->
        [name \in DOMAIN states[i] \cap DOMAIN sorts |-> RawToIValue(states[i][name], sorts[name])]]
ParseTlcTraces(lines, sorts) ==
  LET blocks == ExtractTraceBlocks(lines)[1]
  IN [i \in DOMAIN blocks |-> ParseTraceBlock(blocks[i], sorts)]

\* What TLC prints for a trace: a value may go on in the next line.  A state of one
\* variable has no conjunction.
StateLines(state, folded) ==
  LET names == SetToSeq(DOMAIN state)
      assigned(name) ==
        IF Len(names) = 1 THEN <<Line("other")>>
        ELSE IF ~folded \/ Len(state[name]) = 1 THEN <<Assignment(name, state[name])>>
        ELSE <<Assignment(name, SubSeq(state[name], 1, 1)), Continuation(Tail(state[name]))>>
  IN FlattenSeq([i \in DOMAIN names |-> assigned(names[i])]) \o <<Line("blank")>>
TlcTraceLines(states, folded) ==
  IF Len(states) = 1 THEN <<Line("initial")>> \o StateLines(states[1], folded)
  ELSE <<Line("error"), Line("behavior")>>
       \o FlattenSeq([i \in DOMAIN states |-> <<Line("state")>> \o StateLines(states[i], folded)])
TlcOutput(traces, folded) ==
  <<Line("other")>> \o FlattenSeq([i \in DOMAIN traces |-> TlcTraceLines(traces[i], folded)])
  \o <<Line("other"), Line("blank"), Line("other")>>

----------------------------------------------------------------------------
(* The text of a value; the elements of sets and the pairs of maps are      *)
(* sorted by their texts.                                                   *)

RECURSIVE Text(_)
Text(v) ==
  CASE Class(v) \in {"bool", "int", "str"} -> v
    [] Class(v) = "enum" -> Name(PythonName(v[2]))
    [] Class(v) = "record" -> <<"Record(", {<<n, Text(v[2][n])>> : n \in DOMAIN v[2]}>>
    [] Class(v) = "tuple" -> <<"(", [i \in DOMAIN v[2] |-> Text(v[2][i])]>>
    [] Class(v) = "union" -> IF v[3] = NoPayload THEN Name(v[2]) ELSE <<v[2], Text(v[3])>>
    [] Class(v) = "list" -> <<"[", [i \in DOMAIN v[2] |-> Text(v[2][i])]>>
    [] Class(v) = "map" -> <<"Map(", {<<Text(k), Text(v[2][k])>> : k \in DOMAIN v[2]}>>
    [] Class(v) = "set" -> <<"Set(", {Text(x) : x \in v[2]}>>
\* A state of a trace as it is shown; parameters are shown in the first state only.
StateText(step, view) ==
  LET shown == IF step = 0 THEN AllFields(view) ELSE view.fields
  IN [name \in DOMAIN shown |-> Text(shown[name])]
=============================================================================

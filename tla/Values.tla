------------------------------- MODULE Values -------------------------------
(***************************************************************************)
(* The values of the VM (src/src/versetools/values.py) and the operations  *)
(* on them (the helper functions of vm.py, the natives of stdlib.py), as   *)
(* far as types decide what happens.  Numbers and texts have no content,   *)
(* an array and a map are the set of what they contain, an object is a     *)
(* reference into a heap.  An operation yields the set of the results that *)
(* it may have on such values; besides values these are Wrong, an error    *)
(* that is due to the type of an operand or the number of arguments or a   *)
(* host exception, Error, any other VerseRuntimeError (an index out of     *)
(* range, a division by zero), and Fail, a VerseFailure.                   *)
(***************************************************************************)
EXTENDS Types

Value(tag) == [tag |-> tag, of |-> {}, keys |-> {}, ref |-> 0, name |-> ""]
AnInt   == Value("int")
AFloat  == Value("float")
AText   == Value("string")
True    == Value("true")
False   == Value("false")
Void    == Value("void")
ARange  == Value("range")
ATask   == Value("task")
None    == Value("none")
Some(v)      == [Value("some") EXCEPT !.of = {v}]
Array(items) == [Value("array") EXCEPT !.of = items]
Map(keys, items) == [Value("map") EXCEPT !.keys = keys, !.of = items]
Object(o)    == [Value("object") EXCEPT !.ref = o]
Method(o, n) == [Value("method") EXCEPT !.ref = o, !.name = n]
Function(n)  == [Value("function") EXCEPT !.name = n]
NativeValue(n) == [Value("native") EXCEPT !.name = n]
ClassValue(n) == [Value("class") EXCEPT !.name = n]
Truth == {True, False}

Wrong == Value("wrong")
Error == Value("error")
Fail  == Value("fail")

IsNumber(v) == v.tag \in {"int", "float"}
Texts(a, b) == a.tag = "string" /\ b.tag = "string"

(* _clause_result: what a clause, a filter or `?` makes of a value.        *)
Succeeds(v) == v.tag \notin {"none", "false"}
Bound(v) == IF v.tag = "some" THEN CHOOSE x \in v.of : TRUE ELSE v

----------------------------------------------------------------------------
NumberOf(a, b) == IF AFloat \in {a, b} THEN AFloat ELSE AnInt

(* _binary_op, _values_equal.                                              *)
BinaryResult(op, a, b) ==
    LET numbers == IsNumber(a) /\ IsNumber(b)
    IN  CASE op \in {"=", "<>"} ->
               IF (a \in Truth) # (b \in Truth) THEN {IF op = "=" THEN False ELSE True} ELSE Truth
          [] op \in {"<", "<=", ">", ">="} -> IF numbers \/ Texts(a, b) THEN Truth ELSE {Wrong}
          [] op = "+" -> IF numbers THEN {NumberOf(a, b)}
                         ELSE IF Texts(a, b) THEN {AText}
                         ELSE IF a.tag = "array" /\ b.tag = "array" THEN {Array(a.of \cup b.of)}
                         ELSE {Wrong}
          [] op \in {"-", "*"} -> IF numbers THEN {NumberOf(a, b)} ELSE {Wrong}
          [] op = "/" -> IF numbers THEN {AFloat, Error} ELSE {Wrong}
          [] op = "%" -> IF numbers THEN {NumberOf(a, b), Error} ELSE {Wrong}

(* _unary_op.                                                              *)
UnaryResult(op, a) ==
    CASE op = "-" -> IF IsNumber(a) THEN {a} ELSE {Wrong}
      [] op = "not" -> IF a \in Truth THEN Truth \ {a} ELSE {Wrong}

(* What Python can hash; _check_map_key looks at the key itself only, and  *)
(* at the keys of literals only.                                           *)
RECURSIVE Hashable(_)
Hashable(v) == v.tag \notin {"array", "map", "range"} /\ \A x \in v.of : Hashable(x)
(* 1, 1.0 and true are one key to the host's dictionary, which keeps the   *)
(* key that came first and the value that came last.                       *)
OneKey(a, b) ==
    a = b \/ ({a.tag, b.tag} \subseteq {"int", "float", "true", "false"} /\ ~{a, b} \subseteq Truth)
Merged(keys) == {K \in SUBSET keys : \A k \in keys : \E x \in K : OneKey(x, k)}
MapLiteralResult(keys, items) ==
    IF \A k \in keys : k.tag # "object" /\ Hashable(k)
    THEN {Map(K, I) : K \in Merged(keys), I \in (SUBSET items) \ (IF items = {} THEN {} ELSE {{}})}
    ELSE {Wrong}

(* _get_index, VArray.get, VMap.get.                                       *)
IndexResult(obj, i) ==
    CASE obj.tag \in {"array", "string"} ->
            IF i.tag # "int" THEN {Wrong}
            ELSE {Error} \cup (IF obj.tag = "array" THEN obj.of ELSE {AText})
      [] obj.tag = "map" -> IF Hashable(i) THEN {None} \cup {Some(v) : v \in obj.of} ELSE {Wrong}
      [] OTHER -> {Wrong}

(* _set_index, VArray.set, VMap.set: one of the elements is replaced, and  *)
(* may or may not have been there more than once.                          *)
SetIndexResult(obj, i, v) ==
    LET replaced == {(obj.of \ S) \cup {v} : S \in {{}} \cup {{x} : x \in obj.of}}
    IN  CASE obj.tag = "array" -> IF i.tag # "int" THEN {Wrong}
                                  ELSE {Error} \cup (IF obj.of = {} THEN {} ELSE {Array(S) : S \in replaced})
          [] obj.tag = "map" ->
                IF Hashable(i) THEN {Map(obj.keys \cup K, S) : S \in replaced,
                                        K \in {{i}} \cup (IF \E k \in obj.keys : OneKey(k, i) THEN {{}} ELSE {})}
                                ELSE {Wrong}
          [] OTHER -> {Wrong}

(* _make_range, and the items _get_iter goes through.                      *)
RangeResult(a, b) == IF a.tag = "int" /\ b.tag = "int" THEN {ARange} ELSE {Wrong}
Iterable(v) == v.tag \in {"array", "range", "map"}
ItemsOf(v) ==
    CASE v.tag = "array" -> v.of
      [] v.tag = "range" -> {AnInt}
      [] v.tag = "map" -> {Array({k, x}) : k \in v.keys, x \in v.of}

----------------------------------------------------------------------------
(* stdlib.py: the natives, their number of arguments, their results.       *)
Arity(n) == IF n \in {"Min", "Max", "Contains"} THEN 2 ELSE 1
NativeResult(n, args) ==
    LET a == args[1]
        b == args[2]
        must(ok, results) == IF ok THEN results ELSE {Wrong}
    IN  IF Len(args) # Arity(n) THEN {Wrong} ELSE
        CASE n \in {"Print", "Log"} -> {Void}
          [] n = "ToString" -> {AText}
          [] n = "option" -> {Some(a)}
          [] n = "Abs" -> must(IsNumber(a), {a})
          [] n \in {"Min", "Max"} -> must(IsNumber(a) /\ IsNumber(b), {a, b})
          [] n \in {"Floor", "Ceil"} -> must(IsNumber(a), {AnInt})
          [] n = "Sqrt" -> must(IsNumber(a), {AFloat, Error})
          [] n = "Length" -> must(a.tag \in {"array", "map", "string"}, {AnInt})
          [] n = "Contains" -> must(a.tag \in {"array", "map"} \/ Texts(a, b), Truth)
          [] n = "Keys" -> must(a.tag = "map", {Array(a.keys)})
          [] n = "Values" -> must(a.tag = "map", {Array(a.of)})

----------------------------------------------------------------------------
(* VClass: the fields of a new instance come from the base first, those of *)
(* the class itself replace them; a method is the most derived one.  The   *)
(* classes are those of the table `cs`.                                    *)
RECURSIVE AllFieldSpecs(_, _)
AllFieldSpecs(cs, c) ==
    (IF cs[c].base = "" THEN <<>> ELSE AllFieldSpecs(cs, cs[c].base))
    \o SetToSeq({[name |-> n, owner |-> c] : n \in DOMAIN cs[c].fields})

(* The class whose declaration a field of an instance of c starts with.    *)
FieldSource(cs, c, n) ==
    LET specs == AllFieldSpecs(cs, c)
    IN  specs[SelectLastInSeq(specs, LAMBDA s : s.name = n)].owner
FieldNames(cs, c) == {s.name : s \in Range(AllFieldSpecs(cs, c))}

RECURSIVE FindMethod(_, _, _)
FindMethod(cs, c, n) ==
    CASE n \in DOMAIN cs[c].methods -> c
      [] n \notin DOMAIN cs[c].methods /\ cs[c].base # "" -> FindMethod(cs, cs[c].base, n)
      [] OTHER -> ""
=============================================================================

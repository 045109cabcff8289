------------------------------ MODULE Checker ------------------------------
(***************************************************************************)
(* What the strict checker (src/src/versetools/type_checker.py) infers for *)
(* one operator from the types of its operands.  NoType is a rejection, a  *)
(* VerseCompileError.  `cs` is the class table of Types.tla.               *)
(***************************************************************************)
EXTENDS Types

If(ok, t) == IF ok THEN t ELSE NoType

(* The type of an arithmetic result.                                       *)
Wider(l, r) ==
    CASE FloatT \in {l, r} -> FloatT
      [] FloatT \notin {l, r} /\ Unknown \in {l, r} -> Unknown
      [] OTHER -> IntT

(* Mutant of BinaryType: numbers and texts may be added to each other.     *)
AddsAnything(cs, op, l, r) == IF op = "+" /\ r = TextT THEN TextT ELSE Wider(l, r)

(* _infer_binary_type.                                                     *)
BinaryType(cs, op, l, r) ==
    LET numbers == {l, r} \subseteq Numbers
    IN  CASE op \in {"=", "<>"} -> LogicT
          [] op \in {"<", "<=", ">", ">="} ->
                If(numbers \/ {l, r} \subseteq {TextT, Unknown}, LogicT)
          [] op \in {"-", "*", "%"} -> If(numbers, Wider(l, r))
          [] op = "/" -> If(numbers, FloatT)
          [] op = "+" ->
                IF numbers THEN Wider(l, r)
                ELSE IF l = TextT /\ r = TextT THEN TextT
                ELSE IF l.kind = "array" /\ r.kind = "array"
                THEN IF Assignable(cs, l, r) THEN r ELSE If(Assignable(cs, r, l), l)
                ELSE NoType

UnaryType(op, t) ==
    CASE op = "-" -> If(t \in Numbers, t)
      [] op = "not" -> If(t \in {LogicT, Unknown}, LogicT)

(* The operands of `and` and `or`; the ends of a range.                    *)
OperandOfLogical(t) == t \in {LogicT, Unknown}
RangeType(l, r) == If({l, r} \subseteq {IntT, Unknown}, RangeT)

(* Mutant of ContentType: the option itself is bound.                      *)
OptionItself(t) == t

(* What `?` and a clause that binds a name make of a type.                 *)
ContentType(t) == IF t.kind = "option" THEN t.of[1] ELSE t

(* All of one type, or mutually assignable to the first of them.           *)
Uniform(cs, ts) == \A i \in DOMAIN ts : Equivalent(cs, ts[i], ts[1])
ArrayLiteralType(cs, ts) == IF ts = <<>> THEN ArrayOf(Unknown) ELSE If(Uniform(cs, ts), ArrayOf(ts[1]))
MapLiteralType(cs, ks, ts) ==
    IF ks = <<>> THEN MapOf(Unknown, Unknown)
    ELSE If(Uniform(cs, ks) /\ Uniform(cs, ts), MapOf(ks[1], ts[1]))
SyncType(cs, ts) == ArrayOf(IF ts # <<>> /\ Uniform(cs, ts) THEN ts[1] ELSE Unknown)
RaceType(cs, ts) == IF ts # <<>> /\ Uniform(cs, ts) THEN ts[1] ELSE Unknown

(* _infer_if_expr_type, from the types of the two branches.                *)
JoinType(cs, then, else) ==
    CASE Assignable(cs, then, else) -> else
      [] ~Assignable(cs, then, else) /\ Assignable(cs, else, then) -> then
      [] OTHER -> Unknown

(* _infer_index_type, and what may be assigned to an element.              *)
IndexType(cs, t, i) ==
    CASE t.kind \in {"array", "string"} ->
            If(i \in {IntT, Unknown}, IF t.kind = "array" THEN t.of[1] ELSE TextT)
      [] t.kind = "map" -> If(Assignable(cs, i, t.of[1]), OptionOf(t.of[2]))
      [] t = Unknown -> Unknown
      [] OTHER -> NoType
ElementType(cs, t, i) ==
    CASE t.kind = "array" -> If(i \in {IntT, Unknown}, t.of[1])
      [] t.kind = "map" -> If(Assignable(cs, i, t.of[1]), t.of[2])
      [] t = Unknown -> Unknown
      [] OTHER -> NoType

(* _iterable_item_type.                                                    *)
ItemType(t) ==
    CASE t.kind = "array" -> t.of[1]
      [] t.kind = "map" -> ArrayOf(Unknown)
      [] t = RangeT -> IntT
      [] t = Unknown -> Unknown
      [] OTHER -> NoType

(* _infer_builtin_call.                                                    *)
NativeType(cs, n, args) ==
    LET a == args[1]
        b == args[2]
    IN  CASE n \in {"Print", "Log"} -> If(Len(args) = 1, VoidT)
          [] n = "ToString" -> If(Len(args) = 1, TextT)
          [] n = "option" -> If(Len(args) = 1, OptionOf(a))
          [] n = "Length" ->
                If(Len(args) = 1 /\ (a \in {TextT, Unknown} \/ a.kind \in {"array", "map"}), IntT)
          [] n = "Contains" ->
                If(/\ Len(args) = 2
                   /\ CASE a.kind \in {"array", "map"} -> Assignable(cs, b, a.of[1])
                        [] a = TextT -> b = TextT
                        [] OTHER -> a = Unknown,
                   LogicT)
          [] n \in {"Keys", "Values"} ->
                If(Len(args) = 1 /\ (a.kind = "map" \/ a = Unknown),
                   ArrayOf(IF a = Unknown THEN Unknown ELSE a.of[IF n = "Keys" THEN 1 ELSE 2]))
          [] n \in {"Abs", "Floor", "Ceil", "Sqrt"} ->
                If(Len(args) = 1 /\ a \in Numbers,
                   CASE n = "Abs" -> a [] n = "Sqrt" -> FloatT [] OTHER -> IntT)
          [] n \in {"Min", "Max"} -> If(Len(args) = 2 /\ {a, b} \subseteq Numbers, Wider(a, b))

(* _infer_call_type, after the check of effects.                           *)
CallType(cs, t, args) ==
    CASE t.kind = "builtin" -> NativeType(cs, t.name, args)
      [] t.kind = "fn" ->
            If(/\ t.required <= Len(args) /\ Len(args) <= Len(ParamsOf(t))
               /\ \A i \in DOMAIN args : Assignable(cs, args[i], t.of[i]),
               ResultOf(t))
      [] t \in {AnyFunction, Unknown} -> Unknown
      [] OTHER -> NoType

(* _member_type: the fields of a class and its bases, then the methods.    *)
(* `current` is the class whose method is being checked.                   *)
MemberType(cs, t, n, current, assigned) ==
    LET field  == FieldOwner(cs, t.name, n)
        method == MethodOwner(cs, t.name, n)
    IN  CASE t = TaskT -> CASE n \in {"Done", "Failed"} -> LogicT
                            [] n = "Result" -> Unknown
                            [] OTHER -> NoType
          [] t = Unknown -> Unknown
          [] t.kind = "class" ->
                IF field # ""
                THEN If(Accessible(cs, cs[field].fields[n].access, field, current), cs[field].fields[n].t)
                ELSE IF method # ""
                THEN If(/\ Accessible(cs, cs[method].methods[n].access, method, current)
                        /\ ~assigned,
                        TypeOfDecl(cs[method].methods[n]))
                ELSE NoType
          [] OTHER -> NoType

(* _infer_struct_literal_type, for one field of the literal.               *)
MayInitialise(cs, c, n, t) ==
    LET owner == FieldOwner(cs, c, n) IN owner # "" /\ Assignable(cs, t, cs[owner].fields[n].t)
=============================================================================

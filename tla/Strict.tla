------------------------------- MODULE Strict -------------------------------
(***************************************************************************)
(* `verse run --strict`: the functions of a program that type_checker.py   *)
(* accepts, executed by the VM.  Both work on an expression in the order   *)
(* of its operands, so one step of this machine is one operator: the       *)
(* checker takes the types of its operands off a stack and pushes what it  *)
(* infers, the VM does the same with the values.  A statement the checker  *)
(* rejects is never executed, so what it must accept is a guard.           *)
(*                                                                         *)
(* The text of the functions is not fixed: every step may be any operator  *)
(* that the checker accepts at this place, so the behaviours are those of  *)
(* all functions within the bounds (the vocabulary `program`, the heap,    *)
(* the depth of stack and scopes).  A branch that is not executed is left  *)
(* out, and where its type matters any type is taken for it.  A call gives *)
(* what the declaration of the callee promises; that functions keep the    *)
(* promise is checked where they return.                                   *)
(*                                                                         *)
(* The checker is not meant to be complete: there are places where it      *)
(* knowingly or unknowingly lets a value of another type pass.  `sound`    *)
(* follows them: it is false for a value that came through one of those    *)
(* named under "Gaps" below, and for what was computed from it.            *)
(***************************************************************************)
EXTENDS Values, Checker

CONSTANT Programs    \* the vocabularies: classes, functions, literals, operators, and the
                     \* bounds depth (of the stack), scopes (of a function) and objects

VARIABLES program,       \* one of Programs, with an accepted class table
          fn,            \* the function that is executed: its declaration and its class
          types,         \* TypeChecker.scopes, those of the function
          env,           \* the Environments of the frame; a cell has a value and `sound`
          blocks,        \* the blocks that are open, one per scope but the first
          stack,         \* the operands, each with its type, value and origin
          heap,          \* the instances, with their fields
          status,        \* running, or how the function ended: returned, failed, error, wrong
          gap,           \* whether a gap explains a failed or wrong end
          result         \* what the function returned

vars == <<program, fn, types, env, blocks, stack, heap, status, gap, result>>
code == <<program, fn>>
scopes == <<types, env, blocks>>
ending == <<status, gap, result>>

cs == program.classes
ClassOfObject(v) == heap[v.ref].class

----------------------------------------------------------------------------
(* Which values a type promises.  Min and Max return an int as it is, so   *)
(* a float may be an int.                                                  *)
FunctionValueType(v) ==
    IF v.tag = "function" THEN TypeOfDecl(program.functions[v.name])
    ELSE LET c == ClassOfObject(v) IN TypeOfDecl(cs[FindMethod(cs, c, v.name)].methods[v.name])

RECURSIVE Conforms(_, _)
Conforms(v, t) ==
    CASE t.kind \in {"int", "string", "void", "range", "task"} -> v.tag = t.kind
      [] t.kind = "float" -> IsNumber(v)
      [] t.kind = "logic" -> v \in Truth
      [] t.kind = "array" -> v.tag = "array" /\ \A x \in v.of : Conforms(x, t.of[1])
      [] t.kind = "map" -> /\ v.tag = "map"
                           /\ \A k \in v.keys : Conforms(k, t.of[1])
                           /\ \A x \in v.of : Conforms(x, t.of[2])
      [] t.kind = "option" -> v.tag \in {"none", "some"} /\ \A x \in v.of : Conforms(x, t.of[1])
      [] t.kind = "class" -> v.tag = "object" /\ IsSubclass(cs, ClassOfObject(v), t.name)
      [] t.kind = "function" -> v.tag \in {"function", "method"}
      [] t.kind = "fn" -> /\ v.tag \in {"function", "method"}
                          /\ Assignable(cs, FunctionValueType(v), t)
                          /\ FunctionValueType(v).required <= t.required
      [] t.kind = "builtin" -> v = NativeValue(t.name)
      [] t.kind = "unknown" -> FALSE

(* Values that a callee may return or a caller may pass.                   *)
RECURSIVE Inhabitants(_)
Inhabitants(t) ==
    CASE t.kind = "logic" -> Truth
      [] t.kind \in {"int", "float", "string", "void", "range", "task"} -> {Value(t.kind)}
      [] t.kind = "array" -> {Array({})} \cup {Array({x}) : x \in Inhabitants(t.of[1])}
      [] t.kind = "option" -> {None} \cup {Some(x) : x \in Inhabitants(t.of[1])}
      [] t.kind = "map" -> {Map({}, {})}
                           \cup {Map({k}, {x}) : k \in Inhabitants(t.of[1]), x \in Inhabitants(t.of[2])}
      [] t.kind = "class" -> {Object(o) : o \in {i \in DOMAIN heap : IsSubclass(cs, heap[i].class, t.name)}}
      [] t.kind = "function" -> {Function(f) : f \in DOMAIN program.functions}
      [] t.kind = "unknown" -> {AnInt, AText, False}
      [] OTHER -> {}

----------------------------------------------------------------------------
(* Gaps.                                                                   *)

(* Gradual typing: nothing is promised about a type that mentions unknown. *)
Untyped(t) == Mentions(t, Unknown)

(* A member that a derived class declares again need not be of the type    *)
(* that the class it is accessed through declares.                         *)
AnyMemberType(c, n) ==
    IF FieldOwner(cs, c, n) # "" THEN cs[FieldOwner(cs, c, n)].fields[n].t
    ELSE TypeOfDecl(cs[MethodOwner(cs, c, n)].methods[n])
Keeps(c, d, n) ==
    LET t == AnyMemberType(c, n)
        u == AnyMemberType(d, n)
    IN  Assignable(cs, u, t) /\ u.required <= t.required

(* A field or variable without a value starts as void unless its type has  *)
(* a default (_default_for_type).                                          *)
DefaultForType(t) ==
    CASE t = LogicT -> False
      [] t.kind \in {"int", "float", "string"} -> Value(t.kind)
      [] OTHER -> Void
Initialised(t) == t.kind \in {"int", "float", "string", "logic", "void"}

(* Any type may be the key of a map, and not all values can be.            *)
MayBeKey(t) == t.kind \in {"int", "float", "string", "logic"}

(* The checker gives a class's name the type of the class's instances, but  *)
(* its value is the class.                                                 *)
ClassAsValue(c) == [t |-> ClassOf(c), v |-> ClassValue(c), sound |-> FALSE, src |-> ""]

(* Functions that differ in how many arguments they need are assignable.   *)
Coerces(s, t) == s.kind # "fn" \/ t.kind # "fn" \/ s.required <= t.required

(* What has the type e.t is taken to have the type t from now on.          *)
KeepsType(e, t) == e.sound /\ Coerces(e.t, t) /\ (Untyped(t) => e.t = t)

----------------------------------------------------------------------------
Entry(t, v, sound) == [t |-> t, v |-> v, sound |-> sound, src |-> ""]
Arg(n, i)  == stack[Len(stack) - n + i]           \* the i-th of the n topmost operands
ArgTypes(n)  == [i \in 1 .. n |-> Arg(n, i).t]
ArgValues(n) == {Arg(n, i).v : i \in 1 .. n}
AllSound(n) == \A i \in 1 .. n : Arg(n, i).sound
Below(n)   == SubSeq(stack, 1, Len(stack) - n)
Top == stack[Len(stack)]

Running == status = "running"
InnermostOf(kinds) == SelectLastInSeq(blocks, LAMBDA b : b.kind \in kinds)
(* Mutant of Guarded: the branches of an if are taken for its clauses.     *)
GuardedThroughout == InnermostOf({"clause", "filter", "then", "else"}) > 0

Guarded == InnermostOf({"clause", "filter"}) > 0      \* _guarded_clause_depth > 0

End(how, explained) ==
    /\ status' = how /\ gap' = explained
    /\ stack' = <<>> /\ types' = <<>> /\ env' = <<>> /\ blocks' = <<>>
    /\ UNCHANGED <<code, heap, result>>

(* The clauses of a block have failed: the names they bound stay in the    *)
(* environment in which else is executed, the checker has forgotten them.  *)
EnterElse(i) ==
    /\ blocks' = [SubSeq(blocks, 1, i) EXCEPT ![i].kind = "else"]
    /\ types' = Append(SubSeq(types, 1, i), <<>>)
    /\ env' = SubSeq(env, 1, i + 1)
    /\ stack' = SubSeq(stack, 1, blocks[i].base)
    /\ UNCHANGED <<code, heap, ending>>

(* The next round of a for or loop: its scope is not a new one.            *)
NextRoundOf(i) ==
    LET b == blocks[i]
        loopVar == IF b.var = "" THEN <<>> ELSE b.var :> b.t
    IN  /\ blocks' = [SubSeq(blocks, 1, i) EXCEPT ![i].kind = IF b.var = "" THEN "loop" ELSE "filter"]
        /\ types' = Append(SubSeq(types, 1, i), loopVar)
        /\ stack' = SubSeq(stack, 1, b.base)
        /\ IF b.var = "" THEN env' = SubSeq(env, 1, i + 1)
           ELSE \E x \in b.items :
                   env' = [SubSeq(env, 1, i + 1) EXCEPT ![i + 1] =
                              b.var :> [v |-> x, sound |-> b.sound] @@ @]
        /\ UNCHANGED <<code, heap, ending>>
(* Mutant of LeaveBlock: the environment of the block stays.               *)
StaysInside(i) ==
    /\ blocks' = SubSeq(blocks, 1, i - 1)
    /\ types' = SubSeq(types, 1, i) /\ env' = SubSeq(env, 1, i + 1)
    /\ stack' = SubSeq(stack, 1, blocks[i].base)
    /\ UNCHANGED <<code, heap, ending>>

LeaveBlock(i) ==
    /\ blocks' = SubSeq(blocks, 1, i - 1)
    /\ types' = SubSeq(types, 1, i) /\ env' = SubSeq(env, 1, i)
    /\ stack' = SubSeq(stack, 1, blocks[i].base)
    /\ UNCHANGED <<code, heap, ending>>

(* A VerseFailure goes to the innermost clause or filter, or out.          *)
Fails(declared) ==
    LET i == InnermostOf({"clause", "filter"})
    IN  CASE i = 0 -> End("failed", ~declared)
          [] i > 0 /\ blocks[i].kind = "clause" -> EnterElse(i)
          [] i > 0 /\ blocks[i].kind = "filter" -> NextRoundOf(i) \/ LeaveBlock(i)

(* A bound on values: what a container contains is no container, or one     *)
(* that is empty.                                                          *)
Shallow(v) == \A x \in v.of \cup v.keys : x.of = {} /\ x.keys = {}

(* The n topmost operands give way to one of the results, of type t.       *)
YieldsFrom(n, t, results, src, sound, explained) ==
    /\ t # NoType /\ t \in program.types
    /\ \E r \in results :
          CASE r = Wrong -> End("wrong", explained)
            [] r = Error -> End("error", FALSE)
            [] r = Fail -> Fails(TRUE)
            [] OTHER -> /\ Shallow(r)
                        /\ stack' = Append(Below(n), [Entry(t, r, sound) EXCEPT !.src = src])
                        /\ UNCHANGED <<code, scopes, heap, ending>>
Yields(n, t, results, sound, explained) == YieldsFrom(n, t, results, "", sound, explained)
Compute(n, t, results) == Yields(n, t, results, AllSound(n) /\ ~Untyped(t), ~AllSound(n))
Room == Running /\ Len(stack) < program.depth

----------------------------------------------------------------------------
(* Literals and names.                                                     *)
PushLiteral ==
    /\ Room
    /\ \E l \in program.literals :
          stack' = Append(stack, [t |-> l.t, v |-> l.v, sound |-> TRUE, src |-> l.src])
    /\ UNCHANGED <<code, scopes, heap, ending>>

(* What the outermost scope has: functions, classes, natives.              *)
(* Variables of the top level are left out.                                *)
Globals == DOMAIN program.functions \cup DOMAIN cs \cup program.natives
Global(n) ==
    CASE n \in DOMAIN program.functions ->
            Entry(TypeOfDecl(program.functions[n]), Function(n), TRUE)
      [] n \in DOMAIN cs -> ClassAsValue(n)
      [] n \in program.natives -> Entry(Native(n), NativeValue(n), TRUE)

(* _lookup and Environment.get.  If they find the name in different scopes *)
(* the checker knows nothing of the value.                                 *)
MayMatter(n, t) == n \in DOMAIN program.functions \/ t.kind \in {"array", "map", "unknown"}
Scope(seq, n) == SelectLastInSeq(seq, LAMBDA s : n \in DOMAIN s)
LoadName(n) ==
    LET i == Scope(types, n)
        j == Scope(env, n)
        cell == env[j][n]
        global == Global(n)
        t == IF i = 0 THEN global.t ELSE types[i][n]
    IN  /\ Room
        /\ i > 0 \/ n \in Globals
        /\ stack' = Append(stack,
              [IF i = 0 /\ j = 0 THEN global ELSE Entry(t, cell.v, i = j /\ cell.sound) EXCEPT
                  !.src = IF MayMatter(n, t) THEN n ELSE ""])
        /\ UNCHANGED <<code, scopes, heap, ending>>

(* Operators.                                                              *)
Unary(op) ==
    /\ Running /\ Len(stack) >= 1
    /\ Compute(1, UnaryType(op, Top.t), UnaryResult(op, Top.v))
Binary(op) ==
    /\ Running /\ Len(stack) >= 2
    /\ Compute(2, BinaryType(cs, op, Arg(2, 1).t, Arg(2, 2).t), BinaryResult(op, Arg(2, 1).v, Arg(2, 2).v))
MakeRange ==
    /\ Running /\ Len(stack) >= 2
    /\ Compute(2, RangeType(Arg(2, 1).t, Arg(2, 2).t), RangeResult(Arg(2, 1).v, Arg(2, 2).v))
GetIndex ==
    /\ Running /\ Len(stack) >= 2
    /\ LET key == Arg(2, 1).t.kind = "map" /\ ~MayBeKey(Arg(2, 1).t.of[1])
       IN  Yields(2, IndexType(cs, Arg(2, 1).t, Arg(2, 2).t), IndexResult(Arg(2, 1).v, Arg(2, 2).v),
                  AllSound(2) /\ ~Untyped(Arg(2, 1).t), ~AllSound(2) \/ key)
Unwrap ==
    /\ Running /\ Len(stack) >= 1
    /\ Guarded \/ fn.decides
    /\ Compute(1, ContentType(Top.t), {IF Succeeds(Top.v) THEN Bound(Top.v) ELSE Fail})

(* `and` and `or`: the checker has seen both operands, the VM evaluates    *)
(* the right one only if the left one does not decide; any left operand    *)
(* that does not may be dropped, for what is left is the right one.        *)
Decided(op) == IF op = "and" THEN False ELSE True
ShortCircuit(op) ==
    /\ Running /\ Len(stack) >= 1 /\ OperandOfLogical(Top.t)
    /\ Top.v = Decided(op)
    /\ Compute(1, LogicT, {Top.v})
LastOperand(op) ==
    /\ Running /\ Len(stack) >= 2
    /\ OperandOfLogical(Arg(2, 1).t) /\ OperandOfLogical(Arg(2, 2).t)
    /\ Arg(2, 1).v # Decided(op)
    /\ Compute(2, LogicT, {Arg(2, 2).v})

ArrayLiteral(n) ==
    /\ Running /\ Len(stack) >= n /\ (n = 0 => Room)
    /\ LET t == ArrayLiteralType(cs, ArgTypes(n))
       IN  Yields(n, t, {Array(ArgValues(n))}, \A i \in 1 .. n : KeepsType(Arg(n, i), t.of[1]), FALSE)
MapLiteral(n) ==
    LET odd(S(_))  == [i \in 1 .. n |-> S(2 * i - 1)]
        even(S(_)) == [i \in 1 .. n |-> S(2 * i)]
        type(i)  == Arg(2 * n, i).t
        value(i) == Arg(2 * n, i).v
        t == MapLiteralType(cs, odd(type), even(type))
    IN  /\ Running /\ Len(stack) >= 2 * n /\ (n = 0 => Room)
        /\ Yields(2 * n, t, MapLiteralResult(Range(odd(value)), Range(even(value))),
                  \A i \in 1 .. n : KeepsType(Arg(2 * n, 2 * i - 1), t.of[1]) /\ KeepsType(Arg(2 * n, 2 * i), t.of[2]),
                  ~AllSound(2 * n) \/ (n > 0 /\ ~MayBeKey(t.of[1])))

(* spawn: its body is a function of its own.  The branches of sync and     *)
(* race are, too, and a failure in one becomes one of the expression.      *)
Spawn == Room /\ Yields(0, TaskT, {ATask}, TRUE, FALSE)
Sync(n) ==
    /\ Running /\ Len(stack) >= n /\ n > 0
    /\ Compute(n, SyncType(cs, ArgTypes(n)), {Array(ArgValues(n))})
Race(n) ==
    /\ Running /\ Len(stack) >= n /\ n > 0
    /\ Compute(n, RaceType(cs, ArgTypes(n)), ArgValues(n))

----------------------------------------------------------------------------
(* _call with a function that has a declaration: too few or too many       *)
(* arguments, an abstract method, or what the declaration promises.  An    *)
(* argument of another type than the declaration has may make it go wrong. *)
Declared(f, abstract, n) ==
    LET fits == \A i \in 1 .. n : f.params[i] = Unknown \/ Conforms(Arg(n, i).v, f.params[i])
    IN  IF n > Len(f.params) \/ n < f.required \/ abstract THEN {Wrong}
        ELSE Inhabitants(f.ret) \cup (IF f.decides THEN {False, Fail} ELSE {})
             \cup (IF fits THEN {} ELSE {Wrong})

Callee(v) ==
    IF v.tag = "function" THEN [decl |-> program.functions[v.name], abstract |-> FALSE]
    ELSE LET m == cs[FindMethod(cs, ClassOfObject(v), v.name)].methods[v.name]
         IN  [decl |-> m, abstract |-> m.abstract]

(* The effects of a callee are looked up by its name; a method or a value  *)
(* has none.  What a <decides> function returns to say that it failed is   *)
(* a value like any other.                                                 *)
EffectsKnown(e) == e.src \in DOMAIN program.functions /\ e.v = Function(e.src)
Call(n) ==
    LET callee == Arg(n + 1, 1)
        t == CallType(cs, callee.t, ArgTypes(n))
        results ==
            CASE callee.v.tag = "native" -> NativeResult(callee.v.name, [i \in 1 .. n |-> Arg(n, i).v])
              [] callee.v.tag \in {"function", "method"} ->
                    Declared(Callee(callee.v).decl, Callee(callee.v).abstract, n)
              [] OTHER -> {Wrong}
    IN  /\ Running /\ Len(stack) > n
        /\ callee.src \in DOMAIN program.functions =>
              (program.functions[callee.src].decides => Guarded \/ fn.decides)
        /\ t # NoType /\ t \in program.types
        /\ \E r \in results :
              CASE r = Wrong -> End("wrong", ~AllSound(n + 1) \/ Untyped(t))
                [] r = Error -> End("error", FALSE)
                [] r = Fail -> Fails(EffectsKnown(callee))
                [] OTHER ->
                      /\ Shallow(r)
                      /\ stack' = Append(Below(n + 1),
                            Entry(t, r, AllSound(n + 1) /\ ~Untyped(t) /\ ~(r = False /\ t # LogicT)))
                      /\ UNCHANGED <<code, scopes, heap, ending>>

----------------------------------------------------------------------------
(* _build_instance: the defaults, the base's first, then the values given. *)
Starts(c, m) ==
    LET f == cs[FieldSource(cs, c, m)].fields[m]
    IN  IF f.default THEN Inhabitants(f.t) ELSE {DefaultForType(f.t)}
StructLiteral(c, names) ==
    LET n == Len(names)
        fields == FieldNames(cs, c)
        given(m) == Arg(n, SelectLastInSeq(names, LAMBDA x : x = m))
        type(m) == cs[FieldSource(cs, c, m)].fields[m].t
        promised(m) == cs[FieldSource(cs, c, m)].fields[m].default \/ Initialised(type(m))
    IN  /\ Running /\ Len(stack) >= n /\ (n = 0 => Room)
        /\ Len(heap) < program.objects
        /\ \A i \in 1 .. n : MayInitialise(cs, c, names[i], Arg(n, i).t)
        /\ IF cs[c].abstract THEN End("wrong", TRUE)    \* a gap: the checker does not look
           ELSE \E start \in [fields -> UNION {Starts(c, m) : m \in fields}] :
                /\ \A m \in fields : start[m] \in Starts(c, m)
                /\ heap' = Append(heap, [class |-> c, fields |->
                      [m \in fields |->
                          IF m \in Range(names)
                          THEN [v |-> given(m).v, sound |-> KeepsType(given(m), type(m))]
                          ELSE [v |-> start[m], sound |-> promised(m) /\ ~Untyped(type(m))]]])
                /\ stack' = Append(Below(n), Entry(ClassOf(c), Object(Len(heap) + 1), TRUE))
                /\ UNCHANGED <<code, scopes, ending>>

(* _get_member.  `set o.n[i] = e` evaluates o twice, for the store at the  *)
(* end and for this load; the two results may differ, as those of a call.  *)
LoadsToStore(n, t) ==
    IF Len(stack) = 2 /\ stack[1].t = Top.t /\ t.kind \in {"array", "map", "unknown"} THEN n ELSE ""
GetMember(n) ==
    LET o == Top.v
        t == MemberType(cs, Top.t, n, fn.class, FALSE)
        isField == n \in DOMAIN heap[o.ref].fields
        kept == /\ Top.t.kind = "class" /\ Keeps(Top.t.name, ClassOfObject(o), n)
                /\ isField => heap[o.ref].fields[n].sound
    IN  /\ Running /\ Len(stack) >= 1
        /\ CASE o.tag = "task" ->
                   YieldsFrom(1, t, CASE n \in {"Done", "Failed"} -> Truth
                                      [] n = "Result" -> Inhabitants(Unknown)
                                      [] OTHER -> {Wrong},
                              LoadsToStore(n, t), Top.sound /\ ~Untyped(t), ~Top.sound)
             [] o.tag # "object" -> Compute(1, t, {Wrong})
             [] o.tag = "object" ->
                   YieldsFrom(1, t, IF isField THEN {heap[o.ref].fields[n].v}
                                    ELSE IF FindMethod(cs, ClassOfObject(o), n) # "" THEN {Method(o.ref, n)}
                                    ELSE {Wrong},
                          LoadsToStore(n, t), Top.sound /\ kept /\ ~Untyped(t), ~Top.sound)

----------------------------------------------------------------------------
(* Statements.  The n operands of a statement are all there is on the      *)
(* stack; there are none in a clause, a filter or an if expression.        *)
Statement(n) ==
    Running /\ Len(stack) = n /\ ~Guarded /\ ~\E i \in DOMAIN blocks : blocks[i].expr

Define(level, n, t, v, sound) ==
    /\ types' = [types EXCEPT ![level] = n :> t @@ @]
    /\ env' = [env EXCEPT ![level] = n :> [v |-> v, sound |-> sound] @@ @]

(* _check_var_decl; `ann` is the annotation, NoType if there is none.      *)
Declare(n, ann) ==
    /\ Statement(1)
    /\ ann # NoType => Assignable(cs, Top.t, ann)
    /\ LET t == IF ann = NoType THEN Top.t ELSE ann
       IN  Define(Len(types), n, t, Top.v, KeepsType(Top, t))
    /\ stack' = <<>>
    /\ UNCHANGED <<code, blocks, heap, ending>>
DeclareOnly(n, ann) ==
    /\ Statement(0)
    /\ LET t == IF ann = NoType THEN Unknown ELSE ann
       IN  Define(Len(types), n, t, DefaultForType(t), Initialised(t))
    /\ UNCHANGED <<code, blocks, stack, heap, ending>>

(* Environment.set on a name of the function.                              *)
Assign(n, t, v, sound) ==
    LET j == Scope(env, n)
    IN  /\ j > 0
        /\ env' = [env EXCEPT ![j][n] = [v |-> v, sound |-> sound]]
        /\ stack' = <<>>
        /\ UNCHANGED <<code, types, blocks, heap, ending>>
SetName(n) ==
    LET i == Scope(types, n)
    IN  /\ Statement(1) /\ i > 0
        /\ Assignable(cs, Top.t, types[i][n])
        /\ Assign(n, types[i][n], Top.v, KeepsType(Top, types[i][n]))

(* A member that is assigned to keeps the type that the object's own class *)
(* gives it if that is the one it has been checked against.                *)
FieldOf(o, n) == cs[FieldOwner(cs, ClassOfObject(o), n)].fields[n].t
StoreMember(o, static, n, e, v) ==
    heap' = [heap EXCEPT ![o.ref].fields[n] =
                [v |-> v, sound |-> e /\ static.kind = "class" /\ Assignable(cs, AnyMemberType(static.name, n), FieldOf(o, n))]]
SetMember(n) ==
    LET o == Arg(2, 1)
        t == MemberType(cs, o.t, n, fn.class, TRUE)
    IN  /\ Statement(2)
        /\ t # NoType /\ Assignable(cs, Top.t, t)
        /\ IF o.v.tag # "object" THEN End("wrong", ~o.sound \/ o.t = TaskT)   \* a gap: a task's members
           ELSE IF n \notin DOMAIN heap[o.v.ref].fields THEN End("wrong", ~o.sound)
           ELSE /\ StoreMember(o.v, o.t, n, AllSound(2) /\ KeepsType(Top, t), Top.v)
                /\ stack' = <<>>
                /\ UNCHANGED <<code, scopes, ending>>

(* set X[i] = e, set o.n[i] = e: the container is replaced by another one. *)
StoresElement(container, Store(_, _)) ==
    LET i == Arg(2, 1)
        key == container.t.kind = "map" /\ ~MayBeKey(container.t.of[1])
        t == ElementType(cs, container.t, i.t)
        sound == container.sound /\ i.sound /\ ~Untyped(container.t) /\ KeepsType(Top, t)
    IN  /\ t # NoType /\ Assignable(cs, Top.t, t)
        /\ \E r \in SetIndexResult(container.v, i.v, Top.v) :
              CASE r = Wrong -> End("wrong", ~container.sound \/ ~i.sound \/ key)
                [] r = Error -> End("error", FALSE)
                [] OTHER -> Shallow(r) /\ Store(r, sound)
SetElement ==
    LET n == stack[1].src
        i == Scope(types, n)
    IN  /\ Statement(3) /\ i > 0
        /\ StoresElement(stack[1], LAMBDA r, sound : Assign(n, types[i][n], r, sound))
SetMemberElement(n) ==
    LET o == stack[1]
    IN  /\ Statement(4) /\ stack[2].src = n
        /\ StoresElement(stack[2],
              LAMBDA r, sound :
                 IF o.v.tag # "object" \/ n \notin DOMAIN heap[o.v.ref].fields
                 THEN End("wrong", ~o.sound \/ o.t = TaskT)
                 ELSE /\ StoreMember(o.v, o.t, n, o.sound /\ sound, r)
                      /\ stack' = <<>>
                      /\ UNCHANGED <<code, scopes, ending>>)

(* An expression statement; in a <decides> function its value is checked.  *)
ExprStatement ==
    /\ Statement(1)
    /\ IF fn.decides /\ ~Succeeds(Top.v) THEN Fails(TRUE)
       ELSE stack' = <<>> /\ UNCHANGED <<code, scopes, heap, ending>>

----------------------------------------------------------------------------
(* Blocks.  Each has a scope of the checker and one of the VM.             *)
Block(kind, expr) ==
    [kind |-> kind, expr |-> expr, base |-> Len(stack), passed |-> FALSE,
     var |-> "", t |-> NoType, items |-> {}, sound |-> TRUE]
Open(b, cell) ==
    /\ Running /\ Len(types) < program.scopes
    /\ blocks' = Append(blocks, b)
    /\ types' = Append(types, IF b.var = "" THEN <<>> ELSE b.var :> b.t)
    /\ env' = Append(env, IF b.var = "" THEN <<>> ELSE b.var :> cell)
    /\ UNCHANGED <<code, heap, ending>>
Innermost == Len(blocks)
Complete == Running /\ blocks # <<>> /\ Len(stack) = Last(blocks).base + 1
InsideClause == blocks # <<>> /\ Last(blocks).kind \in {"clause", "filter"}

BeginIf == Statement(0) /\ Open(Block("clause", FALSE), {}) /\ UNCHANGED stack
BeginIfExpr == Room /\ Open(Block("clause", TRUE), {}) /\ UNCHANGED stack

(* A clause, which may bind its value to a name ("" if it does not).       *)
Clause(n) ==
    /\ Complete /\ Last(blocks).kind = "clause"
    /\ IF ~Succeeds(Top.v) THEN EnterElse(Innermost)
       ELSE /\ blocks' = [blocks EXCEPT ![Innermost].passed = TRUE]
            /\ stack' = Below(1)
            /\ IF n = "" THEN UNCHANGED <<types, env>>
               ELSE LET t == ContentType(Top.t)
                    IN  Define(Len(types), n, t, Bound(Top.v), Top.sound /\ ~Untyped(t))
            /\ UNCHANGED <<code, heap, ending>>
EnterThen ==
    /\ Running /\ InsideClause /\ Last(blocks).kind = "clause" /\ Last(blocks).passed
    /\ Len(stack) = Last(blocks).base
    /\ blocks' = [blocks EXCEPT ![Innermost].kind = "then"]
    /\ UNCHANGED <<code, types, env, stack, heap, ending>>
EndIf ==
    /\ Statement(0) /\ blocks # <<>> /\ Last(blocks).kind \in {"then", "else"}
    /\ LeaveBlock(Innermost)

(* The other branch of the expression has some type.                       *)
EndIfExpr ==
    /\ Complete /\ Last(blocks).expr /\ Last(blocks).kind \in {"then", "else"}
    /\ \E other \in program.types :
          LET t == IF Last(blocks).kind = "then" THEN JoinType(cs, Top.t, other) ELSE JoinType(cs, other, Top.t)
          IN  stack' = Append(Below(1), Entry(t, Top.v, KeepsType(Top, t) /\ ~Untyped(t)))
    /\ blocks' = Front(blocks) /\ types' = Front(types) /\ env' = Front(env)
    /\ UNCHANGED <<code, heap, ending>>

BeginFor(n) ==
    LET t == ItemType(Top.t)
        sound == Top.sound /\ ~Untyped(t)
        b == [Block("filter", FALSE) EXCEPT !.base = 0, !.var = n, !.t = t, !.items = ItemsOf(Top.v), !.sound = sound]
    IN  /\ Statement(1) /\ t # NoType
        /\ IF ~Iterable(Top.v) THEN End("wrong", ~Top.sound)
           ELSE IF ItemsOf(Top.v) = {} THEN stack' = <<>> /\ UNCHANGED <<code, scopes, heap, ending>>
           ELSE \E x \in ItemsOf(Top.v) : Open(b, [v |-> x, sound |-> sound]) /\ stack' = <<>>
Filter ==
    /\ Complete /\ Last(blocks).kind = "filter"
    /\ IF Succeeds(Top.v) THEN stack' = Below(1) /\ UNCHANGED <<code, scopes, heap, ending>>
       ELSE NextRoundOf(Innermost) \/ LeaveBlock(Innermost)
EnterBody ==
    /\ Running /\ InsideClause /\ Last(blocks).kind = "filter" /\ Len(stack) = Last(blocks).base
    /\ blocks' = [blocks EXCEPT ![Innermost].kind = "body"]
    /\ UNCHANGED <<code, types, env, stack, heap, ending>>
BeginLoop == Statement(0) /\ Open(Block("loop", FALSE), {}) /\ UNCHANGED stack

(* The end of the body or continue; the end of the loop or break.          *)
NextRound == Statement(0) /\ InnermostOf({"body", "loop"}) > 0 /\ NextRoundOf(InnermostOf({"body", "loop"}))
LeaveLoop == Statement(0) /\ InnermostOf({"body", "loop"}) > 0 /\ LeaveBlock(InnermostOf({"body", "loop"}))

----------------------------------------------------------------------------
(* The end of a function, and the start of the next one.                   *)
Returns(t, v, sound) ==
    /\ result' = [v |-> v, sound |-> sound /\ ~Untyped(fn.ret)]
    /\ status' = "returned" /\ gap' = FALSE
    /\ stack' = <<>> /\ types' = <<>> /\ env' = <<>> /\ blocks' = <<>>
    /\ UNCHANGED <<code, heap>>
Return ==
    /\ Statement(1)
    /\ (fn.decides /\ Top.src = "false") \/ Assignable(cs, Top.t, fn.ret)
    /\ Returns(Top.t, Top.v, KeepsType(Top, fn.ret))
TrailingExpression ==
    /\ Statement(1) /\ blocks = <<>>
    /\ Assignable(cs, Top.t, fn.ret)
    /\ Returns(Top.t, Top.v, KeepsType(Top, fn.ret))
(* Mutant of AlwaysReturns: one branch that returns is enough.             *)
SomeBranchReturns(hasElse, then, else) == then \/ else

(* _always_returns of an if statement, from what it says of its branches.  *)
AlwaysReturns(hasElse, then, else) == hasElse /\ then /\ else

(* What _always_returns says of the if statements that end the function,   *)
(* block i of it or the i-th: the branch that is executed does not end in  *)
(* a return, the other one may be anything.                                *)
RECURSIVE Shapes(_)
Shapes(i) ==
    IF i > Len(blocks) THEN {FALSE}
    ELSE {AlwaysReturns(h, IF blocks[i].kind = "then" THEN r ELSE o, IF blocks[i].kind = "then" THEN o ELSE r) :
             h \in IF blocks[i].kind = "else" /\ i < Len(blocks) THEN {TRUE} ELSE BOOLEAN,
             o \in BOOLEAN, r \in Shapes(i + 1)}

(* The end of a body of which the last statement is no return.             *)
FallOff ==
    /\ Statement(0)
    /\ \A i \in DOMAIN blocks : blocks[i].kind \in {"then", "else"}
    /\ Assignable(cs, VoidT, fn.ret) \/ TRUE \in Shapes(1)
    /\ Returns(VoidT, Void, TRUE)

NoResult == [v |-> Void, sound |-> FALSE]
Frame(f, class, self) ==
    LET place(n) == SelectInSeq(f.names, LAMBDA x : x = n)
        param(n) == f.params[place(n)]
    IN  /\ status # "running"
        /\ \E passed \in [Range(f.names) -> UNION {Inhabitants(t) : t \in Range(f.params)}] :
              /\ \A n \in Range(f.names) : passed[n] \in Inhabitants(param(n))
              /\ types' = <<[n \in Range(f.names) |-> param(n)] @@ [n \in DOMAIN self |-> ClassOf(class)]>>
              /\ env' = <<[n \in Range(f.names) |-> [v |-> passed[n], sound |-> ~Untyped(param(n))]] @@ self>>
        /\ fn' = [ret |-> f.ret, decides |-> f.decides, class |-> class]
        /\ status' = "running" /\ gap' = FALSE /\ result' = NoResult
        /\ UNCHANGED <<program, blocks, stack, heap>>

Begin(name) == Frame(program.functions[name], "", <<>>)
BeginMethod(o, m) ==
    LET c == FindMethod(cs, heap[o].class, m)
    IN  /\ c # "" /\ ~cs[c].methods[m].abstract
        /\ Frame(cs[c].methods[m], c, "self" :> [v |-> Object(o), sound |-> TRUE])

Init ==
    /\ program \in {p \in Programs : ClassesAccepted(p.classes)}
    /\ fn = [ret |-> VoidT, decides |-> FALSE, class |-> ""]
    /\ types = <<>> /\ env = <<>> /\ blocks = <<>> /\ stack = <<>> /\ heap = <<>>
    /\ status = "idle" /\ gap = FALSE /\ result = NoResult

Names == program.names \cup UNION {DOMAIN types[i] : i \in DOMAIN types}
Allows(form) == form \in program.forms

Operator ==
    \/ PushLiteral
    \/ \E n \in Names \cup (Globals \ DOMAIN cs) : LoadName(n)
    \/ Allows("class") /\ \E c \in DOMAIN cs : LoadName(c)
    \/ \E op \in program.unary : Unary(op)
    \/ \E op \in program.binary : Binary(op)
    \/ \E op \in program.logical : ShortCircuit(op) \/ LastOperand(op)
    \/ Allows("range") /\ MakeRange
    \/ Allows("index") /\ GetIndex
    \/ Allows("unwrap") /\ Unwrap
    \/ Allows("array") /\ \E n \in program.arities : ArrayLiteral(n)
    \/ Allows("map") /\ \E n \in program.arities : MapLiteral(n)
    \/ Allows("task") /\ (Spawn \/ \E n \in program.arities : Sync(n) \/ Race(n))
    \/ \E n \in program.arities : Call(n)
    \/ \E s \in program.structs : StructLiteral(s.class, s.names)
    \/ \E n \in program.members : GetMember(n)
SimpleStatement ==
    \/ \E n \in program.names, t \in program.annotations : Declare(n, t) \/ DeclareOnly(n, t)
    \/ \E n \in program.names : SetName(n)
    \/ \E n \in program.members : SetMember(n) \/ SetMemberElement(n)
    \/ Allows("index") /\ SetElement
    \/ ExprStatement \/ Return \/ TrailingExpression \/ FallOff
Compound ==
    \/ Allows("if") /\ BeginIf
    \/ Allows("ifexpr") /\ BeginIfExpr
    \/ \E n \in program.names \cup {""} : Clause(n)
    \/ EnterThen \/ EndIf \/ EndIfExpr
    \/ Allows("for") /\ \E n \in program.names : BeginFor(n)
    \/ Filter \/ EnterBody
    \/ Allows("loop") /\ BeginLoop
    \/ NextRound \/ LeaveLoop
Start ==
    \/ \E f \in DOMAIN program.functions : Begin(f)
    \/ \E o \in DOMAIN heap, m \in program.members : BeginMethod(o, m)

Next == Operator \/ SimpleStatement \/ Compound \/ Start
Spec == Init /\ [][Next]_vars

----------------------------------------------------------------------------
TypeOK ==
    /\ program \in Programs
    /\ status \in {"idle", "running", "returned", "failed", "error", "wrong"}
    /\ Len(types) = Len(env) /\ Len(types) <= program.scopes
    /\ Running => Len(types) = Len(blocks) + 1
    /\ Len(heap) <= program.objects
    /\ \A i \in DOMAIN stack : stack[i].v \notin {Wrong, Error, Fail} /\ stack[i].t # NoType

(* Type soundness: what is not the product of a gap is of the type that    *)
(* the checker has inferred for it, on the stack, in the names, in the     *)
(* fields; and every name the checker sees is bound where the VM looks.    *)
SoundMeansTyped ==
    /\ \A i \in DOMAIN stack : stack[i].sound => Conforms(stack[i].v, stack[i].t)
    /\ \A i \in DOMAIN types : \A n \in DOMAIN types[i] :
          /\ n \in DOMAIN env[i]
          /\ env[i][n].sound => Conforms(env[i][n].v, types[i][n])
    /\ \A o \in DOMAIN heap : \A n \in DOMAIN heap[o].fields :
          heap[o].fields[n].sound => Conforms(heap[o].fields[n].v, FieldOf(Object(o), n))

(* An accepted function goes wrong through a gap only.                     *)
WrongIsExplained == status = "wrong" => gap

(* A failure leaves a function that is not <decides> only if it came from  *)
(* a callee whose effects the checker does not know.                       *)
FailureIsDeclared == status = "failed" => fn.decides \/ gap

(* What the calls rely on: a function returns what its declaration says,   *)
(* or `false` if it is <decides>.                                          *)
PromiseKept == status = "returned" /\ result.sound =>
                  Conforms(result.v, fn.ret) \/ (fn.decides /\ result.v = False)

(* A private field changes in the methods of the class that declares it    *)
(* only, or where a base class that declares it too grants access, for the *)
(* object may be named by an expression of the type of the base.           *)
PrivateIsPrivate ==
    [][\A o \in DOMAIN heap : \A n \in DOMAIN heap[o].fields :
          LET c == FieldSource(cs, heap[o].class, n)
          IN  /\ cs[c].fields[n].access = "private"
              /\ heap'[o].fields[n] # heap[o].fields[n]
              /\ stack[1].sound
              => \/ fn.class = c
                 \/ \E b \in DOMAIN cs \ {c} :
                       /\ IsSubclass(cs, c, b) /\ n \in DOMAIN cs[b].fields
                       /\ \/ cs[b].fields[n].access = "public"
                          \/ cs[b].fields[n].access = "protected" /\ fn.class # "" /\ IsSubclass(cs, fn.class, b)
                          \/ fn.class = b]_vars
=============================================================================

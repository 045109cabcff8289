------------------------------- MODULE Types -------------------------------
(***************************************************************************)
(* The types of the strict checker (src/src/versetools/type_system.py) and *)
(* what it asks of them and of the classes of a program                    *)
(* (src/src/versetools/type_checker.py): assignability, member lookup,     *)
(* access, abstract methods and interfaces.                                *)
(*                                                                         *)
(* A type is a kind with the types it is made of, a class or native name,  *)
(* and, for the type of a function, how many arguments it requires.        *)
(*                                                                         *)
(* A class table `cs` maps the names of the declared classes to their      *)
(* declarations: base ("" if there is none), interfaces, abstract, fields, *)
(* methods.  A field has a type, an access and a flag that tells whether   *)
(* it has a default expression; a method is a function declaration with an *)
(* access and a flag `abstract`.  A function declaration has the types of  *)
(* its parameters, how many of them are required, its result type and the  *)
(* flag `decides`.  Base names lead to no cycle.                           *)
(***************************************************************************)
EXTENDS Integers, Sequences, SequencesExt

Simple(k) == [kind |-> k, of |-> <<>>, name |-> "", required |-> 0]
Unknown  == Simple("unknown")
IntT     == Simple("int")
FloatT   == Simple("float")
TextT    == Simple("string")
LogicT   == Simple("logic")
VoidT    == Simple("void")
RangeT   == Simple("range")
TaskT    == Simple("task")
AnyFunction == Simple("function")
ArrayOf(t)  == [Simple("array") EXCEPT !.of = <<t>>]
MapOf(k, t) == [Simple("map") EXCEPT !.of = <<k, t>>]
OptionOf(t) == [Simple("option") EXCEPT !.of = <<t>>]
ClassOf(c)  == [Simple("class") EXCEPT !.name = c]
Native(n)   == [Simple("builtin") EXCEPT !.name = n]
FunctionOf(params, ret, required) ==
    [Simple("fn") EXCEPT !.of = Append(params, ret), !.required = required]
TypeOfDecl(f) == FunctionOf(f.params, f.ret, f.required)

Numbers == {IntT, FloatT, Unknown}     \* what the checker lets a number be
ParamsOf(t) == Front(t.of)
ResultOf(t) == Last(t.of)

RECURSIVE Mentions(_, _)
Mentions(t, u) == t = u \/ \E i \in DOMAIN t.of : Mentions(t.of[i], u)

----------------------------------------------------------------------------
(* parse_type_ann: an annotation is a sequence of "?", "[", "]" and names. *)
(* A result has the type and what is left of the annotation; an annotation *)
(* that is cut short or has anything left over is an error.                *)
NoType == Simple("error")
Named(n) ==
    IF n \in {"int", "float", "string", "logic", "void", "range", "task", "function"}
    THEN Simple(n) ELSE ClassOf(n)

RECURSIVE ParseOne(_)
ParseOne(text) ==
    LET inner(from, Wrap(_)) ==
            LET r == ParseOne(from)
            IN  IF r.t = NoType THEN r ELSE [r EXCEPT !.t = Wrap(r.t)]
        none == [t |-> NoType, rest |-> <<>>]
    IN  CASE text = <<>> -> none
          [] text # <<>> /\ Head(text) = "?" -> inner(Tail(text), OptionOf)
          [] text # <<>> /\ Head(text) = "[" ->
                IF Len(text) > 1 /\ text[2] = "]"
                THEN inner(SubSeq(text, 3, Len(text)), ArrayOf)
                ELSE LET key == ParseOne(Tail(text))
                     IN  IF key.t = NoType \/ key.rest = <<>> \/ Head(key.rest) # "]" THEN none
                         ELSE inner(Tail(key.rest), LAMBDA v : MapOf(key.t, v))
          [] text # <<>> /\ Head(text) = "]" -> none
          [] OTHER -> [t |-> Named(Head(text)), rest |-> Tail(text)]

ParseTypeAnn(text) == LET r == ParseOne(text) IN IF r.rest = <<>> THEN r.t ELSE NoType

----------------------------------------------------------------------------
(* ClassInfo and its lookups, which go from a class to its bases.          *)
RECURSIVE IsSubclass(_, _, _)
IsSubclass(cs, source, target) ==
    \/ source = target
    \/ source \in DOMAIN cs /\ cs[source].base # "" /\ IsSubclass(cs, cs[source].base, target)

(* The class that `c` takes its field or method n from; "" if it has none. *)
RECURSIVE FieldOwner(_, _, _), MethodOwner(_, _, _)
FieldOwner(cs, c, n) ==
    IF n \in DOMAIN cs[c].fields THEN c
    ELSE IF cs[c].base = "" THEN "" ELSE FieldOwner(cs, cs[c].base, n)
MethodOwner(cs, c, n) ==
    IF n \in DOMAIN cs[c].methods THEN c
    ELSE IF cs[c].base = "" THEN "" ELSE MethodOwner(cs, cs[c].base, n)

(* Mutant of Accessible: private is taken for protected.                   *)
AccessibleToHeirs(cs, access, owner, current) ==
    access = "public" \/ (current # "" /\ IsSubclass(cs, current, owner))

(* _ensure_member_access: `current` is the class whose method is checked.  *)
Accessible(cs, access, owner, current) ==
    \/ access = "public"
    \/ access = "private" /\ current = owner
    \/ access = "protected" /\ current # "" /\ IsSubclass(cs, current, owner)

(* _is_assignable.  Unknown is assignable both ways, as gradual typing has *)
(* it; parameter types must be assignable both ways.                       *)
RECURSIVE Assignable(_, _, _)
Assignable(cs, source, target) ==
    \/ Unknown \in {source, target}
    \/ target = AnyFunction /\ source.kind = "fn"
    \/ /\ source.kind = target.kind
       /\ CASE source.kind = "class" -> IsSubclass(cs, source.name, target.name)
            [] source.kind = "fn" ->
                  /\ Len(source.of) = Len(target.of)
                  /\ Assignable(cs, ResultOf(source), ResultOf(target))
                  /\ \A i \in DOMAIN ParamsOf(source) :
                        /\ Assignable(cs, source.of[i], target.of[i])
                        /\ Assignable(cs, target.of[i], source.of[i])
            [] source.kind \in {"array", "map", "option"} ->
                  \A i \in DOMAIN source.of : Assignable(cs, source.of[i], target.of[i])
            [] OTHER -> source = target
Equivalent(cs, s, t) == Assignable(cs, s, t) /\ Assignable(cs, t, s)

----------------------------------------------------------------------------
(* _check_class, as far as it is about classes: the abstract methods that  *)
(* a class is left with, and what it lacks of an interface it lists.       *)
RECURSIVE Unimplemented(_, _)
Unimplemented(cs, c) ==
    LET own == cs[c].methods
    IN  {m \in (IF cs[c].base = "" THEN {} ELSE Unimplemented(cs, cs[c].base)) \cup DOMAIN own :
            m \in DOMAIN own => own[m].abstract}

MissingOf(cs, c, iface) ==
    {m \in DOMAIN cs[iface].methods :
        LET owner == MethodOwner(cs, c, m)
        IN  \/ owner = ""
            \/ cs[owner].methods[m].abstract
            \/ ~Equivalent(cs, TypeOfDecl(cs[owner].methods[m]), TypeOfDecl(cs[iface].methods[m]))}

ClassAccepted(cs, c) ==
    /\ ({cs[c].base} \ {""}) \cup cs[c].interfaces \subseteq DOMAIN cs
    /\ cs[c].abstract \/ /\ Unimplemented(cs, c) = {}
                         /\ \A i \in cs[c].interfaces : MissingOf(cs, c, i) = {}
ClassesAccepted(cs) == \A c \in DOMAIN cs : ClassAccepted(cs, c)
=============================================================================

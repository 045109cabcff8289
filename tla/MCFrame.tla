------------------------------ MODULE MCFrame ------------------------------
(***************************************************************************)
(* TLC instance of Frame: every program of a bounded grammar, compiled by  *)
(* Compiler, executed by Frame and compared with Meaning.  The grammar     *)
(* combines each expression that jumps with each place an expression may   *)
(* stand in, and each way out of a block with each nesting of two blocks.  *)
(***************************************************************************)
EXTENDS FrameTyping, TLC

CONSTANTS BreaksFor   \* programs may break out of a for

C == INSTANCE Compilation
M == INSTANCE Meaning

Outcomes == {V("false", 0), V("true", 0), V("present", 1)}
Options  == {V("absent", 0), V("present", 0), V("present", 1), V("true", 0)}
Arrays   == {V("array", 1), V("array", 2), V("datum", 1)}

(* Constructors of nodes, and the places of their children.                *)
Const(p)             == [kind |-> "const", at |-> p, v |-> Void]
Bind(e)              == [arg |-> e, named |-> TRUE]
Test(e)              == [arg |-> e, named |-> FALSE]
Op(p, args, out)     == [kind |-> "op", at |-> p, args |-> args, out |-> out]
Atom(p)              == Op(p, <<>>, Outcomes)
Opt(p)               == [kind |-> "unwrap", at |-> p, arg |-> Op(p, <<>>, Options)]
Logic(k, p, l, r)    == [kind |-> k, at |-> p, left |-> l, right |-> r]
IfEx(p, cs, t, e)    == [kind |-> "ifexpr", at |-> p, clauses |-> cs, then |-> t, else |-> e]
CallOf(p, fn, args)  == [kind |-> "call", at |-> p, fn |-> fn, args |-> args]
Do(p, e)             == [kind |-> "expr", at |-> p, arg |-> e]
Set(p, e)            == [kind |-> "store", at |-> p, args |-> <<e>>]
If(p, cs, t, e)      == [kind |-> "if", at |-> p, clauses |-> cs, then |-> t, else |-> e]
For(p, e, fs, b)     == [kind |-> "for", at |-> p, arg |-> e, filters |-> fs, body |-> b]
Loop(p, b)           == [kind |-> "loop", at |-> p, body |-> b]
Leave(k, p)          == [kind |-> k, at |-> p]
Ret(p, e)            == [kind |-> "return", at |-> p, arg |-> e]
Array(p)             == Op(p, <<>>, Arrays)
One(p)               == Op(p, <<>>, {V("datum", 1)})
L(p) == Append(p, 1)
R(p) == Append(p, 2)
X(p) == Append(p, 3)

(* Chunk 2 has the <decides> effect, chunk 3 fails without it, chunk 4     *)
(* returns from inside a for.                                              *)
Functions ==
    << [decides |-> TRUE,  body |-> <<Do(<<7, 1>>, Atom(<<7, 1>>)), Do(<<7, 2>>, One(<<7, 2>>))>>],
       [decides |-> FALSE, body |-> <<Set(<<8, 1>>, Opt(<<8, 1, 1>>))>>],
       [decides |-> FALSE, body |-> <<For(<<9>>, Array(<<9, 1>>), <<>>,
            <<If(<<9, 2>>, <<Bind(Atom(<<9, 2>>))>>, <<Ret(<<9, 3>>, Atom(<<9, 3>>))>>, <<>>)>>)>>] >>

(* Expressions, one deep and two deep.                                     *)
Flat(p) == {Atom(p), Opt(p), CallOf(p, 2, <<>>), CallOf(p, 3, <<One(L(p))>>), CallOf(p, 4, <<>>)}
Deep(p) ==
    Flat(p)
    \cup {Op(p, <<One(L(p)), e>>, {V("datum", 1)}) : e \in Flat(R(p))}
    \cup {Logic(k, p, Atom(L(p)), e) : k \in {"and", "or"}, e \in Flat(R(p))}
    \cup {Op(p, <<One(L(p)), IfEx(R(p), <<c>>, Opt(L(R(p))), Const(R(R(p))))>>, Outcomes) :
              c \in {Bind(e) : e \in Flat(X(p))}}

(* The last statement of a block: in a loop it may leave the loop.         *)
Exits(p, leaves) ==
    {Do(p, One(p)), Ret(p, One(p))} \cup {Leave(k, p) : k \in leaves}
InsideFor == {"continue"} \cup (IF BreaksFor THEN {"break"} ELSE {})

Tests(p) ==
    {<<If(p, <<Bind(e)>>, <<Do(L(p), One(L(p)))>>, <<Set(R(p), One(R(p)))>>)>> : e \in Deep(X(p))}
    \cup {<<If(p, <<Test(e), Bind(Atom(X(p)))>>, <<Ret(L(p), Const(L(p)))>>, <<>>)>> : e \in Flat(R(p))}
    \cup {<<Do(p, e)>> : e \in Deep(p)}
Filters(p) ==
    {<<For(p, Array(L(p)), <<e>>, <<Do(R(p), One(R(p)))>>)>> : e \in Deep(X(p))}
Choosing(p, leaves) ==
    {If(p, <<Test(Atom(L(p)))>>, <<x>>, <<y>>) : x \in Exits(R(p), leaves), y \in Exits(X(p), leaves)}
Loops(p) ==
    {<<Loop(p, <<s>>), Do(X(p), One(X(p)))>> : s \in Choosing(L(p), {"break", "continue"})}
    \cup {<<Loop(p, <<If(R(p), <<Bind(Atom(X(p)))>>, <<s>>, <<>>)>>), Do(X(p), One(X(p)))>> :
              s \in Choosing(L(p), {"break", "continue"})}
    \cup {<<For(p, Array(L(p)), <<>>, <<s>>), Do(X(p), One(X(p)))>> : s \in Choosing(R(p), InsideFor)}
Nested(p) ==
    {<<For(p, Array(L(p)), <<>>, <<Loop(R(p), <<s>>), Do(X(p), One(X(p)))>>)>> :
        s \in Choosing(L(R(p)), {"break", "continue"})}
    \cup {<<For(p, Array(L(p)), <<>>, <<For(R(p), Array(L(R(p))), <<>>, <<s>>), Do(X(p), One(X(p)))>>)>> :
        s \in Choosing(R(R(p)), InsideFor)}

Bodies == Tests(<<>>) \cup Filters(<<>>) \cup Loops(<<>>) \cup Nested(<<>>)
(* Besides the compiled programs, any bytecode of two instructions between *)
(* one of two beginnings and a RETURN, beside the same functions and one *)
(* without a RETURN.                                                       *)
Ins(op, n, to) == [op |-> op, n |-> n, to |-> to, at |-> <<n>>, out |-> {V("array", 1)}]
First == [Ins("EVAL", 0, 1) EXCEPT !.out = {V("array", 1), V("absent", 0), V("function", 2), V("function", 5)}]
Beginnings == {<<First>>, <<Ins("PUSH_HANDLER", 0, 4), First>>}
AnyInstruction ==
    {Ins(op, 0, 1) : op \in {"EVAL", "POP", "PUSH_SCOPE", "POP_SCOPE", "POP_HANDLER",
                             "POP_CHECKED", "FAILABLE_UNWRAP", "CALL", "GET_ITER"}}
    \cup {Ins(op, 0, to) : op \in {"JUMP", "JUMP_IF_FALSE", "PUSH_HANDLER", "CLAUSE_CHECK", "FOR_ITER"},
                           to \in {4, 5}}
AnyBytecode ==
    {start \o <<i, j, Ins("RETURN", 0, 1)>> :
        start \in Beginnings, i \in AnyInstruction, j \in AnyInstruction}

(* The typing that follows a chunk once from its first instruction.  In    *)
(* code whose backward jumps lead to instructions passed before, it is the *)
(* only one there can be.                                                  *)
Inferred(code, k) ==
    LET chunk == code[k]
        typed[n \in 0 .. Len(chunk)] ==
            IF n = 0 THEN 1 :> EntryType(k)
            ELSE LET types == typed[n - 1]
                     reached == n \in DOMAIN types /\ Allowed(chunk[n], types[n])
                     new == IF reached THEN Successors(chunk[n], n, types[n]) ELSE {}
                 IN  types @@ [to \in {u.pc : u \in new} |-> (CHOOSE u \in new : u.pc = to).type]
    IN  typed[Len(chunk)]
Typed(p) == p @@ [types |-> <<>> \o [k \in DOMAIN p.chunks |-> Inferred(p.chunks, k)]]

Source(b)    == [body |-> b, functions |-> Functions]
Compiled(b)  == Source(b) @@ [chunks |-> C!Program(Source(b))]
Assembled(c) == [chunks |-> <<c>> \o Tail(C!Program(Source(<<>>))) \o <<<<First>>>>]
MCPrograms ==
    {Typed(p) : p \in {Compiled(b) : b \in Bodies} \cup {Assembled(c) : c \in AnyBytecode}}

----------------------------------------------------------------------------
(* The programs of the grammar are programs of trees: their nodes, how     *)
(* deep each is, and the code Compilation gives them.                      *)
RECURSIVE Whole(_), Depth(_), StmtsAt(_, _), Within(_)
Whole(e) == {e} \cup UNION {Whole(x) : x \in C!Parts(e)}
Within(s) == {s} \cup UNION {Within(y) : y \in C!Inner(s)}
Depth(x) ==
    LET statement == x.kind \in {"expr", "return", "store", "if", "for", "loop", "break", "continue"}
    IN  C!Max({0} \cup {Depth(y) + 1 : y \in IF statement THEN C!Inner(x) ELSE C!Parts(x)})
StmtsAt(s, place) ==
    {<<s, place>>} \cup UNION {StmtsAt(y, IF s.kind = "if" THEN place ELSE s.kind) : y \in C!Inner(s)}

AreTrees(p) ==
    LET bodies == {p.body} \cup {f.body : f \in C!Elements(p.functions)}
        outer == UNION {C!Elements(b) : b \in bodies}
        placed == UNION {StmtsAt(s, "none") : s \in outer}
        stmts == UNION {Within(s) : s \in outer}
        E == UNION {Whole(e) : e \in UNION {C!Evaluated(s) : s \in stmts}}
        S == [place \in C!Places |-> {x[1] : x \in {y \in placed : y[2] = place}}]
        contexts == [scopes : 0 .. 1, outside : 0 .. 1, decides : BOOLEAN]
        reached == [scopes : 0 .. 3, outside : 0 .. 3, decides : BOOLEAN]
        expr == [e \in E |-> C!CodeOf(e)]
        stmt == [y \in stmts \X reached |-> C!CodeIn(y[1], y[2])]
    IN  /\ C!Trees(E, S, Data, [x \in E \cup stmts |-> Depth(x)])
        /\ C!IsProgram(p, S)
        /\ C!CompiledBy(E, S, contexts, expr, stmt)
        /\ p.chunks = C!Bytecode(p, expr, stmt)

ASSUME GrammarAssumption ==
    ~ BreaksFor => \A p \in Programs : "body" \in DOMAIN p => AreTrees(p)

----------------------------------------------------------------------------
(* The bytecode does what its source means: the same computations on the   *)
(* same operands in the same order, and the same end.                      *)
Faithful ==
    FromSource =>
        LET m == M!Run(program, log)
        IN  /\ m.out # "wrong" /\ m.used = Len(log) /\ status # "crashed"
            /\ status = "returned" => m.out \in {"normal", "return"} /\ result = m.v
            /\ status = "failed" => m.out = "fail"
            /\ status = "error" => m.out = "error"

(* "Iterates arrays (elements), ranges (`a..b`, inclusive ints), and maps" *)
(* (docs/language-reference.md, on `for`): what a `for` binds, one after   *)
(* the other, are the elements of the collection it was given.             *)
ForIteratesItsCollection ==
    \A i \in DOMAIN log :
        log[i].args # <<>> /\ log[i].args[1].kind = "element" =>
            LET given(j) == log[j].at = L(log[i].at)
                start == CHOOSE j \in 1 .. i : given(j) /\ \A k \in j + 1 .. i : ~ given(k)
                bound == {j \in start .. i : log[j].at = log[i].at}
            IN  log[i].args[1].n = log[start].v.n + 1 - Cardinality(bound)
=============================================================================

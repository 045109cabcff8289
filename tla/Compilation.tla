---------------------------- MODULE Compilation ----------------------------
(***************************************************************************)
(* The compiler on whole programs: Compiler has the code of a node from    *)
(* the code of the nodes it is made of, and the recursion is here.         *)
(***************************************************************************)
EXTENDS Compiler

RECURSIVE CodeOf(_)
CodeOf(e) == Expr(e, [x \in Parts(e) |-> CodeOf(x)])
CodesOf(es) == [x \in es |-> CodeOf(x)]

RECURSIVE CodeIn(_, _)
CodeIn(s, ctx) ==
    LET inner == IF s.kind = "if" THEN InScope(ctx) ELSE InLoop(InScope(ctx))
    IN  Stmt(s, ctx, CodesOf(Evaluated(s)), [y \in Inner(s) \X {inner} |-> CodeIn(y[1], y[2])])

(* The chunks of a program.                                                *)
Program(p) ==
    LET bodies == {<<p.body, FALSE>>} \cup {<<f.body, f.decides>> : f \in Elements(p.functions)}
        results == {Last(f.body).arg : f \in {f \in Elements(p.functions) :
                                                 f.body # <<>> /\ Last(f.body).kind = "expr"}}
        places == UNION {Elements(b[1]) \X {Context(b[2])} : b \in bodies}
    IN  Bytecode(p, CodesOf(results), [y \in places |-> CodeIn(y[1], y[2])])
=============================================================================

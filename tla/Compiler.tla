------------------------------ MODULE Compiler ------------------------------
(***************************************************************************)
(* The compiler (src/src/versetools/compiler.py): the bytecode of the      *)
(* statements and expressions that jump, open a scope or push a handler,   *)
(* with the addresses its patching gives them.  An expression that only    *)
(* computes on its operands is "op", whatever the operator.                *)
(*                                                                         *)
(* A node has `at`, its place in the source, and a kind:                   *)
(*   expressions  op(args, out), const(v), unwrap(arg),                    *)
(*                and / or(left, right), call(fn, args),                   *)
(*                ifexpr(clauses, then, else)                              *)
(*   statements   expr(arg), store(args), if(clauses, then, else),         *)
(*                for(arg, filters, body), loop(body), break, continue,    *)
(*                return(arg)                                              *)
(* A clause has an expression, arg, and is `named` if it binds the value.  *)
(* What may be left out, the else of an expression or the value of a       *)
(* return, is the const void, and the else of a statement is empty.        *)
(***************************************************************************)
EXTENDS Integers, Sequences, SequencesExt

FunctionValue(k) == [kind |-> "function", n |-> k]
Nothing == [kind |-> "datum", n |-> 0]

(* Instructions.  A jump leads so many instructions further, or to a label *)
(* that is resolved when the code it is part of is complete, as the        *)
(* compiler patches it; Linked gives the addresses.                        *)
Further(n)      == [label |-> "none", by |-> n]
Ins(op)         == [op |-> op, n |-> 0, to |-> Further(0), at |-> <<>>, out |-> {}]
Branch(op, l)   == [Ins(op) EXCEPT !.to.label = l]
Skip(op, n)     == [Ins(op) EXCEPT !.to = Further(n)]
Does(op, at, n) == [Ins(op) EXCEPT !.at = at, !.n = n]
LoadConst(v)    == <<[Ins("LOAD") EXCEPT !.out = {v}]>>

(* The labels of `targets` lead to these indices of the code.              *)
Resolve(code, targets) ==
    [i \in DOMAIN code |-> [code[i] EXCEPT !.to =
        IF @.label \in DOMAIN targets THEN Further(targets[@.label] - i) ELSE @]]
Linked(code) == [i \in DOMAIN code |-> [code[i] EXCEPT !.to = i + @.by]]

(* Mutant of Unwind: break and continue leave the scopes of the body open. *)
UnwindsNothing(ctx) == <<>>

(* _FuncCtx: the open scopes, those open outside the innermost loop, and   *)
(* whether the function has the <decides> effect.                          *)
Context(decides) == [scopes |-> 0, outside |-> 0, decides |-> decides]
InScope(ctx) == [ctx EXCEPT !.scopes = @ + 1]
InLoop(ctx)  == [ctx EXCEPT !.outside = ctx.scopes]
Unwind(ctx)  == [i \in 1 .. ctx.scopes - ctx.outside |-> Ins("POP_SCOPE")]

----------------------------------------------------------------------------
(* Expressions.  `expr` has the code of the expressions that a node is     *)
(* made of.                                                                *)
Exprs(es, expr) == FlattenSeq([i \in DOMAIN es |-> expr[es[i]]])

(* The clauses of an if, and the filters of a for, which have no names.    *)
Unnamed(e) == [arg |-> e, named |-> FALSE]
Binding(c) == Append(c.arg.at, 0)   \* where the name of a clause is bound

Clause(c, expr) ==
    <<Branch("PUSH_HANDLER", "fail")>> \o expr[c.arg]
    \o <<Ins("POP_HANDLER"), Branch("CLAUSE_CHECK", "fail"),
         IF c.named THEN Does("STORE", Binding(c), 1) ELSE Ins("POP")>>
Clauses(cs, expr) == FlattenSeq([i \in DOMAIN cs |-> Clause(cs[i], expr)])
Filters(es, expr) == Clauses([i \in DOMAIN es |-> Unnamed(es[i])], expr)

(* The layout shared by if statements and if expressions.                  *)
Choice(clauses, then, else) ==
    LET passed == <<Ins("PUSH_SCOPE")>> \o clauses \o then
                  \o <<Ins("POP_SCOPE"), Skip("JUMP", Len(else) + 2)>>
    IN  Resolve(passed, [fail |-> Len(passed) + 1]) \o else \o <<Ins("POP_SCOPE")>>

ShortCircuit(op, left, right) == left \o <<Skip(op, Len(right) + 2), Ins("POP")>> \o right

Expr(e, expr) ==
    CASE e.kind = "op" -> Exprs(e.args, expr) \o <<[Does("EVAL", e.at, Len(e.args)) EXCEPT !.out = e.out]>>
      [] e.kind = "const" -> LoadConst(e.v)
      [] e.kind = "unwrap" -> expr[e.arg] \o <<Ins("FAILABLE_UNWRAP")>>
      [] e.kind = "and" -> ShortCircuit("JUMP_IF_FALSE", expr[e.left], expr[e.right])
      [] e.kind = "or" -> ShortCircuit("JUMP_IF_TRUE", expr[e.left], expr[e.right])
      [] e.kind = "call" ->
             LoadConst(FunctionValue(e.fn)) \o Exprs(e.args, expr) \o <<Does("CALL", e.at, Len(e.args))>>
      [] e.kind = "ifexpr" -> Choice(Clauses(e.clauses, expr), expr[e.then], expr[e.else])

----------------------------------------------------------------------------
(* Statements.  `stmt` has the code of the statements within, each in the  *)
(* context it is compiled in.                                              *)
Stmts(ss, ctx, stmt) == FlattenSeq([i \in DOMAIN ss |-> stmt[<<ss[i], ctx>>]])

IfStmt(s, ctx, expr, stmt) ==
    Choice(Clauses(s.clauses, expr), Stmts(s.then, InScope(ctx), stmt), Stmts(s.else, InScope(ctx), stmt))

(* A failed filter and continue lead to the next element; break and the    *)
(* end of the iterator lead behind the loop.                               *)
ForLoop(s, ctx, expr, stmt) ==
    LET round == <<Branch("FOR_ITER", "break"), Does("STORE", s.at, 1)>> \o Filters(s.filters, expr)
                 \o Stmts(s.body, InLoop(InScope(ctx)), stmt) \o <<Branch("JUMP", "continue")>>
    IN  Resolve(round, [fail |-> 1, continue |-> 1, break |-> Len(round) + 1])
ForStmt(s, ctx, expr, stmt) ==
    <<Ins("PUSH_SCOPE")>> \o expr[s.arg] \o <<Does("GET_ITER", s.at, 0)>>
    \o ForLoop(s, ctx, expr, stmt) \o <<Ins("POP_SCOPE")>>

LoopStmt(s, ctx, stmt) ==
    LET round == Stmts(s.body, InLoop(InScope(ctx)), stmt) \o <<Branch("JUMP", "continue")>>
    IN  <<Ins("PUSH_SCOPE")>>
        \o Resolve(round, [continue |-> 1, break |-> Len(round) + 1])
        \o <<Ins("POP_SCOPE")>>

Stmt(s, ctx, expr, stmt) ==
    CASE s.kind = "expr" -> expr[s.arg] \o <<Ins(IF ctx.decides THEN "POP_CHECKED" ELSE "POP")>>
      [] s.kind = "store" -> Exprs(s.args, expr) \o <<Does("STORE", s.at, Len(s.args))>>
      [] s.kind = "if"    -> IfStmt(s, ctx, expr, stmt)
      [] s.kind = "for"   -> ForStmt(s, ctx, expr, stmt)
      [] s.kind = "loop"  -> LoopStmt(s, ctx, stmt)
      [] s.kind \in {"break", "continue"} -> Unwind(ctx) \o <<Branch("JUMP", s.kind)>>
      [] s.kind = "return" -> expr[s.arg] \o <<Ins("RETURN")>>

(* compile_program: the statements and an implicit return of void.         *)
ReturnVoid == LoadConst(Nothing) \o <<Ins("RETURN")>>
Script(ss, stmt) == Stmts(ss, Context(FALSE), stmt) \o ReturnVoid

(* _compile_function_body: a last statement that is an expression gives    *)
(* the result; after a last statement other than a return, void is         *)
(* returned.                                                               *)
FunctionBody(f, expr, stmt) ==
    LET end == IF f.body = <<>> THEN "none" ELSE Last(f.body).kind
        valued == end = "expr"
    IN  Stmts(IF valued THEN Front(f.body) ELSE f.body, Context(f.decides), stmt)
        \o CASE valued -> expr[Last(f.body).arg] \o <<Ins("RETURN")>>
             [] end = "return" -> <<>>
             [] OTHER -> ReturnVoid

(* The chunks of a program: its statements, then its functions.            *)
Bytecode(p, expr, stmt) ==
    <<Linked(Script(p.body, stmt))>>
    \o [k \in DOMAIN p.functions |-> Linked(FunctionBody(p.functions[k], expr, stmt))]

----------------------------------------------------------------------------
(* The nodes that a node is made of.                                       *)
Elements(seq) == {seq[i] : i \in DOMAIN seq}
Tested(cs) == {cs[i].arg : i \in DOMAIN cs}
Parts(e) ==
    CASE e.kind \in {"op", "call"} -> Elements(e.args)
      [] e.kind = "const" -> {}
      [] e.kind = "unwrap" -> {e.arg}
      [] e.kind \in {"and", "or"} -> {e.left, e.right}
      [] e.kind = "ifexpr" -> Tested(e.clauses) \cup {e.then, e.else}
Evaluated(s) ==
    CASE s.kind \in {"expr", "return"} -> {s.arg}
      [] s.kind = "store" -> Elements(s.args)
      [] s.kind = "if" -> Tested(s.clauses)
      [] s.kind = "for" -> {s.arg} \cup Elements(s.filters)
      [] s.kind \in {"loop", "break", "continue"} -> {}
Inner(s) ==
    CASE s.kind = "if" -> Elements(s.then) \cup Elements(s.else)
      [] s.kind \in {"for", "loop"} -> Elements(s.body)
      [] s.kind \in {"expr", "return", "store", "break", "continue"} -> {}

(* Syntax trees.  E has the expressions, and S the statements for each     *)
(* place: outside of loops, in a for and in a loop.  A break is for a loop *)
(* only, since the one of a for leaves the iterator on the stack.  A       *)
(* constant and a computation give a value of `data`, and `depth` is less  *)
(* for the nodes that a node is made of.                                   *)
Places == {"none", "for", "loop"}
ClausesOf(E) == [arg : E, named : BOOLEAN]

IsExpr(e, E, data) ==
    /\ e.at \in Seq(Nat)
    /\ \/ e.kind = "op" /\ e.args \in Seq(E) /\ e.out \subseteq data
       \/ e.kind = "const" /\ e.v \in data
       \/ e.kind = "unwrap" /\ e.arg \in E
       \/ e.kind \in {"and", "or"} /\ e.left \in E /\ e.right \in E
       \/ e.kind = "call" /\ e.fn \in Nat /\ e.args \in Seq(E)
       \/ e.kind = "ifexpr" /\ e.clauses \in Seq(ClausesOf(E)) /\ e.then \in E /\ e.else \in E
IsStmt(s, place, E, S) ==
    /\ s.at \in Seq(Nat)
    /\ \/ s.kind \in {"expr", "return"} /\ s.arg \in E
       \/ s.kind = "store" /\ s.args \in Seq(E)
       \/ s.kind = "if" /\ s.clauses \in Seq(ClausesOf(E))
                        /\ s.then \in Seq(S[place]) /\ s.else \in Seq(S[place])
       \/ s.kind = "for" /\ s.arg \in E /\ s.filters \in Seq(E) /\ s.body \in Seq(S["for"])
       \/ s.kind = "loop" /\ s.body \in Seq(S["loop"])
       \/ s.kind = "break" /\ place = "loop"
       \/ s.kind = "continue" /\ place \in {"for", "loop"}

Trees(E, S, data, depth) ==
    /\ \A e \in E :
        IsExpr(e, E, data) /\ depth[e] \in Nat /\ \A x \in Parts(e) : depth[x] < depth[e]
    /\ \A place \in Places : \A s \in S[place] :
        IsStmt(s, place, E, S) /\ depth[s] \in Nat /\ \A y \in Inner(s) : depth[y] < depth[s]
IsProgram(p, S) ==
    /\ p.body \in Seq(S["none"])
    /\ p.functions \in Seq([decides : BOOLEAN, body : Seq(S["none"])])

(* The code of the trees is the compiler's: Expr and Stmt give that of a   *)
(* node from the code of its parts.                                        *)
Contexts == [scopes : Nat, outside : Nat, decides : BOOLEAN]
CompiledBy(E, S, contexts, expr, stmt) ==
    /\ \A e \in E : expr[e] = Expr(e, expr)
    /\ \A place \in Places : \A s \in S[place] : \A ctx \in contexts :
        stmt[<<s, ctx>>] = Stmt(s, ctx, expr, stmt)
=============================================================================

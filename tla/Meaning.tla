------------------------------ MODULE Meaning ------------------------------
(***************************************************************************)
(* What a program of Compiler.tla means, without bytecode, stack, scopes   *)
(* or handlers: its statements and expressions evaluated one inside the    *)
(* other, as docs/language-reference.md describes them.  The computations  *)
(* are taken from a log: an outcome is                                     *)
(*   value        of an expression (v), normal of a statement              *)
(*   break, continue, return (v), fail, error                              *)
(*   more         the log ends before the program does                     *)
(*   wrong        the log has another computation, or other operands,      *)
(* with the number of log entries used.                                    *)
(***************************************************************************)
EXTENDS Integers, Sequences, SequencesExt

Outcome(out, v, used) == [out |-> out, v |-> v, used |-> used]
NoValue == [kind |-> "datum", n |-> 0]
Normal(used) == Outcome("normal", NoValue, used)

Fails(v) == v.kind \in {"false", "absent"}
Content(v) ==
    CASE v.kind # "present" -> v
      [] v.kind = "present" /\ v.n = 0 -> [kind |-> "false", n |-> 0]
      [] v.kind = "present" /\ v.n > 0 -> [kind |-> "datum", n |-> v.n]
Checked(r) == IF r.out = "value" /\ Fails(r.v) THEN [r EXCEPT !.out = "fail"] ELSE r

(* The next entry of the log, if it is the one of this computation.        *)
Computed(at, args, w, used) ==
    IF used = Len(w.log) THEN Outcome("more", NoValue, used)
    ELSE LET entry == w.log[used + 1]
         IN  Outcome(CASE entry.at # at \/ entry.args # args -> "wrong"
                       [] entry.at = at /\ entry.args = args /\ entry.v.kind = "error" -> "error"
                       [] entry.at = at /\ entry.args = args /\ entry.v.kind = "failure" -> "fail"
                       [] OTHER -> "value", entry.v, used + 1)
Stored(at, v, w, used) ==
    LET r == Computed(at, v, w, used) IN IF r.out = "value" THEN Normal(r.used) ELSE r
Refused(at, args, w, used) ==
    used < Len(w.log) /\ w.log[used + 1].v.kind \in {"error", "failure"}
    /\ Computed(at, args, w, used).out # "wrong"

Then(r, Next(_)) == IF r.out \in {"value", "normal"} THEN Next(r) ELSE r

RECURSIVE Eval(_, _, _)

(* Operands, from left to right: `v` is their sequence.                    *)
Operands(es, w, used) ==
    FoldLeft(LAMBDA r, e :
                 Then(r, LAMBDA q :
                      LET next == Eval(e, w, q.used)
                      IN  IF next.out = "value" THEN [next EXCEPT !.v = Append(q.v, @)] ELSE next),
             Outcome("value", <<>>, used), es)

InTurn(ss, w, used) ==
    FoldLeft(LAMBDA r, s : Then(r, LAMBDA q : Eval(s, w, q.used)), Normal(used), ss)

(* All clauses succeed, each bound (or not) before the next is evaluated.  *)
Passes(cs, w, used) ==
    FoldLeft(LAMBDA r, c :
                 Then(Then(r, LAMBDA q : Checked(Eval(c.arg, w, q.used))), LAMBDA q :
                      IF c.named THEN Stored(Append(c.arg.at, 0), <<Content(q.v)>>, w, q.used)
                                 ELSE Normal(q.used)),
             Normal(used), cs)

(* One branch if the clauses pass, the other if one fails.                 *)
Chosen(n, Branch(_, _), w, used) ==
    LET c == Passes(n.clauses, w, used)
    IN  IF c.out = "fail" THEN Branch(n.else, c.used)
        ELSE Then(c, LAMBDA q : Branch(n.then, q.used))

(* A function: its last statement, if an expression, is its value.         *)
Body(f, w, used) ==
    LET valued == f.body # <<>> /\ Last(f.body).kind = "expr"
        r == InTurn(IF valued THEN Front(f.body) ELSE f.body, [w EXCEPT !.decides = f.decides], used)
    IN  IF r.out = "return" THEN [r EXCEPT !.out = "value"]
        ELSE Then(r, LAMBDA q : IF valued THEN Eval(Last(f.body).arg, w, q.used)
                                          ELSE Outcome("value", NoValue, q.used))

Called(n, w, used) ==
    Then(Operands(n.args, w, used), LAMBDA r :
         LET all == <<[kind |-> "function", n |-> n.fn]>> \o r.v
         IN  IF Refused(n.at, all, w, r.used) THEN Computed(n.at, all, w, r.used)
             ELSE Body(w.functions[n.fn - 1], w, r.used))

(* One round of a loop after the other.  Each uses the log, so there are   *)
(* no more rounds than entries; `break` ends this loop and no other.       *)
Rounds(m, Round(_, _), used) ==
    FoldLeft(LAMBDA r, i : IF r.out \in {"normal", "continue"} THEN Round(i, r.used) ELSE r,
             Normal(used), [i \in 1 .. m |-> i])
Left(r) == IF r.out \in {"break", "continue"} THEN Normal(r.used) ELSE r

(* An element for which a filter fails is passed over.                     *)
Element(n, left, w, used) ==
    LET bound == Stored(n.at, <<[kind |-> "element", n |-> left]>>, w, used)
        filters == [i \in DOMAIN n.filters |-> [arg |-> n.filters[i], named |-> FALSE]]
        passed == Then(bound, LAMBDA q : Passes(filters, w, q.used))
    IN  IF passed.out = "fail" THEN Normal(passed.used)
        ELSE Then(passed, LAMBDA q : InTurn(n.body, w, q.used))

Eval(n, w, used) ==
    CASE n.kind = "op" -> Then(Operands(n.args, w, used), LAMBDA r : Computed(n.at, r.v, w, r.used))
      [] n.kind = "const" -> Outcome("value", n.v, used)
      [] n.kind = "unwrap" ->
             Then(Checked(Eval(n.arg, w, used)), LAMBDA r : Outcome("value", Content(r.v), r.used))
      [] n.kind \in {"and", "or"} ->
             Then(Eval(n.left, w, used), LAMBDA r :
                  IF r.v.kind = (IF n.kind = "and" THEN "false" ELSE "true")
                  THEN r ELSE Eval(n.right, w, r.used))
      [] n.kind = "ifexpr" -> Chosen(n, LAMBDA e, u : Eval(e, w, u), w, used)
      [] n.kind = "call" -> Called(n, w, used)
      [] n.kind = "expr" ->
             Then(Eval(n.arg, w, used), LAMBDA r :
                  Then(IF w.decides THEN Checked(r) ELSE r, LAMBDA q : Normal(q.used)))
      [] n.kind = "store" ->
             Then(Operands(n.args, w, used), LAMBDA r : Stored(n.at, r.v, w, r.used))
      [] n.kind = "if" -> Chosen(n, LAMBDA ss, u : InTurn(ss, w, u), w, used)
      [] n.kind = "for" ->
             Then(Eval(n.arg, w, used), LAMBDA r :
                  IF r.v.kind # "array" THEN Computed(n.at, <<r.v>>, w, r.used)
                  ELSE Left(Rounds(r.v.n, LAMBDA i, u : Element(n, r.v.n + 1 - i, w, u), r.used)))
      [] n.kind = "loop" ->
             Left(Rounds(Len(w.log) + 1, LAMBDA i, u : InTurn(n.body, w, u), used))
      [] n.kind \in {"break", "continue"} -> Outcome(n.kind, NoValue, used)
      [] n.kind = "return" ->
             Then(Eval(n.arg, w, used), LAMBDA r : Outcome("return", r.v, r.used))

(* What the program does, given the log of its computations.               *)
Run(p, log) ==
    InTurn(p.body, [functions |-> p.functions, log |-> log, decides |-> FALSE], 0)
=============================================================================

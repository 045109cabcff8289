------------------------------- MODULE Parser -------------------------------
(***************************************************************************)
(* The parser (src/src/versetools/parser.py): tokens become the tree of a  *)
(* program (src/src/versetools/ast_nodes.py).                              *)
(*                                                                         *)
(* A node has the operator it is, a name or literal, and the nodes it is   *)
(* made of; `None` stands for an optional part that is absent.  Every      *)
(* definition reads from position i of the tokens ts and gives the tree    *)
(* and the position after it, or Bad where the code raises a syntax error. *)
(***************************************************************************)
EXTENDS Layout

Keywords == {"var", "set", "if", "then", "else", "for", "do", "loop", "break", "continue",
             "return", "class", "and", "or", "not", "in", "spawn", "sync", "race"}
Marks == Opening \cup Closing \cup
         {",", ":", ".", "..", "?", "=>", "+", "-", "*", "/", "%", "=", ":=", "<>", "<", "<=", ">", ">="}
Literals == {"0", "1", "2", "1.5", "'t'", "true", "false"}
IsName(t) == t \notin Keywords \cup Marks \cup Literals \cup LayoutTokens \cup {"self", "EOF"}

Node(op, name, kids) == [op |-> op, name |-> name, kids |-> kids]
Leaf(op, name) == Node(op, name, <<>>)
None == Leaf("none", "")
Block(statements) == Node("block", "", statements)
BlockOf(e) == Block(<<Node("expr", "", <<e>>)>>)

Got(tree, at) == [tree |-> tree, at |-> at]
Bad == Got(None, 0)
Then(r, K(_)) == IF r.at = 0 THEN Bad ELSE K(r)
Expect(ts, i, t, K(_)) == IF ts[i] = t THEN K(i + 1) ELSE Bad
Becomes(r, Tree(_)) == Then(r, LAMBDA x : Got(Tree(x.tree), x.at))

(* _expect_stmt_end: a statement that ends in a block needs no newline.    *)
EndOfStmt(ts, r) ==
    Then(r, LAMBDA x : CASE ts[x.at] = "NEWLINE" -> Got(x.tree, x.at + 1)
                         [] ts[x.at - 1] = "DEDENT" -> x
                         [] OTHER -> Bad)

(* _parse_type: the annotation is the sequence of its tokens.              *)
RECURSIVE TypeAnn(_, _)
TypeAnn(ts, i) ==
    CASE ts[i] = "?" -> Becomes(TypeAnn(ts, i + 1), LAMBDA t : <<"?">> \o t)
      [] ts[i] = "[" /\ ts[i + 1] = "]" -> Becomes(TypeAnn(ts, i + 2), LAMBDA t : <<"[", "]">> \o t)
      [] ts[i] = "[" /\ ts[i + 1] # "]" ->
            Then(TypeAnn(ts, i + 1), LAMBDA key :
               Expect(ts, key.at, "]", LAMBDA j :
                  Becomes(TypeAnn(ts, j), LAMBDA v : <<"[">> \o key.tree \o <<"]">> \o v)))
      [] OTHER -> IF IsName(ts[i]) THEN Got(<<ts[i]>>, i + 1) ELSE Bad

(* Mutant of Annotation: the closing bracket is not kept.                  *)
AnnotationUnclosed(ts, i) ==
    Becomes(TypeAnn(ts, i), LAMBDA t :
       LET kept == SelectSeq(t, LAMBDA x : x # "]")
       IN  Node("ann", "", [k \in DOMAIN kept |-> Leaf("part", kept[k])]))

Annotation(ts, i) ==
    Becomes(TypeAnn(ts, i), LAMBDA t : Node("ann", "", [k \in DOMAIN t |-> Leaf("part", t[k])]))
MaybeType(ts, i) == IF ts[i] = ":" THEN Annotation(ts, i + 1) ELSE Got(None, i)

----------------------------------------------------------------------------
(* Expressions: a level for each precedence, from `or` to unary minus.     *)
Levels == << [ops |-> {"or"}, form |-> "left"], [ops |-> {"and"}, form |-> "left"],
             [ops |-> {"not"}, form |-> "prefix"],
             [ops |-> {"=", "<>", "<", "<=", ">", ">="}, form |-> "once"], [ops |-> {".."}, form |-> "once"],
             [ops |-> {"+", "-"}, form |-> "left"], [ops |-> {"*", "/", "%"}, form |-> "left"],
             [ops |-> {"-"}, form |-> "prefix"] >>
Tightest == Len(Levels) + 1

RECURSIVE Read(_, _, _), Climb(_, _, _), More(_, _, _), Postfixes(_, _), List(_, _, _, _),
          Statements(_, _, _), Specifiers(_, _), Members(_, _)

Expr(ts, i) == Read("expression", ts, i)
Postfix(ts, i) == Then(Read("primary", ts, i), LAMBDA e : Postfixes(ts, e))
MaybeValue(ts, i) == IF ts[i] = "=" THEN Expr(ts, i + 1) ELSE Got(None, i)

Climb(level, ts, i) ==
    IF level = Tightest THEN Postfix(ts, i)
    ELSE IF Levels[level].form # "prefix"
    THEN Then(Climb(level + 1, ts, i), LAMBDA left : More(level, ts, left))
    ELSE IF ts[i] \in Levels[level].ops
    THEN Becomes(Climb(level, ts, i + 1), LAMBDA e : Node(ts[i], "", <<e>>))
    ELSE Climb(level + 1, ts, i)

(* Mutant of More: operators of one level associate to the right.          *)
MoreToTheRight(level, ts, left) ==
    IF ts[left.at] \notin Levels[level].ops THEN left
    ELSE Becomes(Climb(level, ts, left.at + 1), LAMBDA e : Node(ts[left.at], "", <<left.tree, e>>))

More(level, ts, left) ==
    IF ts[left.at] \notin Levels[level].ops THEN left
    ELSE Then(Climb(level + 1, ts, left.at + 1), LAMBDA right :
            LET e == Got(Node(ts[left.at], "", <<left.tree, right.tree>>), right.at)
            IN  IF Levels[level].form = "left" THEN More(level, ts, e) ELSE e)

(* Lists of expressions, of the pairs of a map, and so on.  Only a list in *)
(* braces may be empty or end with a comma.                                *)
IfClause(ts, i) ==
    IF IsName(ts[i]) /\ ts[i + 1] = ":="
    THEN Becomes(Expr(ts, i + 2), LAMBDA e : Node("clause", ts[i], <<e>>))
    ELSE Becomes(Expr(ts, i), LAMBDA e : Node("clause", "", <<e>>))
Param(ts, i) ==
    IF ~IsName(ts[i]) THEN Bad
    ELSE Then(MaybeType(ts, i + 1), LAMBDA t :
            Becomes(MaybeValue(ts, t.at), LAMBDA v : Node("param", ts[i], <<t.tree, v>>)))
Pair(ts, i) ==
    Then(Expr(ts, i), LAMBDA key :
       Expect(ts, key.at, "=>", LAMBDA j :
          Becomes(Expr(ts, j), LAMBDA v : Node("pair", "", <<key.tree, v>>))))
Field(ts, i) ==
    IF IsName(ts[i]) /\ ts[i + 1] = ":="
    THEN Becomes(Expr(ts, i + 2), LAMBDA e : Node("field", ts[i], <<e>>)) ELSE Bad
Name(ts, i) == IF IsName(ts[i]) THEN Got(Leaf("name", ts[i]), i + 1) ELSE Bad
Item(kind, ts, i) ==
    CASE kind = "expr" -> Expr(ts, i)
      [] kind = "clause" -> IfClause(ts, i)
      [] kind = "param" -> Param(ts, i)
      [] kind = "pair" -> Pair(ts, i)
      [] kind = "field" -> Field(ts, i)
      [] kind = "name" -> Name(ts, i)
List(kind, ts, i, end) ==
    IF ts[i] = end THEN Got(<<>>, i)
    ELSE Then(Item(kind, ts, i), LAMBDA x :
            IF ts[x.at] = ","
            THEN Becomes(List(kind, ts, x.at + 1, end), LAMBDA xs : <<x.tree>> \o xs)
            ELSE Got(<<x.tree>>, x.at))
Listed(kind, ts, i) == List(kind, ts, i, "")
InParens(kind, ts, i) == IF ts[i] = ")" THEN Got(<<>>, i) ELSE Listed(kind, ts, i)

Postfixes(ts, e) ==
    CASE ts[e.at] = "(" ->
            Then(InParens("expr", ts, e.at + 1), LAMBDA args :
               Expect(ts, args.at, ")", LAMBDA j :
                  Postfixes(ts, Got(Node("call", "", <<e.tree>> \o args.tree), j))))
      [] ts[e.at] = "[" ->
            Then(Expr(ts, e.at + 1), LAMBDA key :
               Expect(ts, key.at, "]", LAMBDA j :
                  Postfixes(ts, Got(Node("index", "", <<e.tree, key.tree>>), j))))
      [] ts[e.at] = "." ->
            Then(Name(ts, e.at + 1), LAMBDA n :
               Postfixes(ts, Got(Node("member", n.tree.name, <<e.tree>>), n.at)))
      [] ts[e.at] = "?" -> Postfixes(ts, Got(Node("unwrap", "", <<e.tree>>), e.at + 1))
      [] OTHER -> e

BraceLiteral(ts, i) ==
    LET op   == IF ts[i] \in {"array", "map"} THEN ts[i] ELSE "struct"
        kind == CASE op = "array" -> "expr" [] op = "map" -> "pair" [] op = "struct" -> "field"
    IN  Then(List(kind, ts, i + 2, "}"), LAMBDA xs :
           Expect(ts, xs.at, "}", LAMBDA j : Got(Node(op, ts[i], xs.tree), j)))

(* if (...) then e else e, which as an expression and as a statement       *)
(* gives nodes of the same shape.                                          *)
Clauses(ts, i) ==
    Expect(ts, i, "(", LAMBDA j :
       Then(Listed("clause", ts, j), LAMBDA cs :
          Expect(ts, cs.at, ")", LAMBDA k : Got(Node("clauses", "", cs.tree), k))))
ElseExpr(ts, i) == IF ts[i] = "else" THEN Becomes(Expr(ts, i + 1), BlockOf) ELSE Got(None, i)
ThenElse(op, ts, clauses) ==
    Expect(ts, clauses.at, "then", LAMBDA i :
       Then(Expr(ts, i), LAMBDA e :
          Becomes(ElseExpr(ts, e.at), LAMBDA other : Node(op, "", <<clauses.tree, BlockOf(e.tree), other>>))))

ParseBlock(ts, i) ==
    IF ts[i] = "NEWLINE"
    THEN Expect(ts, i + 1, "INDENT", LAMBDA j : Becomes(Statements(ts, j, "DEDENT"), Block))
    ELSE Becomes(Read("statement", ts, i), LAMBDA s : Block(<<s>>))

(* The branches of sync and race are the expressions among the statements  *)
(* of its block; the others are left out.                                  *)
Concurrent(op, block) ==
    IF op = "spawn" THEN Node(op, "", <<block>>)
    ELSE LET branches == SelectSeq(block.kids, LAMBDA s : s.op = "expr")
         IN  Node(op, "", [k \in DOMAIN branches |-> branches[k].kids[1]])

Primary(ts, i) ==
    CASE ts[i] \in Literals -> Got(Leaf("literal", ts[i]), i + 1)
      [] ts[i] = "self" -> Got(Leaf("self", "self"), i + 1)
      [] ts[i] = "(" -> Then(Expr(ts, i + 1), LAMBDA e : Expect(ts, e.at, ")", LAMBDA j : Got(e.tree, j)))
      [] ts[i] = "if" -> Then(Clauses(ts, i + 1), LAMBDA cs : ThenElse("ifexpr", ts, cs))
      [] ts[i] \in {"spawn", "sync", "race"} ->
            Expect(ts, i + 1, ":", LAMBDA j : Becomes(ParseBlock(ts, j), LAMBDA b : Concurrent(ts[i], b)))
      [] IsName(ts[i]) -> IF ts[i + 1] = "{" THEN BraceLiteral(ts, i) ELSE Name(ts, i)
      [] OTHER -> Bad

----------------------------------------------------------------------------
(* Statements.                                                             *)
ExprStmt(ts, i) == EndOfStmt(ts, Becomes(Expr(ts, i), LAMBDA e : Node("expr", "", <<e>>)))

VarDecl(ts, i) ==
    Then(Name(ts, i + 1), LAMBDA n :
       Then(MaybeType(ts, n.at), LAMBDA t :
          EndOfStmt(ts, Becomes(MaybeValue(ts, t.at), LAMBDA v : Node("var", n.tree.name, <<t.tree, v>>)))))
Assignment(ts, i) ==
    Then(Postfix(ts, i + 1), LAMBDA target :
       Expect(ts, target.at, "=", LAMBDA j :
          EndOfStmt(ts, Becomes(Expr(ts, j), LAMBDA v : Node("set", "", <<target.tree, v>>)))))

ElseBlock(ts, i) ==
    CASE ts[i] # "else" -> Got(None, i)
      [] ts[i] = "else" /\ ts[i + 1] = "if" -> Becomes(Read("if", ts, i + 1), LAMBDA s : Block(<<s>>))
      [] OTHER -> Expect(ts, i + 1, ":", LAMBDA j : ParseBlock(ts, j))
IfStmt(ts, i) ==
    Then(Clauses(ts, i + 1), LAMBDA cs :
       IF ts[cs.at] # ":" THEN EndOfStmt(ts, ThenElse("if", ts, cs))
       ELSE Then(ParseBlock(ts, cs.at + 1), LAMBDA b :
               Becomes(ElseBlock(ts, b.at), LAMBDA other : Node("if", "", <<cs.tree, b.tree, other>>))))

(* Mutant of ForHeader: the filters after the collection are not kept.     *)
ForHeaderOnly(ts, i) ==
    Expect(ts, i, "(", LAMBDA j :
       Then(Name(ts, j), LAMBDA n :
          Expect(ts, n.at, ":", LAMBDA k :
             Then(Listed("expr", ts, k), LAMBDA es :
                Expect(ts, es.at, ")", LAMBDA m : Got(Node("for", n.tree.name, <<es.tree[1]>>), m))))))

ForHeader(ts, i) ==
    Expect(ts, i, "(", LAMBDA j :
       Then(Name(ts, j), LAMBDA n :
          Expect(ts, n.at, ":", LAMBDA k :
             Then(Listed("expr", ts, k), LAMBDA es :
                Expect(ts, es.at, ")", LAMBDA m : Got(Node("for", n.tree.name, es.tree), m))))))
ForStmt(ts, i) ==
    Then(ForHeader(ts, i + 1), LAMBDA h :
       LET with(body) == [h.tree EXCEPT !.kids = Append(@, body)]
       IN  CASE ts[h.at] = ":" -> Becomes(ParseBlock(ts, h.at + 1), with)
             [] ts[h.at] = "do" -> EndOfStmt(ts, Becomes(Expr(ts, h.at + 1), LAMBDA e : with(BlockOf(e))))
             [] OTHER -> Bad)

(* Name(params) <effects> : type =, of a function or a method.             *)
Specifiers(ts, i) ==
    IF ts[i] # "<" THEN Got(<<>>, i)
    ELSE Then(Listed("name", ts, i + 1), LAMBDA ns :
            Expect(ts, ns.at, ">", LAMBDA j : Becomes(Specifiers(ts, j), LAMBDA more : ns.tree \o more)))
Signature(name, modifiers, ts, i) ==
    Expect(ts, i, "(", LAMBDA j :
       Then(InParens("param", ts, j), LAMBDA ps :
          Expect(ts, ps.at, ")", LAMBDA k :
             Then(Specifiers(ts, k), LAMBDA effects :
                Then(MaybeType(ts, effects.at), LAMBDA t :
                   Expect(ts, t.at, "=", LAMBDA m :
                      Got(Node("func", name, <<modifiers, Node("params", "", ps.tree),
                                               Node("effects", "", effects.tree), t.tree>>), m)))))))
WithBody(f, body) == [f EXCEPT !.kids = Append(@, body)]

(* _parse_access_and_abstract.                                             *)
Accesses == {"public", "private", "protected"}
Modifiers(specs) ==
    LET access   == SelectSeq(specs, LAMBDA s : s.name \in Accesses)
        abstract == SelectSeq(specs, LAMBDA s : s.name = "abstract")
    IN  IF Len(access) > 1 \/ Len(access) + Len(abstract) < Len(specs) THEN None
        ELSE Node("modifiers", IF access = <<>> THEN "public" ELSE access[1].name,
                  IF abstract = <<>> THEN <<>> ELSE <<Leaf("abstract", "")>>)
IsAbstract(modifiers) == modifiers.kids # <<>>

Method(name, modifiers, ts, i) ==
    Then(Signature(name, modifiers, ts, i), LAMBDA f :
       IF ~IsAbstract(modifiers) THEN Becomes(ParseBlock(ts, f.at), LAMBDA b : WithBody(f.tree, b))
       ELSE IF ts[f.at] = "NEWLINE" THEN Got(WithBody(f.tree, Block(<<>>)), f.at)
       ELSE Bad)
FieldDecl(name, modifiers, ts, i) ==
    IF IsAbstract(modifiers) THEN Bad
    ELSE Then(MaybeType(ts, i), LAMBDA t :
            EndOfStmt(ts, Becomes(MaybeValue(ts, t.at), LAMBDA v :
                             Node("fielddecl", name, <<modifiers, t.tree, v>>))))
Member(ts, i) ==
    Then(Name(ts, i), LAMBDA n :
       Then(Becomes(Specifiers(ts, n.at), Modifiers), LAMBDA m :
          CASE m.tree = None -> Bad
            [] m.tree # None /\ ts[m.at] = "(" -> Method(n.tree.name, m.tree, ts, m.at)
            [] OTHER -> FieldDecl(n.tree.name, m.tree, ts, m.at)))
SkipNewlines(ts, i) == IF ts[i] = "NEWLINE" THEN i + 1 ELSE i      \* there are no two in a row
Members(ts, i) ==
    LET j == SkipNewlines(ts, i)
    IN  IF ts[j] = "DEDENT" THEN Got(<<>>, j + 1)
        ELSE Then(Member(ts, j), LAMBDA m :
                Becomes(Members(ts, m.at), LAMBDA more : <<m.tree>> \o more))

BaseClass(ts, i) ==
    IF ts[i] # "(" THEN Got(None, i)
    ELSE Then(Name(ts, i + 1), LAMBDA n : Expect(ts, n.at, ")", LAMBDA j : Got(n.tree, j)))
Interfaces(ts, i) ==
    IF ts[i] = "NEWLINE" THEN Got(<<>>, i)
    ELSE Then(Listed("name", ts, i), LAMBDA ns : Expect(ts, ns.at, ":", LAMBDA j : Got(ns.tree, j)))
ClassDecl(name, ts, i) ==
    Then(Becomes(Specifiers(ts, i), Modifiers), LAMBDA mods :
       IF mods.tree.name # "public" THEN Bad ELSE
       Then(BaseClass(ts, mods.at), LAMBDA base :
          Expect(ts, base.at, ":", LAMBDA j :
             Then(EndOfStmt(ts, Interfaces(ts, j)), LAMBDA ifaces :
                Expect(ts, ifaces.at, "INDENT", LAMBDA k :
                   Becomes(Members(ts, k), LAMBDA ms :
                      Node("class", name,
                           <<mods.tree, base.tree, Node("interfaces", "", ifaces.tree),
                             Node("fields", "", SelectSeq(ms, LAMBDA m : m.op = "fielddecl")),
                             Node("methods", "", SelectSeq(ms, LAMBDA m : m.op = "func"))>>)))))))

(* _parse_ident_led_statement.  What does not begin like a function        *)
(* declaration is read again as an expression.                             *)
Const(name, ann, r) == Becomes(r, LAMBDA v : Node("const", name, <<ann, v>>))
Declaration(ts, i) ==
    CASE ts[i + 1] = ":=" /\ ts[i + 2] = "class" -> ClassDecl(ts[i], ts, i + 3)
      [] ts[i + 1] = ":=" /\ ts[i + 2] # "class" -> EndOfStmt(ts, Const(ts[i], None, Expr(ts, i + 2)))
      [] ts[i + 1] = ":" ->
            Then(Annotation(ts, i + 2), LAMBDA t :
               Expect(ts, t.at, "=", LAMBDA j : EndOfStmt(ts, Const(ts[i], t.tree, Expr(ts, j)))))
      [] ts[i + 1] = "(" ->
            LET f == Signature(ts[i], Modifiers(<<>>), ts, i + 1)
            IN  IF f.at = 0 THEN ExprStmt(ts, i)
                ELSE Becomes(ParseBlock(ts, f.at), LAMBDA b : WithBody(f.tree, b))
      [] OTHER -> ExprStmt(ts, i)

Statement(ts, i) ==
    CASE ts[i] = "var" -> VarDecl(ts, i)
      [] ts[i] = "set" -> Assignment(ts, i)
      [] ts[i] = "if" -> IfStmt(ts, i)
      [] ts[i] = "for" -> ForStmt(ts, i)
      [] ts[i] = "loop" ->
            Expect(ts, i + 1, ":", LAMBDA j : Becomes(ParseBlock(ts, j), LAMBDA b : Node("loop", "", <<b>>)))
      [] ts[i] \in {"break", "continue"} -> EndOfStmt(ts, Got(Leaf(ts[i], ""), i + 1))
      [] ts[i] = "return" ->
            EndOfStmt(ts, Becomes(IF ts[i + 1] = "NEWLINE" THEN Got(None, i + 1) ELSE Expr(ts, i + 1),
                                  LAMBDA e : Node("return", "", <<e>>)))
      [] IsName(ts[i]) -> Declaration(ts, i)
      [] OTHER -> ExprStmt(ts, i)

(* What is made of parts of its own kind is read through Read.             *)
Read(what, ts, i) ==
    CASE what = "expression" -> Climb(1, ts, i)
      [] what = "primary" -> Primary(ts, i)
      [] what = "statement" -> Statement(ts, i)
      [] what = "if" -> IfStmt(ts, i)

Statements(ts, i, end) ==
    LET j == SkipNewlines(ts, i)
    IN  IF ts[j] = end THEN Got(<<>>, j + 1)
        ELSE Then(Read("statement", ts, j), LAMBDA s :
                Becomes(Statements(ts, s.at, end), LAMBDA more : <<s.tree>> \o more))

(* The program of a text, None if there is a syntax error in it.           *)
ParseProgram(tokens) ==
    IF tokens = Rejected THEN None ELSE Becomes(Statements(tokens, 1, "EOF"), Block).tree
Parse(text) == ParseProgram(Tokenize(text))
=============================================================================

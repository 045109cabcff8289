------------------------------ MODULE Printer ------------------------------
(***************************************************************************)
(* The tokens of a tree, written from the grammar summary and the table of *)
(* precedences of the language reference: what the parser is compared      *)
(* with.  Brackets stand only where the precedences ask for them, blocks   *)
(* are indented, and members of a class come after its fields.             *)
(***************************************************************************)
EXTENDS Parser

Precedence(n) ==
    LET binary == [op \in {"or", "and", "=", "<>", "<", "<=", ">", ">=", "..", "+", "-", "*", "/", "%"} |->
                      CASE op = "or" -> 1 [] op = "and" -> 2 [] op = ".." -> 5
                        [] op \in {"+", "-"} -> 6 [] op \in {"*", "/", "%"} -> 7 [] OTHER -> 4]
    IN  CASE n.op = "not" -> 3
          [] n.op = "-" /\ Len(n.kids) = 1 -> 8
          [] n.op \in DOMAIN binary /\ Len(n.kids) = 2 -> binary[n.op]
          [] n.op = "ifexpr" -> 0
          [] OTHER -> 9
LeftAssociative == {1, 2, 6, 7}

Joined(parts) ==
    FlattenSeq([i \in DOMAIN parts |-> IF i = 1 THEN parts[i] ELSE <<",">> \o parts[i]])
Line(tokens) == IF Last(tokens) = "DEDENT" THEN tokens ELSE Append(tokens, "NEWLINE")
Names(ns) == Joined([i \in DOMAIN ns |-> <<ns[i].name>>])
InAngles(ns) == IF ns = <<>> THEN <<>> ELSE <<"<">> \o Names(ns) \o <<">">>

RECURSIVE Show(_, _), ShowStmt(_)
ShowAll(es) == Joined([i \in DOMAIN es |-> Show(es[i], 0)])
ShowBlock(b) ==
    <<"NEWLINE", "INDENT">> \o FlattenSeq([i \in DOMAIN b.kids |-> ShowStmt(b.kids[i])]) \o <<"DEDENT">>
Optional(mark, n) ==
    CASE n = None -> <<>>
      [] n.op = "ann" -> <<mark>> \o [i \in DOMAIN n.kids |-> n.kids[i].name]
      [] n.op \notin {"none", "ann"} -> <<mark>> \o Show(n, 0)

(* The only expression of a branch; one that is an if itself needs         *)
(* brackets, or its else would be taken for the outer one's.               *)
Only(block) == Show(block.kids[1].kids[1], 1)

Bare(n) ==
    LET p == Precedence(n)
        operand(i, level) == Show(n.kids[i], level)
        pair(m) == CASE m.op = "pair" -> Show(m.kids[1], 0) \o <<"=>">> \o Show(m.kids[2], 0)
                     [] m.op = "field" -> <<m.name, ":=">> \o Show(m.kids[1], 0)
                     [] m.op = "clause" -> (IF m.name = "" THEN <<>> ELSE <<m.name, ":=">>) \o Show(m.kids[1], 0)
                     [] OTHER -> Show(m, 0)
        pairs == Joined([i \in DOMAIN n.kids |-> pair(n.kids[i])])
    IN  CASE n.op \in {"literal", "name", "self"} -> <<n.name>>
          [] p \in {3, 8} -> <<n.op>> \o operand(1, p)
          [] p \in {1, 2, 4, 5, 6, 7} ->
                operand(1, IF p \in LeftAssociative THEN p ELSE p + 1) \o <<n.op>> \o operand(2, p + 1)
          [] n.op = "call" -> operand(1, 9) \o <<"(">> \o ShowAll(Tail(n.kids)) \o <<")">>
          [] n.op = "index" -> operand(1, 9) \o <<"[">> \o operand(2, 0) \o <<"]">>
          [] n.op = "member" -> operand(1, 9) \o <<".", n.name>>
          [] n.op = "unwrap" -> Append(operand(1, 9), "?")
          [] n.op \in {"array", "map", "struct"} -> <<n.name, "{">> \o pairs \o <<"}">>
          [] n.op = "clauses" -> <<"(">> \o pairs \o <<")">>
          [] n.op = "ifexpr" ->
                <<"if">> \o Show(n.kids[1], 0) \o <<"then">> \o Only(n.kids[2])
                \o (IF n.kids[3] = None THEN <<>> ELSE <<"else">> \o Only(n.kids[3]))
          [] n.op = "spawn" -> <<"spawn", ":">> \o ShowBlock(n.kids[1])
          [] n.op \in {"sync", "race"} ->
                <<n.op, ":", "NEWLINE", "INDENT">>
                \o FlattenSeq([i \in DOMAIN n.kids |-> ShowStmt(Node("expr", "", <<n.kids[i]>>))]) \o <<"DEDENT">>
Show(n, level) == IF Precedence(n) < level THEN <<"(">> \o Bare(n) \o <<")">> ELSE Bare(n)

(* An expression that would be read as an if statement, or as the          *)
(* declaration of a function, is put in brackets.                          *)
AsStatement(tokens) ==
    IF Head(tokens) = "if" \/ (Len(tokens) > 1 /\ IsName(Head(tokens)) /\ tokens[2] = "(" /\ Contains(tokens, "="))
    THEN <<"(">> \o tokens \o <<")">> ELSE tokens

ShowFunction(f) ==
    LET mods   == f.kids[1]
        specs  == (IF IsAbstract(mods) THEN <<Leaf("name", "abstract")>> ELSE <<>>)
                  \o (IF mods.name = "public" THEN <<>> ELSE <<mods>>)
        params == [i \in DOMAIN f.kids[2].kids |->
                      LET p == f.kids[2].kids[i]
                      IN  <<p.name>> \o Optional(":", p.kids[1]) \o Optional("=", p.kids[2])]
    IN  <<f.name>> \o InAngles(specs) \o <<"(">> \o Joined(params) \o <<")">> \o InAngles(f.kids[3].kids)
        \o Optional(":", f.kids[4]) \o <<"=">>
        \o (IF IsAbstract(mods) THEN <<"NEWLINE">> ELSE ShowBlock(f.kids[5]))
ShowField(f) ==
    Line(<<f.name>> \o InAngles(IF f.kids[1].name = "public" THEN <<>> ELSE <<f.kids[1]>>)
         \o Optional(":", f.kids[2]) \o Optional("=", f.kids[3]))
ShowClass(c) ==
    <<c.name, ":=", "class">> \o InAngles(IF IsAbstract(c.kids[1]) THEN <<Leaf("name", "abstract")>> ELSE <<>>)
    \o (IF c.kids[2] = None THEN <<>> ELSE <<"(", c.kids[2].name, ")">>) \o <<":">>
    \o (IF c.kids[3].kids = <<>> THEN <<>> ELSE Names(c.kids[3].kids) \o <<":">>) \o <<"NEWLINE", "INDENT">>
    \o FlattenSeq([i \in DOMAIN c.kids[4].kids |-> ShowField(c.kids[4].kids[i])])
    \o FlattenSeq([i \in DOMAIN c.kids[5].kids |-> ShowFunction(c.kids[5].kids[i])]) \o <<"DEDENT">>

ShowStmt(s) ==
    CASE s.op = "expr" -> Line(AsStatement(Show(s.kids[1], 0)))
      [] s.op = "var" -> Line(<<"var", s.name>> \o Optional(":", s.kids[1]) \o Optional("=", s.kids[2]))
      [] s.op = "const" /\ s.kids[1] = None -> Line(<<s.name, ":=">> \o Show(s.kids[2], 0))
      [] s.op = "const" /\ s.kids[1] # None -> Line(<<s.name>> \o Optional(":", s.kids[1]) \o Optional("=", s.kids[2]))
      [] s.op = "set" -> Line(<<"set">> \o Show(s.kids[1], 9) \o <<"=">> \o Show(s.kids[2], 0))
      [] s.op = "if" -> <<"if">> \o Show(s.kids[1], 0) \o <<":">> \o ShowBlock(s.kids[2])
                        \o (IF s.kids[3] = None THEN <<>> ELSE <<"else", ":">> \o ShowBlock(s.kids[3]))
      [] s.op = "for" -> <<"for", "(", s.name, ":">> \o ShowAll(Front(s.kids)) \o <<")", ":">> \o ShowBlock(Last(s.kids))
      [] s.op = "loop" -> <<"loop", ":">> \o ShowBlock(s.kids[1])
      [] s.op \in {"break", "continue"} -> <<s.op, "NEWLINE">>
      [] s.op = "return" -> Line(<<"return">> \o (IF s.kids[1] = None THEN <<>> ELSE Show(s.kids[1], 0)))
      [] s.op = "func" -> ShowFunction(s)
      [] s.op = "class" -> ShowClass(s)
TokensOf(tree) == FlattenSeq([i \in DOMAIN tree.kids |-> ShowStmt(tree.kids[i])]) \o <<"EOF">>
=============================================================================

------------------------------ MODULE Session ------------------------------
(***************************************************************************)
(* The REPL with its parser and its compiler: Repl, the texts that were    *)
(* read and the programs that were made of them.                           *)
(***************************************************************************)
EXTENDS Repl, Printer, Types, FiniteSets

(* What the compiler refuses: a break or continue outside the loops of its *)
(* own function or branch, and what cannot be assigned to.                 *)
AssignableTarget(e) ==
    \/ e.op \in {"name", "member"}
    \/ e.op = "index" /\ e.kids[1].op \in {"name", "member"}
RECURSIVE Compiles(_, _)
Compiles(n, inLoop) ==
    /\ n.op \in {"break", "continue"} => inLoop
    /\ n.op = "set" => AssignableTarget(n.kids[1])
    /\ \A i \in DOMAIN n.kids :
          Compiles(n.kids[i], CASE n.op \in {"loop", "for"} -> TRUE
                                [] n.op \in {"func", "spawn", "sync", "race"} -> FALSE
                                [] OTHER -> inLoop)

Compilable(program) == Compiles(program, FALSE)

----------------------------------------------------------------------------
(* INDENT and DEDENT nest as the off-side rule says.  The lines that count *)
(* are those with a token that begin outside brackets; line 0 is the       *)
(* margin.  A line is as deep as there are lines it is inside of, and its  *)
(* indentation must be new or that of one of these or of an earlier        *)
(* sibling.  (Texts with block comments, whose spaces are measured in      *)
(* their own way, with tabs, with characters that no token has, and with a *)
(* bracket closed that was not open are left out, also where this has no   *)
(* effect.)                                                                *)
OffSide(text) ==
    LET code(k) == LET n == SelectInSeq(text[k], LAMBDA c : c = "#")
                   IN  IF n = 0 THEN text[k] ELSE SubSeq(text[k], 1, n - 1)
        indent(k) == IF k = 0 THEN 0 ELSE SelectInSeq(text[k], LAMBDA c : c # " ") - 1
        open(k) == BracketDepth(FlattenSeq([j \in 1 .. k |-> code(j)]))
        lines == {0} \cup {k \in DOMAIN text : ~Blank(code(k)) /\ open(k - 1) = 0}
        between(j, k) == {m \in lines : j < m /\ m < k}
        around(k) == {j \in lines : j < k /\ \A m \in between(j, k) \cup {k} : indent(j) < indent(m)}
        fits(k) == \/ indent(k) > indent(CHOOSE j \in lines : j < k /\ between(j, k) = {})
                   \/ \E j \in lines : /\ j < k /\ indent(j) = indent(k)
                                       /\ \A m \in between(j, k) : indent(m) >= indent(j)
        order == SetToSortSeq(lines \ {0}, <)
    IN  [fits |-> \A k \in lines \ {0} : fits(k),
         depths |-> [i \in DOMAIN order |-> Cardinality(around(order[i]))],
         balanced |-> \A k \in DOMAIN text : \A n \in DOMAIN code(k) :
                         open(k - 1) + BracketDepth(SubSeq(code(k), 1, n)) >= 0]
DepthsOf(tokens) ==
    LET depth(i) == Cardinality({j \in 1 .. i : tokens[j] = "INDENT"})
                    - Cardinality({j \in 1 .. i : tokens[j] = "DEDENT"})
        begins == SelectSeq([i \in DOMAIN tokens |-> i],
                     LAMBDA i : /\ tokens[i] \notin LayoutTokens \cup {"EOF"}
                                /\ i = 1 \/ tokens[i - 1] \in LayoutTokens)
    IN  [i \in DOMAIN begins |-> depth(begins[i])]
LayoutIsOffSide ==
    LET text == latest.text
        tokens == Tokenize(text)
    IN  (\A k \in DOMAIN text : ~\E c \in {"<#", "#>", Tab, Strange} : Contains(text[k], c))
        /\ OffSide(text).balanced
        => IF OffSide(text).fits THEN DepthsOf(tokens) = OffSide(text).depths ELSE tokens = Rejected

(* The parser follows the precedences and the grammar of the reference: a  *)
(* program written out by them is read as the same program.                *)
ReadsBack ==
    latest.program # None =>
        ParseProgram(TokensOf(latest.program)) = latest.program

(* The program has every name and literal of its text, as often as it is   *)
(* written, save the words for access.  (sync and race keep expressions    *)
(* only: texts with these are left out.)                                   *)
RECURSIVE Occurrences(_, _)
Occurrences(w, n) ==
    FoldFunction(+, IF n.name = w THEN 1 ELSE 0, [i \in DOMAIN n.kids |-> Occurrences(w, n.kids[i])])
NoWordLost ==
    LET tokens == Tokenize(latest.text)
        words == {t \in Range(tokens) : IsName(t) \/ t \in Literals \cup {"self"}} \ (Accesses \cup {"abstract"})
    IN  latest.program # None /\ ~Contains(tokens, "sync") /\ ~Contains(tokens, "race") =>
            \A w \in words :
                Occurrences(w, latest.program) = Cardinality({i \in DOMAIN tokens : tokens[i] = w})

(* Every annotation that the parser takes is a type to the strict checker, *)
(* which reads it again.                                                   *)
RECURSIVE Annotations(_)
Annotations(n) ==
    IF n.op = "ann" THEN {[i \in DOMAIN n.kids |-> n.kids[i].name]}
    ELSE UNION {Annotations(n.kids[i]) : i \in DOMAIN n.kids}
AnnotationsAreTypes == \A a \in Annotations(latest.program) : ParseTypeAnn(a) # NoType
=============================================================================

----------------------------- MODULE MCSession -----------------------------
(* Small instances of Session for TLC: what the user may type, by topic.   *)
EXTENDS Session

Vocabulary(lines, most) == [lines |-> lines, most |-> most, files |-> {}]
Indent(n, line) == Repeat(" ", n) \o line
UpTo(n, S) == UNION {[1 .. k -> S] : k \in 1 .. n}

(* Every expression of two binary operators, with a prefix or brackets at  *)
(* every place; and every sequence of a few tokens.                        *)
BinaryOps == {"or", "and", "=", "<", "..", "+", "-", "*", "%"}
PrefixOps  == {<<>>, <<"not">>, <<"-">>}
Chains == Vocabulary(
    {p \o <<"X", o>> \o q \o <<"Y", r, "1">> : p \in PrefixOps, q \in PrefixOps, o \in BinaryOps, r \in BinaryOps}
    \cup {<<"X", o, "(", "Y", r, "1", ")">> : o \in BinaryOps, r \in BinaryOps}
    \cup {<<"(", "X", o, "Y", ")", r>> \o q \o <<"1">> : o \in BinaryOps, r \in BinaryOps, q \in PrefixOps}, 1)
Tokens == Vocabulary(UpTo(5, {"X", "-", "=", "(", ")", "?"}), 1)
Forms == Vocabulary(
    LET atoms == {<<"X">>, <<"self">>, <<"F", "(", "X", ",", "1", ")">>, <<"X", "[", "1", "]">>, <<"X", ".", "Y">>,
                  <<"X", "?">>, <<"array", "{", "X", ",", "1", ",", "}">>, <<"map", "{", "X", "=>", "1", "}">>,
                  <<"P", "{", "X", ":=", "1", "}">>, <<"(", "F", "(", ")", ")">>, <<"F", "(", ")">>, <<"P", "{", "}">>,
                  <<"if", "(", "X", ":=", "Y", "?", ",", "X", ")", "then", "1", "else", "2">>,
                  <<"(", "if", "(", "X", ")", "then", "1", ")">>}
    IN  {a \o o \o b : a \in atoms, b \in atoms, o \in {<<"=">>, <<"+">>, <<":=">>, <<"(">>, <<>>}}
        \cup {k \o a \o s : k \in {<<"var", "X", "=">>, <<"return">>, <<"set", "X", ".", "Y", "=">>, <<"X", ":", "int", "=">>,
                                   <<"F", "(", "X", "=", "1", ",", "Y", ":", "P", ")", "<", "decides", ">", "=">>,
                                   <<"if", "(", "X", ")", "then">>, <<"for", "(", "X", ":", "Y", ",">>},
                             a \in atoms, s \in {<<>>, <<")", "do", "X">>, <<"else", "Y">>}}
        \cup {<<"set">> \o a \o <<"=", "1">> : a \in atoms}, 1)
Annotated == Vocabulary({<<"var", "X", ":">> \o t \o <<"=", "1">> : t \in UpTo(5, {"?", "[", "]", "int", "P"})}, 1)

If     == <<"if", "(", "X", ")", ":">>
ElseIf == <<"else", "if", "(", "X", ")", ":">>
Blocks == Vocabulary(
    {<<>>, <<"X">>, <<" ", "X">>, <<" ", " ", "X">>, If, Indent(1, If), <<"else", ":">>, Indent(1, ElseIf),
     <<" ", "else", ":", "X">>, <<"loop", ":">>, <<" ", "break">>, <<" ", " ", "break">>}, 5)
Expressions == Vocabulary(
    {<<" ">>, <<"X", ":=", "spawn", ":">>, <<"return", "race", ":">>, <<" ", "loop", ":">>, <<" ", "X">>, <<" ", "X", ":=", "1">>, <<"(", "X", ")">>,
     <<"-", "X">>, <<"break">>, <<"for", "(", "X", ":", "Y", ")", ":">>, <<" ", "break">>, <<" ", "spawn", ":">>, <<" ", " ", "break">>}, 4)
Layouts == Vocabulary(
    {<<>>, <<"X", ":=", "array", "{">>, <<"X", ",", "#", "(">>, <<"}">>, <<"#", "X">>, <<" ", " ", "#", ":">>, <<"X", "#", ":">>,
     <<"<#", "X", ":">>, <<"#>", "X">>, <<"<#", "#>", " ", "X">>, <<" ", "X">>, <<Tab, "X">>, <<"X", Strange>>, <<":", "X">>, <<"X", ")">>}, 4)
Functions == Vocabulary(
    {<<>>, <<"F", "(", ")", "=">>, <<"F", "(", "X", "=", "(">>, <<"F", "(", "X", ":", "?", "int", ",", "Y", ")", "<", "decides", ">", ":", "int", "=">>,
     <<" ", "return">>, <<" ", "return", "X", "?">>, <<" ", "F", "(", "X", ")">>, <<" ", "F", "(", "X", ")", "=", "1">>, <<"F", "(", "1", ")", "=", "1">>,
     <<"1", ")", "=">>, <<" ", "loop", ":", "continue">>, <<" ", "continue">>}, 4)
Classes == Vocabulary(
    {<<>>, <<"P", ":=", "class", ":">>, <<"P", ":=", "class", "<", "abstract", ">", "(", "X", ")", ":", "Y", ",", "X", ":">>,
     <<"P", ":=", "class", "<", "private", ">", ":">>, <<" ", "X", "<", "private", ">", ":", "[", "int", "]", "P", "=", "1">>,
     <<" ", "X", "<", "private", ",", "public", ">">>, <<" ", "X", "<", "abstract", ">">>, <<" ", "X">>,
     <<" ", "F", "<", "protected", ">", "(", "Y", ")", "=", "Y">>, <<" ", "F", "<", "abstract", ">", "(", ")", "<", "decides", ">", ":", "X", "=">>,
     <<" ", "F", "(", ")", "=">>, <<" ", " ", "self", ".", "X">>}, 5)

(* The commands, with files whose first lines would be inputs of their own.*)
Commands == [Vocabulary({<<>>, <<"X">>, If, <<" ", "X">>, <<":", "X">>, <<"else", ":", "X">>}, 4) EXCEPT !.files =
    {<< <<"X">>, <<>>, If, <<>>, <<" ", "X">>, <<"else", ":", "X">> >>, << <<"F", "(", ")", "=">>, <<" ", "X">>, <<"X">> >>, << <<"X", ")">> >>, <<>>}]

(* The parser is as SessionIsFileHolds of ReplProofs asks: here for all    *)
(* pairs of programs of two lines.                                         *)
ASSUME ParserReadsTokens ==
    LET texts == UNION {UpTo(2, v.lines) : v \in {Blocks, Expressions, Functions, Classes}}
        read  == {u \in {Tokenize(text) : text \in texts} : ParseProgram(u) # None}
    IN  /\ \A u \in read : Joinable(u)
        /\ \A u, v \in read :
              ~GoesOn(u, v) => ParseProgram(Front(u) \o v) = Block(ParseProgram(u).kids \o ParseProgram(v).kids)

MCVocabularies == {Chains, Tokens, Forms, Annotated, Blocks, Expressions, Layouts, Functions, Classes, Commands}
MCSymbols ==
    UNION {UNION {Range(line) : line \in v.lines \cup UNION {Range(file) : file \in v.files}} : v \in MCVocabularies}
=============================================================================

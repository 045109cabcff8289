------------------------------- MODULE Layout -------------------------------
(***************************************************************************)
(* The lexer (src/src/versetools/lexer.py): a text becomes tokens, and the *)
(* indentation of its lines the tokens INDENT, DEDENT and NEWLINE.         *)
(*                                                                         *)
(* A text is a sequence of lines and a line a sequence of symbols: " ", a  *)
(* tab, the marks of comments, the tokens, and Strange for a character     *)
(* that no token begins with.  Names and literals stand for themselves,    *)
(* and neighbours do not merge.                                            *)
(* One symbol is one step, from the lexer's fields to their next values.   *)
(***************************************************************************)
EXTENDS Integers, Sequences, SequencesExt

Tab     == "tab"
Strange == "strange"
Opening == {"(", "[", "{"}
Closing == {")", "]", "}"}
LayoutTokens == {"NEWLINE", "INDENT", "DEDENT"}

(* `mode` is what the next symbol is part of: the spaces a line begins     *)
(* with (line_start), the line, a comment to its end, or a block comment;  *)
(* `back` is the mode that a comment interrupts.                           *)
Start == [mode |-> "measure", back |-> "measure", indent |-> 0,
          indents |-> <<0>>, depth |-> 0, tokens |-> <<>>]
Failed == [Start EXCEPT !.mode = "error"]

Repeat(t, n) == [i \in 1 .. n |-> t]

(* Mutant of EndLine: the end of the text ends a line that has been ended. *)
EndLineAgain(tokens) == IF tokens # <<>> THEN Append(tokens, "NEWLINE") ELSE tokens

EndLine(tokens) ==
    IF tokens # <<>> /\ Last(tokens) # "NEWLINE" THEN Append(tokens, "NEWLINE") ELSE tokens

(* Mutant of Measured: a line closes one level at most.                    *)
MeasuredOnce(s) ==
    IF s.indent > Last(s.indents)
    THEN [s EXCEPT !.indents = Append(@, s.indent), !.tokens = Append(@, "INDENT")]
    ELSE IF s.indent < Last(s.indents)
    THEN [s EXCEPT !.indents = Front(@), !.tokens = Append(@, "DEDENT")]
    ELSE s

(* _consume_indentation at the first token of a line.                      *)
Measured(s) ==
    LET n == CHOOSE n \in DOMAIN s.indents :
                /\ s.indents[n] <= s.indent
                /\ \A m \in DOMAIN s.indents : m > n => s.indents[m] > s.indent
        kept == SubSeq(s.indents, 1, n)
    IN  IF s.indent > Last(s.indents)
        THEN [s EXCEPT !.indents = Append(@, s.indent), !.tokens = Append(@, "INDENT")]
        ELSE IF s.indent # Last(kept) THEN Failed
        ELSE [s EXCEPT !.indents = kept,
                       !.tokens = @ \o Repeat("DEDENT", Len(s.indents) - Len(kept))]

(* _bracket_depth: a bracket that closes nothing is passed.                *)
Bracket(c, depth) ==
    CASE c \in Opening -> depth + 1
      [] c \in Closing /\ depth > 0 -> depth - 1
      [] OTHER -> depth

(* _scan_token on a token and on the end of a line.                        *)
Token(s, c) ==
    IF s.mode = "error" THEN s
    ELSE [s EXCEPT !.mode = "scan", !.tokens = Append(@, c), !.depth = Bracket(c, @)]
LineEnd(s) ==
    IF s.back = "scan" /\ s.depth > 0 THEN [s EXCEPT !.mode = "scan"]
    ELSE [s EXCEPT !.mode = "measure", !.indent = 0,
                   !.tokens = IF s.back = "scan" THEN EndLine(@) ELSE @]

(* A symbol outside of comments.                                           *)
Scan(s, c) ==
    CASE c = "\n" -> LineEnd([s EXCEPT !.back = s.mode])
      [] c \in {"#", "#>"} -> [s EXCEPT !.mode = "comment", !.back = s.mode]
      [] c = "<#" -> [s EXCEPT !.mode = "block", !.back = s.mode]
      [] c = " " -> [s EXCEPT !.indent = @ + 1]
      [] c = Tab -> IF s.mode = "measure" THEN Failed ELSE s
      [] c = Strange -> Failed
      [] OTHER -> Token(IF s.mode = "measure" THEN Measured(s) ELSE s, c)

(* After a block comment that a line begins with, indentation is measured  *)
(* afresh.                                                                 *)
Step(s, c) ==
    CASE s.mode = "error" -> s
      [] s.mode = "block" ->
            IF c = "#>" THEN [s EXCEPT !.mode = s.back, !.indent = 0] ELSE s
      [] s.mode = "comment" -> IF c = "\n" THEN LineEnd(s) ELSE s
      [] s.mode \in {"measure", "scan"} -> Scan(s, c)

ScanLine(s, line) ==
    LET after[n \in 0 .. Len(line)] == IF n = 0 THEN s ELSE Step(after[n - 1], line[n])
    IN  IF s.mode = "error" THEN s ELSE Step(after[Len(line)], "\n")

(* The tokens of a text, <<>> if there is a syntax error in it.            *)
Rejected == <<>>
Tokenize(text) ==
    LET after[k \in 0 .. Len(text)] == IF k = 0 THEN Start ELSE ScanLine(after[k - 1], text[k])
        s == after[Len(text)]
    IN  IF s.mode \in {"error", "block"} THEN Rejected
        ELSE EndLine(s.tokens) \o Repeat("DEDENT", Len(s.indents) - 1) \o <<"EOF">>

----------------------------------------------------------------------------
(* What the parser relies on: INDENT and DEDENT nest, and are all closed   *)
(* at the end of the text; an INDENT begins a line, DEDENTs begin a line   *)
(* or end the text, and a NEWLINE ends a line that has a token.            *)
Change(t) == CASE t = "INDENT" -> 1 [] t = "DEDENT" -> -1 [] OTHER -> 0
DepthAt(tokens) ==
    LET level[i \in 0 .. Len(tokens)] == IF i = 0 THEN 0 ELSE level[i - 1] + Change(tokens[i])
    IN  level
Nested(tokens) ==
    /\ \A i \in DOMAIN tokens : DepthAt(tokens)[i] >= 0
    /\ DepthAt(tokens)[Len(tokens)] = 0
Before(tokens, i) == IF i = 1 THEN "NEWLINE" ELSE tokens[i - 1]
InLines(tokens) ==
    \A i \in DOMAIN tokens :
        /\ tokens[i] = "INDENT" => Before(tokens, i) = "NEWLINE"
        /\ tokens[i] \in {"DEDENT", "EOF"} => Before(tokens, i) \in {"NEWLINE", "DEDENT"}
        /\ tokens[i] = "NEWLINE" => Before(tokens, i) \notin LayoutTokens
EndsOnce(tokens) == \A i \in DOMAIN tokens : tokens[i] = "EOF" <=> i = Len(tokens)
WellFormed(tokens) == tokens # <<>> /\ Nested(tokens) /\ InLines(tokens) /\ EndsOnce(tokens)

(* What may stand before and after other tokens: tokens that leave no      *)
(* bracket open, and that do not begin inside a block.                     *)
OpenBrackets(tokens) ==
    LET open[i \in 0 .. Len(tokens)] == IF i = 0 THEN 0 ELSE Bracket(tokens[i], open[i - 1])
    IN  open[Len(tokens)]
Indented(tokens) == tokens # <<>> /\ tokens[1] = "INDENT"
Joinable(tokens) == OpenBrackets(tokens) = 0 /\ ~Indented(tokens)
=============================================================================

---------------------------- MODULE LayoutProofs ----------------------------
(***************************************************************************)
(* The lexer, for every text: its tokens are well formed, and those of a   *)
(* text after a text are those of both.                                    *)
(*                                                                         *)
(* The lexer is a function, so what holds of it is an invariant of its     *)
(* state after each symbol (LexInv, Deep, Follows), which Recursion and    *)
(* Unique carry along a line and a text.                                   *)
(***************************************************************************)
EXTENDS Layout, Counting

----------------------------------------------------------------------------
(* What holds of the lexer after each symbol.                              *)

Modes == {"measure", "scan", "comment", "block", "error"}
LexType(S) ==
    [mode : Modes, back : {"measure", "scan"}, indent : Nat, indents : Seq(Nat),
     depth : Int, tokens : Seq(S \cup LayoutTokens)]

(* The open indentations: the margin, and each deeper than the one before. *)
Increasing(q) == q # <<>> /\ q[1] = 0 /\ \A i, j \in DOMAIN q : i < j => q[i] < q[j]

(* The tokens open n blocks that they do not close.                        *)
Opens(level, tokens) ==
    level[0] = 0 /\ \A i \in 1 .. Len(tokens) : level[i] = level[i - 1] + Change(tokens[i])
AtLevel(tokens, n) ==
    \E level \in [0 .. Len(tokens) -> Nat] : Opens(level, tokens) /\ level[Len(tokens)] = n

(* The line that the next symbol is part of has a token, or none.          *)
Within(s) == IF s.mode \in {"comment", "block"} THEN s.back ELSE s.mode
LexInv(s) ==
    /\ Increasing(s.indents)
    /\ AtLevel(s.tokens, Len(s.indents) - 1)
    /\ InLines(s.tokens)
    /\ Within(s) = "measure" => s.tokens = <<>> \/ Last(s.tokens) = "NEWLINE"
    /\ Within(s) = "scan" => s.tokens # <<>> /\ Last(s.tokens) \notin LayoutTokens
Lexing(S) == {s \in LexType(S) : LexInv(s)}

Apart(S) == S \cap (LayoutTokens \cup {"EOF"}) = {}

(* One more token.                                                         *)
LEMMA AppendLevel ==
    ASSUME NEW W, NEW tokens \in Seq(W), NEW t \in W, NEW n \in Nat, AtLevel(tokens, n),
           n + Change(t) \in Nat
    PROVE  AtLevel(Append(tokens, t), n + Change(t))
<1>. DEFINE more == Append(tokens, t)
            m == Len(tokens)
<1>1. /\ m \in Nat /\ Len(more) = m + 1 /\ more[m + 1] = t
      /\ \A i \in 1 .. m : more[i] = tokens[i]
    BY AppendProperties
<1>2. PICK level \in [0 .. m -> Nat] : Opens(level, tokens) /\ level[m] = n
    BY DEF AtLevel
<1>. HIDE DEF more
<1>. DEFINE next == [i \in 0 .. m + 1 |-> IF i = m + 1 THEN n + Change(t) ELSE level[i]]
<1>3. /\ next \in [0 .. m + 1 -> Nat] /\ next[m + 1] = n + Change(t)
      /\ \A i \in 0 .. m : next[i] = level[i]
    BY <1>1
<1>. HIDE DEF next
<1>4. next[0] = 0
    BY <1>1, <1>2, <1>3 DEF Opens
<1>5. ASSUME NEW i \in 1 .. m + 1
      PROVE  next[i] = next[i - 1] + Change(more[i])
    <2>1. CASE i = m + 1
        BY <1>1, <1>2, <1>3, <2>1
    <2>2. CASE i # m + 1
        <3>1. i \in 1 .. m /\ i - 1 \in 0 .. m /\ i \in 0 .. m
            BY <1>1, <2>2
        <3>. QED
            BY <1>1, <1>2, <1>3, <3>1 DEF Opens
    <2>. QED
        BY <2>1, <2>2
<1>6. Opens(next, more)
    BY <1>1, <1>4, <1>5 DEF Opens
<1>. QED
    BY <1>1, <1>3, <1>6 DEF AtLevel, more

LEMMA AppendLines ==
    ASSUME NEW W, NEW tokens \in Seq(W), NEW t \in W, InLines(tokens),
           t = "INDENT" => tokens = <<>> \/ Last(tokens) = "NEWLINE",
           t \in {"DEDENT", "EOF"} => tokens = <<>> \/ Last(tokens) \in {"NEWLINE", "DEDENT"},
           t = "NEWLINE" => tokens # <<>> /\ Last(tokens) \notin LayoutTokens
    PROVE  InLines(Append(tokens, t))
<1>. DEFINE more == Append(tokens, t)
            m == Len(tokens)
<1>1. /\ m \in Nat /\ Len(more) = m + 1 /\ more[m + 1] = t
      /\ \A i \in 1 .. m : more[i] = tokens[i]
      /\ DOMAIN more = 1 .. m + 1 /\ DOMAIN tokens = 1 .. m
      /\ (tokens = <<>> <=> m = 0)
    BY AppendProperties, EmptySeq
<1>. HIDE DEF more
<1>2. \A i \in 1 .. m : Before(more, i) = Before(tokens, i)
    BY <1>1 DEF Before
<1>3. Before(more, m + 1) = IF tokens = <<>> THEN "NEWLINE" ELSE Last(tokens)
    BY <1>1 DEF Before, Last
<1>4. \A i \in 1 .. m + 1 : i = m + 1 \/ i \in 1 .. m
    BY <1>1
<1>. QED
    BY <1>1, <1>2, <1>3, <1>4 DEF InLines, LayoutTokens, more

(* Blocks that are closed at once.                                         *)
LEMMA Dedents ==
    ASSUME NEW W, "DEDENT" \in W, NEW tokens \in Seq(W), NEW n \in Nat, NEW k \in 0 .. n,
           AtLevel(tokens, n), InLines(tokens),
           tokens = <<>> \/ Last(tokens) \in {"NEWLINE", "DEDENT"}
    PROVE  LET more == tokens \o Repeat("DEDENT", k)
           IN  /\ more \in Seq(W) /\ AtLevel(more, n - k) /\ InLines(more)
               /\ more = <<>> \/ Last(more) \in {"NEWLINE", "DEDENT"}
<1>. DEFINE more == tokens \o Repeat("DEDENT", k)
            m == Len(tokens)
<1>1. /\ Repeat("DEDENT", k) \in Seq(W) /\ Len(Repeat("DEDENT", k)) = k
      /\ \A i \in 1 .. k : Repeat("DEDENT", k)[i] = "DEDENT"
    BY DEF Repeat
<1>2. /\ more \in Seq(W) /\ m \in Nat /\ Len(more) = m + k /\ DOMAIN more = 1 .. m + k
      /\ \A i \in 1 .. m : more[i] = tokens[i]
      /\ (tokens = <<>> <=> m = 0) /\ (more = <<>> <=> m + k = 0) /\ DOMAIN tokens = 1 .. m
    <2>. DEFINE r == Repeat("DEDENT", k)
    <2>1. r \in Seq(W) /\ Len(r) = k /\ more = tokens \o r
        BY <1>1
    <2>. HIDE DEF r, more
    <2>2. m \in Nat /\ k \in Nat
        OBVIOUS
    <2>3. /\ more \in Seq(W) /\ Len(more) = m + k
          /\ \A i \in 1 .. m + k : more[i] = IF i <= m THEN tokens[i] ELSE r[i - m]
        BY <2>1, ConcatProperties
    <2>4. \A i \in 1 .. m : more[i] = tokens[i]
        BY <2>2, <2>3
    <2>. QED
        BY <2>2, <2>3, <2>4, EmptySeq
<1>3. \A i \in 1 .. m + k : i > m => more[i] = "DEDENT"
    <2>. TAKE i \in 1 .. m + k
    <2>. HAVE i > m
    <2>1. more[i] = Repeat("DEDENT", k)[i - m] /\ i - m \in 1 .. k
        BY <1>1, <1>2, ConcatProperties
    <2>. QED
        BY <1>1, <2>1
<1>. HIDE DEF more
<1>4. PICK level \in [0 .. m -> Nat] : Opens(level, tokens) /\ level[m] = n
    BY DEF AtLevel
<1>5. AtLevel(more, n - k)
    <2>. DEFINE next == [i \in 0 .. m + k |-> IF i <= m THEN level[i] ELSE n - (i - m)]
    <2>1. \A i \in 0 .. m + k : (IF i <= m THEN level[i] ELSE n - (i - m)) \in Nat
        BY <1>2
    <2>2. next \in [0 .. m + k -> Nat]
        BY <2>1
    <2>3. next[0] = 0
        BY <1>2, <1>4 DEF Opens
    <2>4. next[m + k] = n - k
        BY <1>2, <1>4
    <2>5. ASSUME NEW i \in 1 .. m + k
          PROVE  next[i] = next[i - 1] + Change(more[i])
        <3>1. CASE i <= m
            <4>1. i \in 1 .. m /\ next[i] = level[i] /\ next[i - 1] = level[i - 1]
                BY <1>2, <3>1
            <4>. QED
                BY <1>2, <1>4, <4>1 DEF Opens
        <3>2. CASE i = m + 1
            <4>1. next[i] = n - 1 /\ next[i - 1] = n /\ Change(more[i]) = 0 - 1
                BY <1>2, <1>3, <1>4, <3>2 DEF Change
            <4>. QED
                BY <4>1
        <3>3. CASE i > m + 1
            <4>1. next[i] = n - (i - m) /\ next[i - 1] = n - (i - 1 - m) /\ Change(more[i]) = 0 - 1
                BY <1>2, <1>3, <3>3 DEF Change
            <4>. QED
                BY <1>2, <4>1
        <3>. QED
            BY <1>2, <3>1, <3>2, <3>3
    <2>. HIDE DEF next
    <2>6. Opens(next, more)
        BY <1>2, <2>3, <2>5 DEF Opens
    <2>. QED
        BY <1>2, <2>2, <2>4, <2>6 DEF AtLevel
<1>6. InLines(more)
    <2>1. ASSUME NEW i \in 1 .. m + k
          PROVE  /\ more[i] = "INDENT" => Before(more, i) = "NEWLINE"
                 /\ more[i] \in {"DEDENT", "EOF"} => Before(more, i) \in {"NEWLINE", "DEDENT"}
                 /\ more[i] = "NEWLINE" => Before(more, i) \notin LayoutTokens
        <3>1. CASE i <= m
            <4>1. i \in 1 .. m /\ more[i] = tokens[i] /\ Before(more, i) = Before(tokens, i)
                BY <1>2, <3>1 DEF Before
            <4>. QED
                BY <1>2, <4>1 DEF InLines
        <3>2. CASE i > m
            <4>1. more[i] = "DEDENT"
                BY <1>3, <3>2
            <4>2. Before(more, i) \in {"NEWLINE", "DEDENT"}
                <5>1. CASE i = 1
                    BY <5>1 DEF Before
                <5>2. CASE i = m + 1 /\ i # 1
                    BY <1>2, <5>2 DEF Before, Last
                <5>3. CASE i > m + 1
                    BY <1>2, <1>3, <5>3 DEF Before
                <5>. QED
                    BY <1>2, <3>2, <5>1, <5>2, <5>3
            <4>. QED
                BY <4>1, <4>2
        <3>. QED
            BY <1>2, <3>1, <3>2
    <2>. QED
        BY <1>2, <2>1 DEF InLines
<1>7. more = <<>> \/ Last(more) \in {"NEWLINE", "DEDENT"}
    <2>1. CASE k = 0
        BY <1>2, <2>1 DEF Last
    <2>2. CASE k # 0
        BY <1>2, <1>3, <2>2 DEF Last
    <2>. QED
        BY <2>1, <2>2
<1>. QED
    BY <1>2, <1>5, <1>6, <1>7 DEF more

(* Before the first symbol, and after an error.                            *)
LEMMA StartLexing ==
    ASSUME NEW S
    PROVE  Start \in Lexing(S) /\ Failed \in Lexing(S)
<1>1. AtLevel(<<>>, 0)
    <2>. DEFINE level == [i \in 0 .. 0 |-> 0]
    <2>1. level \in [0 .. Len(<<>>) -> Nat] /\ Opens(level, <<>>) /\ level[Len(<<>>)] = 0
        BY DEF Opens
    <2>. HIDE DEF level
    <2>. QED
        BY <2>1 DEF AtLevel
<1>2. Increasing(<<0>>) /\ Len(<<0>>) - 1 = 0 /\ <<0>> \in Seq(Nat)
    BY DEF Increasing
<1>3. InLines(<<>>)
    BY DEF InLines
<1>4. Start \in LexType(S) /\ Failed \in LexType(S)
    <2>1. <<>> \in Seq(S \cup LayoutTokens)
        OBVIOUS
    <2>2. Failed = [mode |-> "error", back |-> "measure", indent |-> 0,
                    indents |-> <<0>>, depth |-> 0, tokens |-> <<>>]
        BY DEF Start, Failed
    <2>3. \A m \in Modes :
              [mode |-> m, back |-> "measure", indent |-> 0, indents |-> <<0>>, depth |-> 0, tokens |-> <<>>] \in LexType(S)
        BY <1>2, <2>1 DEF LexType
    <2>4. "measure" \in Modes /\ "error" \in Modes
        BY DEF Modes
    <2>. QED
        BY <2>2, <2>3, <2>4 DEF Start
<1>5. /\ Start.indents = <<0>> /\ Start.tokens = <<>> /\ Within(Start) = "measure"
      /\ Failed.indents = <<0>> /\ Failed.tokens = <<>> /\ Within(Failed) = "error"
    BY DEF Start, Failed, Within
<1>. QED
    BY <1>1, <1>2, <1>3, <1>4, <1>5 DEF Lexing, LexInv

----------------------------------------------------------------------------
(* One symbol.                                                             *)

(* The innermost open indentation that is no deeper than a line.           *)
LEMMA Innermost ==
    ASSUME NEW q \in Seq(Nat), Increasing(q), NEW d \in Nat
    PROVE  \E n \in DOMAIN q : q[n] <= d /\ \A m \in DOMAIN q : m > n => q[m] > d
<1>. DEFINE L == Len(q)
            P == {k \in 0 .. L - 1 : q[k + 1] <= d}
<1>1. L \in Nat /\ L >= 1 /\ DOMAIN q = 1 .. L /\ \A i \in 1 .. L : q[i] \in Nat
    BY EmptySeq DEF Increasing
<1>. SUFFICES ASSUME ~ \E n \in DOMAIN q : q[n] <= d /\ \A m \in DOMAIN q : m > n => q[m] > d
              PROVE  FALSE
    OBVIOUS
<1>2. 0 \in P /\ P \subseteq 0 .. L - 1 /\ L - 1 \in Nat
    BY <1>1 DEF Increasing
<1>3. ASSUME NEW k \in 1 .. L - 1, k - 1 \in P
      PROVE  k \in P
    <2>1. k \in DOMAIN q /\ q[k] <= d
        BY <1>1, <1>3
    <2>2. PICK m \in DOMAIN q : m > k /\ ~ (q[m] > d)
        BY <2>1
    <2>3. m = k + 1 \/ m > k + 1
        BY <1>1, <2>2
    <2>4. m > k + 1 => q[k + 1] < q[m]
        BY <1>1, <2>2 DEF Increasing
    <2>. QED
        BY <1>1, <2>2, <2>3, <2>4
<1>4. L - 1 \in P
    <2>. HIDE DEF P, L
    <2>1. \A k \in 0 .. L - 1 : k \in P
        BY <1>2, <1>3, CountUp
    <2>. QED
        BY <1>2, <2>1
<1>5. q[L] <= d
    BY <1>1, <1>4
<1>. QED
    BY <1>1, <1>5

LEMMA MeasuredLexes ==
    ASSUME NEW S, NEW s \in Lexing(S), s.mode = "measure"
    PROVE  LET r == Measured(s)
           IN  /\ r \in LexType(S) /\ r.mode \in {"measure", "error"}
               /\ Increasing(r.indents) /\ AtLevel(r.tokens, Len(r.indents) - 1) /\ InLines(r.tokens)
               /\ r.mode = "error" => r = Failed
<1>. DEFINE W == S \cup LayoutTokens
            q == s.indents
            d == s.indent
            L == Len(q)
<1>1. /\ s \in LexType(S) /\ q \in Seq(Nat) /\ d \in Nat /\ s.tokens \in Seq(W)
      /\ Increasing(q) /\ AtLevel(s.tokens, L - 1) /\ InLines(s.tokens)
      /\ s.tokens = <<>> \/ Last(s.tokens) = "NEWLINE"
    BY DEF Lexing, LexInv, LexType, Within
<1>2. L \in Nat /\ L >= 1 /\ DOMAIN q = 1 .. L /\ \A i \in 1 .. L : q[i] \in Nat
    BY <1>1, EmptySeq DEF Increasing
<1>3. Last(q) = q[L] /\ q[L] \in Nat
    BY <1>2 DEF Last
<1>4. q[1] = 0 /\ \A i, j \in 1 .. L : i < j => q[i] < q[j]
    BY <1>1, <1>2 DEF Increasing
<1>5. "INDENT" \in W /\ "DEDENT" \in W
    BY DEF LayoutTokens
<1>6. CASE d > Last(q)
    <2>. DEFINE r == [s EXCEPT !.indents = Append(@, d), !.tokens = Append(@, "INDENT")]
                more == Append(q, d)
    <2>1. Measured(s) = r
        BY <1>6 DEF Measured
    <2>2. /\ more \in Seq(Nat) /\ Len(more) = L + 1 /\ more[L + 1] = d
          /\ \A i \in 1 .. L : more[i] = q[i]
        BY <1>1, AppendProperties
    <2>3. Append(s.tokens, "INDENT") \in Seq(W)
        BY <1>1, <1>5, AppendProperties
    <2>4. r \in LexType(S) /\ r.mode = "measure" /\ r.indents = more /\ r.tokens = Append(s.tokens, "INDENT")
        BY <1>1, <2>2, <2>3 DEF LexType
    <2>. HIDE DEF more, r
    <2>5. Increasing(more)
        <3>1. more # <<>> /\ more[1] = 0 /\ DOMAIN more = 1 .. L + 1
            BY <1>1, <1>2, <2>2, EmptySeq DEF Increasing
        <3>2. ASSUME NEW i \in 1 .. L + 1, NEW j \in 1 .. L + 1, i < j
              PROVE  more[i] < more[j]
            <4>1. i \in 1 .. L /\ more[i] = q[i]
                BY <1>2, <2>2, <3>2
            <4>2. CASE j = L + 1
                <5>1. q[i] <= q[L]
                    BY <1>2, <1>4, <4>1
                <5>. QED
                    BY <1>2, <1>3, <1>6, <2>2, <4>1, <4>2, <5>1
            <4>3. CASE j # L + 1
                <5>1. j \in 1 .. L /\ more[j] = q[j]
                    BY <1>2, <2>2, <4>3
                <5>. QED
                    BY <1>1, <1>2, <3>2, <4>1, <5>1 DEF Increasing
            <4>. QED
                BY <4>2, <4>3
        <3>. QED
            BY <3>1, <3>2 DEF Increasing
    <2>6. AtLevel(Append(s.tokens, "INDENT"), L)
        <3>1. L - 1 \in Nat /\ Change("INDENT") = 1 /\ L - 1 + 1 = L
            BY <1>2 DEF Change
        <3>2. L - 1 + Change("INDENT") = L
            BY <1>2, <3>1
        <3>3. AtLevel(Append(s.tokens, "INDENT"), L - 1 + Change("INDENT"))
            <4>. HIDE DEF W, L
            <4>. QED
                BY <1>1, <1>2, <1>5, <3>1, <3>2, AppendLevel
        <3>. QED
            BY <3>2, <3>3
    <2>7. InLines(Append(s.tokens, "INDENT"))
        <3>. HIDE DEF W
        <3>. QED
            BY <1>1, <1>5, AppendLines
    <2>8. Len(more) - 1 = L
        BY <1>2, <2>2
    <2>. QED
        BY <2>1, <2>4, <2>5, <2>6, <2>7, <2>8
<1>7. CASE ~ (d > Last(q))
    <2>. DEFINE Kept(n) == q[n] <= d /\ \A m \in DOMAIN q : m > n => q[m] > d
                n == CHOOSE n \in DOMAIN q : Kept(n)
                kept == SubSeq(q, 1, n)
                r == [s EXCEPT !.indents = kept, !.tokens = @ \o Repeat("DEDENT", L - Len(kept))]
    <2>1. n \in DOMAIN q /\ Kept(n)
        <3>1. \E k \in DOMAIN q : Kept(k)
            BY <1>1, Innermost
        <3>. HIDE DEF Kept
        <3>. QED
            BY <3>1
    <2>2. Measured(s) = IF d # Last(kept) THEN Failed ELSE r
        BY <1>7 DEF Measured
    <2>. HIDE DEF n
    <2>3. /\ kept \in Seq(Nat) /\ Len(kept) = n /\ n \in 1 .. L
          /\ \A i \in 1 .. n : kept[i] = q[i]
        BY <1>1, <1>2, <2>1, SubSeqProperties
    <2>. HIDE DEF kept
    <2>4. Increasing(kept)
        <3>1. kept # <<>> /\ kept[1] = 0 /\ DOMAIN kept = 1 .. n
            BY <1>2, <1>4, <2>3, EmptySeq
        <3>2. \A i, j \in 1 .. n : i < j => kept[i] < kept[j]
            BY <1>2, <1>4, <2>3
        <3>. QED
            BY <3>1, <3>2 DEF Increasing
    <2>. DEFINE tokens == s.tokens \o Repeat("DEDENT", L - n)
    <2>5. tokens \in Seq(W) /\ AtLevel(tokens, L - 1 - (L - n)) /\ InLines(tokens)
        <3>1. L - n \in 0 .. L - 1 /\ L - 1 \in Nat
            BY <1>2, <2>3
        <3>. HIDE DEF W, L
        <3>. QED
            BY <1>1, <1>5, <3>1, Dedents
    <2>6. L - 1 - (L - n) = n - 1
        BY <1>2, <2>3
    <2>7. r.tokens = tokens /\ r.indents = kept /\ r.mode = "measure" /\ r \in LexType(S)
        BY <1>1, <2>3, <2>5 DEF LexType
    <2>. HIDE DEF tokens, r
    <2>8. CASE d # Last(kept)
        <3>1. Measured(s) = Failed /\ Failed.mode = "error"
            BY <2>2, <2>8 DEF Failed, Start
        <3>. QED
            BY <3>1, StartLexing DEF Lexing, LexInv
    <2>9. CASE d = Last(kept)
        BY <2>2, <2>3, <2>4, <2>5, <2>6, <2>7, <2>9
    <2>. QED
        BY <2>8, <2>9
<1>. QED
    BY <1>6, <1>7

(* One more bracket.                                                       *)
LEMMA BracketIs ==
    \A c, d : Bracket(c, d) = IF c \in Opening THEN d + 1
                              ELSE IF c \in Closing /\ d > 0 THEN d - 1 ELSE d
<1>. SUFFICES ASSUME NEW c, NEW d
              PROVE  Bracket(c, d) = IF c \in Opening THEN d + 1
                                     ELSE IF c \in Closing /\ d > 0 THEN d - 1 ELSE d
    OBVIOUS
<1>1. c \in Opening => c \notin Closing
    BY DEF Opening, Closing
<1>2. CASE c \in Opening
    BY <1>1, <1>2 DEF Bracket
<1>3. CASE c \notin Opening /\ c \in Closing /\ d > 0
    BY <1>3 DEF Bracket
<1>4. CASE c \notin Opening /\ ~ (c \in Closing /\ d > 0)
    BY <1>4 DEF Bracket
<1>. QED
    BY <1>2, <1>3, <1>4

LEMMA TokenLexes ==
    ASSUME NEW S, Apart(S), NEW s \in LexType(S), Increasing(s.indents),
           AtLevel(s.tokens, Len(s.indents) - 1), InLines(s.tokens),
           s.mode = "error" => s \in Lexing(S), NEW c \in S
    PROVE  Token(s, c) \in Lexing(S)
<1>. DEFINE W == S \cup LayoutTokens
            r == Token(s, c)
            more == Append(s.tokens, c)
<1>1. CASE s.mode = "error"
    BY <1>1 DEF Token
<1>2. CASE s.mode # "error"
    <2>1. c \notin LayoutTokens /\ c # "EOF" /\ c \in W /\ s.tokens \in Seq(W)
        BY DEF Apart, LexType
    <2>2. /\ more \in Seq(W) /\ Len(more) = Len(s.tokens) + 1 /\ more[Len(s.tokens) + 1] = c
          /\ Len(s.tokens) \in Nat
        BY <2>1, AppendProperties
    <2>3. more # <<>> /\ Last(more) = c
        BY <2>2, EmptySeq DEF Last
    <2>4. /\ r.mode = "scan" /\ r.tokens = more /\ r.indents = s.indents
          /\ r \in LexType(S)
        <3>1. r = [s EXCEPT !.mode = "scan", !.tokens = more, !.depth = Bracket(c, s.depth)]
            BY <1>2 DEF Token
        <3>2. Bracket(c, s.depth) \in Int
            <4>1. s.depth \in Int
                BY DEF LexType
            <4>. QED
                BY <4>1, BracketIs
        <3>. HIDE DEF more, r
        <3>. QED
            BY <2>2, <3>1, <3>2 DEF LexType, Modes
    <2>5. AtLevel(more, Len(s.indents) - 1)
        <3>1. Change(c) = 0
            BY <2>1 DEF Change, LayoutTokens
        <3>2. Len(s.indents) - 1 \in Nat
            BY EmptySeq DEF LexType, Increasing
        <3>3. Len(s.indents) - 1 + Change(c) = Len(s.indents) - 1
            BY <3>1, <3>2
        <3>. HIDE DEF W
        <3>. QED
            BY <2>1, <3>2, <3>3, AppendLevel
    <2>6. InLines(more)
        <3>. HIDE DEF W
        <3>. QED
            BY <2>1, AppendLines DEF LayoutTokens
    <2>. HIDE DEF r, more
    <2>. QED
        BY <2>1, <2>3, <2>4, <2>5, <2>6 DEF Lexing, LexInv, Within, r
<1>. QED
    BY <1>1, <1>2

(* A NEWLINE where a line that has a token ends.                           *)
LEMMA EndLineLexes ==
    ASSUME NEW W, "NEWLINE" \in W, NEW tokens \in Seq(W), NEW n \in Nat,
           AtLevel(tokens, n), InLines(tokens),
           \/ tokens # <<>> /\ Last(tokens) \notin LayoutTokens
           \/ tokens = <<>>
           \/ Last(tokens) = "NEWLINE"
    PROVE  LET more == EndLine(tokens)
           IN  /\ more \in Seq(W) /\ AtLevel(more, n) /\ InLines(more)
               /\ more = <<>> \/ Last(more) = "NEWLINE"
<1>1. CASE tokens = <<>> \/ Last(tokens) = "NEWLINE"
    BY <1>1 DEF EndLine
<1>2. CASE tokens # <<>> /\ Last(tokens) # "NEWLINE"
    <2>. DEFINE more == Append(tokens, "NEWLINE")
    <2>1. EndLine(tokens) = more
        BY <1>2 DEF EndLine
    <2>2. more \in Seq(W) /\ Last(more) = "NEWLINE"
        BY AppendProperties DEF Last
    <2>3. Change("NEWLINE") = 0 /\ n + 0 = n
        BY DEF Change
    <2>4. AtLevel(more, n)
        BY <2>3, AppendLevel
    <2>5. Last(tokens) \notin LayoutTokens
        BY <1>2
    <2>6. InLines(more)
        BY <1>2, <2>5, AppendLines
    <2>. QED
        BY <2>1, <2>2, <2>4, <2>6
<1>. QED
    BY <1>1, <1>2

LEMMA LineEndLexes ==
    ASSUME NEW S, NEW s \in LexType(S), Increasing(s.indents),
           AtLevel(s.tokens, Len(s.indents) - 1), InLines(s.tokens),
           s.back = "measure" => s.tokens = <<>> \/ Last(s.tokens) = "NEWLINE",
           s.back = "scan" => s.tokens # <<>> /\ Last(s.tokens) \notin LayoutTokens
    PROVE  LineEnd(s) \in Lexing(S)
<1>. DEFINE W == S \cup LayoutTokens
            r == LineEnd(s)
<1>1. /\ s.tokens \in Seq(W) /\ "NEWLINE" \in W /\ s.back \in {"measure", "scan"}
      /\ Len(s.indents) - 1 \in Nat
    BY EmptySeq DEF LexType, LayoutTokens, Increasing
<1>2. CASE s.back = "scan" /\ s.depth > 0
    <2>1. r = [s EXCEPT !.mode = "scan"]
        BY <1>2 DEF LineEnd
    <2>2. r \in LexType(S) /\ r.mode = "scan" /\ r.tokens = s.tokens /\ r.indents = s.indents
        BY <2>1 DEF LexType, Modes
    <2>. HIDE DEF r
    <2>. QED
        BY <1>2, <2>2 DEF Lexing, LexInv, Within, r
<1>3. CASE ~ (s.back = "scan" /\ s.depth > 0)
    <2>. DEFINE more == IF s.back = "scan" THEN EndLine(s.tokens) ELSE s.tokens
    <2>1. r = [s EXCEPT !.mode = "measure", !.indent = 0, !.tokens = more]
        BY <1>3 DEF LineEnd
    <2>2. /\ more \in Seq(W) /\ AtLevel(more, Len(s.indents) - 1) /\ InLines(more)
          /\ more = <<>> \/ Last(more) = "NEWLINE"
        <3>1. CASE s.back = "scan"
            <4>. HIDE DEF W
            <4>. QED
                BY <1>1, <3>1, EndLineLexes
        <3>2. CASE s.back = "measure"
            BY <1>1, <3>2
        <3>. QED
            BY <1>1, <3>1, <3>2
    <2>. HIDE DEF more
    <2>. HIDE DEF r
    <2>3. r \in LexType(S) /\ r.mode = "measure" /\ r.tokens = more /\ r.indents = s.indents
        BY <1>1, <2>1, <2>2 DEF LexType, Modes
    <2>. QED
        BY <2>2, <2>3 DEF Lexing, LexInv, Within, r
<1>. QED
    BY <1>2, <1>3

(* Only the mode, the indentation and what a comment interrupts change.    *)
LEMMA ModeLexes ==
    ASSUME NEW S, NEW s \in Lexing(S), NEW r \in LexType(S),
           r.tokens = s.tokens, r.indents = s.indents, Within(r) = Within(s)
    PROVE  r \in Lexing(S)
BY DEF Lexing, LexInv

LEMMA ScanLexes ==
    ASSUME NEW S, Apart(S), NEW s \in Lexing(S), NEW c, c \in S \/ c = "\n",
           s.mode \in {"measure", "scan"}
    PROVE  Scan(s, c) \in Lexing(S)
<1>. DEFINE r == Scan(s, c)
<1>1. /\ s \in LexType(S) /\ s.mode \in Modes /\ s.back \in {"measure", "scan"} /\ s.indent \in Nat
      /\ Increasing(s.indents) /\ AtLevel(s.tokens, Len(s.indents) - 1) /\ InLines(s.tokens)
      /\ Within(s) = "measure" => s.tokens = <<>> \/ Last(s.tokens) = "NEWLINE"
      /\ Within(s) = "scan" => s.tokens # <<>> /\ Last(s.tokens) \notin LayoutTokens
    BY DEF Lexing, LexInv, LexType
<1>2. Within(s) = s.mode
    BY DEF Within
<1>3. CASE c = "\n"
    <2>. DEFINE u == [s EXCEPT !.back = s.mode]
    <2>1. r = LineEnd(u)
        BY <1>3 DEF Scan, Tab, Strange
    <2>2. u \in LexType(S) /\ u.tokens = s.tokens /\ u.indents = s.indents /\ u.back = s.mode
        BY <1>1 DEF LexType
    <2>. HIDE DEF u
    <2>. QED
        BY <1>1, <1>2, <2>1, <2>2, LineEndLexes
<1>4. CASE c \in {"#", "#>"}
    <2>1. r = [s EXCEPT !.mode = "comment", !.back = s.mode]
        BY <1>4 DEF Scan, Tab, Strange
    <2>2. r \in LexType(S) /\ r.tokens = s.tokens /\ r.indents = s.indents /\ Within(r) = Within(s)
        BY <1>1, <2>1 DEF LexType, Modes, Within
    <2>. QED
        BY <2>2, ModeLexes
<1>5. CASE c = "<#"
    <2>1. r = [s EXCEPT !.mode = "block", !.back = s.mode]
        BY <1>5 DEF Scan, Tab, Strange
    <2>2. r \in LexType(S) /\ r.tokens = s.tokens /\ r.indents = s.indents /\ Within(r) = Within(s)
        BY <1>1, <2>1 DEF LexType, Modes, Within
    <2>. QED
        BY <2>2, ModeLexes
<1>6. CASE c = " "
    <2>1. r = [s EXCEPT !.indent = @ + 1]
        BY <1>6 DEF Scan, Tab, Strange
    <2>2. r \in LexType(S) /\ r.tokens = s.tokens /\ r.indents = s.indents /\ Within(r) = Within(s)
        BY <1>1, <2>1 DEF LexType, Modes, Within
    <2>. QED
        BY <2>2, ModeLexes
<1>7. CASE c = Tab
    BY <1>7, StartLexing DEF Scan, Tab, Strange
<1>8. CASE c = Strange
    BY <1>8, StartLexing DEF Scan, Tab, Strange
<1>9. CASE c \notin {"\n", "#", "#>", "<#", " ", Tab, Strange}
    <2>1. r = Token(IF s.mode = "measure" THEN Measured(s) ELSE s, c) /\ c \in S
        BY <1>9 DEF Scan, Tab, Strange
    <2>2. CASE s.mode = "measure"
        <3>. DEFINE u == Measured(s)
        <3>1. /\ u \in LexType(S) /\ Increasing(u.indents)
              /\ AtLevel(u.tokens, Len(u.indents) - 1) /\ InLines(u.tokens)
              /\ u.mode = "error" => u \in Lexing(S)
            BY <2>2, MeasuredLexes, StartLexing
        <3>. HIDE DEF u
        <3>2. Token(u, c) \in Lexing(S)
            BY <2>1, <3>1, TokenLexes
        <3>. QED
            BY <2>1, <2>2, <3>2 DEF u
    <2>3. CASE s.mode = "scan"
        <3>1. Token(s, c) \in Lexing(S)
            BY <1>1, <2>1, TokenLexes
        <3>. QED
            BY <2>1, <2>3, <3>1
    <2>. QED
        BY <2>2, <2>3
<1>. QED
    BY <1>3, <1>4, <1>5, <1>6, <1>7, <1>8, <1>9

LEMMA StepLexes ==
    ASSUME NEW S, Apart(S), NEW s \in Lexing(S), NEW c, c \in S \/ c = "\n"
    PROVE  Step(s, c) \in Lexing(S)
<1>. DEFINE r == Step(s, c)
<1>1. /\ s \in LexType(S) /\ s.mode \in Modes /\ s.back \in {"measure", "scan"} /\ s.indent \in Nat
      /\ Increasing(s.indents) /\ AtLevel(s.tokens, Len(s.indents) - 1) /\ InLines(s.tokens)
      /\ Within(s) = "measure" => s.tokens = <<>> \/ Last(s.tokens) = "NEWLINE"
      /\ Within(s) = "scan" => s.tokens # <<>> /\ Last(s.tokens) \notin LayoutTokens
    BY DEF Lexing, LexInv, LexType
<1>2. CASE s.mode = "error"
    BY <1>2 DEF Step
<1>3. CASE s.mode = "block"
    <2>1. CASE c = "#>"
        <3>1. r = [s EXCEPT !.mode = s.back, !.indent = 0]
            BY <1>3, <2>1 DEF Step
        <3>. HIDE DEF r
        <3>2. r \in LexType(S) /\ r.tokens = s.tokens /\ r.indents = s.indents /\ Within(r) = Within(s)
            BY <1>1, <1>3, <3>1 DEF LexType, Modes, Within
        <3>. QED
            BY <3>2, ModeLexes DEF r
    <2>2. CASE c # "#>"
        BY <1>3, <2>2 DEF Step
    <2>. QED
        BY <2>1, <2>2
<1>4. CASE s.mode = "comment"
    <2>1. CASE c = "\n"
        <3>1. r = LineEnd(s)
            BY <1>4, <2>1 DEF Step
        <3>. QED
            BY <1>1, <1>4, <3>1, LineEndLexes DEF Within
    <2>2. CASE c # "\n"
        BY <1>4, <2>2 DEF Step
    <2>. QED
        BY <2>1, <2>2
<1>5. CASE s.mode \in {"measure", "scan"}
    BY <1>5, ScanLexes DEF Step
<1>. QED
    BY <1>1, <1>2, <1>3, <1>4, <1>5 DEF Modes

----------------------------------------------------------------------------
(* A line, and a text.                                                     *)

(* The states that the lexer goes through along a line.                    *)
LEMMA LineRuns ==
    ASSUME NEW S, Apart(S), NEW s \in Lexing(S), NEW line \in Seq(S)
    PROVE  \E g \in [0 .. Len(line) -> Lexing(S)] :
              /\ g[0] = s /\ \A k \in 1 .. Len(line) : g[k] = Step(g[k - 1], line[k])
              /\ ScanLine(s, line) = IF s.mode = "error" THEN s ELSE Step(g[Len(line)], "\n")
<1>. DEFINE X == Lexing(S)
            n == Len(line)
            F == [p \in X \X (1 .. n) |-> Step(p[1], line[p[2]])]
            Scans(h) == h = [k \in 0 .. n |-> IF k = 0 THEN s ELSE Step(h[k - 1], line[k])]
            after == CHOOSE h : Scans(h)
<1>1. n \in Nat /\ \A k \in 1 .. n : line[k] \in S
    OBVIOUS
<1>2. \A x \in X, k \in 1 .. n : Step(x, line[k]) \in X
    <2>. HIDE DEF X
    <2>. SUFFICES ASSUME NEW x \in X, NEW k \in 1 .. n PROVE Step(x, line[k]) \in X
        OBVIOUS
    <2>1. line[k] \in S
        BY <1>1
    <2>2. x \in Lexing(S)
        BY DEF X
    <2>. QED
        BY <2>1, <2>2, StepLexes DEF X
<1>. HIDE DEF X
<1>3. F \in [X \X (1 .. n) -> X]
    BY <1>2
<1>4. \A x \in X, k \in 1 .. n : F[<<x, k>>] = Step(x, line[k])
    OBVIOUS
<1>. HIDE DEF F
<1>5. s \in X
    BY DEF X
<1>6. PICK g \in [0 .. n -> X] : Counts(g, s, F, n)
    BY <1>1, <1>3, <1>5, Recursion
<1>7. Scans(g)
    <2>1. ASSUME NEW k \in 0 .. n
          PROVE  g[k] = IF k = 0 THEN s ELSE Step(g[k - 1], line[k])
        <3>1. CASE k = 0
            BY <1>6, <3>1 DEF Counts
        <3>2. CASE k # 0
            <4>. HIDE DEF n
            <4>1. k \in 1 .. n /\ g[k - 1] \in X
                BY <1>1, <3>2
            <4>. QED
                BY <1>4, <1>6, <3>2, <4>1 DEF Counts
        <3>. QED
            BY <3>1, <3>2
    <2>2. DOMAIN g = 0 .. n
        OBVIOUS
    <2>. QED
        BY <2>1, <2>2
<1>8. Scans(after)
    <2>. HIDE DEF Scans
    <2>. QED
        BY <1>7
<1>. HIDE DEF after
<1>9. \A k \in 0 .. n : after[k] = g[k]
    <2>1. after[0] = g[0]
        BY <1>1, <1>7, <1>8
    <2>2. ASSUME NEW k \in 1 .. n, after[k - 1] = g[k - 1]
          PROVE  after[k] = g[k]
        <3>1. k \in 0 .. n /\ k # 0
            BY <1>1
        <3>2. after[k] = Step(after[k - 1], line[k]) /\ g[k] = Step(g[k - 1], line[k])
            BY <1>7, <1>8, <3>1
        <3>. QED
            BY <2>2, <3>2
    <2>3. Alike(n, after, g)
        BY <2>2 DEF Alike
    <2>. HIDE DEF n
    <2>. QED
        BY <1>1, <2>1, <2>3, Unique
<1>10. after[n] = g[n]
    BY <1>1, <1>9
<1>11. ScanLine(s, line) = IF s.mode = "error" THEN s ELSE Step(after[n], "\n")
    BY DEF ScanLine, after
<1>12. g[0] = s /\ \A k \in 1 .. n : g[k] = Step(g[k - 1], line[k])
    <2>1. 0 \in 0 .. n /\ g[0] = s
        BY <1>1, <1>7
    <2>2. ASSUME NEW k \in 1 .. n
          PROVE  g[k] = Step(g[k - 1], line[k])
        <3>1. k \in 0 .. n /\ k # 0
            BY <1>1
        <3>. QED
            BY <1>7, <3>1
    <2>. QED
        BY <2>1, <2>2
<1>. QED
    BY <1>10, <1>11, <1>12 DEF X

LEMMA ScanLineLexes ==
    ASSUME NEW S, Apart(S), NEW s \in Lexing(S), NEW line \in Seq(S)
    PROVE  ScanLine(s, line) \in Lexing(S)
<1>1. PICK g \in [0 .. Len(line) -> Lexing(S)] :
          ScanLine(s, line) = IF s.mode = "error" THEN s ELSE Step(g[Len(line)], "\n")
    BY LineRuns
<1>2. g[Len(line)] \in Lexing(S)
    OBVIOUS
<1>. QED
    BY <1>1, <1>2, StepLexes

(* The states that the lexer goes through along a text, and its tokens.    *)
TokensAt(s) ==
    IF s.mode \in {"error", "block"} THEN Rejected
    ELSE EndLine(s.tokens) \o Repeat("DEDENT", Len(s.indents) - 1) \o <<"EOF">>

LEMMA TextRuns ==
    ASSUME NEW S, Apart(S), NEW text \in Seq(Seq(S))
    PROVE  \E g \in [0 .. Len(text) -> Lexing(S)] :
              /\ g[0] = Start /\ \A k \in 1 .. Len(text) : g[k] = ScanLine(g[k - 1], text[k])
              /\ Tokenize(text) = TokensAt(g[Len(text)])
<1>. DEFINE X == Lexing(S)
            n == Len(text)
            F == [p \in X \X (1 .. n) |-> ScanLine(p[1], text[p[2]])]
            Scans(h) == h = [k \in 0 .. n |-> IF k = 0 THEN Start ELSE ScanLine(h[k - 1], text[k])]
            after == CHOOSE h : Scans(h)
<1>1. n \in Nat /\ \A k \in 1 .. n : text[k] \in Seq(S)
    OBVIOUS
<1>2. \A x \in X, k \in 1 .. n : ScanLine(x, text[k]) \in X
    <2>. HIDE DEF X
    <2>. SUFFICES ASSUME NEW x \in X, NEW k \in 1 .. n PROVE ScanLine(x, text[k]) \in X
        OBVIOUS
    <2>1. text[k] \in Seq(S)
        BY <1>1
    <2>2. x \in Lexing(S)
        BY DEF X
    <2>. QED
        BY <2>1, <2>2, ScanLineLexes DEF X
<1>. HIDE DEF X
<1>3. F \in [X \X (1 .. n) -> X]
    BY <1>2
<1>4. \A x \in X, k \in 1 .. n : F[<<x, k>>] = ScanLine(x, text[k])
    OBVIOUS
<1>. HIDE DEF F
<1>5. Start \in X
    BY StartLexing DEF X
<1>6. PICK g \in [0 .. n -> X] : Counts(g, Start, F, n)
    BY <1>1, <1>3, <1>5, Recursion
<1>7. Scans(g)
    <2>1. ASSUME NEW k \in 0 .. n
          PROVE  g[k] = IF k = 0 THEN Start ELSE ScanLine(g[k - 1], text[k])
        <3>1. CASE k = 0
            BY <1>6, <3>1 DEF Counts
        <3>2. CASE k # 0
            <4>. HIDE DEF n
            <4>1. k \in 1 .. n /\ g[k - 1] \in X
                BY <1>1, <3>2
            <4>. QED
                BY <1>4, <1>6, <3>2, <4>1 DEF Counts
        <3>. QED
            BY <3>1, <3>2
    <2>2. DOMAIN g = 0 .. n
        OBVIOUS
    <2>. QED
        BY <2>1, <2>2
<1>8. Scans(after)
    <2>. HIDE DEF Scans
    <2>. QED
        BY <1>7
<1>. HIDE DEF after
<1>9. \A k \in 0 .. n : after[k] = g[k]
    <2>1. after[0] = g[0]
        BY <1>1, <1>7, <1>8
    <2>2. ASSUME NEW k \in 1 .. n, after[k - 1] = g[k - 1]
          PROVE  after[k] = g[k]
        <3>1. k \in 0 .. n /\ k # 0
            BY <1>1
        <3>2. after[k] = ScanLine(after[k - 1], text[k]) /\ g[k] = ScanLine(g[k - 1], text[k])
            BY <1>7, <1>8, <3>1
        <3>. QED
            BY <2>2, <3>2
    <2>3. Alike(n, after, g)
        BY <2>2 DEF Alike
    <2>. HIDE DEF n
    <2>. QED
        BY <1>1, <2>1, <2>3, Unique
<1>10. after[n] = g[n]
    BY <1>1, <1>9
<1>11. Tokenize(text) = TokensAt(after[n])
    BY DEF Tokenize, TokensAt, after
<1>12. g[0] = Start /\ \A k \in 1 .. n : g[k] = ScanLine(g[k - 1], text[k])
    <2>1. 0 \in 0 .. n /\ g[0] = Start
        BY <1>1, <1>7
    <2>2. ASSUME NEW k \in 1 .. n
          PROVE  g[k] = ScanLine(g[k - 1], text[k])
        <3>1. k \in 0 .. n /\ k # 0
            BY <1>1
        <3>. QED
            BY <1>7, <3>1
    <2>. QED
        BY <2>1, <2>2
<1>. QED
    BY <1>10, <1>11, <1>12 DEF X

(* The depth that a level function says is the depth there is.             *)
LEMMA DepthIsLevel ==
    ASSUME NEW W, NEW tokens \in Seq(W), NEW n \in Nat, AtLevel(tokens, n)
    PROVE  /\ \A i \in DOMAIN tokens : DepthAt(tokens)[i] \in Nat
           /\ DepthAt(tokens)[Len(tokens)] = n
<1>. DEFINE m == Len(tokens)
            Counted(h) == h = [i \in 0 .. m |-> IF i = 0 THEN 0 ELSE h[i - 1] + Change(tokens[i])]
            level == CHOOSE h : Counted(h)
<1>1. m \in Nat /\ DOMAIN tokens = 1 .. m
    OBVIOUS
<1>2. PICK g \in [0 .. m -> Nat] : Opens(g, tokens) /\ g[m] = n
    BY DEF AtLevel
<1>3. Counted(g)
    <2>1. \A i \in 0 .. m : g[i] = IF i = 0 THEN 0 ELSE g[i - 1] + Change(tokens[i])
        BY <1>1, <1>2 DEF Opens
    <2>. QED
        BY <2>1
<1>4. Counted(level)
    <2>. HIDE DEF Counted
    <2>. QED
        BY <1>3
<1>. HIDE DEF level
<1>5. \A i \in 0 .. m : level[i] = g[i]
    <2>1. level[0] = g[0]
        BY <1>1, <1>3, <1>4
    <2>2. ASSUME NEW i \in 1 .. m, level[i - 1] = g[i - 1]
          PROVE  level[i] = g[i]
        <3>1. i \in 0 .. m /\ i # 0
            BY <1>1
        <3>2. level[i] = level[i - 1] + Change(tokens[i]) /\ g[i] = g[i - 1] + Change(tokens[i])
            BY <1>3, <1>4, <3>1
        <3>. QED
            BY <2>2, <3>2
    <2>3. m \in Nat
        BY <1>1
    <2>4. Alike(m, level, g)
        BY <2>2 DEF Alike
    <2>. HIDE DEF m, Counted
    <2>. QED
        BY <2>1, <2>3, <2>4, Unique
<1>6. DepthAt(tokens) = level
    BY DEF DepthAt, level
<1>. QED
    BY <1>1, <1>2, <1>5, <1>6

(* The lexer's tokens are well formed, for every text: INDENT and DEDENT   *)
(* nest and every INDENT is closed, a NEWLINE ends a line that has a       *)
(* token, and EOF is the end.                                              *)
THEOREM TokensAreWellFormed ==
    ASSUME NEW S, Apart(S), NEW text \in Seq(Seq(S))
    PROVE  Tokenize(text) # Rejected => WellFormed(Tokenize(text))
<1>. DEFINE W == S \cup LayoutTokens
            U == W \cup {"EOF"}
<1>. SUFFICES ASSUME Tokenize(text) # Rejected PROVE WellFormed(Tokenize(text))
    OBVIOUS
<1>1. PICK s \in Lexing(S) :
          /\ s.mode \notin {"error", "block"}
          /\ Tokenize(text) = EndLine(s.tokens) \o Repeat("DEDENT", Len(s.indents) - 1) \o <<"EOF">>
    <2>1. PICK g \in [0 .. Len(text) -> Lexing(S)] : Tokenize(text) = TokensAt(g[Len(text)])
        BY TextRuns
    <2>2. g[Len(text)] \in Lexing(S)
        OBVIOUS
    <2>. QED
        BY <2>1, <2>2 DEF TokensAt
<1>. DEFINE n == Len(s.indents) - 1
            lines == EndLine(s.tokens)
            closed == lines \o Repeat("DEDENT", n)
<1>2. /\ s.tokens \in Seq(W) /\ "NEWLINE" \in W /\ "DEDENT" \in W /\ "EOF" \notin W /\ n \in Nat
      /\ AtLevel(s.tokens, n) /\ InLines(s.tokens)
      /\ \/ s.tokens # <<>> /\ Last(s.tokens) \notin LayoutTokens
         \/ s.tokens = <<>>
         \/ Last(s.tokens) = "NEWLINE"
    <2>1. s \in LexType(S) /\ LexInv(s)
        BY DEF Lexing
    <2>2. Within(s) \in {"measure", "scan"}
        BY <1>1, <2>1 DEF LexType, Modes, Within
    <2>3. n \in Nat
        BY <2>1, EmptySeq DEF LexType, LexInv, Increasing
    <2>4. "EOF" \notin W
        BY DEF Apart, LayoutTokens
    <2>. QED
        BY <2>1, <2>2, <2>3, <2>4 DEF LexType, LexInv, LayoutTokens
<1>. HIDE DEF W, n
<1>3. /\ lines \in Seq(W) /\ AtLevel(lines, n) /\ InLines(lines)
      /\ lines = <<>> \/ Last(lines) = "NEWLINE"
    BY <1>2, EndLineLexes
<1>. HIDE DEF lines
<1>4. /\ closed \in Seq(W) /\ AtLevel(closed, n - n) /\ InLines(closed)
      /\ closed = <<>> \/ Last(closed) \in {"NEWLINE", "DEDENT"}
    <2>1. n \in 0 .. n
        BY <1>2
    <2>. QED
        BY <1>2, <1>3, <2>1, Dedents
<1>5. n - n = 0
    BY <1>2
<1>6. Tokenize(text) = closed \o <<"EOF">>
    BY <1>1 DEF lines, n
<1>. HIDE DEF closed
<1>. DEFINE all == Append(closed, "EOF")
            m == Len(closed)
<1>7. Tokenize(text) = all
    BY <1>4, <1>6, AppendIsConcat
<1>8. closed \in Seq(U) /\ "EOF" \in U /\ m \in Nat
    <2>1. \A i \in 1 .. Len(closed) : closed[i] \in U
        BY <1>4, ElementOfSeq
    <2>. QED
        BY <1>4, <2>1
<1>. HIDE DEF U
<1>9. AtLevel(all, 0) /\ InLines(all) /\ all \in Seq(U) /\ all # <<>>
    <2>1. Change("EOF") = 0 /\ 0 + Change("EOF") = 0
        BY DEF Change
    <2>2. AtLevel(all, 0 + Change("EOF"))
        BY <1>4, <1>5, <1>8, <2>1, AppendLevel
    <2>3. InLines(all)
        BY <1>4, <1>8, AppendLines
    <2>. QED
        BY <1>8, <2>1, <2>2, <2>3, AppendProperties, EmptySeq
<1>10. Nested(all)
    <2>. HIDE DEF all
    <2>1. /\ \A i \in DOMAIN all : DepthAt(all)[i] \in Nat
          /\ DepthAt(all)[Len(all)] = 0
        BY <1>9, DepthIsLevel
    <2>. QED
        BY <2>1 DEF Nested
<1>11. EndsOnce(all)
    <2>1. Len(all) = m + 1 /\ DOMAIN all = 1 .. m + 1 /\ all[m + 1] = "EOF"
          /\ \A i \in 1 .. m : all[i] = closed[i]
        BY <1>8, AppendProperties
    <2>2. \A i \in 1 .. m : closed[i] # "EOF"
        BY <1>2, <1>4, ElementOfSeq
    <2>3. \A i \in 1 .. m + 1 : i = m + 1 \/ i \in 1 .. m
        BY <1>8
    <2>. QED
        BY <1>8, <2>1, <2>2, <2>3 DEF EndsOnce
<1>. QED
    BY <1>7, <1>9, <1>10, <1>11 DEF WellFormed

----------------------------------------------------------------------------
(* The brackets that tokens leave open, and the depth of the lexer.        *)

(* The count of open brackets along the tokens.                            *)
BracketsAlong(g, tokens) ==
    g[0] = 0 /\ \A k \in 1 .. Len(tokens) : g[k] = Bracket(tokens[k], g[k - 1])

LEMMA BracketsRun ==
    ASSUME NEW W, NEW tokens \in Seq(W)
    PROVE  \E g \in [0 .. Len(tokens) -> Nat] :
              BracketsAlong(g, tokens) /\ OpenBrackets(tokens) = g[Len(tokens)]
<1>. DEFINE n == Len(tokens)
            F == [p \in Nat \X (1 .. n) |-> Bracket(tokens[p[2]], p[1])]
            Along(h) == h = [i \in 0 .. n |-> IF i = 0 THEN 0 ELSE Bracket(tokens[i], h[i - 1])]
            open == CHOOSE h : Along(h)
<1>1. n \in Nat
    OBVIOUS
<1>2. \A x \in Nat : \A t : Bracket(t, x) \in Nat
    BY BracketIs
<1>3. F \in [Nat \X (1 .. n) -> Nat] /\ \A x \in Nat, k \in 1 .. n : F[<<x, k>>] = Bracket(tokens[k], x)
    BY <1>2
<1>. HIDE DEF F
<1>4. PICK g \in [0 .. n -> Nat] : Counts(g, 0, F, n)
    BY <1>1, <1>3, Recursion
<1>5. BracketsAlong(g, tokens)
    <2>1. ASSUME NEW k \in 1 .. n
          PROVE  g[k] = Bracket(tokens[k], g[k - 1])
        <3>1. g[k - 1] \in Nat
            BY <1>1
        <3>. QED
            BY <1>3, <1>4, <3>1 DEF Counts
    <2>. QED
        BY <1>4, <2>1 DEF Counts, BracketsAlong
<1>6. Along(g)
    <2>1. \A k \in 0 .. n : g[k] = IF k = 0 THEN 0 ELSE Bracket(tokens[k], g[k - 1])
        BY <1>1, <1>5 DEF BracketsAlong
    <2>. QED
        BY <2>1
<1>7. Along(open)
    <2>. HIDE DEF Along
    <2>. QED
        BY <1>6
<1>. HIDE DEF open
<1>8. \A k \in 0 .. n : open[k] = g[k]
    <2>1. open[0] = g[0]
        BY <1>1, <1>6, <1>7
    <2>2. ASSUME NEW k \in 1 .. n, open[k - 1] = g[k - 1]
          PROVE  open[k] = g[k]
        <3>1. k \in 0 .. n /\ k # 0
            BY <1>1
        <3>2. open[k] = Bracket(tokens[k], open[k - 1]) /\ g[k] = Bracket(tokens[k], g[k - 1])
            BY <1>6, <1>7, <3>1
        <3>. QED
            BY <2>2, <3>2
    <2>3. Alike(n, open, g)
        BY <2>2 DEF Alike
    <2>. HIDE DEF n
    <2>. QED
        BY <1>1, <2>1, <2>3, Unique
<1>9. OpenBrackets(tokens) = open[n]
    BY DEF OpenBrackets, open
<1>. QED
    BY <1>1, <1>5, <1>8, <1>9

(* Tokens that are no brackets open none.                                  *)
Plain(t) == t \notin Opening /\ t \notin Closing

LEMMA PlainBrackets ==
    ASSUME NEW W, NEW tokens \in Seq(W), NEW rest \in Seq(W),
           \A k \in 1 .. Len(rest) : Plain(rest[k])
    PROVE  OpenBrackets(tokens \o rest) = OpenBrackets(tokens)
<1>. DEFINE more == tokens \o rest
<1>0. PICK m \in Nat, n \in Nat : m = Len(tokens) /\ n = m + Len(rest) /\ m <= n
    OBVIOUS
<1>1. /\ more \in Seq(W) /\ Len(more) = n
      /\ \A k \in 1 .. m : more[k] = tokens[k]
      /\ \A k \in 1 .. n : k > m => Plain(more[k])
    BY <1>0, ConcatProperties
<1>2. PICK g : BracketsAlong(g, tokens) /\ OpenBrackets(tokens) = g[m]
    BY <1>0, BracketsRun
<1>3. PICK h : BracketsAlong(h, more) /\ OpenBrackets(more) = h[n]
    <2>. HIDE DEF more
    <2>. QED
        BY <1>1, BracketsRun
<1>. HIDE DEF more
<1>4. PICK f : \A k \in 0 .. n : f[k] = IF k <= m THEN g[k] ELSE g[m]
    <2>. DEFINE e == [k \in 0 .. n |-> IF k <= m THEN g[k] ELSE g[m]]
    <2>1. \A k \in 0 .. n : e[k] = IF k <= m THEN g[k] ELSE g[m]
        OBVIOUS
    <2>. HIDE DEF e
    <2>. QED
        BY <2>1
<1>5. f[0] = h[0]
    <2>1. 0 \in 0 .. n /\ 0 <= m /\ f[0] = g[0]
        BY <1>4
    <2>. QED
        BY <1>2, <1>3, <2>1 DEF BracketsAlong
<1>6. f[n] = g[m]
    BY <1>0, <1>4
<1>7. ASSUME NEW k \in 1 .. n, f[k - 1] = h[k - 1]
      PROVE  f[k] = h[k]
    <2>1. h[k] = Bracket(more[k], h[k - 1])
        BY <1>1, <1>3 DEF BracketsAlong
    <2>2. CASE k <= m
        <3>1. k \in 1 .. m /\ f[k] = g[k] /\ f[k - 1] = g[k - 1]
            BY <1>4, <2>2
        <3>2. g[k] = Bracket(tokens[k], g[k - 1])
            BY <1>0, <1>2, <3>1 DEF BracketsAlong
        <3>. QED
            BY <1>1, <1>7, <2>1, <3>1, <3>2
    <2>3. CASE k > m
        <3>1. f[k] = g[m] /\ f[k - 1] = g[m]
            BY <1>4, <2>3
        <3>2. Bracket(more[k], h[k - 1]) = h[k - 1]
            BY <1>1, <2>3, BracketIs DEF Plain
        <3>. QED
            BY <1>7, <2>1, <3>1, <3>2
    <2>. QED
        BY <2>2, <2>3
<1>8. \A k \in 0 .. n : f[k] = h[k]
    <2>1. Alike(n, f, h)
        BY <1>7 DEF Alike
    <2>2. n \in Nat
        BY <1>1
    <2>. QED
        BY <1>5, <2>1, <2>2, Unique
<1>. QED
    BY <1>2, <1>3, <1>6, <1>8 DEF more

LEMMA AppendBracket ==
    ASSUME NEW W, NEW tokens \in Seq(W), NEW t \in W
    PROVE  /\ OpenBrackets(tokens) \in Nat
           /\ OpenBrackets(Append(tokens, t)) = Bracket(t, OpenBrackets(tokens))
<1>. DEFINE m == Len(tokens)
            more == Append(tokens, t)
<1>1. /\ m \in Nat /\ more \in Seq(W) /\ Len(more) = m + 1 /\ more[m + 1] = t
      /\ \A k \in 1 .. m : more[k] = tokens[k]
    BY AppendProperties
<1>2. PICK g \in [0 .. m -> Nat] : BracketsAlong(g, tokens) /\ OpenBrackets(tokens) = g[m]
    BY BracketsRun
<1>3. PICK h : BracketsAlong(h, more) /\ OpenBrackets(more) = h[m + 1]
    <2>. HIDE DEF more
    <2>. QED
        BY <1>1, BracketsRun
<1>. HIDE DEF more
<1>4. g[0] = h[0]
    BY <1>2, <1>3 DEF BracketsAlong
<1>5. ASSUME NEW k \in 1 .. m, g[k - 1] = h[k - 1]
      PROVE  g[k] = h[k]
    <2>1. g[k] = Bracket(tokens[k], g[k - 1])
        BY <1>2 DEF BracketsAlong
    <2>2. k \in 1 .. m + 1 /\ h[k] = Bracket(more[k], h[k - 1])
        BY <1>1, <1>3 DEF BracketsAlong
    <2>. QED
        BY <1>1, <1>5, <2>1, <2>2
<1>6. g[m] = h[m]
    <2>1. m \in Nat
        BY <1>1
    <2>3. Alike(m, g, h)
        BY <1>5 DEF Alike
    <2>. HIDE DEF m
    <2>2. \A k \in 0 .. m : g[k] = h[k]
        BY <1>4, <2>1, <2>3, Unique
    <2>. QED
        BY <2>1, <2>2
<1>7. m + 1 \in 1 .. m + 1 /\ h[m + 1] = Bracket(more[m + 1], h[m])
    BY <1>1, <1>3 DEF BracketsAlong
<1>. QED
    BY <1>1, <1>2, <1>3, <1>6, <1>7 DEF more

LEMMA LayoutPlain == \A t \in LayoutTokens \cup {"EOF"} : Plain(t)
BY DEF LayoutTokens, Plain, Opening, Closing

LEMMA EmptyBrackets == OpenBrackets(<<>>) = 0
<1>1. <<>> \in Seq({}) /\ Len(<<>>) = 0
    BY EmptySeq
<1>2. PICK g : BracketsAlong(g, <<>>) /\ OpenBrackets(<<>>) = g[Len(<<>>)]
    BY <1>1, BracketsRun
<1>. QED
    BY <1>1, <1>2 DEF BracketsAlong

(* The depth of the lexer is what its tokens leave open.                   *)
Deep(s) == s.depth = OpenBrackets(s.tokens)

(* The levels that a line of indentation d leaves open.                    *)
Kept(q, d) ==
    SubSeq(q, 1, CHOOSE n \in DOMAIN q : q[n] <= d /\ \A m \in DOMAIN q : m > n => q[m] > d)

LEMMA KeptIs ==
    ASSUME NEW q \in Seq(Nat), Increasing(q), NEW d \in Nat
    PROVE  \E n \in 1 .. Len(q) :
              /\ Kept(q, d) = SubSeq(q, 1, n) /\ Len(Kept(q, d)) = n /\ Last(Kept(q, d)) = q[n]
              /\ q[n] <= d /\ \A m \in 1 .. Len(q) : m > n => q[m] > d
<1>. DEFINE Deepest(n) == q[n] <= d /\ \A m \in DOMAIN q : m > n => q[m] > d
            n == CHOOSE n \in DOMAIN q : Deepest(n)
<1>1. n \in DOMAIN q /\ Deepest(n)
    <2>1. \E k \in DOMAIN q : Deepest(k)
        BY Innermost
    <2>. HIDE DEF Deepest
    <2>. QED
        BY <2>1
<1>2. Kept(q, d) = SubSeq(q, 1, n)
    BY DEF Kept
<1>. HIDE DEF n
<1>3. n \in 1 .. Len(q) /\ Len(SubSeq(q, 1, n)) = n /\ SubSeq(q, 1, n)[n] = q[n]
    BY <1>1, SubSeqProperties
<1>4. Len(Kept(q, d)) = n /\ Last(Kept(q, d)) = q[n]
    BY <1>2, <1>3 DEF Last
<1>5. q[n] <= d /\ \A m \in 1 .. Len(q) : m > n => q[m] > d
    BY <1>1
<1>. QED
    BY <1>2, <1>3, <1>4, <1>5

LEMMA MeasuredKeeps ==
    ASSUME NEW s
    PROVE  Measured(s) = IF s.indent > Last(s.indents)
                         THEN [s EXCEPT !.indents = Append(@, s.indent), !.tokens = Append(@, "INDENT")]
                         ELSE IF s.indent # Last(Kept(s.indents, s.indent)) THEN Failed
                         ELSE [s EXCEPT !.indents = Kept(s.indents, s.indent),
                                        !.tokens = @ \o Repeat("DEDENT", Len(s.indents) - Len(Kept(s.indents, s.indent)))]
BY DEF Measured, Kept

(* A line opens a level, closes some, or is at none.                       *)
LEMMA MeasuredIs ==
    ASSUME NEW S, NEW s \in Lexing(S)
    PROVE  \/ Measured(s) = Failed
           \/ Measured(s) = [s EXCEPT !.indents = Append(@, s.indent), !.tokens = Append(@, "INDENT")]
           \/ \E n \in 1 .. Len(s.indents) :
                 Measured(s) = [s EXCEPT !.indents = SubSeq(s.indents, 1, n),
                                         !.tokens = @ \o Repeat("DEDENT", Len(s.indents) - n)]
<1>1. s.indents \in Seq(Nat) /\ Increasing(s.indents) /\ s.indent \in Nat
    BY DEF Lexing, LexInv, LexType
<1>2. PICK n \in 1 .. Len(s.indents) :
          Kept(s.indents, s.indent) = SubSeq(s.indents, 1, n) /\ Len(Kept(s.indents, s.indent)) = n
    BY <1>1, KeptIs
<1>. QED
    BY <1>2, MeasuredKeeps

LEMMA RepeatPlain ==
    ASSUME NEW W, "DEDENT" \in W, NEW k \in Nat
    PROVE  /\ Repeat("DEDENT", k) \in Seq(W) /\ Len(Repeat("DEDENT", k)) = k
           /\ \A i \in 1 .. Len(Repeat("DEDENT", k)) : Plain(Repeat("DEDENT", k)[i])
BY DEF Repeat, Plain, Opening, Closing

LEMMA MeasuredDeep ==
    ASSUME NEW S, NEW s \in Lexing(S), s.mode = "measure", Deep(s)
    PROVE  Deep(Measured(s))
<1>. DEFINE W == S \cup LayoutTokens
            r == Measured(s)
<1>1. s \in LexType(S) /\ s.tokens \in Seq(W) /\ "INDENT" \in W /\ "DEDENT" \in W
    BY DEF Lexing, LexType, LayoutTokens
<1>2. CASE r = Failed
    BY <1>2, EmptyBrackets DEF Deep, Failed, Start
<1>3. CASE r = [s EXCEPT !.indents = Append(@, s.indent), !.tokens = Append(@, "INDENT")]
    <2>1. r.tokens = Append(s.tokens, "INDENT") /\ r.depth = s.depth
        BY <1>1, <1>3 DEF LexType
    <2>2. OpenBrackets(Append(s.tokens, "INDENT")) = Bracket("INDENT", OpenBrackets(s.tokens))
        <3>. HIDE DEF W
        <3>. QED
            BY <1>1, AppendBracket
    <2>3. Bracket("INDENT", OpenBrackets(s.tokens)) = OpenBrackets(s.tokens)
        BY BracketIs DEF Opening, Closing
    <2>. QED
        BY <2>1, <2>2, <2>3 DEF Deep
<1>4. ASSUME NEW n \in 1 .. Len(s.indents),
             r = [s EXCEPT !.indents = SubSeq(s.indents, 1, n),
                           !.tokens = @ \o Repeat("DEDENT", Len(s.indents) - n)]
      PROVE  Deep(r)
    <2>. DEFINE rest == Repeat("DEDENT", Len(s.indents) - n)
    <2>1. r.tokens = s.tokens \o rest /\ r.depth = s.depth
        BY <1>1, <1>4 DEF LexType
    <2>2. rest \in Seq(W) /\ \A k \in 1 .. Len(rest) : Plain(rest[k])
        <3>1. Len(s.indents) - n \in Nat
            BY <1>1 DEF LexType
        <3>. HIDE DEF W
        <3>. QED
            BY <1>1, <3>1, RepeatPlain
    <2>. HIDE DEF rest, W
    <2>3. OpenBrackets(s.tokens \o rest) = OpenBrackets(s.tokens)
        BY <1>1, <2>2, PlainBrackets
    <2>. QED
        BY <2>1, <2>3 DEF Deep
<1>. QED
    BY <1>2, <1>3, <1>4, MeasuredIs

LEMMA TokenDeep ==
    ASSUME NEW S, NEW s \in LexType(S), NEW c \in S, Deep(s)
    PROVE  Deep(Token(s, c))
<1>1. CASE s.mode = "error"
    BY <1>1 DEF Token
<1>2. CASE s.mode # "error"
    <2>1. Token(s, c) = [s EXCEPT !.mode = "scan", !.tokens = Append(@, c), !.depth = Bracket(c, @)]
        BY <1>2 DEF Token
    <2>3. Token(s, c).depth = Bracket(c, s.depth) /\ Token(s, c).tokens = Append(s.tokens, c)
        BY <2>1 DEF LexType
    <2>4. OpenBrackets(Append(s.tokens, c)) = Bracket(c, OpenBrackets(s.tokens))
        <3>. DEFINE W == S \cup LayoutTokens
        <3>1. c \in W /\ s.tokens \in Seq(W)
            BY DEF LexType
        <3>. HIDE DEF W
        <3>. QED
            BY <3>1, AppendBracket
    <2>. QED
        BY <2>3, <2>4 DEF Deep
<1>. QED
    BY <1>1, <1>2

LEMMA LineEndDeep ==
    ASSUME NEW S, NEW s \in LexType(S), Deep(s)
    PROVE  Deep(LineEnd(s))
<1>. DEFINE W == S \cup LayoutTokens
            more == IF s.back = "scan" THEN EndLine(s.tokens) ELSE s.tokens
<1>1. s.tokens \in Seq(W) /\ "NEWLINE" \in W
    BY DEF LexType, LayoutTokens
<1>2. OpenBrackets(more) = OpenBrackets(s.tokens)
    <2>1. CASE more = s.tokens
        BY <2>1
    <2>2. CASE more # s.tokens
        <3>1. more = Append(s.tokens, "NEWLINE")
            BY <2>2 DEF EndLine
        <3>2. OpenBrackets(Append(s.tokens, "NEWLINE")) = Bracket("NEWLINE", OpenBrackets(s.tokens))
            <4>. HIDE DEF W
            <4>. QED
                BY <1>1, AppendBracket
        <3>. QED
            BY <3>1, <3>2, BracketIs DEF Opening, Closing
    <2>. QED
        BY <2>1, <2>2
<1>. HIDE DEF more
<1>3. LineEnd(s).depth = s.depth /\ LineEnd(s).tokens \in {s.tokens, more}
    BY DEF LineEnd, LexType, more
<1>. QED
    BY <1>2, <1>3 DEF Deep

LEMMA StepDeep ==
    ASSUME NEW S, Apart(S), NEW s \in Lexing(S), NEW c, c \in S \/ c = "\n", Deep(s)
    PROVE  Deep(Step(s, c))
<1>1. s \in LexType(S) /\ s.mode \in Modes /\ s.back \in {"measure", "scan"}
    BY DEF Lexing, LexType
<1>2. \A m, b, i : \A r \in {[s EXCEPT !.mode = m, !.indent = i], [s EXCEPT !.mode = m, !.back = b],
                              [s EXCEPT !.indent = i], s} : Deep(r)
    BY <1>1 DEF Deep, LexType
<1>3. Deep(Failed)
    BY EmptyBrackets DEF Deep, Failed, Start
<1>4. CASE s.mode \in {"error", "block"} \/ (s.mode = "comment" /\ c # "\n")
    BY <1>2, <1>4 DEF Step
<1>5. CASE s.mode = "comment" /\ c = "\n"
    BY <1>1, <1>5, LineEndDeep DEF Step
<1>6. CASE s.mode \in {"measure", "scan"}
    <2>1. Step(s, c) = Scan(s, c)
        BY <1>6 DEF Step
    <2>2. CASE c = "\n"
        <3>. DEFINE u == [s EXCEPT !.back = s.mode]
        <3>1. Scan(s, c) = LineEnd(u)
            BY <2>2 DEF Scan, Tab, Strange
        <3>2. u \in LexType(S) /\ Deep(u)
            BY <1>1, <1>6 DEF LexType, Deep
        <3>. HIDE DEF u
        <3>. QED
            BY <2>1, <3>1, <3>2, LineEndDeep
    <2>3. CASE c \in {"#", "#>", "<#", " ", Tab, Strange}
        <3>1. Scan(s, c) \in {[s EXCEPT !.mode = "comment", !.back = s.mode],
                              [s EXCEPT !.mode = "block", !.back = s.mode],
                              [s EXCEPT !.indent = @ + 1], Failed, s}
            BY <2>3 DEF Scan, Tab, Strange
        <3>2. \/ Scan(s, c) = Failed
              \/ Scan(s, c).depth = s.depth /\ Scan(s, c).tokens = s.tokens
            BY <1>1, <3>1 DEF LexType
        <3>. QED
            BY <1>3, <2>1, <3>2 DEF Deep
    <2>4. CASE c \notin {"\n", "#", "#>", "<#", " ", Tab, Strange}
        <3>. DEFINE u == IF s.mode = "measure" THEN Measured(s) ELSE s
        <3>1. Scan(s, c) = Token(u, c) /\ c \in S
            BY <2>4 DEF Scan, Tab, Strange
        <3>2. u \in LexType(S) /\ Deep(u)
            BY <1>1, MeasuredLexes, MeasuredDeep
        <3>. HIDE DEF u
        <3>. QED
            BY <2>1, <3>1, <3>2, TokenDeep
    <2>. QED
        BY <2>2, <2>3, <2>4
<1>. QED
    <2>1. s.mode \in {"error", "block", "comment", "measure", "scan"}
        BY <1>1 DEF Modes
    <2>. QED
        BY <1>4, <1>5, <1>6, <2>1

(* A line, and a text.                                                     *)
LEMMA ScanLineDeep ==
    ASSUME NEW S, Apart(S), NEW s \in Lexing(S), NEW line \in Seq(S), Deep(s)
    PROVE  Deep(ScanLine(s, line))
<1>1. PICK g \in [0 .. Len(line) -> Lexing(S)] :
          /\ g[0] = s /\ \A k \in 1 .. Len(line) : g[k] = Step(g[k - 1], line[k])
          /\ ScanLine(s, line) = IF s.mode = "error" THEN s ELSE Step(g[Len(line)], "\n")
    BY LineRuns
<1>. DEFINE n == Len(line)
            P == {k \in 0 .. n : Deep(g[k])}
<1>2. n \in Nat /\ 0 \in P /\ P \in SUBSET (0 .. n)
    BY <1>1
<1>3. ASSUME NEW k \in 1 .. n, k - 1 \in P
      PROVE  k \in P
    <2>1. k \in 0 .. n /\ g[k - 1] \in Lexing(S) /\ line[k] \in S
        BY <1>2
    <2>2. Deep(g[k - 1])
        BY <1>3
    <2>3. Deep(Step(g[k - 1], line[k]))
        BY <2>1, <2>2, StepDeep
    <2>. QED
        BY <1>1, <2>1, <2>3
<1>4. n \in P
    <2>. HIDE DEF n, P
    <2>1. \A k \in 0 .. n : k \in P
        BY <1>2, <1>3, CountUp
    <2>. QED
        BY <1>2, <2>1
<1>5. g[n] \in Lexing(S) /\ Deep(g[n])
    BY <1>2, <1>4
<1>6. Deep(Step(g[n], "\n"))
    BY <1>5, StepDeep
<1>. QED
    BY <1>1, <1>6

----------------------------------------------------------------------------
(* A text behind a text.  The lexer is in state s along the second alone,  *)
(* and in state t along both, where the first left it in state A: until    *)
(* the second text has a token, all that the first left open is still      *)
(* open, and then the tokens are joined.                                   *)
Behind(A) == A.tokens \o Repeat("DEDENT", Len(A.indents) - 1)
SameLine(s, t) ==
    /\ t.mode = s.mode /\ t.indent = s.indent /\ t.depth = s.depth
    /\ s.mode \in {"comment", "block"} => t.back = s.back
Unread(A, s, t) ==
    s.tokens = <<>> /\ s.indents = <<0>> /\ t.tokens = A.tokens /\ t.indents = A.indents
Fresh(A, s, t) == Within(s) = "measure" /\ Unread(A, s, t)
Joined(A, s, t) == t.indents = s.indents /\ t.tokens = Behind(A) \o s.tokens

(* The second text is refused: by the lexer, or by a parser that takes no  *)
(* program that begins with an INDENT.                                     *)
Out(s) == s.mode = "error" \/ Indented(s.tokens)

Follows(A, s, t) ==
    \/ Out(s)
    \/ SameLine(s, t) /\ (Fresh(A, s, t) \/ (s.tokens # <<>> /\ Joined(A, s, t)))

LEMMA BehindTokens ==
    ASSUME NEW S, NEW A \in Lexing(S)
    PROVE  Behind(A) \in Seq(S \cup LayoutTokens)
<1>. DEFINE W == S \cup LayoutTokens
<1>1. A.tokens \in Seq(W) /\ "DEDENT" \in W /\ Len(A.indents) - 1 \in Nat
    BY EmptySeq DEF Lexing, LexInv, LexType, LayoutTokens, Increasing
<1>. HIDE DEF W
<1>2. Repeat("DEDENT", Len(A.indents) - 1) \in Seq(W)
    BY <1>1, RepeatPlain
<1>3. Behind(A) \in Seq(W)
    BY <1>1, <1>2, ConcatProperties DEF Behind
<1>. QED
    BY <1>3 DEF W

(* Append, as a name the provers leave alone.                              *)
Extended(tokens, t) == Append(tokens, t)
LEMMA AppendBehind ==
    ASSUME NEW W, NEW b \in Seq(W), NEW x \in Seq(W), NEW c \in W
    PROVE  Extended(b \o x, c) = b \o Extended(x, c)
<1>1. b \o x \in Seq(W) /\ <<c>> \in Seq(W)
    BY ConcatProperties
<1>2. Append(b \o x, c) = (b \o x) \o <<c>> /\ Append(x, c) = x \o <<c>>
    BY <1>1, AppendIsConcat
<1>. QED
    BY <1>1, <1>2, ConcatAssociative DEF Extended

(* The first token of the second text closes what the first left open.     *)
LEMMA MeasuredFresh ==
    ASSUME NEW S, NEW A \in Lexing(S), NEW s \in Lexing(S), NEW t \in Lexing(S),
           s.mode = "measure", SameLine(s, t), Fresh(A, s, t)
    PROVE  \/ Out(Measured(s))
           \/ /\ Measured(s).mode = "measure" /\ SameLine(Measured(s), Measured(t))
              /\ Joined(A, Measured(s), Measured(t))
<1>. DEFINE W == S \cup LayoutTokens
<1>1. /\ s \in LexType(S) /\ t \in LexType(S) /\ s.indent \in Nat /\ t.indent = s.indent
      /\ A.indents \in Seq(Nat) /\ Increasing(A.indents) /\ A.tokens \in Seq(W)
      /\ t.indents = A.indents /\ t.tokens = A.tokens /\ s.indents = <<0>> /\ s.tokens = <<>>
      /\ t.mode = "measure" /\ t.depth = s.depth
    BY DEF Lexing, LexInv, LexType, Fresh, Unread, SameLine
<1>2. <<0>> \in Seq(Nat) /\ Increasing(<<0>>) /\ Len(<<0>>) = 1 /\ Last(<<0>>) = 0
    BY DEF Increasing, Last
<1>3. CASE s.indent > 0
    <2>1. Measured(s) = [s EXCEPT !.indents = Append(@, s.indent), !.tokens = Append(@, "INDENT")]
        BY <1>1, <1>2, <1>3, MeasuredKeeps
    <2>2. Measured(s).tokens = Append(<<>>, "INDENT")
        BY <1>1, <2>1 DEF LexType
    <2>. QED
        BY <2>2 DEF Out, Indented
<1>4. CASE s.indent = 0
    <2>1. Kept(<<0>>, 0) = <<0>> /\ Len(<<0>>) - Len(Kept(<<0>>, 0)) = 0
        <3>1. PICK n \in 1 .. Len(<<0>>) : Kept(<<0>>, 0) = SubSeq(<<0>>, 1, n)
            BY <1>2, KeptIs
        <3>. QED
            BY <1>2, <3>1
    <2>2. Measured(s) = [s EXCEPT !.indents = <<0>>, !.tokens = <<>> \o Repeat("DEDENT", 0)]
        <3>. DEFINE kept == Kept(s.indents, s.indent)
        <3>1. kept = <<0>> /\ Len(s.indents) - Len(kept) = 0
            BY <1>1, <1>4, <2>1
        <3>2. ~ (s.indent > Last(s.indents)) /\ s.indent = Last(kept)
            BY <1>1, <1>2, <1>4, <3>1
        <3>3. Measured(s) = [s EXCEPT !.indents = kept, !.tokens = @ \o Repeat("DEDENT", Len(s.indents) - Len(kept))]
            BY <3>2, MeasuredKeeps, Zenon
        <3>. HIDE DEF kept
        <3>4. Measured(s) = [s EXCEPT !.indents = <<0>>, !.tokens = s.tokens \o Repeat("DEDENT", 0)]
            BY <3>1, <3>3
        <3>. QED
            BY <1>1, <3>4
    <2>3. <<>> \o Repeat("DEDENT", 0) = <<>>
        BY DEF Repeat
    <2>4. /\ Measured(s).mode = "measure" /\ Measured(s).indent = 0 /\ Measured(s).depth = s.depth
          /\ Measured(s).indents = <<0>> /\ Measured(s).tokens = <<>>
        BY <1>1, <1>4, <2>2, <2>3 DEF LexType
    <2>. DEFINE q == A.indents
    <2>5. PICK n \in 1 .. Len(q) :
              /\ Kept(q, 0) = SubSeq(q, 1, n) /\ Len(Kept(q, 0)) = n /\ Last(Kept(q, 0)) = q[n]
              /\ q[n] <= 0
        BY <1>1, KeptIs
    <2>6. n = 1 /\ q[1] = 0 /\ Last(q) >= 0 /\ Len(q) \in Nat
        <3>1. DOMAIN q = 1 .. Len(q) /\ q # <<>> /\ q[1] = 0 /\ Len(q) \in Nat /\ Len(q) >= 1
            BY <1>1, <2>5 DEF Increasing
        <3>2. n > 1 => q[1] < q[n]
            BY <1>1, <3>1 DEF Increasing
        <3>3. q[n] \in Nat /\ Last(q) = q[Len(q)] /\ q[Len(q)] \in Nat
            BY <1>1, <3>1 DEF Last
        <3>. QED
            BY <2>5, <3>1, <3>2, <3>3
    <2>7. Kept(q, 0) = <<0>> /\ Last(Kept(q, 0)) = 0
        BY <1>1, <2>5, <2>6
    <2>8. Measured(t) = [t EXCEPT !.indents = <<0>>, !.tokens = @ \o Repeat("DEDENT", Len(q) - 1)]
        <3>1. ~ (0 > Last(q)) /\ Last(q) \in Nat
            <4>1. Last(q) = q[Len(q)] /\ Len(q) \in DOMAIN q
                BY <1>1, <2>5 DEF Last
            <4>. QED
                BY <1>1, <2>6, <4>1
        <3>. QED
            BY <1>1, <1>4, <2>5, <2>6, <2>7, <3>1, MeasuredKeeps
    <2>9. /\ Measured(t).mode = "measure" /\ Measured(t).indent = 0 /\ Measured(t).depth = s.depth
          /\ Measured(t).indents = <<0>> /\ Measured(t).tokens = Behind(A)
        BY <1>1, <1>4, <2>8 DEF LexType, Behind
    <2>10. Behind(A) \o <<>> = Behind(A)
        BY BehindTokens, ConcatEmptySeq
    <2>. QED
        BY <2>4, <2>9, <2>10 DEF SameLine, Joined
<1>. QED
    BY <1>1, <1>3, <1>4

LEMMA MeasuredJoined ==
    ASSUME NEW S, NEW A \in Lexing(S), NEW s \in Lexing(S), NEW t \in Lexing(S),
           s.mode = "measure", SameLine(s, t), Joined(A, s, t)
    PROVE  \/ Out(Measured(s))
           \/ /\ Measured(s).mode = "measure" /\ SameLine(Measured(s), Measured(t))
              /\ Joined(A, Measured(s), Measured(t))
<1>. DEFINE W == S \cup LayoutTokens
            q == s.indents
            d == s.indent
            kept == Kept(q, d)
            B == Behind(A)
<1>1. /\ s \in LexType(S) /\ t \in LexType(S) /\ d \in Nat /\ t.indent = d
      /\ q \in Seq(Nat) /\ Increasing(q) /\ s.tokens \in Seq(W)
      /\ t.indents = q /\ t.tokens = B \o s.tokens /\ t.mode = "measure" /\ t.depth = s.depth
      /\ "DEDENT" \in W /\ "INDENT" \in W
    BY DEF Lexing, LexInv, LexType, Joined, SameLine, LayoutTokens
<1>2. B \in Seq(W)
    BY BehindTokens
<1>3. Len(q) - Len(kept) \in Nat
    <2>1. PICK n \in 1 .. Len(q) : Len(kept) = n
        BY <1>1, KeptIs
    <2>2. Len(q) \in Nat
        BY <1>1
    <2>. QED
        BY <2>1, <2>2
<1>. HIDE DEF kept, B, W
<1>t. s.tokens \in Seq(W) /\ "INDENT" \in W /\ "DEDENT" \in W
    BY <1>1
<1>4. CASE d > Last(q)
    <2>1. /\ Measured(s) = [s EXCEPT !.indents = Append(q, d), !.tokens = Append(s.tokens, "INDENT")]
          /\ Measured(t) = [t EXCEPT !.indents = Append(q, d), !.tokens = Append(B \o s.tokens, "INDENT")]
        BY <1>1, <1>4, MeasuredKeeps
    <2>2. Append(B \o s.tokens, "INDENT") = B \o Append(s.tokens, "INDENT")
        <3>. DEFINE x == s.tokens
        <3>1. x \in Seq(W) /\ B \in Seq(W) /\ "INDENT" \in W
            BY <1>t, <1>2
        <3>. HIDE DEF x, B
        <3>2. Extended(B \o x, "INDENT") = B \o Extended(x, "INDENT")
            BY <3>1, AppendBehind
        <3>. QED
            BY <3>2 DEF Extended, x
    <2>. QED
        BY <1>1, <2>1, <2>2 DEF LexType, SameLine, Joined, B
<1>5. CASE ~ (d > Last(q)) /\ d # Last(kept)
    <2>1. Measured(s) = Failed
        BY <1>5, MeasuredKeeps DEF kept
    <2>. QED
        BY <2>1 DEF Out, Failed, Start
<1>6. CASE ~ (d > Last(q)) /\ d = Last(kept)
    <2>. DEFINE rest == Repeat("DEDENT", Len(q) - Len(kept))
    <2>1. /\ Measured(s) = [s EXCEPT !.indents = kept, !.tokens = s.tokens \o rest]
          /\ Measured(t) = [t EXCEPT !.indents = kept, !.tokens = (B \o s.tokens) \o rest]
        BY <1>1, <1>6, MeasuredKeeps DEF kept
    <2>2. rest \in Seq(W)
        BY <1>t, <1>3, RepeatPlain
    <2>. HIDE DEF rest
    <2>3. (B \o s.tokens) \o rest = B \o (s.tokens \o rest)
        <3>1. \A x, y, z \in Seq(W) : (x \o y) \o z = x \o (y \o z)
            BY ConcatAssociative
        <3>. QED
            BY <1>t, <1>2, <2>2, <3>1
    <2>. QED
        BY <1>1, <2>1, <2>3 DEF LexType, SameLine, Joined, B
<1>. QED
    BY <1>4, <1>5, <1>6

(* What is refused stays refused.                                          *)
LEMMA IndentedLonger ==
    ASSUME NEW W, NEW tokens \in Seq(W), Indented(tokens), NEW c \in W, NEW rest \in Seq(W)
    PROVE  Indented(Append(tokens, c)) /\ Indented(tokens \o rest)
<1>1. 1 \in 1 .. Len(tokens) /\ Len(tokens) \in Nat
    BY EmptySeq DEF Indented
<1>2. Append(tokens, c) # <<>> /\ Append(tokens, c)[1] = tokens[1]
    BY <1>1, AppendProperties
<1>3. tokens \o rest # <<>> /\ (tokens \o rest)[1] = tokens[1]
    <2>1. Len(tokens \o rest) = Len(tokens) + Len(rest) /\ Len(rest) \in Nat /\ (tokens \o rest)[1] = tokens[1]
        BY <1>1, ConcatProperties
    <2>. QED
        BY <1>1, <2>1
<1>. QED
    BY <1>2, <1>3 DEF Indented

LEMMA OutMeasured ==
    ASSUME NEW S, NEW s \in Lexing(S), Indented(s.tokens)
    PROVE  Out(Measured(s))
<1>. DEFINE W == S \cup LayoutTokens
<1>1. s \in LexType(S) /\ s.tokens \in Seq(W) /\ "INDENT" \in W /\ "DEDENT" \in W /\ Len(s.indents) \in Nat
    BY DEF Lexing, LexType, LayoutTokens
<1>. HIDE DEF W
<1>2. CASE Measured(s) = Failed
    BY <1>2 DEF Out, Failed, Start
<1>3. CASE Measured(s) = [s EXCEPT !.indents = Append(@, s.indent), !.tokens = Append(@, "INDENT")]
    <2>1. Measured(s).tokens = Append(s.tokens, "INDENT")
        BY <1>1, <1>3 DEF LexType
    <2>2. Indented(Append(s.tokens, "INDENT"))
        BY <1>1, EmptySeq, IndentedLonger
    <2>. QED
        BY <2>1, <2>2 DEF Indented, Out
<1>4. ASSUME NEW n \in 1 .. Len(s.indents),
             Measured(s) = [s EXCEPT !.indents = SubSeq(s.indents, 1, n),
                                     !.tokens = @ \o Repeat("DEDENT", Len(s.indents) - n)]
      PROVE  Out(Measured(s))
    <2>. DEFINE rest == Repeat("DEDENT", Len(s.indents) - n)
    <2>1. Measured(s).tokens = s.tokens \o rest
        BY <1>1, <1>4 DEF LexType
    <2>2. rest \in Seq(W)
        <3>1. Len(s.indents) - n \in Nat
            BY <1>1
        <3>. QED
            BY <1>1, <3>1, RepeatPlain
    <2>. HIDE DEF rest
    <2>3. Indented(s.tokens \o rest)
        BY <1>1, <2>2, IndentedLonger
    <2>. QED
        BY <2>1, <2>3 DEF Indented, Out
<1>. QED
    BY <1>2, <1>3, <1>4, MeasuredIs

LEMMA OutToken ==
    ASSUME NEW S, NEW s \in LexType(S), NEW c \in S, Out(s)
    PROVE  Out(Token(s, c))
<1>. DEFINE W == S \cup LayoutTokens
<1>1. s.tokens \in Seq(W) /\ c \in W
    BY DEF LexType
<1>. HIDE DEF W
<1>2. CASE s.mode = "error"
    BY <1>2 DEF Token
<1>3. CASE s.mode # "error"
    <2>1. Token(s, c).tokens = Append(s.tokens, c)
        BY <1>3 DEF Token, LexType
    <2>2. Indented(Append(s.tokens, c))
        BY <1>1, <1>3, EmptySeq, IndentedLonger DEF Out, Indented
    <2>. QED
        BY <2>1, <2>2 DEF Indented, Out
<1>. QED
    BY <1>2, <1>3

LEMMA OutLineEnd ==
    ASSUME NEW S, NEW s \in LexType(S), Indented(s.tokens)
    PROVE  Out(LineEnd(s))
<1>. DEFINE W == S \cup LayoutTokens
            more == IF s.back = "scan" THEN EndLine(s.tokens) ELSE s.tokens
<1>1. s.tokens \in Seq(W) /\ "NEWLINE" \in W
    BY DEF LexType, LayoutTokens
<1>. HIDE DEF W
<1>2. Indented(Append(s.tokens, "NEWLINE"))
    BY <1>1, EmptySeq, IndentedLonger
<1>3. Indented(more)
    BY <1>2 DEF EndLine
<1>. HIDE DEF more
<1>4. LineEnd(s).tokens \in {s.tokens, more}
    BY DEF LineEnd, LexType, more
<1>. QED
    BY <1>3, <1>4 DEF Indented, Out

LEMMA OutStep ==
    ASSUME NEW S, Apart(S), NEW s \in Lexing(S), NEW c, c \in S \/ c = "\n", Out(s)
    PROVE  Out(Step(s, c))
<1>1. s \in LexType(S) /\ s.mode \in {"measure", "scan", "comment", "block", "error"}
    BY DEF Lexing, LexType, Modes
<1>2. CASE s.mode = "error"
    BY <1>2 DEF Step
<1>3. CASE s.mode # "error"
    <2>1. Indented(s.tokens)
        BY <1>3 DEF Out, Indented
    <2>2. CASE Step(s, c).tokens = s.tokens \/ Step(s, c) = Failed
        BY <2>1, <2>2 DEF Out, Indented, Failed, Start
    <2>3. CASE s.mode = "block" \/ (s.mode = "comment" /\ c # "\n")
        BY <1>1, <2>2, <2>3 DEF Step, LexType
    <2>4. CASE s.mode = "comment" /\ c = "\n"
        BY <1>1, <2>1, <2>4, OutLineEnd DEF Step
    <2>5. CASE s.mode \in {"measure", "scan"}
        <3>1. Step(s, c) = Scan(s, c)
            BY <2>5 DEF Step
        <3>2. CASE c = "\n"
            <4>. DEFINE u == [s EXCEPT !.back = s.mode]
            <4>1. Scan(s, c) = LineEnd(u)
                BY <3>2 DEF Scan, Tab, Strange
            <4>2. u \in LexType(S) /\ u.tokens = s.tokens
                BY <1>1, <2>5 DEF LexType
            <4>. HIDE DEF u
            <4>. QED
                BY <2>1, <3>1, <4>1, <4>2, OutLineEnd
        <3>3. CASE c \in {"#", "#>", "<#", " ", Tab, Strange}
            <4>1. Scan(s, c) \in {[s EXCEPT !.mode = "comment", !.back = s.mode],
                                  [s EXCEPT !.mode = "block", !.back = s.mode],
                                  [s EXCEPT !.indent = @ + 1], Failed, s}
                BY <3>3 DEF Scan, Tab, Strange
            <4>2. Scan(s, c) = Failed \/ Scan(s, c).tokens = s.tokens
                BY <1>1, <4>1 DEF LexType
            <4>. QED
                BY <2>2, <3>1, <4>2
        <3>4. CASE c \notin {"\n", "#", "#>", "<#", " ", Tab, Strange}
            <4>. DEFINE u == IF s.mode = "measure" THEN Measured(s) ELSE s
            <4>1. Scan(s, c) = Token(u, c) /\ c \in S
                BY <3>4 DEF Scan, Tab, Strange
            <4>2. u \in LexType(S) /\ Out(u)
                BY <1>1, <2>1, MeasuredLexes, OutMeasured
            <4>. HIDE DEF u
            <4>. QED
                BY <3>1, <4>1, <4>2, OutToken
        <3>. QED
            BY <3>2, <3>3, <3>4
    <2>. QED
        BY <1>1, <1>3, <2>3, <2>4, <2>5
<1>. QED
    BY <1>2, <1>3

LEMMA TokenFollows ==
    ASSUME NEW S, NEW A \in Lexing(S), NEW u \in LexType(S), NEW v \in LexType(S), NEW c \in S,
           SameLine(u, v), Joined(A, u, v)
    PROVE  Follows(A, Token(u, c), Token(v, c))
<1>. DEFINE W == S \cup LayoutTokens
            B == Behind(A)
<1>1. CASE u.mode = "error"
    BY <1>1 DEF Token, Follows, Out
<1>2. CASE u.mode # "error"
    <2>1. v.mode # "error" /\ v.depth = u.depth /\ v.indent = u.indent
          /\ v.indents = u.indents /\ v.tokens = B \o u.tokens
        BY <1>2 DEF SameLine, Joined
    <2>2. /\ Token(u, c) = [u EXCEPT !.mode = "scan", !.tokens = Append(@, c), !.depth = Bracket(c, u.depth)]
          /\ Token(v, c) = [v EXCEPT !.mode = "scan", !.tokens = Append(@, c), !.depth = Bracket(c, v.depth)]
        BY <1>2, <2>1 DEF Token
    <2>3. /\ Token(u, c).mode = "scan" /\ Token(v, c).mode = "scan"
          /\ Token(u, c).depth = Token(v, c).depth /\ Token(u, c).indent = Token(v, c).indent
          /\ Token(u, c).indents = Token(v, c).indents
          /\ Token(u, c).tokens = Append(u.tokens, c) /\ Token(v, c).tokens = Append(B \o u.tokens, c)
        BY <2>1, <2>2 DEF LexType
    <2>4. B \in Seq(W) /\ u.tokens \in Seq(W) /\ c \in W
        BY BehindTokens DEF LexType
    <2>. HIDE DEF W, B
    <2>5. Append(B \o u.tokens, c) = B \o Append(u.tokens, c)
        <3>1. Extended(B \o u.tokens, c) = B \o Extended(u.tokens, c)
            BY <2>4, AppendBehind
        <3>. QED
            BY <3>1 DEF Extended
    <2>6. Append(u.tokens, c) # <<>>
        BY <2>4, AppendProperties
    <2>. QED
        BY <2>3, <2>5, <2>6 DEF Follows, SameLine, Joined, B
<1>. QED
    BY <1>1, <1>2

LEMMA EndLineBehind ==
    ASSUME NEW W, NEW b \in Seq(W), NEW x \in Seq(W), x # <<>>, "NEWLINE" \in W
    PROVE  EndLine(b \o x) = b \o EndLine(x) /\ EndLine(x) # <<>>
<1>1. Len(x) \in Nat /\ Len(b) \in Nat /\ Len(x) # 0
    BY EmptySeq
<1>2. Len(b \o x) = Len(b) + Len(x) /\ (b \o x)[Len(b) + Len(x)] = x[Len(x)]
    BY <1>1, ConcatProperties
<1>3. b \o x # <<>> /\ Last(b \o x) = Last(x)
    BY <1>1, <1>2, EmptySeq DEF Last
<1>4. Append(b \o x, "NEWLINE") = b \o Append(x, "NEWLINE")
    <2>1. Extended(b \o x, "NEWLINE") = b \o Extended(x, "NEWLINE")
        BY AppendBehind
    <2>. QED
        BY <2>1 DEF Extended
<1>5. Append(x, "NEWLINE") # <<>>
    BY AppendProperties
<1>. QED
    BY <1>3, <1>4, <1>5 DEF EndLine

LEMMA LineEndFollows ==
    ASSUME NEW S, NEW A \in Lexing(S), NEW u \in LexType(S), NEW v \in LexType(S),
           u.back = v.back, u.depth = v.depth, u.indent = v.indent,
           \/ u.back = "measure" /\ Unread(A, u, v)
           \/ u.tokens # <<>> /\ Joined(A, u, v)
    PROVE  Follows(A, LineEnd(u), LineEnd(v))
<1>. DEFINE W == S \cup LayoutTokens
            B == Behind(A)
<1>0. B \in Seq(W) /\ u.tokens \in Seq(W) /\ "NEWLINE" \in W
    BY BehindTokens DEF LexType, LayoutTokens
<1>. HIDE DEF W
<1>1. CASE u.back = "scan" /\ u.depth > 0
    <2>1. LineEnd(u) = [u EXCEPT !.mode = "scan"] /\ LineEnd(v) = [v EXCEPT !.mode = "scan"]
        BY <1>1 DEF LineEnd
    <2>2. u.tokens # <<>> /\ Joined(A, u, v)
        BY <1>1
    <2>. QED
        BY <2>1, <2>2 DEF LexType, Follows, SameLine, Joined
<1>2. CASE u.back = "scan" /\ ~ (u.depth > 0)
    <2>1. /\ LineEnd(u) = [u EXCEPT !.mode = "measure", !.indent = 0, !.tokens = EndLine(u.tokens)]
          /\ LineEnd(v) = [v EXCEPT !.mode = "measure", !.indent = 0, !.tokens = EndLine(v.tokens)]
        BY <1>2 DEF LineEnd
    <2>2. u.tokens # <<>> /\ v.indents = u.indents /\ v.tokens = B \o u.tokens
        BY <1>2 DEF Joined
    <2>3. EndLine(B \o u.tokens) = B \o EndLine(u.tokens) /\ EndLine(u.tokens) # <<>>
        <3>. HIDE DEF B
        <3>. QED
            BY <1>0, <2>2, EndLineBehind
    <2>. QED
        BY <2>1, <2>2, <2>3 DEF LexType, Follows, SameLine, Joined
<1>3. CASE u.back # "scan"
    <2>1. /\ LineEnd(u) = [u EXCEPT !.mode = "measure", !.indent = 0]
          /\ LineEnd(v) = [v EXCEPT !.mode = "measure", !.indent = 0]
        BY <1>3 DEF LineEnd, LexType
    <2>2. /\ LineEnd(u).mode = "measure" /\ SameLine(LineEnd(u), LineEnd(v))
          /\ LineEnd(u).tokens = u.tokens /\ LineEnd(v).tokens = v.tokens
          /\ LineEnd(u).indents = u.indents /\ LineEnd(v).indents = v.indents
        BY <2>1 DEF LexType, SameLine
    <2>. QED
        BY <2>2 DEF Follows, Fresh, Unread, Joined, Within
<1>. QED
    BY <1>1, <1>2, <1>3

LEMMA StepFollows ==
    ASSUME NEW S, Apart(S), NEW A \in Lexing(S), NEW s \in Lexing(S), NEW t \in Lexing(S),
           NEW c, c \in S \/ c = "\n", Follows(A, s, t)
    PROVE  Follows(A, Step(s, c), Step(t, c))
<1>1. CASE Out(s)
    BY <1>1, OutStep DEF Follows
<1>. SUFFICES ASSUME ~ Out(s) PROVE Follows(A, Step(s, c), Step(t, c))
    BY <1>1
<1>2. /\ s \in LexType(S) /\ t \in LexType(S) /\ SameLine(s, t)
      /\ Fresh(A, s, t) \/ (s.tokens # <<>> /\ Joined(A, s, t))
      /\ s.mode \in {"measure", "scan", "comment", "block"} /\ t.mode = s.mode
      /\ s.indent \in Nat /\ t.indent = s.indent /\ s.back \in {"measure", "scan"}
    BY DEF Lexing, LexType, Modes, Follows, Out, SameLine
<1>3. ASSUME NEW u \in LexType(S), NEW v \in LexType(S), SameLine(u, v),
             u.tokens = s.tokens, u.indents = s.indents, Within(u) = Within(s),
             v.tokens = t.tokens, v.indents = t.indents
      PROVE  Follows(A, u, v)
    BY <1>2, <1>3 DEF Follows, Fresh, Unread, Joined
<1>4. CASE s.mode = "block" /\ c = "#>"
    <2>. DEFINE u == [s EXCEPT !.mode = s.back, !.indent = 0]
                v == [t EXCEPT !.mode = t.back, !.indent = 0]
    <2>1. Step(s, c) = u /\ Step(t, c) = v
        BY <1>2, <1>4 DEF Step
    <2>2. u \in LexType(S) /\ v \in LexType(S) /\ SameLine(u, v) /\ Within(u) = Within(s)
          /\ u.tokens = s.tokens /\ u.indents = s.indents /\ v.tokens = t.tokens /\ v.indents = t.indents
        BY <1>2, <1>4 DEF LexType, Modes, SameLine, Within
    <2>. HIDE DEF u, v
    <2>. QED
        BY <1>3, <2>1, <2>2
<1>5. CASE (s.mode = "block" /\ c # "#>") \/ (s.mode = "comment" /\ c # "\n")
    BY <1>2, <1>5 DEF Step, Follows
<1>6. CASE s.mode = "comment" /\ c = "\n"
    <2>1. Step(s, c) = LineEnd(s) /\ Step(t, c) = LineEnd(t)
        BY <1>2, <1>6 DEF Step
    <2>2. s.back = t.back /\ s.depth = t.depth /\ (Fresh(A, s, t) => s.back = "measure")
        BY <1>2, <1>6 DEF SameLine, Fresh, Unread, Within
    <2>. QED
        BY <1>2, <2>1, <2>2, LineEndFollows DEF Fresh, Unread
<1>7. CASE s.mode \in {"measure", "scan"} /\ c = "\n"
    <2>. DEFINE u == [s EXCEPT !.back = s.mode]
                v == [t EXCEPT !.back = t.mode]
    <2>1. Step(s, c) = LineEnd(u) /\ Step(t, c) = LineEnd(v)
        BY <1>2, <1>7 DEF Step, Scan, Tab, Strange
    <2>2. /\ u \in LexType(S) /\ v \in LexType(S) /\ u.back = s.mode /\ v.back = s.mode
          /\ u.depth = v.depth /\ u.indent = v.indent
          /\ u.tokens = s.tokens /\ u.indents = s.indents /\ v.tokens = t.tokens /\ v.indents = t.indents
        BY <1>2, <1>7 DEF LexType, SameLine
    <2>3. \/ /\ u.back = "measure" /\ u.tokens = <<>> /\ u.indents = <<0>>
             /\ v.tokens = A.tokens /\ v.indents = A.indents
          \/ u.tokens # <<>> /\ Joined(A, u, v)
        BY <1>2, <1>7, <2>2 DEF Fresh, Unread, Joined, Within
    <2>. HIDE DEF u, v
    <2>. QED
        BY <2>1, <2>2, <2>3, LineEndFollows DEF Unread
<1>8. CASE s.mode \in {"measure", "scan"} /\ c \in {"#", "#>", "<#"}
    <2>. DEFINE m == IF c = "<#" THEN "block" ELSE "comment"
                u == [s EXCEPT !.mode = m, !.back = s.mode]
                v == [t EXCEPT !.mode = m, !.back = t.mode]
    <2>1. Step(s, c) = u /\ Step(t, c) = v
        BY <1>2, <1>8 DEF Step, Scan, Tab, Strange
    <2>2. m \in {"comment", "block"}
        OBVIOUS
    <2>. HIDE DEF m
    <2>3. u \in LexType(S) /\ v \in LexType(S) /\ SameLine(u, v) /\ Within(u) = Within(s)
          /\ u.tokens = s.tokens /\ u.indents = s.indents /\ v.tokens = t.tokens /\ v.indents = t.indents
        BY <1>2, <1>8, <2>2 DEF LexType, Modes, SameLine, Within
    <2>. HIDE DEF u, v
    <2>. QED
        BY <1>3, <2>1, <2>3
<1>9. CASE s.mode \in {"measure", "scan"} /\ c = " "
    <2>. DEFINE u == [s EXCEPT !.indent = @ + 1]
                v == [t EXCEPT !.indent = @ + 1]
    <2>1. Step(s, c) = u /\ Step(t, c) = v
        BY <1>2, <1>9 DEF Step, Scan, Tab, Strange
    <2>2. u \in LexType(S) /\ v \in LexType(S)
        <3>1. s.indent + 1 \in Nat /\ t.indent + 1 \in Nat
            BY <1>2
        <3>. QED
            BY <1>2, <3>1 DEF LexType
    <2>3. SameLine(u, v) /\ Within(u) = Within(s)
        BY <1>2, <1>9 DEF LexType, SameLine, Within
    <2>4. /\ u.tokens = s.tokens /\ u.indents = s.indents
          /\ v.tokens = t.tokens /\ v.indents = t.indents
        BY <1>2 DEF LexType
    <2>. HIDE DEF u, v
    <2>. QED
        BY <1>3, <2>1, <2>2, <2>3, <2>4
<1>10. CASE s.mode \in {"measure", "scan"} /\ c \in {Tab, Strange}
    <2>1. \/ Step(s, c) = Failed
          \/ Step(s, c) = s /\ Step(t, c) = t
        BY <1>2, <1>10 DEF Step, Scan, Tab, Strange
    <2>2. Out(Failed)
        BY DEF Out, Failed, Start
    <2>. QED
        BY <1>2, <2>1, <2>2 DEF Follows
<1>11. CASE s.mode = "measure" /\ c \notin {"\n", "#", "#>", "<#", " ", Tab, Strange}
    <2>1. Step(s, c) = Token(Measured(s), c) /\ Step(t, c) = Token(Measured(t), c) /\ c \in S
        BY <1>2, <1>11 DEF Step, Scan, Tab, Strange
    <2>2. Measured(s) \in LexType(S) /\ Measured(t) \in LexType(S)
        BY <1>2, <1>11, MeasuredLexes
    <2>3. \/ Out(Measured(s))
          \/ SameLine(Measured(s), Measured(t)) /\ Joined(A, Measured(s), Measured(t))
        BY <1>2, <1>11, MeasuredFresh, MeasuredJoined
    <2>4. CASE Out(Measured(s))
        BY <2>1, <2>2, <2>4, OutToken DEF Follows
    <2>5. CASE SameLine(Measured(s), Measured(t)) /\ Joined(A, Measured(s), Measured(t))
        BY <2>1, <2>2, <2>5, TokenFollows
    <2>. QED
        BY <2>3, <2>4, <2>5
<1>12. CASE s.mode = "scan" /\ c \notin {"\n", "#", "#>", "<#", " ", Tab, Strange}
    <2>1. Step(s, c) = Token(s, c) /\ Step(t, c) = Token(t, c) /\ c \in S
        BY <1>2, <1>12 DEF Step, Scan, Tab, Strange
    <2>2. Joined(A, s, t)
        BY <1>2, <1>12 DEF Fresh, Unread, Within
    <2>. QED
        BY <1>2, <2>1, <2>2, TokenFollows
<1>. QED
    BY <1>2, <1>4, <1>5, <1>6, <1>7, <1>8, <1>9, <1>10, <1>11, <1>12

LEMMA ScanLineOut ==
    ASSUME NEW S, Apart(S), NEW s \in Lexing(S), NEW line \in Seq(S), Out(s)
    PROVE  Out(ScanLine(s, line))
<1>1. PICK g \in [0 .. Len(line) -> Lexing(S)] :
          /\ g[0] = s /\ \A k \in 1 .. Len(line) : g[k] = Step(g[k - 1], line[k])
          /\ ScanLine(s, line) = IF s.mode = "error" THEN s ELSE Step(g[Len(line)], "\n")
    BY LineRuns
<1>. DEFINE n == Len(line)
            P == {k \in 0 .. n : Out(g[k])}
<1>2. n \in Nat /\ 0 \in P /\ P \in SUBSET (0 .. n)
    BY <1>1
<1>3. ASSUME NEW k \in 1 .. n, k - 1 \in P
      PROVE  k \in P
    <2>1. k \in 0 .. n /\ g[k - 1] \in Lexing(S) /\ line[k] \in S
        BY <1>2
    <2>2. Out(g[k - 1])
        BY <1>3
    <2>3. Out(Step(g[k - 1], line[k]))
        BY <2>1, <2>2, OutStep
    <2>. QED
        BY <1>1, <2>1, <2>3
<1>4. n \in P
    <2>. HIDE DEF n, P
    <2>1. \A k \in 0 .. n : k \in P
        BY <1>2, <1>3, CountUp
    <2>. QED
        BY <1>2, <2>1
<1>5. g[n] \in Lexing(S) /\ Out(g[n])
    BY <1>2, <1>4
<1>6. Out(Step(g[n], "\n"))
    BY <1>5, OutStep
<1>. QED
    BY <1>1, <1>6

LEMMA ScanLineFollows ==
    ASSUME NEW S, Apart(S), NEW A \in Lexing(S), NEW s \in Lexing(S), NEW t \in Lexing(S),
           NEW line \in Seq(S), Follows(A, s, t)
    PROVE  Follows(A, ScanLine(s, line), ScanLine(t, line))
<1>1. CASE Out(s)
    BY <1>1, ScanLineOut DEF Follows
<1>2. CASE ~ Out(s)
    <2>1. s.mode # "error" /\ t.mode # "error"
        BY <1>2 DEF Follows, Out, SameLine
    <2>2. PICK g \in [0 .. Len(line) -> Lexing(S)] :
              /\ g[0] = s /\ \A k \in 1 .. Len(line) : g[k] = Step(g[k - 1], line[k])
              /\ ScanLine(s, line) = Step(g[Len(line)], "\n")
        BY <2>1, LineRuns
    <2>3. PICK h \in [0 .. Len(line) -> Lexing(S)] :
              /\ h[0] = t /\ \A k \in 1 .. Len(line) : h[k] = Step(h[k - 1], line[k])
              /\ ScanLine(t, line) = Step(h[Len(line)], "\n")
        BY <2>1, LineRuns
    <2>. DEFINE n == Len(line)
                P == {k \in 0 .. n : Follows(A, g[k], h[k])}
    <2>4. n \in Nat /\ 0 \in P /\ P \in SUBSET (0 .. n)
        BY <2>2, <2>3
    <2>5. ASSUME NEW k \in 1 .. n, k - 1 \in P
          PROVE  k \in P
        <3>1. k \in 0 .. n /\ g[k - 1] \in Lexing(S) /\ h[k - 1] \in Lexing(S) /\ line[k] \in S
            BY <2>4
        <3>2. Follows(A, g[k - 1], h[k - 1])
            BY <2>5
        <3>3. Follows(A, Step(g[k - 1], line[k]), Step(h[k - 1], line[k]))
            BY <3>1, <3>2, StepFollows
        <3>. QED
            BY <2>2, <2>3, <3>1, <3>3
    <2>6. n \in P
        <3>. HIDE DEF n, P
        <3>1. \A k \in 0 .. n : k \in P
            BY <2>4, <2>5, CountUp
        <3>. QED
            BY <2>4, <3>1
    <2>7. g[n] \in Lexing(S) /\ h[n] \in Lexing(S) /\ Follows(A, g[n], h[n])
        BY <2>4, <2>6
    <2>8. Follows(A, Step(g[n], "\n"), Step(h[n], "\n"))
        BY <2>7, StepFollows
    <2>. QED
        BY <2>2, <2>3, <2>8
<1>. QED
    BY <1>1, <1>2

(* Where a line ends: the text is refused, or in a block comment, or the   *)
(* line goes on in a bracket, or a new line begins.                        *)
AtLineEnd(s) ==
    \/ s.mode \in {"error", "block"}
    \/ s.mode = "scan" /\ s.depth > 0
    \/ s.mode = "measure" /\ s.indent = 0

LEMMA ScanLineEnds ==
    ASSUME NEW S, Apart(S), NEW s \in Lexing(S), NEW line \in Seq(S)
    PROVE  AtLineEnd(ScanLine(s, line))
<1>1. PICK x \in Lexing(S) :
          ScanLine(s, line) = IF s.mode = "error" THEN s ELSE Step(x, "\n")
    <2>1. PICK g \in [0 .. Len(line) -> Lexing(S)] :
              ScanLine(s, line) = IF s.mode = "error" THEN s ELSE Step(g[Len(line)], "\n")
        BY LineRuns
    <2>2. g[Len(line)] \in Lexing(S)
        OBVIOUS
    <2>. QED
        BY <2>1, <2>2
<1>2. x \in LexType(S) /\ x.mode \in {"measure", "scan", "comment", "block", "error"}
    BY DEF Lexing, LexType, Modes
<1>3. ASSUME NEW u \in LexType(S)
      PROVE  AtLineEnd(LineEnd(u))
    BY DEF LineEnd, AtLineEnd, LexType
<1>4. AtLineEnd(Step(x, "\n"))
    <2>1. CASE x.mode \in {"error", "block"}
        BY <2>1 DEF Step, AtLineEnd
    <2>2. CASE x.mode = "comment"
        BY <1>2, <1>3, <2>2 DEF Step
    <2>3. CASE x.mode \in {"measure", "scan"}
        <3>. DEFINE u == [x EXCEPT !.back = x.mode]
        <3>1. Step(x, "\n") = LineEnd(u)
            BY <2>3 DEF Step, Scan, Tab, Strange
        <3>2. u \in LexType(S)
            BY <1>2, <2>3 DEF LexType
        <3>. HIDE DEF u
        <3>. QED
            BY <1>3, <3>1, <3>2
    <2>. QED
        BY <1>2, <2>1, <2>2, <2>3
<1>. QED
    BY <1>1, <1>4 DEF AtLineEnd

(* Where a text ends: what its tokens leave open is the depth, and if that *)
(* is nothing, and the text is not refused, a new line begins.             *)
LEMMA TextEnds ==
    ASSUME NEW S, Apart(S), NEW text \in Seq(Seq(S)),
           NEW g \in [0 .. Len(text) -> Lexing(S)], g[0] = Start,
           \A k \in 1 .. Len(text) : g[k] = ScanLine(g[k - 1], text[k])
    PROVE  LET s == g[Len(text)] IN Deep(s) /\ AtLineEnd(s)
<1>. DEFINE n == Len(text)
            P == {k \in 0 .. n : Deep(g[k]) /\ AtLineEnd(g[k])}
<1>1. n \in Nat /\ 0 \in P /\ P \in SUBSET (0 .. n)
    <2>1. Deep(Start) /\ AtLineEnd(Start)
        BY EmptyBrackets DEF Deep, AtLineEnd, Start
    <2>. QED
        BY <2>1
<1>2. ASSUME NEW k \in 1 .. n, k - 1 \in P
      PROVE  k \in P
    <2>1. k \in 0 .. n /\ k \in 1 .. Len(text) /\ k - 1 \in 0 .. Len(text)
        BY <1>1
    <2>. HIDE DEF n
    <2>3. g[k - 1] \in Lexing(S)
        BY <2>1
    <2>5. text[k] \in Seq(S)
        BY <2>1
    <2>2. Deep(g[k - 1])
        BY <1>2
    <2>4. Deep(ScanLine(g[k - 1], text[k])) /\ AtLineEnd(ScanLine(g[k - 1], text[k]))
        BY <2>2, <2>3, <2>5, ScanLineDeep, ScanLineEnds
    <2>. QED
        BY <2>1, <2>4
<1>3. n \in P
    <2>. HIDE DEF n, P
    <2>1. \A k \in 0 .. n : k \in P
        BY <1>1, <1>2, CountUp
    <2>. QED
        BY <1>1, <2>1
<1>. QED
    BY <1>3

(* The first text has been read to its end.                                *)
Ended(A) == A.mode = "measure" /\ A.indent = 0 /\ A.depth = 0

LEMMA EndedTokens ==
    ASSUME NEW S, NEW A \in Lexing(S), Ended(A)
    PROVE  EndLine(A.tokens) = A.tokens /\ TokensAt(A) = Behind(A) \o <<"EOF">>
<1>1. A.tokens = <<>> \/ Last(A.tokens) = "NEWLINE"
    BY DEF Ended, Lexing, LexInv, Within
<1>2. EndLine(A.tokens) = A.tokens
    BY <1>1 DEF EndLine
<1>. QED
    BY <1>2 DEF TokensAt, Behind, Ended

LEMMA TextEnded ==
    ASSUME NEW S, Apart(S), NEW A \in Lexing(S), Deep(A), AtLineEnd(A),
           TokensAt(A) # Rejected, OpenBrackets(TokensAt(A)) = 0
    PROVE  Ended(A)
<1>. DEFINE W == S \cup LayoutTokens \cup {"EOF"}
            x == EndLine(A.tokens)
            y == Repeat("DEDENT", Len(A.indents) - 1)
<1>1. A.tokens \in Seq(W) /\ {"NEWLINE", "DEDENT", "EOF"} \subseteq W /\ Len(A.indents) - 1 \in Nat
    <2>1. A.tokens \in Seq(S \cup LayoutTokens) /\ Len(A.indents) - 1 \in Nat
        BY EmptySeq DEF Lexing, LexInv, LexType, Increasing
    <2>2. A.tokens \in Seq(W)
        BY <2>1, SeqMonotonic
    <2>. QED
        BY <2>1, <2>2 DEF LayoutTokens
<1>. HIDE DEF W
<1>2. x \in Seq(W) /\ OpenBrackets(x) = OpenBrackets(A.tokens)
    <2>1. CASE x = A.tokens
        BY <1>1, <2>1
    <2>2. CASE x # A.tokens
        <3>1. x = Append(A.tokens, "NEWLINE")
            BY <2>2 DEF EndLine
        <3>2. OpenBrackets(Append(A.tokens, "NEWLINE")) = Bracket("NEWLINE", OpenBrackets(A.tokens))
            BY <1>1, AppendBracket
        <3>3. Bracket("NEWLINE", OpenBrackets(A.tokens)) = OpenBrackets(A.tokens)
            BY BracketIs DEF Opening, Closing
        <3>4. Append(A.tokens, "NEWLINE") \in Seq(W)
            BY <1>1, AppendProperties
        <3>. QED
            BY <3>1, <3>2, <3>3, <3>4
    <2>. QED
        BY <2>1, <2>2
<1>3. y \in Seq(W) /\ \A k \in 1 .. Len(y) : Plain(y[k])
    BY <1>1, RepeatPlain
<1>4. A.mode \notin {"error", "block"} /\ TokensAt(A) = (x \o y) \o <<"EOF">>
    BY DEF TokensAt
<1>. HIDE DEF x, y
<1>5. x \o y \in Seq(W) /\ OpenBrackets(x \o y) = OpenBrackets(x)
    BY <1>2, <1>3, PlainBrackets, ConcatProperties
<1>6. OpenBrackets((x \o y) \o <<"EOF">>) = OpenBrackets(x \o y)
    <2>1. <<"EOF">> \in Seq(W) /\ \A k \in 1 .. Len(<<"EOF">>) : Plain(<<"EOF">>[k])
        <3>1. Len(<<"EOF">>) = 1 /\ <<"EOF">>[1] = "EOF" /\ Plain("EOF")
            BY LayoutPlain
        <3>. QED
            BY <1>1, <3>1
    <2>. QED
        BY <1>5, <2>1, PlainBrackets
<1>7. A.depth = 0
    BY <1>2, <1>4, <1>5, <1>6 DEF Deep
<1>. QED
    BY <1>4, <1>7 DEF AtLineEnd, Ended

LEMMA JoinedTokens ==
    ASSUME NEW S, Apart(S), NEW A \in Lexing(S), Ended(A), NEW s \in Lexing(S), NEW t \in Lexing(S),
           Follows(A, s, t), TokensAt(s) # Rejected, ~ Indented(TokensAt(s))
    PROVE  TokensAt(t) = Behind(A) \o TokensAt(s)
<1>. DEFINE W == S \cup LayoutTokens \cup {"EOF"}
            B == Behind(A)
            x == EndLine(s.tokens)
            y == Repeat("DEDENT", Len(s.indents) - 1)
            z == <<"EOF">>
<1>1. /\ s.tokens \in Seq(W) /\ {"NEWLINE", "DEDENT", "EOF"} \subseteq W /\ Len(s.indents) - 1 \in Nat
      /\ B \in Seq(W)
    <2>1. s.tokens \in Seq(S \cup LayoutTokens) /\ Len(s.indents) - 1 \in Nat
        BY EmptySeq DEF Lexing, LexInv, LexType, Increasing
    <2>2. B \in Seq(S \cup LayoutTokens)
        BY BehindTokens
    <2>. HIDE DEF B
    <2>3. s.tokens \in Seq(W) /\ B \in Seq(W)
        BY <2>1, <2>2, SeqMonotonic
    <2>. QED
        BY <2>1, <2>3 DEF LayoutTokens
<1>. HIDE DEF W, B
<1>2. /\ x \in Seq(W) /\ y \in Seq(W) /\ z \in Seq(W)
      /\ Indented(s.tokens) => Indented(x)
    <2>1. x \in {s.tokens, Append(s.tokens, "NEWLINE")}
        BY DEF EndLine
    <2>2. Append(s.tokens, "NEWLINE") \in Seq(W)
        BY <1>1, AppendProperties
    <2>3. Indented(s.tokens) => Indented(Append(s.tokens, "NEWLINE"))
        BY <1>1, EmptySeq, IndentedLonger
    <2>4. y \in Seq(W)
        BY <1>1, RepeatPlain
    <2>5. z \in Seq(W)
        BY <1>1
    <2>. HIDE DEF x, y, z
    <2>6. x \in Seq(W) /\ (Indented(s.tokens) => Indented(x))
        BY <1>1, <2>1, <2>2, <2>3 DEF Indented
    <2>. QED
        BY <2>4, <2>5, <2>6
<1>3. s.mode \notin {"error", "block"} /\ TokensAt(s) = (x \o y) \o z
    BY DEF TokensAt
<1>4. \A w \in Seq(W) : (w \o y) \o z = w \o (y \o z) /\ y \o z \in Seq(W)
    <2>. HIDE DEF y, z
    <2>. QED
        BY <1>2, ConcatAssociative, ConcatProperties
<1>5. ~ Out(s)
    <2>1. ASSUME Indented(s.tokens) PROVE FALSE
        <3>. HIDE DEF x, y, z
        <3>1. Indented(x \o (y \o z))
            BY <1>1, <1>2, <1>4, <2>1, IndentedLonger
        <3>. QED
            BY <1>2, <1>3, <1>4, <3>1
    <2>. QED
        BY <1>3, <2>1 DEF Out
<1>6. t.mode = s.mode /\ (Fresh(A, s, t) \/ (s.tokens # <<>> /\ Joined(A, s, t)))
    BY <1>5 DEF Follows, SameLine
<1>7. TokensAt(t) = EndLine(t.tokens) \o Repeat("DEDENT", Len(t.indents) - 1) \o z
    BY <1>3, <1>6 DEF TokensAt
<1>8. CASE Fresh(A, s, t)
    <2>1. TokensAt(t) = B \o z
        <3>1. t.tokens = A.tokens /\ t.indents = A.indents
            BY <1>8 DEF Fresh, Unread
        <3>2. EndLine(A.tokens) = A.tokens
            BY EndedTokens
        <3>. QED
            BY <1>7, <3>1, <3>2 DEF B, Behind
    <2>2. x = <<>> /\ y = <<>>
        <3>1. s.tokens = <<>> /\ s.indents = <<0>> /\ Len(<<0>>) - 1 = 0
            BY <1>8 DEF Fresh, Unread
        <3>2. EndLine(<<>>) = <<>> /\ Repeat("DEDENT", 0) = <<>>
            BY DEF EndLine, Repeat
        <3>. QED
            BY <3>1, <3>2
    <2>3. TokensAt(s) = z
        <3>1. TokensAt(s) = (<<>> \o <<>>) \o z
            BY <1>3, <2>2
        <3>. QED
            BY <1>2, <3>1, ConcatEmptySeq, EmptySeq
    <2>. QED
        BY <2>1, <2>3 DEF B
<1>9. CASE s.tokens # <<>> /\ Joined(A, s, t)
    <2>1. t.tokens = B \o s.tokens /\ t.indents = s.indents
        BY <1>9 DEF Joined, B
    <2>2. EndLine(B \o s.tokens) = B \o x
        <3>1. \A w \in Seq(W) : w # <<>> => EndLine(B \o w) = B \o EndLine(w)
            BY <1>1, EndLineBehind
        <3>. QED
            BY <1>1, <1>9, <3>1
    <2>3. TokensAt(t) = ((B \o x) \o y) \o z
        BY <1>7, <2>1, <2>2
    <2>. HIDE DEF x, y, z
    <2>4. B \o x \in Seq(W) /\ (B \o x) \o (y \o z) = B \o (x \o (y \o z))
        <3>1. \A u, v, w \in Seq(W) : u \o v \in Seq(W) /\ (u \o v) \o w = u \o (v \o w)
            BY ConcatProperties, ConcatAssociative
        <3>2. y \o z \in Seq(W)
            BY <1>2, <3>1
        <3>. QED
            BY <1>1, <1>2, <3>1, <3>2
    <2>5. ((B \o x) \o y) \o z = (B \o x) \o (y \o z) /\ (x \o y) \o z = x \o (y \o z)
        BY <1>2, <1>4, <2>4
    <2>. QED
        BY <1>3, <2>3, <2>4, <2>5 DEF B
<1>. QED
    BY <1>6, <1>8, <1>9

(* The states that the lexer goes through along m lines are one sequence.  *)
Along(e, m, lines) == e[0] = Start /\ \A k \in 1 .. m : e[k] = ScanLine(e[k - 1], lines[k])

LEMMA SameRun ==
    ASSUME NEW m \in Nat, NEW lines, NEW e, NEW f, Along(e, m, lines), Along(f, m, lines)
    PROVE  e[m] = f[m]
<1>1. ASSUME NEW k \in 1 .. m, e[k - 1] = f[k - 1]
      PROVE  e[k] = f[k]
    BY <1>1 DEF Along
<1>2. e[0] = f[0]
    BY DEF Along
<1>3. \A k \in 0 .. m : e[k] = f[k]
    <2>1. Alike(m, e, f)
        BY <1>1 DEF Alike
    <2>. QED
        BY <1>2, <2>1, Unique
<1>. QED
    BY <1>3

(* The tokens of a text after a text are those of both: the end of the     *)
(* first is where the second begins, in layout too, whatever comments and  *)
(* indentation the two have.  What must not be: a bracket that the first   *)
(* leaves open, and a second that begins with an INDENT.                   *)
THEOREM TokensCompose ==
    ASSUME NEW S, Apart(S), NEW a \in Seq(Seq(S)), NEW b \in Seq(Seq(S)),
           Tokenize(a) # Rejected, OpenBrackets(Tokenize(a)) = 0,
           Tokenize(b) # Rejected, ~ Indented(Tokenize(b))
    PROVE  Tokenize(a \o b) = Front(Tokenize(a)) \o Tokenize(b)
<1>. DEFINE ab == a \o b
<1>0. PICK m \in Nat, n \in Nat : m = Len(a) /\ n = Len(b)
    OBVIOUS
<1>1. /\ ab \in Seq(Seq(S)) /\ Len(ab) = m + n
      /\ \A k \in 1 .. m : ab[k] = a[k]
      /\ \A k \in 1 .. n : ab[m + k] = b[k]
    BY <1>0, ConcatProperties
<1>2. PICK g \in [0 .. m -> Lexing(S)] :
          /\ g[0] = Start /\ \A k \in 1 .. m : g[k] = ScanLine(g[k - 1], a[k])
          /\ Tokenize(a) = TokensAt(g[m])
    BY <1>0, TextRuns
<1>3. PICK h \in [0 .. n -> Lexing(S)] :
          /\ h[0] = Start /\ \A k \in 1 .. n : h[k] = ScanLine(h[k - 1], b[k])
          /\ Tokenize(b) = TokensAt(h[n])
    BY <1>0, TextRuns
<1>. HIDE DEF ab
<1>4. PICK f :
          /\ \A k \in 0 .. m + n : f[k] \in Lexing(S)
          /\ f[0] = Start /\ \A k \in 1 .. m + n : f[k] = ScanLine(f[k - 1], ab[k])
          /\ Tokenize(ab) = TokensAt(f[m + n])
    <2>1. PICK e \in [0 .. Len(ab) -> Lexing(S)] :
              /\ e[0] = Start /\ \A k \in 1 .. Len(ab) : e[k] = ScanLine(e[k - 1], ab[k])
              /\ Tokenize(ab) = TokensAt(e[Len(ab)])
        BY <1>1, TextRuns
    <2>. QED
        BY <1>1, <2>1
<1>5. f[m] = g[m]
    <2>1. Along(f, m, a)
        BY <1>1, <1>4 DEF Along
    <2>2. Along(g, m, a)
        BY <1>2 DEF Along
    <2>. QED
        BY <2>1, <2>2, SameRun
<1>. DEFINE A == g[m]
<1>6. A \in Lexing(S) /\ Ended(A)
    <2>1. A \in Lexing(S)
        OBVIOUS
    <2>2. Deep(A) /\ AtLineEnd(A)
        BY <1>0, <1>2, TextEnds
    <2>. QED
        BY <1>2, <2>1, <2>2, TextEnded
<1>. DEFINE P == {k \in 0 .. n : Follows(A, h[k], f[m + k])}
<1>7. 0 \in P /\ P \in SUBSET (0 .. n)
    <2>1. h[0] = Start /\ f[m + 0] = A
        BY <1>3, <1>5
    <2>2. SameLine(Start, A) /\ Fresh(A, Start, A)
        BY <1>6 DEF SameLine, Fresh, Unread, Ended, Within, Start
    <2>. QED
        BY <2>1, <2>2 DEF Follows
<1>8. ASSUME NEW k \in 1 .. n, k - 1 \in P
      PROVE  k \in P
    <2>0. k \in 0 .. n /\ k - 1 \in 0 .. n
        OBVIOUS
    <2>1. /\ k \in 0 .. n /\ m + k \in 1 .. m + n /\ (m + k) - 1 = m + (k - 1)
          /\ h[k - 1] \in Lexing(S) /\ m + (k - 1) \in 0 .. m + n
        <3>1. h[k - 1] \in Lexing(S)
            BY <2>0
        <3>2. m + k \in 1 .. m + n /\ (m + k) - 1 = m + (k - 1) /\ m + (k - 1) \in 0 .. m + n
            OBVIOUS
        <3>. QED
            BY <2>0, <3>1, <3>2
    <2>2. f[m + (k - 1)] \in Lexing(S) /\ Follows(A, h[k - 1], f[m + (k - 1)]) /\ b[k] \in Seq(S)
        BY <1>0, <1>4, <1>8, <2>1
    <2>3. Follows(A, ScanLine(h[k - 1], b[k]), ScanLine(f[m + (k - 1)], b[k]))
        BY <1>6, <2>1, <2>2, ScanLineFollows
    <2>4. h[k] = ScanLine(h[k - 1], b[k]) /\ f[m + k] = ScanLine(f[m + (k - 1)], b[k])
        BY <1>1, <1>3, <1>4, <2>1
    <2>. QED
        BY <2>1, <2>3, <2>4
<1>9. Follows(A, h[n], f[m + n])
    <2>. HIDE DEF P
    <2>1. \A k \in 0 .. n : k \in P
        BY <1>7, <1>8, CountUp
    <2>2. n \in P
        BY <2>1
    <2>. QED
        BY <2>2 DEF P
<1>. HIDE DEF P
<1>10. TokensAt(f[m + n]) = Behind(A) \o TokensAt(h[n])
    <2>1. h[n] \in Lexing(S) /\ f[m + n] \in Lexing(S)
        BY <1>4
    <2>. QED
        BY <1>3, <1>6, <1>9, <2>1, JoinedTokens
<1>11. Front(Tokenize(a)) = Behind(A)
    <2>1. Tokenize(a) = Behind(A) \o <<"EOF">>
        BY <1>2, <1>6, EndedTokens
    <2>2. Behind(A) \in Seq(S \cup LayoutTokens)
        BY <1>6, BehindTokens
    <2>. DEFINE B == Behind(A)
    <2>. HIDE DEF B
    <2>3. B \in Seq(S \cup LayoutTokens \cup {"EOF"})
        BY <2>2, SeqMonotonic DEF B
    <2>4. Front(B \o <<"EOF">>) = B
        BY <2>3, ConcatProperties, SubSeqProperties DEF Front
    <2>. QED
        BY <2>1, <2>4 DEF B
<1>. QED
    BY <1>2, <1>3, <1>4, <1>10, <1>11 DEF ab
=============================================================================

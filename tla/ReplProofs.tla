----------------------------- MODULE ReplProofs -----------------------------
(***************************************************************************)
(* The REPL hands the parser well-formed layout, and the machine what the  *)
(* user meant, for any vocabulary and compiler and any parser that reads   *)
(* tokens one statement after the other.                                   *)
(***************************************************************************)
EXTENDS Repl, LayoutProofs

----------------------------------------------------------------------------
(* The REPL.                                                               *)

Texts == Seq(Seq(Symbols))

(* The buffer is what the user means.                                      *)
Typed ==
    /\ buffer \in Texts /\ meant = buffer
    /\ \A i \in DOMAIN buffer : ~Blank(buffer[i])
    /\ buffer # <<>> => NeedsMoreInput(buffer[1]) /\ ~IsMeta(buffer[1])

(* The machine has been given the programs of the accepted inputs.         *)
Handed ==
    /\ inputs \in Seq(Texts) /\ latest.text \in Texts
    /\ \A i \in DOMAIN inputs : ProgramOf(inputs[i]) # NoProgram
    /\ given = [i \in DOMAIN inputs |-> Chunk(ProgramOf(inputs[i]))]

Counted ==
    /\ vocabulary \in Vocabularies /\ over \in BOOLEAN
    /\ typed \in 0 .. vocabulary.most

ReplInv == Typed /\ Handed /\ Counted

LEMMA InvImpliesType == ReplInv => TypeOK
BY DEF ReplInv, Typed, Handed, Counted, TypeOK

LEMMA InitRepl == Init => ReplInv
<1>. SUFFICES ASSUME Init PROVE ReplInv
    OBVIOUS
<1>1. Typed
    BY DEF Init, Typed, Texts
<1>2. Handed
    BY DEF Init, Handed, Texts, Nothing
<1>3. Counted
    <2>1. vocabulary \in Vocabularies /\ typed = 0 /\ over \in BOOLEAN
        BY DEF Init
    <2>2. vocabulary.most \in Nat
        BY <2>1, VocabulariesAssumption
    <2>. QED
        BY <2>1, <2>2 DEF Counted
<1>. QED
    BY <1>1, <1>2, <1>3 DEF ReplInv

LEMMA ExecuteHands ==
    ASSUME Handed, NEW text \in Texts, Execute(text, text)
    PROVE  Handed'
<1>. DEFINE program == ProgramOf(text)
            n == Len(inputs)
<1>1. latest'.text = text
    BY DEF Execute
<1>2. inputs \in Seq(Texts) /\ n \in Nat /\ DOMAIN inputs = 1 .. n
    BY DEF Handed
<1>3. CASE program # NoProgram /\ Accepts(program)
    <2>1. given' = Append(given, Chunk(program)) /\ inputs' = Append(inputs, text)
        BY <1>3 DEF Execute
    <2>2. /\ inputs' \in Seq(Texts) /\ Len(inputs') = n + 1 /\ inputs'[n + 1] = text
          /\ \A i \in 1 .. n : inputs'[i] = inputs[i]
        BY <1>2, <2>1, AppendProperties
    <2>. DEFINE C == {Chunk(ProgramOf(inputs[i])) : i \in DOMAIN inputs} \cup {Chunk(program)}
    <2>3. given \in Seq(C) /\ Len(given) = n /\ Chunk(program) \in C
          /\ \A i \in 1 .. n : given[i] = Chunk(ProgramOf(inputs[i]))
        <3>. HIDE DEF program
        <3>1. given = [i \in 1 .. n |-> Chunk(ProgramOf(inputs[i]))]
            BY <1>2 DEF Handed
        <3>2. \A i \in 1 .. n : Chunk(ProgramOf(inputs[i])) \in C
            BY <1>2
        <3>. QED
            BY <1>2, <3>1, <3>2
    <2>. HIDE DEF C
    <2>4. /\ given' \in Seq(C) /\ Len(given') = n + 1 /\ given'[n + 1] = Chunk(program)
          /\ \A i \in 1 .. n : given'[i] = given[i]
        <3>. HIDE DEF program
        <3>. QED
            BY <2>1, <2>3, AppendProperties
    <2>5. \A i \in 1 .. n + 1 : i = n + 1 \/ i \in 1 .. n
        BY <1>2
    <2>6. \A i \in 1 .. n + 1 : given'[i] = Chunk(ProgramOf(inputs'[i]))
        BY <2>2, <2>3, <2>4, <2>5
    <2>7. DOMAIN given' = 1 .. n + 1 /\ DOMAIN inputs' = 1 .. n + 1
        BY <2>2, <2>4
    <2>8. given' = [i \in 1 .. n + 1 |-> given'[i]]
        BY <2>4, <2>7
    <2>9. given' = [i \in DOMAIN inputs' |-> Chunk(ProgramOf(inputs'[i]))]
        BY <2>6, <2>7, <2>8
    <2>10. \A i \in DOMAIN inputs' : ProgramOf(inputs'[i]) # NoProgram
        BY <1>2, <1>3, <2>2, <2>5, <2>7 DEF Handed
    <2>. QED
        BY <1>1, <2>2, <2>9, <2>10 DEF Handed
<1>4. CASE ~ (program # NoProgram /\ Accepts(program))
    <2>1. given' = given /\ inputs' = inputs
        BY <1>4 DEF Execute
    <2>. QED
        BY <1>1, <2>1 DEF Handed
<1>. QED
    BY <1>3, <1>4

(* The lines that are typed.                                               *)
LEMMA LineRepl ==
    ASSUME ReplInv, typed < vocabulary.most, NEW line \in vocabulary.lines,
           BeginInput(line) \/ ContinueInput(line) \/ EndInput(line)
    PROVE  ReplInv'
<1>1. Typed /\ Handed /\ Counted
    BY DEF ReplInv
<1>2. vocabulary.most \in Nat /\ line \in Seq(Symbols)
    BY <1>1, VocabulariesAssumption DEF Counted
<1>3. Counted'
    BY <1>1, <1>2 DEF Counted, BeginInput, ContinueInput, EndInput, TypeALine
<1>4. <<line>> \in Texts /\ Len(<<line>>) = 1 /\ <<line>>[1] = line
    BY <1>2 DEF Texts
<1>5. CASE BeginInput(line)
    <2>1. CASE NeedsMoreInput(line)
        <3>1. /\ buffer' = <<line>> /\ meant' = <<line>> /\ UNCHANGED machine
              /\ ~Blank(line) /\ ~IsMeta(line)
            BY <1>5, <2>1 DEF BeginInput
        <3>2. Typed'
            BY <1>4, <2>1, <3>1 DEF Typed
        <3>3. Handed'
            BY <1>1, <3>1 DEF Handed, machine
        <3>. QED
            BY <1>3, <3>2, <3>3 DEF ReplInv
    <2>2. CASE ~ NeedsMoreInput(line)
        <3>1. Execute(<<line>>, <<line>>) /\ buffer' = <<>> /\ meant' = <<>>
            BY <1>5, <2>2 DEF BeginInput, Submit
        <3>2. Typed'
            BY <3>1 DEF Typed, Texts
        <3>3. Handed'
            BY <1>1, <1>4, <3>1, ExecuteHands
        <3>. QED
            BY <1>3, <3>2, <3>3 DEF ReplInv
    <2>. QED
        BY <2>1, <2>2
<1>6. CASE ContinueInput(line)
    <2>1. /\ buffer # <<>> /\ ~Blank(line) /\ UNCHANGED machine
          /\ buffer' = Append(buffer, line) /\ meant' = Append(meant, line)
        BY <1>6 DEF ContinueInput, InInput
    <2>. DEFINE n == Len(buffer)
    <2>2. /\ buffer \in Texts /\ n \in Nat /\ n >= 1 /\ DOMAIN buffer = 1 .. n
        BY <1>1, <2>1, EmptySeq DEF Typed, Texts
    <2>3. /\ buffer' \in Texts /\ Len(buffer') = n + 1 /\ buffer'[n + 1] = line
          /\ \A i \in 1 .. n : buffer'[i] = buffer[i]
        BY <1>2, <2>1, <2>2, AppendProperties DEF Texts
    <2>4. DOMAIN buffer' = 1 .. n + 1
        BY <2>3 DEF Texts
    <2>5. \A i \in 1 .. n + 1 : ~Blank(buffer'[i])
        BY <1>1, <2>1, <2>2, <2>3 DEF Typed
    <2>6. buffer'[1] = buffer[1]
        BY <2>2, <2>3
    <2>7. Typed'
        BY <1>1, <2>1, <2>3, <2>4, <2>5, <2>6 DEF Typed
    <2>8. Handed'
        BY <1>1, <2>1 DEF Handed, machine
    <2>. QED
        BY <1>3, <2>7, <2>8 DEF ReplInv
<1>7. CASE EndInput(line)
    <2>1. Execute(buffer, buffer) /\ buffer' = <<>> /\ meant' = <<>>
        BY <1>1, <1>7 DEF EndInput, Submit, Typed
    <2>2. Typed'
        BY <2>1 DEF Typed, Texts
    <2>3. Handed'
        BY <1>1, <2>1, ExecuteHands DEF Typed
    <2>. QED
        BY <1>3, <2>2, <2>3 DEF ReplInv
<1>. QED
    BY <1>5, <1>6, <1>7

(* The signals and the commands.                                           *)
LEMMA SignalRepl ==
    ASSUME ReplInv, Interrupt \/ EndOfInput \/ UNCHANGED vars
    PROVE  ReplInv'
<1>1. Typed'
    <2>1. CASE Interrupt
        <3>1. buffer' = <<>> /\ meant' = <<>>
            BY <2>1 DEF Interrupt
        <3>. QED
            BY <3>1 DEF Typed, Texts
    <2>2. CASE EndOfInput \/ UNCHANGED vars
        BY <2>2 DEF ReplInv, Typed, EndOfInput, vars
    <2>. QED
        BY <2>1, <2>2
<1>2. Handed'
    BY DEF ReplInv, Handed, Interrupt, EndOfInput, vars, machine
<1>3. Counted'
    BY DEF ReplInv, Counted, Interrupt, EndOfInput, vars
<1>. QED
    BY <1>1, <1>2, <1>3 DEF ReplInv

LEMMA CommandRepl ==
    ASSUME ReplInv, typed < vocabulary.most,
           Exit \/ Reset \/ \E file \in vocabulary.files : Load(file)
    PROVE  ReplInv'
<1>1. Typed /\ Handed /\ Counted
    BY DEF ReplInv
<1>2. vocabulary.most \in Nat /\ vocabulary.files \subseteq Texts
    BY <1>1, VocabulariesAssumption DEF Counted, Texts
<1>3. Typed'
    BY <1>1 DEF Typed, Exit, Reset, Load
<1>4. Counted'
    <2>1. typed' = typed + 1 /\ vocabulary' = vocabulary
        BY DEF Exit, Reset, Load, Command
    <2>2. over' \in BOOLEAN
        BY <1>1 DEF Counted, Exit, Reset, Load
    <2>3. typed' \in 0 .. vocabulary.most
        BY <1>1, <1>2, <2>1 DEF Counted
    <2>. QED
        BY <1>1, <2>1, <2>2, <2>3 DEF Counted
<1>5. Handed'
    <2>1. CASE Exit
        BY <1>1, <2>1 DEF Handed, Exit, machine
    <2>2. CASE Reset
        <3>1. inputs' = <<>> /\ given' = <<>> /\ latest' = latest
            BY <2>2 DEF Reset
        <3>. QED
            BY <1>1, <3>1 DEF Handed
    <2>3. ASSUME NEW file \in vocabulary.files, Load(file)
          PROVE  Handed'
        BY <1>1, <1>2, <2>3, ExecuteHands DEF Load
    <2>. QED
        BY <2>1, <2>2, <2>3
<1>. QED
    BY <1>3, <1>4, <1>5 DEF ReplInv

THEOREM ReplInvariance == Spec => []ReplInv
<1>1. ReplInv /\ [Next]_vars => ReplInv'
    BY LineRepl, SignalRepl, CommandRepl DEF Next
<1>. QED
    BY <1>1, InitRepl, PTL DEF Spec

(* The variables keep their types; an input that waits for more has begun  *)
(* with a line that asks for more, and no blank line is in it.             *)
THEOREM TypeCorrect == Spec => []TypeOK
BY ReplInvariance, InvImpliesType, PTL

(* Whatever is typed or loaded, the tokens that reach the parser are well  *)
(* formed.                                                                 *)
THEOREM LayoutNestsHolds == Spec => []LayoutNests
<1>1. ReplInv => LayoutNests
    <2>. SUFFICES ASSUME ReplInv, Tokenize(latest.text) # Rejected
                  PROVE  WellFormed(Tokenize(latest.text))
        BY DEF LayoutNests
    <2>1. latest.text \in Seq(Seq(Symbols)) /\ Apart(Symbols)
        BY SymbolsAssumption DEF ReplInv, Handed, Texts, Apart
    <2>. QED
        BY <2>1, TokensAreWellFormed
<1>. QED
    BY <1>1, ReplInvariance, PTL

----------------------------------------------------------------------------
(* The session and the file.                                               *)

(* What is asked of the parser.  The program is a function of the tokens   *)
(* and a sequence of statements.  What is a program leaves no bracket open *)
(* and does not begin inside a block; and the tokens of a program after    *)
(* those of a program are read as both, one after the other.               *)
Read == {Tokenize(a) : a \in Texts}
ReadsTokens(Tree, Statements) ==
    /\ \A a \in Texts : ProgramOf(a) = Tree[Tokenize(a)]
    /\ Tree[Rejected] = NoProgram
    /\ Tree[<<"EOF">>] # NoProgram /\ Tree[<<"EOF">>].kids = <<>>
    /\ \A u \in Read : Tree[u] # NoProgram => Joinable(u) /\ Tree[u].kids \in Seq(Statements)
    /\ \A u, v \in Read :
          Tree[u] # NoProgram /\ Tree[v] # NoProgram /\ ~GoesOn(u, v) =>
              /\ Tree[Front(u) \o v] # NoProgram
              /\ Tree[Front(u) \o v].kids = Tree[u].kids \o Tree[v].kids

(* It then reads texts so, because the tokens of texts compose.            *)
ParserComposes(Statements) ==
    /\ \A a \in Texts : ProgramOf(a) # NoProgram => ProgramOf(a).kids \in Seq(Statements)
    /\ ProgramOf(<<>>) # NoProgram /\ ProgramOf(<<>>).kids = <<>>
    /\ \A a, b \in Texts :
          ProgramOf(a) # NoProgram /\ ProgramOf(b) # NoProgram /\ ~GoesOn(Tokenize(a), Tokenize(b)) =>
              /\ ProgramOf(a \o b) # NoProgram
              /\ ProgramOf(a \o b).kids = ProgramOf(a).kids \o ProgramOf(b).kids

LEMMA TokensOfNothing == Tokenize(<<>>) = <<"EOF">>
<1>1. <<>> \in Seq(Seq({})) /\ Len(<<>>) = 0 /\ Apart({})
    BY EmptySeq DEF Apart
<1>2. PICK g : g[0] = Start /\ Tokenize(<<>>) = TokensAt(g[Len(<<>>)])
    BY <1>1, TextRuns
<1>3. Tokenize(<<>>) = TokensAt(Start)
    BY <1>1, <1>2
<1>4. TokensAt(Start) = EndLine(<<>>) \o Repeat("DEDENT", 0) \o <<"EOF">>
    BY DEF TokensAt, Start
<1>5. EndLine(<<>>) = <<>> /\ Repeat("DEDENT", 0) = <<>>
    BY DEF EndLine, Repeat
<1>6. (<<>> \o <<>>) \o <<"EOF">> = <<"EOF">>
    <2>1. <<"EOF">> \in Seq({"EOF"}) /\ <<>> \in Seq({"EOF"})
        BY EmptySeq
    <2>. QED
        BY <2>1, ConcatEmptySeq
<1>. QED
    BY <1>3, <1>4, <1>5, <1>6

LEMMA TextsAreRead ==
    ASSUME NEW Tree, NEW Statements, ReadsTokens(Tree, Statements)
    PROVE  ParserComposes(Statements)
<1>1. \A a \in Texts : ProgramOf(a) = Tree[Tokenize(a)] /\ Tokenize(a) \in Read
    BY DEF ReadsTokens, Read
<1>2. \A a \in Texts : ProgramOf(a) # NoProgram => ProgramOf(a).kids \in Seq(Statements)
    BY <1>1 DEF ReadsTokens
<1>3. ProgramOf(<<>>) # NoProgram /\ ProgramOf(<<>>).kids = <<>>
    <2>1. <<>> \in Texts
        BY EmptySeq DEF Texts
    <2>. QED
        BY <1>1, <2>1, TokensOfNothing DEF ReadsTokens
<1>4. ASSUME NEW a \in Texts, NEW b \in Texts, ProgramOf(a) # NoProgram, ProgramOf(b) # NoProgram,
             ~ GoesOn(Tokenize(a), Tokenize(b))
      PROVE  /\ ProgramOf(a \o b) # NoProgram
             /\ ProgramOf(a \o b).kids = ProgramOf(a).kids \o ProgramOf(b).kids
    <2>. DEFINE u == Tokenize(a)
                v == Tokenize(b)
    <2>1. /\ u \in Read /\ v \in Read /\ Tree[u] = ProgramOf(a) /\ Tree[v] = ProgramOf(b)
          /\ Tree[u] # NoProgram /\ Tree[v] # NoProgram
        BY <1>1, <1>4
    <2>2. u # Rejected /\ v # Rejected /\ Joinable(u) /\ Joinable(v)
        BY <2>1 DEF ReadsTokens
    <2>3. a \in Seq(Seq(Symbols)) /\ b \in Seq(Seq(Symbols)) /\ Apart(Symbols)
        BY SymbolsAssumption DEF Texts, Apart
    <2>4. Tokenize(a \o b) = Front(u) \o v
        BY <2>2, <2>3, TokensCompose DEF Joinable
    <2>5. a \o b \in Texts
        BY <2>3, ConcatProperties DEF Texts
    <2>6. ProgramOf(a \o b) = Tree[Front(u) \o v]
        BY <1>1, <2>4, <2>5
    <2>. HIDE DEF u, v
    <2>7. ~ GoesOn(u, v)
        BY <1>4 DEF u, v
    <2>8. /\ Tree[Front(u) \o v] # NoProgram
          /\ Tree[Front(u) \o v].kids = Tree[u].kids \o Tree[v].kids
        BY <2>1, <2>7 DEF ReadsTokens
    <2>. QED
        BY <2>1, <2>6, <2>8
<1>. QED
    BY <1>2, <1>3, <1>4 DEF ParserComposes

LEMMA InputsAreAFile ==
    ASSUME NEW Statements, ParserComposes(Statements), Handed
    PROVE  SessionIsFile
<1>. DEFINE n == Len(inputs)
            bodies == [i \in DOMAIN given |-> given[i].body]
<1>. SUFFICES ASSUME \A i \in DOMAIN inputs : StandsAlone(i)
              PROVE  ProgramOf(Text).kids = FlattenSeq(bodies)
    BY DEF SessionIsFile
<1>1. inputs \in Seq(Seq(Seq(Symbols))) /\ n \in Nat /\ DOMAIN inputs = 1 .. n
    BY DEF Handed, Texts
<1>2. \A i \in 1 .. n : inputs[i] \in Texts /\ ProgramOf(inputs[i]) # NoProgram
    <2>1. inputs \in Seq(Texts) /\ \A i \in DOMAIN inputs : ProgramOf(inputs[i]) # NoProgram
        BY DEF Handed
    <2>2. \A i \in 1 .. n : inputs[i] \in Texts
        BY <2>1, ElementOfSeq
    <2>. QED
        BY <1>1, <2>1, <2>2
<1>3. /\ bodies \in Seq(Seq(Statements)) /\ Len(bodies) = n
      /\ \A i \in 1 .. n : bodies[i] = ProgramOf(inputs[i]).kids
    <2>1. DOMAIN given = 1 .. n /\ \A i \in 1 .. n : given[i] = Chunk(ProgramOf(inputs[i]))
        BY <1>1 DEF Handed
    <2>2. \A i \in 1 .. n : given[i].body = ProgramOf(inputs[i]).kids
        BY <2>1 DEF Chunk
    <2>3. \A i \in 1 .. n : ProgramOf(inputs[i]).kids \in Seq(Statements)
        BY <1>2 DEF ParserComposes
    <2>4. bodies = [i \in 1 .. n |-> ProgramOf(inputs[i]).kids]
        BY <2>1, <2>2
    <2>5. [i \in 1 .. n |-> ProgramOf(inputs[i]).kids] \in Seq(Seq(Statements))
        BY <1>1, <2>3, IsASeq
    <2>. HIDE DEF bodies
    <2>6. DOMAIN bodies = 1 .. n /\ bodies \in Seq(Seq(Statements))
        BY <2>4, <2>5
    <2>. QED
        BY <1>1, <2>4, <2>6
<1>. HIDE DEF bodies
<1>4. PICK f \in [0 .. n -> Seq(Seq(Symbols))] :
          /\ f[0] = <<>>
          /\ \A k \in 1 .. n : f[k] = f[k - 1] \o inputs[k]
          /\ \A k \in 0 .. n : FlattenSeq(SubSeq(inputs, 1, k)) = f[k]
    BY <1>1, FlattenProperties
<1>5. PICK h \in [0 .. n -> Seq(Statements)] :
          /\ h[0] = <<>>
          /\ \A k \in 1 .. n : h[k] = h[k - 1] \o bodies[k]
          /\ \A k \in 0 .. n : FlattenSeq(SubSeq(bodies, 1, k)) = h[k]
    <2>1. bodies \in Seq(Seq(Statements)) /\ n = Len(bodies)
        BY <1>3
    <2>. HIDE DEF n
    <2>2. \E h \in [0 .. Len(bodies) -> Seq(Statements)] :
              /\ h[0] = <<>>
              /\ \A k \in 1 .. Len(bodies) : h[k] = h[k - 1] \o bodies[k]
              /\ \A k \in 0 .. Len(bodies) : FlattenSeq(SubSeq(bodies, 1, k)) = h[k]
        BY <2>1, FlattenProperties
    <2>. QED
        BY <2>1, <2>2
<1>. HIDE DEF n
<1>. DEFINE P == {k \in 0 .. n : ProgramOf(f[k]) # NoProgram /\ ProgramOf(f[k]).kids = h[k]}
<1>6. 0 \in P /\ P \in SUBSET (0 .. n)
    BY <1>1, <1>4, <1>5 DEF ParserComposes
<1>7. ASSUME NEW k \in 1 .. n, k - 1 \in P
      PROVE  k \in P
    <2>1. k \in 0 .. n /\ k - 1 \in 0 .. n
        BY <1>1
    <2>2. f[k - 1] \in Texts /\ inputs[k] \in Texts /\ ProgramOf(inputs[k]) # NoProgram
        BY <1>2, <2>1 DEF Texts
    <2>3. ProgramOf(f[k - 1]) # NoProgram /\ ProgramOf(f[k - 1]).kids = h[k - 1]
        BY <1>7
    <2>4. ~ GoesOn(Tokenize(f[k - 1]), Tokenize(inputs[k]))
        BY <1>1, <1>4, <2>1 DEF StandsAlone
    <2>5. /\ ProgramOf(f[k - 1] \o inputs[k]) # NoProgram
          /\ ProgramOf(f[k - 1] \o inputs[k]).kids = ProgramOf(f[k - 1]).kids \o ProgramOf(inputs[k]).kids
        BY <2>2, <2>3, <2>4 DEF ParserComposes
    <2>6. f[k] = f[k - 1] \o inputs[k] /\ h[k] = h[k - 1] \o ProgramOf(inputs[k]).kids
        BY <1>3, <1>4, <1>5
    <2>. QED
        BY <2>1, <2>3, <2>5, <2>6
<1>8. n \in P
    <2>. HIDE DEF P
    <2>1. \A k \in 0 .. n : k \in P
        BY <1>1, <1>6, <1>7, CountUp
    <2>. QED
        BY <1>1, <2>1
<1>9. SubSeq(inputs, 1, n) = inputs /\ SubSeq(bodies, 1, n) = bodies
    BY <1>1, <1>3, SubSeqFull DEF n
<1>10. Text = f[n] /\ FlattenSeq(bodies) = h[n]
    <2>1. n \in 0 .. n
        BY <1>1
    <2>. QED
        BY <1>4, <1>5, <1>9, <2>1 DEF Text
<1>. QED
    BY <1>8, <1>10

(* Whatever parser reads tokens so, the machine is given what the accepted *)
(* inputs would have given it as one file: the REPL loses no line, runs    *)
(* none twice, and keeps none of an input that was interrupted or          *)
(* rejected.                                                               *)
THEOREM SessionIsFileHolds ==
    ASSUME NEW CONSTANT Tree, NEW CONSTANT Statements, ReadsTokens(Tree, Statements)
    PROVE  Spec => []SessionIsFile
<1>1. ReplInv => SessionIsFile
    BY TextsAreRead, InputsAreAFile DEF ReplInv
<1>. QED
    BY <1>1, ReplInvariance, PTL
=============================================================================

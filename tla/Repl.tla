-------------------------------- MODULE Repl --------------------------------
(***************************************************************************)
(* The REPL (src/src/versetools/repl.py) up to the machine: typed lines    *)
(* are collected to inputs, an input is read by the lexer and the parser,  *)
(* and what both and the compiler accept is handed to the one VM of the    *)
(* session.  What the VM then does is in Scheduler and Frame.              *)
(*                                                                         *)
(* The parser and the compiler are parameters; Session gives them.         *)
(***************************************************************************)
EXTENDS Layout

CONSTANTS
    Symbols,             \* what may be typed: see Layout
    Vocabularies,        \* each has the lines that may be typed, how many of them (most),
                         \* and the files that may be loaded
    ProgramOf(_),        \* the program of a text, or ...
    NoProgram,           \* ... that there is none
    Accepts(_)           \* whether the compiler takes a program

ASSUME SymbolsAssumption == Symbols \cap (LayoutTokens \cup {"EOF"}) = {}
ASSUME VocabulariesAssumption ==
    \A v \in Vocabularies :
        /\ v.most \in Nat
        /\ v.lines \subseteq Seq(Symbols)
        /\ v.files \subseteq Seq(Seq(Symbols))

VARIABLES vocabulary,    \* one of Vocabularies
          typed,         \* how many lines have been typed
          buffer,        \* the lines of an input that needs more
          given,         \* what has been handed to the VM since it was made, with its echo
          latest,        \* the text that was last read, and its program
          over,          \* the session has ended
          meant,         \* what the user has typed since the last verse> prompt ...
          inputs         \* ... and the inputs of that kind that have been accepted

vars == <<vocabulary, typed, buffer, given, latest, over, meant, inputs>>
machine == <<given, latest, inputs>>
Text == FlattenSeq(inputs)

----------------------------------------------------------------------------
(* _needs_more_input and _bracket_depth, which look at a line as it is     *)
(* written, comments included.                                             *)
Blanks == {" ", Tab}
Blank(line) == \A i \in DOMAIN line : line[i] \in Blanks
FirstOf(line) == line[SelectInSeq(line, LAMBDA c : c \notin Blanks)]
LastOf(line)  == line[SelectLastInSeq(line, LAMBDA c : c \notin Blanks)]
IsMeta(line) == FirstOf(line) \in {":", ":="}                        \* begins with a ":"
BracketDepth(line) ==
    Len(SelectSeq(line, LAMBDA c : c \in Opening)) - Len(SelectSeq(line, LAMBDA c : c \in Closing))
NeedsMoreInput(line) ==
    BracketDepth(line) > 0 \/ LastOf(line) \in {":", "=", ":=", "<=", ">="}     \* ends with ":" or "="

----------------------------------------------------------------------------
(* _execute.  A program that is one expression is compiled so that its     *)
(* value is returned and shown.                                            *)
Chunk(program) ==
    [body |-> program.kids, echo |-> Len(program.kids) = 1 /\ program.kids[1].op = "expr"]
Execute(text, input) ==
    LET program == ProgramOf(text)
    IN  /\ latest' = [text |-> text, program |-> program]
        /\ IF program # NoProgram /\ Accepts(program)
           THEN given' = Append(given, Chunk(program)) /\ inputs' = Append(inputs, input)
           ELSE UNCHANGED <<given, inputs>>

Submit(text, input) ==
    /\ Execute(text, input)
    /\ buffer' = <<>> /\ meant' = <<>>

----------------------------------------------------------------------------
(* Repl.run: a line at the verse> prompt, at the ...> prompt, or a signal. *)
AtPrompt == ~over /\ buffer = <<>>
InInput  == ~over /\ buffer # <<>>
TypeALine == typed' = typed + 1 /\ UNCHANGED <<vocabulary, over>>
BeginInput(line) ==
    /\ AtPrompt /\ TypeALine
    /\ ~Blank(line) /\ ~IsMeta(line)
    /\ IF NeedsMoreInput(line)
       THEN buffer' = <<line>> /\ meant' = <<line>> /\ UNCHANGED machine
       ELSE Submit(<<line>>, <<line>>)

(* Mutant of ContinueInput: only a line of length zero ends an input.      *)
ContinueUnlessEmpty(line) ==
    /\ InInput /\ TypeALine
    /\ line # <<>>
    /\ buffer' = Append(buffer, line) /\ meant' = Append(meant, line)
    /\ UNCHANGED machine

ContinueInput(line) ==
    /\ InInput /\ TypeALine
    /\ ~Blank(line)
    /\ buffer' = Append(buffer, line) /\ meant' = Append(meant, line)
    /\ UNCHANGED machine
EndInput(line) ==
    /\ InInput /\ TypeALine
    /\ Blank(line)
    /\ Submit(buffer, meant)

(* Mutant of Interrupt: the buffer is not emptied.                         *)
InterruptLine ==
    /\ InInput
    /\ meant' = <<>>
    /\ UNCHANGED <<vocabulary, typed, machine, over, buffer>>

Interrupt ==                                                         \* Ctrl-C
    /\ InInput
    /\ buffer' = <<>> /\ meant' = <<>>
    /\ UNCHANGED <<vocabulary, typed, machine, over>>
EndOfInput ==                                                        \* Ctrl-D
    /\ ~over
    /\ over' = TRUE
    /\ UNCHANGED <<vocabulary, typed, buffer, machine, meant>>

(* Commands, which are read at the verse> prompt only.                     *)
Command == AtPrompt /\ typed' = typed + 1
Exit == Command /\ over' = TRUE /\ UNCHANGED <<vocabulary, buffer, machine, meant>>
Reset ==
    /\ Command
    /\ given' = <<>> /\ inputs' = <<>>
    /\ UNCHANGED <<vocabulary, buffer, latest, over, meant>>
Load(file) ==
    /\ Command
    /\ Execute(file, file)
    /\ UNCHANGED <<vocabulary, buffer, over, meant>>

Nothing == [text |-> <<>>, program |-> NoProgram]
Init ==
    /\ vocabulary \in Vocabularies
    /\ typed = 0 /\ buffer = <<>> /\ meant = <<>> /\ over = FALSE
    /\ given = <<>> /\ inputs = <<>> /\ latest = Nothing
Next ==
    \/ typed < vocabulary.most /\ \E line \in vocabulary.lines :
          BeginInput(line) \/ ContinueInput(line) \/ EndInput(line)
    \/ Interrupt \/ EndOfInput
    \/ typed < vocabulary.most /\ vocabulary.files # {} /\
          (Exit \/ Reset \/ \E file \in vocabulary.files : Load(file))
Spec == Init /\ [][Next]_vars

----------------------------------------------------------------------------
TypeOK ==
    /\ vocabulary \in Vocabularies /\ typed \in 0 .. vocabulary.most
    /\ over \in BOOLEAN
    /\ \A i \in DOMAIN buffer : ~Blank(buffer[i])
    /\ buffer # <<>> => NeedsMoreInput(buffer[1]) /\ ~IsMeta(buffer[1])
    /\ Len(given) = Len(inputs)

(* A block expression is not ended by a newline, so a next line that       *)
(* begins with "(" or "-" goes on with it; as an input it stands alone.    *)
(* (This leaves out such a line behind any block, also behind one of a     *)
(* statement, which ends there in both.)                                   *)
GoesOn(tokens, next) ==
    /\ Head(next) \in {"(", "-"}
    /\ Len(tokens) > 1 /\ tokens[Len(tokens) - 1] = "DEDENT"
StandsAlone(i) == ~GoesOn(Tokenize(FlattenSeq(SubSeq(inputs, 1, i - 1))), Tokenize(inputs[i]))

(* The machine has been given what the same inputs would have given it as  *)
(* one file: no line is lost, run twice, or left over from an input that   *)
(* was interrupted or rejected.                                            *)
SessionIsFile ==
    (\A i \in DOMAIN inputs : StandsAlone(i)) =>
        ProgramOf(Text).kids = FlattenSeq([i \in DOMAIN given |-> given[i].body])

(* Whatever has been typed or loaded, comments, brackets and blank lines   *)
(* anywhere: the lexer hands the parser blocks that nest and lines that    *)
(* end once, or an error.                                                  *)
LayoutNests ==
    LET tokens == Tokenize(latest.text) IN tokens # Rejected => WellFormed(tokens)
=============================================================================

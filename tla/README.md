# A model of verse-tools

verse-tools runs programs in Verse-core, a small language with failure as
control flow and cooperative tasks. A source file or a REPL input goes through
lexer, parser, optionally the type checker, and compiler; the virtual machine
executes the bytecode. This directory holds TLA+ modules of the program from
the typed line to the task: the REPL with the lexer and the parser behind it, the
strict type checker beside the VM that executes what it accepts, the compiler with
the frame machine, the environments that frames and tasks share, and the scheduler.
TLC configurations check them on small instances, and TLAPS proofs show what is
most important about the scheduler, the compiler, the frame machine, the environments,
the lexer's layout and the REPL for every instance.

Paths below are relative to the repository; `vm.py` stands for
`src/versetools/vm.py`, and so on.

## Inventory

| Component | State | Operations | Talks to | Hard behaviour | What makes it correct |
|---|---|---|---|---|---|
| Scheduler (`vm.py`: `run_chunk`, `_drain`, `_tick_all`, SPAWN, SYNC, RACE; `VTask`) | `scheduler_tasks`, each task's generator, `done`, `failed`; the Python call stack of walks | start a statement, spawn, fork and end a join, visit a task, drain | frames (a task is a generator of a frame), REPL and CLI | walks inside walks, a list rebound while it is iterated, errors that unwind half of a walk, cancellation, polling | no task lost, served equally, cancelled for good, statements end, `sync`/`race` mean what they say |
| Frame machine (`vm.py`: `_exec_frame`, `_call`) | per frame: program counter, operand stack, scope, handlers; the stack of calls | one per opcode | compiler (bytecode), environments, value operations | `VerseFailure` in the middle of an expression, through callers without handlers | stack, scope and handlers are those of the instruction; no operand, handler or scope is ever missing |
| Compiler (`compiler.py`, `bytecode.py`) | a chunk, the open scopes, the enclosing loops with jumps to patch | one per kind of node | parser (tree), frame machine | jumps out of nested scopes, two ways to one address | the bytecode does what the source means |
| Environments (`values.py`: `Environment`) | a tree of scopes, shared by closures | define, get, set | frames, tasks | tasks that share names; scopes entered once per loop | a frame stays among its own scopes; an assignment reaches the variable it read, and overwrites nothing it could not have seen |
| Value operations (`vm.py` helpers, `values.py`) | none but the values | arithmetic, indexing, options | frames | integers beyond 2^53, host equality and hashing | give what the checker says they give |
| Classes (`vm.py`: `_make_class`, `_build_instance`) | class objects, instances | declare, build, look up members | environments, frames (default chunks) | default chunks run to the end inside one instruction; members declared again | the most derived method and field win; a private member changes where a class that declares it allows it |
| REPL (`repl.py`) | the VM, the input buffer | read a line, run a command, execute | all | errors, interrupts, half-typed blocks | an error costs the input, not the session; a session is what one file would be |
| CLI (`cli.py`) | none | run, check, tokens, ast, dis | all | Main after a script | exit codes |
| Lexer (`lexer.py`, `tokens.py`) | indentation stack, bracket depth | one per line and token | parser | brackets across lines, dedents to no level | INDENT and DEDENT say what the off-side rule says |
| Parser (`parser.py`, `ast_nodes.py`) | position in the tokens | one per nonterminal | compiler, checker | lookahead, backtracking, statements that end in a block | the tree is that of the reference's grammar, and no word is lost |
| Type system and checker (`type_system.py`, `type_checker.py`) | scopes, classes, effects, depth of guarded clauses | one per node | CLI | cyclic bases, effects through method calls, scopes that must be those of the VM | accepts no program that then fails on types |
| Standard library (`stdlib.py`) | none | native functions | frames, checker | - | each native returns what the checker says |
| Disassembler, package, errors | none | formatting | - | - | - |

Nothing is persisted and there is one host thread, so there is no crash
recovery and no data race. The concurrency is that of generators: a task gives
up control only between two instructions, but the walk that gave it control may
have been started by any frame below it on the host's call stack.

## Modules

| Module | Models | Notes |
|---|---|---|
| `Scheduler` | `VM` and `VTask` as far as tasks go, `Repl._execute`, `:reset`, `:exit` | what a frame computes is left out |
| `StructuredConcurrency` | the promise of `spawn`, `sync`, `race` | abstract specification of `Scheduler` |
| `SchedulerProofs`, `SchedulerRefinement` | proofs about `Scheduler`: its walks, the turns of the branches of a join, and the promise it keeps | |
| `MCScheduler` | its instances | six configurations of one module |
| `Frame` | `VM._exec_frame`, `VM._call`, `_clause_result`, `_get_iter` | SPAWN, SYNC, RACE are in `Scheduler` |
| `FrameTyping` | what bytecode must satisfy: a typing of every instruction, and the properties of typed bytecode | properties only |
| `FrameProofs` | proofs about `Frame` | |
| `Compiler` | `Compiler`, `Chunk.emit` and `patch`: the code of a node from the code of its parts | no recursion of its own |
| `Compilation` | `Compiler` on whole programs | recursive over the tree: TLC only |
| `CompilerProofs` | proofs about `Compiler` and, with `FrameProofs`, about compiled programs | |
| `Meaning` | what a tree means, without bytecode | the reference `Compiler` and `Frame` are compared with |
| `MCFrame` | every program of a bounded grammar, and hand-written bytecode | two configurations |
| `Environments` | `Environment`, `VFunction`, `VM._bind_params`, `VM._spawn_function`, the opcodes that use `frame.env`, `_compile_assign` | two configurations, `MCEnvironments_*.cfg` |
| `EnvironmentsProofs` | proofs about `Environments`: types, whose scopes a frame runs in, a pending update of a local, and variables no function reaches | |
| `Types` | `type_system.py`, the class tables, `_is_subclass`, `_is_assignable`, access, interfaces | |
| `Values` | the helpers of `vm.py` on values, `VClass`, `stdlib.py` | |
| `Checker` | what `type_checker.py` infers for each operator | |
| `Strict` | checker and VM side by side over one function | composes `Values` and `Checker`; recursive over types, TLC only |
| `MCStrict` | its vocabularies | one configuration |
| `Layout` | `Lexer`: indentation, brackets, comments | functions, no state machine of its own |
| `Counting` | lemmas: counting up, functions that go on alike, sequences laid end to end | no code; for `LayoutProofs` and `CompilerProofs` |
| `LayoutProofs` | proofs about `Layout`: well-formed tokens, and the tokens of a text after a text | |
| `Parser` | `Parser` | recursive descent: TLC only |
| `Printer` | the grammar and the precedences of docs/language-reference.md | the reference `Parser` is compared with; properties only |
| `Repl` | `Repl.run`, `_handle_meta`, `_load_file`, `_execute` up to the VM | composes `Layout` with a parser and a compiler that are parameters |
| `ReplProofs` | proofs about `Repl` | |
| `Session` | `Repl` with its parser, and what the compiler refuses | composes `Repl`, `Parser` and `Types`; recursive over the tree, TLC only |
| `MCSession` | what may be typed | one configuration |

The models overlap where they meet. `Repl` ends where an input is handed to the
VM, and `Scheduler` starts there. `Scheduler` decides which task runs
and leaves open what it does; `Frame` has what one stack of frames does and no
tasks; `Environments` has the names and lets any task take the next step, which
includes every order `Scheduler` produces. `Compiler` starts from the trees that
`Parser` gives. `Strict` has the types and what the operators compute, which `Frame`
leaves open.

### Scheduler

`scheduler_tasks` is the set `sched`: tasks are numbered in the order of their
creation, and no code reorders the list, so the set and the numbers are the
list. `ticks` is the host's stack of `_tick_all` activations, each with the
element its `for` has reached and the list `still_running` it builds. The loop
iterates over the live list, so tasks appended during the walk are `Pending` in
the same walk. A frame has control (`Runs`) when the innermost walk is inside
`next` of its generator; the statement's frame when there is no walk.

A frame may do whatever its next instruction could do: compute
(`Instruction`), `Spawn`, `Fork` a sync or race, `Return`, `Fail`, or raise a
`RuntimeError`. Its fuel bounds how many instructions it executes before it
must end; the frames in `Loopers` loop for ever, and their count of turns starts again
at zero when it reaches the fuel (`NextTurn`), as a jump to the start of the loop does. A join is three actions, as
in the code: `Fork` creates the branches, `JoinTick` starts a walk while the
loop's condition is false, `SyncEnd` and `RaceEnd` resume the frame. `TickEnd`
rebinds the list, `Reenter` is the `ValueError` that Python raises when a walk
meets the task in which it was started.

### Frame

`frames` is the stack of generators of nested calls. A value keeps what control
flow looks at: whether it is false, true, an absent or present option, an
array or iterator with its number of elements, a function with its chunk. The
opcodes that compute are one opcode `EVAL` that pushes any of the values given
in its `out`; those that store are `STORE`. Each records its place in the
source, its operands and its value in `log`, which is what a run is compared
by. `Raise` is a `VerseFailure`: within one step it leaves every frame that has
no handler and resumes the innermost one that has, as the Python exception does.
It comes from POP_CHECKED and FAILABLE_UNWRAP, and from a computation that
evaluates the default value of a field or parameter and that fails. `Error` is
a `VerseRuntimeError` of a computation, and stands also for what the host raises in the
helpers on values (the TypeError of a key that cannot be hashed, the OverflowError of
`%`): no frame handles either, and which of the two it is matters outside of the frames
only. `Crash` is that the machine misses something of its own: an operand or a handler
(IndexError), the iterator of FOR_ITER (TypeError), or a scope to leave.

Left out: names (a scope is the instruction that opened it), parameter binding
(an arity error is an `Error`), and the REPL's `<expr>` chunks, which have no
control flow of their own.

### Compiler and Meaning

`Compiler` translates trees of `Programs` to chunks with the labels patched as
`_compile_if`, `_compile_for` and the others patch them. `Meaning` evaluates the
same tree on the log of an execution: it asks for the computations in the order
in which the language's description has them, and says how the program ends.
`break` outside a loop is a compile error, and no such tree is generated.

The code of a node is an operator of the code of its parts (`Expr`, `Stmt`), which come
as functions `expr` and `stmt`; `Compilation` ties the knot for TLC. A jump leads to a
label or so many instructions further, and `Resolve` patches the labels when the piece
that has their targets is complete, as the code's lists of jumps are patched. `Trees` says
what the parser and the compiler's error checks leave: finite trees, in which a `continue`
is in a loop or `for`, and a `break`, apart from what `for_break` shows, in a loop.

### Environments

`scopes` is every `Environment` created, numbered in order: `parent` is the
attribute, `sees` the chain that `get` and `set` walk, and `opener` remembers which
frame created it. `cells` are the dictionaries `vars`. A task is a stack of frames
(`threads`); its frames keep `env`, the environments their handlers restore, and
the element assignment in flight, if any. The values are arrays, and of each
element only the number of the assignment it comes from is kept, so that a
lost write is a smaller number where a larger one is due (`latest`).

Each action is one opcode, except that an assignment has its code cut where other
steps matter: `set A[i] = e` is `BeginUpdate` (LOAD_NAME of A), whatever frames,
tasks, failures and races e consists of, and `EndUpdate` (SET_INDEX on the loaded
array, SET_NAME). The grammar has statements only in blocks, and an expression
contains a block only as the body of a branch, which is a function: so while an
update is in flight its own frame starts no other assignment (`AtStatement`), but
callees and tasks may. `Caught` leaves the frames without a handler, as the Python
exception does; `Uncaught` ends a task, and the program when it is the main one;
`Abort` is a `VerseRuntimeError`. A name that is not defined is such an error, hence
the guard `Defined`. `PopScope` and `PopHandler` are enabled only where the code of
a block or expression that opened a scope or handler is what closes it; that
compiled code has this shape is what `frame_faithful` checks (`CompilerVerifies`,
`VerifiedStaysTyped`) and `CompilerIsVerified` proves.

Any function made in a captured scope may be called by any frame, for a function
is a value and may have been passed anywhere.

### Strict

The checker walks the tree in the order in which the VM executes the code, so one
step of `Strict` is one operator of a function body, checked and executed: the types
of its operands come off the stack with the values, and what `Checker` infers goes on
with what `Values` computes. What the checker rejects is a guard. The functions are
not enumerated: every step may be any operator of the vocabulary `program`, and the
behaviours are those of all the functions that can be written with it. `types` are the checker's
scopes, `env` the VM's, and `blocks` the blocks that both have entered. A further round
of a loop may again be any body (`NextRound`), with the checker's scope as it was and the
VM's as the last round left it. A call gives any value that the callee's declaration
promises; that a function keeps its promise is `PromiseKept`, where it returns. A body
that ends without a return is accepted by the shape of its last statement
(`AlwaysReturns`), of which `Shapes` supplies the branches that were not executed.
`set O.F[I] = E` evaluates O twice, as the compiled code does: the array may be that of
another object than the one that is stored to, and the model lets the two be any two of
one static type.

A value of a type has no content beyond what the operators look at: numbers and
texts are single values, arrays and maps the sets of their elements, objects have
fields in `heap`. A function ends `wrong` if an operator meets a
value it is not defined for, `error` if it meets one that no checker could exclude (an
index out of range, a division by zero), and `failed` if a VerseFailure leaves it.

The checker is gradual and has gaps; `sound` marks each value that came through one
and what was computed from it, and the properties claim nothing for these. The gaps, each a
definition of `Strict`:

- a type that mentions `unknown` promises nothing (`Untyped`): literals without
  elements, variables with neither type nor value, `Result` of a task, calls of values
  of type `function`;
- an else branch is executed in the environment in which the clauses that passed have
  bound their names, and the checker has left that scope (`LoadName` finds the name in
  two places);
- a derived class may declare a field or method again with another type, and the
  object is then used through its base (`Keeps`, docs/language-reference.md has no rule);
- a variable or field without a value starts as void, whatever its type, unless the
  type is int, float, string or logic (`Initialised`);
- any type may be the key of a map, and arrays, maps and objects cannot be (`MayBeKey`);
- functions that differ in how many arguments they need are assignable (`Coerces`);
- the effects of methods and of function values are unknown to the decides check, and
  a `<decides>` callee that returns `false` returns a value outside its type;
- the name of a class has the type of the class's instances, and its value is the class
  (`ClassAsValue`);
- a struct literal of an abstract class is accepted, and so is an assignment to the
  members of a task.

### Layout, Parser, Repl and Session

A text is a sequence of lines, a line a sequence of symbols. A symbol is a blank, a
token, the mark of a comment, or a character that no token begins with; how characters
make up a number, a string or a word is left out. `Step` is one turn of the lexer's loops on
one symbol (`Scan` outside of comments): the
attributes `paren_depth`, `indent_stack`, `line_start` and `tokens` are fields of its
state, and what the code keeps in its program counter is `mode`. `Parser` has a
definition for each nonterminal, which gives the tree and the position behind it, or
`Bad` where the code raises VerseSyntaxError. Only `_try_parse_func_decl` catches one
(`Declaration`). The dataclasses of `ast_nodes.py` are nodes with an operator, a name
and the nodes below.

`Repl` has one action for each thing the user does: a line at either prompt, Ctrl-C,
Ctrl-D, `:exit`, `:reset`, `:load`. `Execute` reads a text and, if lexer, parser and
compiler accept it, appends its program to `given`, which `:reset` empties with the VM.
Two variables are not in the code: `meant` has the lines typed since the last `verse>`
prompt, and `inputs` the texts so collected that were accepted. What a property says is about these, so a
buffer that keeps or loses a line shows. The parser and the compiler are its parameters
`ProgramOf` and `Accepts`, so that what is proved of the REPL holds for any; the run
gives them `Parse` and `Compilable`, and `Session` has the properties of their trees.

That these modules are read off the code correctly was tested against it:
lexer and parser were run on several thousand texts, and gave the trees that the
modules give.

## Runs

| Run | Checks | Shows |
|---|---|---|
| `scheduler_safety` | `TypeOK`, `IInv`, `NoTaskLost`, `RoundRobin`, `RaceIsEven`, `InnerWalkNeverEnds`, `CancelledStaysStopped`, `DrainLeavesNothing`, `Implements` | no interleaving of walks, spawns, errors and commands loses, starves or revives a task |
| `scheduler_liveness` | `StatementEnds`, `FiniteTasksFinish`, `RaceIsDecided` | statements come back, and finite tasks end beside one that loops for ever |
| `frame_faithful` | `TypeOK`, `CompilerVerifies`, `VerifiedStaysTyped`, `VerifiedNeverCrashes`, `Faithful` | compiled programs are well typed and do what they mean |
| `environments_isolation` | `TypeOK`, `FramesOwnScopes`, `LocalUpdatesReturn`, `PrivateWritesStand` | frames never run in another's scope; an element assignment to a local writes to the variable it loaded; and where no function reaches a variable none of its elements is ever overwritten by an older value |
| `strict_sound` | `TypeOK`, `SoundMeansTyped`, `WrongIsExplained`, `FailureIsDeclared`, `PromiseKept`, `PrivateIsPrivate` | every value that came through no gap has the type the checker gave it, on the stack, in names, in fields and as a result; an accepted function goes wrong, or fails undeclared, through a gap only; a private field changes in its class only, or where a base class that declares it too grants access |
| `session_composes` | `TypeOK`, `SessionIsFile`, `LayoutNests`, `LayoutIsOffSide`, `ReadsBack`, `NoWordLost`, `AnnotationsAreTypes` | the machine gets what one file with the same inputs would give it, whatever is interrupted, rejected, loaded or reset; INDENT and DEDENT always nest and lines end once; blocks are those of the off-side rule; a program printed by the reference's grammar is read as the same program; no name or literal is dropped; what is an annotation to the parser is a type to the checker |
| `nested_join` | `ErrorsDontKillTheSession` (violated) | a `sync` or `race` in a task ends the process with an uncaught `ValueError`; docs/repl.md:67-69 promises the prompt |
| `undrained` | `DrainedBeforePrompt` (violated) | a statement that fails after a `spawn` leaves its task unfinished; docs/differences-from-verse.md:115-118 promises the drain |
| `polling` | `SpawnedTaskGetsATurn` (violated) | a task that is spawned by a statement which then loops is never given its first turn; docs/language-reference.md:331-332 promises a switch after every instruction |
| `empty_race` | `RaceEnds` (violated) | a race without branches never ends; docs/language-reference.md:343-344 |
| `for_break` | `ForIteratesItsCollection` (violated) | `break` in an inner `for` makes the outer one go on with the inner iterator; docs/language-reference.md:224-225 |
| `environments_losing_branch` | `LosersWritesStand` (violated) | what a losing branch of a race wrote to an array is undone when the race is the right-hand side of an assignment to another of its elements; docs/differences-from-verse.md:112-114 says that it stands |

The last six are disagreements of the code with its documents. Seven more were met
while modelling and have no run of their own:

- an else branch sees the names that clauses bound before one of them failed
  (`compiler.py:271`), though docs/language-reference.md:301 says that a name "is only
  bound in the success path". Under `--strict` the checker still means the outer name,
  so an accepted program may stop with a type error there (a gap of `strict_sound`);
- the checker gives the name of a class the type of the class's instances
  (`type_checker.py:98`), so `D : Dog = Dog` is accepted, though
  docs/language-reference.md:119-121 says that it rejects "assigning an incompatible value
  into an annotated binding"; `D.Speak()` is accepted too, and stops with "type class has
  no member 'Speak'" (a gap of `strict_sound`);
- a class may declare a public field of its base as private, and the field is still
  assigned to from outside by an expression of the base's type (`type_checker.py:793-823`
  ask the class that the expression has); docs/language-reference.md:273-275 says that
  access rules are validated, and does not say what this declaration means.
  `PrivateIsPrivate` allows it, and nothing more;
- `sync` and `race` drop the statements of their block that are no expressions
  (`parser.py:630`); docs/language-reference.md:340 lets them "run every top-level
  statement". Texts with these two are outside `NoWordLost`;
- an expression that ends in a block is not ended by the end of its line, so a next
  line that begins with `(` or `-` goes on with it in a file and stands alone in the
  REPL (`GoesOn` in `SessionIsFile`, which leaves out such a line behind any block);
- after a block comment at the beginning of a line the indentation is counted from the
  comment's end, so that `<# c #> X` begins with an INDENT of its own (`parser.py` then
  rejects it); such texts are outside `LayoutIsOffSide`;
- `spawn:` with its body on the same line is rejected, since the body takes the NEWLINE
  that its own statement then misses, unless the next line begins with `(` or `-` and
  the expression goes on with it.

The counterexample of `for_break` is this program, which prints for ever where two
lines are meant: each round leaves one more iterator of the inner array on the
stack, and the outer `for` goes on with that one:

```verse
for (X : array{1, 2}):
    for (Y : array{10, 20, 30}):
        if (Y = 10):
            break
    Print(ToString(X))
```

That of `environments_losing_branch` is this one: W assigns 9 to `A[0]`, then L wins,
and the program prints `array{0, 7}`. (In the model a task has one frame in this run, so
the branch itself assigns what the program needs W for.)

```verse
var A : []int = array{0, 0}
W() : int =
    set A[0] = 9
    loop:
        X := 1
    return 1
L() : int =
    var K : int = 0
    set K = 1
    set K = 2
    set K = 3
    set K = 4
    return 7
set A[1] = race:
    W()
    L()
Print(ToString(A))
```

The same happens to the write of any other task made while the right-hand side is
evaluated. No document promises otherwise for those, so `PrivateWritesStand` claims
only the variables no function can reach, where nothing may be lost.

Bounds. `MaxTasks = 3` is enough for a walk that starts inside a walk, a race
with a winner and a loser beside a bystander, and a task left over by an error;
`MainFuel` and `TaskFuel` bound the instructions of a frame, `JoinSizes` the
branches. For frames, `MaxEvents = 6` computations and `MaxCalls = 3` frames
reach the second element of an inner loop inside an outer one, and a failure
that leaves two frames. The grammar of `MCFrame` combines every expression that
jumps with every place an expression may stand in, and every way out of a block
with every nesting of two blocks; deeper trees repeat these pairs. The bytecode
written by hand covers what no compiler emits, so that the typing is seen to be
needed and `Crash` is seen to happen.

For environments, three scopes are the globals, a block or callee in them and a
block, callee or branch beside or within it: a name can be shadowed, captured, and
defined too late. Two tasks with two frames each and one handler put a failure of a
callee, or of a branch, between the two halves of an assignment; three assignments
are a definition, a write that the update does not see, and the update. With two
tasks a race has one branch and no loser; the run with three tasks has losers, and
the proof has any number.

For the strict checker, a vocabulary of `MCStrict` is one part of the language with the
few types, names and literals that meet in it: two or three operands on the stack are
the operands of every operator, four those of `set O.F[I] = E`, two scopes are a branch and what it shadows, three the
clause, loop and branch between a `break` and its loop. Classes have a base, an
interface and classes that declare a member again, with another type and with either of
two orders of access, with one or two objects. Containers
contain scalars or empty containers (`Shallow`), and one level suffices for the rules of
assignability, which go down type by type. Tables of classes that the checker must reject
are among the programs, so that accepting one shows.

For the session, a vocabulary of `MCSession` has the lines that may be typed, in any
order, up to four or five. `Chains` has every pair of binary operators with a prefix or
brackets at every place: a wrong precedence or associativity needs no more than two.
`Tokens` and `Annotated` have every sequence of up to five tokens of a kind. `Forms` has
each form of expression beside and inside each other. `Blocks`, `Functions` and `Classes` put
headers, bodies and blank lines in every order, with a level too many and one too few;
`Layouts` comments, brackets and tabs; `Expressions` the blocks in expressions; and
`Commands` the commands, with files whose lines would have been inputs of their own.

Fairness. `FairSpec` assumes `WF_vars(MachineStep)`: one host thread executes the
machine, and Python takes the next step of a running interpreter. Nothing is
assumed of the user, nor of which task is served: that the walk visits each in
turn is what the liveness properties show.

## Proofs

`SchedulerProofs`: for every number of tasks, fuel, loopers and join sizes
(`SchedulerAssumption`), `WalkInv` is inductive. `NoTaskLost` by itself is not: that
`TickEnd` may replace the list by `still_running` needs that the outermost walk
has kept everybody it has passed (`WalksKeep`), which needs that an inner walk
never completes. It never does, because an inner walk starts inside a task that
it has yet to reach (`OwnersAhead`), that task is running and scheduled
(`RunningScheduled`), and a branch forked by it has not run (`TaskJoinsFresh`).
From `WalkInv` follow `TypeOK`, `NoTaskLost`, `InnerWalkNeverEnds`,
`CancelledStaysStopped` and `DrainLeavesNothing`.

`SchedulerProofs`, the second part: `RoundRobin` and `RaceIsEven`. Neither says enough of the next step:
a walk in progress has served some of the branches and not yet the others, so `TurnInv`
compares two branches by where the walk stands (`TurnsByWalk`). Those it has passed have
had one turn more than those it has not, and `HadTurn` places the branch at which it is:
its turn counts once it yields, ends, or waits in a join of its own. A branch that wins
is done and is still compared, so a race also needs that the walk has reached every
branch that is done (`DonePassed`). That a walk begins with all branches even is what its
predecessor left behind, since all of them are alive and scheduled (`BranchesAlive`,
`UnbornFresh`) and a join is forked with fresh ones. All of this is about the statement's
own walk (`Shallow`), and it suffices, for no walk inside it ever returns
(`WalkInvariance`). `IInv = WalkInv /\ TurnInv` is what the run checks.

`SchedulerRefinement`: `Spec => Implements`. Under the mapping of tasks to their
fates each step is a step of `StructuredConcurrency` or a stutter.

`FrameProofs`: for any programs made of well-formed instructions
(`ProgramsAssumption`), whether a compiler wrote them or not, `TypeOK` holds; and
a program whose typing passes the local check `Verified` never has an ill-typed
frame and never crashes, in the sense of `Crash`. A crash is excluded only by what `WellTyped` says of the
running frame, and a step keeps `WellTyped` only if it is no crash, so
`IInv = TypeOK /\ VerifiedStaysTyped /\ VerifiedNeverCrashes` is proved as one.
The difficult steps are `Raise`, where the handler of a caller resumes with the
operands of its CALL taken off, and `Return`, where the frame below must still
match its type plus the result.

`CompilerProofs`: `CompilerVerifies`, for programs of every size, and with
`TypedIsProvided` of `FrameProofs` that every instruction of a compiled program finds
what it takes (`CompiledFindsItsOperands`): its operands on the stack, an iterator under
FOR_ITER, a handler or a scope to leave. Supposed
are any sets of expressions and statements that are trees (`Trees`: every node is well
formed and has a depth above that of its parts), and of a program of the machine that has
a source that it consists of such trees, that its chunks are what `Bytecode` gives for the
code of these, and that its `types` verify it if any do (`Compiles`). The code of the trees
is any two functions `expr` and `stmt` that give each node what `Compiler` gives it from its
parts (`CompiledBy`); that there are such functions, or that the compiler's recursion ends,
is `TreesHaveCode`. TLC evaluates these conditions for all programs of the grammar and the
code `Compilation` gives them (`GrammarAssumption` in `MCFrame`; the contexts of
statements, which are infinitely many, up to one open scope), and `CompilerVerifies` shows
that the types it infers are such.

The typing of a whole chunk cannot be read off a node, since a jump may lead out of the
node's code, or in a loop back to its start. So code is typed in pieces. `Runs(c, b, lab, t,
u, Out)` says that code c behind address b, entered at its first instruction with type t,
has one type at each instruction reached, and that it is left only at its end with type u,
or by a jump to a point (address and type) in `Out`. Pieces compose (`Join`), where either
may lead to the start of both; a label counts as a point of `Out` until `Resolve` gives it
an address (`ResolveTyped`). What a node promises is then independent of its place: an
expression raises the stack by one and otherwise at most fails
(`Evaluates`); a statement leaves the type it found, or jumps to the loop's
labels with the scopes cut to the loop's own (`Executes`, `Left`). For `break` and
`continue` the latter is the lemma `UnwindRuns`: one POP_SCOPE for each scope between. A
failure in the middle of an expression leads to the innermost handler (`Caught`), which
is a point of `Out`: its type is the same whatever the expression has put on the stack,
because the handler cuts the operands to what was there at its PUSH_HANDLER (`Fit`).
`AllEvaluate` and `AllExecute` are by induction on the depth, which is induction on
numbers. A `break` in a `for` is left out because the statement is false of it: it
reaches the instruction behind the loop with the iterator still on the stack.

`EnvironmentsProofs`: for any names and bounds (`BoundsAssumption`), `TypeOK` and
`FramesOwnScopes`. What a frame owns now says nothing of the scope it returns to by
POP_SCOPE, so the inductive invariant `IInv` adds the shape of the whole forest
(`Tree`): a scope was created after all it sees, and its parent belongs to the same
frame unless a frame started in it. A pop then stays within the frame, because it
never pops the base. The steps that create scopes (`PushScope`, `Call`, `Spawn`,
`Fork`) share one lemma on added scopes (`NewScopes`), and all steps one lemma that
goes through the frames of the next state (`NextFrames`): each is an old one, or
the only one that starts in a new scope.

`EnvironmentsProofs`, the second part: `LocalUpdatesReturn`. A declaration is the only step that can
change what a name means in a scope that is already there, so it is the one that
could redirect a pending update. `UInv` adds why it does not: the scopes a frame
opened are the inner end of the chain it sees (`Chain`), so what another frame
declares is outside of it; and what a frame is to return to lies in the chain of its
current scope, handler within handler (`Nested`), so a name it declares itself while
the update is pending lands inside the update's scope, where the update does not
look. The scope loaded from stays the innermost of the frame's own with that name
(`Direct`). Each lemma about an action also says which updates are pending after it
(`OldUpdates`), which the third part takes up.

`EnvironmentsProofs`, the third part: `PrivateWritesStand`. Below its own end, everything a frame
sees is in the reach of some function (`Walled`): calls and branches start in the
scope of one. So a scope that no function reaches is written by one frame only
(`PrivateIsOwn`), and by `Direct` an update of it is stored where it was loaded from.
Until then that frame declares in inner scopes at most, so the array it holds is
still the variable's (`Fresh`), and storing it with one element replaced loses
nothing.

`LayoutProofs`: for every text over symbols that are no layout tokens
(`Apart`), `Tokenize` rejects it or gives tokens that are `WellFormed`
(`TokensAreWellFormed`). The state of the lexer after each symbol satisfies `LexInv`: the
open indentations increase from 0, there are as many of them, the margin not counted, as
INDENTs without a DEDENT, and the last token is a NEWLINE exactly where a line may begin
outside brackets. The innermost open indentation that `Measured` chooses therefore
exists, and the DEDENTs it writes are those of the levels it closes. `Recursion` and
`Unique` carry the invariant along the symbols of a line and the lines of a text, which
the lexer's functions count up. `LayoutNests` follows for whatever a session reads.

`TokensCompose` of the same module: if two texts are accepted, the tokens of one after
the other are the tokens of both, but for the first EOF. It needs that the first leaves no
bracket open and that the second does not begin inside a block (`Joinable`, a condition on
the tokens). The lexer keeps across a line its depth, its open indentations and the
tokens, so the proof compares the run over both texts with the run over the second alone.
Until the second text has a token, only blank lines and comments have been read, and all
that the first text left open is still open (`Fresh`); its first token is on a line at
the margin, where both runs close everything, and from there on their states differ by
the tokens of the first text only (`Joined`). `StepFollows` says so of each symbol,
`ScanLineFollows` of each line. What a text leaves open in brackets is read off its tokens
(`OpenBrackets`): the `Deep` lemmas show that this is the lexer's depth.

`ReplProofs`: for any vocabulary, parser and compiler, `TypeOK` and `LayoutNests`, and
`SessionIsFile` for any parser that reads tokens one statement after the other
(`ReadsTokens`). `ReplInv` says why: the buffer is always what the user means, and
what the machine holds are the chunks of exactly the inputs that were accepted
(`Handed`). That the program of a text after a text is then the one program after the
other (`ParserComposes`) follows from `TokensCompose`. So the REPL, over any sequence of
lines, interrupts, commands and files, and the lexer, over any comments, blank lines and
indentation, do nothing to spoil it. What is supposed is about the parser as a function
of tokens alone, and TLC evaluates it for `ParseProgram`, on all pairs of programs of two
lines of the run's vocabularies (`ParserReadsTokens` in `MCSession`).

Only model-checked: the liveness properties (fairness is beyond the prover);
`Faithful`, because `Meaning` recurses over the tree and the log, and with it that
`Compilation` gives the code that `CompilerProofs` speaks of; all of `strict_sound`, and `LayoutIsOffSide`, `ReadsBack`, `NoWordLost` and
`AnnotationsAreTypes` of `session_composes`, because types and programs are trees and the
operators on them recursive; and that `ParseProgram` reads tokens as
`ReadsTokens` asks, because it is recursive descent.

## Not modelled, and the plan

Left out of what is modelled:

- `Strict`: the bodies of functions, classes and `spawn` blocks inside a function;
  top-level variables; what a call changes in objects of the caller; blocks of several
  statements as branches of an if expression; class tables with a cycle, on which
  `_is_subclass` does not return; the contents of numbers and texts.
- `Layout`: characters within a token, hence strings that do not end, unknown escapes,
  and numbers. `Parser`: line numbers, and Python's recursion limit.
- `Repl`: `:help`, `:vars` and unknown commands, which change nothing, and a file
  that cannot be read.
- `Environments`: what a task reads (a `for` has one scope for all its rounds, and tasks
  spawned in it share the variable), and the fields of instances.
- `%` beyond the mantissa of a double, and default values that the host drains within
  one instruction.
- The host's exceptions in the helpers on values (the TypeError of an array in an option
  as a key of a map, the OverflowError of `%`), as exceptions: `Frame` takes them for
  runtime errors, `Strict` the first for going wrong, and `Scheduler` does not have that
  the REPL ends with them.
- Ctrl-C during an execution: it may strike at any instruction, and no code of the
  repository handles it.
- `dis`, `ast`, `tokens` and formatting: functions of data without state. The exit codes
  of the CLI.

The plan, in this order:

1. Proofs: the part of `Strict` that is control, apart from the operators on types.
2. `Environments`: reads, and the same behaviours under `Scheduler`'s order of turns.
3. `Strict`: functions within functions, and class tables with cycles, against a
   bound on the walks of `_is_subclass`.
4. `Arithmetic`: `%` and ranges with a bounded mantissa, against the integers'
   remainder.

------------------------------- MODULE Frame -------------------------------
(***************************************************************************)
(* One statement executed by the virtual machine                           *)
(* (src/src/versetools/vm.py, VM._exec_frame and VM._call): the frames of  *)
(* its nested calls, each with a program counter, an operand stack, an     *)
(* environment and a stack of failure handlers.  The code is any bytecode; *)
(* Compiler.tla gives the bytecode the compiler emits.                     *)
(*                                                                         *)
(* Of a value only what the control flow looks at is kept, and which       *)
(* computation it comes from.  The opcodes that compute are one opcode     *)
(* here, EVAL: it pops operands and pushes a value of a given set; the     *)
(* opcodes that only store are STORE.  `log` records the operands of each  *)
(* and the value.  SPAWN, SYNC and RACE are in Scheduler.tla.              *)
(***************************************************************************)
EXTENDS Naturals, Sequences, FiniteSets, SequencesExt

CONSTANTS
    Programs,    \* records with `chunks`: the first is the top-level code
    MaxEvents,   \* bound: after so many log entries nothing more is computed
    MaxCalls     \* bound: frames on the call stack

(* A value: n is the number of elements of an array or yet to come from an *)
(* iterator, the chunk of a function, and for a datum, the datum in an     *)
(* option or an element of an array, which one it is: 0 is void, and false *)
(* in an option.                                                           *)
Kinds  == {"false", "true", "absent", "present", "datum", "element",
           "array", "iterator", "function"}
Values == [kind : Kinds, n : Nat]
V(kind, n) == [kind |-> kind, n |-> n]
Void == V("datum", 0)
Refusal == V("error", 0)    \* in the log: the operands do not fit
Failure == V("failure", 0)  \* in the log: a default value it evaluates fails

VARIABLES
    program,   \* the program being executed
    status,    \* running, or how the execution ended
    frames,    \* the generators of the call stack, the innermost last
    log,       \* the computations so far: place in the source, operands, value
    result     \* what the top-level code returned

vars == <<program, status, frames, log, result>>

Globals == <<>>     \* the environment without a parent
NewFrame(k) == [fn |-> k, pc |-> 1, stack |-> <<>>,
                env |-> IF k = 1 THEN Globals ELSE <<0>>, handlers |-> <<>>]

Top   == frames[Len(frames)]
Chunk == program.chunks[Top.fn]
Instr == Chunk[Top.pc]
Peek  == Top.stack[Len(Top.stack)]
Pop(s, n) == SubSeq(s, 1, Len(s) - n)

(* The operands an instruction takes off the stack or looks at.            *)
Needs(i) ==
    CASE i.op \in {"EVAL", "STORE"} -> i.n
      [] i.op = "CALL" -> i.n + 1
      [] i.op \in {"POP", "POP_CHECKED", "CLAUSE_CHECK", "FAILABLE_UNWRAP", "JUMP_IF_FALSE",
                   "JUMP_IF_TRUE", "GET_ITER", "FOR_ITER", "RETURN"} -> 1
      [] OTHER -> 0

(* The dispatch loop is about to execute an instruction of this kind, with *)
(* its operands there.                                                     *)
AtEnd == Top.pc > Len(Chunk)
Ready(ops) ==
    /\ status = "running" /\ ~ AtEnd
    /\ Instr.op \in ops
    /\ Len(Top.stack) >= Needs(Instr)

Becomes(f) == frames' = [frames EXCEPT ![Len(frames)] = f]
Goes(pc, stack) == Becomes([Top EXCEPT !.pc = pc, !.stack = stack])
NoEvent == UNCHANGED <<program, log, result>>

Operands == SubSeq(Top.stack, Len(Top.stack) - Needs(Instr) + 1, Len(Top.stack))
Event(v) == log' = Append(log, [at |-> Instr.at, args |-> Operands, v |-> v])

(* Mutant of Bound: an option is bound, not what is in it.                 *)
BoundKeepsOption(v) == v

(* _clause_result: what succeeds, and the value it is bound to.            *)
Succeeds(v) == v.kind \notin {"false", "absent"}
Bound(v) ==
    IF v.kind = "present" THEN V(IF v.n = 0 THEN "false" ELSE "datum", v.n) ELSE v

----------------------------------------------------------------------------
Init ==
    /\ program \in Programs
    /\ status = "running"
    /\ frames = <<NewFrame(1)>>
    /\ log = <<>>
    /\ result = Void

(* LOAD_NAME, BINARY_OP, UNARY_OP, GET_INDEX, SET_INDEX, GET_MEMBER, the   *)
(* literals, RANGE, MAKE_FUNCTION, MAKE_CLASS and CALL of a native         *)
(* function; LOAD_CONST is LOAD.  A new datum is named after its entry in  *)
(* the log.                                                                *)
Fresh(v) == IF v.kind \in {"datum", "present"} /\ v.n > 0 THEN [v EXCEPT !.n = Len(log) + 1]
                                                         ELSE v
Eval ==
    /\ Ready({"EVAL"}) /\ Len(log) < MaxEvents
    /\ \E v \in Instr.out :
        /\ Goes(Top.pc + 1, Append(Pop(Top.stack, Instr.n), Fresh(v)))
        /\ Event(Fresh(v))
    /\ UNCHANGED <<program, status, result>>

Load ==
    /\ Ready({"LOAD"})
    /\ \E v \in Instr.out : Goes(Top.pc + 1, Append(Top.stack, v))
    /\ UNCHANGED status /\ NoEvent

(* STORE_NAME, SET_NAME and SET_MEMBER.                                    *)
Store ==
    /\ Ready({"STORE"})
    /\ Goes(Top.pc + 1, Pop(Top.stack, Instr.n))
    /\ Event(Void)
    /\ UNCHANGED <<program, status, result>>

Drop ==
    /\ Ready({"POP"})
    /\ Goes(Top.pc + 1, Pop(Top.stack, 1))
    /\ UNCHANGED status /\ NoEvent

PushScope ==
    /\ Ready({"PUSH_SCOPE"})
    /\ Becomes([Top EXCEPT !.pc = @ + 1, !.env = Append(@, Top.pc)])
    /\ UNCHANGED status /\ NoEvent

PopScope ==
    /\ Ready({"POP_SCOPE"}) /\ Top.env # Globals
    /\ Becomes([Top EXCEPT !.pc = @ + 1, !.env = Front(@)])
    /\ UNCHANGED status /\ NoEvent

Jump ==
    /\ Ready({"JUMP"})
    /\ Goes(Instr.to, Top.stack)
    /\ UNCHANGED status /\ NoEvent

(* JUMP_IF_FALSE and JUMP_IF_TRUE leave their operand, and look at logic   *)
(* values only.                                                            *)
JumpIf ==
    /\ Ready({"JUMP_IF_FALSE", "JUMP_IF_TRUE"})
    /\ LET jumps == Peek.kind = (IF Instr.op = "JUMP_IF_TRUE" THEN "true" ELSE "false")
       IN  Goes(IF jumps THEN Instr.to ELSE Top.pc + 1, Top.stack)
    /\ UNCHANGED status /\ NoEvent

PushHandler ==
    /\ Ready({"PUSH_HANDLER"})
    /\ Becomes([Top EXCEPT !.pc = @ + 1,
                  !.handlers = Append(@, [to |-> Instr.to, depth |-> Len(Top.stack),
                                          env |-> Top.env])])
    /\ UNCHANGED status /\ NoEvent

PopHandler ==
    /\ Ready({"POP_HANDLER"}) /\ Top.handlers # <<>>
    /\ Becomes([Top EXCEPT !.pc = @ + 1, !.handlers = Front(@)])
    /\ UNCHANGED status /\ NoEvent

ClauseCheck ==
    /\ Ready({"CLAUSE_CHECK"})
    /\ IF Succeeds(Peek)
       THEN Goes(Top.pc + 1, Append(Pop(Top.stack, 1), Bound(Peek)))
       ELSE Goes(Instr.to, Pop(Top.stack, 1))
    /\ UNCHANGED status /\ NoEvent

(* POP_CHECKED and FAILABLE_UNWRAP on a value that succeeds.               *)
Accept ==
    /\ Ready({"POP_CHECKED", "FAILABLE_UNWRAP"}) /\ Succeeds(Peek)
    /\ Goes(Top.pc + 1, IF Instr.op = "POP_CHECKED"
                        THEN Pop(Top.stack, 1)
                        ELSE Append(Pop(Top.stack, 1), Bound(Peek)))
    /\ UNCHANGED status /\ NoEvent

(* del stack[depth:]                                                       *)
Truncate(s, depth) == IF depth < Len(s) THEN SubSeq(s, 1, depth) ELSE s

(* Mutants of Handled: the operands, or the scope, are not restored.       *)
HandledKeepsOperands(f) ==
    LET h == Last(f.handlers)
    IN  [f EXCEPT !.handlers = Front(@), !.env = h.env, !.pc = h.to]
HandledKeepsScope(f) ==
    LET h == Last(f.handlers)
    IN  [f EXCEPT !.handlers = Front(@), !.stack = Truncate(@, h.depth), !.pc = h.to]

(* What a frame does with a VerseFailure it has a handler for.             *)
Handled(f) ==
    LET h == Last(f.handlers)
    IN  [f EXCEPT !.handlers = Front(@), !.stack = Truncate(@, h.depth),
                  !.env = h.env, !.pc = h.to]

(* VerseFailure is raised by the same two on a value that fails, and by a  *)
(* computation that evaluates default values of fields or parameters one   *)
(* of which fails.                                                         *)
Failing ==
    \/ Ready({"POP_CHECKED", "FAILABLE_UNWRAP"}) /\ ~ Succeeds(Peek) /\ UNCHANGED log
    \/ Ready({"EVAL", "CALL"}) /\ Len(log) < MaxEvents /\ Event(Failure)

(* It leaves every frame without a handler, the caller's too, within the   *)
(* same instruction.                                                       *)
Raise ==
    /\ Failing
    /\ LET catching == {i \in 1 .. Len(frames) : frames[i].handlers # <<>>}
           popped   == [frames EXCEPT ![Len(frames)].stack = Pop(@, Needs(Instr))]
       IN  \/ /\ catching = {}
              /\ frames' = <<>> /\ status' = "failed"
           \/ \E k \in catching :
              /\ \A i \in catching : i <= k
              /\ frames' = Append(SubSeq(frames, 1, k - 1), Handled(popped[k]))
              /\ UNCHANGED status
    /\ UNCHANGED <<program, result>>

(* CALL of a user's function: the operands leave the stack, and the caller *)
(* stays at its CALL until the result arrives.                             *)
Callee == Top.stack[Len(Top.stack) - Instr.n]
Call ==
    /\ Ready({"CALL"}) /\ Callee.kind = "function"
    /\ Len(frames) < MaxCalls
    /\ frames' = Append([frames EXCEPT ![Len(frames)].stack = Pop(@, Instr.n + 1)],
                        NewFrame(Callee.n))
    /\ UNCHANGED status /\ NoEvent

(* RETURN, or the end of the chunk.                                        *)
Returns(v) ==
    IF Len(frames) = 1
    THEN frames' = <<>> /\ status' = "returned" /\ result' = v
    ELSE LET caller == frames[Len(frames) - 1]
         IN  /\ frames' = Append(SubSeq(frames, 1, Len(frames) - 2),
                                 [caller EXCEPT !.pc = @ + 1, !.stack = Append(@, v)])
             /\ UNCHANGED <<status, result>>
Return ==
    /\ \/ Ready({"RETURN"}) /\ Returns(Peek)
       \/ status = "running" /\ AtEnd /\ Returns(Void)
    /\ UNCHANGED <<program, log>>

GetIter ==
    /\ Ready({"GET_ITER"}) /\ Peek.kind = "array"
    /\ Goes(Top.pc + 1, Append(Pop(Top.stack, 1), V("iterator", Peek.n)))
    /\ UNCHANGED status /\ NoEvent

(* Mutant of ForIter: the end of the iterator is met one element late.     *)
ForIterOneMore ==
    /\ Ready({"FOR_ITER"}) /\ Peek.kind = "iterator"
    /\ IF Peek.n >= 0
       THEN Goes(Top.pc + 1, Append(Append(Pop(Top.stack, 1), V("iterator", Peek.n - 1)),
                                    V("element", Peek.n)))
       ELSE Goes(Instr.to, Pop(Top.stack, 1))
    /\ UNCHANGED status /\ NoEvent

ForIter ==
    /\ Ready({"FOR_ITER"}) /\ Peek.kind = "iterator"
    /\ IF Peek.n > 0
       THEN Goes(Top.pc + 1, Append(Append(Pop(Top.stack, 1), V("iterator", Peek.n - 1)),
                                    V("element", Peek.n)))
       ELSE Goes(Instr.to, Pop(Top.stack, 1))
    /\ UNCHANGED status /\ NoEvent

(* A VerseRuntimeError: the operands do not fit.  No frame handles it.     *)
(* What the host itself raises in the functions on values, the TypeError   *)
(* of a key that cannot be hashed and the OverflowError of %, leaves the   *)
(* frames in the same way and is no different here.                        *)
Error ==
    /\ \/ Ready({"EVAL", "STORE", "CALL"})
       \/ Ready({"GET_ITER"}) /\ Peek.kind # "array"
    /\ frames' = <<>> /\ status' = "error"
    /\ Event(Refusal)
    /\ UNCHANGED <<program, result>>

(* The machine loses count of its own operands, handlers or scopes:        *)
(* IndexError from an empty operand or handler stack, TypeError from       *)
(* next() on what is no iterator, and the VerseRuntimeError of a POP_SCOPE *)
(* at the root.                                                            *)
Crash ==
    /\ status = "running" /\ ~ AtEnd
    /\ \/ Len(Top.stack) < Needs(Instr)
       \/ Instr.op = "POP_HANDLER" /\ Top.handlers = <<>>
       \/ Instr.op = "POP_SCOPE" /\ Top.env = Globals
       \/ Ready({"FOR_ITER"}) /\ Peek.kind # "iterator"
    /\ frames' = <<>> /\ status' = "crashed"
    /\ NoEvent

(* The execution is over, or at a bound.                                   *)
Ended ==
    /\ \/ status # "running"
       \/ Ready({"EVAL"}) /\ Len(log) >= MaxEvents
       \/ Ready({"CALL"}) /\ Len(frames) = MaxCalls
    /\ UNCHANGED vars

Next ==
    \/ Eval \/ Load \/ Store \/ Drop \/ PushScope \/ PopScope \/ Jump \/ JumpIf
    \/ PushHandler \/ PopHandler \/ ClauseCheck \/ Accept \/ Raise
    \/ Call \/ Return \/ GetIter \/ ForIter \/ Error \/ Crash \/ Ended

Spec == Init /\ [][Next]_vars
=============================================================================

---------------------------- MODULE FrameTyping ----------------------------
(***************************************************************************)
(* What every instruction of a chunk may rely on: the number of operands   *)
(* on the stack and which of them are iterators, the scope it runs in, and *)
(* the failure handlers.  A program's `types` give these, for each chunk   *)
(* and each instruction that can be reached; Verified checks them one      *)
(* instruction at a time, and FrameProofs shows that verified code never   *)
(* loses count of its operands, scopes and handlers.                       *)
(***************************************************************************)
EXTENDS Frame

Pops(t, n) == [t EXCEPT !.height = @ - n]
Pushes(t)  == [t EXCEPT !.height = @ + 1]
To(pc, t)  == [pc |-> pc, type |-> t]

(* Where the last handler resumes if the instruction fails.                *)
Resumed(t) ==
    LET h == Last(t.handlers)
    IN  [height |-> h.depth, iters |-> {i \in t.iters : i <= h.depth},
         env |-> h.env, handlers |-> Front(t.handlers)]
Caught(t) == IF t.handlers = <<>> THEN {} ELSE {To(Last(t.handlers).to, Resumed(t))}

(* The instructions that may follow the one at pc, with the types its      *)
(* effect gives them.                                                      *)
Successors(i, pc, t) ==
    LET n == Needs(i)
    IN  CASE i.op \in {"EVAL", "CALL"} -> {To(pc + 1, Pushes(Pops(t, n)))} \cup Caught(t)
          [] i.op = "LOAD" -> {To(pc + 1, Pushes(t))}
          [] i.op \in {"STORE", "POP"} -> {To(pc + 1, Pops(t, n))}
          [] i.op = "PUSH_SCOPE" -> {To(pc + 1, [t EXCEPT !.env = Append(@, pc)])}
          [] i.op = "POP_SCOPE" -> {To(pc + 1, [t EXCEPT !.env = Front(@)])}
          [] i.op = "JUMP" -> {To(i.to, t)}
          [] i.op \in {"JUMP_IF_FALSE", "JUMP_IF_TRUE"} -> {To(pc + 1, t), To(i.to, t)}
          [] i.op = "PUSH_HANDLER" ->
                 {To(pc + 1, [t EXCEPT !.handlers = Append(@,
                                [to |-> i.to, depth |-> t.height, env |-> t.env])])}
          [] i.op = "POP_HANDLER" -> {To(pc + 1, [t EXCEPT !.handlers = Front(@)])}
          [] i.op = "CLAUSE_CHECK" -> {To(pc + 1, t), To(i.to, Pops(t, 1))}
          [] i.op = "POP_CHECKED" -> {To(pc + 1, Pops(t, 1))} \cup Caught(t)
          [] i.op = "FAILABLE_UNWRAP" -> {To(pc + 1, t)} \cup Caught(t)
          [] i.op = "GET_ITER" -> {To(pc + 1, [t EXCEPT !.iters = @ \cup {t.height}])}
          [] i.op = "FOR_ITER" ->
                 {To(pc + 1, Pushes(t)),
                  To(i.to, [Pops(t, 1) EXCEPT !.iters = @ \ {t.height}])}
          [] OTHER -> {}

(* The instructions that raise VerseFailure, or call what may raise it.    *)
MayFail == {"EVAL", "CALL", "POP_CHECKED", "FAILABLE_UNWRAP"}

(* The instruction has what it needs, and pushes no iterator.              *)
Allowed(i, t) ==
    /\ t.height >= Needs(i)
    /\ IF i.op = "FOR_ITER"
       THEN t.height \in t.iters
       ELSE \A h \in t.iters : h <= t.height - Needs(i)
    /\ i.op \in {"EVAL", "LOAD"} => \A v \in i.out : v.kind # "iterator"
    /\ i.op = "POP_SCOPE" => t.env # Globals
    /\ i.op = "POP_HANDLER" => t.handlers # <<>>
    /\ i.op \in MayFail /\ t.handlers # <<>> =>
           Last(t.handlers).depth <= t.height - Needs(i)

EntryType(k) == [height |-> 0, iters |-> {}, env |-> NewFrame(k).env, handlers |-> <<>>]

Addresses == Nat \ {0}
Handlers  == [to : Addresses, depth : Nat, env : Seq(Nat)]
Types     == [height : Nat, iters : SUBSET Nat, env : Seq(Nat), handlers : Seq(Handlers)]

VerifiedChunk(p, k) ==
    LET types == p.types[k]
        chunk == p.chunks[k]
        flows(u) == u.pc \in DOMAIN types /\ types[u.pc] = u.type
    IN  /\ DOMAIN types \subseteq 1 .. Len(chunk)
        /\ flows(To(1, EntryType(k)))
        /\ \A pc \in DOMAIN types :
            /\ types[pc] \in Types
            /\ types[pc].iters \subseteq 1 .. types[pc].height
            /\ Allowed(chunk[pc], types[pc])
            /\ \A u \in Successors(chunk[pc], pc, types[pc]) : flows(u)

Verified(p) == \A k \in 1 .. Len(p.chunks) : VerifiedChunk(p, k)

(* What a computation or a constant of the source gives.                   *)
Data == {v \in Values : v.kind # "iterator"}

----------------------------------------------------------------------------
(* A function value holds its code, so its chunk exists; m is the number   *)
(* of chunks.                                                              *)
Valid(m) == {v \in Values : v.kind = "function" => v.n \in 1 .. m}
Instructions(m) ==
    [op : STRING, n : Nat, to : Addresses, at : Seq(Nat), out : SUBSET Valid(m)]
Code(chunks) == chunks # <<>> /\ chunks \in Seq(Seq(Instructions(Len(chunks))))

ASSUME ProgramsAssumption == \A p \in Programs : Code(p.chunks)
ASSUME BoundAssumption == MaxEvents \in Nat /\ MaxCalls \in Nat

FrameRecords(m) ==
    [fn : 1 .. m, pc : Addresses, stack : Seq(Valid(m)), env : Seq(Nat), handlers : Seq(Handlers)]
TypeOK ==
    /\ Code(program.chunks)
    /\ status \in {"running", "returned", "failed", "error", "crashed"}
    /\ status = "running" <=> frames # <<>>
    /\ frames \in Seq(FrameRecords(Len(program.chunks)))
    /\ log \in Seq([at : Seq(Nat), args : Seq(Values), v : Values \cup {Refusal, Failure}])
    /\ result \in Values

(* A frame is as the typing of its program says at its program counter;    *)
(* one that waits for the result of its CALL has the operands of the CALL  *)
(* taken off.                                                              *)
Fits(stack, height, iters) ==
    /\ Len(stack) = height
    /\ \A i \in 1 .. height : stack[i].kind = "iterator" <=> i \in iters
Matches(f, t, taken) ==
    /\ Fits(f.stack, t.height - taken, t.iters)
    /\ f.env = t.env
    /\ f.handlers = t.handlers
FrameOk(p, f, taken) ==
    f.pc \in DOMAIN p.types[f.fn] /\ Matches(f, p.types[f.fn][f.pc], taken)

Awaited(p, f) == p.chunks[f.fn][f.pc]

WellTyped ==
    /\ status = "running" => FrameOk(program, Top, 0)
    /\ \A i \in 1 .. Len(frames) - 1 :
        /\ Awaited(program, frames[i]).op = "CALL"
        /\ FrameOk(program, frames[i], Awaited(program, frames[i]).n + 1)

(* In verified code each frame is typed at each step, across calls,        *)
(* failures that leave frames and jumps to handlers: the operands, the     *)
(* scope and the handlers are those of the instruction, whichever way the  *)
(* execution has come to it.                                               *)
VerifiedStaysTyped == Verified(program) => WellTyped

(* The instruction that is due finds what it works on: its operands, an    *)
(* iterator under FOR_ITER, a handler to take off, a scope to leave.       *)
Provided ==
    status = "running" /\ ~ AtEnd =>
        /\ Len(Top.stack) >= Needs(Instr)
        /\ Instr.op = "FOR_ITER" => Peek.kind = "iterator"
        /\ Instr.op = "POP_HANDLER" => Top.handlers # <<>>
        /\ Instr.op = "POP_SCOPE" => Top.env # Globals

(* Verified code never takes an operand or a handler that is not there,    *)
(* never iterates over what is no iterator and never leaves its outermost  *)
(* scope.  What its values make the host raise, unhashable keys or an      *)
(* overflow in %, is an Error and not excluded.                            *)
VerifiedNeverCrashes == Verified(program) => status # "crashed"

(* The compiler gives every instruction one operand stack, one scope and   *)
(* one stack of handlers, whatever way leads to it.  A program that is     *)
(* compiled from source has its statements as `body`.                      *)
FromSource == "body" \in DOMAIN program
CompilerVerifies == FromSource => Verified(program)
=============================================================================

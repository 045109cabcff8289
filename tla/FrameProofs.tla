----------------------------- MODULE FrameProofs -----------------------------
(***************************************************************************)
(* Proofs about Frame, for any program: whatever its code, the variables   *)
(* keep their types; and if its code is verified (FrameTyping), every      *)
(* frame stays as its typing says, and no instruction misses an operand, a *)
(* scope or a handler.                                                     *)
(***************************************************************************)
EXTENDS FrameTyping, TLAPS, SequenceTheorems

----------------------------------------------------------------------------
(* Sequences.                                                              *)

(* Taking n elements off the end leaves the others where they are.         *)
LEMMA PopFacts ==
    ASSUME NEW S, NEW s \in Seq(S), NEW n \in 0 .. Len(s)
    PROVE  /\ Pop(s, n) \in Seq(S)
           /\ Len(Pop(s, n)) = Len(s) - n
           /\ \A i \in 1 .. Len(s) - n : Pop(s, n)[i] = s[i]
    BY DEF Pop

LEMMA AppendFacts ==
    ASSUME NEW S, NEW s \in Seq(S), NEW e \in S
    PROVE  /\ Append(s, e) \in Seq(S)
           /\ Append(s, e) # <<>>
           /\ Len(Append(s, e)) = Len(s) + 1
           /\ \A i \in 1 .. Len(s) : Append(s, e)[i] = s[i]
           /\ Append(s, e)[Len(s) + 1] = e
    OBVIOUS

LEMMA FrontFacts ==
    ASSUME NEW S, NEW s \in Seq(S), s # <<>>
    PROVE  /\ Front(s) \in Seq(S) /\ Last(s) \in S
           /\ Len(Front(s)) = Len(s) - 1
           /\ \A i \in 1 .. Len(s) - 1 : Front(s)[i] = s[i]
    <1>1. Len(s) \in Nat \ {0}
        BY EmptySeq
    <1>2. Front(s) = Pop(s, 1) /\ 1 \in 0 .. Len(s)
        BY <1>1 DEF Front, Pop
    <1>3. Last(s) \in S
        BY <1>1 DEF Last
    <1>. QED
        BY <1>1, <1>2, <1>3, PopFacts

(* What is left of the operands when a handler is resumed.                 *)
LEMMA TruncateFacts ==
    ASSUME NEW S, NEW s \in Seq(S), NEW d \in Nat
    PROVE  /\ Truncate(s, d) \in Seq(S)
           /\ d <= Len(s) => Len(Truncate(s, d)) = d
           /\ \A i \in 1 .. Len(Truncate(s, d)) : i \in 1 .. Len(s) /\ Truncate(s, d)[i] = s[i]
    BY DEF Truncate

(* The topmost element of a sequence replaced.                             *)
LEMMA ReplaceFacts ==
    ASSUME NEW S, NEW s \in Seq(S), s # <<>>, NEW e
    PROVE  LET r == [s EXCEPT ![Len(s)] = e]
           IN  /\ e \in S => r \in Seq(S)
               /\ r # <<>> /\ Len(r) = Len(s) /\ r[Len(s)] = e
               /\ \A i \in 1 .. Len(s) - 1 : r[i] = s[i]
    OBVIOUS

----------------------------------------------------------------------------
(* Types.                                                                  *)

Chunks == Len(program.chunks)

(* The running frame, its chunk and its instruction.                       *)
LEMMA TopTyped ==
    ASSUME TypeOK, status = "running"
    PROVE  /\ Chunks \in Nat \ {0}
           /\ frames # <<>> /\ Len(frames) \in Nat \ {0}
           /\ Top \in FrameRecords(Chunks)
           /\ Chunk \in Seq(Instructions(Chunks))
           /\ ~ AtEnd => Top.pc \in 1 .. Len(Chunk) /\ Instr \in Instructions(Chunks)
    <1>1. /\ Chunks \in Nat \ {0}
          /\ frames # <<>> /\ Len(frames) \in Nat \ {0}
        BY EmptySeq DEF TypeOK, Code, Chunks
    <1>2. Top \in FrameRecords(Chunks)
        BY <1>1 DEF TypeOK, Top, Chunks
    <1>3. Chunk \in Seq(Instructions(Chunks))
        <2>1. program.chunks \in Seq(Seq(Instructions(Chunks)))
            BY DEF TypeOK, Code, Chunks
        <2>2. Top.fn \in 1 .. Len(program.chunks)
            BY <1>2 DEF FrameRecords, Chunks
        <2>. HIDE DEF Top
        <2>. QED
            BY <2>1, <2>2 DEF Chunk
    <1>4. ASSUME ~ AtEnd PROVE Top.pc \in 1 .. Len(Chunk) /\ Instr \in Instructions(Chunks)
        BY <1>2, <1>3, <1>4 DEF AtEnd, Instr, FrameRecords, Addresses
    <1>. QED
        BY <1>1, <1>2, <1>3, <1>4

LEMMA NeedsTyped ==
    ASSUME NEW i, i.n \in Nat
    PROVE  Needs(i) \in Nat
    BY DEF Needs

(* What Ready gives.                                                       *)
LEMMA ReadyTyped ==
    ASSUME TypeOK, NEW ops, Ready(ops)
    PROVE  /\ Instr \in Instructions(Chunks) /\ Top.pc \in 1 .. Len(Chunk)
           /\ Top.stack \in Seq(Valid(Chunks))
           /\ Needs(Instr) \in 0 .. Len(Top.stack)
           /\ Needs(Instr) > 0 => Peek \in Valid(Chunks)
    <1>1. /\ Top \in FrameRecords(Chunks) /\ Top.pc \in 1 .. Len(Chunk)
          /\ Instr \in Instructions(Chunks)
        BY TopTyped DEF Ready
    <1>2. Needs(Instr) \in Nat
        BY <1>1, NeedsTyped DEF Instructions
    <1>3. Top.stack \in Seq(Valid(Chunks))
        BY <1>1 DEF FrameRecords
    <1>. QED
        BY <1>1, <1>2, <1>3 DEF Ready, Peek

LEMMA RecordTyped ==
    ASSUME NEW m, NEW f \in FrameRecords(m), NEW pc \in Addresses
    PROVE  /\ \A stack \in Seq(Valid(m)) : [f EXCEPT !.pc = pc, !.stack = stack] \in FrameRecords(m)
           /\ \A env \in Seq(Nat) : [f EXCEPT !.pc = pc, !.env = env] \in FrameRecords(m)
           /\ \A hs \in Seq(Handlers) : [f EXCEPT !.pc = pc, !.handlers = hs] \in FrameRecords(m)
    BY DEF FrameRecords

LEMMA NewFrameTyped ==
    ASSUME NEW m \in Nat, NEW k \in 1 .. m
    PROVE  NewFrame(k) \in FrameRecords(m)
    <1>1. NewFrame(k).env \in Seq(Nat)
        BY DEF NewFrame, Globals
    <1>. QED
        BY <1>1 DEF NewFrame, FrameRecords, Addresses, Globals

(* The running frame replaced.                                             *)
LEMMA BecomesTyped ==
    ASSUME TypeOK, status = "running", NEW f \in FrameRecords(Chunks), Becomes(f),
           UNCHANGED <<program, status, result>>,
           log' \in Seq([at : Seq(Nat), args : Seq(Values), v : Values \cup {Refusal, Failure}])
    PROVE  TypeOK'
    <1>1. frames' \in Seq(FrameRecords(Chunks)) /\ frames' # <<>>
        BY TopTyped, ReplaceFacts DEF TypeOK, Becomes, Chunks
    <1>. QED
        BY <1>1 DEF TypeOK, Chunks

LEMMA QuietTyped ==
    ASSUME TypeOK, status = "running", NEW f \in FrameRecords(Chunks), Becomes(f),
           UNCHANGED status, NoEvent
    PROVE  TypeOK'
    BY BecomesTyped DEF NoEvent, TypeOK

LEMMA GoesTyped ==
    ASSUME TypeOK, status = "running", NEW pc \in Addresses, NEW stack \in Seq(Valid(Chunks)),
           Goes(pc, stack), UNCHANGED status, NoEvent
    PROVE  TypeOK'
    <1>1. [Top EXCEPT !.pc = pc, !.stack = stack] \in FrameRecords(Chunks)
        BY TopTyped, RecordTyped DEF FrameRecords
    <1>. QED
        BY <1>1, QuietTyped DEF Goes

(* A computation is logged with its operands.                              *)
LEMMA EventTyped ==
    ASSUME TypeOK, NEW ops, Ready(ops), NEW v \in Values \cup {Refusal, Failure}, Event(v)
    PROVE  log' \in Seq([at : Seq(Nat), args : Seq(Values), v : Values \cup {Refusal, Failure}])
    <1>1. Operands \in Seq(Valid(Chunks))
        BY ReadyTyped DEF Operands
    <1>2. Operands \in Seq(Values)
        BY <1>1 DEF Valid
    <1>3. Instr.at \in Seq(Nat)
        BY ReadyTyped DEF Instructions
    <1>. QED
        BY <1>2, <1>3 DEF Event, TypeOK

(* An end of the execution.                                                *)
LEMMA EndTyped ==
    ASSUME TypeOK, frames' = <<>>, status' \in {"returned", "failed", "error", "crashed"},
           UNCHANGED program, result' \in Values,
           log' \in Seq([at : Seq(Nat), args : Seq(Values), v : Values \cup {Refusal, Failure}])
    PROVE  TypeOK'
    BY DEF TypeOK

LEMMA InstructionTyped ==
    ASSUME TypeOK, NEW ops, Ready(ops)
    PROVE  /\ status = "running"
           /\ Top \in FrameRecords(Chunks)
           /\ Instr.n \in Nat /\ Instr.to \in Addresses /\ Instr.out \subseteq Valid(Chunks)
           /\ Top.pc \in Nat /\ Top.pc + 1 \in Addresses
           /\ Top.env \in Seq(Nat) /\ Top.handlers \in Seq(Handlers)
           /\ \A n \in 0 .. Needs(Instr) : Pop(Top.stack, n) \in Seq(Valid(Chunks))
    <1>1. status = "running" /\ Top \in FrameRecords(Chunks)
        BY TopTyped DEF Ready
    <1>2. Instr.n \in Nat /\ Instr.to \in Addresses /\ Instr.out \subseteq Valid(Chunks)
        BY ReadyTyped DEF Instructions
    <1>3. ASSUME NEW n \in 0 .. Needs(Instr) PROVE Pop(Top.stack, n) \in Seq(Valid(Chunks))
        BY ReadyTyped, PopFacts
    <1>. QED
        BY <1>1, <1>2, <1>3 DEF FrameRecords, Addresses

LEMMA ValuesTyped ==
    ASSUME NEW m
    PROVE  /\ Void \in Valid(m)
           /\ \A v \in Valid(m) : Bound(v) \in Valid(m)
           /\ \A n \in Nat : V("iterator", n) \in Valid(m) /\ V("element", n) \in Valid(m)
    BY DEF Void, V, Valid, Values, Kinds, Bound

(* An instruction keeps the types: one lemma for each kind.                *)
LEMMA EvalTyped == TypeOK /\ Eval => TypeOK'
    <1>. SUFFICES ASSUME TypeOK, Eval PROVE TypeOK'
        OBVIOUS
    <1>1. Ready({"EVAL"}) /\ Needs(Instr) = Instr.n
        BY DEF Eval, Ready, Needs
    <1>2. PICK v \in Instr.out :
            /\ Goes(Top.pc + 1, Append(Pop(Top.stack, Instr.n), Fresh(v)))
            /\ Event(Fresh(v))
        BY DEF Eval
    <1>3. Fresh(v) \in Valid(Chunks) /\ Fresh(v) \in Values
        <2>1. v \in Valid(Chunks)
            BY <1>1, InstructionTyped
        <2>2. Len(log) + 1 \in Nat
            BY DEF TypeOK
        <2>. QED
            BY <2>1, <2>2 DEF Fresh, Valid, Values
    <1>4. Pop(Top.stack, Instr.n) \in Seq(Valid(Chunks))
        BY <1>1, InstructionTyped
    <1>5. [Top EXCEPT !.pc = Top.pc + 1, !.stack = Append(Pop(Top.stack, Instr.n), Fresh(v))]
              \in FrameRecords(Chunks)
        BY <1>1, <1>3, <1>4, InstructionTyped, AppendFacts, RecordTyped
    <1>6. log' \in Seq([at : Seq(Nat), args : Seq(Values), v : Values \cup {Refusal, Failure}])
        BY <1>1, <1>2, <1>3, EventTyped
    <1>. QED
        BY <1>1, <1>2, <1>5, <1>6, InstructionTyped, BecomesTyped DEF Goes, Eval

LEMMA LoadTyped == TypeOK /\ Load => TypeOK'
    <1>. SUFFICES ASSUME TypeOK, Load PROVE TypeOK'
        OBVIOUS
    <1>1. Ready({"LOAD"}) /\ UNCHANGED status /\ NoEvent
        BY DEF Load
    <1>2. PICK v \in Instr.out : Goes(Top.pc + 1, Append(Top.stack, v))
        BY DEF Load
    <1>3. Append(Top.stack, v) \in Seq(Valid(Chunks))
        BY <1>1, InstructionTyped, ReadyTyped, AppendFacts
    <1>. QED
        BY <1>1, <1>2, <1>3, InstructionTyped, GoesTyped

LEMMA StoreTyped == TypeOK /\ Store => TypeOK'
    <1>. SUFFICES ASSUME TypeOK, Store PROVE TypeOK'
        OBVIOUS
    <1>1. Ready({"STORE"}) /\ Needs(Instr) = Instr.n /\ Void \in Values
        BY DEF Store, Ready, Needs, Void, V, Values, Kinds
    <1>2. log' \in Seq([at : Seq(Nat), args : Seq(Values), v : Values \cup {Refusal, Failure}])
        BY <1>1, EventTyped DEF Store
    <1>3. [Top EXCEPT !.pc = Top.pc + 1, !.stack = Pop(Top.stack, Instr.n)] \in FrameRecords(Chunks)
        <2>1. Pop(Top.stack, Instr.n) \in Seq(Valid(Chunks))
            BY <1>1, InstructionTyped, ReadyTyped
        <2>. QED
            BY <1>1, <2>1, InstructionTyped, RecordTyped
    <1>4. /\ Becomes([Top EXCEPT !.pc = Top.pc + 1, !.stack = Pop(Top.stack, Instr.n)])
          /\ UNCHANGED <<program, status, result>>
        BY DEF Goes, Store
    <1>. QED
        BY <1>1, <1>2, <1>3, <1>4, InstructionTyped, BecomesTyped

LEMMA DropTyped == TypeOK /\ Drop => TypeOK'
    <1>. SUFFICES ASSUME TypeOK, Drop PROVE TypeOK'
        OBVIOUS
    <1>1. Ready({"POP"}) /\ Needs(Instr) = 1
        BY DEF Drop, Ready, Needs
    <1>. QED
        BY <1>1, InstructionTyped, GoesTyped DEF Drop

LEMMA ScopeTyped == TypeOK /\ (PushScope \/ PopScope) => TypeOK'
    <1>. SUFFICES ASSUME TypeOK, PushScope \/ PopScope PROVE TypeOK'
        OBVIOUS
    <1>1. CASE PushScope
        <2>1. Ready({"PUSH_SCOPE"})
            BY <1>1 DEF PushScope
        <2>2. [Top EXCEPT !.pc = @ + 1, !.env = Append(@, Top.pc)] \in FrameRecords(Chunks)
            <3>1. Append(Top.env, Top.pc) \in Seq(Nat)
                BY <2>1, InstructionTyped, AppendFacts
            <3>. QED
                BY <2>1, <3>1, InstructionTyped, RecordTyped
        <2>3. Becomes([Top EXCEPT !.pc = @ + 1, !.env = Append(@, Top.pc)]) /\ UNCHANGED status /\ NoEvent
            BY <1>1 DEF PushScope
        <2>. QED
            BY <2>1, <2>2, <2>3, InstructionTyped, QuietTyped
    <1>2. CASE PopScope
        <2>1. Ready({"POP_SCOPE"}) /\ Top.env # <<>>
            BY <1>2 DEF PopScope, Globals
        <2>2. [Top EXCEPT !.pc = @ + 1, !.env = Front(@)] \in FrameRecords(Chunks)
            <3>1. Front(Top.env) \in Seq(Nat)
                BY <2>1, InstructionTyped, FrontFacts
            <3>. QED
                BY <2>1, <3>1, InstructionTyped, RecordTyped
        <2>3. Becomes([Top EXCEPT !.pc = @ + 1, !.env = Front(@)]) /\ UNCHANGED status /\ NoEvent
            BY <1>2 DEF PopScope
        <2>. QED
            BY <2>1, <2>2, <2>3, InstructionTyped, QuietTyped
    <1>. QED
        BY <1>1, <1>2

LEMMA JumpTyped == TypeOK /\ (Jump \/ JumpIf) => TypeOK'
    <1>. SUFFICES ASSUME TypeOK, NEW ops, Ready(ops),
                         NEW pc \in {Instr.to, Top.pc + 1}, Goes(pc, Top.stack),
                         UNCHANGED status, NoEvent
                  PROVE  TypeOK'
        BY DEF Jump, JumpIf
    <1>. QED
        BY InstructionTyped, ReadyTyped, GoesTyped

LEMMA HandlerTyped == TypeOK /\ (PushHandler \/ PopHandler) => TypeOK'
    <1>. SUFFICES ASSUME TypeOK, PushHandler \/ PopHandler PROVE TypeOK'
        OBVIOUS
    <1>1. CASE PushHandler
        <2>. DEFINE h == [to |-> Instr.to, depth |-> Len(Top.stack), env |-> Top.env]
        <2>1. Ready({"PUSH_HANDLER"})
            BY <1>1 DEF PushHandler
        <2>2. [Top EXCEPT !.pc = @ + 1, !.handlers = Append(@, h)] \in FrameRecords(Chunks)
            <3>1. h \in Handlers
                BY <2>1, InstructionTyped, ReadyTyped DEF Handlers
            <3>2. Append(Top.handlers, h) \in Seq(Handlers)
                BY <2>1, <3>1, InstructionTyped, AppendFacts
            <3>. QED
                BY <2>1, <3>2, InstructionTyped, RecordTyped
        <2>3. Becomes([Top EXCEPT !.pc = @ + 1, !.handlers = Append(@, h)]) /\ UNCHANGED status /\ NoEvent
            BY <1>1 DEF PushHandler
        <2>. QED
            BY <2>1, <2>2, <2>3, InstructionTyped, QuietTyped
    <1>2. CASE PopHandler
        <2>1. Ready({"POP_HANDLER"}) /\ Top.handlers # <<>>
            BY <1>2 DEF PopHandler
        <2>2. [Top EXCEPT !.pc = @ + 1, !.handlers = Front(@)] \in FrameRecords(Chunks)
            <3>1. Front(Top.handlers) \in Seq(Handlers)
                BY <2>1, InstructionTyped, FrontFacts
            <3>. QED
                BY <2>1, <3>1, InstructionTyped, RecordTyped
        <2>3. Becomes([Top EXCEPT !.pc = @ + 1, !.handlers = Front(@)]) /\ UNCHANGED status /\ NoEvent
            BY <1>2 DEF PopHandler
        <2>. QED
            BY <2>1, <2>2, <2>3, InstructionTyped, QuietTyped
    <1>. QED
        BY <1>1, <1>2

(* An instruction on the topmost operand that goes to a valid address with *)
(* the operand, something computed from it, or neither.                    *)
LEMMA PeekTyped ==
    ASSUME TypeOK, NEW ops, Ready(ops), Needs(Instr) = 1, NEW v \in Valid(Chunks)
    PROVE  /\ Peek \in Valid(Chunks)
           /\ Pop(Top.stack, 1) \in Seq(Valid(Chunks))
           /\ Append(Pop(Top.stack, 1), v) \in Seq(Valid(Chunks))
    BY InstructionTyped, ReadyTyped, AppendFacts

LEMMA AcceptTyped == TypeOK /\ (ClauseCheck \/ Accept) => TypeOK'
    <1>. SUFFICES ASSUME TypeOK, NEW ops, Ready(ops), Needs(Instr) = 1, UNCHANGED status, NoEvent,
                         NEW pc \in {Instr.to, Top.pc + 1},
                         NEW stack \in {Pop(Top.stack, 1), Append(Pop(Top.stack, 1), Bound(Peek))},
                         Goes(pc, stack)
                  PROVE  TypeOK'
        <2>1. ASSUME ClauseCheck PROVE Ready({"CLAUSE_CHECK"}) /\ Needs(Instr) = 1
            BY <2>1 DEF ClauseCheck, Ready, Needs
        <2>2. ASSUME Accept PROVE Ready({"POP_CHECKED", "FAILABLE_UNWRAP"}) /\ Needs(Instr) = 1
            BY <2>2 DEF Accept, Ready, Needs
        <2>. QED
            BY <2>1, <2>2 DEF ClauseCheck, Accept
    <1>1. Peek \in Valid(Chunks)
        BY PeekTyped, ValuesTyped
    <1>2. Bound(Peek) \in Valid(Chunks)
        BY <1>1, ValuesTyped
    <1>3. stack \in Seq(Valid(Chunks))
        BY <1>2, PeekTyped
    <1>. QED
        BY <1>3, InstructionTyped, GoesTyped

LEMMA IterTyped == TypeOK /\ (GetIter \/ ForIter) => TypeOK'
    <1>. SUFFICES ASSUME TypeOK, GetIter \/ ForIter PROVE TypeOK'
        OBVIOUS
    <1>1. /\ Ready({"GET_ITER"}) \/ Ready({"FOR_ITER"})
          /\ Needs(Instr) = 1
        BY DEF GetIter, ForIter, Ready, Needs
    <1>2. Peek \in Valid(Chunks) /\ Pop(Top.stack, 1) \in Seq(Valid(Chunks))
        BY <1>1, PeekTyped, ValuesTyped
    <1>3. CASE GetIter
        <2>1. V("iterator", Peek.n) \in Valid(Chunks)
            BY <1>2, ValuesTyped DEF Valid, Values
        <2>2. Append(Pop(Top.stack, 1), V("iterator", Peek.n)) \in Seq(Valid(Chunks))
            BY <1>2, <2>1, AppendFacts
        <2>. QED
            BY <1>1, <1>3, <2>2, InstructionTyped, GoesTyped DEF GetIter
    <1>4. CASE ForIter /\ Peek.n > 0
        <2>. DEFINE kept == Append(Pop(Top.stack, 1), V("iterator", Peek.n - 1))
        <2>1. V("iterator", Peek.n - 1) \in Valid(Chunks) /\ V("element", Peek.n) \in Valid(Chunks)
            <3>1. Peek.n \in Nat
                BY <1>2 DEF Valid, Values
            <3>2. Peek.n - 1 \in Nat
                BY <3>1, <1>4
            <3>. QED
                BY <3>1, <3>2, ValuesTyped
        <2>2. kept \in Seq(Valid(Chunks))
            BY <1>2, <2>1, AppendFacts
        <2>3. Append(kept, V("element", Peek.n)) \in Seq(Valid(Chunks))
            BY <2>1, <2>2, AppendFacts
        <2>4. Goes(Top.pc + 1, Append(kept, V("element", Peek.n))) /\ UNCHANGED status /\ NoEvent
            BY <1>4 DEF ForIter
        <2>5. Top.pc + 1 \in Addresses /\ status = "running"
            BY <1>1, InstructionTyped
        <2>. QED
            BY <2>3, <2>4, <2>5, GoesTyped
    <1>5. CASE ForIter /\ ~ (Peek.n > 0)
        BY <1>1, <1>2, <1>5, InstructionTyped, GoesTyped DEF ForIter
    <1>. QED
        BY <1>3, <1>4, <1>5

LEMMA HandledTyped ==
    ASSUME NEW m, NEW f \in FrameRecords(m), f.handlers # <<>>
    PROVE  Handled(f) \in FrameRecords(m)
    <1>1. f.handlers \in Seq(Handlers) /\ f.stack \in Seq(Valid(m))
        BY DEF FrameRecords
    <1>2. Last(f.handlers) \in Handlers /\ Front(f.handlers) \in Seq(Handlers)
        BY <1>1, FrontFacts
    <1>3. Truncate(f.stack, Last(f.handlers).depth) \in Seq(Valid(m))
        BY <1>1, <1>2, TruncateFacts DEF Handlers
    <1>. QED
        BY <1>1, <1>2, <1>3 DEF Handled, FrameRecords, Handlers

(* The frames of a call stack up to k, and another on top.                 *)
LEMMA StackedTyped ==
    ASSUME NEW S, NEW fs \in Seq(S), NEW k \in 0 .. Len(fs), NEW f \in S
    PROVE  /\ Append(SubSeq(fs, 1, k), f) \in Seq(S)
           /\ Append(SubSeq(fs, 1, k), f) # <<>>
           /\ Len(Append(SubSeq(fs, 1, k), f)) = k + 1
           /\ Append(SubSeq(fs, 1, k), f)[k + 1] = f
           /\ \A i \in 1 .. k : Append(SubSeq(fs, 1, k), f)[i] = fs[i]
    <1>. DEFINE s == SubSeq(fs, 1, k)
    <1>1. s \in Seq(S) /\ Len(s) = k /\ \A i \in 1 .. k : s[i] = fs[i]
        OBVIOUS
    <1>. HIDE DEF s
    <1>2. /\ Append(s, f) \in Seq(S) /\ Append(s, f) # <<>> /\ Len(Append(s, f)) = k + 1
          /\ Append(s, f)[k + 1] = f
          /\ \A i \in 1 .. k : Append(s, f)[i] = fs[i]
        BY <1>1, AppendFacts
    <1>. QED
        BY <1>2 DEF s

LEMMA LogTyped == TypeOK => log \in Seq([at : Seq(Nat), args : Seq(Values), v : Values \cup {Refusal, Failure}])
    BY DEF TypeOK

(* The frames while an instruction fails or calls: the operands of the     *)
(* running one are taken off.                                              *)
LEMMA PoppedFacts ==
    ASSUME TypeOK, NEW ops, Ready(ops), NEW n \in 0 .. Needs(Instr)
    PROVE  LET popped == [frames EXCEPT ![Len(frames)].stack = Pop(@, n)]
           IN  /\ popped \in Seq(FrameRecords(Chunks)) /\ popped # <<>>
               /\ Len(popped) = Len(frames)
               /\ \A i \in 1 .. Len(frames) : i # Len(frames) => popped[i] = frames[i]
               /\ popped[Len(frames)] = [Top EXCEPT !.stack = Pop(Top.stack, n)]
    <1>. DEFINE f == [Top EXCEPT !.stack = Pop(Top.stack, n)]
    <1>1. status = "running" /\ Top \in FrameRecords(Chunks) /\ Pop(Top.stack, n) \in Seq(Valid(Chunks))
        BY InstructionTyped
    <1>2. f \in FrameRecords(Chunks)
        BY <1>1 DEF FrameRecords
    <1>3. /\ frames \in Seq(FrameRecords(Chunks)) /\ frames # <<>> /\ Len(frames) \in Nat \ {0}
        BY <1>1, TopTyped DEF TypeOK, Chunks
    <1>4. [frames EXCEPT ![Len(frames)].stack = Pop(@, n)] = [frames EXCEPT ![Len(frames)] = f]
        BY <1>3 DEF Top
    <1>. HIDE DEF f
    <1>5. LET r == [frames EXCEPT ![Len(frames)] = f]
          IN  /\ r \in Seq(FrameRecords(Chunks)) /\ r # <<>> /\ Len(r) = Len(frames)
              /\ r[Len(frames)] = f
              /\ \A i \in 1 .. Len(frames) - 1 : r[i] = frames[i]
        BY <1>2, <1>3, ReplaceFacts
    <1>. QED
        BY <1>3, <1>4, <1>5 DEF f

(* What raises a VerseFailure has its operands, which it takes off, and    *)
(* leaves a log.                                                           *)
LEMMA FailingFacts ==
    ASSUME TypeOK, Failing
    PROVE  /\ \E ops : Ready(ops)
           /\ Instr.op \in MayFail
           /\ log' \in Seq([at : Seq(Nat), args : Seq(Values), v : Values \cup {Refusal, Failure}])
    <1>1. CASE Ready({"POP_CHECKED", "FAILABLE_UNWRAP"}) /\ UNCHANGED log
        BY <1>1, LogTyped DEF Ready, MayFail
    <1>2. CASE Ready({"EVAL", "CALL"}) /\ Event(Failure)
        BY <1>2, EventTyped DEF Ready, MayFail
    <1>. QED
        BY <1>1, <1>2 DEF Failing

LEMMA RaiseTyped == TypeOK /\ Raise => TypeOK'
    <1>. SUFFICES ASSUME TypeOK, Raise PROVE TypeOK'
        OBVIOUS
    <1>. DEFINE catching == {i \in 1 .. Len(frames) : frames[i].handlers # <<>>}
                popped == [frames EXCEPT ![Len(frames)].stack = Pop(@, Needs(Instr))]
    <1>0. PICK ops : Ready(ops)
        BY FailingFacts DEF Raise
    <1>1. /\ Needs(Instr) \in 0 .. Needs(Instr)
          /\ program' = program /\ result' = result /\ result \in Values
          /\ log' \in Seq([at : Seq(Nat), args : Seq(Values), v : Values \cup {Refusal, Failure}])
        BY <1>0, ReadyTyped, FailingFacts DEF Raise, TypeOK
    <1>2. /\ popped \in Seq(FrameRecords(Chunks)) /\ popped # <<>>
          /\ Len(popped) = Len(frames)
          /\ \A i \in 1 .. Len(frames) : i # Len(frames) => popped[i] = frames[i]
          /\ popped[Len(frames)] = [Top EXCEPT !.stack = Pop(Top.stack, Needs(Instr))]
        BY <1>0, <1>1, PoppedFacts
    <1>3. CASE frames' = <<>> /\ status' = "failed"
        BY <1>1, <1>3, EndTyped
    <1>4. ASSUME NEW k \in catching,
                 frames' = Append(SubSeq(frames, 1, k - 1), Handled(popped[k])), UNCHANGED status
          PROVE  TypeOK'
        <2>1. /\ frames \in Seq(FrameRecords(Chunks)) /\ Len(frames) \in Nat \ {0}
              /\ Top \in FrameRecords(Chunks) /\ k \in 1 .. Len(frames) /\ k - 1 \in 0 .. Len(frames)
            BY <1>0, TopTyped DEF TypeOK, Chunks, Ready
        <2>2. popped[k] \in FrameRecords(Chunks)
            BY <1>2, <2>1
        <2>3. popped[k].handlers = frames[k].handlers
            BY <1>2, <2>1 DEF Top, FrameRecords
        <2>4. Handled(popped[k]) \in FrameRecords(Chunks)
            BY <2>2, <2>3, HandledTyped
        <2>5. frames' \in Seq(FrameRecords(Chunks)) /\ frames' # <<>>
            BY <1>4, <2>1, <2>4, StackedTyped
        <2>6. status = "running" /\ status' = status
            BY <1>0, <1>4 DEF Ready
        <2>. QED
            BY <1>1, <2>5, <2>6 DEF TypeOK, Chunks
    <1>. QED
        BY <1>3, <1>4 DEF Raise

LEMMA CallTyped == TypeOK /\ Call => TypeOK'
    <1>. SUFFICES ASSUME TypeOK, Call PROVE TypeOK'
        OBVIOUS
    <1>. DEFINE popped == [frames EXCEPT ![Len(frames)].stack = Pop(@, Instr.n + 1)]
                new == NewFrame(Callee.n)
    <1>1. /\ Ready({"CALL"}) /\ Needs(Instr) = Instr.n + 1 /\ UNCHANGED status /\ NoEvent
          /\ Callee.kind = "function" /\ frames' = Append(popped, new)
        BY DEF Call, Ready, Needs
    <1>2. popped \in Seq(FrameRecords(Chunks)) /\ Len(popped) = Len(frames)
        <2>1. Instr.n + 1 \in 0 .. Needs(Instr)
            BY <1>1, ReadyTyped, InstructionTyped
        <2>. QED
            BY <1>1, <2>1, PoppedFacts
    <1>3. new \in FrameRecords(Chunks)
        <2>1. Callee \in Valid(Chunks)
            BY <1>1, ReadyTyped, InstructionTyped DEF Callee
        <2>2. Callee.n \in 1 .. Chunks /\ Chunks \in Nat
            BY <1>1, <2>1, TopTyped DEF Valid, Ready
        <2>. QED
            BY <2>2, NewFrameTyped
    <1>4. frames' \in Seq(FrameRecords(Chunks)) /\ frames' # <<>>
        BY <1>1, <1>2, <1>3, AppendFacts
    <1>. QED
        BY <1>1, <1>4 DEF NoEvent, TypeOK, Chunks, Ready

(* The frame below the topmost of n.                                       *)
LEMMA CallerIndex ==
    ASSUME NEW n \in Nat \ {0}, n # 1
    PROVE  /\ n - 1 \in 1 .. n /\ n - 1 \in 1 .. n - 1 /\ n - 2 \in 0 .. n
           /\ n - 1 - 1 = n - 2 /\ n - 1 - 1 \in 0 .. n /\ n - 1 - 1 + 1 = n - 1
    OBVIOUS

LEMMA ReturnsTyped ==
    ASSUME TypeOK, status = "running", NEW v \in Valid(Chunks), Returns(v), UNCHANGED <<program, log>>
    PROVE  TypeOK'
    <1>1. /\ frames \in Seq(FrameRecords(Chunks)) /\ Len(frames) \in Nat \ {0}
          /\ v \in Values
        BY TopTyped DEF TypeOK, Chunks, Valid
    <1>2. CASE Len(frames) = 1
        BY <1>1, <1>2, EndTyped, LogTyped DEF Returns
    <1>3. CASE Len(frames) # 1
        <2>. DEFINE caller == frames[Len(frames) - 1]
                    resumed == [caller EXCEPT !.pc = @ + 1, !.stack = Append(@, v)]
        <2>1. /\ frames' = Append(SubSeq(frames, 1, Len(frames) - 2), resumed)
              /\ UNCHANGED <<status, result>>
            BY <1>3 DEF Returns
        <2>2. caller \in FrameRecords(Chunks) /\ Len(frames) - 2 \in 0 .. Len(frames)
            <3>1. Len(frames) - 1 \in 1 .. Len(frames) /\ Len(frames) - 2 \in 0 .. Len(frames)
                BY <1>1, <1>3, CallerIndex
            <3>. QED
                BY <1>1, <3>1
        <2>3. caller.pc + 1 \in Addresses /\ Append(caller.stack, v) \in Seq(Valid(Chunks))
            BY <2>2, AppendFacts DEF FrameRecords, Addresses
        <2>4. resumed \in FrameRecords(Chunks)
            BY <2>2, <2>3, RecordTyped
        <2>. HIDE DEF resumed, caller
        <2>5. frames' \in Seq(FrameRecords(Chunks)) /\ frames' # <<>>
            BY <1>1, <2>1, <2>2, <2>4, StackedTyped
        <2>. QED
            BY <2>1, <2>5 DEF TypeOK, Chunks
    <1>. QED
        BY <1>2, <1>3

LEMMA ReturnTyped == TypeOK /\ Return => TypeOK'
    <1>. SUFFICES ASSUME TypeOK, Return PROVE TypeOK'
        OBVIOUS
    <1>1. CASE Ready({"RETURN"}) /\ Returns(Peek)
        <2>1. Needs(Instr) = 1 /\ status = "running"
            BY <1>1 DEF Ready, Needs
        <2>2. Peek \in Valid(Chunks)
            BY <1>1, <2>1, PeekTyped, ValuesTyped
        <2>. QED
            BY <1>1, <2>1, <2>2, ReturnsTyped DEF Return
    <1>2. CASE status = "running" /\ AtEnd /\ Returns(Void)
        BY <1>2, ValuesTyped, ReturnsTyped DEF Return
    <1>. QED
        BY <1>1, <1>2 DEF Return

LEMMA EndingTyped == TypeOK /\ (Error \/ Crash) => TypeOK'
    <1>. SUFFICES ASSUME TypeOK, Error \/ Crash PROVE TypeOK'
        OBVIOUS
    <1>1. CASE Error
        <2>1. PICK ops : Ready(ops) /\ Event(Refusal)
            BY <1>1 DEF Error
        <2>2. log' \in Seq([at : Seq(Nat), args : Seq(Values), v : Values \cup {Refusal, Failure}])
            BY <2>1, EventTyped
        <2>. QED
            BY <1>1, <2>2, EndTyped DEF Error, TypeOK
    <1>2. CASE Crash
        BY <1>2, EndTyped, LogTyped DEF Crash, NoEvent, TypeOK
    <1>. QED
        BY <1>1, <1>2

LEMMA TypeInit == Init => TypeOK
    <1>. SUFFICES ASSUME Init PROVE TypeOK
        OBVIOUS
    <1>1. Code(program.chunks) /\ Chunks \in Nat /\ 1 \in 1 .. Chunks
        BY ProgramsAssumption, EmptySeq DEF Init, Code, Chunks
    <1>2. NewFrame(1) \in FrameRecords(Chunks)
        BY <1>1, NewFrameTyped
    <1>3. <<NewFrame(1)>> \in Seq(FrameRecords(Chunks)) /\ <<NewFrame(1)>> # <<>>
        BY <1>2
    <1>. QED
        BY <1>1, <1>3 DEF Init, TypeOK, Void, V, Values, Kinds, Chunks

LEMMA TypeNext == TypeOK /\ [Next]_vars => TypeOK'
    <1>. SUFFICES ASSUME TypeOK, [Next]_vars PROVE TypeOK'
        OBVIOUS
    <1>1. CASE UNCHANGED vars
        BY <1>1 DEF TypeOK, vars
    <1>2. CASE Ended
        BY <1>2 DEF Ended, TypeOK, vars
    <1>. QED
        BY <1>1, <1>2, EvalTyped, LoadTyped, StoreTyped, DropTyped, ScopeTyped, JumpTyped,
           HandlerTyped, AcceptTyped, RaiseTyped, CallTyped, ReturnTyped, IterTyped, EndingTyped
           DEF Next

(* Whatever its code, a program keeps the types of the machine.            *)
THEOREM TypeCorrect == Spec => []TypeOK
    BY TypeInit, TypeNext, PTL DEF Spec

----------------------------------------------------------------------------
(* Verified code.                                                          *)

(* Operands taken off, put on, and left when a handler is resumed.         *)
LEMMA FitsPop ==
    ASSUME NEW S, NEW s \in Seq(S), NEW h \in Nat, NEW iters, Fits(s, h, iters), NEW n \in 0 .. h
    PROVE  Fits(Pop(s, n), h - n, iters)
    <1>1. Len(s) = h /\ n \in 0 .. Len(s)
        BY DEF Fits
    <1>2. Len(Pop(s, n)) = Len(s) - n /\ \A i \in 1 .. Len(s) - n : Pop(s, n)[i] = s[i]
        BY <1>1, PopFacts
    <1>3. \A i \in 1 .. h - n : i \in 1 .. h
        OBVIOUS
    <1>. QED
        BY <1>1, <1>2, <1>3 DEF Fits

LEMMA FitsPush ==
    ASSUME NEW S, NEW s \in Seq(S), NEW h \in Nat, NEW iters, Fits(s, h, iters),
           NEW v \in S, NEW new,
           v.kind = "iterator" <=> h + 1 \in new,
           \A i \in 1 .. h : i \in iters <=> i \in new
    PROVE  Fits(Append(s, v), h + 1, new)
    BY AppendFacts DEF Fits

LEMMA FitsTruncate ==
    ASSUME NEW S, NEW s \in Seq(S), NEW h \in Nat, NEW iters, Fits(s, h, iters), NEW d \in 0 .. h
    PROVE  Fits(Truncate(s, d), d, {i \in iters : i <= d})
    <1>1. Len(s) = h /\ d <= Len(s) /\ d \in Nat
        BY DEF Fits
    <1>2. /\ Len(Truncate(s, d)) = d
          /\ \A i \in 1 .. d : i \in 1 .. h /\ Truncate(s, d)[i] = s[i]
        BY <1>1, TruncateFacts
    <1>. QED
        BY <1>2 DEF Fits

(* The type of the instruction the running frame is at.                    *)
TopType == program.types[Top.fn][Top.pc]

LEMMA TopVerified ==
    ASSUME TypeOK, Verified(program), WellTyped, status = "running"
    PROVE  /\ ~ AtEnd
           /\ TopType \in Types /\ TopType.iters \subseteq 1 .. TopType.height
           /\ Allowed(Instr, TopType)
           /\ Matches(Top, TopType, 0)
           /\ \A u \in Successors(Instr, Top.pc, TopType) :
                /\ u.pc \in DOMAIN program.types[Top.fn] /\ program.types[Top.fn][u.pc] = u.type
                /\ u.type \in Types
    <1>1. Top.fn \in 1 .. Len(program.chunks)
        BY TopTyped DEF FrameRecords, Chunks
    <1>2. VerifiedChunk(program, Top.fn)
        BY <1>1 DEF Verified
    <1>3. Top.pc \in DOMAIN program.types[Top.fn] /\ Matches(Top, TopType, 0)
        BY DEF WellTyped, FrameOk, TopType
    <1>4. Top.pc \in 1 .. Len(Chunk)
        BY <1>2, <1>3 DEF VerifiedChunk, Chunk
    <1>5. Len(Chunk) \in Nat
        BY TopTyped
    <1>. QED
        BY <1>2, <1>3, <1>4, <1>5 DEF VerifiedChunk, TopType, AtEnd, Instr, Chunk

(* The running frame goes on to one of the successors of its instruction.  *)
LEMMA StepsStay ==
    ASSUME TypeOK, Verified(program), WellTyped, status = "running",
           NEW f, f.fn = Top.fn, Becomes(f), UNCHANGED <<program, status>>,
           NEW u \in Successors(Instr, Top.pc, TopType), f.pc = u.pc, Matches(f, u.type, 0)
    PROVE  WellTyped'
    <1>1. /\ frames \in Seq(FrameRecords(Chunks)) /\ frames # <<>> /\ Len(frames) \in Nat \ {0}
        BY TopTyped DEF TypeOK, Chunks
    <1>2. /\ Len(frames') = Len(frames) /\ frames'[Len(frames)] = f
          /\ \A i \in 1 .. Len(frames) - 1 : frames'[i] = frames[i]
        BY <1>1, ReplaceFacts DEF Becomes
    <1>3. FrameOk(program, f, 0)
        BY TopVerified DEF FrameOk
    <1>. QED
        BY <1>2, <1>3 DEF WellTyped, Top

LEMMA GoesStays ==
    ASSUME TypeOK, Verified(program), WellTyped, status = "running",
           NEW pc, NEW stack, Goes(pc, stack), UNCHANGED <<program, status>>,
           NEW u \in Successors(Instr, Top.pc, TopType), u.pc = pc,
           u.type.env = TopType.env, u.type.handlers = TopType.handlers,
           Fits(stack, u.type.height, u.type.iters)
    PROVE  WellTyped'
    <1>. DEFINE f == [Top EXCEPT !.pc = pc, !.stack = stack]
    <1>1. /\ f.fn = Top.fn /\ f.pc = pc /\ f.stack = stack
          /\ f.env = Top.env /\ f.handlers = Top.handlers
        BY TopTyped DEF FrameRecords
    <1>2. Matches(f, u.type, 0)
        BY <1>1, TopVerified DEF Matches, Types
    <1>3. Becomes(f)
        BY DEF Goes
    <1>. HIDE DEF f
    <1>. QED
        BY <1>1, <1>2, <1>3, StepsStay

(* The operands of the running frame are those of its type.                *)
LEMMA TopFits ==
    ASSUME TypeOK, Verified(program), WellTyped, NEW ops, Ready(ops)
    PROVE  /\ status = "running"
           /\ TopType.height \in Nat
           /\ Fits(Top.stack, TopType.height, TopType.iters)
           /\ Len(Top.stack) = TopType.height
           /\ Needs(Instr) \in 0 .. TopType.height
           /\ Instr.op # "FOR_ITER" => \A h \in TopType.iters : h <= TopType.height - Needs(Instr)
    <1>1. status = "running"
        BY DEF Ready
    <1>2. TopType.height \in Nat /\ Fits(Top.stack, TopType.height, TopType.iters)
        BY <1>1, TopVerified DEF Matches, Types
    <1>. QED
        BY <1>1, <1>2, TopVerified, ReadyTyped DEF Fits, Allowed

(* n operands are replaced by a value that is no iterator.                 *)
LEMMA PushStays ==
    ASSUME TypeOK, Verified(program), WellTyped, NEW ops, Ready(ops),
           Instr.op # "FOR_ITER", NEW n \in 0 .. Needs(Instr), n = Needs(Instr),
           NEW v \in Valid(Chunks), v.kind # "iterator"
    PROVE  Fits(Append(Pop(Top.stack, n), v), TopType.height - n + 1, TopType.iters)
    <1>1. /\ TopType.height \in Nat /\ n \in 0 .. TopType.height
          /\ Fits(Top.stack, TopType.height, TopType.iters)
          /\ \A h \in TopType.iters : h <= TopType.height - n
        BY TopFits
    <1>2. Top.stack \in Seq(Valid(Chunks)) /\ Pop(Top.stack, n) \in Seq(Valid(Chunks))
        BY ReadyTyped, InstructionTyped
    <1>3. Fits(Pop(Top.stack, n), TopType.height - n, TopType.iters)
        BY <1>1, <1>2, FitsPop
    <1>4. TopType.height - n \in Nat /\ TopType.height - n + 1 \notin TopType.iters
        BY <1>1
    <1>. QED
        BY <1>2, <1>3, <1>4, FitsPush

LEMMA EvalStays == TypeOK /\ Verified(program) /\ WellTyped /\ Eval => WellTyped'
    <1>. SUFFICES ASSUME TypeOK, Verified(program), WellTyped, Eval PROVE WellTyped'
        OBVIOUS
    <1>1. Ready({"EVAL"}) /\ Instr.op = "EVAL" /\ Needs(Instr) = Instr.n
        BY DEF Eval, Ready, Needs
    <1>2. PICK v \in Instr.out : Goes(Top.pc + 1, Append(Pop(Top.stack, Instr.n), Fresh(v)))
        BY DEF Eval
    <1>3. Fresh(v) \in Valid(Chunks) /\ Fresh(v).kind # "iterator"
        <2>1. v \in Valid(Chunks) /\ v.kind # "iterator"
            BY <1>1, InstructionTyped, TopVerified DEF Allowed
        <2>2. Len(log) + 1 \in Nat
            BY DEF TypeOK
        <2>. QED
            BY <2>1, <2>2 DEF Fresh, Valid, Values
    <1>. DEFINE u == To(Top.pc + 1, Pushes(Pops(TopType, Instr.n)))
    <1>4. u \in Successors(Instr, Top.pc, TopType)
        BY <1>1 DEF Successors
    <1>5. /\ u.pc = Top.pc + 1 /\ u.type.height = TopType.height - Instr.n + 1
          /\ u.type.iters = TopType.iters /\ u.type.env = TopType.env
          /\ u.type.handlers = TopType.handlers
        BY <1>1, TopVerified, TopFits DEF To, Pushes, Pops, Types
    <1>6. Fits(Append(Pop(Top.stack, Instr.n), Fresh(v)), TopType.height - Instr.n + 1, TopType.iters)
        <2>1. Instr.n \in 0 .. Needs(Instr)
            BY <1>1, InstructionTyped
        <2>. QED
            BY <1>1, <1>3, <2>1, PushStays
    <1>. HIDE DEF u
    <1>7. UNCHANGED <<program, status>> /\ status = "running"
        BY <1>1 DEF Eval, Ready
    <1>. QED
        BY <1>2, <1>4, <1>5, <1>6, <1>7, GoesStays

LEMMA LoadStays == TypeOK /\ Verified(program) /\ WellTyped /\ Load => WellTyped'
    <1>. SUFFICES ASSUME TypeOK, Verified(program), WellTyped, Load PROVE WellTyped'
        OBVIOUS
    <1>1. Ready({"LOAD"}) /\ Instr.op = "LOAD" /\ Needs(Instr) = 0
        BY DEF Load, Ready, Needs
    <1>2. PICK v \in Instr.out : Goes(Top.pc + 1, Append(Top.stack, v))
        BY DEF Load
    <1>3. v \in Valid(Chunks) /\ v.kind # "iterator"
        BY <1>1, InstructionTyped, TopVerified DEF Allowed
    <1>. DEFINE u == To(Top.pc + 1, Pushes(TopType))
    <1>4. u \in Successors(Instr, Top.pc, TopType)
        BY <1>1 DEF Successors
    <1>5. /\ u.pc = Top.pc + 1 /\ u.type.height = TopType.height + 1
          /\ u.type.iters = TopType.iters /\ u.type.env = TopType.env
          /\ u.type.handlers = TopType.handlers
        <2>1. TopType \in Types
            BY <1>1, TopVerified, TopFits
        <2>. QED
            BY <2>1 DEF To, Pushes, Types
    <1>6. Fits(Append(Top.stack, v), TopType.height + 1, TopType.iters)
        <2>1. /\ TopType.height \in Nat /\ Fits(Top.stack, TopType.height, TopType.iters)
              /\ TopType.height + 1 \notin TopType.iters
            BY <1>1, TopFits
        <2>2. Top.stack \in Seq(Valid(Chunks))
            BY <1>1, ReadyTyped
        <2>3. Fits(Append(Top.stack, v), TopType.height + 1, TopType.iters)
            BY <1>3, <2>1, <2>2, FitsPush
        <2>. QED
            BY <2>3
    <1>. HIDE DEF u
    <1>7. UNCHANGED <<program, status>> /\ status = "running"
        BY <1>1 DEF Load, Ready, NoEvent
    <1>. QED
        BY <1>2, <1>4, <1>5, <1>6, <1>7, GoesStays

(* STORE and POP.                                                          *)
LEMMA PopStays == TypeOK /\ Verified(program) /\ WellTyped /\ (Store \/ Drop) => WellTyped'
    <1>. SUFFICES ASSUME TypeOK, Verified(program), WellTyped, NEW ops, Ready(ops),
                         Instr.op \in {"STORE", "POP"}, UNCHANGED <<program, status>>,
                         Goes(Top.pc + 1, Pop(Top.stack, Needs(Instr)))
                  PROVE  WellTyped'
        <2>1. ASSUME Store PROVE Ready({"STORE"}) /\ Instr.op = "STORE" /\ Needs(Instr) = Instr.n
            BY <2>1 DEF Store, Ready, Needs
        <2>2. ASSUME Drop PROVE Ready({"POP"}) /\ Instr.op = "POP" /\ Needs(Instr) = 1
            BY <2>2 DEF Drop, Ready, Needs
        <2>. QED
            BY <2>1, <2>2 DEF Store, Drop, NoEvent
    <1>. DEFINE u == To(Top.pc + 1, Pops(TopType, Needs(Instr)))
    <1>1. u \in Successors(Instr, Top.pc, TopType)
        BY DEF Successors
    <1>2. /\ u.pc = Top.pc + 1 /\ u.type.height = TopType.height - Needs(Instr)
          /\ u.type.iters = TopType.iters /\ u.type.env = TopType.env
          /\ u.type.handlers = TopType.handlers
        BY TopVerified, TopFits DEF To, Pops, Types
    <1>3. Fits(Pop(Top.stack, Needs(Instr)), TopType.height - Needs(Instr), TopType.iters)
        BY TopFits, ReadyTyped, FitsPop
    <1>. HIDE DEF u
    <1>. QED
        BY <1>1, <1>2, <1>3, TopFits, GoesStays

LEMMA JumpStays == TypeOK /\ Verified(program) /\ WellTyped /\ (Jump \/ JumpIf) => WellTyped'
    <1>. SUFFICES ASSUME TypeOK, Verified(program), WellTyped, NEW ops, Ready(ops),
                         NEW pc, To(pc, TopType) \in Successors(Instr, Top.pc, TopType),
                         UNCHANGED <<program, status>>, Goes(pc, Top.stack)
                  PROVE  WellTyped'
        <2>1. ASSUME Jump
              PROVE  /\ Ready({"JUMP"}) /\ Instr.op = "JUMP" /\ Goes(Instr.to, Top.stack)
                     /\ To(Instr.to, TopType) \in Successors(Instr, Top.pc, TopType)
            BY <2>1 DEF Jump, Ready, Successors
        <2>2. ASSUME JumpIf
              PROVE  /\ Ready({"JUMP_IF_FALSE", "JUMP_IF_TRUE"})
                     /\ Instr.op \in {"JUMP_IF_FALSE", "JUMP_IF_TRUE"}
                     /\ Goes(Instr.to, Top.stack) \/ Goes(Top.pc + 1, Top.stack)
            BY <2>2 DEF JumpIf, Ready
        <2>3. ASSUME Instr.op \in {"JUMP_IF_FALSE", "JUMP_IF_TRUE"}, NEW pc \in {Instr.to, Top.pc + 1}
              PROVE  To(pc, TopType) \in Successors(Instr, Top.pc, TopType)
            BY <2>3 DEF Successors
        <2>. QED
            BY <2>1, <2>2, <2>3 DEF Jump, JumpIf, NoEvent
    <1>1. To(pc, TopType).pc = pc /\ To(pc, TopType).type = TopType
        BY DEF To
    <1>. QED
        BY <1>1, TopFits, GoesStays

LEMMA ScopeStays == TypeOK /\ Verified(program) /\ WellTyped /\ (PushScope \/ PopScope) => WellTyped'
    <1>. SUFFICES ASSUME TypeOK, Verified(program), WellTyped, PushScope \/ PopScope PROVE WellTyped'
        OBVIOUS
    <1>. SUFFICES ASSUME NEW ops, Ready(ops),
                         NEW env, To(Top.pc + 1, [TopType EXCEPT !.env = env])
                                      \in Successors(Instr, Top.pc, TopType),
                         UNCHANGED <<program, status>>,
                         Becomes([Top EXCEPT !.pc = @ + 1, !.env = env])
                  PROVE  WellTyped'
        <2>1. ASSUME PushScope PROVE Ready({"PUSH_SCOPE"}) /\ Instr.op = "PUSH_SCOPE"
            BY <2>1 DEF PushScope, Ready
        <2>2. ASSUME PopScope PROVE Ready({"POP_SCOPE"}) /\ Instr.op = "POP_SCOPE"
            BY <2>2 DEF PopScope, Ready
        <2>3. ASSUME PushScope \/ PopScope PROVE Top.env = TopType.env
            BY <2>1, <2>2, <2>3, TopFits, TopVerified DEF Matches
        <2>4. ASSUME PushScope
              PROVE  /\ To(Top.pc + 1, [TopType EXCEPT !.env = Append(Top.env, Top.pc)])
                            \in Successors(Instr, Top.pc, TopType)
                     /\ Becomes([Top EXCEPT !.pc = @ + 1, !.env = Append(Top.env, Top.pc)])
            BY <2>1, <2>3, <2>4 DEF PushScope, Successors
        <2>5. ASSUME PopScope
              PROVE  /\ To(Top.pc + 1, [TopType EXCEPT !.env = Front(Top.env)])
                            \in Successors(Instr, Top.pc, TopType)
                     /\ Becomes([Top EXCEPT !.pc = @ + 1, !.env = Front(Top.env)])
            BY <2>2, <2>3, <2>5 DEF PopScope, Successors
        <2>6. ASSUME PushScope \/ PopScope PROVE UNCHANGED <<program, status>>
            BY <2>6 DEF PushScope, PopScope, NoEvent
        <2>. QED
            BY <2>1, <2>2, <2>4, <2>5, <2>6
    <1>. DEFINE f == [Top EXCEPT !.pc = @ + 1, !.env = env]
                u == To(Top.pc + 1, [TopType EXCEPT !.env = env])
    <1>1. /\ f.fn = Top.fn /\ f.pc = Top.pc + 1 /\ f.stack = Top.stack
          /\ f.env = env /\ f.handlers = Top.handlers
        BY TopTyped DEF FrameRecords, Ready
    <1>2. TopType \in Types /\ Matches(Top, TopType, 0) /\ status = "running"
        BY TopVerified, TopFits
    <1>3. /\ u.pc = Top.pc + 1 /\ u.type.height = TopType.height /\ u.type.iters = TopType.iters
          /\ u.type.env = env /\ u.type.handlers = TopType.handlers
        BY <1>2 DEF To, Types
    <1>4. Matches(f, u.type, 0)
        BY <1>1, <1>2, <1>3 DEF Matches
    <1>5. Becomes(f) /\ u \in Successors(Instr, Top.pc, TopType)
        OBVIOUS
    <1>. HIDE DEF f, u
    <1>. QED
        BY <1>1, <1>2, <1>3, <1>4, <1>5, StepsStay

LEMMA HandlerStays ==
    TypeOK /\ Verified(program) /\ WellTyped /\ (PushHandler \/ PopHandler) => WellTyped'
    <1>. SUFFICES ASSUME TypeOK, Verified(program), WellTyped, PushHandler \/ PopHandler PROVE WellTyped'
        OBVIOUS
    <1>. SUFFICES ASSUME NEW ops, Ready(ops),
                         NEW hs, To(Top.pc + 1, [TopType EXCEPT !.handlers = hs])
                                     \in Successors(Instr, Top.pc, TopType),
                         UNCHANGED <<program, status>>,
                         Becomes([Top EXCEPT !.pc = @ + 1, !.handlers = hs])
                  PROVE  WellTyped'
        <2>. DEFINE h == [to |-> Instr.to, depth |-> Len(Top.stack), env |-> Top.env]
        <2>1. ASSUME PushHandler PROVE Ready({"PUSH_HANDLER"}) /\ Instr.op = "PUSH_HANDLER"
            BY <2>1 DEF PushHandler, Ready
        <2>2. ASSUME PopHandler PROVE Ready({"POP_HANDLER"}) /\ Instr.op = "POP_HANDLER"
            BY <2>2 DEF PopHandler, Ready
        <2>3. ASSUME PushHandler \/ PopHandler
              PROVE  /\ Top.env = TopType.env /\ Top.handlers = TopType.handlers
                     /\ Len(Top.stack) = TopType.height
            BY <2>1, <2>2, <2>3, TopFits, TopVerified DEF Matches
        <2>4. ASSUME PushHandler
              PROVE  /\ To(Top.pc + 1, [TopType EXCEPT !.handlers = Append(Top.handlers, h)])
                            \in Successors(Instr, Top.pc, TopType)
                     /\ Becomes([Top EXCEPT !.pc = @ + 1, !.handlers = Append(Top.handlers, h)])
            BY <2>1, <2>3, <2>4 DEF PushHandler, Successors
        <2>5. ASSUME PopHandler
              PROVE  /\ To(Top.pc + 1, [TopType EXCEPT !.handlers = Front(Top.handlers)])
                            \in Successors(Instr, Top.pc, TopType)
                     /\ Becomes([Top EXCEPT !.pc = @ + 1, !.handlers = Front(Top.handlers)])
            BY <2>2, <2>3, <2>5 DEF PopHandler, Successors
        <2>6. ASSUME PushHandler \/ PopHandler PROVE UNCHANGED <<program, status>>
            BY <2>6 DEF PushHandler, PopHandler, NoEvent
        <2>. HIDE DEF h
        <2>. QED
            BY <2>1, <2>2, <2>4, <2>5, <2>6
    <1>. DEFINE f == [Top EXCEPT !.pc = @ + 1, !.handlers = hs]
                u == To(Top.pc + 1, [TopType EXCEPT !.handlers = hs])
    <1>1. /\ f.fn = Top.fn /\ f.pc = Top.pc + 1 /\ f.stack = Top.stack
          /\ f.env = Top.env /\ f.handlers = hs
        BY TopTyped DEF FrameRecords, Ready
    <1>2. TopType \in Types /\ Matches(Top, TopType, 0) /\ status = "running"
        BY TopVerified, TopFits
    <1>3. /\ u.pc = Top.pc + 1 /\ u.type.height = TopType.height /\ u.type.iters = TopType.iters
          /\ u.type.env = TopType.env /\ u.type.handlers = hs
        BY <1>2 DEF To, Types
    <1>4. Matches(f, u.type, 0)
        BY <1>1, <1>2, <1>3 DEF Matches
    <1>5. Becomes(f) /\ u \in Successors(Instr, Top.pc, TopType)
        OBVIOUS
    <1>. HIDE DEF f, u
    <1>. QED
        BY <1>1, <1>2, <1>3, <1>4, <1>5, StepsStay

(* The topmost operand of an instruction that takes one.                   *)
LEMMA PeekFits ==
    ASSUME TypeOK, Verified(program), WellTyped, NEW ops, Ready(ops), Needs(Instr) = 1
    PROVE  /\ TopType.height \in Nat \ {0} /\ Peek \in Valid(Chunks)
           /\ Top.stack \in Seq(Valid(Chunks)) /\ Pop(Top.stack, 1) \in Seq(Valid(Chunks))
           /\ Instr.op # "FOR_ITER" => Peek.kind # "iterator"
           /\ Fits(Pop(Top.stack, 1), TopType.height - 1, TopType.iters)
    <1>1. TopType.height \in Nat \ {0}
        BY TopFits
    <1>2. Peek \in Valid(Chunks) /\ Pop(Top.stack, 1) \in Seq(Valid(Chunks))
        BY PeekTyped, ValuesTyped
    <1>3. ASSUME Instr.op # "FOR_ITER" PROVE Peek.kind # "iterator"
        <2>1. TopType.height \notin TopType.iters /\ TopType.height \in 1 .. TopType.height
            BY <1>1, <1>3, TopFits
        <2>. QED
            BY <2>1, TopFits DEF Fits, Peek
    <1>4. Top.stack \in Seq(Valid(Chunks)) /\ 1 \in 0 .. TopType.height
        BY <1>1, ReadyTyped
    <1>. QED
        BY <1>1, <1>2, <1>3, <1>4, TopFits, FitsPop

LEMMA AcceptStays ==
    TypeOK /\ Verified(program) /\ WellTyped /\ (ClauseCheck \/ Accept) => WellTyped'
    <1>. SUFFICES ASSUME TypeOK, Verified(program), WellTyped, ClauseCheck \/ Accept PROVE WellTyped'
        OBVIOUS
    <1>1. PICK ops : Ready(ops) /\ Needs(Instr) = 1 /\ Instr.op # "FOR_ITER"
                     /\ Instr.op \in {"CLAUSE_CHECK", "POP_CHECKED", "FAILABLE_UNWRAP"}
        <2>1. ASSUME ClauseCheck
              PROVE  Ready({"CLAUSE_CHECK"}) /\ Needs(Instr) = 1 /\ Instr.op = "CLAUSE_CHECK"
            BY <2>1 DEF ClauseCheck, Ready, Needs
        <2>2. ASSUME Accept
              PROVE  /\ Ready({"POP_CHECKED", "FAILABLE_UNWRAP"}) /\ Needs(Instr) = 1
                     /\ Instr.op \in {"POP_CHECKED", "FAILABLE_UNWRAP"}
            BY <2>2 DEF Accept, Ready, Needs
        <2>. QED
            BY <2>1, <2>2
    <1>2. /\ TopType.height \in Nat \ {0} /\ Peek \in Valid(Chunks) /\ Peek.kind # "iterator"
          /\ Fits(Pop(Top.stack, 1), TopType.height - 1, TopType.iters)
        BY <1>1, PeekFits
    <1>3. TopType \in Types /\ status = "running" /\ UNCHANGED <<program, status>>
        BY <1>1, TopFits, TopVerified DEF ClauseCheck, Accept, NoEvent
    <1>4. CASE Goes(Top.pc + 1, Append(Pop(Top.stack, 1), Bound(Peek))) /\ Instr.op # "POP_CHECKED"
        <2>1. Bound(Peek) \in Valid(Chunks) /\ Bound(Peek).kind # "iterator"
            BY <1>2, ValuesTyped DEF Bound, V
        <2>2. Fits(Append(Pop(Top.stack, 1), Bound(Peek)), TopType.height - 1 + 1, TopType.iters)
            BY <1>1, <2>1, PushStays
        <2>3. Fits(Append(Pop(Top.stack, 1), Bound(Peek)), TopType.height, TopType.iters)
            BY <1>2, <2>2
        <2>4. To(Top.pc + 1, TopType) \in Successors(Instr, Top.pc, TopType)
            BY <1>1, <1>4 DEF Successors
        <2>5. To(Top.pc + 1, TopType).pc = Top.pc + 1 /\ To(Top.pc + 1, TopType).type = TopType
            BY DEF To
        <2>. QED
            BY <1>3, <1>4, <2>3, <2>4, <2>5, GoesStays
    <1>5. ASSUME NEW pc, Goes(pc, Pop(Top.stack, 1)),
                 To(pc, Pops(TopType, 1)) \in Successors(Instr, Top.pc, TopType)
          PROVE  WellTyped'
        <2>. DEFINE u == To(pc, Pops(TopType, 1))
        <2>1. /\ u.pc = pc /\ u.type.height = TopType.height - 1 /\ u.type.iters = TopType.iters
              /\ u.type.env = TopType.env /\ u.type.handlers = TopType.handlers
            BY <1>3 DEF To, Pops, Types
        <2>2. u \in Successors(Instr, Top.pc, TopType)
            BY <1>5
        <2>. HIDE DEF u
        <2>. QED
            BY <1>2, <1>3, <1>5, <2>1, <2>2, GoesStays
    <1>6. ASSUME Instr.op = "POP_CHECKED"
          PROVE  To(Top.pc + 1, Pops(TopType, 1)) \in Successors(Instr, Top.pc, TopType)
        BY <1>6 DEF Successors
    <1>7. ASSUME Instr.op = "CLAUSE_CHECK"
          PROVE  To(Instr.to, Pops(TopType, 1)) \in Successors(Instr, Top.pc, TopType)
        BY <1>7 DEF Successors
    <1>8. CASE ClauseCheck
        <2>1. Instr.op = "CLAUSE_CHECK"
            BY <1>8 DEF ClauseCheck, Ready
        <2>. QED
            BY <1>4, <1>5, <1>7, <1>8, <2>1 DEF ClauseCheck
    <1>9. CASE Accept
        <2>1. \/ Instr.op = "POP_CHECKED" /\ Goes(Top.pc + 1, Pop(Top.stack, 1))
              \/ /\ Instr.op # "POP_CHECKED"
                 /\ Goes(Top.pc + 1, Append(Pop(Top.stack, 1), Bound(Peek)))
            BY <1>9 DEF Accept
        <2>. QED
            BY <1>4, <1>5, <1>6, <2>1
    <1>. QED
        BY <1>8, <1>9

LEMMA IterStays == TypeOK /\ Verified(program) /\ WellTyped /\ (GetIter \/ ForIter) => WellTyped'
    <1>. SUFFICES ASSUME TypeOK, Verified(program), WellTyped, GetIter \/ ForIter PROVE WellTyped'
        OBVIOUS
    <1>1. PICK ops : Ready(ops) /\ Needs(Instr) = 1
        <2>1. ASSUME GetIter PROVE Ready({"GET_ITER"}) /\ Needs(Instr) = 1
            BY <2>1 DEF GetIter, Ready, Needs
        <2>2. ASSUME ForIter PROVE Ready({"FOR_ITER"}) /\ Needs(Instr) = 1
            BY <2>2 DEF ForIter, Ready, Needs
        <2>. QED
            BY <2>1, <2>2
    <1>. DEFINE h == TopType.height
                rest == Pop(Top.stack, 1)
    <1>2. h \in Nat \ {0} /\ h - 1 \in Nat /\ h - 1 + 1 = h /\ Peek.n \in Nat
        <2>1. TopType.height \in Nat \ {0} /\ Peek \in Valid(Chunks)
            BY <1>1, PeekFits
        <2>2. Peek.n \in Nat
            BY <2>1 DEF Valid, Values
        <2>. QED
            BY <2>1, <2>2
    <1>3. Fits(rest, h - 1, TopType.iters) /\ rest \in Seq(Valid(Chunks))
        BY <1>1, PeekFits
    <1>4. /\ TopType \in Types /\ TopType.iters \subseteq 1 .. h
          /\ status = "running" /\ UNCHANGED <<program, status>>
        BY <1>1, TopFits, TopVerified DEF GetIter, ForIter, NoEvent
    <1>. HIDE DEF rest
    <1>5. CASE GetIter
        <2>. DEFINE u == To(Top.pc + 1, [TopType EXCEPT !.iters = @ \cup {h}])
                    v == V("iterator", Peek.n)
        <2>1. u \in Successors(Instr, Top.pc, TopType)
            BY <1>5 DEF Successors, GetIter, Ready
        <2>2. /\ u.pc = Top.pc + 1 /\ u.type.height = h /\ u.type.iters = TopType.iters \cup {h}
              /\ u.type.env = TopType.env /\ u.type.handlers = TopType.handlers
            BY <1>4 DEF To, Types
        <2>3. v \in Valid(Chunks) /\ v.kind = "iterator"
            BY <1>2, ValuesTyped DEF V
        <2>4. /\ Goes(Top.pc + 1, Append(rest, v))
              /\ \A i \in 1 .. h - 1 : i \in TopType.iters <=> i \in TopType.iters \cup {h}
            BY <1>2, <1>5 DEF GetIter, rest
        <2>. HIDE DEF u, v, h
        <2>5. Fits(Append(rest, v), h, TopType.iters \cup {h})
            BY <1>2, <1>3, <2>3, <2>4, FitsPush
        <2>6. Fits(Append(rest, v), u.type.height, u.type.iters)
            BY <2>2, <2>5
        <2>7. Goes(Top.pc + 1, Append(rest, v))
            BY <2>4
        <2>. QED
            BY <1>4, <2>1, <2>2, <2>6, <2>7, GoesStays
    <1>6. CASE ForIter
        <2>1. Instr.op = "FOR_ITER" /\ h \in TopType.iters
            BY <1>4, <1>6, TopVerified DEF ForIter, Ready, Allowed
        <2>2. CASE Peek.n > 0
            <3>. DEFINE u == To(Top.pc + 1, Pushes(TopType))
                        v == V("iterator", Peek.n - 1)
                        w == V("element", Peek.n)
            <3>1. u \in Successors(Instr, Top.pc, TopType)
                BY <2>1 DEF Successors
            <3>2. /\ u.pc = Top.pc + 1 /\ u.type.height = h + 1 /\ u.type.iters = TopType.iters
                  /\ u.type.env = TopType.env /\ u.type.handlers = TopType.handlers
                BY <1>4 DEF To, Types, Pushes
            <3>3. Peek.n - 1 \in Nat
                BY <1>2, <2>2
            <3>4. /\ v \in Valid(Chunks) /\ v.kind = "iterator"
                  /\ w \in Valid(Chunks) /\ w.kind # "iterator"
                BY <1>2, <3>3, ValuesTyped DEF V
            <3>5. Goes(Top.pc + 1, Append(Append(rest, v), w))
                BY <1>6, <2>2 DEF ForIter, rest
            <3>6. h + 1 \notin TopType.iters
                BY <1>2, <1>4
            <3>. HIDE DEF u, v, w, h
            <3>7. Fits(Append(rest, v), h, TopType.iters) /\ Append(rest, v) \in Seq(Valid(Chunks))
                BY <1>2, <1>3, <2>1, <3>4, FitsPush, AppendFacts
            <3>8. Fits(Append(Append(rest, v), w), h + 1, TopType.iters)
                BY <1>2, <3>4, <3>6, <3>7, FitsPush
            <3>. QED
                BY <1>4, <3>1, <3>2, <3>5, <3>8, GoesStays
        <2>3. CASE ~ (Peek.n > 0)
            <3>. DEFINE u == To(Instr.to, [Pops(TopType, 1) EXCEPT !.iters = @ \ {h}])
            <3>1. u \in Successors(Instr, Top.pc, TopType)
                <4>1. Pops(TopType, 1).iters = TopType.iters
                    BY <1>4 DEF Pops, Types
                <4>. QED
                    BY <2>1, <4>1 DEF Successors
            <3>2. /\ u.pc = Instr.to /\ u.type.height = h - 1 /\ u.type.iters = TopType.iters \ {h}
                  /\ u.type.env = TopType.env /\ u.type.handlers = TopType.handlers
                BY <1>4 DEF To, Types, Pops
            <3>3. Goes(Instr.to, rest)
                BY <1>6, <2>3 DEF ForIter, rest
            <3>4. \A i \in 1 .. h - 1 : i \in TopType.iters <=> i \in TopType.iters \ {h}
                BY <1>2
            <3>. HIDE DEF u, h
            <3>5. Fits(rest, h - 1, TopType.iters \ {h})
                BY <1>3, <3>4 DEF Fits
            <3>. QED
                BY <1>4, <3>1, <3>2, <3>3, <3>5, GoesStays
        <2>. QED
            BY <2>2, <2>3
    <1>. QED
        BY <1>5, <1>6

(* What the typing says of any frame of the call stack.                    *)
LEMMA FrameVerified ==
    ASSUME TypeOK, Verified(program), NEW f \in FrameRecords(Chunks),
           f.pc \in DOMAIN program.types[f.fn]
    PROVE  LET t == program.types[f.fn][f.pc]
           IN  /\ t \in Types /\ t.iters \subseteq 1 .. t.height
               /\ Allowed(Awaited(program, f), t)
               /\ \A u \in Successors(Awaited(program, f), f.pc, t) :
                    /\ u.pc \in DOMAIN program.types[f.fn] /\ program.types[f.fn][u.pc] = u.type
                    /\ u.type \in Types
    <1>1. f.fn \in 1 .. Len(program.chunks)
        BY DEF FrameRecords, Chunks
    <1>2. VerifiedChunk(program, f.fn)
        BY <1>1 DEF Verified
    <1>. QED
        BY <1>2 DEF VerifiedChunk, Awaited

(* A frame that waits for a result goes on with it.                        *)
LEMMA ResumedOk ==
    ASSUME TypeOK, Verified(program), NEW f \in FrameRecords(Chunks), NEW v \in Valid(Chunks),
           v.kind # "iterator", Awaited(program, f).op = "CALL", Awaited(program, f).n \in Nat,
           FrameOk(program, f, Awaited(program, f).n + 1)
    PROVE  FrameOk(program, [f EXCEPT !.pc = @ + 1, !.stack = Append(@, v)], 0)
    <1>. DEFINE t == program.types[f.fn][f.pc]
                n == Awaited(program, f).n + 1
                u == To(f.pc + 1, Pushes(Pops(t, n)))
                g == [f EXCEPT !.pc = @ + 1, !.stack = Append(@, v)]
    <1>1. Needs(Awaited(program, f)) = n /\ n \in Nat
        BY DEF Needs
    <1>2. f.pc \in DOMAIN program.types[f.fn] /\ Matches(f, t, n)
        BY DEF FrameOk
    <1>3. /\ t \in Types /\ Allowed(Awaited(program, f), t)
          /\ \A w \in Successors(Awaited(program, f), f.pc, t) :
                w.pc \in DOMAIN program.types[f.fn] /\ program.types[f.fn][w.pc] = w.type
        BY <1>2, FrameVerified
    <1>4. u \in Successors(Awaited(program, f), f.pc, t)
        BY <1>1 DEF Successors
    <1>5. f.pc + 1 \in DOMAIN program.types[f.fn] /\ program.types[f.fn][f.pc + 1] = Pushes(Pops(t, n))
        BY <1>3, <1>4 DEF To
    <1>6. t.height - n \in Nat /\ t.height - n + 1 \notin t.iters
        <2>1. t.height \in Nat
            BY <1>3 DEF Types
        <2>2. t.height >= n /\ \A h \in t.iters : h <= t.height - n
            BY <1>1, <1>3 DEF Allowed
        <2>. HIDE DEF t, n
        <2>. QED
            BY <1>1, <2>1, <2>2
    <1>7. f.stack \in Seq(Valid(Chunks)) /\ Fits(f.stack, t.height - n, t.iters)
        BY <1>2 DEF Matches, FrameRecords
    <1>8. Fits(Append(f.stack, v), t.height - n + 1, t.iters)
        BY <1>6, <1>7, FitsPush
    <1>9. /\ g.fn = f.fn /\ g.pc = f.pc + 1 /\ g.stack = Append(f.stack, v)
          /\ g.env = f.env /\ g.handlers = f.handlers
        BY DEF FrameRecords
    <1>10. /\ Pushes(Pops(t, n)).height = t.height - n + 1 /\ Pushes(Pops(t, n)).iters = t.iters
           /\ Pushes(Pops(t, n)).env = t.env /\ Pushes(Pops(t, n)).handlers = t.handlers
        BY <1>3 DEF Pushes, Pops, Types
    <1>11. f.env = t.env /\ f.handlers = t.handlers
        BY <1>2 DEF Matches
    <1>. DEFINE next == Pushes(Pops(t, n))
    <1>. HIDE DEF t, n, g
    <1>12. next.height - 0 = t.height - n + 1 /\ next.iters = t.iters
        BY <1>6, <1>10
    <1>13. Matches(g, next, 0)
        <2>1. Fits(g.stack, next.height - 0, next.iters)
            BY <1>8, <1>9, <1>12
        <2>. QED
            BY <1>9, <1>10, <1>11, <2>1 DEF Matches
    <1>14. FrameOk(program, g, 0)
        BY <1>5, <1>9, <1>13 DEF FrameOk
    <1>. QED
        BY <1>14 DEF g

(* A frame that handles a failure, its own or one of a call it waits for.  *)
LEMMA HandledOk ==
    ASSUME TypeOK, Verified(program), NEW f \in FrameRecords(Chunks), f.handlers # <<>>,
           Awaited(program, f).op \in MayFail,
           Needs(Awaited(program, f)) \in Nat,
           FrameOk(program, f, Needs(Awaited(program, f)))
    PROVE  FrameOk(program, Handled(f), 0)
    <1>. DEFINE t == program.types[f.fn][f.pc]
                n == Needs(Awaited(program, f))
                h == Last(t.handlers)
                u == To(h.to, Resumed(t))
                g == Handled(f)
    <1>1. f.pc \in DOMAIN program.types[f.fn] /\ Matches(f, t, n)
        BY DEF FrameOk
    <1>2. /\ t \in Types /\ Allowed(Awaited(program, f), t)
          /\ \A w \in Successors(Awaited(program, f), f.pc, t) :
                w.pc \in DOMAIN program.types[f.fn] /\ program.types[f.fn][w.pc] = w.type
        BY <1>1, FrameVerified
    <1>3. t.handlers # <<>> /\ f.handlers = t.handlers /\ f.env = t.env
        BY <1>1 DEF Matches
    <1>4. u \in Successors(Awaited(program, f), f.pc, t)
        BY <1>3 DEF Successors, Caught, MayFail
    <1>5. h.to \in DOMAIN program.types[f.fn] /\ program.types[f.fn][h.to] = Resumed(t)
        BY <1>2, <1>4 DEF To
    <1>6. h \in Handlers
        BY <1>2, <1>3, FrontFacts DEF Types
    <1>7. h.depth \in Nat /\ h.depth <= t.height - n
        BY <1>2, <1>3, <1>6 DEF Allowed, Handlers, MayFail
    <1>8. t.height - n \in Nat /\ h.depth \in 0 .. t.height - n
        BY <1>2, <1>7 DEF Types
    <1>9. f.stack \in Seq(Valid(Chunks)) /\ Fits(f.stack, t.height - n, t.iters)
        BY <1>1 DEF Matches, FrameRecords
    <1>10. Fits(Truncate(f.stack, h.depth), h.depth, {i \in t.iters : i <= h.depth})
        BY <1>8, <1>9, FitsTruncate
    <1>11. /\ g.fn = f.fn /\ g.pc = h.to /\ g.stack = Truncate(f.stack, h.depth)
           /\ g.env = h.env /\ g.handlers = Front(t.handlers)
        BY <1>3 DEF FrameRecords, Handled
    <1>12. /\ Resumed(t).height = h.depth /\ Resumed(t).iters = {i \in t.iters : i <= h.depth}
           /\ Resumed(t).env = h.env /\ Resumed(t).handlers = Front(t.handlers)
        BY DEF Resumed
    <1>. HIDE DEF t, h, g
    <1>13. h.depth - 0 = h.depth
        BY <1>7
    <1>14. Matches(g, Resumed(t), 0)
        BY <1>10, <1>11, <1>12, <1>13 DEF Matches
    <1>15. FrameOk(program, g, 0)
        BY <1>5, <1>11, <1>14 DEF FrameOk
    <1>. QED
        BY <1>15 DEF g

(* An end of the execution leaves nothing to be typed.                     *)
LEMMA EndStays == frames' = <<>> /\ status' # "running" => WellTyped'
    BY DEF WellTyped

(* The frames below the running one wait for their calls.                  *)
LEMMA WaitingFacts ==
    ASSUME TypeOK, Verified(program), WellTyped, status = "running", NEW i \in 1 .. Len(frames) - 1
    PROVE  /\ frames[i] \in FrameRecords(Chunks)
           /\ Awaited(program, frames[i]).op = "CALL" /\ Awaited(program, frames[i]).n \in Nat
           /\ Needs(Awaited(program, frames[i])) = Awaited(program, frames[i]).n + 1
           /\ FrameOk(program, frames[i], Awaited(program, frames[i]).n + 1)
    <1>. DEFINE f == frames[i]
    <1>1. f \in FrameRecords(Chunks)
        BY TopTyped DEF TypeOK, Chunks
    <1>2. Awaited(program, f).op = "CALL" /\ FrameOk(program, f, Awaited(program, f).n + 1)
        BY DEF WellTyped
    <1>3. f.fn \in 1 .. Len(program.chunks) /\ f.pc \in 1 .. Len(program.chunks[f.fn])
        BY <1>1, <1>2 DEF Verified, VerifiedChunk, FrameOk, FrameRecords, Chunks
    <1>4. program.chunks[f.fn] \in Seq(Instructions(Chunks))
        BY <1>3 DEF TypeOK, Code, Chunks
    <1>5. Awaited(program, f) \in Instructions(Chunks)
        BY <1>3, <1>4 DEF Awaited
    <1>. QED
        BY <1>1, <1>2, <1>5 DEF Instructions, Needs

LEMMA CallStays == TypeOK /\ Verified(program) /\ WellTyped /\ Call => WellTyped'
    <1>. SUFFICES ASSUME TypeOK, Verified(program), WellTyped, Call PROVE WellTyped'
        OBVIOUS
    <1>. DEFINE n == Instr.n + 1
                popped == [frames EXCEPT ![Len(frames)].stack = Pop(@, n)]
                new == NewFrame(Callee.n)
                caller == [Top EXCEPT !.stack = Pop(Top.stack, n)]
    <1>1. /\ Ready({"CALL"}) /\ Instr.op = "CALL" /\ Needs(Instr) = n
          /\ Callee.kind = "function" /\ frames' = Append(popped, new)
          /\ status' = status /\ status = "running" /\ program' = program
        BY DEF Call, Ready, Needs, NoEvent
    <1>2. n \in 0 .. Needs(Instr) /\ Len(frames) \in Nat \ {0}
        BY <1>1, ReadyTyped, TopTyped
    <1>3. /\ popped \in Seq(FrameRecords(Chunks)) /\ Len(popped) = Len(frames)
          /\ \A i \in 1 .. Len(frames) : i # Len(frames) => popped[i] = frames[i]
          /\ popped[Len(frames)] = caller
        BY <1>1, <1>2, PoppedFacts
    <1>4. new \in FrameRecords(Chunks) /\ FrameOk(program, new, 0)
        <2>1. Callee \in Valid(Chunks)
            BY <1>1, ReadyTyped, InstructionTyped DEF Callee
        <2>2. Callee.n \in 1 .. Chunks /\ Chunks \in Nat
            BY <1>1, <2>1, TopTyped DEF Valid
        <2>3. VerifiedChunk(program, Callee.n)
            BY <2>2 DEF Verified, Chunks
        <2>4. /\ 1 \in DOMAIN program.types[Callee.n]
              /\ program.types[Callee.n][1] = EntryType(Callee.n)
            BY <2>3 DEF VerifiedChunk, To
        <2>5. Matches(new, EntryType(Callee.n), 0)
            BY DEF Matches, EntryType, NewFrame, Fits
        <2>6. new.fn = Callee.n /\ new.pc = 1
            BY DEF NewFrame
        <2>. QED
            BY <2>2, <2>4, <2>5, <2>6, NewFrameTyped DEF FrameOk
    <1>5. Awaited(program, caller) = Instr /\ FrameOk(program, caller, n)
        <2>1. Top \in FrameRecords(Chunks)
            BY <1>1, TopTyped
        <2>2. /\ caller.fn = Top.fn /\ caller.pc = Top.pc /\ caller.stack = Pop(Top.stack, n)
              /\ caller.env = Top.env /\ caller.handlers = Top.handlers
            BY <2>1 DEF FrameRecords
        <2>3. Fits(Pop(Top.stack, n), TopType.height - n, TopType.iters)
            BY <1>1, TopFits, ReadyTyped, FitsPop
        <2>4. Matches(Top, TopType, 0) /\ Top.pc \in DOMAIN program.types[Top.fn]
            BY <1>1, TopVerified DEF WellTyped, FrameOk
        <2>5. Matches(caller, TopType, n)
            BY <2>2, <2>3, <2>4 DEF Matches
        <2>. QED
            BY <2>2, <2>4, <2>5 DEF FrameOk, TopType, Awaited, Instr, Chunk
    <1>. HIDE DEF popped, new, caller, n
    <1>6. /\ Len(frames') = Len(frames) + 1 /\ frames'[Len(frames) + 1] = new
          /\ \A i \in 1 .. Len(frames) : frames'[i] = popped[i]
        BY <1>1, <1>3, <1>4, AppendFacts
    <1>7. FrameOk(program, Top, 0)'
        BY <1>1, <1>2, <1>4, <1>6 DEF Top
    <1>8. ASSUME NEW i \in 1 .. Len(frames)
          PROVE  /\ Awaited(program, frames'[i]).op = "CALL"
                 /\ FrameOk(program, frames'[i], Awaited(program, frames'[i]).n + 1)
        <2>1. CASE i = Len(frames)
            BY <1>1, <1>2, <1>3, <1>5, <1>6, <2>1 DEF n
        <2>2. CASE i # Len(frames)
            <3>1. i \in 1 .. Len(frames) - 1 /\ frames'[i] = frames[i]
                BY <1>2, <1>3, <1>6, <2>2
            <3>. QED
                BY <1>1, <3>1, WaitingFacts
        <2>. QED
            BY <2>1, <2>2
    <1>9. 1 .. Len(frames') - 1 = 1 .. Len(frames)
        BY <1>2, <1>6
    <1>. QED
        BY <1>1, <1>7, <1>8, <1>9 DEF WellTyped

LEMMA ReturnStays == TypeOK /\ Verified(program) /\ WellTyped /\ Return => WellTyped'
    <1>. SUFFICES ASSUME TypeOK, Verified(program), WellTyped, Return PROVE WellTyped'
        OBVIOUS
    <1>1. PICK v \in Valid(Chunks) : v.kind # "iterator" /\ Returns(v)
        <2>1. CASE Ready({"RETURN"}) /\ Returns(Peek)
            <3>1. Needs(Instr) = 1 /\ Instr.op # "FOR_ITER"
                BY <2>1 DEF Ready, Needs
            <3>2. Peek \in Valid(Chunks) /\ Peek.kind # "iterator"
                BY <2>1, <3>1, PeekFits
            <3>. QED
                BY <2>1, <3>2
        <2>2. CASE Returns(Void)
            BY <2>2, ValuesTyped DEF Void, V
        <2>. QED
            BY <2>1, <2>2 DEF Return
    <1>2. status = "running" /\ program' = program
        BY DEF Return, Ready
    <1>3. Len(frames) \in Nat \ {0} /\ frames \in Seq(FrameRecords(Chunks))
        BY <1>2, TopTyped DEF TypeOK, Chunks
    <1>4. CASE Len(frames) = 1
        BY <1>1, <1>4, EndStays DEF Returns
    <1>5. CASE Len(frames) # 1
        <2>. DEFINE k == Len(frames) - 1
                    caller == frames[k]
                    resumed == [caller EXCEPT !.pc = @ + 1, !.stack = Append(@, v)]
        <2>1. frames' = Append(SubSeq(frames, 1, Len(frames) - 2), resumed) /\ status' = status
            BY <1>1, <1>5 DEF Returns
        <2>2. /\ k \in 1 .. Len(frames) - 1 /\ k - 1 = Len(frames) - 2 /\ k - 1 \in 0 .. Len(frames)
              /\ k - 1 + 1 = k
            BY <1>3, <1>5, CallerIndex
        <2>3. /\ caller \in FrameRecords(Chunks)
              /\ Awaited(program, caller).op = "CALL" /\ Awaited(program, caller).n \in Nat
              /\ FrameOk(program, caller, Awaited(program, caller).n + 1)
            BY <1>2, <2>2, WaitingFacts
        <2>. HIDE DEF caller, k
        <2>4. FrameOk(program, resumed, 0)
            BY <1>1, <2>3, ResumedOk
        <2>5. resumed \in FrameRecords(Chunks)
            <3>1. caller.pc + 1 \in Addresses /\ Append(caller.stack, v) \in Seq(Valid(Chunks))
                BY <1>1, <2>3, AppendFacts DEF FrameRecords, Addresses
            <3>. QED
                BY <2>3, <3>1, RecordTyped
        <2>. HIDE DEF resumed
        <2>6. /\ Len(frames') = k /\ frames'[k] = resumed
              /\ \A i \in 1 .. k - 1 : frames'[i] = frames[i]
            BY <1>3, <2>1, <2>2, <2>5, StackedTyped
        <2>7. ASSUME NEW i \in 1 .. k - 1
              PROVE  /\ Awaited(program, frames'[i]).op = "CALL"
                     /\ FrameOk(program, frames'[i], Awaited(program, frames'[i]).n + 1)
            <3>1. i \in 1 .. Len(frames) - 1 /\ frames'[i] = frames[i]
                BY <2>2, <2>6
            <3>. QED
                BY <1>2, <3>1, WaitingFacts
        <2>. QED
            BY <1>2, <2>4, <2>6, <2>7 DEF WellTyped, Top
    <1>. QED
        BY <1>4, <1>5

LEMMA RaiseStays == TypeOK /\ Verified(program) /\ WellTyped /\ Raise => WellTyped'
    <1>. SUFFICES ASSUME TypeOK, Verified(program), WellTyped, Raise PROVE WellTyped'
        OBVIOUS
    <1>. DEFINE n == Needs(Instr)
                catching == {i \in 1 .. Len(frames) : frames[i].handlers # <<>>}
                popped == [frames EXCEPT ![Len(frames)].stack = Pop(@, n)]
                failing == [Top EXCEPT !.stack = Pop(Top.stack, n)]
    <1>0. PICK ops : Ready(ops)
        BY FailingFacts DEF Raise
    <1>1. /\ Instr.op \in MayFail /\ Instr.op # "FOR_ITER" /\ n \in 0 .. n
          /\ status = "running" /\ program' = program
        BY <1>0, FailingFacts, ReadyTyped DEF Raise, Ready, MayFail
    <1>2. /\ popped \in Seq(FrameRecords(Chunks)) /\ Len(popped) = Len(frames)
          /\ \A i \in 1 .. Len(frames) : i # Len(frames) => popped[i] = frames[i]
          /\ popped[Len(frames)] = failing
        BY <1>0, <1>1, PoppedFacts
    <1>3. Len(frames) \in Nat \ {0} /\ frames \in Seq(FrameRecords(Chunks))
        BY <1>1, TopTyped DEF TypeOK, Chunks
    <1>4. /\ Awaited(program, failing) = Instr /\ FrameOk(program, failing, n)
          /\ failing.handlers = Top.handlers
        <2>1. Top \in FrameRecords(Chunks)
            BY <1>1, TopTyped
        <2>2. /\ failing.fn = Top.fn /\ failing.pc = Top.pc /\ failing.stack = Pop(Top.stack, n)
              /\ failing.env = Top.env /\ failing.handlers = Top.handlers
            BY <2>1 DEF FrameRecords
        <2>3. Fits(Pop(Top.stack, n), TopType.height - n, TopType.iters)
            BY <1>0, <1>1, TopFits, ReadyTyped, FitsPop
        <2>4. Matches(Top, TopType, 0) /\ Top.pc \in DOMAIN program.types[Top.fn]
            BY <1>1, TopVerified DEF WellTyped, FrameOk
        <2>5. Matches(failing, TopType, n)
            BY <2>2, <2>3, <2>4 DEF Matches
        <2>. QED
            BY <2>2, <2>4, <2>5 DEF FrameOk, TopType, Awaited, Instr, Chunk
    <1>5. CASE frames' = <<>> /\ status' = "failed"
        BY <1>5, EndStays
    <1>6. ASSUME NEW k \in catching, status' = status,
                 frames' = Append(SubSeq(frames, 1, k - 1), Handled(popped[k]))
          PROVE  WellTyped'
        <2>. DEFINE f == popped[k]
        <2>1. k \in 1 .. Len(frames) /\ k - 1 \in 0 .. Len(frames) /\ k - 1 + 1 = k /\ frames[k].handlers # <<>>
            BY <1>3, <1>6
        <2>2. f \in FrameRecords(Chunks)
            BY <1>2, <2>1
        <2>. HIDE DEF f, popped, failing
        <2>3. /\ Awaited(program, f).op \in MayFail
              /\ Needs(Awaited(program, f)) \in Nat
              /\ FrameOk(program, f, Needs(Awaited(program, f)))
              /\ f.handlers # <<>>
            <3>1. CASE k = Len(frames)
                BY <1>0, <1>1, <1>2, <1>4, <2>1, <3>1, ReadyTyped DEF f, Top
            <3>2. CASE k # Len(frames)
                <4>1. k \in 1 .. Len(frames) - 1 /\ f = frames[k]
                    BY <1>2, <1>3, <2>1, <3>2 DEF f
                <4>2. /\ Awaited(program, f).op = "CALL" /\ Awaited(program, f).n \in Nat
                      /\ Needs(Awaited(program, f)) = Awaited(program, f).n + 1
                      /\ FrameOk(program, f, Awaited(program, f).n + 1)
                    BY <1>1, <4>1, WaitingFacts
                <4>. QED
                    BY <2>1, <4>1, <4>2 DEF MayFail
            <3>. QED
                BY <3>1, <3>2
        <2>4. FrameOk(program, Handled(f), 0)
            BY <2>2, <2>3, HandledOk
        <2>5. Handled(f) \in FrameRecords(Chunks)
            BY <2>2, <2>3, HandledTyped
        <2>6. /\ Len(frames') = k /\ frames'[k] = Handled(f)
              /\ \A i \in 1 .. k - 1 : frames'[i] = frames[i]
            <3>1. frames' = Append(SubSeq(frames, 1, k - 1), Handled(f))
                BY <1>6 DEF f, popped
            <3>. QED
                BY <1>3, <2>1, <2>5, <3>1, StackedTyped
        <2>7. ASSUME NEW i \in 1 .. k - 1
              PROVE  /\ Awaited(program, frames'[i]).op = "CALL"
                     /\ FrameOk(program, frames'[i], Awaited(program, frames'[i]).n + 1)
            <3>1. i \in 1 .. Len(frames) - 1 /\ frames'[i] = frames[i]
                BY <1>3, <2>1, <2>6
            <3>. QED
                BY <1>1, <3>1, WaitingFacts
        <2>. QED
            BY <1>1, <2>4, <2>6, <2>7 DEF WellTyped, Top
    <1>. QED
        BY <1>5, <1>6 DEF Raise

----------------------------------------------------------------------------
(* What the type of an instruction allows is there when it is due.         *)
LEMMA TypedIsProvided == TypeOK /\ Verified(program) /\ WellTyped => Provided
    <1>. SUFFICES ASSUME TypeOK, Verified(program), WellTyped, status = "running", ~ AtEnd
                  PROVE  /\ Len(Top.stack) >= Needs(Instr)
                         /\ Instr.op = "FOR_ITER" => Peek.kind = "iterator"
                         /\ Instr.op = "POP_HANDLER" => Top.handlers # <<>>
                         /\ Instr.op = "POP_SCOPE" => Top.env # Globals
        BY DEF Provided
    <1>1. /\ Allowed(Instr, TopType) /\ TopType \in Types
          /\ Fits(Top.stack, TopType.height, TopType.iters)
          /\ Top.env = TopType.env /\ Top.handlers = TopType.handlers
        BY TopVerified DEF Matches, Types
    <1>2. Len(Top.stack) >= Needs(Instr)
        <2>1. Instr.n \in Nat
            BY TopTyped DEF Instructions
        <2>2. Needs(Instr) \in Nat /\ TopType.height \in Nat
            BY <1>1, <2>1, NeedsTyped DEF Types
        <2>3. TopType.height >= Needs(Instr) /\ Len(Top.stack) = TopType.height
            BY <1>1 DEF Allowed, Fits
        <2>. QED
            BY <2>2, <2>3
    <1>3. ASSUME Instr.op = "FOR_ITER" PROVE Peek.kind = "iterator"
        <2>1. Needs(Instr) = 1 /\ Ready({"FOR_ITER"})
            BY <1>2, <1>3 DEF Ready, Needs
        <2>2. TopType.height \in TopType.iters /\ TopType.height \in Nat \ {0}
            BY <1>1, <1>3, <2>1, PeekFits DEF Allowed
        <2>. QED
            BY <1>1, <2>2 DEF Fits, Peek
    <1>. QED
        BY <1>1, <1>2, <1>3 DEF Allowed

----------------------------------------------------------------------------
(* The inductive invariant: a crash is excluded by what WellTyped says of  *)
(* the running frame, so neither is invariant without the other.           *)
IInv == TypeOK /\ VerifiedStaysTyped /\ VerifiedNeverCrashes

LEMMA TypedNext == IInv /\ [Next]_vars => IInv'
    <1>. SUFFICES ASSUME IInv, [Next]_vars PROVE IInv'
        OBVIOUS
    <1>1. TypeOK'
        BY TypeNext DEF IInv
    <1>2. program' = program
        BY DEF Next, vars, Eval, Load, Store, Drop, PushScope, PopScope, Jump, JumpIf, PushHandler,
               PopHandler, ClauseCheck, Accept, Raise, Call, Return, GetIter, ForIter, Error, Crash,
               Ended, NoEvent
    <1>3. ASSUME Verified(program) PROVE WellTyped' /\ status' # "crashed"
        <2>1. TypeOK /\ WellTyped /\ status # "crashed"
            BY <1>3 DEF IInv, VerifiedStaysTyped, VerifiedNeverCrashes
        <2>2. CASE UNCHANGED vars
            BY <2>1, <2>2 DEF WellTyped, Top, vars
        <2>3. ~ Crash
            <3>1. Provided
                BY <1>3, <2>1, TypedIsProvided
            <3>2. ASSUME ~ AtEnd, status = "running", Len(Top.stack) < Needs(Instr) PROVE FALSE
                <4>1. Instr.n \in Nat
                    BY <1>3, <2>1, <3>2, TopTyped DEF Instructions
                <4>2. Needs(Instr) \in Nat /\ Len(Top.stack) \in Nat
                    BY <2>1, <3>2, <4>1, NeedsTyped, TopTyped
                <4>. QED
                    BY <3>1, <3>2, <4>2 DEF Provided
            <3>. QED
                BY <3>1, <3>2 DEF Provided, Crash, Ready
        <2>4. CASE Ended
            BY <2>1, <2>2, <2>4 DEF Ended
        <2>5. CASE Error
            BY <2>5, EndStays DEF Error
        <2>6. WellTyped'
            BY <1>3, <2>1, <2>2, <2>3, <2>4, <2>5, EvalStays, LoadStays, PopStays, ScopeStays, JumpStays,
               HandlerStays, AcceptStays, RaiseStays, CallStays, ReturnStays, IterStays
               DEF Next
        <2>7. status' # "crashed"
            BY <2>1, <2>3 DEF Next, vars, Eval, Load, Store, Drop, PushScope, PopScope, Jump, JumpIf,
                   PushHandler, PopHandler, ClauseCheck, Accept, Raise, Call, Return, Returns,
                   GetIter, ForIter, Error, Ended, Ready
        <2>. QED
            BY <2>6, <2>7
    <1>. QED
        BY <1>1, <1>2, <1>3 DEF IInv, VerifiedStaysTyped, VerifiedNeverCrashes

THEOREM Invariance == Spec => []IInv
    <1>1. Init => IInv
        <2>. SUFFICES ASSUME Init PROVE IInv
            OBVIOUS
        <2>1. TypeOK
            BY TypeInit
        <2>2. ASSUME Verified(program) PROVE WellTyped
            <3>1. Top = NewFrame(1) /\ Len(frames) = 1
                BY DEF Init, Top
            <3>2. 1 \in 1 .. Len(program.chunks)
                BY <2>1, EmptySeq DEF TypeOK, Code
            <3>3. VerifiedChunk(program, 1)
                BY <2>2, <3>2 DEF Verified
            <3>4. 1 \in DOMAIN program.types[1] /\ program.types[1][1] = EntryType(1)
                BY <3>3 DEF VerifiedChunk, To
            <3>5. Matches(NewFrame(1), EntryType(1), 0)
                BY DEF Matches, EntryType, NewFrame, Fits
            <3>6. FrameOk(program, NewFrame(1), 0)
                BY <3>4, <3>5 DEF FrameOk, NewFrame
            <3>. QED
                BY <3>1, <3>6 DEF WellTyped
        <2>. QED
            BY <2>1, <2>2 DEF IInv, VerifiedStaysTyped, VerifiedNeverCrashes, Init
    <1>. QED
        BY <1>1, TypedNext, PTL DEF Spec

(* In verified code, each frame is as its typing says, at each step.       *)
THEOREM StaysTyped == Spec => []VerifiedStaysTyped
    BY Invariance, PTL DEF IInv

(* Verified code never crashes: no operand, scope or handler that an       *)
(* instruction works on is missing.                                        *)
THEOREM NeverCrashes == Spec => []VerifiedNeverCrashes
    BY Invariance, PTL DEF IInv
=============================================================================

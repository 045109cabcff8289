--------------------------- MODULE CompilerProofs ---------------------------
(***************************************************************************)
(* What the compiler emits is verified, for programs of every size: there  *)
(* is one operand stack, one scope and one stack of handlers for each      *)
(* instruction, whatever way leads to it.  With FrameProofs, each          *)
(* instruction of a compiled program finds what it works on.               *)
(*                                                                         *)
(* Code is typed piece by piece: Runs says that a piece of code, placed    *)
(* behind address b, may be entered at its first instruction with type t,  *)
(* and leaves at its end with type u, or to one of the points of Out.      *)
(* Pieces compose, and each node of the source gives a piece.              *)
(***************************************************************************)
EXTENDS Compiler, FrameProofs, Counting

Opcodes ==
    {"EVAL", "LOAD", "STORE", "POP", "PUSH_SCOPE", "POP_SCOPE", "JUMP", "JUMP_IF_FALSE",
     "JUMP_IF_TRUE", "PUSH_HANDLER", "POP_HANDLER", "CLAUSE_CHECK", "POP_CHECKED",
     "FAILABLE_UNWRAP", "CALL", "RETURN", "GET_ITER", "FOR_ITER"}
Labels == {"none", "fail", "continue", "break"}
Ways == [label : Labels, by : Int]
Insns == [op : Opcodes, n : Nat, to : Ways, at : Seq(Nat), out : SUBSET Data]

(* An instruction at its address, its jump leading where labels do.        *)
Placed(i, pc, lab) ==
    [i EXCEPT !.to = IF @.label \in DOMAIN lab THEN lab[@.label] ELSE pc + @.by]
IsLabels(lab) == "none" \notin DOMAIN lab /\ \A l \in DOMAIN lab : lab[l] \in Addresses

Good(t) == t \in Types /\ t.iters \subseteq 1 .. t.height
Flows(u, ty, Out) == (u.pc \in DOMAIN ty /\ ty[u.pc] = u.type) \/ u \in Out
SafeAt(i, pc, ty, Out) ==
    /\ Good(ty[pc]) /\ Allowed(i, ty[pc])
    /\ \A u \in Successors(i, pc, ty[pc]) : Flows(u, ty, Out)
Typing(ty, c, b, lab, t, Out) ==
    /\ b + 1 \in DOMAIN ty /\ ty[b + 1] = t
    /\ \A pc \in DOMAIN ty : SafeAt(Placed(c[pc - b], pc, lab), pc, ty, Out)
Typed(c, b, lab, t, Out) ==
    \E D \in SUBSET (b + 1 .. b + Len(c)) : \E ty \in [D -> Types] : Typing(ty, c, b, lab, t, Out)

Runs(c, b, lab, t, u, Out) ==
    IF c = <<>> THEN t = u ELSE Typed(c, b, lab, t, Out \cup {To(b + Len(c) + 1, u)})

----------------------------------------------------------------------------
(* Pieces of code.                                                         *)

LEMMA FlowsMore ==
    ASSUME NEW u, NEW ty, NEW big, NEW Out, NEW more,
           DOMAIN ty \subseteq DOMAIN big, \A pc \in DOMAIN ty : big[pc] = ty[pc],
           \A w \in Out : Flows(w, big, more), Flows(u, ty, Out)
    PROVE  Flows(u, big, more)
    BY DEF Flows

LEMMA SafeMore ==
    ASSUME NEW i, NEW pc, NEW ty, NEW big, NEW Out, NEW more,
           DOMAIN ty \subseteq DOMAIN big, \A k \in DOMAIN ty : big[k] = ty[k],
           \A w \in Out : Flows(w, big, more), pc \in DOMAIN ty, SafeAt(i, pc, ty, Out)
    PROVE  SafeAt(i, pc, big, more)
    BY FlowsMore DEF SafeAt

(* One piece behind the other; either may lead to the first instruction of *)
(* the other and to its own.                                               *)
LEMMA Join ==
    ASSUME NEW c1 \in Seq(Insns), NEW c2 \in Seq(Insns), NEW b \in Nat, NEW lab, NEW t, NEW v,
           NEW Out, NEW Out1, NEW Out2,
           Typed(c1, b, lab, t, Out1), Typed(c2, b + Len(c1), lab, v, Out2),
           \A u \in Out1 \cup Out2 : u \in Out \/ u = To(b + 1, t) \/ u = To(b + Len(c1) + 1, v)
    PROVE  Typed(c1 \o c2, b, lab, t, Out)
<1>. DEFINE n1 == Len(c1)
            n2 == Len(c2)
            c == c1 \o c2
<1>1. n1 \in Nat /\ n2 \in Nat /\ Len(c) = n1 + n2
    OBVIOUS
<1>2. PICK D1 \in SUBSET (b + 1 .. b + n1) : \E ty \in [D1 -> Types] : Typing(ty, c1, b, lab, t, Out1)
    BY DEF Typed
<1>3. PICK ty1 \in [D1 -> Types] : Typing(ty1, c1, b, lab, t, Out1)
    BY <1>2
<1>4. PICK D2 \in SUBSET (b + n1 + 1 .. b + n1 + n2) :
          \E ty \in [D2 -> Types] : Typing(ty, c2, b + n1, lab, v, Out2)
    BY DEF Typed
<1>5. PICK ty2 \in [D2 -> Types] : Typing(ty2, c2, b + n1, lab, v, Out2)
    BY <1>4
<1>. DEFINE ty == [pc \in D1 \cup D2 |-> IF pc \in D1 THEN ty1[pc] ELSE ty2[pc]]
<1>6. /\ D1 \cup D2 \in SUBSET (b + 1 .. b + Len(c)) /\ ty \in [D1 \cup D2 -> Types]
      /\ DOMAIN ty1 = D1 /\ DOMAIN ty2 = D2 /\ DOMAIN ty = D1 \cup D2
      /\ \A pc \in D1 : ty[pc] = ty1[pc] /\ c[pc - b] = c1[pc - b]
      /\ \A pc \in D2 : ty[pc] = ty2[pc] /\ c[pc - b] = c2[pc - (b + n1)]
    <2>1. \A pc \in D1 : pc - b \in 1 .. n1 /\ pc \in b + 1 .. b + n1 + n2 /\ pc \notin D2
        BY <1>1
    <2>2. \A pc \in D2 : pc - b \in n1 + 1 .. n1 + n2 /\ pc - b - n1 = pc - (b + n1)
                         /\ pc \in b + 1 .. b + n1 + n2 /\ pc \notin D1
        BY <1>1
    <2>3. \A k \in 1 .. n1 : c[k] = c1[k]
        OBVIOUS
    <2>4. \A k \in n1 + 1 .. n1 + n2 : c[k] = c2[k - n1]
        OBVIOUS
    <2>5. ty \in [D1 \cup D2 -> Types]
        OBVIOUS
    <2>. HIDE DEF c, n1, n2
    <2>. QED
        BY <1>1, <2>1, <2>2, <2>3, <2>4, <2>5
<1>. HIDE DEF ty, c
<1>7. \A u \in Out1 \cup Out2 : Flows(u, ty, Out)
    <2>1. b + 1 \in D1 /\ ty1[b + 1] = t /\ b + n1 + 1 \in D2 /\ ty2[b + n1 + 1] = v
        BY <1>3, <1>5, <1>6 DEF Typing
    <2>2. Flows(To(b + 1, t), ty, Out) /\ Flows(To(b + n1 + 1, v), ty, Out)
        BY <1>6, <2>1 DEF Flows, To
    <2>3. \A u \in Out : Flows(u, ty, Out)
        BY DEF Flows
    <2>. QED
        BY <2>2, <2>3
<1>8. ASSUME NEW pc \in D1 \cup D2
      PROVE  SafeAt(Placed(c[pc - b], pc, lab), pc, ty, Out)
    <2>1. CASE pc \in D1
        <3>1. SafeAt(Placed(c[pc - b], pc, lab), pc, ty1, Out1)
            BY <1>3, <1>6, <2>1 DEF Typing
        <3>. QED
            BY <1>6, <1>7, <2>1, <3>1, SafeMore
    <2>2. CASE pc \in D2
        <3>1. SafeAt(Placed(c[pc - b], pc, lab), pc, ty2, Out2)
            BY <1>5, <1>6, <2>2 DEF Typing
        <3>. QED
            BY <1>6, <1>7, <2>2, <3>1, SafeMore
    <2>. QED
        BY <2>1, <2>2
<1>9. Typing(ty, c, b, lab, t, Out)
    BY <1>3, <1>6, <1>8 DEF Typing
<1>. QED
    BY <1>6, <1>9 DEF Typed, c

LEMMA Weaken ==
    ASSUME NEW c, NEW b \in Nat, NEW lab, NEW t, NEW Out, NEW more, Typed(c, b, lab, t, Out),
           \A u \in Out : u \in more \/ u = To(b + 1, t)
    PROVE  Typed(c, b, lab, t, more)
<1>1. PICK D \in SUBSET (b + 1 .. b + Len(c)) : \E ty \in [D -> Types] : Typing(ty, c, b, lab, t, Out)
    BY DEF Typed
<1>2. PICK ty \in [D -> Types] : Typing(ty, c, b, lab, t, Out)
    BY <1>1
<1>3. \A u \in Out : Flows(u, ty, more)
    BY <1>2 DEF Typing, Flows, To
<1>4. Typing(ty, c, b, lab, t, more)
    BY <1>2, <1>3, SafeMore DEF Typing
<1>. QED
    BY <1>4 DEF Typed

LEMMA RunsMore ==
    ASSUME NEW c, NEW b \in Nat, NEW lab, NEW t, NEW u, NEW Out, NEW more,
           Runs(c, b, lab, t, u, Out), Out \subseteq more
    PROVE  Runs(c, b, lab, t, u, more)
    BY Weaken DEF Runs

LEMMA RunsRuns ==
    ASSUME NEW c1 \in Seq(Insns), NEW c2 \in Seq(Insns), NEW b \in Nat, NEW lab, NEW t, NEW v, NEW u,
           NEW Out, Runs(c1, b, lab, t, v, Out), Runs(c2, b + Len(c1), lab, v, u, Out)
    PROVE  Runs(c1 \o c2, b, lab, t, u, Out)
<1>1. CASE c1 = <<>>
    <2>1. c1 \o c2 = c2 /\ b + Len(c1) = b /\ t = v
        BY <1>1 DEF Runs
    <2>. QED
        BY <2>1
<1>2. CASE c2 = <<>>
    <2>1. c1 \o c2 = c1 /\ u = v
        BY <1>2 DEF Runs
    <2>. QED
        BY <2>1
<1>3. CASE c1 # <<>> /\ c2 # <<>>
    <2>. DEFINE exit == To(b + Len(c1 \o c2) + 1, u)
    <2>1. Typed(c1, b, lab, t, Out \cup {To(b + Len(c1) + 1, v)})
        BY <1>3 DEF Runs
    <2>2. exit = To(b + Len(c1) + Len(c2) + 1, u) /\ Len(c1) \in Nat /\ c1 \o c2 # <<>>
        BY <1>3
    <2>3. Typed(c2, b + Len(c1), lab, v, Out \cup {exit})
        BY <1>3, <2>2 DEF Runs
    <2>. HIDE DEF exit
    <2>4. Typed(c1 \o c2, b, lab, t, Out \cup {exit})
        BY <2>1, <2>3, Join
    <2>. QED
        BY <2>2, <2>4 DEF Runs, exit
<1>. QED
    BY <1>1, <1>2, <1>3

LEMMA RunsTyped ==
    ASSUME NEW c1 \in Seq(Insns), NEW c2 \in Seq(Insns), NEW b \in Nat, NEW lab, NEW t, NEW v,
           NEW Out, Runs(c1, b, lab, t, v, Out), Typed(c2, b + Len(c1), lab, v, Out)
    PROVE  Typed(c1 \o c2, b, lab, t, Out)
<1>1. CASE c1 = <<>>
    <2>1. c1 \o c2 = c2 /\ b + Len(c1) = b /\ t = v
        BY <1>1 DEF Runs
    <2>. QED
        BY <2>1
<1>2. CASE c1 # <<>>
    <2>1. Typed(c1, b, lab, t, Out \cup {To(b + Len(c1) + 1, v)})
        BY <1>2 DEF Runs
    <2>. QED
        BY <2>1, Join
<1>. QED
    BY <1>1, <1>2

(* A piece of one instruction.                                             *)
LEMMA Single ==
    ASSUME NEW i \in Insns, NEW b \in Nat, NEW lab, NEW t, NEW Out, Good(t),
           Allowed(Placed(i, b + 1, lab), t), Successors(Placed(i, b + 1, lab), b + 1, t) \subseteq Out
    PROVE  Typed(<<i>>, b, lab, t, Out)
<1>. DEFINE D == {b + 1}
            ty == [pc \in D |-> t]
<1>1. D \in SUBSET (b + 1 .. b + Len(<<i>>)) /\ ty \in [D -> Types]
    BY DEF Good
<1>2. ty[b + 1] = t /\ DOMAIN ty = D /\ b + 1 \in D /\ \A pc \in D : pc = b + 1
    OBVIOUS
<1>3. <<i>>[b + 1 - b] = i
    OBVIOUS
<1>. HIDE DEF ty, D
<1>4. Typing(ty, <<i>>, b, lab, t, Out)
    BY <1>2, <1>3 DEF Typing, SafeAt, Flows
<1>. QED
    BY <1>1, <1>4 DEF Typed

LEMMA One ==
    ASSUME NEW i \in Insns, NEW b \in Nat, NEW lab, NEW t, NEW u, NEW Out, Good(t),
           Allowed(Placed(i, b + 1, lab), t),
           Successors(Placed(i, b + 1, lab), b + 1, t) \subseteq Out \cup {To(b + 2, u)}
    PROVE  Runs(<<i>>, b, lab, t, u, Out)
<1>1. <<i>> # <<>> /\ b + Len(<<i>>) + 1 = b + 2
    OBVIOUS
<1>. QED
    BY <1>1, Single DEF Runs

(* Pieces one behind the other, each from the type of the one before.      *)
LEMMA RunsEach ==
    ASSUME NEW q \in Seq(Seq(Insns)), NEW tys, NEW b \in Nat, NEW lab, NEW Out,
           \A k \in 1 .. Len(q), a \in Nat : Runs(q[k], a, lab, tys[k - 1], tys[k], Out)
    PROVE  FlattenSeq(q) \in Seq(Insns) /\ Runs(FlattenSeq(q), b, lab, tys[0], tys[Len(q)], Out)
<1>. DEFINE n == Len(q)
<1>1. n \in Nat /\ \A k \in 1 .. n : q[k] \in Seq(Insns)
    OBVIOUS
<1>2. PICK g \in [0 .. n -> Seq(Insns)] :
          /\ g[0] = <<>>
          /\ \A k \in 1 .. n : g[k] = g[k - 1] \o q[k]
          /\ \A k \in 0 .. n : FlattenSeq(SubSeq(q, 1, k)) = g[k]
    BY FlattenProperties
<1>3. SubSeq(q, 1, n) = q
    OBVIOUS
<1>. DEFINE P == {k \in 0 .. n : Runs(g[k], b, lab, tys[0], tys[k], Out)}
<1>4. 0 \in P
    BY <1>1, <1>2 DEF Runs
<1>5. ASSUME NEW k \in 1 .. n, k - 1 \in P
      PROVE  k \in P
    <2>1. /\ g[k] = g[k - 1] \o q[k] /\ g[k - 1] \in Seq(Insns) /\ q[k] \in Seq(Insns)
          /\ b + Len(g[k - 1]) \in Nat
        <3>. DEFINE j == k - 1
        <3>1. j \in 0 .. n
            BY <1>1
        <3>. HIDE DEF n, j
        <3>2. g[j] \in Seq(Insns)
            BY <3>1
        <3>3. Len(g[j]) \in Nat
            BY <3>2
        <3>4. g[k] = g[j] \o q[k]
            BY <1>2 DEF j
        <3>5. b + Len(g[j]) \in Nat
            BY <3>3
        <3>. QED
            BY <1>1, <3>2, <3>4, <3>5 DEF j
    <2>2. Runs(g[k - 1], b, lab, tys[0], tys[k - 1], Out)
        BY <1>5
    <2>3. Runs(q[k], b + Len(g[k - 1]), lab, tys[k - 1], tys[k], Out)
        BY <2>1
    <2>4. Runs(g[k], b, lab, tys[0], tys[k], Out)
        BY <2>1, <2>2, <2>3, RunsRuns
    <2>. QED
        BY <2>4
<1>6. n \in P
    <2>1. P \in SUBSET (0 .. n)
        OBVIOUS
    <2>. HIDE DEF P, n
    <2>2. \A k \in 0 .. n : k \in P
        BY <1>1, <1>4, <1>5, <2>1, CountUp
    <2>. QED
        BY <1>1, <2>2
<1>7. FlattenSeq(q) = g[n] /\ g[n] \in Seq(Insns)
    <2>1. n \in 0 .. n
        BY <1>1
    <2>. HIDE DEF n
    <2>. QED
        BY <1>2, <1>3, <2>1
<1>. QED
    BY <1>6, <1>7

(* Labels resolved: they lead to instructions of the code.                 *)
Over(lab, targets, b) ==
    [l \in DOMAIN lab \cup DOMAIN targets |-> IF l \in DOMAIN targets THEN b + targets[l] ELSE lab[l]]

LEMMA OverLabels ==
    ASSUME NEW lab, IsLabels(lab), NEW L \in SUBSET (Labels \ {"none"}),
           NEW targets \in [L -> Nat \ {0}], NEW b \in Nat
    PROVE  IsLabels(Over(lab, targets, b))
<1>1. DOMAIN targets = L /\ "none" \notin L
    OBVIOUS
<1>2. \A l \in L : b + targets[l] \in Addresses
    <2>1. \A l \in L : targets[l] \in Nat \ {0}
        OBVIOUS
    <2>. QED
        BY <2>1 DEF Addresses
<1>. QED
    BY <1>1, <1>2 DEF IsLabels, Over

Resolved(i, targets, k) ==
    [i EXCEPT !.to = IF @.label \in DOMAIN targets THEN Further(targets[@.label] - k) ELSE @]

LEMMA FurtherTyped ==
    ASSUME NEW n \in Int
    PROVE  Further(n) \in Ways /\ Further(n).label = "none" /\ Further(n).by = n
BY DEF Further, Ways, Labels

LEMMA LeadTyped ==
    ASSUME NEW i \in Insns, NEW way \in Ways
    PROVE  [i EXCEPT !.to = way] \in Insns /\ i.to \in Ways
BY DEF Insns

LEMMA ResolveFacts ==
    ASSUME NEW c \in Seq(Insns), NEW L \in SUBSET (Labels \ {"none"}), NEW targets \in [L -> Nat \ {0}]
    PROVE  /\ Resolve(c, targets) \in Seq(Insns) /\ Len(Resolve(c, targets)) = Len(c)
           /\ \A k \in 1 .. Len(c) : Resolve(c, targets)[k] = Resolved(c[k], targets, k)
<1>1. DOMAIN c = 1 .. Len(c) /\ Len(c) \in Nat /\ DOMAIN targets = L
    OBVIOUS
<1>2. ASSUME NEW k \in 1 .. Len(c)
      PROVE  Resolved(c[k], targets, k) \in Insns
    <2>0. c[k] \in Insns
        OBVIOUS
    <2>1. c[k] \in Insns /\ c[k].to \in Ways
        BY <2>0 DEF Insns
    <2>2. ASSUME c[k].to.label \in L PROVE Further(targets[c[k].to.label] - k) \in Ways
        <3>1. targets[c[k].to.label] \in Nat \ {0}
            BY <2>2
        <3>2. targets[c[k].to.label] - k \in Int
            BY <3>1
        <3>. QED
            BY <3>2, FurtherTyped
    <2>3. \A way \in Ways : [c[k] EXCEPT !.to = way] \in Insns
        BY <2>1, LeadTyped
    <2>. QED
        BY <1>1, <2>1, <2>2, <2>3 DEF Resolved
<1>3. Resolve(c, targets) = [k \in 1 .. Len(c) |-> Resolved(c[k], targets, k)]
    BY <1>1 DEF Resolve, Resolved
<1>. QED
    BY <1>1, <1>2, <1>3

LEMMA ResolveTyped ==
    ASSUME NEW c \in Seq(Insns), NEW b \in Nat, NEW lab, IsLabels(lab), NEW t, NEW Out,
           NEW L \in SUBSET (Labels \ {"none"}), NEW targets \in [L -> Nat \ {0}],
           Typed(c, b, Over(lab, targets, b), t, Out)
    PROVE  Typed(Resolve(c, targets), b, lab, t, Out)
<1>. DEFINE over == Over(lab, targets, b)
            r == Resolve(c, targets)
<1>1. PICK D \in SUBSET (b + 1 .. b + Len(c)) : \E ty \in [D -> Types] : Typing(ty, c, b, over, t, Out)
    BY DEF Typed
<1>2. PICK ty \in [D -> Types] : Typing(ty, c, b, over, t, Out)
    BY <1>1
<1>3. ASSUME NEW pc \in D
      PROVE  Placed(r[pc - b], pc, lab) = Placed(c[pc - b], pc, over)
    <2>. DEFINE k == pc - b
                l == c[k].to.label
    <2>1. k \in 1 .. Len(c) /\ c[k] \in Insns
        OBVIOUS
    <2>2. r[k] = Resolved(c[k], targets, k)
        <3>. HIDE DEF k, r
        <3>1. \A j \in 1 .. Len(c) : Resolve(c, targets)[j] = Resolved(c[j], targets, j)
            BY ResolveFacts
        <3>. QED
            BY <2>1, <3>1 DEF r
    <2>3. l \in DOMAIN over <=> l \in DOMAIN lab \/ l \in L
        BY DEF Over
    <2>4. CASE l \in L
        <3>1. over[l] = b + targets[l]
            BY <2>4 DEF Over
        <3>2. r[k] = [c[k] EXCEPT !.to = Further(targets[l] - k)]
            BY <2>2, <2>4 DEF Resolved
        <3>3. Placed(r[k], pc, lab) = [c[k] EXCEPT !.to = pc + (targets[l] - k)]
            <4>1. r[k].to = Further(targets[l] - k)
                BY <2>1, <3>2 DEF Insns
            <4>2. r[k].to.label \notin DOMAIN lab /\ r[k].to.by = targets[l] - k
                <5>1. targets[l] \in Nat \ {0}
                    BY <2>4
                <5>2. \A x \in Nat : x - k \in Int
                    OBVIOUS
                <5>. HIDE DEF l, k, r
                <5>. QED
                    BY <4>1, <5>1, <5>2, FurtherTyped DEF IsLabels
            <4>3. Placed(r[k], pc, lab) = [r[k] EXCEPT !.to = pc + (targets[l] - k)]
                BY <4>2 DEF Placed
            <4>. HIDE DEF r, k, l
            <4>. QED
                BY <2>1, <3>2, <4>3 DEF Insns
        <3>4. pc + (targets[l] - k) = b + targets[l]
            <4>1. targets[l] \in Nat \ {0}
                BY <2>4
            <4>2. \A x \in Nat : pc + (x - k) = b + x
                OBVIOUS
            <4>. QED
                BY <4>1, <4>2
        <3>5. Placed(c[k], pc, over) = [c[k] EXCEPT !.to = over[l]]
            BY <2>1, <2>3, <2>4 DEF Placed
        <3>. QED
            BY <3>1, <3>3, <3>4, <3>5
    <2>5. CASE l \notin L
        <3>1. r[k] = c[k]
            BY <2>1, <2>2, <2>5 DEF Insns, Resolved
        <3>2. l \in DOMAIN lab => over[l] = lab[l]
            BY <2>5 DEF Over
        <3>3. (l \in DOMAIN lab) = (l \in DOMAIN over)
            BY <2>3, <2>5
        <3>. HIDE DEF over
        <3>. QED
            BY <3>1, <3>2, <3>3 DEF Placed
    <2>. QED
        BY <2>4, <2>5
<1>4. Typing(ty, r, b, lab, t, Out)
    <2>. HIDE DEF r, over
    <2>. QED
        BY <1>2, <1>3 DEF Typing
<1>. QED
    BY <1>4, ResolveFacts DEF Typed

----------------------------------------------------------------------------
(* Types: k operands more, one more scope, handler or iterator.            *)

Up(t, k) == [t EXCEPT !.height = @ + k]
Scoped(t, pc) == [t EXCEPT !.env = Append(@, pc)]
Guarded(t, to) == [t EXCEPT !.handlers = Append(@, [to |-> to, depth |-> t.height, env |-> t.env])]
Iterating(t) == [Up(t, 1) EXCEPT !.iters = @ \cup {t.height + 1}]

(* A failure leads to one of the points, and takes only operands off.      *)
Fit(t, Out) ==
    /\ Good(t) /\ Caught(t) \subseteq Out
    /\ t.handlers # <<>> => Last(t.handlers).depth <= t.height

TypeOf(h, I, e, hs) == [height |-> h, iters |-> I, env |-> e, handlers |-> hs]

LEMMA AppendBack ==
    ASSUME NEW S, NEW q \in Seq(S), NEW e \in S
    PROVE  /\ Append(q, e) \in Seq(S) /\ Append(q, e) # <<>>
           /\ Front(Append(q, e)) = q /\ Last(Append(q, e)) = e
BY DEF Front, Last

LEMMA TypeParts ==
    ASSUME NEW t, Good(t)
    PROVE  /\ t = TypeOf(t.height, t.iters, t.env, t.handlers)
           /\ t.height \in Nat /\ t.iters \in SUBSET Nat /\ t.env \in Seq(Nat)
           /\ t.handlers \in Seq(Handlers) /\ t.iters \subseteq 1 .. t.height
<1>1. /\ t.height \in Nat /\ t.iters \in SUBSET Nat /\ t.env \in Seq(Nat)
      /\ t.handlers \in Seq(Handlers) /\ t.iters \subseteq 1 .. t.height
    BY DEF Good, Types
<1>2. t = TypeOf(t.height, t.iters, t.env, t.handlers)
    BY DEF Good, Types, TypeOf
<1>. QED
    BY <1>1, <1>2

LEMMA TypeGood ==
    ASSUME NEW h \in Nat, NEW I \in SUBSET Nat, NEW e \in Seq(Nat), NEW hs \in Seq(Handlers),
           I \subseteq 1 .. h
    PROVE  Good(TypeOf(h, I, e, hs))
BY DEF Good, Types, TypeOf

LEMMA TypeFields ==
    \A h, I, e, hs : /\ TypeOf(h, I, e, hs).height = h /\ TypeOf(h, I, e, hs).iters = I
                     /\ TypeOf(h, I, e, hs).env = e /\ TypeOf(h, I, e, hs).handlers = hs
BY DEF TypeOf

LEMMA UpMoves == \A h, I, e, hs, k : Up(TypeOf(h, I, e, hs), k) = TypeOf(h + k, I, e, hs)
BY DEF TypeOf, Up

LEMMA PushMoves == \A h, I, e, hs : Pushes(TypeOf(h, I, e, hs)) = TypeOf(h + 1, I, e, hs)
BY DEF TypeOf, Pushes

LEMMA PopMoves ==
    ASSUME NEW h, NEW k, NEW I, NEW e, NEW hs
    PROVE  Pops(TypeOf(h, I, e, hs), k) = TypeOf(h - k, I, e, hs)
BY DEF TypeOf, Pops

LEMMA ScopeMoves == \A h, I, e, hs, pc : Scoped(TypeOf(h, I, e, hs), pc) = TypeOf(h, I, Append(e, pc), hs)
BY DEF TypeOf, Scoped

LEMMA GuardMoves ==
    \A h, I, e, hs, to :
        Guarded(TypeOf(h, I, e, hs), to) =
            TypeOf(h, I, e, Append(hs, [to |-> to, depth |-> h, env |-> e]))
BY DEF TypeOf, Guarded

LEMMA IterMoves == \A h, I, e, hs : Iterating(TypeOf(h, I, e, hs)) = TypeOf(h + 1, I \cup {h + 1}, e, hs)
<1>. TAKE h, I, e, hs
<1>1. Up(TypeOf(h, I, e, hs), 1) = TypeOf(h + 1, I, e, hs) /\ TypeOf(h, I, e, hs).height = h
    BY UpMoves, TypeFields
<1>2. [TypeOf(h + 1, I, e, hs) EXCEPT !.iters = @ \cup {h + 1}] = TypeOf(h + 1, I \cup {h + 1}, e, hs)
    BY DEF TypeOf
<1>. QED
    BY <1>1, <1>2 DEF Iterating

LEMMA UpFacts ==
    ASSUME NEW t, Good(t), NEW k \in Nat
    PROVE  /\ Good(Up(t, k)) /\ Up(t, 0) = t /\ Pushes(Up(t, k)) = Up(t, k + 1)
           /\ \A j \in 0 .. k : Pops(Up(t, k), j) = Up(t, k - j)
           /\ Up(t, k).height = t.height + k /\ Up(t, k).iters = t.iters
           /\ Up(t, k).env = t.env /\ Up(t, k).handlers = t.handlers /\ t.height \in Nat
<1>. DEFINE type(x) == TypeOf(x, t.iters, t.env, t.handlers)
<1>1. /\ t = type(t.height)
      /\ t.height \in Nat /\ t.iters \in SUBSET Nat /\ t.env \in Seq(Nat)
      /\ t.handlers \in Seq(Handlers) /\ t.iters \subseteq 1 .. t.height
    BY TypeParts
<1>2. \A x, j : Up(type(x), j) = type(x + j)
    BY UpMoves
<1>3. ASSUME NEW x \in Nat, x >= t.height PROVE Good(type(x))
    <2>1. t.iters \subseteq 1 .. x
        BY <1>1, <1>3
    <2>. QED
        BY <1>1, <2>1, TypeGood
<1>4. \A j : Up(t, j) = type(t.height + j)
    BY <1>1, <1>2
<1>5. Good(Up(t, k))
    <2>. HIDE DEF type
    <2>. QED
        BY <1>1, <1>3, <1>4
<1>6. Up(t, 0) = t
    <2>. HIDE DEF type
    <2>. QED
        BY <1>1, <1>4
<1>7. Pushes(Up(t, k)) = Up(t, k + 1)
    <2>1. t.height + k + 1 = t.height + (k + 1)
        BY <1>1
    <2>2. Pushes(type(t.height + k)) = type(t.height + k + 1)
        BY PushMoves
    <2>. HIDE DEF type
    <2>. QED
        BY <1>4, <2>1, <2>2
<1>8. ASSUME NEW j \in 0 .. k PROVE Pops(Up(t, k), j) = Up(t, k - j)
    <2>1. t.height + k - j = t.height + (k - j)
        BY <1>1
    <2>2. Pops(type(t.height + k), j) = type(t.height + k - j)
        <3>1. \A size \in Int : Pops(type(size), j) = type(size - j)
            BY PopMoves
        <3>2. t.height \in Int
            BY <1>1
        <3>. HIDE DEF type
        <3>. QED
            BY <3>1, <3>2
    <2>. HIDE DEF type
    <2>. QED
        BY <1>4, <2>1, <2>2
<1>9. /\ Up(t, k).height = t.height + k /\ Up(t, k).iters = t.iters
      /\ Up(t, k).env = t.env /\ Up(t, k).handlers = t.handlers
    BY <1>4, TypeFields
<1>. HIDE DEF type
<1>. QED
    BY <1>1, <1>5, <1>6, <1>7, <1>8, <1>9

LEMMA FitMore ==
    ASSUME NEW t, NEW Out, NEW more, Fit(t, Out), Out \subseteq more
    PROVE  Fit(t, more)
BY DEF Fit

(* A failure looks at the handlers and at the iterators below.             *)
LEMMA CaughtAlike ==
    ASSUME NEW t, NEW u, NEW Out, Fit(t, Out), Good(u), u.handlers = t.handlers,
           t.height <= u.height, \A i \in Nat : i <= t.height => (i \in t.iters <=> i \in u.iters)
    PROVE  Fit(u, Out)
<1>1. t.height \in Nat /\ u.height \in Nat /\ t.iters \subseteq Nat /\ u.iters \subseteq Nat
    BY DEF Fit, Good, Types
<1>2. CASE t.handlers = <<>>
    BY <1>2 DEF Fit, Caught
<1>3. CASE t.handlers # <<>>
    <2>. DEFINE h == Last(t.handlers)
    <2>1. h \in Handlers
        <3>1. t.handlers \in Seq(Handlers)
            BY DEF Fit, Good, Types
        <3>. QED
            BY <1>3, <3>1, FrontFacts
    <2>2. h.depth \in Nat /\ h.depth <= t.height
        BY <1>3, <2>1 DEF Fit, Handlers
    <2>3. {i \in t.iters : i <= h.depth} = {i \in u.iters : i <= h.depth}
        BY <1>1, <2>2
    <2>4. Caught(u) = Caught(t)
        BY <2>3 DEF Caught, Resumed
    <2>. QED
        BY <1>1, <2>2, <2>4 DEF Fit
<1>. QED
    BY <1>2, <1>3

LEMMA FitUp ==
    ASSUME NEW t, NEW Out, Fit(t, Out), NEW k \in Nat
    PROVE  Fit(Up(t, k), Out)
<1>1. Good(t)
    BY DEF Fit
<1>2. /\ Good(Up(t, k)) /\ Up(t, k).iters = t.iters /\ Up(t, k).handlers = t.handlers
      /\ Up(t, k).height = t.height + k /\ t.height \in Nat
    BY <1>1, UpFacts
<1>3. t.height <= Up(t, k).height
    BY <1>2
<1>. QED
    BY <1>2, <1>3, CaughtAlike

LEMMA ScopedFacts ==
    ASSUME NEW t, Good(t), NEW pc \in Nat
    PROVE  /\ Good(Scoped(t, pc)) /\ Scoped(t, pc).env = Append(t.env, pc)
           /\ Scoped(t, pc).handlers = t.handlers
           /\ \A Out : Fit(t, Out) => Fit(Scoped(t, pc), Out)
<1>. DEFINE env == Append(t.env, pc)
            u == TypeOf(t.height, t.iters, env, t.handlers)
<1>1. /\ t = TypeOf(t.height, t.iters, t.env, t.handlers)
      /\ t.height \in Nat /\ t.iters \in SUBSET Nat /\ t.env \in Seq(Nat)
      /\ t.handlers \in Seq(Handlers) /\ t.iters \subseteq 1 .. t.height
    BY TypeParts
<1>2. Scoped(t, pc) = u
    BY <1>1, ScopeMoves
<1>3. env \in Seq(Nat)
    BY <1>1
<1>. HIDE DEF env
<1>4. Good(u)
    BY <1>1, <1>3, TypeGood
<1>5. u.height = t.height /\ u.iters = t.iters /\ u.env = env /\ u.handlers = t.handlers
    BY TypeFields
<1>. HIDE DEF u
<1>6. ASSUME NEW Out, Fit(t, Out) PROVE Fit(u, Out)
    <2>1. t.height <= u.height
        BY <1>1, <1>5
    <2>. QED
        BY <1>4, <1>5, <1>6, <2>1, CaughtAlike
<1>. QED
    BY <1>2, <1>4, <1>5, <1>6 DEF env

(* The scope left again.                                                   *)
LEMMA ScopeLeft ==
    ASSUME NEW t, Good(t), NEW pc \in Nat, NEW k \in Nat
    PROVE  /\ Up(Scoped(t, pc), k).env # <<>>
           /\ [Up(Scoped(t, pc), k) EXCEPT !.env = Front(@)] = Up(t, k)
<1>. DEFINE env == Append(t.env, pc)
            type(e) == TypeOf(t.height + k, t.iters, e, t.handlers)
<1>1. t = TypeOf(t.height, t.iters, t.env, t.handlers) /\ t.env \in Seq(Nat)
    BY TypeParts
<1>2. Up(t, k) = type(t.env)
    BY <1>1, UpMoves
<1>3. Scoped(t, pc) = TypeOf(t.height, t.iters, env, t.handlers)
    BY <1>1, ScopeMoves
<1>4. Up(Scoped(t, pc), k) = type(env)
    BY <1>3, UpMoves
<1>5. env # <<>> /\ Front(env) = t.env
    BY <1>1, AppendBack
<1>. HIDE DEF env
<1>6. type(env).env = env
    BY TypeFields
<1>7. [type(env) EXCEPT !.env = Front(@)] = type(Front(env))
    BY DEF TypeOf
<1>. HIDE DEF type
<1>. QED
    BY <1>2, <1>4, <1>5, <1>6, <1>7

LEMMA GuardedFacts ==
    ASSUME NEW t, Good(t), NEW to \in Addresses
    PROVE  /\ Good(Guarded(t, to))
           /\ \A Out : To(to, t) \in Out => Fit(Guarded(t, to), Out)
<1>. DEFINE h == [to |-> to, depth |-> t.height, env |-> t.env]
            guards == Append(t.handlers, h)
            u == TypeOf(t.height, t.iters, t.env, guards)
<1>1. /\ t = TypeOf(t.height, t.iters, t.env, t.handlers)
      /\ t.height \in Nat /\ t.iters \in SUBSET Nat /\ t.env \in Seq(Nat)
      /\ t.handlers \in Seq(Handlers) /\ t.iters \subseteq 1 .. t.height
    BY TypeParts
<1>2. h \in Handlers /\ h.to = to /\ h.depth = t.height /\ h.env = t.env
    BY <1>1 DEF Handlers
<1>3. Guarded(t, to) = u
    BY <1>1, GuardMoves
<1>. HIDE DEF h
<1>4. guards \in Seq(Handlers) /\ guards # <<>> /\ Front(guards) = t.handlers /\ Last(guards) = h
    BY <1>1, <1>2, AppendBack
<1>. HIDE DEF guards
<1>5. Good(u)
    BY <1>1, <1>4, TypeGood
<1>6. u.height = t.height /\ u.iters = t.iters /\ u.env = t.env /\ u.handlers = guards
    BY TypeFields
<1>. HIDE DEF u
<1>7. ASSUME NEW Out, To(to, t) \in Out PROVE Fit(u, Out)
    <2>1. {i \in t.iters : i <= t.height} = t.iters
        BY <1>1
    <2>2. Resumed(u) = TypeOf(h.depth, {i \in u.iters : i <= h.depth}, h.env, Front(u.handlers))
        BY <1>4, <1>6 DEF Resumed, TypeOf
    <2>3. Resumed(u) = t
        BY <1>1, <1>2, <1>4, <1>6, <2>1, <2>2
    <2>4. Caught(u) = {To(to, t)}
        BY <1>2, <1>4, <1>6, <2>3 DEF Caught
    <2>. QED
        BY <1>1, <1>2, <1>4, <1>5, <1>6, <1>7, <2>4 DEF Fit
<1>. QED
    BY <1>3, <1>5, <1>7

LEMMA GuardLeft ==
    ASSUME NEW t, Good(t), NEW to \in Addresses, NEW k \in Nat
    PROVE  /\ Up(Guarded(t, to), k).handlers # <<>>
           /\ [Up(Guarded(t, to), k) EXCEPT !.handlers = Front(@)] = Up(t, k)
<1>. DEFINE h == [to |-> to, depth |-> t.height, env |-> t.env]
            guards == Append(t.handlers, h)
            type(hs) == TypeOf(t.height + k, t.iters, t.env, hs)
<1>1. t = TypeOf(t.height, t.iters, t.env, t.handlers) /\ t.handlers \in Seq(Handlers)
    BY TypeParts
<1>2. Up(t, k) = type(t.handlers)
    BY <1>1, UpMoves
<1>3. Guarded(t, to) = TypeOf(t.height, t.iters, t.env, guards)
    BY <1>1, GuardMoves
<1>4. h \in Handlers
    BY TypeParts DEF Handlers
<1>. HIDE DEF h
<1>5. guards # <<>> /\ Front(guards) = t.handlers
    BY <1>1, <1>4, AppendBack
<1>. HIDE DEF guards
<1>6. Up(Guarded(t, to), k) = type(guards)
    BY <1>3, UpMoves
<1>7. type(guards).handlers = guards
    BY TypeFields
<1>8. [type(guards) EXCEPT !.handlers = Front(@)] = type(Front(guards))
    BY DEF TypeOf
<1>. HIDE DEF type
<1>. QED
    BY <1>2, <1>5, <1>6, <1>7, <1>8

LEMMA IteratingFacts ==
    ASSUME NEW t, Good(t)
    PROVE  /\ Good(Iterating(t)) /\ Iterating(t).height = t.height + 1
           /\ Iterating(t).iters = t.iters \cup {t.height + 1}
           /\ Iterating(t).env = t.env /\ Iterating(t).handlers = t.handlers
           /\ \A Out : Fit(t, Out) => Fit(Iterating(t), Out)
<1>. DEFINE more == t.iters \cup {t.height + 1}
            u == TypeOf(t.height + 1, more, t.env, t.handlers)
<1>1. /\ t = TypeOf(t.height, t.iters, t.env, t.handlers)
      /\ t.height \in Nat /\ t.iters \in SUBSET Nat /\ t.env \in Seq(Nat)
      /\ t.handlers \in Seq(Handlers) /\ t.iters \subseteq 1 .. t.height
    BY TypeParts
<1>2. Iterating(t) = u
    BY <1>1, IterMoves
<1>3. t.height + 1 \in Nat /\ more \in SUBSET Nat /\ more \subseteq 1 .. t.height + 1
    BY <1>1
<1>4. \A i \in Nat : i <= t.height => (i \in t.iters <=> i \in more)
    BY <1>1
<1>. HIDE DEF more
<1>5. Good(u)
    BY <1>1, <1>3, TypeGood
<1>6. u.height = t.height + 1 /\ u.iters = more /\ u.env = t.env /\ u.handlers = t.handlers
    BY TypeFields
<1>. HIDE DEF u
<1>7. ASSUME NEW Out, Fit(t, Out) PROVE Fit(u, Out)
    <2>1. t.height <= u.height
        BY <1>1, <1>6
    <2>. QED
        BY <1>4, <1>5, <1>6, <1>7, <2>1, CaughtAlike
<1>. QED
    BY <1>2, <1>5, <1>6, <1>7 DEF more

(* The iterator pushed, and taken off again.                               *)
LEMMA IteratorLeft ==
    ASSUME NEW t, Good(t)
    PROVE  /\ Iterating(t) = [Up(t, 1) EXCEPT !.iters = @ \cup {Up(t, 1).height}]
           /\ [Pops(Iterating(t), 1) EXCEPT !.iters = @ \ {Iterating(t).height}] = t
<1>. DEFINE h == t.height
            more == t.iters \cup {h + 1}
            type(x, I) == TypeOf(x, I, t.env, t.handlers)
<1>1. t = type(h, t.iters) /\ h \in Nat /\ t.iters \subseteq 1 .. h
    BY TypeParts
<1>2. Up(t, 1) = type(h + 1, t.iters) /\ Up(t, 1).height = h + 1
    <2>1. Up(t, 1) = type(h + 1, t.iters)
        BY <1>1, UpMoves
    <2>. QED
        BY <2>1, TypeFields
<1>3. Iterating(t) = type(h + 1, more)
    BY <1>1, IterMoves
<1>4. Pops(Iterating(t), 1) = type(h, more)
    <2>1. Pops(Iterating(t), 1) = type(h + 1 - 1, more)
        <3>1. \A size \in Int : Pops(type(size, more), 1) = type(size - 1, more)
            BY PopMoves
        <3>. HIDE DEF type, h, more
        <3>. QED
            BY <1>1, <1>3, <3>1
    <2>2. h + 1 - 1 = h
        BY <1>1
    <2>. QED
        BY <2>1, <2>2
<1>5. Iterating(t).height = h + 1
    BY IteratingFacts
<1>6. more \ {h + 1} = t.iters
    BY <1>1
<1>7. [type(h, more) EXCEPT !.iters = @ \ {h + 1}] = type(h, more \ {h + 1})
    BY DEF TypeOf
<1>8. [type(h + 1, t.iters) EXCEPT !.iters = @ \cup {h + 1}] = type(h + 1, more)
    BY DEF TypeOf
<1>. HIDE DEF type, more, h
<1>. QED
    BY <1>1, <1>2, <1>3, <1>4, <1>5, <1>6, <1>7, <1>8

----------------------------------------------------------------------------
(* Instructions.                                                           *)

InsOf(op, n, to, at, out) == [op |-> op, n |-> n, to |-> to, at |-> at, out |-> out]

LEMMA InsFields ==
    \A op, n, to, at, out :
        /\ InsOf(op, n, to, at, out).op = op /\ InsOf(op, n, to, at, out).n = n
        /\ InsOf(op, n, to, at, out).to = to /\ InsOf(op, n, to, at, out).out = out
BY DEF InsOf

LEMMA InsTyped ==
    ASSUME NEW op \in Opcodes, NEW n \in Nat, NEW to \in Ways, NEW at \in Seq(Nat), NEW out \in SUBSET Data
    PROVE  /\ InsOf(op, n, to, at, out) \in Insns
           /\ InsOf(op, n, to, at, out).op = op /\ InsOf(op, n, to, at, out).n = n
           /\ InsOf(op, n, to, at, out).to = to /\ InsOf(op, n, to, at, out).out = out
<1>1. InsOf(op, n, to, at, out) \in Insns
    BY DEF InsOf, Insns
<1>. QED
    BY <1>1, InsFields

WithWay(i, to)  == [i EXCEPT !.to = to]
WithOut(i, out) == [i EXCEPT !.out = out]

LEMMA WithChanges ==
    \A op, n, to, at, out, x :
        /\ WithWay(InsOf(op, n, to, at, out), x) = InsOf(op, n, x, at, out)
        /\ WithOut(InsOf(op, n, to, at, out), x) = InsOf(op, n, to, at, x)
BY DEF InsOf, WithWay, WithOut

LEMMA PlainIns == \A op : Ins(op) = InsOf(op, 0, Further(0), <<>>, {})
BY DEF Ins, InsOf

LEMMA InsShape ==
    ASSUME NEW op \in Opcodes
    PROVE  /\ Ins(op) \in Insns /\ Ins(op).op = op /\ Ins(op).n = 0 /\ Ins(op).out = {}
           /\ Ins(op).to = Further(0)
<1>1. <<>> \in Seq(Nat) /\ {} \in SUBSET Data /\ 0 \in Nat /\ 0 \in Int
    OBVIOUS
<1>2. InsOf(op, 0, Further(0), <<>>, {}) \in Insns
    BY <1>1, FurtherTyped, InsTyped
<1>. QED
    BY <1>2, PlainIns, InsFields

LEMMA BranchShape ==
    ASSUME NEW op \in Opcodes, NEW l \in Labels
    PROVE  /\ Branch(op, l) \in Insns /\ Branch(op, l).op = op /\ Branch(op, l).n = 0
           /\ Branch(op, l).out = {} /\ Branch(op, l).to.label = l
<1>. DEFINE way == [Further(0) EXCEPT !.label = l]
<1>1. way \in Ways /\ way.label = l /\ <<>> \in Seq(Nat) /\ {} \in SUBSET Data /\ 0 \in Nat
    BY DEF Ways, Further
<1>2. Branch(op, l) = [Ins(op) EXCEPT !.to = [Ins(op).to EXCEPT !.label = l]]
    BY DEF Branch
<1>3. Ins(op) = InsOf(op, 0, Further(0), <<>>, {}) /\ Ins(op).to = Further(0)
    BY PlainIns, InsFields
<1>4. Branch(op, l) = [InsOf(op, 0, Further(0), <<>>, {}) EXCEPT !.to = way]
    BY <1>2, <1>3
<1>. HIDE DEF way
<1>5. Branch(op, l) = InsOf(op, 0, way, <<>>, {})
    <2>1. Branch(op, l) = WithWay(InsOf(op, 0, Further(0), <<>>, {}), way)
        BY <1>4 DEF WithWay
    <2>. QED
        BY <2>1, WithChanges
<1>6. Branch(op, l) \in Insns
    <2>1. InsOf(op, 0, way, <<>>, {}) \in Insns
        BY <1>1, InsTyped
    <2>. QED
        BY <1>5, <2>1
<1>7. /\ Branch(op, l).op = op /\ Branch(op, l).n = 0
      /\ Branch(op, l).out = {} /\ Branch(op, l).to = way
    BY <1>5, InsFields
<1>. QED
    BY <1>1, <1>6, <1>7

LEMMA SkipShape ==
    ASSUME NEW op \in Opcodes, NEW n \in Int
    PROVE  /\ Skip(op, n) \in Insns /\ Skip(op, n).op = op /\ Skip(op, n).n = 0
           /\ Skip(op, n).out = {} /\ Skip(op, n).to = Further(n)
<1>1. Skip(op, n) = InsOf(op, 0, Further(n), <<>>, {})
    <2>1. WithWay(InsOf(op, 0, Further(0), <<>>, {}), Further(n)) = InsOf(op, 0, Further(n), <<>>, {})
        BY WithChanges
    <2>2. Skip(op, n) = WithWay(Ins(op), Further(n))
        BY DEF Skip, WithWay
    <2>. QED
        BY <2>1, <2>2, PlainIns
<1>2. <<>> \in Seq(Nat) /\ {} \in SUBSET Data /\ 0 \in Nat
    OBVIOUS
<1>. QED
    <2>0. InsOf(op, 0, Further(n), <<>>, {}) \in Insns
        BY <1>2, FurtherTyped, InsTyped
    <2>1. Skip(op, n) \in Insns
        BY <1>1, <2>0
    <2>. QED
        BY <1>1, <2>1, InsFields

LEMMA DoesForm ==
    ASSUME NEW op, NEW at, NEW n
    PROVE  Does(op, at, n) = InsOf(op, n, Further(0), at, {})
<1>1. Does(op, at, n) = [[Ins(op) EXCEPT !.at = at] EXCEPT !.n = n]
    BY DEF Does
<1>2. [Ins(op) EXCEPT !.at = at] = InsOf(op, 0, Further(0), at, {})
    <2>1. [InsOf(op, 0, Further(0), <<>>, {}) EXCEPT !.at = at] = InsOf(op, 0, Further(0), at, {})
        BY DEF InsOf
    <2>. QED
        BY <2>1, PlainIns
<1>3. [InsOf(op, 0, Further(0), at, {}) EXCEPT !.n = n] = InsOf(op, n, Further(0), at, {})
    BY DEF InsOf
<1>. QED
    BY <1>1, <1>2, <1>3

LEMMA DoesShape ==
    ASSUME NEW op \in Opcodes, NEW at \in Seq(Nat), NEW n \in Nat
    PROVE  /\ Does(op, at, n) \in Insns /\ Does(op, at, n).op = op /\ Does(op, at, n).n = n
           /\ Does(op, at, n).out = {}
<1>1. Does(op, at, n) = InsOf(op, n, Further(0), at, {})
    BY DoesForm
<1>2. Further(0) \in Ways /\ {} \in SUBSET Data
    BY FurtherTyped
<1>. QED
    BY <1>1, <1>2, InsTyped

LEMMA GivesShape ==
    ASSUME NEW op \in Opcodes, NEW at \in Seq(Nat), NEW n \in Nat, NEW out \in SUBSET Data
    PROVE  /\ WithOut(Does(op, at, n), out) \in Insns /\ WithOut(Does(op, at, n), out).op = op
           /\ WithOut(Does(op, at, n), out).n = n /\ WithOut(Does(op, at, n), out).out = out
<1>. DEFINE i == WithOut(Does(op, at, n), out)
<1>1. i = InsOf(op, n, Further(0), at, out)
    <2>1. WithOut(InsOf(op, n, Further(0), at, {}), out) = InsOf(op, n, Further(0), at, out)
        BY WithChanges
    <2>. QED
        BY <2>1, DoesForm DEF WithOut
<1>2. Further(0) \in Ways
    BY FurtherTyped
<1>. HIDE DEF i
<1>3. i \in Insns
    BY <1>1, <1>2, InsTyped
<1>4. i.op = op /\ i.n = n /\ i.out = out
    BY <1>1, InsFields
<1>. QED
    BY <1>3, <1>4 DEF i

LEMMA PlacedShape ==
    ASSUME NEW i \in Insns, NEW pc, NEW lab
    PROVE  /\ Placed(i, pc, lab).op = i.op /\ Placed(i, pc, lab).n = i.n
           /\ Placed(i, pc, lab).out = i.out
           /\ Placed(i, pc, lab).to =
                  IF i.to.label \in DOMAIN lab THEN lab[i.to.label] ELSE pc + i.to.by
BY DEF Placed, Insns

(* What an instruction needs, if the operands on top are what it takes.    *)
LEMMA Allows ==
    ASSUME NEW p, NEW t, Good(t), NEW k \in Nat, Needs(p) \in 0 .. k, p.op # "FOR_ITER",
           p.op \in {"EVAL", "LOAD"} => p.out \subseteq Data,
           p.op = "POP_SCOPE" => t.env # <<>>, p.op = "POP_HANDLER" => t.handlers # <<>>,
           p.op \in MayFail /\ t.handlers # <<>> =>
               Last(t.handlers).depth \in Nat /\ Last(t.handlers).depth <= t.height
    PROVE  Allowed(p, Up(t, k))
<1>1. /\ Up(t, k).height = t.height + k /\ Up(t, k).iters = t.iters
      /\ Up(t, k).env = t.env /\ Up(t, k).handlers = t.handlers
      /\ t.height \in Nat /\ t.iters \subseteq 1 .. t.height
    BY UpFacts DEF Good
<1>2. Up(t, k).height >= Needs(p) /\ \A h \in Up(t, k).iters : h <= Up(t, k).height - Needs(p)
    BY <1>1
<1>3. p.op \in {"EVAL", "LOAD"} => \A v \in p.out : v.kind # "iterator"
    BY DEF Data
<1>4. p.op \in MayFail /\ Up(t, k).handlers # <<>> =>
          Last(Up(t, k).handlers).depth <= Up(t, k).height - Needs(p)
    BY <1>1
<1>. QED
    BY <1>1, <1>2, <1>3, <1>4 DEF Allowed, Globals

LEMMA FitDepth ==
    ASSUME NEW t, NEW Out, Fit(t, Out)
    PROVE  /\ Good(t)
           /\ t.handlers # <<>> => Last(t.handlers).depth \in Nat /\ Last(t.handlers).depth <= t.height
<1>1. t.handlers \in Seq(Handlers)
    BY DEF Fit, Good, Types
<1>2. t.handlers # <<>> => Last(t.handlers) \in Handlers
    BY <1>1, FrontFacts
<1>. QED
    BY <1>2 DEF Fit, Handlers

LEMMA LoadRuns ==
    ASSUME NEW v \in Data, NEW b \in Nat, NEW lab, NEW t, Good(t), NEW Out
    PROVE  LoadConst(v) \in Seq(Insns) /\ Runs(LoadConst(v), b, lab, t, Up(t, 1), Out)
<1>. DEFINE i == [Ins("LOAD") EXCEPT !.out = {v}]
            p == Placed(i, b + 1, lab)
<1>1. i \in Insns /\ i.op = "LOAD" /\ i.out = {v}
    <2>1. "LOAD" \in Opcodes /\ <<>> \in Seq(Nat) /\ {v} \in SUBSET Data /\ Further(0) \in Ways /\ 0 \in Nat
        BY FurtherTyped DEF Opcodes
    <2>2. i = InsOf("LOAD", 0, Further(0), <<>>, {v})
        <3>1. WithOut(InsOf("LOAD", 0, Further(0), <<>>, {}), {v}) = InsOf("LOAD", 0, Further(0), <<>>, {v})
            BY WithChanges
        <3>. QED
            BY <3>1, PlainIns DEF WithOut
    <2>. HIDE DEF i
    <2>3. i \in Insns
        BY <2>1, <2>2, InsTyped
    <2>. QED
        BY <2>2, <2>3, InsFields
<1>2. LoadConst(v) = <<i>>
    BY DEF LoadConst
<1>. HIDE DEF i
<1>3. p.op = "LOAD" /\ p.out = {v}
    BY <1>1, PlacedShape
<1>. HIDE DEF p
<1>4. Needs(p) = 0
    BY <1>3 DEF Needs
<1>5. Allowed(p, t)
    <2>1. Allowed(p, Up(t, 0))
        BY <1>3, <1>4, Allows DEF MayFail
    <2>. QED
        BY <2>1, UpFacts
<1>6. Successors(p, b + 1, t) = {To(b + 2, Up(t, 1))}
    <2>1. Successors(p, b + 1, t) = {To(b + 1 + 1, Pushes(t))}
        BY <1>3 DEF Successors
    <2>2. Pushes(t) = Up(t, 1) /\ b + 1 + 1 = b + 2
        <3>1. Pushes(Up(t, 0)) = Up(t, 0 + 1) /\ Up(t, 0) = t
            BY UpFacts
        <3>. QED
            BY <3>1
    <2>. QED
        BY <2>1, <2>2
<1>7. Runs(<<i>>, b, lab, t, Up(t, 1), Out)
    BY <1>1, <1>5, <1>6, One DEF p
<1>. QED
    BY <1>1, <1>2, <1>7

LEMMA PopPush ==
    ASSUME NEW t, Good(t), NEW n \in Nat
    PROVE  Pops(Up(t, n), n) = t /\ Pushes(t) = Up(t, 1)
<1>1. Up(t, 0) = t /\ Pushes(Up(t, 0)) = Up(t, 0 + 1)
    BY UpFacts
<1>2. Pops(Up(t, n), n) = Up(t, n - n)
    BY UpFacts
<1>. QED
    BY <1>1, <1>2

(* A computation, and a call.                                              *)
LEMMA ComputeRuns ==
    ASSUME NEW i \in Insns, i.op \in {"EVAL", "CALL"}, NEW b \in Nat, NEW lab, NEW t, NEW Out, Fit(t, Out),
           NEW n \in Nat, n = i.n + (IF i.op = "CALL" THEN 1 ELSE 0)
    PROVE  Runs(<<i>>, b, lab, Up(t, n), Up(t, 1), Out)
<1>. DEFINE p == Placed(i, b + 1, lab)
<1>1. p.op = i.op /\ p.n = i.n /\ p.out = i.out /\ i.out \subseteq Data /\ i.n \in Nat
    BY PlacedShape DEF Insns
<1>2. Good(t) /\ Fit(Up(t, n), Out) /\ Good(Up(t, n))
    BY FitUp DEF Fit
<1>3. Needs(p) = n
    BY <1>1 DEF Needs
<1>4. Allowed(p, Up(t, n))
    <2>1. p.op # "FOR_ITER" /\ p.op # "POP_SCOPE" /\ p.op # "POP_HANDLER" /\ n \in 0 .. n
        BY <1>1
    <2>. HIDE DEF p
    <2>. QED
        BY <1>1, <1>2, <1>3, <2>1, FitDepth, Allows
<1>5. Successors(p, b + 1, Up(t, n)) \subseteq Out \cup {To(b + 2, Up(t, 1))}
    <2>1. Successors(p, b + 1, Up(t, n)) = {To(b + 1 + 1, Pushes(Pops(Up(t, n), n)))} \cup Caught(Up(t, n))
        BY <1>1, <1>3 DEF Successors
    <2>2. b + 1 + 1 = b + 2 /\ Pushes(Pops(Up(t, n), n)) = Up(t, 1)
        BY <1>2, PopPush
    <2>3. Caught(Up(t, n)) \subseteq Out
        BY <1>2 DEF Fit
    <2>. QED
        BY <2>1, <2>2, <2>3
<1>. QED
    BY <1>2, <1>4, <1>5, One

(* The operands stored or dropped.                                         *)
LEMMA DropRuns ==
    ASSUME NEW i \in Insns, i.op \in {"STORE", "POP", "POP_CHECKED"}, NEW b \in Nat, NEW lab, NEW t,
           NEW Out, Good(t), i.op = "POP_CHECKED" => Fit(t, Out),
           NEW n \in Nat, n = IF i.op = "STORE" THEN i.n ELSE 1
    PROVE  Runs(<<i>>, b, lab, Up(t, n), t, Out)
<1>. DEFINE p == Placed(i, b + 1, lab)
<1>1. p.op = i.op /\ p.n = i.n /\ i.n \in Nat
    BY PlacedShape DEF Insns
<1>2. Good(Up(t, n)) /\ (i.op = "POP_CHECKED" => Fit(Up(t, n), Out))
    BY FitUp, UpFacts
<1>3. Needs(p) = n
    BY <1>1 DEF Needs
<1>4. Allowed(p, Up(t, n))
    <2>1. /\ p.op # "FOR_ITER" /\ p.op # "POP_SCOPE" /\ p.op # "POP_HANDLER" /\ n \in 0 .. n
          /\ p.op \notin {"EVAL", "LOAD"} /\ (p.op \in MayFail => i.op = "POP_CHECKED")
        BY <1>1 DEF MayFail
    <2>. HIDE DEF p
    <2>. QED
        BY <1>1, <1>2, <1>3, <2>1, FitDepth, Allows
<1>5. Successors(p, b + 1, Up(t, n)) \subseteq Out \cup {To(b + 2, t)}
    <2>1. Successors(p, b + 1, Up(t, n)) =
              {To(b + 1 + 1, Pops(Up(t, n), n))} \cup (IF i.op = "POP_CHECKED" THEN Caught(Up(t, n)) ELSE {})
        BY <1>1, <1>3 DEF Successors
    <2>2. b + 1 + 1 = b + 2 /\ Pops(Up(t, n), n) = t
        BY PopPush
    <2>3. i.op = "POP_CHECKED" => Caught(Up(t, n)) \subseteq Out
        BY <1>2 DEF Fit
    <2>. QED
        BY <2>1, <2>2, <2>3
<1>. QED
    BY <1>2, <1>4, <1>5, One

LEMMA UnwrapRuns ==
    ASSUME NEW b \in Nat, NEW lab, NEW t, NEW Out, Fit(t, Out)
    PROVE  /\ Ins("FAILABLE_UNWRAP") \in Insns
           /\ Runs(<<Ins("FAILABLE_UNWRAP")>>, b, lab, Up(t, 1), Up(t, 1), Out)
<1>. DEFINE i == Ins("FAILABLE_UNWRAP")
            p == Placed(i, b + 1, lab)
<1>1. i \in Insns /\ i.op = "FAILABLE_UNWRAP"
    BY InsShape DEF Opcodes
<1>. HIDE DEF i
<1>2. p.op = "FAILABLE_UNWRAP"
    BY <1>1, PlacedShape
<1>3. Good(t) /\ Fit(Up(t, 1), Out) /\ Good(Up(t, 1))
    BY FitUp DEF Fit
<1>4. Allowed(p, Up(t, 1))
    <2>1. Needs(p) = 1 /\ 1 \in 0 .. 1
        BY <1>2 DEF Needs
    <2>. HIDE DEF p
    <2>. QED
        BY <1>2, <1>3, <2>1, FitDepth, Allows
<1>5. Successors(p, b + 1, Up(t, 1)) \subseteq Out \cup {To(b + 2, Up(t, 1))}
    <2>1. Successors(p, b + 1, Up(t, 1)) = {To(b + 1 + 1, Up(t, 1))} \cup Caught(Up(t, 1))
        BY <1>2 DEF Successors
    <2>2. b + 1 + 1 = b + 2 /\ Caught(Up(t, 1)) \subseteq Out
        BY <1>3 DEF Fit
    <2>. QED
        BY <2>1, <2>2
<1>6. Runs(<<i>>, b, lab, Up(t, 1), Up(t, 1), Out)
    BY <1>1, <1>3, <1>4, <1>5, One
<1>. QED
    BY <1>1, <1>6 DEF i

(* Scopes.                                                                 *)
LEMMA PushScopeRuns ==
    ASSUME NEW b \in Nat, NEW lab, NEW t, Good(t), NEW Out
    PROVE  /\ Ins("PUSH_SCOPE") \in Insns
           /\ Runs(<<Ins("PUSH_SCOPE")>>, b, lab, t, Scoped(t, b + 1), Out)
<1>. DEFINE i == Ins("PUSH_SCOPE")
            p == Placed(i, b + 1, lab)
<1>1. i \in Insns /\ i.op = "PUSH_SCOPE"
    BY InsShape DEF Opcodes
<1>. HIDE DEF i
<1>2. p.op = "PUSH_SCOPE"
    BY <1>1, PlacedShape
<1>3. Allowed(p, t)
    <2>1. Needs(p) = 0 /\ 0 \in 0 .. 0 /\ "PUSH_SCOPE" \notin MayFail
        BY <1>2 DEF Needs, MayFail
    <2>. HIDE DEF p
    <2>2. Allowed(p, Up(t, 0))
        BY <1>2, <2>1, Allows
    <2>. QED
        BY <2>2, UpFacts
<1>4. Successors(p, b + 1, t) \subseteq Out \cup {To(b + 2, Scoped(t, b + 1))}
    <2>1. Successors(p, b + 1, t) = {To(b + 1 + 1, Scoped(t, b + 1))}
        BY <1>2 DEF Successors, Scoped
    <2>2. b + 1 + 1 = b + 2
        OBVIOUS
    <2>. QED
        BY <2>1, <2>2
<1>5. Runs(<<i>>, b, lab, t, Scoped(t, b + 1), Out)
    BY <1>1, <1>3, <1>4, One
<1>. QED
    BY <1>1, <1>5 DEF i

LEMMA PopScopeRuns ==
    ASSUME NEW b \in Nat, NEW lab, NEW t, NEW u, Good(t), t.env # <<>>, u = [t EXCEPT !.env = Front(@)], NEW Out
    PROVE  /\ Ins("POP_SCOPE") \in Insns
           /\ Runs(<<Ins("POP_SCOPE")>>, b, lab, t, u, Out)
<1>. DEFINE i == Ins("POP_SCOPE")
            p == Placed(i, b + 1, lab)
<1>1. i \in Insns /\ i.op = "POP_SCOPE"
    BY InsShape DEF Opcodes
<1>. HIDE DEF i
<1>2. p.op = "POP_SCOPE"
    BY <1>1, PlacedShape
<1>3. Allowed(p, t)
    <2>1. Needs(p) = 0 /\ 0 \in 0 .. 0 /\ "POP_SCOPE" \notin MayFail
        BY <1>2 DEF Needs, MayFail
    <2>. HIDE DEF p
    <2>2. Allowed(p, Up(t, 0))
        BY <1>2, <2>1, Allows
    <2>. QED
        BY <2>2, UpFacts
<1>4. Successors(p, b + 1, t) \subseteq Out \cup {To(b + 2, u)}
    <2>1. Successors(p, b + 1, t) = {To(b + 1 + 1, u)}
        BY <1>2 DEF Successors
    <2>2. b + 1 + 1 = b + 2
        OBVIOUS
    <2>. QED
        BY <2>1, <2>2
<1>5. Runs(<<i>>, b, lab, t, u, Out)
    BY <1>1, <1>3, <1>4, One
<1>. QED
    BY <1>1, <1>5 DEF i

(* Jumps.                                                                  *)
LEMMA JumpAway ==
    ASSUME NEW i \in Insns, i.op = "JUMP", NEW b \in Nat, NEW lab, NEW t, Good(t), NEW Out,
           To(Placed(i, b + 1, lab).to, t) \in Out
    PROVE  Typed(<<i>>, b, lab, t, Out)
<1>. DEFINE p == Placed(i, b + 1, lab)
<1>1. p.op = "JUMP"
    BY PlacedShape
<1>2. Allowed(p, t)
    <2>1. Needs(p) = 0 /\ 0 \in 0 .. 0 /\ "JUMP" \notin MayFail
        BY <1>1 DEF Needs, MayFail
    <2>. HIDE DEF p
    <2>2. Allowed(p, Up(t, 0))
        BY <1>1, <2>1, Allows
    <2>. QED
        BY <2>2, UpFacts
<1>3. Successors(p, b + 1, t) = {To(p.to, t)}
    BY <1>1 DEF Successors
<1>. QED
    BY <1>2, <1>3, Single

LEMMA JumpIfRuns ==
    ASSUME NEW i \in Insns, i.op \in {"JUMP_IF_FALSE", "JUMP_IF_TRUE"}, NEW b \in Nat, NEW lab, NEW t,
           Good(t), NEW Out, To(Placed(i, b + 1, lab).to, Up(t, 1)) \in Out
    PROVE  Runs(<<i>>, b, lab, Up(t, 1), Up(t, 1), Out)
<1>. DEFINE p == Placed(i, b + 1, lab)
<1>1. p.op \in {"JUMP_IF_FALSE", "JUMP_IF_TRUE"}
    BY PlacedShape
<1>2. Allowed(p, Up(t, 1))
    <2>1. Needs(p) = 1 /\ 1 \in 0 .. 1 /\ p.op \notin MayFail
        BY <1>1 DEF Needs, MayFail
    <2>. HIDE DEF p
    <2>. QED
        BY <1>1, <2>1, Allows
<1>3. Successors(p, b + 1, Up(t, 1)) = {To(b + 1 + 1, Up(t, 1)), To(p.to, Up(t, 1))}
    BY <1>1 DEF Successors
<1>4. Good(Up(t, 1)) /\ b + 1 + 1 = b + 2
    BY UpFacts
<1>. QED
    BY <1>2, <1>3, <1>4, One

LEMMA ReturnAway ==
    ASSUME NEW b \in Nat, NEW lab, NEW t, Good(t), NEW Out
    PROVE  Ins("RETURN") \in Insns /\ Typed(<<Ins("RETURN")>>, b, lab, Up(t, 1), Out)
<1>. DEFINE i == Ins("RETURN")
            p == Placed(i, b + 1, lab)
<1>1. i \in Insns /\ i.op = "RETURN"
    BY InsShape DEF Opcodes
<1>. HIDE DEF i
<1>2. p.op = "RETURN"
    BY <1>1, PlacedShape
<1>3. Allowed(p, Up(t, 1))
    <2>1. Needs(p) = 1 /\ 1 \in 0 .. 1 /\ "RETURN" \notin MayFail
        BY <1>2 DEF Needs, MayFail
    <2>. HIDE DEF p
    <2>. QED
        BY <1>2, <2>1, Allows
<1>4. Successors(p, b + 1, Up(t, 1)) = {}
    BY <1>2 DEF Successors
<1>5. Typed(<<i>>, b, lab, Up(t, 1), Out)
    BY <1>1, <1>3, <1>4, Single, UpFacts
<1>. QED
    BY <1>1, <1>5 DEF i

(* Handlers.                                                               *)
LEMMA GuardRuns ==
    ASSUME NEW b \in Nat, NEW lab, IsLabels(lab), "fail" \in DOMAIN lab, NEW t, Good(t), NEW Out
    PROVE  /\ Branch("PUSH_HANDLER", "fail") \in Insns
           /\ Runs(<<Branch("PUSH_HANDLER", "fail")>>, b, lab, t, Guarded(t, lab["fail"]), Out)
<1>. DEFINE i == Branch("PUSH_HANDLER", "fail")
            p == Placed(i, b + 1, lab)
<1>1. i \in Insns /\ i.op = "PUSH_HANDLER" /\ i.to.label = "fail"
    BY BranchShape DEF Opcodes, Labels
<1>. HIDE DEF i
<1>2. p.op = "PUSH_HANDLER" /\ p.to = lab["fail"]
    BY <1>1, PlacedShape
<1>3. Allowed(p, t)
    <2>1. Needs(p) = 0 /\ 0 \in 0 .. 0 /\ "PUSH_HANDLER" \notin MayFail
        BY <1>2 DEF Needs, MayFail
    <2>. HIDE DEF p
    <2>2. Allowed(p, Up(t, 0))
        BY <1>2, <2>1, Allows
    <2>. QED
        BY <2>2, UpFacts
<1>4. Successors(p, b + 1, t) = {To(b + 1 + 1, Guarded(t, lab["fail"]))}
    BY <1>2 DEF Successors, Guarded
<1>5. b + 1 + 1 = b + 2
    OBVIOUS
<1>6. Runs(<<i>>, b, lab, t, Guarded(t, lab["fail"]), Out)
    BY <1>1, <1>3, <1>4, <1>5, One
<1>. QED
    BY <1>1, <1>6 DEF i

LEMMA UnguardRuns ==
    ASSUME NEW b \in Nat, NEW lab, NEW t, Good(t), NEW to \in Addresses, NEW Out
    PROVE  /\ Ins("POP_HANDLER") \in Insns
           /\ Runs(<<Ins("POP_HANDLER")>>, b, lab, Up(Guarded(t, to), 1), Up(t, 1), Out)
<1>. DEFINE i == Ins("POP_HANDLER")
            p == Placed(i, b + 1, lab)
            u == Up(Guarded(t, to), 1)
<1>1. i \in Insns /\ i.op = "POP_HANDLER"
    BY InsShape DEF Opcodes
<1>. HIDE DEF i
<1>2. p.op = "POP_HANDLER"
    BY <1>1, PlacedShape
<1>3. Good(u) /\ u.handlers # <<>> /\ [u EXCEPT !.handlers = Front(@)] = Up(t, 1)
    <2>1. Good(Guarded(t, to))
        BY GuardedFacts
    <2>2. Good(u)
        BY <2>1, UpFacts
    <2>3. u.handlers # <<>> /\ [u EXCEPT !.handlers = Front(@)] = Up(t, 1)
        BY GuardLeft
    <2>. QED
        BY <2>2, <2>3
<1>. HIDE DEF u
<1>4. Allowed(p, u)
    <2>1. Needs(p) = 0 /\ 0 \in 0 .. 0 /\ "POP_HANDLER" \notin MayFail
        BY <1>2 DEF Needs, MayFail
    <2>. HIDE DEF p
    <2>2. Allowed(p, Up(u, 0))
        BY <1>2, <1>3, <2>1, Allows
    <2>. QED
        BY <1>3, <2>2, UpFacts
<1>5. Successors(p, b + 1, u) = {To(b + 1 + 1, Up(t, 1))}
    <2>1. Successors(p, b + 1, u) = {To(b + 1 + 1, [u EXCEPT !.handlers = Front(@)])}
        BY <1>2 DEF Successors
    <2>. QED
        BY <1>3, <2>1
<1>6. b + 1 + 1 = b + 2
    OBVIOUS
<1>7. Runs(<<i>>, b, lab, u, Up(t, 1), Out)
    BY <1>1, <1>3, <1>4, <1>5, <1>6, One
<1>. QED
    BY <1>1, <1>7 DEF i, u

LEMMA CheckRuns ==
    ASSUME NEW b \in Nat, NEW lab, "fail" \in DOMAIN lab, NEW t, Good(t), NEW Out,
           To(lab["fail"], t) \in Out
    PROVE  /\ Branch("CLAUSE_CHECK", "fail") \in Insns
           /\ Runs(<<Branch("CLAUSE_CHECK", "fail")>>, b, lab, Up(t, 1), Up(t, 1), Out)
<1>. DEFINE i == Branch("CLAUSE_CHECK", "fail")
            p == Placed(i, b + 1, lab)
<1>1. i \in Insns /\ i.op = "CLAUSE_CHECK" /\ i.to.label = "fail"
    BY BranchShape DEF Opcodes, Labels
<1>. HIDE DEF i
<1>2. p.op = "CLAUSE_CHECK" /\ p.to = lab["fail"]
    BY <1>1, PlacedShape
<1>3. Allowed(p, Up(t, 1))
    <2>1. Needs(p) = 1 /\ 1 \in 0 .. 1 /\ "CLAUSE_CHECK" \notin MayFail
        BY <1>2 DEF Needs, MayFail
    <2>. HIDE DEF p
    <2>. QED
        BY <1>2, <2>1, Allows
<1>4. Successors(p, b + 1, Up(t, 1)) = {To(b + 1 + 1, Up(t, 1)), To(lab["fail"], t)}
    <2>1. Successors(p, b + 1, Up(t, 1)) = {To(b + 1 + 1, Up(t, 1)), To(p.to, Pops(Up(t, 1), 1))}
        BY <1>2 DEF Successors
    <2>. QED
        BY <1>2, <2>1, PopPush
<1>5. b + 1 + 1 = b + 2 /\ Good(Up(t, 1))
    BY UpFacts
<1>6. Runs(<<i>>, b, lab, Up(t, 1), Up(t, 1), Out)
    BY <1>1, <1>3, <1>4, <1>5, One
<1>. QED
    BY <1>1, <1>6 DEF i

(* Iterators.                                                              *)
LEMMA GetIterRuns ==
    ASSUME NEW at \in Seq(Nat), NEW b \in Nat, NEW lab, NEW t, Good(t), NEW Out
    PROVE  /\ Does("GET_ITER", at, 0) \in Insns
           /\ Runs(<<Does("GET_ITER", at, 0)>>, b, lab, Up(t, 1), Iterating(t), Out)
<1>. DEFINE i == Does("GET_ITER", at, 0)
            p == Placed(i, b + 1, lab)
<1>1. i \in Insns /\ i.op = "GET_ITER"
    BY DoesShape DEF Opcodes
<1>. HIDE DEF i
<1>2. p.op = "GET_ITER"
    BY <1>1, PlacedShape
<1>3. Allowed(p, Up(t, 1))
    <2>1. Needs(p) = 1 /\ 1 \in 0 .. 1 /\ "GET_ITER" \notin MayFail
        BY <1>2 DEF Needs, MayFail
    <2>. HIDE DEF p
    <2>. QED
        BY <1>2, <2>1, Allows
<1>4. Successors(p, b + 1, Up(t, 1)) = {To(b + 1 + 1, Iterating(t))}
    <2>1. Successors(p, b + 1, Up(t, 1)) =
              {To(b + 1 + 1, [Up(t, 1) EXCEPT !.iters = @ \cup {Up(t, 1).height}])}
        BY <1>2 DEF Successors
    <2>. QED
        BY <2>1, IteratorLeft
<1>5. b + 1 + 1 = b + 2 /\ Good(Up(t, 1))
    BY UpFacts
<1>6. Runs(<<i>>, b, lab, Up(t, 1), Iterating(t), Out)
    BY <1>1, <1>3, <1>4, <1>5, One
<1>. QED
    BY <1>1, <1>6 DEF i

LEMMA ForIterRuns ==
    ASSUME NEW b \in Nat, NEW lab, "break" \in DOMAIN lab, NEW t, Good(t), NEW Out,
           To(lab["break"], t) \in Out
    PROVE  /\ Branch("FOR_ITER", "break") \in Insns
           /\ Runs(<<Branch("FOR_ITER", "break")>>, b, lab, Iterating(t), Up(Iterating(t), 1), Out)
<1>. DEFINE i == Branch("FOR_ITER", "break")
            p == Placed(i, b + 1, lab)
            u == Iterating(t)
<1>1. i \in Insns /\ i.op = "FOR_ITER" /\ i.to.label = "break"
    BY BranchShape DEF Opcodes, Labels
<1>. HIDE DEF i
<1>2. p.op = "FOR_ITER" /\ p.to = lab["break"]
    BY <1>1, PlacedShape
<1>3. Good(u) /\ u.height \in u.iters /\ u.height >= 1
    <2>1. Good(u) /\ u.height = t.height + 1 /\ u.iters = t.iters \cup {t.height + 1} /\ t.height \in Nat
        BY IteratingFacts, UpFacts
    <2>. QED
        BY <2>1
<1>. HIDE DEF u
<1>4. Allowed(p, u)
    <2>1. Needs(p) = 1 /\ "FOR_ITER" \notin MayFail
        BY <1>2 DEF Needs, MayFail
    <2>. HIDE DEF p
    <2>. QED
        BY <1>2, <1>3, <2>1 DEF Allowed
<1>5. Successors(p, b + 1, u) = {To(b + 1 + 1, Up(u, 1)), To(lab["break"], t)}
    <2>1. Successors(p, b + 1, u) =
              {To(b + 1 + 1, Pushes(u)), To(p.to, [Pops(u, 1) EXCEPT !.iters = @ \ {u.height}])}
        BY <1>2 DEF Successors
    <2>2. Pushes(u) = Up(u, 1)
        BY <1>3, PopPush
    <2>3. [Pops(u, 1) EXCEPT !.iters = @ \ {u.height}] = t
        BY IteratorLeft DEF u
    <2>. QED
        BY <1>2, <2>1, <2>2, <2>3
<1>6. b + 1 + 1 = b + 2
    OBVIOUS
<1>7. Runs(<<i>>, b, lab, u, Up(u, 1), Out)
    BY <1>1, <1>3, <1>4, <1>5, <1>6, One
<1>. QED
    BY <1>1, <1>7 DEF i, u

----------------------------------------------------------------------------
(* Expressions.  The code of one leaves its value on top.                  *)

Evaluates(c) ==
    /\ c \in Seq(Insns)
    /\ \A b \in Nat : \A lab, t, Out :
        IsLabels(lab) /\ Fit(t, Out) => Runs(c, b, lab, t, Up(t, 1), Out)

(* The second piece is fine wherever it is placed.                         *)
LEMMA RunsOn ==
    ASSUME NEW c1 \in Seq(Insns), NEW c2 \in Seq(Insns), NEW b \in Nat, NEW lab, NEW t, NEW v, NEW u,
           NEW Out, Runs(c1, b, lab, t, v, Out), \A a \in Nat : Runs(c2, a, lab, v, u, Out)
    PROVE  c1 \o c2 \in Seq(Insns) /\ Runs(c1 \o c2, b, lab, t, u, Out)
<1>1. b + Len(c1) \in Nat /\ c1 \o c2 \in Seq(Insns)
    OBVIOUS
<1>. QED
    BY <1>1, RunsRuns

LEMMA Singles ==
    ASSUME NEW S, NEW x \in S, NEW y \in S
    PROVE  /\ <<x>> \in Seq(S) /\ <<x, y>> \in Seq(S) /\ <<x, y>> = <<x>> \o <<y>>
<1>1. <<x>> \in Seq(S) /\ <<x, y>> \in Seq(S)
    OBVIOUS
<1>2. <<x, y>> = <<x>> \o <<y>>
    <2>. DEFINE c == <<x>> \o <<y>>
                d == <<x, y>>
    <2>0. <<x>> \in Seq(S) /\ <<y>> \in Seq(S)
        OBVIOUS
    <2>1. c \in Seq(S) /\ d \in Seq(S) /\ Len(c) = 2 /\ Len(d) = 2
        BY <1>1, <2>0
    <2>2. c[1] = x /\ c[2] = y /\ d[1] = x /\ d[2] = y
        BY <1>1, <2>0
    <2>. HIDE DEF c, d
    <2>3. \A i \in 1 .. Len(d) : d[i] = c[i]
        BY <2>1, <2>2
    <2>4. d = c
        BY <2>1, <2>3, SeqEqual
    <2>. QED
        BY <2>4 DEF c, d
<1>. QED
    BY <1>1, <1>2

LEMMA Triple ==
    ASSUME NEW S, NEW x \in S, NEW y \in S, NEW z \in S
    PROVE  <<x, y, z>> = (<<x>> \o <<y>>) \o <<z>>
<1>1. <<x, y>> \in Seq(S) /\ <<x, y>> = <<x>> \o <<y>>
    BY Singles
<1>2. <<x, y, z>> = <<x, y>> \o <<z>>
    <2>. DEFINE c == <<x, y>> \o <<z>>
                d == <<x, y, z>>
    <2>0. <<z>> \in Seq(S) /\ d \in Seq(S)
        OBVIOUS
    <2>1. c \in Seq(S) /\ Len(c) = 3 /\ Len(d) = 3
        BY <1>1, <2>0
    <2>2. c[1] = x /\ c[2] = y /\ c[3] = z /\ d[1] = x /\ d[2] = y /\ d[3] = z
        BY <1>1, <2>0
    <2>. HIDE DEF c, d
    <2>3. \A i \in 1 .. Len(d) : d[i] = c[i]
        BY <2>1, <2>2
    <2>4. d = c
        BY <2>0, <2>1, <2>3, SeqEqual
    <2>. QED
        BY <2>4 DEF c, d
<1>. QED
    BY <1>1, <1>2

LEMMA Joined ==
    ASSUME NEW S, NEW x \in Seq(S), NEW y \in Seq(S)
    PROVE  x \o y \in Seq(S) /\ Len(x \o y) = Len(x) + Len(y)
BY ConcatProperties

LEMMA ClauseRuns ==
    ASSUME NEW c, c.named \in BOOLEAN, c.arg.at \in Seq(Nat), NEW expr, Evaluates(expr[c.arg]),
           NEW b \in Nat, NEW lab, IsLabels(lab), "fail" \in DOMAIN lab, NEW t, Good(t), NEW Out,
           To(lab["fail"], t) \in Out
    PROVE  Clause(c, expr) \in Seq(Insns) /\ Runs(Clause(c, expr), b, lab, t, t, Out)
<1>. DEFINE to == lab["fail"]
            guard == Branch("PUSH_HANDLER", "fail")
            free == Ins("POP_HANDLER")
            check == Branch("CLAUSE_CHECK", "fail")
            keep == IF c.named THEN Does("STORE", Binding(c), 1) ELSE Ins("POP")
            code == expr[c.arg]
<1>1. to \in Addresses
    BY DEF IsLabels
<1>2. guard \in Insns /\ \A a \in Nat : Runs(<<guard>>, a, lab, t, Guarded(t, to), Out)
    BY GuardRuns
<1>3. code \in Seq(Insns) /\ \A a \in Nat : Runs(code, a, lab, Guarded(t, to), Up(Guarded(t, to), 1), Out)
    <2>1. Fit(Guarded(t, to), Out)
        BY <1>1, GuardedFacts
    <2>. QED
        BY <2>1 DEF Evaluates
<1>4. free \in Insns /\ \A a \in Nat : Runs(<<free>>, a, lab, Up(Guarded(t, to), 1), Up(t, 1), Out)
    BY <1>1, UnguardRuns
<1>5. check \in Insns /\ \A a \in Nat : Runs(<<check>>, a, lab, Up(t, 1), Up(t, 1), Out)
    BY CheckRuns
<1>6. keep \in Insns /\ \A a \in Nat : Runs(<<keep>>, a, lab, Up(t, 1), t, Out)
    <2>1. CASE c.named
        <3>1. Binding(c) \in Seq(Nat)
            BY DEF Binding
        <3>2. /\ Does("STORE", Binding(c), 1) \in Insns /\ Does("STORE", Binding(c), 1).op = "STORE"
              /\ Does("STORE", Binding(c), 1).n = 1
            BY <3>1, DoesShape DEF Opcodes
        <3>. QED
            BY <2>1, <3>2, DropRuns
    <2>2. CASE ~ c.named
        <3>1. Ins("POP") \in Insns /\ Ins("POP").op = "POP"
            BY InsShape DEF Opcodes
        <3>. QED
            BY <2>2, <3>1, DropRuns
    <2>. QED
        BY <2>1, <2>2
<1>7. Clause(c, expr) = (((<<guard>> \o code) \o <<free>>) \o <<check>>) \o <<keep>>
    <2>1. Clause(c, expr) = <<guard>> \o code \o <<free, check, keep>>
        BY DEF Clause
    <2>. HIDE DEF guard, free, check, keep, code
    <2>0. free \in Insns /\ check \in Insns /\ keep \in Insns
        BY <1>4, <1>5, <1>6
    <2>2. <<free, check, keep>> = (<<free>> \o <<check>>) \o <<keep>>
        BY <2>0, Triple
    <2>3. /\ <<guard>> \o code \in Seq(Insns) /\ <<free>> \in Seq(Insns) /\ <<check>> \in Seq(Insns)
          /\ <<keep>> \in Seq(Insns) /\ <<free>> \o <<check>> \in Seq(Insns)
        BY <1>2, <1>3, <1>4, <1>5, <1>6
    <2>4. <<guard>> \o code \o (<<free>> \o <<check>> \o <<keep>>)
              = (<<guard>> \o code \o (<<free>> \o <<check>>)) \o <<keep>>
        BY <2>3, ConcatAssociative
    <2>5. <<guard>> \o code \o (<<free>> \o <<check>>) = <<guard>> \o code \o <<free>> \o <<check>>
        BY <2>3, ConcatAssociative
    <2>. QED
        BY <2>1, <2>2, <2>4, <2>5
<1>. HIDE DEF guard, free, check, keep, code, to
<1>8. <<guard>> \in Seq(Insns) /\ <<free>> \in Seq(Insns) /\ <<check>> \in Seq(Insns) /\ <<keep>> \in Seq(Insns)
    BY <1>2, <1>4, <1>5, <1>6
<1>9. <<guard>> \o code \in Seq(Insns) /\ Runs(<<guard>> \o code, b, lab, t, Up(Guarded(t, to), 1), Out)
    BY <1>2, <1>3, <1>8, RunsOn
<1>10. /\ (<<guard>> \o code) \o <<free>> \in Seq(Insns)
       /\ Runs((<<guard>> \o code) \o <<free>>, b, lab, t, Up(t, 1), Out)
    BY <1>4, <1>8, <1>9, RunsOn
<1>11. /\ ((<<guard>> \o code) \o <<free>>) \o <<check>> \in Seq(Insns)
       /\ Runs(((<<guard>> \o code) \o <<free>>) \o <<check>>, b, lab, t, Up(t, 1), Out)
    BY <1>5, <1>8, <1>10, RunsOn
<1>. DEFINE lead == ((<<guard>> \o code) \o <<free>>) \o <<check>>
<1>12. lead \o <<keep>> \in Seq(Insns) /\ Runs(lead \o <<keep>>, b, lab, t, t, Out)
    <2>1. lead \in Seq(Insns) /\ Runs(lead, b, lab, t, Up(t, 1), Out)
        BY <1>11
    <2>. HIDE DEF lead
    <2>. QED
        BY <1>6, <1>8, <2>1, RunsOn
<1>. QED
    BY <1>7, <1>12

LEMMA ClausesRun ==
    ASSUME NEW E, \A e \in E : e.at \in Seq(Nat), NEW cs \in Seq(ClausesOf(E)), NEW expr,
           \A x \in Tested(cs) : Evaluates(expr[x]),
           NEW b \in Nat, NEW lab, IsLabels(lab), "fail" \in DOMAIN lab, NEW t, Good(t), NEW Out,
           To(lab["fail"], t) \in Out
    PROVE  Clauses(cs, expr) \in Seq(Insns) /\ Runs(Clauses(cs, expr), b, lab, t, t, Out)
<1>. DEFINE q == [i \in DOMAIN cs |-> Clause(cs[i], expr)]
            tys == [k \in 0 .. Len(cs) |-> t]
<1>1. ASSUME NEW i \in DOMAIN cs, NEW a \in Nat
      PROVE  Clause(cs[i], expr) \in Seq(Insns) /\ Runs(Clause(cs[i], expr), a, lab, t, t, Out)
    <2>. DEFINE c == cs[i]
    <2>1. c \in ClausesOf(E)
        OBVIOUS
    <2>2. Evaluates(expr[c.arg])
        BY DEF Tested
    <2>. HIDE DEF c
    <2>3. c.named \in BOOLEAN /\ c.arg.at \in Seq(Nat)
        BY <2>1 DEF ClausesOf
    <2>4. Clause(c, expr) \in Seq(Insns) /\ Runs(Clause(c, expr), a, lab, t, t, Out)
        BY <2>2, <2>3, ClauseRuns
    <2>. QED
        BY <2>4 DEF c
<1>2. DOMAIN cs = 1 .. Len(cs) /\ Len(cs) \in Nat
    OBVIOUS
<1>3. q \in Seq(Seq(Insns)) /\ Len(q) = Len(cs)
    <2>1. \A i \in 1 .. Len(cs) : Clause(cs[i], expr) \in Seq(Insns)
        BY <1>1, <1>2
    <2>. QED
        BY <1>2, <2>1
<1>4. \A k \in 1 .. Len(q), a \in Nat : Runs(q[k], a, lab, tys[k - 1], tys[k], Out)
    <2>1. \A k \in 1 .. Len(cs) : q[k] = Clause(cs[k], expr) /\ tys[k - 1] = t /\ tys[k] = t
        BY <1>2
    <2>. HIDE DEF q, tys
    <2>. QED
        BY <1>1, <1>2, <1>3, <2>1
<1>5. tys[0] = t /\ tys[Len(q)] = t
    BY <1>2, <1>3
<1>6. Clauses(cs, expr) = FlattenSeq(q)
    BY DEF Clauses
<1>. HIDE DEF q, tys
<1>. QED
    BY <1>3, <1>4, <1>5, <1>6, RunsEach

(* Operands, one above the other.                                          *)
LEMMA ExprsRun ==
    ASSUME NEW E, NEW es \in Seq(E), NEW expr, \A x \in Elements(es) : Evaluates(expr[x]),
           NEW b \in Nat, NEW lab, IsLabels(lab), NEW t, NEW Out, Fit(t, Out)
    PROVE  Exprs(es, expr) \in Seq(Insns) /\ Runs(Exprs(es, expr), b, lab, t, Up(t, Len(es)), Out)
<1>. DEFINE q == [i \in DOMAIN es |-> expr[es[i]]]
            tys == [k \in 0 .. Len(es) |-> Up(t, k)]
<1>1. Good(t)
    BY DEF Fit
<1>2. DOMAIN es = 1 .. Len(es) /\ Len(es) \in Nat
    OBVIOUS
<1>3. \A i \in 1 .. Len(es) : Evaluates(expr[es[i]])
    BY <1>2 DEF Elements
<1>4. q \in Seq(Seq(Insns)) /\ Len(q) = Len(es)
    <2>1. \A i \in 1 .. Len(es) : expr[es[i]] \in Seq(Insns)
        BY <1>3 DEF Evaluates
    <2>. QED
        BY <1>2, <2>1
<1>5. ASSUME NEW k \in 1 .. Len(es), NEW a \in Nat
      PROVE  Runs(expr[es[k]], a, lab, Up(t, k - 1), Up(t, k), Out)
    <2>1. k - 1 \in Nat /\ k - 1 + 1 = k
        OBVIOUS
    <2>2. Fit(Up(t, k - 1), Out) /\ Good(Up(t, k - 1))
        BY <2>1, FitUp DEF Fit
    <2>3. Up(Up(t, k - 1), 1) = Up(t, k)
        <3>1. Pushes(Up(t, k - 1)) = Up(t, k)
            BY <1>1, <2>1, UpFacts
        <3>2. Pushes(Up(t, k - 1)) = Up(Up(t, k - 1), 1)
            BY <2>2, PopPush
        <3>. QED
            BY <3>1, <3>2
    <2>4. Runs(expr[es[k]], a, lab, Up(t, k - 1), Up(Up(t, k - 1), 1), Out)
        BY <1>3, <2>2 DEF Evaluates
    <2>. QED
        BY <2>3, <2>4
<1>6. \A k \in 1 .. Len(q), a \in Nat : Runs(q[k], a, lab, tys[k - 1], tys[k], Out)
    <2>1. \A k \in 1 .. Len(es) : q[k] = expr[es[k]] /\ tys[k - 1] = Up(t, k - 1) /\ tys[k] = Up(t, k)
        BY <1>2
    <2>. HIDE DEF q, tys
    <2>. QED
        BY <1>4, <1>5, <2>1
<1>7. tys[0] = t /\ tys[Len(q)] = Up(t, Len(es))
    <2>1. tys[0] = Up(t, 0) /\ tys[Len(q)] = Up(t, Len(es))
        BY <1>2, <1>4
    <2>. QED
        BY <1>1, <2>1, UpFacts
<1>8. Exprs(es, expr) = FlattenSeq(q)
    BY DEF Exprs
<1>. HIDE DEF q, tys
<1>. QED
    BY <1>4, <1>6, <1>7, <1>8, RunsEach

----------------------------------------------------------------------------
(* Branches.                                                               *)

(* The piece is fine under more labels, except for "fail", and more points.*)
Extends(l, lab) == \A x \in DOMAIN lab \ {"fail"} : x \in DOMAIN l /\ l[x] = lab[x]
Anywhere(c, lab, t, u, Out) ==
    \A a \in Nat : \A l, more : IsLabels(l) /\ Extends(l, lab) /\ Out \subseteq more => Runs(c, a, l, t, u, more)
Testing(c, t) ==
    \A a \in Nat : \A l, more :
        IsLabels(l) /\ "fail" \in DOMAIN l /\ To(l["fail"], t) \in more => Runs(c, a, l, t, t, more)

LEMMA ChoiceRuns ==
    ASSUME NEW clauses \in Seq(Insns), NEW then \in Seq(Insns), NEW else \in Seq(Insns),
           NEW b \in Nat, NEW lab, IsLabels(lab), NEW t, Good(t), NEW Out, NEW k \in Nat,
           Testing(clauses, Scoped(t, b + 1)),
           Anywhere(then, lab, Scoped(t, b + 1), Up(Scoped(t, b + 1), k), Out),
           Anywhere(else, lab, Scoped(t, b + 1), Up(Scoped(t, b + 1), k), Out)
    PROVE  /\ Choice(clauses, then, else) \in Seq(Insns)
           /\ Runs(Choice(clauses, then, else), b, lab, t, Up(t, k), Out)
<1>. DEFINE in == Ins("PUSH_SCOPE")
            out == Ins("POP_SCOPE")
            jump == Skip("JUMP", Len(else) + 2)
            lead == ((<<in>> \o clauses) \o then) \o <<out>>
            passed == <<in>> \o clauses \o then \o <<out, jump>>
            n == Len(passed)
            targets == [fail |-> n + 1]
            lab2 == Over(lab, targets, b)
            r == Resolve(passed, targets)
            failed == else \o <<out>>
            t1 == Scoped(t, b + 1)
            exit == To(b + n + Len(else) + 2, Up(t, k))
            more == Out \cup {To(b + n + 1, t1), exit}
<1>1. /\ Good(t1) /\ Good(Up(t1, k)) /\ Good(Up(t, k)) /\ Up(t1, k).env # <<>>
      /\ Up(t, k) = [Up(t1, k) EXCEPT !.env = Front(@)]
    <2>1. b + 1 \in Nat
        OBVIOUS
    <2>2. Good(t1)
        BY <2>1, ScopedFacts
    <2>3. Good(Up(t1, k)) /\ Good(Up(t, k))
        BY <2>2, UpFacts
    <2>. QED
        BY <2>1, <2>2, <2>3, ScopeLeft
<1>2. in \in Insns /\ \A l, points : Runs(<<in>>, b, l, t, t1, points)
    BY PushScopeRuns
<1>3. out \in Insns /\ \A a \in Nat : \A l, points : Runs(<<out>>, a, l, Up(t1, k), Up(t, k), points)
    <2>. HIDE DEF t1
    <2>. QED
        BY <1>1, PopScopeRuns
<1>4. jump \in Insns /\ jump.op = "JUMP" /\ jump.to = Further(Len(else) + 2)
    BY SkipShape DEF Opcodes
<1>. HIDE DEF in, out, jump
<1>5. <<in>> \in Seq(Insns) /\ <<out>> \in Seq(Insns) /\ <<jump>> \in Seq(Insns)
    BY <1>2, <1>3, <1>4
<1>6. lead \in Seq(Insns) /\ passed = lead \o <<jump>> /\ passed \in Seq(Insns) /\ n = Len(lead) + 1
      /\ Len(lead) \in Nat
    <2>1. <<out, jump>> = <<out>> \o <<jump>>
        BY <1>3, <1>4, Singles
    <2>2. <<in>> \o clauses \o then \in Seq(Insns)
        BY <1>5
    <2>3. passed = lead \o <<jump>>
        BY <1>5, <2>1, <2>2, ConcatAssociative
    <2>4. lead \in Seq(Insns)
        BY <1>5, <2>2
    <2>. HIDE DEF lead, passed
    <2>. QED
        BY <1>5, <2>3, <2>4
<1>. DEFINE L == {"fail"}
<1>7. L \in SUBSET (Labels \ {"none"}) /\ targets \in [L -> Nat \ {0}] /\ n \in Nat
    BY <1>6 DEF Labels
<1>8. IsLabels(lab2) /\ "fail" \in DOMAIN lab2 /\ lab2["fail"] = b + (n + 1) /\ Extends(lab2, lab)
    <2>1. IsLabels(lab2)
        <3>. HIDE DEF targets, L
        <3>. QED
            BY <1>7, OverLabels
    <2>2. "fail" \in DOMAIN lab2 /\ lab2["fail"] = b + (n + 1) /\ Extends(lab2, lab)
        BY DEF Over, Extends
    <2>. QED
        BY <2>1, <2>2
<1>9. Typed(passed, b, lab2, t, more)
    <2>0. b + 1 \in Nat /\ b + (n + 1) = b + n + 1
        BY <1>7
    <2>. HIDE DEF lab2, n, targets, passed
    <2>1. Runs(<<in>>, b, lab2, t, t1, more)
        BY <1>2
    <2>2. \A a \in Nat : Runs(clauses, a, lab2, t1, t1, more)
        BY <1>8, <2>0 DEF Testing
    <2>3. \A a \in Nat : Runs(then, a, lab2, t1, Up(t1, k), more)
        BY <1>8 DEF Anywhere
    <2>. HIDE DEF more, t1
    <2>4. <<in>> \o clauses \in Seq(Insns) /\ Runs(<<in>> \o clauses, b, lab2, t, t1, more)
        BY <1>5, <2>1, <2>2, RunsOn
    <2>5. /\ <<in>> \o clauses \o then \in Seq(Insns)
          /\ Runs(<<in>> \o clauses \o then, b, lab2, t, Up(t1, k), more)
        BY <2>3, <2>4, RunsOn
    <2>6. \A a \in Nat : Runs(<<out>>, a, lab2, Up(t1, k), Up(t, k), more)
        BY <1>3
    <2>7. Runs(lead, b, lab2, t, Up(t, k), more)
        BY <1>5, <2>5, <2>6, RunsOn
    <2>8. Typed(<<jump>>, b + Len(lead), lab2, Up(t, k), more)
        <3>. DEFINE pc == b + Len(lead) + 1
        <3>1. jump.to.label = "none" /\ jump.to.by = Len(else) + 2
            BY <1>4, FurtherTyped
        <3>2. Placed(jump, pc, lab2).to = pc + (Len(else) + 2)
            BY <1>4, <1>8, <3>1, PlacedShape DEF IsLabels
        <3>3. pc + (Len(else) + 2) = b + n + Len(else) + 2 /\ b + Len(lead) \in Nat
            <4>1. Len(else) \in Nat
                OBVIOUS
            <4>. HIDE DEF lead
            <4>. QED
                BY <1>6, <4>1
        <3>4. To(Placed(jump, pc, lab2).to, Up(t, k)) \in more
            BY <3>2, <3>3 DEF more
        <3>. QED
            BY <1>1, <1>4, <3>3, <3>4, JumpAway
    <2>. HIDE DEF lead
    <2>9. Typed(lead \o <<jump>>, b, lab2, t, more)
        BY <1>5, <1>6, <2>7, <2>8, RunsTyped
    <2>. QED
        BY <1>6, <2>9
<1>10. r \in Seq(Insns) /\ Len(r) = n /\ Typed(r, b, lab, t, more)
    <2>. HIDE DEF targets, L, passed, more
    <2>1. r \in Seq(Insns) /\ Len(r) = n
        BY <1>6, <1>7, ResolveFacts
    <2>. QED
        BY <1>6, <1>7, <1>9, <2>1, ResolveTyped
<1>11. /\ failed \in Seq(Insns) /\ failed # <<>> /\ Len(failed) = Len(else) + 1 /\ Len(else) \in Nat
       /\ Typed(failed, b + n, lab, t1, Out \cup {exit})
    <2>. HIDE DEF n
    <2>1. Extends(lab, lab) /\ b + n \in Nat
        BY <1>7 DEF Extends
    <2>2. Runs(else, b + n, lab, t1, Up(t1, k), Out)
        BY <2>1 DEF Anywhere
    <2>3. \A a \in Nat : Runs(<<out>>, a, lab, Up(t1, k), Up(t, k), Out)
        BY <1>3
    <2>4. failed \in Seq(Insns) /\ Runs(failed, b + n, lab, t1, Up(t, k), Out)
        <3>. HIDE DEF t1
        <3>. QED
            BY <1>5, <2>1, <2>2, <2>3, RunsOn
    <2>5. failed # <<>> /\ Len(failed) = Len(else) + 1 /\ Len(else) \in Nat
        BY <1>5
    <2>6. b + n + Len(failed) + 1 = b + n + Len(else) + 2
        BY <1>7, <2>5
    <2>. HIDE DEF failed, t1
    <2>. QED
        BY <2>4, <2>5, <2>6 DEF Runs
<1>12. Choice(clauses, then, else) = r \o failed
    <2>1. Choice(clauses, then, else) = r \o else \o <<out>>
        BY DEF Choice, in, out, jump
    <2>. HIDE DEF r
    <2>. QED
        BY <1>5, <1>10, <2>1, ConcatAssociative
<1>13. Typed(r \o failed, b, lab, t, Out \cup {exit})
    <2>1. \A u \in more \cup (Out \cup {exit}) :
            u \in Out \cup {exit} \/ u = To(b + 1, t) \/ u = To(b + n + 1, t1)
        OBVIOUS
    <2>. HIDE DEF r, failed, more, t1, n, exit
    <2>. QED
        BY <1>10, <1>11, <2>1, Join
<1>14. /\ r \o failed \in Seq(Insns) /\ r \o failed # <<>>
       /\ b + Len(r \o failed) + 1 = b + n + Len(else) + 2
    <2>. HIDE DEF r, failed, n
    <2>0. r \in Seq(Insns) /\ Len(r) = n /\ failed \in Seq(Insns) /\ Len(failed) = Len(else) + 1
        BY <1>10, <1>11
    <2>1. Len(r \o failed) = n + (Len(else) + 1) /\ r \o failed \in Seq(Insns)
        BY <2>0, Joined
    <2>2. b + Len(r \o failed) + 1 = b + n + Len(else) + 2 /\ Len(r \o failed) # 0
        BY <1>7, <1>11, <2>1
    <2>. QED
        BY <2>1, <2>2, EmptySeq
<1>. HIDE DEF r, failed, t1, n
<1>. QED
    BY <1>12, <1>13, <1>14 DEF Runs

----------------------------------------------------------------------------
(* Every expression leaves its value.                                      *)

LEMMA UpUp ==
    ASSUME NEW t, Good(t), NEW j \in Nat, NEW k \in Nat
    PROVE  Up(Up(t, j), k) = Up(t, j + k)
<1>. DEFINE type(x) == TypeOf(x, t.iters, t.env, t.handlers)
<1>1. t = type(t.height) /\ t.height \in Nat
    BY TypeParts
<1>2. \A x, m : Up(type(x), m) = type(x + m)
    BY UpMoves
<1>3. t.height + j + k = t.height + (j + k)
    BY <1>1
<1>. HIDE DEF type
<1>4. Up(t, j) = type(t.height + j) /\ Up(t, j + k) = type(t.height + (j + k))
    BY <1>1, <1>2
<1>. QED
    BY <1>2, <1>3, <1>4

LEMMA ShortRuns ==
    ASSUME NEW op \in {"JUMP_IF_FALSE", "JUMP_IF_TRUE"}, NEW left, NEW right,
           Evaluates(left), Evaluates(right)
    PROVE  Evaluates(ShortCircuit(op, left, right))
<1>. DEFINE skip == Skip(op, Len(right) + 2)
            pop == Ins("POP")
            lead == left \o <<skip>>
            whole == lead \o <<pop>> \o right
<1>1. left \in Seq(Insns) /\ right \in Seq(Insns)
    BY DEF Evaluates
<1>2. Len(left) \in Nat /\ Len(right) \in Nat
    BY <1>1
<1>3. skip \in Insns /\ skip.op = op /\ skip.to = Further(Len(right) + 2)
    BY <1>2, SkipShape DEF Opcodes
<1>4. pop \in Insns /\ pop.op = "POP"
    BY InsShape DEF Opcodes
<1>. HIDE DEF skip, pop
<1>5. <<skip>> \in Seq(Insns) /\ <<pop>> \in Seq(Insns) /\ lead \in Seq(Insns)
    BY <1>1, <1>3, <1>4
<1>6. ShortCircuit(op, left, right) = whole
    <2>1. <<skip, pop>> = <<skip>> \o <<pop>>
        BY <1>3, <1>4, Singles
    <2>2. ShortCircuit(op, left, right) = left \o <<skip, pop>> \o right
        BY DEF ShortCircuit, skip, pop
    <2>3. left \o (<<skip>> \o <<pop>>) = left \o <<skip>> \o <<pop>>
        BY <1>1, <1>5, ConcatAssociative
    <2>. QED
        BY <2>1, <2>2, <2>3
<1>7. Len(lead) = Len(left) + 1 /\ lead \o <<pop>> \in Seq(Insns) /\ whole \in Seq(Insns) /\ whole # <<>>
      /\ Len(whole) = Len(left) + Len(right) + 2
    <2>1. Len(lead) = Len(left) + 1
        BY <1>1, <1>5, ConcatProperties
    <2>. DEFINE dropped == lead \o <<pop>>
    <2>2. dropped \in Seq(Insns) /\ Len(dropped) = Len(left) + 2
        BY <1>2, <1>5, <2>1, ConcatProperties
    <2>. HIDE DEF dropped
    <2>3. dropped \o right \in Seq(Insns) /\ Len(dropped \o right) = Len(left) + 2 + Len(right)
        <3>1. dropped \o right \in Seq(Insns) /\ Len(dropped \o right) = Len(dropped) + Len(right)
            BY <1>1, <2>2, ConcatProperties
        <3>. QED
            BY <2>2, <3>1
    <2>4. Len(dropped \o right) = Len(left) + Len(right) + 2 /\ Len(dropped \o right) # 0
        BY <1>2, <2>3
    <2>. QED
        BY <2>1, <2>2, <2>3, <2>4, EmptySeq DEF dropped
<1>8. ASSUME NEW b \in Nat, NEW lab, NEW t, NEW Out, IsLabels(lab), Fit(t, Out)
      PROVE  Runs(whole, b, lab, t, Up(t, 1), Out)
    <2>. DEFINE exit == To(b + Len(whole) + 1, Up(t, 1))
                more == Out \cup {exit}
                pc == b + Len(left) + 1
    <2>1. Good(t) /\ Fit(t, more)
        BY <1>8, FitMore DEF Fit
    <2>2. Runs(left, b, lab, t, Up(t, 1), more)
        BY <1>8, <2>1 DEF Evaluates
    <2>3. Runs(<<skip>>, b + Len(left), lab, Up(t, 1), Up(t, 1), more)
        <3>1. skip.to.label \notin DOMAIN lab /\ skip.to.by = Len(right) + 2
            BY <1>2, <1>3, <1>8, FurtherTyped DEF IsLabels
        <3>2. Placed(skip, pc, lab).to = pc + (Len(right) + 2)
            BY <1>3, <3>1, PlacedShape
        <3>3. pc + (Len(right) + 2) = b + Len(whole) + 1 /\ b + Len(left) \in Nat
            BY <1>2, <1>7
        <3>4. To(Placed(skip, pc, lab).to, Up(t, 1)) \in more
            BY <3>2, <3>3
        <3>. HIDE DEF more
        <3>. QED
            BY <1>3, <2>1, <3>3, <3>4, JumpIfRuns
    <2>4. \A a \in Nat : Runs(<<pop>>, a, lab, Up(t, 1), t, more)
        BY <1>4, <2>1, DropRuns
    <2>5. \A a \in Nat : Runs(right, a, lab, t, Up(t, 1), more)
        BY <1>8, <2>1 DEF Evaluates
    <2>. HIDE DEF more, whole
    <2>6. Runs(lead, b, lab, t, Up(t, 1), more)
        BY <1>1, <1>5, <2>2, <2>3, RunsRuns
    <2>. HIDE DEF lead
    <2>7. lead \o <<pop>> \in Seq(Insns) /\ Runs(lead \o <<pop>>, b, lab, t, t, more)
        BY <1>5, <2>4, <2>6, RunsOn
    <2>8. Runs(whole, b, lab, t, Up(t, 1), more)
        <3>. DEFINE dropped == lead \o <<pop>>
        <3>. HIDE DEF dropped
        <3>1. dropped \in Seq(Insns) /\ Runs(dropped, b, lab, t, t, more)
            BY <2>7 DEF dropped
        <3>2. Runs(dropped \o right, b, lab, t, Up(t, 1), more)
            BY <1>1, <2>5, <3>1, RunsOn
        <3>. QED
            BY <3>2 DEF whole, dropped
    <2>9. more \cup {exit} = Out \cup {exit}
        BY DEF more
    <2>. QED
        BY <1>7, <2>8, <2>9 DEF Runs
<1>. QED
    BY <1>6, <1>7, <1>8 DEF Evaluates

LEMMA ChoiceEvaluates ==
    ASSUME NEW E, \A e \in E : e.at \in Seq(Nat), NEW cs \in Seq(ClausesOf(E)), NEW expr,
           \A x \in Tested(cs) : Evaluates(expr[x]), NEW then, NEW else, Evaluates(then), Evaluates(else)
    PROVE  Evaluates(Choice(Clauses(cs, expr), then, else))
<1>. DEFINE clauses == Clauses(cs, expr)
<1>1. \A t : Good(t) => Testing(clauses, t)
    BY ClausesRun DEF Testing
<1>2. clauses \in Seq(Insns)
    <2>. DEFINE t == EntryType(1)
                lab == [fail |-> 1]
                Out == {To(lab["fail"], t)}
    <2>1. Good(t)
        BY DEF Good, Types, EntryType, NewFrame, Globals
    <2>2. IsLabels(lab) /\ "fail" \in DOMAIN lab /\ To(lab["fail"], t) \in Out /\ 0 \in Nat
        BY DEF IsLabels, Addresses
    <2>. HIDE DEF t, lab, Out
    <2>. QED
        BY <2>1, <2>2, ClausesRun
<1>. HIDE DEF clauses
<1>3. ASSUME NEW b \in Nat, NEW lab, NEW t, NEW Out, IsLabels(lab), Fit(t, Out)
      PROVE  /\ Choice(clauses, then, else) \in Seq(Insns)
             /\ Runs(Choice(clauses, then, else), b, lab, t, Up(t, 1), Out)
    <2>. DEFINE t1 == Scoped(t, b + 1)
    <2>0. Good(t) /\ b + 1 \in Nat
        BY <1>3 DEF Fit
    <2>1. Good(t1) /\ Fit(t1, Out)
        BY <1>3, <2>0, ScopedFacts
    <2>. HIDE DEF t1
    <2>2. \A more : Out \subseteq more => Fit(t1, more)
        BY <2>1, FitMore
    <2>3. Anywhere(then, lab, t1, Up(t1, 1), Out) /\ Anywhere(else, lab, t1, Up(t1, 1), Out)
        BY <2>2 DEF Anywhere, Evaluates
    <2>4. Testing(clauses, t1)
        BY <1>1, <2>1
    <2>5. then \in Seq(Insns) /\ else \in Seq(Insns)
        BY DEF Evaluates
    <2>. QED
        BY <1>2, <1>3, <2>0, <2>3, <2>4, <2>5, ChoiceRuns DEF t1
<1>4. Choice(clauses, then, else) \in Seq(Insns)
    <2>. DEFINE t == EntryType(1)
                lab == <<>>
    <2>1. Fit(t, {}) /\ IsLabels(lab)
        BY DEF Fit, Good, Types, EntryType, NewFrame, Globals, Caught, IsLabels
    <2>. HIDE DEF t, lab
    <2>. QED
        BY <1>3, <2>1
<1>. QED
    BY <1>3, <1>4 DEF Evaluates, clauses

LEMMA OperationEvaluates ==
    ASSUME NEW E, NEW es \in Seq(E), NEW expr, \A x \in Elements(es) : Evaluates(expr[x]),
           NEW i \in Insns, i.op = "EVAL", i.n = Len(es)
    PROVE  Evaluates(Exprs(es, expr) \o <<i>>)
<1>. DEFINE args == Exprs(es, expr)
<1>1. \A b \in Nat : \A lab, t, Out : IsLabels(lab) /\ Fit(t, Out) =>
          args \in Seq(Insns) /\ Runs(args, b, lab, t, Up(t, Len(es)), Out)
    BY ExprsRun
<1>2. args \in Seq(Insns)
    <2>. DEFINE t == EntryType(1)
                lab == <<>>
    <2>1. Fit(t, {}) /\ IsLabels(lab) /\ 0 \in Nat
        BY DEF Fit, Good, Types, EntryType, NewFrame, Globals, Caught, IsLabels
    <2>. HIDE DEF t, lab, args
    <2>. QED
        BY <1>1, <2>1
<1>. HIDE DEF args
<1>3. <<i>> \in Seq(Insns) /\ args \o <<i>> \in Seq(Insns)
    BY <1>2
<1>4. ASSUME NEW b \in Nat, NEW lab, NEW t, NEW Out, IsLabels(lab), Fit(t, Out)
      PROVE  Runs(args \o <<i>>, b, lab, t, Up(t, 1), Out)
    <2>1. Runs(args, b, lab, t, Up(t, Len(es)), Out)
        BY <1>1, <1>4
    <2>2. \A a \in Nat : Runs(<<i>>, a, lab, Up(t, Len(es)), Up(t, 1), Out)
        <3>1. Len(es) \in Nat /\ Len(es) = i.n + (IF i.op = "CALL" THEN 1 ELSE 0)
            OBVIOUS
        <3>. QED
            BY <1>4, <3>1, ComputeRuns
    <2>. QED
        BY <1>2, <1>3, <2>1, <2>2, RunsOn
<1>. QED
    BY <1>3, <1>4 DEF Evaluates, args

LEMMA CallEvaluates ==
    ASSUME NEW E, NEW es \in Seq(E), NEW expr, \A x \in Elements(es) : Evaluates(expr[x]), NEW v \in Data,
           NEW i \in Insns, i.op = "CALL", i.n = Len(es)
    PROVE  Evaluates(LoadConst(v) \o Exprs(es, expr) \o <<i>>)
<1>. DEFINE args == Exprs(es, expr)
            fn == LoadConst(v)
            whole == fn \o args \o <<i>>
            n == Len(es)
<1>0. n \in Nat /\ n + 1 \in Nat
    OBVIOUS
<1>1. \A b \in Nat : \A lab, t, Out : IsLabels(lab) /\ Fit(t, Out) =>
          args \in Seq(Insns) /\ Runs(args, b, lab, t, Up(t, n), Out)
    BY ExprsRun
<1>2. args \in Seq(Insns) /\ fn \in Seq(Insns)
    <2>. DEFINE t == EntryType(1)
                lab == <<>>
    <2>1. Fit(t, {}) /\ IsLabels(lab) /\ 0 \in Nat /\ Good(t)
        BY DEF Fit, Good, Types, EntryType, NewFrame, Globals, Caught, IsLabels
    <2>. HIDE DEF t, lab, args
    <2>. QED
        BY <1>1, <2>1, LoadRuns
<1>3. <<i>> \in Seq(Insns) /\ fn \o args \in Seq(Insns) /\ whole \in Seq(Insns)
    <2>. HIDE DEF args, fn
    <2>1. fn \o args \in Seq(Insns) /\ <<i>> \in Seq(Insns)
        BY <1>2
    <2>. QED
        BY <2>1
<1>4. ASSUME NEW b \in Nat, NEW lab, NEW t, NEW Out, IsLabels(lab), Fit(t, Out)
      PROVE  Runs(whole, b, lab, t, Up(t, 1), Out)
    <2>0. Good(t) /\ Fit(Up(t, 1), Out)
        BY <1>4, FitUp DEF Fit
    <2>1. Runs(fn, b, lab, t, Up(t, 1), Out)
        BY <2>0, LoadRuns
    <2>2. Up(Up(t, 1), n) = Up(t, n + 1)
        <3>1. Up(Up(t, 1), n) = Up(t, 1 + n) /\ 1 + n = n + 1
            BY <1>0, <2>0, UpUp
        <3>. QED
            BY <3>1
    <2>3. \A a \in Nat : Runs(args, a, lab, Up(t, 1), Up(t, n + 1), Out)
        <3>. HIDE DEF n, args
        <3>. QED
            BY <1>1, <1>4, <2>0, <2>2
    <2>4. \A a \in Nat : Runs(<<i>>, a, lab, Up(t, n + 1), Up(t, 1), Out)
        <3>1. n + 1 = i.n + (IF i.op = "CALL" THEN 1 ELSE 0)
            OBVIOUS
        <3>. HIDE DEF n
        <3>. QED
            BY <1>0, <1>4, <3>1, ComputeRuns
    <2>. HIDE DEF args, fn, n
    <2>5. fn \o args \in Seq(Insns) /\ Runs(fn \o args, b, lab, t, Up(t, n + 1), Out)
        BY <1>2, <2>1, <2>3, RunsOn
    <2>6. Runs((fn \o args) \o <<i>>, b, lab, t, Up(t, 1), Out)
        <3>. DEFINE lead == fn \o args
        <3>. HIDE DEF lead
        <3>1. lead \in Seq(Insns) /\ Runs(lead, b, lab, t, Up(t, n + 1), Out)
            BY <2>5 DEF lead
        <3>2. Runs(lead \o <<i>>, b, lab, t, Up(t, 1), Out)
            BY <1>3, <2>4, <3>1, RunsOn
        <3>. QED
            BY <3>2 DEF lead
    <2>. QED
        BY <2>6 DEF whole
<1>. HIDE DEF whole
<1>5. Evaluates(whole)
    BY <1>3, <1>4 DEF Evaluates
<1>. QED
    BY <1>5 DEF whole, args, fn

LEMMA UnwrapEvaluates ==
    ASSUME NEW code, Evaluates(code)
    PROVE  Evaluates(code \o <<Ins("FAILABLE_UNWRAP")>>)
<1>. DEFINE i == Ins("FAILABLE_UNWRAP")
<1>1. code \in Seq(Insns) /\ i \in Insns
    BY InsShape DEF Evaluates, Opcodes
<1>2. \A a \in Nat : \A lab, t, Out : Fit(t, Out) => Runs(<<i>>, a, lab, Up(t, 1), Up(t, 1), Out)
    BY UnwrapRuns
<1>. HIDE DEF i
<1>3. <<i>> \in Seq(Insns) /\ code \o <<i>> \in Seq(Insns)
    BY <1>1
<1>4. ASSUME NEW b \in Nat, NEW lab, NEW t, NEW Out, IsLabels(lab), Fit(t, Out)
      PROVE  Runs(code \o <<i>>, b, lab, t, Up(t, 1), Out)
    <2>1. Runs(code, b, lab, t, Up(t, 1), Out)
        BY <1>4 DEF Evaluates
    <2>2. \A a \in Nat : Runs(<<i>>, a, lab, Up(t, 1), Up(t, 1), Out)
        BY <1>2, <1>4
    <2>. QED
        BY <1>1, <1>3, <2>1, <2>2, RunsOn
<1>5. Evaluates(code \o <<i>>)
    BY <1>3, <1>4 DEF Evaluates
<1>. QED
    BY <1>5 DEF i

LEMMA ExprEvaluates ==
    ASSUME NEW E, \A x \in E : x.at \in Seq(Nat), NEW expr, NEW e \in E, IsExpr(e, E, Data),
           \A x \in Parts(e) : Evaluates(expr[x])
    PROVE  Evaluates(Expr(e, expr))
<1>1. CASE e.kind = "op" /\ e.args \in Seq(E) /\ e.out \subseteq Data
    <2>. DEFINE i == [Does("EVAL", e.at, Len(e.args)) EXCEPT !.out = e.out]
    <2>1. i \in Insns /\ i.op = "EVAL" /\ i.n = Len(e.args)
        <3>1. e.at \in Seq(Nat) /\ Len(e.args) \in Nat /\ e.out \in SUBSET Data /\ "EVAL" \in Opcodes
            BY <1>1 DEF Opcodes
        <3>2. i = WithOut(Does("EVAL", e.at, Len(e.args)), e.out)
            BY DEF WithOut
        <3>. HIDE DEF i
        <3>. QED
            BY <3>1, <3>2, GivesShape
    <2>2. Expr(e, expr) = Exprs(e.args, expr) \o <<i>>
        BY <1>1 DEF Expr
    <2>3. Parts(e) = Elements(e.args)
        BY <1>1 DEF Parts
    <2>. HIDE DEF i
    <2>. QED
        BY <1>1, <2>1, <2>2, <2>3, OperationEvaluates
<1>2. CASE e.kind = "const" /\ e.v \in Data
    <2>1. Expr(e, expr) = LoadConst(e.v)
        BY <1>2 DEF Expr
    <2>2. LoadConst(e.v) \in Seq(Insns)
        <3>1. Good(EntryType(1)) /\ 0 \in Nat
            BY DEF Good, Types, EntryType, NewFrame, Globals
        <3>. QED
            BY <1>2, <3>1, LoadRuns
    <2>3. ASSUME NEW b \in Nat, NEW lab, NEW t, NEW Out, Fit(t, Out)
          PROVE  Runs(LoadConst(e.v), b, lab, t, Up(t, 1), Out)
        BY <1>2, <2>3, LoadRuns DEF Fit
    <2>. QED
        BY <2>1, <2>2, <2>3 DEF Evaluates
<1>3. CASE e.kind = "unwrap" /\ e.arg \in E
    <2>1. Expr(e, expr) = expr[e.arg] \o <<Ins("FAILABLE_UNWRAP")>>
        BY <1>3 DEF Expr
    <2>2. Evaluates(expr[e.arg])
        BY <1>3 DEF Parts
    <2>. QED
        BY <2>1, <2>2, UnwrapEvaluates
<1>4. CASE e.kind \in {"and", "or"} /\ e.left \in E /\ e.right \in E
    <2>1. /\ e.kind = "and" => Expr(e, expr) = ShortCircuit("JUMP_IF_FALSE", expr[e.left], expr[e.right])
          /\ e.kind = "or" => Expr(e, expr) = ShortCircuit("JUMP_IF_TRUE", expr[e.left], expr[e.right])
        BY <1>4 DEF Expr
    <2>2. Evaluates(expr[e.left]) /\ Evaluates(expr[e.right])
        BY <1>4 DEF Parts
    <2>. QED
        BY <1>4, <2>1, <2>2, ShortRuns
<1>5. CASE e.kind = "call" /\ e.fn \in Nat /\ e.args \in Seq(E)
    <2>. DEFINE i == Does("CALL", e.at, Len(e.args))
    <2>1. i \in Insns /\ i.op = "CALL" /\ i.n = Len(e.args)
        <3>1. e.at \in Seq(Nat) /\ Len(e.args) \in Nat /\ "CALL" \in Opcodes
            BY <1>5 DEF Opcodes
        <3>. QED
            BY <3>1, DoesShape
    <2>2. Expr(e, expr) = LoadConst(FunctionValue(e.fn)) \o Exprs(e.args, expr) \o <<i>>
        BY <1>5 DEF Expr
    <2>3. Parts(e) = Elements(e.args)
        BY <1>5 DEF Parts
    <2>4. FunctionValue(e.fn) \in Data
        BY <1>5 DEF FunctionValue, Data, Values, Kinds
    <2>. HIDE DEF i
    <2>. QED
        BY <1>5, <2>1, <2>2, <2>3, <2>4, CallEvaluates
<1>6. CASE e.kind = "ifexpr" /\ e.clauses \in Seq(ClausesOf(E)) /\ e.then \in E /\ e.else \in E
    <2>1. Expr(e, expr) = Choice(Clauses(e.clauses, expr), expr[e.then], expr[e.else])
        BY <1>6 DEF Expr
    <2>2. Parts(e) = Tested(e.clauses) \cup {e.then, e.else}
        BY <1>6 DEF Parts
    <2>. QED
        BY <1>6, <2>1, <2>2, ChoiceEvaluates
<1>. QED
    BY <1>1, <1>2, <1>3, <1>4, <1>5, <1>6 DEF IsExpr

LEMMA SubExprs ==
    ASSUME NEW E, NEW S, NEW depth, Trees(E, S, Data, depth), NEW e \in E
    PROVE  IsExpr(e, E, Data) /\ depth[e] \in Nat /\ \A x \in Parts(e) : x \in E /\ depth[x] < depth[e]
<1>1. IsExpr(e, E, Data) /\ depth[e] \in Nat /\ \A x \in Parts(e) : depth[x] < depth[e]
    BY DEF Trees
<1>2. \A es \in Seq(E) : Elements(es) \subseteq E
    BY DEF Elements
<1>3. \A cs \in Seq(ClausesOf(E)) : Tested(cs) \subseteq E
    <2>1. ASSUME NEW cs \in Seq(ClausesOf(E)), NEW i \in DOMAIN cs PROVE cs[i].arg \in E
        <3>1. cs[i] \in ClausesOf(E)
            OBVIOUS
        <3>. QED
            BY <3>1 DEF ClausesOf
    <2>. QED
        BY <2>1 DEF Tested
<1>4. Parts(e) \subseteq E
    BY <1>1, <1>2, <1>3 DEF IsExpr, Parts
<1>. QED
    BY <1>1, <1>4

LEMMA AllEvaluate ==
    ASSUME NEW E, NEW S, NEW depth, NEW expr, NEW stmt,
           Trees(E, S, Data, depth), CompiledBy(E, S, Contexts, expr, stmt)
    PROVE  \A e \in E : Evaluates(expr[e])
<1>. TAKE e \in E
<1>1. \A x \in E : IsExpr(x, E, Data) /\ x.at \in Seq(Nat) /\ depth[x] \in Nat
                   /\ (\A y \in Parts(x) : y \in E /\ depth[y] < depth[x])
    BY SubExprs DEF IsExpr
<1>. DEFINE n == depth[e] + 1
            P == {k \in 0 .. n : \A x \in E : depth[x] < k => Evaluates(expr[x])}
<1>2. n \in Nat /\ depth[e] < n
    BY <1>1
<1>3. 0 \in P
    BY <1>1, <1>2
<1>4. ASSUME NEW k \in 1 .. n, k - 1 \in P
      PROVE  k \in P
    <2>1. ASSUME NEW x \in E, depth[x] < k
          PROVE  Evaluates(expr[x])
        <3>1. \A y \in Parts(x) : y \in E /\ depth[y] < k - 1
            BY <1>1, <2>1
        <3>2. \A y \in Parts(x) : Evaluates(expr[y])
            BY <1>4, <3>1
        <3>3. Evaluates(Expr(x, expr))
            BY <1>1, <3>2, ExprEvaluates
        <3>. QED
            BY <3>3 DEF CompiledBy
    <2>. QED
        BY <2>1
<1>5. n \in P
    <2>1. P \in SUBSET (0 .. n)
        OBVIOUS
    <2>. HIDE DEF P, n
    <2>2. \A k \in 0 .. n : k \in P
        BY <1>2, <1>3, <1>4, <2>1, CountUp
    <2>. QED
        BY <1>2, <2>2
<1>. QED
    BY <1>2, <1>5

----------------------------------------------------------------------------
(* Statements.  What a statement opens it closes, and it leaves the        *)
(* operands as they are; break and continue lead out of as many scopes as  *)
(* the context counts.                                                     *)

Left(n, t) == [t EXCEPT !.env = SubSeq(@, 1, Len(@) - n)]
Inside(place, ctx, t, lab, Out) ==
    /\ ctx.outside <= ctx.scopes /\ ctx.scopes - ctx.outside <= Len(t.env)
    /\ \A x \in {"continue", "break"} : place = "loop" \/ (place = "for" /\ x = "continue") =>
           x \in DOMAIN lab /\ To(lab[x], Left(ctx.scopes - ctx.outside, t)) \in Out

Executes(c, place, ctx) ==
    /\ c \in Seq(Insns)
    /\ \A b \in Nat : \A lab, t, Out :
        IsLabels(lab) /\ Fit(t, Out) /\ Inside(place, ctx, t, lab, Out) => Runs(c, b, lab, t, t, Out)

LEMMA Cut ==
    ASSUME NEW env \in Seq(Nat), NEW m \in 0 .. Len(env)
    PROVE  /\ SubSeq(env, 1, m) \in Seq(Nat) /\ Len(SubSeq(env, 1, m)) = m
           /\ \A i \in 1 .. m : SubSeq(env, 1, m)[i] = env[i]
OBVIOUS

LEMMA CutAppend ==
    ASSUME NEW env \in Seq(Nat), NEW pc \in Nat, NEW n \in 0 .. Len(env)
    PROVE  SubSeq(Append(env, pc), 1, Len(Append(env, pc)) - (n + 1)) = SubSeq(env, 1, Len(env) - n)
<1>. DEFINE m == Len(env) - n
            longer == Append(env, pc)
<1>1. m \in 0 .. Len(env) /\ Len(longer) - (n + 1) = m /\ longer \in Seq(Nat) /\ m \in 0 .. Len(longer)
    OBVIOUS
<1>2. \A i \in 1 .. m : longer[i] = env[i]
    BY <1>1
<1>. HIDE DEF m, longer
<1>3. SubSeq(longer, 1, m) = SubSeq(env, 1, m)
    <2>. DEFINE x == SubSeq(longer, 1, m)
                y == SubSeq(env, 1, m)
    <2>1. x \in Seq(Nat) /\ y \in Seq(Nat) /\ Len(x) = m /\ Len(y) = m /\ \A i \in 1 .. m : x[i] = y[i]
        BY <1>1, <1>2, Cut
    <2>. HIDE DEF x, y
    <2>2. x = y
        BY <2>1, SeqEqual
    <2>. QED
        BY <2>2 DEF x, y
<1>. QED
    BY <1>1, <1>3 DEF m, longer

LEMMA LeftForm ==
    ASSUME NEW t, Good(t), NEW n
    PROVE  Left(n, t) = TypeOf(t.height, t.iters, SubSeq(t.env, 1, Len(t.env) - n), t.handlers)
<1>. DEFINE type(e) == TypeOf(t.height, t.iters, e, t.handlers)
<1>1. t = type(t.env)
    BY TypeParts
<1>2. \A e : Left(n, type(e)) = type(SubSeq(e, 1, Len(e) - n))
    <2>. TAKE e
    <2>1. type(e).env = e
        BY TypeFields
    <2>2. \A x : [type(e) EXCEPT !.env = x] = type(x)
        BY DEF TypeOf
    <2>. HIDE DEF type
    <2>. QED
        BY <2>1, <2>2 DEF Left
<1>. HIDE DEF type
<1>3. Left(n, t) = type(SubSeq(t.env, 1, Len(t.env) - n))
    BY <1>1, <1>2
<1>. QED
    BY <1>3 DEF type

LEMMA LeftFacts ==
    ASSUME NEW t, Good(t), NEW n \in 0 .. Len(t.env)
    PROVE  /\ Good(Left(n, t)) /\ Left(0, t) = t
           /\ n < Len(t.env) => /\ Left(n, t).env # <<>>
                                /\ Left(n + 1, t) = [Left(n, t) EXCEPT !.env = Front(@)]
<1>. DEFINE type(e) == TypeOf(t.height, t.iters, e, t.handlers)
            cut(k) == SubSeq(t.env, 1, Len(t.env) - k)
<1>1. /\ t = type(t.env)
      /\ t.height \in Nat /\ t.iters \in SUBSET Nat /\ t.env \in Seq(Nat)
      /\ t.handlers \in Seq(Handlers) /\ t.iters \subseteq 1 .. t.height
    BY TypeParts
<1>2. \A k : Left(k, t) = type(cut(k))
    BY LeftForm
<1>3. cut(n) \in Seq(Nat) /\ Len(cut(n)) = Len(t.env) - n /\ cut(0) = t.env
    <2>. DEFINE env == t.env
    <2>1. env \in Seq(Nat)
        BY <1>1
    <2>. HIDE DEF env
    <2>2. SubSeq(env, 1, Len(env) - 0) = env
        BY <2>1
    <2>3. n \in 0 .. Len(env)
        BY DEF env
    <2>4. SubSeq(env, 1, Len(env) - n) \in Seq(Nat) /\ Len(SubSeq(env, 1, Len(env) - n)) = Len(env) - n
        BY <2>1, <2>3
    <2>. QED
        BY <2>2, <2>4 DEF env
<1>4. n < Len(t.env) => cut(n) # <<>> /\ Front(cut(n)) = cut(n + 1)
    <2>. DEFINE env == t.env
                m == Len(env) - n
    <2>1. env \in Seq(Nat) /\ Len(env) \in Nat
        BY <1>1
    <2>2. n < Len(env) => m \in 1 .. Len(env) /\ Len(env) - (n + 1) = m - 1
        BY <2>1
    <2>3. ASSUME m \in 1 .. Len(env)
          PROVE  SubSeq(env, 1, m) # <<>> /\ Front(SubSeq(env, 1, m)) = SubSeq(env, 1, m - 1)
        <3>. HIDE DEF env, m
        <3>. DEFINE x == SubSeq(env, 1, m)
        <3>1. x \in Seq(Nat) /\ Len(x) = m /\ \A i \in 1 .. m : x[i] = env[i]
            BY <2>1, <2>3, Cut
        <3>. HIDE DEF x
        <3>2. Front(x) \in Seq(Nat) /\ Len(Front(x)) = m - 1 /\ \A i \in 1 .. m - 1 : Front(x)[i] = env[i]
            BY <2>3, <3>1 DEF Front
        <3>. DEFINE y == SubSeq(env, 1, m - 1)
                    z == Front(x)
        <3>3. y \in Seq(Nat) /\ Len(y) = m - 1 /\ \A i \in 1 .. m - 1 : y[i] = env[i]
            BY <2>1, <2>3, Cut
        <3>4. z = y
            <4>. HIDE DEF y, z
            <4>1. z \in Seq(Nat) /\ Len(z) = m - 1 /\ \A i \in 1 .. m - 1 : z[i] = env[i]
                BY <3>2 DEF z
            <4>. QED
                BY <3>3, <4>1, SeqEqual
        <3>5. x # <<>>
            BY <2>3, <3>1
        <3>. QED
            BY <3>4, <3>5 DEF x
    <2>. QED
        BY <2>2, <2>3
<1>5. Good(Left(n, t))
    <2>1. Good(type(cut(n)))
        BY <1>1, <1>3, TypeGood
    <2>. QED
        BY <1>2, <2>1
<1>. HIDE DEF cut
<1>6. \A e : type(e).env = e /\ [type(e) EXCEPT !.env = Front(@)] = type(Front(e))
    BY DEF TypeOf
<1>. HIDE DEF type
<1>7. Left(0, t) = t
    BY <1>1, <1>2, <1>3
<1>8. ASSUME n < Len(t.env)
      PROVE  Left(n, t).env # <<>> /\ Left(n + 1, t) = [Left(n, t) EXCEPT !.env = Front(@)]
    <2>1. Left(n, t) = type(cut(n)) /\ Left(n + 1, t) = type(cut(n + 1))
        BY <1>2
    <2>2. [type(cut(n)) EXCEPT !.env = Front(@)] = type(Front(cut(n)))
        BY <1>6
    <2>. QED
        BY <1>4, <1>6, <1>8, <2>1, <2>2
<1>. QED
    BY <1>5, <1>7, <1>8

LEMMA LeftScope ==
    ASSUME NEW t, Good(t), NEW pc \in Nat, NEW n \in 0 .. Len(t.env)
    PROVE  Left(n + 1, Scoped(t, pc)) = Left(n, t) /\ Len(Scoped(t, pc).env) = Len(t.env) + 1
<1>. DEFINE u == Scoped(t, pc)
<1>1. t = TypeOf(t.height, t.iters, t.env, t.handlers) /\ t.env \in Seq(Nat)
    BY TypeParts
<1>2. u = TypeOf(t.height, t.iters, Append(t.env, pc), t.handlers)
    BY <1>1, ScopeMoves
<1>3. Good(u)
    BY ScopedFacts
<1>4. u.height = t.height /\ u.iters = t.iters /\ u.env = Append(t.env, pc) /\ u.handlers = t.handlers
    <2>. HIDE DEF u
    <2>. DEFINE env == Append(t.env, pc)
    <2>. HIDE DEF env
    <2>1. u = TypeOf(t.height, t.iters, env, t.handlers)
        BY <1>2 DEF env
    <2>2. u.height = t.height /\ u.iters = t.iters /\ u.env = env /\ u.handlers = t.handlers
        BY <2>1, TypeFields
    <2>. QED
        BY <2>2 DEF env
<1>. HIDE DEF u
<1>5. SubSeq(u.env, 1, Len(u.env) - (n + 1)) = SubSeq(t.env, 1, Len(t.env) - n)
    BY <1>1, <1>4, CutAppend
<1>6. Left(n + 1, u) = Left(n, t)
    BY <1>3, <1>4, <1>5, LeftForm
<1>7. Len(u.env) = Len(t.env) + 1
    BY <1>1, <1>4
<1>. QED
    BY <1>6, <1>7 DEF u

LEMMA FlatTyped ==
    ASSUME NEW q \in Seq(Seq(Insns))
    PROVE  FlattenSeq(q) \in Seq(Insns)
<1>. DEFINE n == Len(q)
<1>1. n \in Nat /\ n \in 0 .. n /\ SubSeq(q, 1, n) = q
    OBVIOUS
<1>2. PICK g \in [0 .. n -> Seq(Insns)] : \A k \in 0 .. n : FlattenSeq(SubSeq(q, 1, k)) = g[k]
    BY FlattenProperties
<1>. HIDE DEF n
<1>. QED
    BY <1>1, <1>2

LEMMA StmtsExecute ==
    ASSUME NEW T, NEW ss \in Seq(T), NEW place, NEW ctx, NEW stmt,
           \A x \in Elements(ss) : Executes(stmt[<<x, ctx>>], place, ctx)
    PROVE  Executes(Stmts(ss, ctx, stmt), place, ctx)
<1>. DEFINE q == [i \in DOMAIN ss |-> stmt[<<ss[i], ctx>>]]
<1>1. DOMAIN ss = 1 .. Len(ss) /\ Len(ss) \in Nat
    OBVIOUS
<1>2. \A i \in 1 .. Len(ss) : Executes(stmt[<<ss[i], ctx>>], place, ctx)
    BY <1>1 DEF Elements
<1>3. q \in Seq(Seq(Insns)) /\ Len(q) = Len(ss) /\ \A i \in 1 .. Len(q) : q[i] = stmt[<<ss[i], ctx>>]
    <2>1. \A i \in 1 .. Len(ss) : stmt[<<ss[i], ctx>>] \in Seq(Insns)
        BY <1>2 DEF Executes
    <2>. QED
        BY <1>1, <2>1
<1>4. Stmts(ss, ctx, stmt) = FlattenSeq(q)
    BY DEF Stmts
<1>. HIDE DEF q
<1>5. ASSUME NEW b \in Nat, NEW lab, NEW t, NEW Out,
             IsLabels(lab), Fit(t, Out), Inside(place, ctx, t, lab, Out)
      PROVE  Runs(FlattenSeq(q), b, lab, t, t, Out)
    <2>. DEFINE tys == [k \in 0 .. Len(ss) |-> t]
    <2>1. \A k \in 1 .. Len(q), a \in Nat : Runs(q[k], a, lab, t, t, Out)
        BY <1>2, <1>3, <1>5 DEF Executes
    <2>2. \A k \in 1 .. Len(q) : tys[k - 1] = t /\ tys[k] = t
        BY <1>1, <1>3
    <2>3. tys[0] = t /\ tys[Len(q)] = t
        BY <1>1, <1>3
    <2>. HIDE DEF tys
    <2>4. \A k \in 1 .. Len(q), a \in Nat : Runs(q[k], a, lab, tys[k - 1], tys[k], Out)
        BY <2>1, <2>2
    <2>. QED
        BY <1>3, <2>3, <2>4, RunsEach
<1>. QED
    BY <1>3, <1>4, <1>5, FlatTyped DEF Executes

LEMMA ContextFacts ==
    ASSUME NEW ctx \in Contexts
    PROVE  /\ InScope(ctx) \in Contexts /\ InScope(ctx).scopes = ctx.scopes + 1
           /\ InScope(ctx).outside = ctx.outside
           /\ InLoop(ctx) \in Contexts /\ InLoop(ctx).scopes = ctx.scopes /\ InLoop(ctx).outside = ctx.scopes
           /\ ctx.scopes \in Nat /\ ctx.outside \in Nat
BY DEF Contexts, InScope, InLoop

LEMMA InsideScope ==
    ASSUME NEW place, NEW ctx \in Contexts, NEW t, Good(t), NEW pc \in Nat, NEW lab, NEW Out,
           Inside(place, ctx, t, lab, Out), NEW l, NEW more, Extends(l, lab), Out \subseteq more
    PROVE  Inside(place, InScope(ctx), Scoped(t, pc), l, more)
<1>. DEFINE n == ctx.scopes - ctx.outside
            inner == InScope(ctx)
            u == Scoped(t, pc)
<1>1. /\ inner.scopes = ctx.scopes + 1 /\ inner.outside = ctx.outside
      /\ ctx.scopes \in Nat /\ ctx.outside \in Nat
    BY ContextFacts
<1>2. ctx.outside <= ctx.scopes /\ n <= Len(t.env) /\ Len(t.env) \in Nat
    BY TypeParts DEF Inside
<1>3. n \in 0 .. Len(t.env) /\ inner.scopes - inner.outside = n + 1 /\ inner.outside <= inner.scopes
    BY <1>1, <1>2
<1>4. Left(n + 1, u) = Left(n, t) /\ Len(u.env) = Len(t.env) + 1
    BY <1>3, LeftScope
<1>5. inner.scopes - inner.outside <= Len(u.env)
    BY <1>2, <1>3, <1>4
<1>. HIDE DEF inner, u
<1>6. ASSUME NEW x \in {"continue", "break"}, place = "loop" \/ (place = "for" /\ x = "continue")
      PROVE  x \in DOMAIN l /\ To(l[x], Left(inner.scopes - inner.outside, u)) \in more
    <2>1. x \in DOMAIN lab /\ To(lab[x], Left(n, t)) \in Out
        BY <1>6 DEF Inside
    <2>2. x \in DOMAIN l /\ l[x] = lab[x]
        BY <2>1 DEF Extends
    <2>. QED
        BY <1>3, <1>4, <2>1, <2>2
<1>. QED
    BY <1>3, <1>5, <1>6 DEF Inside, inner, u

(* _unwind_scopes.                                                         *)
LEMMA UnwindTyped ==
    ASSUME NEW ctx \in Contexts
    PROVE  Unwind(ctx) \in Seq(Insns)
<1>. DEFINE n == ctx.scopes - ctx.outside
            pop == Ins("POP_SCOPE")
<1>1. n \in Int
    BY ContextFacts
<1>2. pop \in Insns
    BY InsShape DEF Opcodes
<1>3. Unwind(ctx) = [i \in 1 .. n |-> pop]
    BY DEF Unwind
<1>. HIDE DEF n, pop
<1>4. CASE n \in Nat
    BY <1>2, <1>3, <1>4
<1>5. CASE n \notin Nat
    <2>1. 1 .. n = {}
        BY <1>1, <1>5
    <2>2. [i \in 1 .. n |-> pop] = <<>> /\ <<>> \in Seq(Insns)
        BY <2>1
    <2>. QED
        BY <1>3, <2>2, Zenon
<1>. QED
    BY <1>4, <1>5

LEMMA UnwindRuns ==
    ASSUME NEW ctx \in Contexts, NEW t, Good(t), NEW b \in Nat, NEW lab, NEW Out,
           ctx.outside <= ctx.scopes, ctx.scopes - ctx.outside <= Len(t.env)
    PROVE  Runs(Unwind(ctx), b, lab, t, Left(ctx.scopes - ctx.outside, t), Out)
<1>. DEFINE n == ctx.scopes - ctx.outside
            pop == Ins("POP_SCOPE")
            pops(k) == [i \in 1 .. k |-> pop]
            P == {k \in 0 .. n : Runs(pops(k), b, lab, t, Left(k, t), Out)}
<1>1. n \in Nat /\ Len(t.env) \in Nat
    <2>1. ctx.scopes \in Nat /\ ctx.outside \in Nat
        BY ContextFacts
    <2>2. Len(t.env) \in Nat
        BY TypeParts
    <2>. QED
        BY <2>1, <2>2
<1>2. \A k \in 0 .. n : k \in 0 .. Len(t.env)
    BY <1>1
<1>3. pop \in Insns
    BY InsShape DEF Opcodes
<1>4. ASSUME NEW u, NEW v, Good(u), u.env # <<>>, v = [u EXCEPT !.env = Front(@)], NEW a \in Nat
      PROVE  Runs(<<pop>>, a, lab, u, v, Out)
    BY <1>4, PopScopeRuns
<1>. HIDE DEF n, pop
<1>5. 0 \in P
    <2>1. pops(0) = <<>> /\ 0 \in 0 .. n
        BY <1>1
    <2>2. Left(0, t) = t
        BY <1>2, <2>1, LeftFacts
    <2>. QED
        BY <2>1, <2>2 DEF Runs
<1>6. ASSUME NEW k \in 1 .. n, k - 1 \in P
      PROVE  k \in P
    <2>. DEFINE j == k - 1
    <2>1. j \in 0 .. n /\ j < n /\ j \in 0 .. Len(t.env) /\ j < Len(t.env) /\ j + 1 = k
        <3>1. n <= Len(t.env)
            BY DEF n
        <3>. QED
            BY <1>1, <3>1
    <2>. DEFINE x == pops(j)
                y == pops(k)
    <2>2. x \in Seq(Insns) /\ y = x \o <<pop>> /\ <<pop>> \in Seq(Insns)
        <3>1. j \in Nat /\ k \in Nat /\ k = j + 1
            BY <1>1, <2>1
        <3>2. x \in Seq(Insns) /\ Len(x) = j /\ \A i \in 1 .. j : x[i] = pop
            BY <1>3, <3>1
        <3>3. y \in Seq(Insns) /\ Len(y) = k /\ \A i \in 1 .. k : y[i] = pop
            BY <1>3, <3>1
        <3>. HIDE DEF x, y, j
        <3>4. <<pop>> \in Seq(Insns) /\ Len(<<pop>>) = 1 /\ <<pop>>[1] = pop
            BY <1>3
        <3>. DEFINE z == x \o <<pop>>
        <3>5. z \in Seq(Insns) /\ Len(z) = k
            BY <3>1, <3>2, <3>4, ConcatProperties
        <3>6. \A i \in 1 .. k : z[i] = pop
            BY <3>1, <3>2, <3>4
        <3>. HIDE DEF z
        <3>7. y = z
            BY <3>3, <3>5, <3>6, SeqEqual
        <3>. QED
            BY <3>2, <3>4, <3>7 DEF z
    <2>3. Good(Left(j, t)) /\ Left(j, t).env # <<>> /\ Left(j + 1, t) = [Left(j, t) EXCEPT !.env = Front(@)]
        <3>. HIDE DEF j
        <3>. QED
            BY <2>1, LeftFacts
    <2>4. Runs(x, b, lab, t, Left(j, t), Out)
        BY <1>6
    <2>5. \A a \in Nat : Runs(<<pop>>, a, lab, Left(j, t), Left(j + 1, t), Out)
        <3>. HIDE DEF j
        <3>. QED
            BY <1>4, <2>3
    <2>. HIDE DEF x, j
    <2>6. Runs(x \o <<pop>>, b, lab, t, Left(j + 1, t), Out)
        BY <2>2, <2>4, <2>5, RunsOn
    <2>7. Runs(y, b, lab, t, Left(k, t), Out)
        BY <2>1, <2>2, <2>6
    <2>. QED
        BY <2>7
<1>7. n \in P
    <2>1. P \in SUBSET (0 .. n)
        OBVIOUS
    <2>. HIDE DEF P
    <2>2. \A k \in 0 .. n : k \in P
        BY <1>1, <1>5, <1>6, <2>1, CountUp
    <2>. QED
        BY <1>1, <2>2
<1>. QED
    BY <1>7 DEF Unwind, n, pop

(* break and continue.                                                     *)
LEMMA LeaveExecutes ==
    ASSUME NEW ctx \in Contexts, NEW place, NEW kind \in {"continue", "break"},
           place = "loop" \/ (place = "for" /\ kind = "continue")
    PROVE  Executes(Unwind(ctx) \o <<Branch("JUMP", kind)>>, place, ctx)
<1>. DEFINE jump == Branch("JUMP", kind)
            unwind == Unwind(ctx)
            n == ctx.scopes - ctx.outside
<1>1. jump \in Insns /\ jump.op = "JUMP" /\ jump.to.label = kind
    BY BranchShape DEF Opcodes, Labels
<1>2. unwind \in Seq(Insns)
    BY UnwindTyped
<1>. HIDE DEF jump
<1>3. <<jump>> \in Seq(Insns)
    BY <1>1
<1>4. ASSUME NEW b \in Nat, NEW lab, NEW t, NEW Out,
             IsLabels(lab), Fit(t, Out), Inside(place, ctx, t, lab, Out)
      PROVE  Runs(unwind \o <<jump>>, b, lab, t, t, Out)
    <2>0. Good(t) /\ ctx.outside <= ctx.scopes /\ n <= Len(t.env)
        BY <1>4 DEF Fit, Inside
    <2>1. Runs(unwind, b, lab, t, Left(n, t), Out)
        BY <2>0, UnwindRuns
    <2>2. Good(Left(n, t))
        <3>1. n \in 0 .. Len(t.env)
            <4>1. ctx.scopes \in Nat /\ ctx.outside \in Nat /\ Len(t.env) \in Nat
                BY <2>0, ContextFacts, TypeParts
            <4>. QED
                BY <2>0, <4>1
        <3>. QED
            BY <2>0, <3>1, LeftFacts
    <2>3. kind \in DOMAIN lab /\ To(lab[kind], Left(n, t)) \in Out
        BY <1>4 DEF Inside
    <2>. HIDE DEF unwind, n
    <2>4. Typed(<<jump>>, b + Len(unwind), lab, Left(n, t), Out)
        <3>. DEFINE a == b + Len(unwind)
        <3>1. a \in Nat
            BY <1>2
        <3>. HIDE DEF a
        <3>2. Placed(jump, a + 1, lab).to = lab[kind]
            BY <1>1, <2>3, PlacedShape
        <3>3. Typed(<<jump>>, a, lab, Left(n, t), Out)
            BY <1>1, <2>2, <2>3, <3>1, <3>2, JumpAway
        <3>. QED
            BY <3>3 DEF a
    <2>5. Typed(unwind \o <<jump>>, b, lab, t, Out)
        BY <1>2, <1>3, <2>1, <2>4, RunsTyped
    <2>6. unwind \o <<jump>> # <<>>
        BY <1>2, <1>3
    <2>. QED
        BY <2>5, <2>6, Weaken DEF Runs
<1>5. unwind \o <<jump>> \in Seq(Insns)
    BY <1>2, <1>3
<1>. QED
    BY <1>4, <1>5 DEF Executes, jump

(* An expression or a store as a statement, and a return.                  *)
LEMMA ExprStmtExecutes ==
    ASSUME NEW code, Evaluates(code), NEW op \in {"POP", "POP_CHECKED"}, NEW place, NEW ctx
    PROVE  Executes(code \o <<Ins(op)>>, place, ctx)
<1>. DEFINE i == Ins(op)
<1>1. code \in Seq(Insns) /\ i \in Insns /\ i.op = op
    BY InsShape DEF Evaluates, Opcodes
<1>. HIDE DEF i
<1>2. <<i>> \in Seq(Insns) /\ code \o <<i>> \in Seq(Insns)
    BY <1>1
<1>3. ASSUME NEW b \in Nat, NEW lab, NEW t, NEW Out, IsLabels(lab), Fit(t, Out)
      PROVE  Runs(code \o <<i>>, b, lab, t, t, Out)
    <2>1. Good(t)
        BY <1>3 DEF Fit
    <2>2. Runs(code, b, lab, t, Up(t, 1), Out)
        BY <1>3 DEF Evaluates
    <2>3. \A a \in Nat : Runs(<<i>>, a, lab, Up(t, 1), t, Out)
        BY <1>1, <1>3, <2>1, DropRuns
    <2>. QED
        BY <1>1, <1>2, <2>2, <2>3, RunsOn
<1>4. Executes(code \o <<i>>, place, ctx)
    BY <1>2, <1>3 DEF Executes
<1>. QED
    BY <1>4 DEF i

LEMMA StoreExecutes ==
    ASSUME NEW E, NEW es \in Seq(E), NEW expr, \A x \in Elements(es) : Evaluates(expr[x]),
           NEW at \in Seq(Nat), NEW place, NEW ctx
    PROVE  Executes(Exprs(es, expr) \o <<Does("STORE", at, Len(es))>>, place, ctx)
<1>. DEFINE i == Does("STORE", at, Len(es))
            args == Exprs(es, expr)
            n == Len(es)
<1>0. n \in Nat
    OBVIOUS
<1>1. i \in Insns /\ i.op = "STORE" /\ i.n = n
    BY <1>0, DoesShape DEF Opcodes
<1>2. args \in Seq(Insns)
    <2>. DEFINE t == EntryType(1)
                lab == <<>>
    <2>1. Fit(t, {}) /\ IsLabels(lab) /\ 0 \in Nat
        BY DEF Fit, Good, Types, EntryType, NewFrame, Globals, Caught, IsLabels
    <2>. HIDE DEF t, lab, args
    <2>. QED
        BY <2>1, ExprsRun DEF args
<1>. HIDE DEF i
<1>3. <<i>> \in Seq(Insns) /\ args \o <<i>> \in Seq(Insns)
    BY <1>1, <1>2
<1>4. ASSUME NEW b \in Nat, NEW lab, NEW t, NEW Out, IsLabels(lab), Fit(t, Out)
      PROVE  Runs(args \o <<i>>, b, lab, t, t, Out)
    <2>1. Good(t)
        BY <1>4 DEF Fit
    <2>2. Runs(args, b, lab, t, Up(t, n), Out)
        BY <1>4, ExprsRun
    <2>. HIDE DEF args, n
    <2>3. \A a \in Nat : Runs(<<i>>, a, lab, Up(t, n), t, Out)
        BY <1>0, <1>1, <2>1, DropRuns
    <2>. QED
        BY <1>2, <1>3, <2>2, <2>3, RunsOn
<1>. HIDE DEF args
<1>5. Executes(args \o <<i>>, place, ctx)
    BY <1>3, <1>4 DEF Executes
<1>. QED
    BY <1>5 DEF i, args

LEMMA ReturnExecutes ==
    ASSUME NEW code, Evaluates(code)
    PROVE  /\ code \o <<Ins("RETURN")>> \in Seq(Insns) /\ code \o <<Ins("RETURN")>> # <<>>
           /\ \A b \in Nat : \A lab, t, Out :
                IsLabels(lab) /\ Fit(t, Out) => Typed(code \o <<Ins("RETURN")>>, b, lab, t, Out)
           /\ \A place, ctx : Executes(code \o <<Ins("RETURN")>>, place, ctx)
<1>. DEFINE i == Ins("RETURN")
            whole == code \o <<i>>
<1>1. code \in Seq(Insns) /\ i \in Insns
    BY InsShape DEF Evaluates, Opcodes
<1>2. \A a \in Nat : \A lab, t, Out : Good(t) => Typed(<<i>>, a, lab, Up(t, 1), Out)
    BY ReturnAway
<1>. HIDE DEF i
<1>3. <<i>> \in Seq(Insns) /\ whole \in Seq(Insns) /\ whole # <<>>
    BY <1>1
<1>4. ASSUME NEW b \in Nat, NEW lab, NEW t, NEW Out, IsLabels(lab), Fit(t, Out)
      PROVE  Typed(whole, b, lab, t, Out)
    <2>1. Good(t)
        BY <1>4 DEF Fit
    <2>2. Runs(code, b, lab, t, Up(t, 1), Out)
        BY <1>4 DEF Evaluates
    <2>3. b + Len(code) \in Nat
        BY <1>1
    <2>4. Typed(<<i>>, b + Len(code), lab, Up(t, 1), Out)
        BY <1>2, <2>1, <2>3
    <2>. QED
        BY <1>1, <1>3, <2>2, <2>4, RunsTyped
<1>. HIDE DEF whole
<1>5. ASSUME NEW b \in Nat, NEW lab, NEW t, NEW Out, IsLabels(lab), Fit(t, Out)
      PROVE  Runs(whole, b, lab, t, t, Out)
    BY <1>3, <1>4, <1>5, Weaken DEF Runs
<1>6. \A place, ctx : Executes(whole, place, ctx)
    BY <1>3, <1>5 DEF Executes
<1>. QED
    BY <1>3, <1>4, <1>6 DEF whole, i

LEMMA ClausesTesting ==
    ASSUME NEW E, \A e \in E : e.at \in Seq(Nat), NEW cs \in Seq(ClausesOf(E)), NEW expr,
           \A x \in Tested(cs) : Evaluates(expr[x])
    PROVE  /\ Clauses(cs, expr) \in Seq(Insns)
           /\ \A t : Good(t) => Testing(Clauses(cs, expr), t)
<1>1. \A t : Good(t) => Testing(Clauses(cs, expr), t)
    BY ClausesRun DEF Testing
<1>2. Clauses(cs, expr) \in Seq(Insns)
    <2>. DEFINE t == EntryType(1)
                lab == [fail |-> 1]
                Out == {To(lab["fail"], t)}
    <2>1. Good(t)
        BY DEF Good, Types, EntryType, NewFrame, Globals
    <2>2. IsLabels(lab) /\ "fail" \in DOMAIN lab /\ To(lab["fail"], t) \in Out /\ 0 \in Nat
        BY DEF IsLabels, Addresses
    <2>. HIDE DEF t, lab, Out
    <2>. QED
        BY <2>1, <2>2, ClausesRun
<1>. QED
    BY <1>1, <1>2

LEMMA IfExecutes ==
    ASSUME NEW clauses \in Seq(Insns), \A t : Good(t) => Testing(clauses, t), NEW then, NEW else,
           NEW place, NEW ctx \in Contexts, Executes(then, place, InScope(ctx)), Executes(else, place, InScope(ctx))
    PROVE  Executes(Choice(clauses, then, else), place, ctx)
<1>1. then \in Seq(Insns) /\ else \in Seq(Insns)
    BY DEF Executes
<1>2. ASSUME NEW b \in Nat, NEW lab, NEW t, NEW Out,
             IsLabels(lab), Fit(t, Out), Inside(place, ctx, t, lab, Out)
      PROVE  Runs(Choice(clauses, then, else), b, lab, t, t, Out)
    <2>. DEFINE t1 == Scoped(t, b + 1)
    <2>0. Good(t) /\ b + 1 \in Nat
        BY <1>2 DEF Fit
    <2>1. Good(t1) /\ Fit(t1, Out) /\ Up(t1, 0) = t1 /\ Up(t, 0) = t
        BY <1>2, <2>0, ScopedFacts, UpFacts
    <2>2. ASSUME NEW l, NEW more, Extends(l, lab), Out \subseteq more
          PROVE  Fit(t1, more) /\ Inside(place, InScope(ctx), t1, l, more)
        <3>1. Inside(place, InScope(ctx), t1, l, more)
            BY <1>2, <2>0, <2>2, InsideScope
        <3>. HIDE DEF t1
        <3>. QED
            BY <2>1, <2>2, <3>1, FitMore
    <2>. HIDE DEF t1
    <2>3. Anywhere(then, lab, t1, Up(t1, 0), Out) /\ Anywhere(else, lab, t1, Up(t1, 0), Out)
        BY <2>1, <2>2 DEF Anywhere, Executes
    <2>4. Testing(clauses, t1)
        BY <2>1
    <2>5. Runs(Choice(clauses, then, else), b, lab, t, Up(t, 0), Out)
        BY <1>1, <1>2, <2>0, <2>3, <2>4, ChoiceRuns DEF t1
    <2>. QED
        BY <2>1, <2>5
<1>3. Choice(clauses, then, else) \in Seq(Insns)
    <2>. DEFINE in == Ins("PUSH_SCOPE")
                out == Ins("POP_SCOPE")
                jump == Skip("JUMP", Len(else) + 2)
                passed == <<in>> \o clauses \o then \o <<out, jump>>
                targets == [fail |-> Len(passed) + 1]
                L == {"fail"}
    <2>1. in \in Insns /\ out \in Insns /\ jump \in Insns
        BY <1>1, InsShape, SkipShape DEF Opcodes
    <2>. HIDE DEF in, out, jump
    <2>2. passed \in Seq(Insns) /\ <<out>> \in Seq(Insns)
        BY <1>1, <2>1
    <2>3. L \in SUBSET (Labels \ {"none"}) /\ targets \in [L -> Nat \ {0}]
        <3>. HIDE DEF passed
        <3>. QED
            BY <2>2 DEF Labels
    <2>. DEFINE r == Resolve(passed, targets)
    <2>4. r \in Seq(Insns)
        <3>. HIDE DEF passed, targets, L
        <3>. QED
            BY <2>2, <2>3, ResolveFacts
    <2>5. Choice(clauses, then, else) = r \o else \o <<out>>
        BY DEF Choice, in, out, jump
    <2>. HIDE DEF r
    <2>. QED
        BY <1>1, <2>2, <2>4, <2>5
<1>. QED
    BY <1>2, <1>3 DEF Executes

(* Loops: the first instruction of a round is led to from within, and the  *)
(* labels lead to it and behind the round.                                 *)
LEMMA RoundRuns ==
    ASSUME NEW round \in Seq(Insns), round # <<>>, NEW b \in Nat, NEW lab, IsLabels(lab), NEW t, NEW u, NEW Out,
           NEW L \in SUBSET (Labels \ {"none"}), NEW targets \in [L -> Nat \ {0}],
           Typed(round, b, Over(lab, targets, b), u, Out \cup {To(b + 1, u), To(b + Len(round) + 1, t)})
    PROVE  Resolve(round, targets) \in Seq(Insns) /\ Runs(Resolve(round, targets), b, lab, u, t, Out)
<1>. DEFINE r == Resolve(round, targets)
            more == Out \cup {To(b + 1, u), To(b + Len(round) + 1, t)}
<1>1. r \in Seq(Insns) /\ Len(r) = Len(round)
    BY ResolveFacts
<1>2. Typed(r, b, lab, u, more)
    <2>. HIDE DEF more
    <2>1. Typed(round, b, Over(lab, targets, b), u, more)
        BY DEF more
    <2>. QED
        BY <2>1, ResolveTyped
<1>3. \A w \in more : w \in Out \cup {To(b + Len(r) + 1, t)} \/ w = To(b + 1, u)
    BY <1>1
<1>. HIDE DEF r, more
<1>4. Typed(r, b, lab, u, Out \cup {To(b + Len(r) + 1, t)})
    BY <1>2, <1>3, Weaken
<1>5. r # <<>>
    BY <1>1
<1>. QED
    BY <1>1, <1>4, <1>5 DEF Runs, r

LEMMA InsideLoop ==
    ASSUME NEW place \in {"for", "loop"}, NEW ctx, ctx.scopes \in Nat, ctx.outside = ctx.scopes,
           NEW t, Good(t), NEW lab, NEW Out, "continue" \in DOMAIN lab, To(lab["continue"], t) \in Out,
           place = "loop" => "break" \in DOMAIN lab /\ To(lab["break"], t) \in Out
    PROVE  Inside(place, ctx, t, lab, Out)
<1>1. Len(t.env) \in Nat
    BY TypeParts
<1>2. 0 \in 0 .. Len(t.env) /\ ctx.scopes - ctx.outside = 0 /\ ctx.outside <= ctx.scopes
    BY <1>1
<1>3. Left(ctx.scopes - ctx.outside, t) = t
    BY <1>2, LeftFacts
<1>. QED
    BY <1>2, <1>3 DEF Inside

LEMMA ForRuns ==
    ASSUME NEW filters \in Seq(Insns), \A w : Good(w) => Testing(filters, w), NEW body, NEW ctx,
           ctx.scopes \in Nat, ctx.outside = ctx.scopes, Executes(body, "for", ctx), NEW at \in Seq(Nat),
           NEW b \in Nat, NEW lab, IsLabels(lab), NEW t, NEW Out, Fit(t, Out)
    PROVE  LET round == <<Branch("FOR_ITER", "break"), Does("STORE", at, 1)>> \o filters \o body
                        \o <<Branch("JUMP", "continue")>>
               r == Resolve(round, [fail |-> 1, continue |-> 1, break |-> Len(round) + 1])
           IN  r \in Seq(Insns) /\ Runs(r, b, lab, Iterating(t), t, Out)
<1>. DEFINE next == Branch("FOR_ITER", "break")
            bind == Does("STORE", at, 1)
            again == Branch("JUMP", "continue")
            round == <<next, bind>> \o filters \o body \o <<again>>
            n == Len(round)
            targets == [fail |-> 1, continue |-> 1, break |-> n + 1]
            L == {"fail", "continue", "break"}
            lab2 == Over(lab, targets, b)
            u == Iterating(t)
            more == Out \cup {To(b + 1, u), To(b + n + 1, t)}
<1>1. next \in Insns /\ again \in Insns /\ again.op = "JUMP" /\ again.to.label = "continue"
    BY BranchShape DEF Opcodes, Labels
<1>2. bind \in Insns /\ bind.op = "STORE" /\ bind.n = 1
    BY DoesShape DEF Opcodes
<1>3. body \in Seq(Insns) /\ Good(t) /\ Good(u) /\ Fit(u, Out)
    BY IteratingFacts DEF Executes, Fit
<1>4. ASSUME NEW a \in Nat, NEW l, NEW points, "break" \in DOMAIN l, To(l["break"], t) \in points
      PROVE  Runs(<<next>>, a, l, u, Up(u, 1), points)
    BY <1>3, <1>4, ForIterRuns
<1>. HIDE DEF next, bind, again
<1>5. /\ <<next>> \in Seq(Insns) /\ <<bind>> \in Seq(Insns) /\ <<again>> \in Seq(Insns)
      /\ <<next, bind>> = <<next>> \o <<bind>>
    BY <1>1, <1>2, Singles
<1>6. <<next, bind>> \o filters \o body \in Seq(Insns) /\ round \in Seq(Insns) /\ round # <<>> /\ n \in Nat
      /\ n = Len(<<next, bind>> \o filters \o body) + 1
    <2>. DEFINE lead == <<next, bind>> \o filters \o body
    <2>1. lead \in Seq(Insns)
        BY <1>3, <1>5
    <2>. HIDE DEF lead
    <2>2. lead \o <<again>> \in Seq(Insns) /\ Len(lead \o <<again>>) = Len(lead) + 1
        BY <1>5, <2>1
    <2>3. Len(lead) \in Nat
        BY <2>1
    <2>4. lead \o <<again>> # <<>>
        BY <2>1, <1>5
    <2>. QED
        BY <2>1, <2>2, <2>3, <2>4 DEF lead
<1>. HIDE DEF round, n
<1>7. L \in SUBSET (Labels \ {"none"}) /\ targets \in [L -> Nat \ {0}]
    BY <1>6 DEF Labels
<1>8. IsLabels(lab2)
    <2>. HIDE DEF targets, L
    <2>. QED
        BY <1>7, OverLabels
<1>9. /\ "fail" \in DOMAIN lab2 /\ lab2["fail"] = b + 1
      /\ "continue" \in DOMAIN lab2 /\ lab2["continue"] = b + 1
      /\ "break" \in DOMAIN lab2 /\ lab2["break"] = b + n + 1
    <2>1. lab2["break"] = b + (n + 1) /\ b + (n + 1) = b + n + 1
        BY <1>6 DEF Over
    <2>2. /\ "fail" \in DOMAIN lab2 /\ lab2["fail"] = b + 1
          /\ "continue" \in DOMAIN lab2 /\ lab2["continue"] = b + 1 /\ "break" \in DOMAIN lab2
        BY DEF Over
    <2>. QED
        BY <2>1, <2>2
<1>. HIDE DEF lab2, targets, L
<1>10. To(lab2["fail"], u) \in more /\ To(lab2["continue"], u) \in more /\ To(lab2["break"], t) \in more
       /\ Fit(u, more)
    BY <1>3, <1>9, FitMore
<1>. HIDE DEF more, u
<1>11. Typed(round, b, lab2, u, more)
    <2>1. Runs(<<next>>, b, lab2, u, Up(u, 1), more)
        BY <1>4, <1>9, <1>10
    <2>2. \A a \in Nat : Runs(<<bind>>, a, lab2, Up(u, 1), u, more)
        BY <1>2, <1>3, DropRuns
    <2>3. \A a \in Nat : Runs(filters, a, lab2, u, u, more)
        BY <1>3, <1>8, <1>9, <1>10 DEF Testing
    <2>4. Inside("for", ctx, u, lab2, more)
        BY <1>3, <1>9, <1>10, InsideLoop
    <2>5. \A a \in Nat : Runs(body, a, lab2, u, u, more)
        BY <1>8, <1>10, <2>4 DEF Executes
    <2>. DEFINE c1 == <<next, bind>>
                c2 == c1 \o filters
                c3 == c2 \o body
    <2>6. c1 \in Seq(Insns) /\ Runs(c1, b, lab2, u, u, more)
        <3>1. <<next>> \o <<bind>> \in Seq(Insns) /\ Runs(<<next>> \o <<bind>>, b, lab2, u, u, more)
            BY <1>5, <2>1, <2>2, RunsOn
        <3>. QED
            BY <1>5, <3>1
    <2>. HIDE DEF c1
    <2>7. c2 \in Seq(Insns) /\ Runs(c2, b, lab2, u, u, more)
        BY <2>3, <2>6, RunsOn
    <2>. HIDE DEF c2
    <2>8. c3 \in Seq(Insns) /\ Runs(c3, b, lab2, u, u, more)
        BY <1>3, <2>5, <2>7, RunsOn
    <2>. HIDE DEF c3
    <2>9. Typed(<<again>>, b + Len(c3), lab2, u, more)
        <3>. DEFINE a == b + Len(c3)
        <3>1. a \in Nat
            BY <2>8
        <3>. HIDE DEF a
        <3>2. Placed(again, a + 1, lab2).to = lab2["continue"]
            BY <1>1, <1>9, PlacedShape
        <3>3. Typed(<<again>>, a, lab2, u, more)
            BY <1>1, <1>3, <1>10, <3>1, <3>2, JumpAway
        <3>. QED
            BY <3>3 DEF a
    <2>10. Typed(c3 \o <<again>>, b, lab2, u, more)
        BY <1>5, <2>8, <2>9, RunsTyped
    <2>. QED
        BY <2>10 DEF round, c3, c2, c1
<1>. DEFINE r == Resolve(round, targets)
<1>12. r \in Seq(Insns) /\ Runs(r, b, lab, u, t, Out)
    <2>1. Typed(round, b, Over(lab, targets, b), u, Out \cup {To(b + 1, u), To(b + Len(round) + 1, t)})
        BY <1>11 DEF lab2, more, n
    <2>. QED
        BY <1>6, <1>7, <2>1, RoundRuns
<1>. QED
    BY <1>12 DEF round, targets, n, u, next, bind, again

LEMMA LoopRuns ==
    ASSUME NEW body, NEW ctx, ctx.scopes \in Nat, ctx.outside = ctx.scopes, Executes(body, "loop", ctx),
           NEW b \in Nat, NEW lab, IsLabels(lab), NEW t, NEW Out, Fit(t, Out)
    PROVE  LET round == body \o <<Branch("JUMP", "continue")>>
               r == Resolve(round, [continue |-> 1, break |-> Len(round) + 1])
           IN  r \in Seq(Insns) /\ Runs(r, b, lab, t, t, Out)
<1>. DEFINE again == Branch("JUMP", "continue")
            round == body \o <<again>>
            n == Len(round)
            targets == [continue |-> 1, break |-> n + 1]
            L == {"continue", "break"}
            lab2 == Over(lab, targets, b)
            more == Out \cup {To(b + 1, t), To(b + n + 1, t)}
<1>1. again \in Insns /\ again.op = "JUMP" /\ again.to.label = "continue"
    BY BranchShape DEF Opcodes, Labels
<1>2. body \in Seq(Insns) /\ Good(t)
    BY DEF Executes, Fit
<1>. HIDE DEF again
<1>3. <<again>> \in Seq(Insns) /\ round \in Seq(Insns) /\ round # <<>> /\ n \in Nat
    BY <1>1, <1>2
<1>. HIDE DEF n
<1>4. L \in SUBSET (Labels \ {"none"}) /\ targets \in [L -> Nat \ {0}]
    BY <1>3 DEF Labels
<1>5. IsLabels(lab2)
    <2>. HIDE DEF targets, L
    <2>. QED
        BY <1>4, OverLabels
<1>6. /\ "continue" \in DOMAIN lab2 /\ lab2["continue"] = b + 1
      /\ "break" \in DOMAIN lab2 /\ lab2["break"] = b + n + 1
    <2>1. lab2["break"] = b + (n + 1) /\ b + (n + 1) = b + n + 1
        BY <1>3 DEF Over
    <2>2. "continue" \in DOMAIN lab2 /\ lab2["continue"] = b + 1 /\ "break" \in DOMAIN lab2
        BY DEF Over
    <2>. QED
        BY <2>1, <2>2
<1>. HIDE DEF lab2, targets, L
<1>7. To(lab2["continue"], t) \in more /\ To(lab2["break"], t) \in more /\ Fit(t, more)
    BY <1>6, FitMore
<1>. HIDE DEF more, round
<1>8. Typed(round, b, lab2, t, more)
    <2>1. Inside("loop", ctx, t, lab2, more)
        BY <1>2, <1>6, <1>7, InsideLoop
    <2>2. Runs(body, b, lab2, t, t, more)
        BY <1>5, <1>7, <2>1 DEF Executes
    <2>3. Typed(<<again>>, b + Len(body), lab2, t, more)
        <3>. DEFINE a == b + Len(body)
        <3>1. a \in Nat
            BY <1>2
        <3>. HIDE DEF a
        <3>2. Placed(again, a + 1, lab2).to = lab2["continue"]
            BY <1>1, <1>6, PlacedShape
        <3>3. Typed(<<again>>, a, lab2, t, more)
            BY <1>1, <1>2, <1>7, <3>1, <3>2, JumpAway
        <3>. QED
            BY <3>3 DEF a
    <2>. QED
        BY <1>2, <1>3, <2>2, <2>3, RunsTyped DEF round
<1>. DEFINE r == Resolve(round, targets)
<1>9. r \in Seq(Insns) /\ Runs(r, b, lab, t, t, Out)
    <2>1. Typed(round, b, Over(lab, targets, b), t, Out \cup {To(b + 1, t), To(b + Len(round) + 1, t)})
        BY <1>8 DEF lab2, more, n
    <2>. QED
        BY <1>3, <1>4, <2>1, RoundRuns
<1>. QED
    BY <1>9 DEF round, targets, n, again

LEMMA ForExecutes ==
    ASSUME NEW code, Evaluates(code), NEW filters \in Seq(Insns), \A w : Good(w) => Testing(filters, w),
           NEW body, NEW place, NEW ctx, NEW inner, inner.scopes \in Nat, inner.outside = inner.scopes,
           Executes(body, "for", inner), NEW at \in Seq(Nat)
    PROVE  LET round == <<Branch("FOR_ITER", "break"), Does("STORE", at, 1)>> \o filters \o body
                        \o <<Branch("JUMP", "continue")>>
               r == Resolve(round, [fail |-> 1, continue |-> 1, break |-> Len(round) + 1])
           IN  Executes(<<Ins("PUSH_SCOPE")>> \o code \o <<Does("GET_ITER", at, 0)>> \o r \o <<Ins("POP_SCOPE")>>,
                        place, ctx)
<1>. DEFINE in == Ins("PUSH_SCOPE")
            out == Ins("POP_SCOPE")
            get == Does("GET_ITER", at, 0)
            round == <<Branch("FOR_ITER", "break"), Does("STORE", at, 1)>> \o filters \o body
                     \o <<Branch("JUMP", "continue")>>
            r == Resolve(round, [fail |-> 1, continue |-> 1, break |-> Len(round) + 1])
            c1 == <<in>> \o code
            c2 == c1 \o <<get>>
            c3 == c2 \o r
            whole == c3 \o <<out>>
<1>1. in \in Insns /\ out \in Insns /\ get \in Insns
    BY InsShape, DoesShape DEF Opcodes
<1>2. ASSUME NEW b \in Nat, NEW lab, NEW t, NEW Out, IsLabels(lab), Fit(t, Out)
      PROVE  r \in Seq(Insns) /\ Runs(r, b, lab, Iterating(t), t, Out)
    BY <1>2, ForRuns
<1>3. r \in Seq(Insns)
    <2>. DEFINE t == EntryType(1)
                lab == <<>>
    <2>1. Fit(t, {}) /\ IsLabels(lab) /\ 0 \in Nat
        BY DEF Fit, Good, Types, EntryType, NewFrame, Globals, Caught, IsLabels
    <2>. HIDE DEF t, lab, r
    <2>. QED
        BY <1>2, <2>1
<1>. HIDE DEF r
<1>4. ASSUME NEW b \in Nat, NEW lab, NEW t, Good(t), NEW Out
      PROVE  /\ Runs(<<in>>, b, lab, t, Scoped(t, b + 1), Out)
             /\ Runs(<<get>>, b, lab, Up(t, 1), Iterating(t), Out)
    BY <1>4, PushScopeRuns, GetIterRuns
<1>5. ASSUME NEW b \in Nat, NEW lab, NEW t, Good(t), NEW pc \in Nat, NEW Out
      PROVE  Runs(<<out>>, b, lab, Scoped(t, pc), t, Out)
    <2>1. Good(Scoped(t, pc))
        BY <1>5, ScopedFacts
    <2>2. Up(Scoped(t, pc), 0) = Scoped(t, pc) /\ Up(t, 0) = t
        BY <1>5, <2>1, UpFacts
    <2>3. Up(Scoped(t, pc), 0).env # <<>> /\ [Up(Scoped(t, pc), 0) EXCEPT !.env = Front(@)] = Up(t, 0)
        BY <1>5, ScopeLeft
    <2>4. Scoped(t, pc).env # <<>> /\ t = [Scoped(t, pc) EXCEPT !.env = Front(@)]
        BY <2>2, <2>3
    <2>. QED
        BY <2>1, <2>4, PopScopeRuns
<1>. HIDE DEF in, out, get
<1>6. /\ code \in Seq(Insns) /\ <<in>> \in Seq(Insns) /\ <<out>> \in Seq(Insns) /\ <<get>> \in Seq(Insns)
      /\ whole \in Seq(Insns)
    <2>1. code \in Seq(Insns) /\ <<in>> \in Seq(Insns) /\ <<out>> \in Seq(Insns) /\ <<get>> \in Seq(Insns)
        BY <1>1 DEF Evaluates
    <2>2. c2 \in Seq(Insns)
        BY <2>1
    <2>. HIDE DEF c2
    <2>3. c3 \in Seq(Insns)
        BY <1>3, <2>2
    <2>. HIDE DEF c3
    <2>. QED
        BY <2>1, <2>3
<1>7. ASSUME NEW b \in Nat, NEW lab, NEW t, NEW Out, IsLabels(lab), Fit(t, Out)
      PROVE  Runs(whole, b, lab, t, t, Out)
    <2>. DEFINE t1 == Scoped(t, b + 1)
    <2>1. Good(t) /\ b + 1 \in Nat
        BY <1>7 DEF Fit
    <2>2. Good(t1) /\ Fit(t1, Out)
        BY <1>7, <2>1, ScopedFacts
    <2>3. Runs(<<in>>, b, lab, t, t1, Out)
        BY <1>4, <2>1
    <2>4. \A a \in Nat : Runs(<<out>>, a, lab, t1, t, Out)
        BY <1>5, <2>1
    <2>. HIDE DEF t1
    <2>5. \A a \in Nat : Runs(code, a, lab, t1, Up(t1, 1), Out)
        BY <1>7, <2>2 DEF Evaluates
    <2>6. \A a \in Nat : Runs(<<get>>, a, lab, Up(t1, 1), Iterating(t1), Out)
        BY <1>4, <2>2
    <2>7. \A a \in Nat : Runs(r, a, lab, Iterating(t1), t1, Out)
        BY <1>2, <1>7, <2>2
    <2>8. c1 \in Seq(Insns) /\ Runs(c1, b, lab, t, Up(t1, 1), Out)
        BY <1>6, <2>3, <2>5, RunsOn
    <2>. HIDE DEF c1
    <2>9. c2 \in Seq(Insns) /\ Runs(c2, b, lab, t, Iterating(t1), Out)
        BY <1>6, <2>6, <2>8, RunsOn
    <2>. HIDE DEF c2
    <2>10. c3 \in Seq(Insns) /\ Runs(c3, b, lab, t, t1, Out)
        BY <1>3, <2>7, <2>9, RunsOn
    <2>. HIDE DEF c3
    <2>. QED
        BY <1>6, <2>4, <2>10, RunsOn
<1>. HIDE DEF whole
<1>8. Executes(whole, place, ctx)
    BY <1>6, <1>7 DEF Executes
<1>. QED
    BY <1>8 DEF whole, c3, c2, c1, r, in, out, get

LEMMA LoopExecutes ==
    ASSUME NEW body, NEW place, NEW ctx, NEW inner, inner.scopes \in Nat, inner.outside = inner.scopes,
           Executes(body, "loop", inner)
    PROVE  LET round == body \o <<Branch("JUMP", "continue")>>
               r == Resolve(round, [continue |-> 1, break |-> Len(round) + 1])
           IN  Executes(<<Ins("PUSH_SCOPE")>> \o r \o <<Ins("POP_SCOPE")>>, place, ctx)
<1>. DEFINE in == Ins("PUSH_SCOPE")
            out == Ins("POP_SCOPE")
            round == body \o <<Branch("JUMP", "continue")>>
            r == Resolve(round, [continue |-> 1, break |-> Len(round) + 1])
            c1 == <<in>> \o r
            whole == c1 \o <<out>>
<1>1. in \in Insns /\ out \in Insns
    BY InsShape DEF Opcodes
<1>2. ASSUME NEW b \in Nat, NEW lab, NEW t, NEW Out, IsLabels(lab), Fit(t, Out)
      PROVE  r \in Seq(Insns) /\ Runs(r, b, lab, t, t, Out)
    BY <1>2, LoopRuns
<1>3. r \in Seq(Insns)
    <2>. DEFINE t == EntryType(1)
                lab == <<>>
    <2>1. Fit(t, {}) /\ IsLabels(lab) /\ 0 \in Nat
        BY DEF Fit, Good, Types, EntryType, NewFrame, Globals, Caught, IsLabels
    <2>. HIDE DEF t, lab, r
    <2>. QED
        BY <1>2, <2>1
<1>. HIDE DEF r
<1>4. ASSUME NEW b \in Nat, NEW lab, NEW t, Good(t), NEW Out
      PROVE  Runs(<<in>>, b, lab, t, Scoped(t, b + 1), Out)
    BY <1>4, PushScopeRuns
<1>5. ASSUME NEW b \in Nat, NEW lab, NEW t, Good(t), NEW pc \in Nat, NEW Out
      PROVE  Runs(<<out>>, b, lab, Scoped(t, pc), t, Out)
    <2>1. Good(Scoped(t, pc))
        BY <1>5, ScopedFacts
    <2>2. Up(Scoped(t, pc), 0) = Scoped(t, pc) /\ Up(t, 0) = t
        BY <1>5, <2>1, UpFacts
    <2>3. Up(Scoped(t, pc), 0).env # <<>> /\ [Up(Scoped(t, pc), 0) EXCEPT !.env = Front(@)] = Up(t, 0)
        BY <1>5, ScopeLeft
    <2>4. Scoped(t, pc).env # <<>> /\ t = [Scoped(t, pc) EXCEPT !.env = Front(@)]
        BY <2>2, <2>3
    <2>. QED
        BY <2>1, <2>4, PopScopeRuns
<1>. HIDE DEF in, out
<1>6. <<in>> \in Seq(Insns) /\ <<out>> \in Seq(Insns) /\ c1 \in Seq(Insns) /\ whole \in Seq(Insns)
    <2>1. <<in>> \in Seq(Insns) /\ <<out>> \in Seq(Insns) /\ c1 \in Seq(Insns)
        BY <1>1, <1>3
    <2>. HIDE DEF c1
    <2>. QED
        BY <2>1
<1>7. ASSUME NEW b \in Nat, NEW lab, NEW t, NEW Out, IsLabels(lab), Fit(t, Out)
      PROVE  Runs(whole, b, lab, t, t, Out)
    <2>. DEFINE t1 == Scoped(t, b + 1)
    <2>1. Good(t) /\ b + 1 \in Nat
        BY <1>7 DEF Fit
    <2>2. Good(t1) /\ Fit(t1, Out)
        BY <1>7, <2>1, ScopedFacts
    <2>3. Runs(<<in>>, b, lab, t, t1, Out)
        BY <1>4, <2>1
    <2>4. \A a \in Nat : Runs(<<out>>, a, lab, t1, t, Out)
        BY <1>5, <2>1
    <2>. HIDE DEF t1
    <2>5. \A a \in Nat : Runs(r, a, lab, t1, t1, Out)
        BY <1>2, <1>7, <2>2
    <2>6. c1 \in Seq(Insns) /\ Runs(c1, b, lab, t, t1, Out)
        BY <1>3, <1>6, <2>3, <2>5, RunsOn
    <2>. HIDE DEF c1
    <2>. QED
        BY <1>6, <2>4, <2>6, RunsOn
<1>. HIDE DEF whole
<1>8. Executes(whole, place, ctx)
    BY <1>6, <1>7 DEF Executes
<1>. QED
    BY <1>8 DEF whole, c1, r, in, out

Within(s, place) == IF s.kind \in {"for", "loop"} THEN s.kind ELSE place

LEMMA BlockExecutes ==
    ASSUME NEW T, NEW ss \in Seq(T), NEW place, NEW ctx \in Contexts, NEW stmt,
           \A x \in Elements(ss), c \in Contexts : Executes(stmt[<<x, c>>], place, c)
    PROVE  Executes(Stmts(ss, ctx, stmt), place, ctx)
BY StmtsExecute

LEMMA StmtExecutes ==
    ASSUME NEW E, \A x \in E : x.at \in Seq(Nat), NEW S, NEW expr, NEW stmt, NEW place \in Places,
           NEW s, IsStmt(s, place, E, S), NEW ctx \in Contexts,
           \A x \in Evaluated(s) : Evaluates(expr[x]),
           \A y \in Inner(s), c \in Contexts : Executes(stmt[<<y, c>>], Within(s, place), c)
    PROVE  Executes(Stmt(s, ctx, expr, stmt), place, ctx)
<1>0. /\ InScope(ctx) \in Contexts /\ InLoop(InScope(ctx)) \in Contexts
      /\ InLoop(InScope(ctx)).scopes \in Nat /\ InLoop(InScope(ctx)).outside = InLoop(InScope(ctx)).scopes
    <2>1. InScope(ctx) \in Contexts
        BY ContextFacts
    <2>. QED
        BY <2>1, ContextFacts
<1>1. CASE s.kind = "expr" /\ s.arg \in E
    <2>1. Stmt(s, ctx, expr, stmt) = expr[s.arg] \o <<Ins(IF ctx.decides THEN "POP_CHECKED" ELSE "POP")>>
        BY <1>1 DEF Stmt
    <2>2. Evaluates(expr[s.arg])
        BY <1>1 DEF Evaluated
    <2>. QED
        BY <2>1, <2>2, ExprStmtExecutes
<1>2. CASE s.kind = "return" /\ s.arg \in E
    <2>1. Stmt(s, ctx, expr, stmt) = expr[s.arg] \o <<Ins("RETURN")>>
        BY <1>2 DEF Stmt
    <2>2. Evaluates(expr[s.arg])
        BY <1>2 DEF Evaluated
    <2>. QED
        BY <2>1, <2>2, ReturnExecutes
<1>3. CASE s.kind = "store" /\ s.args \in Seq(E)
    <2>1. Stmt(s, ctx, expr, stmt) = Exprs(s.args, expr) \o <<Does("STORE", s.at, Len(s.args))>>
        BY <1>3 DEF Stmt
    <2>2. \A x \in Elements(s.args) : Evaluates(expr[x])
        BY <1>3 DEF Evaluated
    <2>3. s.at \in Seq(Nat)
        BY DEF IsStmt
    <2>. QED
        BY <1>3, <2>1, <2>2, <2>3, StoreExecutes
<1>4. CASE s.kind = "if" /\ s.clauses \in Seq(ClausesOf(E)) /\ s.then \in Seq(S[place]) /\ s.else \in Seq(S[place])
    <2>. DEFINE clauses == Clauses(s.clauses, expr)
                then == Stmts(s.then, InScope(ctx), stmt)
                else == Stmts(s.else, InScope(ctx), stmt)
    <2>1. Stmt(s, ctx, expr, stmt) = Choice(clauses, then, else)
        BY <1>4 DEF Stmt, IfStmt
    <2>2. Evaluated(s) = Tested(s.clauses) /\ Inner(s) = Elements(s.then) \cup Elements(s.else)
        BY <1>4 DEF Evaluated, Inner
    <2>3. clauses \in Seq(Insns) /\ \A t : Good(t) => Testing(clauses, t)
        BY <1>4, <2>2, ClausesTesting
    <2>4. Within(s, place) = place
        BY <1>4 DEF Within
    <2>5. Executes(then, place, InScope(ctx))
        BY <1>0, <1>4, <2>2, <2>4, BlockExecutes
    <2>6. Executes(else, place, InScope(ctx))
        BY <1>0, <1>4, <2>2, <2>4, BlockExecutes
    <2>. HIDE DEF clauses, then, else
    <2>. QED
        BY <2>1, <2>3, <2>5, <2>6, IfExecutes
<1>5. CASE s.kind = "for" /\ s.arg \in E /\ s.filters \in Seq(E) /\ s.body \in Seq(S["for"])
    <2>. DEFINE cs == [i \in DOMAIN s.filters |-> Unnamed(s.filters[i])]
                filters == Clauses(cs, expr)
                inner == InLoop(InScope(ctx))
                body == Stmts(s.body, inner, stmt)
    <2>1. Evaluated(s) = {s.arg} \cup Elements(s.filters) /\ Inner(s) = Elements(s.body)
        BY <1>5 DEF Evaluated, Inner
    <2>2. cs \in Seq(ClausesOf(E)) /\ Tested(cs) = Elements(s.filters)
        <3>1. DOMAIN s.filters = 1 .. Len(s.filters) /\ Len(s.filters) \in Nat
            BY <1>5
        <3>2. \A i \in 1 .. Len(s.filters) : s.filters[i] \in E
            BY <1>5
        <3>3. \A i \in 1 .. Len(s.filters) :
                  Unnamed(s.filters[i]) \in ClausesOf(E) /\ Unnamed(s.filters[i]).arg = s.filters[i]
            BY <3>2 DEF Unnamed, ClausesOf
        <3>4. cs \in Seq(ClausesOf(E))
            BY <3>1, <3>3
        <3>5. DOMAIN cs = DOMAIN s.filters /\ \A i \in DOMAIN s.filters : cs[i].arg = s.filters[i]
            BY <3>1, <3>3
        <3>. QED
            BY <3>4, <3>5 DEF Tested, Elements
    <2>3. filters \in Seq(Insns) /\ \A t : Good(t) => Testing(filters, t)
        <3>. HIDE DEF cs
        <3>. QED
            BY <2>1, <2>2, ClausesTesting
    <2>4. Within(s, place) = "for"
        BY <1>5 DEF Within
    <2>5. Executes(body, "for", inner)
        BY <1>0, <1>5, <2>1, <2>4, BlockExecutes
    <2>6. Evaluates(expr[s.arg]) /\ s.at \in Seq(Nat)
        BY <2>1 DEF IsStmt
    <2>7. filters = Filters(s.filters, expr)
        BY DEF Filters
    <2>8. Stmt(s, ctx, expr, stmt) = ForStmt(s, ctx, expr, stmt)
        BY <1>5 DEF Stmt
    <2>. HIDE DEF filters
    <2>9. Executes(ForStmt(s, ctx, expr, stmt), place, ctx)
        BY <1>0, <2>3, <2>5, <2>6, <2>7, ForExecutes DEF ForStmt, ForLoop
    <2>. QED
        BY <2>8, <2>9
<1>6. CASE s.kind = "loop" /\ s.body \in Seq(S["loop"])
    <2>. DEFINE inner == InLoop(InScope(ctx))
                body == Stmts(s.body, inner, stmt)
    <2>1. Inner(s) = Elements(s.body) /\ Within(s, place) = "loop"
        BY <1>6 DEF Inner, Within
    <2>2. Executes(body, "loop", inner)
        BY <1>0, <1>6, <2>1, BlockExecutes
    <2>3. Stmt(s, ctx, expr, stmt) = LoopStmt(s, ctx, stmt)
        BY <1>6 DEF Stmt
    <2>4. Executes(LoopStmt(s, ctx, stmt), place, ctx)
        BY <1>0, <2>2, LoopExecutes DEF LoopStmt
    <2>. QED
        BY <2>3, <2>4
<1>7. CASE s.kind \in {"continue", "break"} /\ (place = "loop" \/ (place = "for" /\ s.kind = "continue"))
    <2>1. Stmt(s, ctx, expr, stmt) = Unwind(ctx) \o <<Branch("JUMP", s.kind)>>
        BY <1>7 DEF Stmt
    <2>. QED
        BY <1>7, <2>1, LeaveExecutes
<1>. QED
    BY <1>1, <1>2, <1>3, <1>4, <1>5, <1>6, <1>7 DEF IsStmt

LEMMA SubStmts ==
    ASSUME NEW E, NEW S, NEW depth, Trees(E, S, Data, depth), NEW p \in Places, NEW s \in S[p]
    PROVE  /\ IsStmt(s, p, E, S) /\ depth[s] \in Nat /\ Within(s, p) \in Places
           /\ \A y \in Inner(s) : y \in S[Within(s, p)] /\ depth[y] < depth[s]
<1>1. IsStmt(s, p, E, S) /\ depth[s] \in Nat /\ \A y \in Inner(s) : depth[y] < depth[s]
    BY DEF Trees
<1>2. ASSUME NEW q, NEW ss \in Seq(S[q]) PROVE Elements(ss) \subseteq S[q]
    BY DEF Elements
<1>3. Within(s, p) \in Places
    BY DEF Within, Places
<1>4. \A y \in Inner(s) : y \in S[Within(s, p)]
    BY <1>1, <1>2 DEF IsStmt, Inner, Within
<1>. QED
    BY <1>1, <1>3, <1>4

LEMMA AllExecute ==
    ASSUME NEW E, NEW S, NEW depth, NEW expr, NEW stmt,
           Trees(E, S, Data, depth), CompiledBy(E, S, Contexts, expr, stmt)
    PROVE  \A place \in Places : \A s \in S[place], ctx \in Contexts : Executes(stmt[<<s, ctx>>], place, ctx)
<1>. TAKE place \in Places
<1>. TAKE s \in S[place], ctx \in Contexts
<1>0. (\A x \in E : Evaluates(expr[x])) /\ (\A x \in E : x.at \in Seq(Nat))
    BY AllEvaluate DEF Trees, IsExpr
<1>1. ASSUME NEW p \in Places, NEW x \in S[p]
      PROVE  /\ IsStmt(x, p, E, S) /\ depth[x] \in Nat /\ Evaluated(x) \subseteq E /\ Within(x, p) \in Places
             /\ \A y \in Inner(x) : y \in S[Within(x, p)] /\ depth[y] < depth[x]
    <2>1. /\ IsStmt(x, p, E, S) /\ depth[x] \in Nat /\ Within(x, p) \in Places
          /\ \A y \in Inner(x) : y \in S[Within(x, p)] /\ depth[y] < depth[x]
        BY SubStmts
    <2>2. \A es \in Seq(E) : Elements(es) \subseteq E
        BY DEF Elements
    <2>4. \A cs \in Seq(ClausesOf(E)) : Tested(cs) \subseteq E
        <3>1. ASSUME NEW cs \in Seq(ClausesOf(E)), NEW i \in DOMAIN cs PROVE cs[i].arg \in E
            <4>1. cs[i] \in ClausesOf(E)
                OBVIOUS
            <4>. QED
                BY <4>1 DEF ClausesOf
        <3>. QED
            BY <3>1 DEF Tested
    <2>5. Evaluated(x) \subseteq E
        BY <2>1, <2>2, <2>4 DEF IsStmt, Evaluated
    <2>. QED
        BY <2>1, <2>5
<1>. DEFINE n == depth[s] + 1
            P == {k \in 0 .. n : \A p \in Places : \A x \in S[p], c \in Contexts :
                                     depth[x] < k => Executes(stmt[<<x, c>>], p, c)}
<1>2. n \in Nat /\ depth[s] < n
    BY <1>1
<1>3. 0 \in P
    BY <1>1, <1>2
<1>4. ASSUME NEW k \in 1 .. n, k - 1 \in P
      PROVE  k \in P
    <2>1. ASSUME NEW p \in Places, NEW x \in S[p], NEW c \in Contexts, depth[x] < k
          PROVE  Executes(stmt[<<x, c>>], p, c)
        <3>1. ASSUME NEW y \in Inner(x), NEW d \in Contexts
              PROVE  Executes(stmt[<<y, d>>], Within(x, p), d)
            <4>1. y \in S[Within(x, p)] /\ Within(x, p) \in Places /\ depth[y] < depth[x]
                  /\ depth[x] \in Nat
                BY <1>1
            <4>2. depth[y] \in Nat
                BY <1>1, <4>1
            <4>3. depth[y] < k - 1
                BY <2>1, <4>1, <4>2
            <4>. QED
                BY <1>4, <4>1, <4>3
        <3>2. Executes(Stmt(x, c, expr, stmt), p, c)
            BY <1>0, <1>1, <3>1, StmtExecutes
        <3>. QED
            BY <3>2 DEF CompiledBy
    <2>. QED
        BY <2>1
<1>5. n \in P
    <2>1. P \in SUBSET (0 .. n)
        OBVIOUS
    <2>. HIDE DEF P, n
    <2>2. \A k \in 0 .. n : k \in P
        BY <1>2, <1>3, <1>4, <2>1, CountUp
    <2>. QED
        BY <1>2, <2>2
<1>. QED
    BY <1>2, <1>5

----------------------------------------------------------------------------
(* A chunk: its instructions at their addresses, entered at the first.     *)

LEMMA EntryFits ==
    ASSUME NEW k
    PROVE  Fit(EntryType(k), {}) /\ IsLabels(<<>>)
BY DEF Fit, Good, Types, EntryType, NewFrame, Globals, Caught, IsLabels

ChunkTyped(chunk, k, ty) ==
    VerifiedChunk([chunks |-> [j \in {k} |-> chunk], types |-> [j \in {k} |-> ty]], k)

LEMMA ChunkAlone ==
    ASSUME NEW p, NEW k, ChunkTyped(p.chunks[k], k, p.types[k])
    PROVE  VerifiedChunk(p, k)
BY DEF ChunkTyped, VerifiedChunk

LEMMA LinkedVerified ==
    ASSUME NEW c \in Seq(Insns), NEW k, Typed(c, 0, <<>>, EntryType(k), {})
    PROVE  \E ty : ChunkTyped(Linked(c), k, ty)
<1>1. PICK D \in SUBSET (0 + 1 .. 0 + Len(c)) :
          \E ty \in [D -> Types] : Typing(ty, c, 0, <<>>, EntryType(k), {})
    BY DEF Typed
<1>2. PICK ty \in [D -> Types] : Typing(ty, c, 0, <<>>, EntryType(k), {})
    BY <1>1
<1>3. DOMAIN ty = D /\ DOMAIN c = 1 .. Len(c) /\ Len(c) \in Nat /\ D \subseteq 1 .. Len(c)
    OBVIOUS
<1>4. 1 \in DOMAIN ty /\ ty[1] = EntryType(k)
    BY <1>2 DEF Typing
<1>5. ASSUME NEW pc \in D
      PROVE  /\ ty[pc] \in Types /\ ty[pc].iters \subseteq 1 .. ty[pc].height
             /\ Allowed(Linked(c)[pc], ty[pc])
             /\ \A u \in Successors(Linked(c)[pc], pc, ty[pc]) : u.pc \in DOMAIN ty /\ ty[u.pc] = u.type
    <2>1. pc \in 1 .. Len(c) /\ pc - 0 = pc
        BY <1>3
    <2>2. Linked(c)[pc] = Placed(c[pc], pc, <<>>)
        BY <1>3, <2>1 DEF Linked, Placed
    <2>3. SafeAt(Placed(c[pc], pc, <<>>), pc, ty, {})
        BY <1>2, <1>3, <2>1 DEF Typing
    <2>. QED
        BY <2>2, <2>3 DEF SafeAt, Flows, Good
<1>6. Len(Linked(c)) = Len(c)
    BY <1>3 DEF Linked
<1>7. ChunkTyped(Linked(c), k, ty)
    BY <1>3, <1>4, <1>5, <1>6 DEF ChunkTyped, VerifiedChunk, To
<1>. QED
    BY <1>7

(* The end of a chunk.                                                     *)
LEMMA VoidReturned ==
    /\ ReturnVoid \in Seq(Insns)
    /\ \A b \in Nat : \A lab, t, Out : IsLabels(lab) /\ Fit(t, Out) => Typed(ReturnVoid, b, lab, t, Out)
<1>. DEFINE code == LoadConst(Nothing)
<1>1. Nothing \in Data
    BY DEF Nothing, Data, Values, Kinds
<1>2. Evaluates(code)
    <2>1. code \in Seq(Insns)
        <3>1. Good(EntryType(1)) /\ 0 \in Nat
            BY EntryFits DEF Fit
        <3>. QED
            BY <1>1, <3>1, LoadRuns
    <2>2. ASSUME NEW b \in Nat, NEW lab, NEW t, NEW Out, Fit(t, Out)
          PROVE  Runs(code, b, lab, t, Up(t, 1), Out)
        BY <1>1, <2>2, LoadRuns DEF Fit
    <2>. QED
        BY <2>1, <2>2 DEF Evaluates
<1>3. ReturnVoid = code \o <<Ins("RETURN")>>
    BY DEF ReturnVoid
<1>. QED
    BY <1>2, <1>3, ReturnExecutes

LEMMA BodyTyped ==
    ASSUME NEW c1 \in Seq(Insns), NEW c2 \in Seq(Insns), NEW decides \in BOOLEAN, NEW k,
           Executes(c1, "none", Context(decides)),
           \A b \in Nat : \A lab, t, Out : IsLabels(lab) /\ Fit(t, Out) => Typed(c2, b, lab, t, Out)
    PROVE  c1 \o c2 \in Seq(Insns) /\ Typed(c1 \o c2, 0, <<>>, EntryType(k), {})
<1>. DEFINE t == EntryType(k)
            lab == <<>>
<1>1. Fit(t, {}) /\ IsLabels(lab) /\ 0 \in Nat
    BY EntryFits
<1>2. Len(t.env) \in Nat
    BY <1>1, TypeParts DEF Fit
<1>. HIDE DEF t, lab
<1>3. Inside("none", Context(decides), t, lab, {})
    BY <1>2 DEF Inside, Context
<1>4. Runs(c1, 0, lab, t, t, {})
    BY <1>1, <1>3 DEF Executes
<1>5. 0 + Len(c1) \in Nat
    OBVIOUS
<1>6. Typed(c2, 0 + Len(c1), lab, t, {})
    BY <1>1, <1>5
<1>7. Typed(c1 \o c2, 0, lab, t, {})
    BY <1>1, <1>4, <1>6, RunsTyped
<1>. QED
    BY <1>7 DEF t, lab

LEMMA FlatSplit ==
    ASSUME NEW q \in Seq(Seq(Insns)), q # <<>>
    PROVE  FlattenSeq(q) = FlattenSeq(Front(q)) \o q[Len(q)]
<1>1. PICK g \in [0 .. Len(q) -> Seq(Insns)] :
          /\ g[0] = <<>>
          /\ \A k \in 1 .. Len(q) : g[k] = g[k - 1] \o q[k]
          /\ \A k \in 0 .. Len(q) : FlattenSeq(SubSeq(q, 1, k)) = g[k]
    BY FlattenProperties
<1>. DEFINE n == Len(q)
<1>2. n \in 1 .. n /\ n \in 0 .. n /\ n - 1 \in 0 .. n /\ SubSeq(q, 1, n) = q
    OBVIOUS
<1>3. FlattenSeq(q) = g[n] /\ FlattenSeq(SubSeq(q, 1, n - 1)) = g[n - 1] /\ g[n] = g[n - 1] \o q[n]
    <2>1. FlattenSeq(SubSeq(q, 1, n)) = g[n]
        BY <1>1, <1>2
    <2>. QED
        BY <1>1, <1>2, <2>1
<1>. QED
    BY <1>3 DEF Front

Coded(T, ctx, stmt) == \A x \in T : stmt[<<x, ctx>>] \in Seq(Insns)

LEMMA StmtsSplit ==
    ASSUME NEW T, NEW ss \in Seq(T), ss # <<>>, NEW ctx, NEW stmt, Coded(T, ctx, stmt)
    PROVE  /\ Front(ss) \in Seq(T) /\ Last(ss) \in T
           /\ Stmts(ss, ctx, stmt) = Stmts(Front(ss), ctx, stmt) \o stmt[<<Last(ss), ctx>>]
<1>. DEFINE n == Len(ss)
            front == Front(ss)
            code(s) == stmt[<<s, ctx>>]
            q == [i \in DOMAIN ss |-> code(ss[i])]
            r == [i \in DOMAIN front |-> code(front[i])]
<1>1. n \in Nat /\ n >= 1 /\ DOMAIN ss = 1 .. n /\ n \in 1 .. n /\ n - 1 \in Nat
    OBVIOUS
<1>2. front \in Seq(T) /\ Len(front) = n - 1 /\ \A i \in 1 .. n - 1 : front[i] = ss[i]
    BY <1>1 DEF Front
<1>3. Last(ss) = ss[n] /\ ss[n] \in T
    BY <1>1 DEF Last
<1>4. Stmts(ss, ctx, stmt) = FlattenSeq(q) /\ Stmts(front, ctx, stmt) = FlattenSeq(r)
    BY DEF Stmts
<1>. HIDE DEF front, code
<1>5. \A x \in T : code(x) \in Seq(Insns)
    BY DEF code, Coded
<1>6. q \in Seq(Seq(Insns)) /\ Len(q) = n /\ \A i \in 1 .. n : q[i] = code(ss[i])
    <2>1. \A i \in 1 .. n : code(ss[i]) \in Seq(Insns)
        BY <1>1, <1>5
    <2>. QED
        BY <1>1, <2>1
<1>7. r \in Seq(Seq(Insns)) /\ Len(r) = n - 1 /\ \A i \in 1 .. n - 1 : r[i] = code(front[i])
    <2>1. DOMAIN front = 1 .. n - 1
        BY <1>1, <1>2
    <2>2. \A i \in 1 .. n - 1 : code(front[i]) \in Seq(Insns)
        BY <1>2, <1>5, <2>1
    <2>. QED
        BY <1>1, <2>1, <2>2
<1>. HIDE DEF q, r, n
<1>8. Front(q) \in Seq(Seq(Insns)) /\ Len(Front(q)) = n - 1 /\ \A i \in 1 .. n - 1 : Front(q)[i] = q[i]
    BY <1>1, <1>6 DEF Front
<1>9. Front(q) = r
    <2>. DEFINE x == Front(q)
    <2>1. \A i \in 1 .. n - 1 : x[i] = r[i]
        <3>1. \A i \in 1 .. n - 1 : i \in 1 .. n
            BY <1>1
        <3>. QED
            BY <1>2, <1>6, <1>7, <1>8, <3>1
    <2>. HIDE DEF x
    <2>2. x \in Seq(Seq(Insns)) /\ Len(x) = n - 1
        BY <1>8 DEF x
    <2>3. x = r
        BY <1>7, <2>1, <2>2, SeqEqual
    <2>. QED
        BY <2>3 DEF x
<1>10. q # <<>>
    BY <1>1, <1>6
<1>11. FlattenSeq(q) = FlattenSeq(r) \o q[n]
    BY <1>6, <1>9, <1>10, FlatSplit
<1>. QED
    BY <1>1, <1>2, <1>3, <1>4, <1>6, <1>11 DEF front, code

----------------------------------------------------------------------------
(* Programs.                                                               *)

LEMMA EvaluatesReturned ==
    ASSUME NEW code, Evaluates(code)
    PROVE  /\ code \o <<Ins("RETURN")>> \in Seq(Insns)
           /\ \A b \in Nat : \A lab, t, Out :
                IsLabels(lab) /\ Fit(t, Out) => Typed(code \o <<Ins("RETURN")>>, b, lab, t, Out)
BY ReturnExecutes

LEMMA ContextTyped == \A decides \in BOOLEAN : Context(decides) \in Contexts
BY DEF Context, Contexts

LEMMA ScriptTyped ==
    ASSUME NEW E, NEW S, NEW depth, NEW expr, NEW stmt, Trees(E, S, Data, depth),
           CompiledBy(E, S, Contexts, expr, stmt), NEW ss \in Seq(S["none"])
    PROVE  Script(ss, stmt) \in Seq(Insns) /\ Typed(Script(ss, stmt), 0, <<>>, EntryType(1), {})
<1>. DEFINE ctx == Context(FALSE)
            T == S["none"]
            c1 == Stmts(ss, ctx, stmt)
<1>1. ctx \in Contexts /\ "none" \in Places
    BY ContextTyped DEF Places
<1>2. \A s \in T : Executes(stmt[<<s, ctx>>], "none", ctx)
    BY <1>1, AllExecute
<1>3. ss \in Seq(T)
    OBVIOUS
<1>4. Executes(c1, "none", ctx)
    <2>. HIDE DEF T, ctx
    <2>1. \A x \in Elements(ss) : Executes(stmt[<<x, ctx>>], "none", ctx)
        BY <1>2, <1>3 DEF Elements
    <2>. QED
        BY <2>1, StmtsExecute
<1>5. c1 \in Seq(Insns)
    BY <1>4 DEF Executes
<1>6. Script(ss, stmt) = c1 \o ReturnVoid
    BY DEF Script
<1>. HIDE DEF c1
<1>. QED
    BY <1>4, <1>5, <1>6, VoidReturned, BodyTyped

LEMMA FunctionTyped ==
    ASSUME NEW E, NEW S, NEW depth, NEW expr, NEW stmt, Trees(E, S, Data, depth),
           CompiledBy(E, S, Contexts, expr, stmt), NEW f, f.decides \in BOOLEAN, f.body \in Seq(S["none"]), NEW k
    PROVE  /\ FunctionBody(f, expr, stmt) \in Seq(Insns)
           /\ Typed(FunctionBody(f, expr, stmt), 0, <<>>, EntryType(k), {})
<1>. DEFINE ctx == Context(f.decides)
            T == S["none"]
            body == f.body
            code == FunctionBody(f, expr, stmt)
<1>1. ctx \in Contexts /\ "none" \in Places
    BY ContextTyped DEF Places
<1>2. \A s \in T : Executes(stmt[<<s, ctx>>], "none", ctx) /\ stmt[<<s, ctx>>] \in Seq(Insns)
    BY <1>1, AllExecute DEF Executes
<1>3. ASSUME NEW ss \in Seq(T)
      PROVE  Executes(Stmts(ss, ctx, stmt), "none", ctx) /\ Stmts(ss, ctx, stmt) \in Seq(Insns)
    <2>1. \A x \in Elements(ss) : Executes(stmt[<<x, ctx>>], "none", ctx)
        BY <1>2 DEF Elements
    <2>2. Executes(Stmts(ss, ctx, stmt), "none", ctx)
        BY <2>1, StmtsExecute
    <2>. QED
        BY <2>2 DEF Executes
<1>4. \A x \in T : IsStmt(x, "none", E, S) /\ stmt[<<x, ctx>>] = Stmt(x, ctx, expr, stmt)
    BY <1>1 DEF Trees, CompiledBy
<1>5. ASSUME body # <<>>
      PROVE  /\ Front(body) \in Seq(T) /\ Last(body) \in T
             /\ Stmts(body, ctx, stmt) = Stmts(Front(body), ctx, stmt) \o stmt[<<Last(body), ctx>>]
    <2>. HIDE DEF T, ctx, body
    <2>1. body \in Seq(T)
        BY DEF T, body
    <2>2. Coded(T, ctx, stmt)
        BY <1>2 DEF Coded
    <2>. QED
        BY <1>5, <2>1, <2>2, StmtsSplit
<1>6. CASE body # <<>> /\ Last(body).kind = "expr"
    <2>. DEFINE c1 == Stmts(Front(body), ctx, stmt)
                value == expr[Last(body).arg]
    <2>1. code = c1 \o (value \o <<Ins("RETURN")>>)
        BY <1>6 DEF FunctionBody
    <2>2. Executes(c1, "none", ctx) /\ c1 \in Seq(Insns)
        BY <1>3, <1>5, <1>6
    <2>3. Evaluates(value)
        <3>1. Last(body).arg \in E
            BY <1>4, <1>5, <1>6 DEF IsStmt
        <3>. QED
            BY <3>1, AllEvaluate
    <2>. HIDE DEF c1, value, code
    <2>. QED
        BY <2>1, <2>2, <2>3, EvaluatesReturned, BodyTyped DEF code
<1>7. CASE body # <<>> /\ Last(body).kind = "return"
    <2>. DEFINE c1 == Stmts(Front(body), ctx, stmt)
                end == Last(body)
                c2 == expr[end.arg] \o <<Ins("RETURN")>>
    <2>1. code = Stmts(body, ctx, stmt) \o <<>>
        BY <1>7 DEF FunctionBody
    <2>2. Stmts(body, ctx, stmt) = c1 \o c2
        <3>1. stmt[<<end, ctx>>] = c2
            BY <1>4, <1>5, <1>7 DEF Stmt
        <3>. QED
            BY <1>5, <1>7, <3>1
    <2>3. Executes(c1, "none", ctx) /\ c1 \in Seq(Insns)
        BY <1>3, <1>5, <1>7
    <2>4. Evaluates(expr[end.arg])
        <3>1. end.arg \in E
            BY <1>4, <1>5, <1>7 DEF IsStmt
        <3>. QED
            BY <3>1, AllEvaluate
    <2>5. c2 \in Seq(Insns)
          /\ \A b \in Nat : \A lab, t, Out : IsLabels(lab) /\ Fit(t, Out) => Typed(c2, b, lab, t, Out)
        BY <2>4, EvaluatesReturned
    <2>. HIDE DEF c1, c2, code
    <2>6. c1 \o c2 \in Seq(Insns) /\ Typed(c1 \o c2, 0, <<>>, EntryType(k), {})
        BY <2>3, <2>5, BodyTyped
    <2>7. code = c1 \o c2
        BY <2>1, <2>2, <2>6
    <2>. QED
        BY <2>6, <2>7 DEF code
<1>8. CASE body = <<>> \/ (body # <<>> /\ Last(body).kind \notin {"expr", "return"})
    <2>. DEFINE c1 == Stmts(body, ctx, stmt)
    <2>1. code = c1 \o ReturnVoid
        BY <1>8 DEF FunctionBody
    <2>2. Executes(c1, "none", ctx) /\ c1 \in Seq(Insns)
        BY <1>3
    <2>. HIDE DEF c1, code
    <2>. QED
        BY <2>1, <2>2, VoidReturned, BodyTyped DEF code
<1>. QED
    BY <1>6, <1>7, <1>8

(* The compiler's code is verified: for every program whose statements and *)
(* expressions are trees, with a break in a loop only, there is a typing   *)
(* of its chunks.                                                          *)
THEOREM CompiledIsVerified ==
    ASSUME NEW E, NEW S, NEW depth, NEW expr, NEW stmt, Trees(E, S, Data, depth),
           CompiledBy(E, S, Contexts, expr, stmt), NEW p, IsProgram(p, S)
    PROVE  \E types : Verified([chunks |-> Bytecode(p, expr, stmt), types |-> types])
<1>. DEFINE fs == p.functions
            chunks == Bytecode(p, expr, stmt)
            bodies == [k \in DOMAIN fs |-> Linked(FunctionBody(fs[k], expr, stmt))]
            script == Linked(Script(p.body, stmt))
            n == Len(fs) + 1
            types == [k \in 1 .. n |-> CHOOSE ty : ChunkTyped(chunks[k], k, ty)]
            X == {script} \cup {bodies[k] : k \in DOMAIN fs}
<1>1. fs \in Seq([decides : BOOLEAN, body : Seq(S["none"])]) /\ p.body \in Seq(S["none"])
    BY DEF IsProgram
<1>2. DOMAIN fs = 1 .. Len(fs) /\ Len(fs) \in Nat
    BY <1>1
<1>3. /\ Len(chunks) = n /\ chunks[1] = script
      /\ \A k \in 1 .. Len(fs) : chunks[k + 1] = Linked(FunctionBody(fs[k], expr, stmt))
    <2>1. chunks = <<script>> \o bodies
        BY DEF Bytecode
    <2>2. <<script>> \in Seq(X) /\ Len(<<script>>) = 1 /\ <<script>>[1] = script
        OBVIOUS
    <2>3. bodies \in Seq(X) /\ Len(bodies) = Len(fs)
        BY <1>2
    <2>4. \A k \in 1 .. Len(fs) : bodies[k] = Linked(FunctionBody(fs[k], expr, stmt))
        BY <1>2
    <2>. HIDE DEF bodies, X, script, chunks
    <2>5. /\ Len(chunks) = 1 + Len(fs)
          /\ \A i \in 1 .. 1 + Len(fs) : chunks[i] = IF i <= 1 THEN <<script>>[i] ELSE bodies[i - 1]
        BY <2>1, <2>2, <2>3, ConcatProperties
    <2>6. 1 + Len(fs) = n /\ 1 \in 1 .. 1 + Len(fs) /\ 1 <= 1
        BY <1>2
    <2>7. chunks[1] = script
        BY <2>2, <2>5, <2>6
    <2>8. ASSUME NEW k \in 1 .. Len(fs) PROVE chunks[k + 1] = bodies[k]
        <3>1. k + 1 \in 1 .. 1 + Len(fs) /\ ~ (k + 1 <= 1) /\ k + 1 - 1 = k
            BY <1>2
        <3>. QED
            BY <2>5, <3>1
    <2>. QED
        BY <2>4, <2>5, <2>6, <2>7, <2>8
<1>4. ASSUME NEW k \in 1 .. n
      PROVE  \E ty : ChunkTyped(chunks[k], k, ty)
    <2>1. CASE k = 1
        <3>1. Script(p.body, stmt) \in Seq(Insns) /\ Typed(Script(p.body, stmt), 0, <<>>, EntryType(1), {})
            BY <1>1, ScriptTyped
        <3>. QED
            BY <1>3, <2>1, <3>1, LinkedVerified
    <2>2. CASE k # 1
        <3>. DEFINE j == k - 1
                    f == fs[j]
                    body == FunctionBody(f, expr, stmt)
        <3>1. j \in 1 .. Len(fs) /\ j + 1 = k
            BY <1>2, <2>2
        <3>2. f \in [decides : BOOLEAN, body : Seq(S["none"])]
            <4>. DEFINE T == [decides : BOOLEAN, body : Seq(S["none"])]
            <4>1. fs \in Seq(T)
                BY <1>1
            <4>. HIDE DEF T, fs, j
            <4>2. fs[j] \in T
                BY <3>1, <4>1
            <4>. QED
                BY <4>2 DEF T
        <3>3. f.decides \in BOOLEAN /\ f.body \in Seq(S["none"])
            BY <3>2
        <3>4. chunks[k] = Linked(body)
            <4>. HIDE DEF chunks, j
            <4>. QED
                BY <1>3, <3>1
        <3>. HIDE DEF f
        <3>5. body \in Seq(Insns) /\ Typed(body, 0, <<>>, EntryType(k), {})
            BY <3>3, FunctionTyped
        <3>. HIDE DEF body
        <3>. QED
            BY <3>4, <3>5, LinkedVerified
    <2>. QED
        BY <2>1, <2>2
<1>5. \A k \in 1 .. n : ChunkTyped(chunks[k], k, types[k])
    <2>. HIDE DEF chunks, n
    <2>. QED
        BY <1>4
<1>. HIDE DEF types, chunks
<1>6. Verified([chunks |-> chunks, types |-> types])
    <2>. DEFINE q == [chunks |-> chunks, types |-> types]
    <2>1. q.chunks = chunks /\ q.types = types
        OBVIOUS
    <2>. HIDE DEF q
    <2>2. ASSUME NEW k \in 1 .. Len(q.chunks) PROVE VerifiedChunk(q, k)
        <3>1. k \in 1 .. n
            BY <1>3, <2>1
        <3>2. ChunkTyped(q.chunks[k], k, q.types[k])
            BY <1>5, <2>1, <3>1
        <3>. QED
            BY <3>2, ChunkAlone
    <2>3. Verified(q)
        BY <2>2 DEF Verified
    <2>. QED
        BY <2>3 DEF q
<1>. QED
    BY <1>6 DEF chunks

----------------------------------------------------------------------------
(* Every tree has its code.  The code of a node depends on that of its     *)
(* parts only, so there are functions that give the code of all nodes up   *)
(* to a depth, they agree, and together they give that of every node.      *)

LEMMA ExprsAlike ==
    ASSUME NEW es, NEW f, NEW g, \A x \in Elements(es) : f[x] = g[x]
    PROVE  Exprs(es, f) = Exprs(es, g)
<1>1. \A i \in DOMAIN es : f[es[i]] = g[es[i]]
    BY DEF Elements
<1>2. [i \in DOMAIN es |-> f[es[i]]] = [i \in DOMAIN es |-> g[es[i]]]
    BY <1>1
<1>. QED
    BY <1>2 DEF Exprs

LEMMA ClausesAlike ==
    ASSUME NEW cs, NEW f, NEW g, \A x \in Tested(cs) : f[x] = g[x]
    PROVE  Clauses(cs, f) = Clauses(cs, g)
<1>1. ASSUME NEW i \in DOMAIN cs PROVE Clause(cs[i], f) = Clause(cs[i], g)
    <2>1. f[cs[i].arg] = g[cs[i].arg]
        BY DEF Tested
    <2>. QED
        BY <2>1 DEF Clause
<1>2. [i \in DOMAIN cs |-> Clause(cs[i], f)] = [i \in DOMAIN cs |-> Clause(cs[i], g)]
    BY <1>1
<1>. QED
    BY <1>2 DEF Clauses

LEMMA ExprAlike ==
    ASSUME NEW E, NEW e, IsExpr(e, E, Data), NEW f, NEW g, \A x \in Parts(e) : f[x] = g[x]
    PROVE  Expr(e, f) = Expr(e, g)
<1>1. CASE e.kind = "op"
    <2>1. Exprs(e.args, f) = Exprs(e.args, g)
        BY <1>1, ExprsAlike DEF Parts
    <2>. QED
        BY <1>1, <2>1 DEF Expr
<1>2. CASE e.kind = "const"
    BY <1>2 DEF Expr
<1>3. CASE e.kind = "unwrap"
    <2>1. f[e.arg] = g[e.arg]
        BY <1>3 DEF Parts
    <2>. QED
        BY <1>3, <2>1 DEF Expr
<1>4. CASE e.kind \in {"and", "or"}
    <2>1. f[e.left] = g[e.left] /\ f[e.right] = g[e.right]
        BY <1>4 DEF Parts
    <2>. QED
        BY <1>4, <2>1 DEF Expr
<1>5. CASE e.kind = "call"
    <2>1. Exprs(e.args, f) = Exprs(e.args, g)
        BY <1>5, ExprsAlike DEF Parts
    <2>. QED
        BY <1>5, <2>1 DEF Expr
<1>6. CASE e.kind = "ifexpr"
    <2>1. Parts(e) = Tested(e.clauses) \cup {e.then, e.else}
        BY <1>6 DEF Parts
    <2>2. Clauses(e.clauses, f) = Clauses(e.clauses, g)
        BY <2>1, ClausesAlike
    <2>3. f[e.then] = g[e.then] /\ f[e.else] = g[e.else]
        BY <2>1
    <2>. QED
        BY <1>6, <2>2, <2>3 DEF Expr
<1>. QED
    BY <1>1, <1>2, <1>3, <1>4, <1>5, <1>6 DEF IsExpr

(* f gives the code of the expressions of less than depth k.               *)
CodesTo(k, f, E, depth) == \A e \in E : depth[e] < k => f[e] = Expr(e, f)

LEMMA CodesAgree ==
    ASSUME NEW E, NEW S, NEW depth, Trees(E, S, Data, depth), NEW n \in Nat, NEW f, NEW g,
           CodesTo(n, f, E, depth), CodesTo(n, g, E, depth)
    PROVE  \A e \in E : depth[e] < n => f[e] = g[e]
<1>. DEFINE P == {k \in 0 .. n : \A e \in E : depth[e] < k => f[e] = g[e]}
<1>1. \A e \in E : depth[e] \in Nat
    BY SubExprs
<1>2. 0 \in P /\ P \subseteq 0 .. n
    BY <1>1
<1>3. ASSUME NEW k \in 1 .. n, k - 1 \in P
      PROVE  k \in P
    <2>1. ASSUME NEW e \in E, depth[e] < k
          PROVE  f[e] = g[e]
        <3>1. IsExpr(e, E, Data) /\ \A x \in Parts(e) : x \in E /\ depth[x] < k - 1
            <4>1. IsExpr(e, E, Data) /\ depth[e] \in Nat /\ \A x \in Parts(e) : x \in E /\ depth[x] < depth[e]
                BY SubExprs
            <4>. QED
                BY <1>1, <2>1, <4>1
        <3>2. \A x \in Parts(e) : f[x] = g[x]
            BY <1>3, <3>1
        <3>3. Expr(e, f) = Expr(e, g)
            BY <3>1, <3>2, ExprAlike
        <3>4. depth[e] < n
            BY <1>1, <2>1
        <3>. QED
            BY <3>3, <3>4 DEF CodesTo
    <2>. QED
        BY <2>1
<1>. QED
    <2>. HIDE DEF P
    <2>1. \A k \in 0 .. n : k \in P
        BY <1>2, <1>3, CountUp
    <2>2. n \in P
        BY <2>1
    <2>. QED
        BY <2>2 DEF P

LEMMA CodesExist ==
    ASSUME NEW E, NEW S, NEW depth, Trees(E, S, Data, depth), NEW n \in Nat
    PROVE  \E f : CodesTo(n, f, E, depth)
<1>. DEFINE P == {k \in 0 .. n : \E f : CodesTo(k, f, E, depth)}
<1>1. \A e \in E : depth[e] \in Nat
    BY SubExprs
<1>2. 0 \in P /\ P \subseteq 0 .. n
    <2>1. CodesTo(0, <<>>, E, depth)
        BY <1>1 DEF CodesTo
    <2>. QED
        BY <2>1
<1>3. ASSUME NEW k \in 1 .. n, k - 1 \in P
      PROVE  k \in P
    <2>1. PICK f : CodesTo(k - 1, f, E, depth)
        BY <1>3
    <2>. DEFINE g == [e \in E |-> Expr(e, f)]
    <2>2. ASSUME NEW e \in E, depth[e] < k
          PROVE  g[e] = Expr(e, g)
        <3>1. IsExpr(e, E, Data) /\ \A x \in Parts(e) : x \in E /\ depth[x] < k - 1
            <4>1. IsExpr(e, E, Data) /\ depth[e] \in Nat /\ \A x \in Parts(e) : x \in E /\ depth[x] < depth[e]
                BY SubExprs
            <4>. QED
                BY <1>1, <2>2, <4>1
        <3>2. \A x \in Parts(e) : f[x] = g[x]
            BY <2>1, <3>1 DEF CodesTo
        <3>. HIDE DEF g
        <3>3. Expr(e, f) = Expr(e, g)
            BY <3>1, <3>2, ExprAlike
        <3>. QED
            BY <3>3 DEF g
    <2>. HIDE DEF g
    <2>3. CodesTo(k, g, E, depth)
        BY <2>2 DEF CodesTo
    <2>. QED
        BY <2>3
<1>. QED
    <2>. HIDE DEF P
    <2>1. \A k \in 0 .. n : k \in P
        BY <1>2, <1>3, CountUp
    <2>2. n \in P
        BY <2>1
    <2>. QED
        BY <2>2 DEF P

LEMMA ExprsHaveCode ==
    ASSUME NEW E, NEW S, NEW depth, Trees(E, S, Data, depth)
    PROVE  \E expr : \A e \in E : expr[e] = Expr(e, expr)
<1>. DEFINE to(k) == CHOOSE f : CodesTo(k, f, E, depth)
            expr == [e \in E |-> to(depth[e] + 1)[e]]
<1>1. \A k \in Nat : CodesTo(k, to(k), E, depth)
    BY CodesExist
<1>2. \A e \in E : expr[e] = to(depth[e] + 1)[e]
    OBVIOUS
<1>. HIDE DEF to, expr
<1>3. ASSUME NEW e \in E
      PROVE  expr[e] = Expr(e, expr)
    <2>. DEFINE f == to(depth[e] + 1)
    <2>1. IsExpr(e, E, Data) /\ depth[e] \in Nat /\ \A x \in Parts(e) : x \in E /\ depth[x] < depth[e]
        BY SubExprs
    <2>2. CodesTo(depth[e] + 1, f, E, depth)
        BY <1>1, <2>1
    <2>. HIDE DEF f
    <2>3. f[e] = Expr(e, f)
        BY <2>1, <2>2 DEF CodesTo
    <2>4. ASSUME NEW x \in Parts(e)
          PROVE  f[x] = expr[x]
        <3>. DEFINE m == depth[x] + 1
                    h == to(m)
        <3>1. x \in E /\ depth[x] \in Nat /\ depth[x] < depth[e]
            BY <2>1, SubExprs
        <3>2. m \in Nat /\ depth[x] < m /\ \A d \in Nat : d < m => d < depth[e] + 1
            BY <2>1, <3>1
        <3>3. CodesTo(m, h, E, depth)
            BY <1>1, <3>2
        <3>. HIDE DEF m, h
        <3>4. \A y \in E : depth[y] \in Nat
            BY SubExprs
        <3>5. CodesTo(m, f, E, depth)
            BY <2>2, <3>2, <3>4 DEF CodesTo
        <3>6. f[x] = h[x]
            BY <3>1, <3>2, <3>3, <3>5, CodesAgree
        <3>. QED
            BY <1>2, <3>1, <3>6 DEF h, m
    <2>5. Expr(e, f) = Expr(e, expr)
        BY <2>1, <2>4, ExprAlike
    <2>. QED
        BY <1>2, <2>3, <2>5 DEF f
<1>. QED
    BY <1>3

LEMMA StmtsAlike ==
    ASSUME NEW ss, NEW ctx, NEW f, NEW g, \A y \in Elements(ss) : f[<<y, ctx>>] = g[<<y, ctx>>]
    PROVE  Stmts(ss, ctx, f) = Stmts(ss, ctx, g)
<1>1. \A i \in DOMAIN ss : f[<<ss[i], ctx>>] = g[<<ss[i], ctx>>]
    BY DEF Elements
<1>2. [i \in DOMAIN ss |-> f[<<ss[i], ctx>>]] = [i \in DOMAIN ss |-> g[<<ss[i], ctx>>]]
    BY <1>1
<1>. QED
    BY <1>2 DEF Stmts

AlikeOn(T, f, g) == \A y \in T : \A c \in Contexts : f[<<y, c>>] = g[<<y, c>>]

LEMMA StmtAlike ==
    ASSUME NEW E, NEW S, NEW p, NEW s, IsStmt(s, p, E, S), NEW ctx \in Contexts, NEW expr,
           NEW f, NEW g, AlikeOn(Inner(s), f, g)
    PROVE  Stmt(s, ctx, expr, f) = Stmt(s, ctx, expr, g)
<1>. DEFINE in == InScope(ctx)
            loop == InLoop(InScope(ctx))
<1>1. in \in Contexts /\ loop \in Contexts
    BY ContextFacts
<1>2. CASE s.kind \notin {"if", "for", "loop"}
    BY <1>2 DEF IsStmt, Stmt
<1>3. CASE s.kind = "if"
    <2>1. Inner(s) = Elements(s.then) \cup Elements(s.else)
        BY <1>3 DEF Inner
    <2>. HIDE DEF in
    <2>2. Stmts(s.then, in, f) = Stmts(s.then, in, g) /\ Stmts(s.else, in, f) = Stmts(s.else, in, g)
        BY <1>1, <2>1, StmtsAlike DEF AlikeOn
    <2>3. Stmt(s, ctx, expr, f) = IfStmt(s, ctx, expr, f) /\ Stmt(s, ctx, expr, g) = IfStmt(s, ctx, expr, g)
        BY <1>3 DEF Stmt
    <2>. QED
        BY <2>2, <2>3 DEF IfStmt, in
<1>4. CASE s.kind = "for"
    <2>1. Inner(s) = Elements(s.body)
        BY <1>4 DEF Inner
    <2>. HIDE DEF loop
    <2>2. Stmts(s.body, loop, f) = Stmts(s.body, loop, g)
        BY <1>1, <2>1, StmtsAlike DEF AlikeOn
    <2>3. Stmt(s, ctx, expr, f) = ForStmt(s, ctx, expr, f) /\ Stmt(s, ctx, expr, g) = ForStmt(s, ctx, expr, g)
        BY <1>4 DEF Stmt
    <2>4. ForLoop(s, ctx, expr, f) = ForLoop(s, ctx, expr, g)
        BY <2>2 DEF ForLoop, loop
    <2>. QED
        BY <2>3, <2>4 DEF ForStmt
<1>5. CASE s.kind = "loop"
    <2>1. Inner(s) = Elements(s.body)
        BY <1>5 DEF Inner
    <2>. HIDE DEF loop
    <2>2. Stmts(s.body, loop, f) = Stmts(s.body, loop, g)
        BY <1>1, <2>1, StmtsAlike DEF AlikeOn
    <2>3. Stmt(s, ctx, expr, f) = LoopStmt(s, ctx, f) /\ Stmt(s, ctx, expr, g) = LoopStmt(s, ctx, g)
        BY <1>5 DEF Stmt
    <2>. QED
        BY <2>2, <2>3 DEF LoopStmt, loop
<1>. QED
    BY <1>2, <1>3, <1>4, <1>5

(* f gives the code of the statements of less than depth k, in any context.*)
StmtsTo(k, f, expr, S, depth) ==
    \A p \in Places : \A s \in S[p] : \A c \in Contexts :
        depth[s] < k => f[<<s, c>>] = Stmt(s, c, expr, f)

AgreeTo(k, f, g, S, depth) ==
    \A p \in Places : \A s \in S[p] : \A c \in Contexts : depth[s] < k => f[<<s, c>>] = g[<<s, c>>]

(* Functions that agree below a depth agree within a statement of it.      *)
LEMMA WithinAlike ==
    ASSUME NEW E, NEW S, NEW depth, Trees(E, S, Data, depth), NEW p \in Places, NEW s \in S[p],
           NEW k \in Nat, depth[s] <= k, NEW f, NEW g, AgreeTo(k, f, g, S, depth)
    PROVE  AlikeOn(Inner(s), f, g)
<1>1. Within(s, p) \in Places /\ depth[s] \in Nat
      /\ \A y \in Inner(s) : y \in S[Within(s, p)] /\ depth[y] < depth[s]
    BY SubStmts
<1>2. ASSUME NEW y \in Inner(s), NEW c \in Contexts PROVE f[<<y, c>>] = g[<<y, c>>]
    <2>1. y \in S[Within(s, p)] /\ depth[y] < depth[s]
        BY <1>1
    <2>2. depth[y] \in Nat
        BY <1>1, <2>1, SubStmts
    <2>3. depth[y] < k
        BY <1>1, <2>1, <2>2
    <2>. QED
        BY <1>1, <2>1, <2>3 DEF AgreeTo
<1>. QED
    BY <1>2 DEF AlikeOn

LEMMA StmtsAgree ==
    ASSUME NEW E, NEW S, NEW depth, Trees(E, S, Data, depth), NEW expr, NEW n \in Nat, NEW f, NEW g,
           StmtsTo(n, f, expr, S, depth), StmtsTo(n, g, expr, S, depth)
    PROVE  AgreeTo(n, f, g, S, depth)
<1>. DEFINE P == {k \in 0 .. n : AgreeTo(k, f, g, S, depth)}
<1>1. \A p \in Places : \A s \in S[p] : depth[s] \in Nat
    BY SubStmts
<1>2. 0 \in P /\ P \subseteq 0 .. n
    <2>1. AgreeTo(0, f, g, S, depth)
        BY <1>1 DEF AgreeTo
    <2>. QED
        BY <2>1
<1>3. ASSUME NEW k \in 1 .. n, k - 1 \in P
      PROVE  k \in P
    <2>1. ASSUME NEW p \in Places, NEW s \in S[p], NEW c \in Contexts, depth[s] < k
          PROVE  f[<<s, c>>] = g[<<s, c>>]
        <3>1. depth[s] \in Nat /\ depth[s] <= k - 1 /\ depth[s] < n /\ k - 1 \in Nat
            BY <1>1, <2>1
        <3>2. AgreeTo(k - 1, f, g, S, depth)
            BY <1>3
        <3>3. AlikeOn(Inner(s), f, g)
            BY <3>1, <3>2, WithinAlike
        <3>4. IsStmt(s, p, E, S)
            BY SubStmts
        <3>5. Stmt(s, c, expr, f) = Stmt(s, c, expr, g)
            BY <3>3, <3>4, StmtAlike
        <3>. QED
            BY <3>1, <3>5 DEF StmtsTo
    <2>2. AgreeTo(k, f, g, S, depth)
        BY <2>1 DEF AgreeTo
    <2>. QED
        BY <2>2
<1>. QED
    <2>. HIDE DEF P
    <2>1. \A k \in 0 .. n : k \in P
        BY <1>2, <1>3, CountUp
    <2>2. n \in P
        BY <2>1
    <2>. QED
        BY <2>2 DEF P

Everywhere(S) == UNION {S[p] : p \in Places}

LEMMA StmtsExist ==
    ASSUME NEW E, NEW S, NEW depth, Trees(E, S, Data, depth), NEW expr, NEW n \in Nat
    PROVE  \E f : StmtsTo(n, f, expr, S, depth)
<1>. DEFINE P == {k \in 0 .. n : \E f : StmtsTo(k, f, expr, S, depth)}
<1>1. \A p \in Places : \A s \in S[p] : depth[s] \in Nat
    BY SubStmts
<1>2. 0 \in P /\ P \subseteq 0 .. n
    <2>1. StmtsTo(0, <<>>, expr, S, depth)
        BY <1>1 DEF StmtsTo
    <2>. QED
        BY <2>1
<1>3. ASSUME NEW k \in 1 .. n, k - 1 \in P
      PROVE  k \in P
    <2>1. PICK f : StmtsTo(k - 1, f, expr, S, depth)
        BY <1>3
    <2>. DEFINE g == [z \in Everywhere(S) \X Contexts |-> Stmt(z[1], z[2], expr, f)]
    <2>2. \A p \in Places : \A s \in S[p] : \A c \in Contexts : g[<<s, c>>] = Stmt(s, c, expr, f)
        <3>1. \A s \in Everywhere(S) : \A c \in Contexts : g[<<s, c>>] = Stmt(s, c, expr, f)
            OBVIOUS
        <3>2. \A p \in Places : \A s \in S[p] : s \in Everywhere(S)
            BY DEF Everywhere
        <3>. HIDE DEF g
        <3>. QED
            BY <3>1, <3>2
    <2>. HIDE DEF g
    <2>3. AgreeTo(k - 1, f, g, S, depth)
        BY <2>1, <2>2 DEF AgreeTo, StmtsTo
    <2>4. ASSUME NEW p \in Places, NEW s \in S[p], NEW c \in Contexts, depth[s] < k
          PROVE  g[<<s, c>>] = Stmt(s, c, expr, g)
        <3>1. depth[s] <= k - 1 /\ k - 1 \in Nat
            BY <1>1, <2>4
        <3>2. AlikeOn(Inner(s), f, g)
            BY <2>3, <3>1, WithinAlike
        <3>3. IsStmt(s, p, E, S)
            BY SubStmts
        <3>4. Stmt(s, c, expr, f) = Stmt(s, c, expr, g)
            BY <3>2, <3>3, StmtAlike
        <3>. QED
            BY <2>2, <3>4
    <2>5. StmtsTo(k, g, expr, S, depth)
        BY <2>4 DEF StmtsTo
    <2>. QED
        BY <2>5
<1>. QED
    <2>. HIDE DEF P
    <2>1. \A k \in 0 .. n : k \in P
        BY <1>2, <1>3, CountUp
    <2>2. n \in P
        BY <2>1
    <2>. QED
        BY <2>2 DEF P

StmtsGiven(S, expr, stmt) ==
    \A p \in Places : \A s \in S[p] : \A c \in Contexts : stmt[<<s, c>>] = Stmt(s, c, expr, stmt)

LEMMA StmtsHaveCode ==
    ASSUME NEW E, NEW S, NEW depth, Trees(E, S, Data, depth), NEW expr
    PROVE  \E stmt : StmtsGiven(S, expr, stmt)
<1>. DEFINE to(k) == CHOOSE f : StmtsTo(k, f, expr, S, depth)
            stmt == [z \in Everywhere(S) \X Contexts |-> to(depth[z[1]] + 1)[z]]
<1>1. \A k \in Nat : StmtsTo(k, to(k), expr, S, depth)
    BY StmtsExist
<1>2. \A p \in Places : \A s \in S[p] : \A c \in Contexts : stmt[<<s, c>>] = to(depth[s] + 1)[<<s, c>>]
    <2>1. \A s \in Everywhere(S) : \A c \in Contexts : stmt[<<s, c>>] = to(depth[s] + 1)[<<s, c>>]
        <3>. HIDE DEF to
        <3>. QED
            OBVIOUS
    <2>2. \A p \in Places : \A s \in S[p] : s \in Everywhere(S)
        BY DEF Everywhere
    <2>. HIDE DEF stmt, to
    <2>. QED
        BY <2>1, <2>2
<1>. HIDE DEF to, stmt
<1>3. \A p \in Places : \A s \in S[p] : depth[s] \in Nat
    BY SubStmts
<1>4. ASSUME NEW k \in Nat
      PROVE  AgreeTo(k, to(k), stmt, S, depth)
    <2>1. ASSUME NEW p \in Places, NEW s \in S[p], NEW c \in Contexts, depth[s] < k
          PROVE  to(k)[<<s, c>>] = stmt[<<s, c>>]
        <3>. DEFINE m == depth[s] + 1
                    f == to(k)
                    h == to(m)
        <3>1. m \in Nat /\ depth[s] < m /\ \A d \in Nat : d < m => d < k
            BY <1>3, <2>1
        <3>2. StmtsTo(m, h, expr, S, depth) /\ StmtsTo(k, f, expr, S, depth)
            BY <1>1, <3>1
        <3>3. stmt[<<s, c>>] = h[<<s, c>>]
            BY <1>2
        <3>. HIDE DEF m, h, f
        <3>4. StmtsTo(m, f, expr, S, depth)
            BY <1>3, <3>1, <3>2 DEF StmtsTo
        <3>5. AgreeTo(m, f, h, S, depth)
            BY <3>1, <3>2, <3>4, StmtsAgree
        <3>6. f[<<s, c>>] = h[<<s, c>>]
            BY <3>1, <3>5 DEF AgreeTo
        <3>. QED
            BY <3>3, <3>6 DEF f
    <2>. QED
        BY <2>1 DEF AgreeTo
<1>5. ASSUME NEW p \in Places, NEW s \in S[p], NEW c \in Contexts
      PROVE  stmt[<<s, c>>] = Stmt(s, c, expr, stmt)
    <2>. DEFINE k == depth[s] + 1
                f == to(k)
    <2>1. k \in Nat /\ depth[s] < k /\ depth[s] <= k
        BY <1>3
    <2>. HIDE DEF k
    <2>2. StmtsTo(k, f, expr, S, depth) /\ AgreeTo(k, f, stmt, S, depth)
        BY <1>1, <1>4, <2>1
    <2>. HIDE DEF f
    <2>3. f[<<s, c>>] = Stmt(s, c, expr, f) /\ f[<<s, c>>] = stmt[<<s, c>>]
        BY <2>1, <2>2 DEF StmtsTo, AgreeTo
    <2>4. AlikeOn(Inner(s), f, stmt)
        BY <2>1, <2>2, WithinAlike
    <2>5. IsStmt(s, p, E, S)
        BY SubStmts
    <2>6. Stmt(s, c, expr, f) = Stmt(s, c, expr, stmt)
        BY <2>4, <2>5, StmtAlike
    <2>. QED
        BY <2>3, <2>6
<1>6. StmtsGiven(S, expr, stmt)
    BY <1>5 DEF StmtsGiven
<1>. QED
    BY <1>6

(* The compiler's recursion over the tree ends: all nodes have code, in    *)
(* any context, as Expr and Stmt give it.                                  *)
THEOREM TreesHaveCode ==
    ASSUME NEW E, NEW S, NEW depth, Trees(E, S, Data, depth)
    PROVE  \E expr : \E stmt : CompiledBy(E, S, Contexts, expr, stmt)
<1>1. PICK expr : \A e \in E : expr[e] = Expr(e, expr)
    BY ExprsHaveCode
<1>2. PICK stmt : StmtsGiven(S, expr, stmt)
    BY StmtsHaveCode
<1>3. CompiledBy(E, S, Contexts, expr, stmt)
    BY <1>1, <1>2 DEF CompiledBy, StmtsGiven
<1>. QED
    BY <1>3

----------------------------------------------------------------------------
(* Programs of the machine.                                                *)

(* A program of the machine is compiled from trees: its chunks are the     *)
(* compiler's, and its types verify it if any do.                          *)
Compiles(p, E, S) ==
    /\ IsProgram(p, S)
    /\ \A expr, stmt : CompiledBy(E, S, Contexts, expr, stmt) => p.chunks = Bytecode(p, expr, stmt)
    /\ (\E types : Verified([chunks |-> p.chunks, types |-> types])) => Verified(p)

LEMMA ProgramStays == Spec => [](program \in Programs)
<1>1. Init => program \in Programs
    BY DEF Init
<1>2. program \in Programs /\ [Next]_vars => (program \in Programs)'
    BY DEF Next, vars, Eval, Load, Store, Drop, PushScope, PopScope, Jump, JumpIf, PushHandler, PopHandler,
           ClauseCheck, Accept, Raise, Call, Return, GetIter, ForIter, Error, Crash, Ended, NoEvent
<1>. QED
    BY <1>1, <1>2, PTL DEF Spec

(* The compiler verifies: if the programs that have a source are compiled  *)
(* from trees, of any depth, each of them is verified.                     *)
THEOREM CompilerIsVerified ==
    ASSUME NEW CONSTANT E, NEW CONSTANT S, NEW CONSTANT depth, Trees(E, S, Data, depth),
           \A p \in Programs : "body" \in DOMAIN p => Compiles(p, E, S)
    PROVE  Spec => []CompilerVerifies
<1>1. program \in Programs => CompilerVerifies
    <2>. SUFFICES ASSUME program \in Programs, FromSource PROVE Verified(program)
        BY DEF CompilerVerifies
    <2>1. Compiles(program, E, S)
        BY DEF FromSource
    <2>2. PICK expr, stmt : CompiledBy(E, S, Contexts, expr, stmt)
        BY TreesHaveCode
    <2>3. IsProgram(program, S) /\ program.chunks = Bytecode(program, expr, stmt)
        BY <2>1, <2>2 DEF Compiles
    <2>4. \E types : Verified([chunks |-> Bytecode(program, expr, stmt), types |-> types])
        BY <2>2, <2>3, CompiledIsVerified
    <2>. QED
        BY <2>1, <2>3, <2>4 DEF Compiles
<1>. QED
    BY <1>1, ProgramStays, PTL

(* Whatever its computations return, refuse or fail with, each instruction *)
(* of a program that the compiler has made finds what it works on when it  *)
(* is due: its operands, an iterator under a FOR_ITER, a handler or a      *)
(* scope of its own to leave.  It says nothing of what the functions on    *)
(* values may raise.                                                       *)
CompiledIsProvided == FromSource => Provided

THEOREM CompiledFindsItsOperands ==
    ASSUME NEW CONSTANT E, NEW CONSTANT S, NEW CONSTANT depth, Trees(E, S, Data, depth),
           \A p \in Programs : "body" \in DOMAIN p => Compiles(p, E, S)
    PROVE  Spec => []CompiledIsProvided
<1>1. Spec => []CompilerVerifies
    BY CompilerIsVerified
<1>2. CompilerVerifies /\ IInv => CompiledIsProvided
    BY TypedIsProvided DEF CompilerVerifies, IInv, VerifiedStaysTyped, CompiledIsProvided
<1>. QED
    BY <1>1, <1>2, Invariance, PTL
=============================================================================

------------------------- MODULE EnvironmentsProofs -------------------------
(***************************************************************************)
(* Proofs about Environments, for any names and any bounds: the variables  *)
(* keep their types, and every frame stays among scopes of its own.        *)
(*                                                                         *)
(* The inductive invariant adds to the two that scopes form a forest, each *)
(* created after its parent and, unless a frame started in it, by the      *)
(* frame that created its parent; and that a pending update came from a    *)
(* variable its scope still sees.                                          *)
(***************************************************************************)
EXTENDS Environments, TLAPS, SequenceTheorems, WellFoundedInduction

(* The parts of the invariant, of any threads th, scopes sc and cells ce.  *)
Tree(sc) ==
    \A s \in DOMAIN sc :
        /\ sc[s].sees \subseteq 1..s
        /\ sc[s].opener # s => /\ sc[s].parent \in DOMAIN sc
                               /\ sc[sc[s].parent].opener = sc[s].opener

Owns(f, sc) == \A s \in {f.env} \cup Held(f) : s \in DOMAIN sc /\ sc[s].opener = f.base

Pending(f, sc, ce) ==
    \A j \in DOMAIN f.update :
        /\ f.update[j].from \in sc[f.update[j].env].sees
        /\ f.update[j].name \in DOMAIN ce[f.update[j].from]

Sound(f, sc, ce) == Owns(f, sc) /\ Pending(f, sc, ce)

AllSound(th, sc, ce) == \A t \in DOMAIN th : \A k \in DOMAIN th[t] : Sound(th[t][k], sc, ce)

Apart(th) ==
    \A t, u \in DOMAIN th : \A k \in DOMAIN th[t], j \in DOMAIN th[u] :
        th[t][k].base = th[u][j].base => t = u /\ k = j

IInv ==
    /\ TypeOK
    /\ Tree(scopes)
    /\ AllSound(threads, scopes, cells)
    /\ Apart(threads)

(* Scopes are only added, and names only defined.                          *)
Grows(sc, ce, sc2, ce2) ==
    /\ \A s \in DOMAIN sc : /\ s \in DOMAIN sc2 /\ sc2[s] = sc[s]
                            /\ DOMAIN ce[s] \subseteq DOMAIN ce2[s]

(* A frame of th2 is one of th, with the same base if it changed, or the   *)
(* only one to start in a scope that is new.                               *)
OldFrame(th, th2, sc2, ce2, t, k) ==
    /\ t \in DOMAIN th /\ k \in DOMAIN th[t]
    /\ \/ th2[t][k] = th[t][k]
       \/ th2[t][k].base = th[t][k].base /\ Sound(th2[t][k], sc2, ce2)
StartedFrame(th2, sc, sc2, ce2, t, k) ==
    /\ th2[t][k].base \notin DOMAIN sc
    /\ Sound(th2[t][k], sc2, ce2)
    /\ \A u \in DOMAIN th2 : \A j \in DOMAIN th2[u] :
        th2[u][j].base = th2[t][k].base => u = t /\ j = k

----------------------------------------------------------------------------
(* A frame that does not change stays sound as scopes and names are added. *)
LEMMA SoundStays ==
    ASSUME NEW f, NEW sc, NEW ce, NEW sc2, NEW ce2,
           Tree(sc), Grows(sc, ce, sc2, ce2), Sound(f, sc, ce),
           \E n \in Nat : DOMAIN sc = 1..n
    PROVE  Sound(f, sc2, ce2)
    <1>1. Owns(f, sc2)
        BY DEF Grows, Sound, Owns
    <1>2. ASSUME NEW j \in DOMAIN f.update
          PROVE  /\ f.update[j].from \in sc2[f.update[j].env].sees
                 /\ f.update[j].name \in DOMAIN ce2[f.update[j].from]
        <2>1. f.update[j].env \in DOMAIN sc
            BY DEF Sound, Owns, Held
        <2>2. f.update[j].from \in 1..f.update[j].env
            BY <2>1 DEF Sound, Pending, Tree
        <2>3. f.update[j].from \in DOMAIN sc
            BY <2>1, <2>2
        <2>. QED
            BY <2>1, <2>3 DEF Sound, Pending, Grows
    <1>. QED
        BY <1>1, <1>2 DEF Sound, Pending

(* The frames of a step, one by one.                                       *)
LEMMA NextFrames ==
    ASSUME NEW th, NEW sc, NEW ce, NEW th2, NEW sc2, NEW ce2,
           Tree(sc), AllSound(th, sc, ce), Apart(th), Grows(sc, ce, sc2, ce2),
           \E n \in Nat : DOMAIN sc = 1..n,
           \A t \in DOMAIN th2 : \A k \in DOMAIN th2[t] :
               \/ OldFrame(th, th2, sc2, ce2, t, k)
               \/ StartedFrame(th2, sc, sc2, ce2, t, k)
    PROVE  AllSound(th2, sc2, ce2) /\ Apart(th2)
    <1>1. ASSUME NEW t \in DOMAIN th2, NEW k \in DOMAIN th2[t]
          PROVE  Sound(th2[t][k], sc2, ce2)
        <2>1. CASE StartedFrame(th2, sc, sc2, ce2, t, k)
            BY <2>1 DEF StartedFrame
        <2>2. CASE OldFrame(th, th2, sc2, ce2, t, k) /\ th2[t][k] = th[t][k]
            <3>1. Sound(th[t][k], sc, ce)
                BY <2>2 DEF OldFrame, AllSound
            <3>. QED
                BY <2>2, <3>1, SoundStays
        <2>. QED
            BY <2>1, <2>2 DEF OldFrame
    <1>2. ASSUME NEW t \in DOMAIN th2, NEW u \in DOMAIN th2,
                 NEW k \in DOMAIN th2[t], NEW j \in DOMAIN th2[u],
                 th2[t][k].base = th2[u][j].base
          PROVE  t = u /\ k = j
        <2>1. CASE StartedFrame(th2, sc, sc2, ce2, t, k) \/ StartedFrame(th2, sc, sc2, ce2, u, j)
            BY <1>2, <2>1 DEF StartedFrame
        <2>2. CASE OldFrame(th, th2, sc2, ce2, t, k) /\ OldFrame(th, th2, sc2, ce2, u, j)
            <3>1. th[t][k].base = th[u][j].base
                BY <1>2, <2>2 DEF OldFrame
            <3>. QED
                BY <2>2, <3>1 DEF OldFrame, Apart
        <2>. QED
            BY <2>1, <2>2
    <1>. QED
        BY <1>1, <1>2 DEF AllSound, Apart

(* Nothing but the frames changed, and each is a frame there was.          *)
LEMMA SameScopes ==
    ASSUME NEW th, NEW sc, NEW ce, NEW th2,
           Tree(sc), AllSound(th, sc, ce), Apart(th),
           \E n \in Nat : DOMAIN sc = 1..n,
           \A t \in DOMAIN th2 : \A k \in DOMAIN th2[t] : OldFrame(th, th2, sc, ce, t, k)
    PROVE  AllSound(th2, sc, ce) /\ Apart(th2)
    <1>1. Grows(sc, ce, sc, ce)
        BY DEF Grows
    <1>. QED
        BY <1>1, NextFrames

(* The innermost frame of a thread replaced.                               *)
LEMMA ReplaceTop ==
    ASSUME NEW S, NEW th \in Seq(Seq(S)), NEW t \in DOMAIN th, th[t] # <<>>, NEW f \in S
    PROVE  LET th2 == [th EXCEPT ![t][Len(th[t])] = f]
           IN  /\ Len(th[t]) \in DOMAIN th[t] /\ th[t][Len(th[t])] \in S
               /\ th2 \in Seq(Seq(S)) /\ Len(th2) = Len(th)
               /\ \A u \in DOMAIN th2 :
                    /\ u \in DOMAIN th /\ DOMAIN th2[u] = DOMAIN th[u]
                    /\ \A k \in DOMAIN th2[u] :
                        th2[u][k] = IF u = t /\ k = Len(th[t]) THEN f ELSE th[u][k]
    <1> DEFINE th2 == [th EXCEPT ![t][Len(th[t])] = f]
    <1>1. Len(th[t]) \in DOMAIN th[t] /\ th[t] \in Seq(S)
        OBVIOUS
    <1>2. [th[t] EXCEPT ![Len(th[t])] = f] \in Seq(S)
        BY <1>1
    <1>3. th2 = [th EXCEPT ![t] = [th[t] EXCEPT ![Len(th[t])] = f]]
        OBVIOUS
    <1>4. th2 \in Seq(Seq(S)) /\ Len(th2) = Len(th)
        BY <1>2, <1>3
    <1>. QED
        BY <1>1, <1>3, <1>4

LEMMA SeqOfFunction ==
    ASSUME NEW S, NEW n \in Nat, NEW f \in [1..n -> S]
    PROVE  f \in Seq(S) /\ Len(f) = n
    BY SeqDef

(* A non-empty set of numbers up to s has a greatest one.                  *)
LEMMA Greatest ==
    ASSUME NEW s \in Nat, NEW X \in SUBSET (1..s), X # {}
    PROVE  \E m \in X : \A d \in X : d <= m
    <1> DEFINE R == {p \in Nat \X Nat : p[1] < p[2]}
               T == {s - x : x \in X}
    <1>1. IsWellFoundedOn(R, Nat)
        BY NatLessThanWellFounded DEF OpToRel
    <1>2. T \subseteq Nat /\ T # {}
        <2>1. \A x \in X : s - x \in Nat
            OBVIOUS
        <2>. QED
            BY <2>1
    <1>3. PICK v \in T : \A w \in T : <<w, v>> \notin R
        <2> HIDE DEF R, T
        <2>. QED
            BY <1>1, <1>2, WFMin
    <1>4. PICK m \in X : v = s - m
        OBVIOUS
    <1>5. ASSUME NEW d \in X
          PROVE  d <= m
        <2>1. s - d \in T /\ s - d \in Nat /\ s - m \in Nat
            OBVIOUS
        <2>2. <<s - d, s - m>> \notin R
            BY <1>3, <1>4, <2>1
        <2>3. ~ (s - d < s - m)
            BY <2>1, <2>2
        <2>. QED
            BY <2>1, <2>3
    <1>. QED
        BY <1>5

----------------------------------------------------------------------------
(* Only the innermost frame of a thread changes, and keeps its base.       *)
LEMMA TopStep ==
    ASSUME NEW th \in Seq(Seq(FrameType)), NEW t \in DOMAIN th, th[t] # <<>>,
           NEW f \in FrameType, f.base = th[t][Len(th[t])].base,
           NEW sc, NEW ce, NEW sc2, NEW ce2,
           Tree(sc), AllSound(th, sc, ce), Apart(th), Grows(sc, ce, sc2, ce2),
           \E n \in Nat : DOMAIN sc = 1..n, Sound(f, sc2, ce2)
    PROVE  LET th2 == [th EXCEPT ![t][Len(th[t])] = f]
           IN  /\ th2 \in Seq(Seq(FrameType)) /\ Len(th2) = Len(th)
               /\ AllSound(th2, sc2, ce2) /\ Apart(th2)
    <1> DEFINE th2 == [th EXCEPT ![t][Len(th[t])] = f]
    <1>1. /\ th2 \in Seq(Seq(FrameType)) /\ Len(th2) = Len(th)
          /\ \A u \in DOMAIN th2 :
               /\ u \in DOMAIN th /\ DOMAIN th2[u] = DOMAIN th[u]
               /\ \A k \in DOMAIN th2[u] :
                   th2[u][k] = IF u = t /\ k = Len(th[t]) THEN f ELSE th[u][k]
        BY ReplaceTop
    <1>. HIDE DEF th2
    <1>2. ASSUME NEW u \in DOMAIN th2, NEW k \in DOMAIN th2[u]
          PROVE  OldFrame(th, th2, sc2, ce2, u, k)
        BY <1>1 DEF OldFrame
    <1>3. AllSound(th2, sc2, ce2) /\ Apart(th2)
        BY <1>2, NextFrames
    <1>. QED
        BY <1>1, <1>3 DEF th2

(* Each thread keeps a prefix of its frames.                               *)
LEMMA PrefixStep ==
    ASSUME NEW th, NEW sc, NEW ce, NEW th2, Tree(sc), AllSound(th, sc, ce), Apart(th),
           \E n \in Nat : DOMAIN sc = 1..n,
           \A t \in DOMAIN th2 :
               /\ t \in DOMAIN th /\ DOMAIN th2[t] \subseteq DOMAIN th[t]
               /\ \A k \in DOMAIN th2[t] : th2[t][k] = th[t][k]
    PROVE  AllSound(th2, sc, ce) /\ Apart(th2)
    <1>1. \A t \in DOMAIN th2 : \A k \in DOMAIN th2[t] : OldFrame(th, th2, sc, ce, t, k)
        BY DEF OldFrame
    <1>. QED
        BY <1>1, SameScopes

(* What the invariant says of a thread that has frames.                    *)
LEMMA TopFacts ==
    ASSUME IInv, NEW t \in DOMAIN threads, ~ Ended(t)
    PROVE  /\ Len(scopes) \in Nat /\ DOMAIN scopes = 1..Len(scopes)
           /\ DOMAIN cells = DOMAIN scopes /\ DOMAIN latest = DOMAIN scopes
           /\ \E n \in Nat : DOMAIN scopes = 1..n
           /\ DOMAIN scopes \subseteq ScopeIds
           /\ threads[t] \in Seq(FrameType) /\ threads[t] # <<>>
           /\ Len(threads[t]) \in DOMAIN threads[t]
           /\ Top(t) \in FrameType /\ Top(t) = threads[t][Len(threads[t])]
           /\ Sound(Top(t), scopes, cells)
           /\ Top(t).env \in DOMAIN scopes /\ Top(t).base \in DOMAIN scopes
           /\ scopes[Top(t).env].opener = Top(t).base /\ scopes[Top(t).base].opener = Top(t).base
    <1>1. threads[t] \in Seq(FrameType) /\ threads[t] # <<>>
        BY DEF IInv, TypeOK, Ended
    <1>2. Len(threads[t]) \in DOMAIN threads[t] /\ Top(t) \in FrameType
        BY <1>1 DEF Top
    <1>3. Sound(Top(t), scopes, cells)
        BY <1>2 DEF IInv, AllSound, Top
    <1>4. /\ Top(t).env \in DOMAIN scopes /\ Top(t).base \in DOMAIN scopes
          /\ scopes[Top(t).env].opener = Top(t).base /\ scopes[Top(t).base].opener = Top(t).base
        BY <1>3 DEF Sound, Owns, Held
    <1>5. Len(scopes) \in Nat /\ DOMAIN scopes = 1..Len(scopes) /\ DOMAIN scopes \subseteq ScopeIds
        BY BoundsAssumption DEF IInv, TypeOK, ScopeIds
    <1>6. DOMAIN cells = DOMAIN scopes /\ DOMAIN latest = DOMAIN scopes
        BY <1>5 DEF IInv, TypeOK
    <1>. QED
        BY <1>1, <1>2, <1>3, <1>4, <1>5, <1>6 DEF Top

(* A name that is defined denotes a scope that exists and defines it.      *)
LEMMA DenotesFacts ==
    ASSUME TypeOK, Tree(scopes), NEW s \in Scopes, NEW n, Defined(s, n)
    PROVE  /\ Denotes(s, n) \in Scopes /\ Denotes(s, n) \in scopes[s].sees
           /\ n \in DOMAIN cells[Denotes(s, n)]
    <1> DEFINE X == {c \in scopes[s].sees : n \in DOMAIN cells[c]}
    <1>1. s \in Nat /\ X \subseteq 1..s /\ X # {} /\ DOMAIN scopes = 1..Len(scopes) /\ Len(scopes) \in Nat
        BY DEF TypeOK, Tree, Defined, Scopes
    <1>2. \E m \in X : \A d \in X : d <= m
        BY <1>1, Greatest
    <1>3. \E c \in scopes[s].sees : /\ n \in DOMAIN cells[c]
                                    /\ \A d \in scopes[s].sees : n \in DOMAIN cells[d] => d <= c
        BY <1>2
    <1>4. Denotes(s, n) \in X
        BY <1>3 DEF Denotes
    <1>. QED
        BY <1>1, <1>4 DEF Scopes

----------------------------------------------------------------------------
(* Steps that change the innermost frame of a thread, and nothing else.    *)
LEMMA OnlyTop ==
    ASSUME IInv, NEW t \in DOMAIN threads, ~ Ended(t),
           NEW f \in FrameType, f.base = Top(t).base, Sound(f, scopes, cells),
           Becomes(t, f), UNCHANGED <<scopes, store, captured, cancelled>>
    PROVE  IInv'
    <1>1. Grows(scopes, cells, scopes, cells)
        BY DEF Grows
    <1>2. /\ threads' \in Seq(Seq(FrameType)) /\ Len(threads') = Len(threads)
          /\ AllSound(threads', scopes, cells) /\ Apart(threads')
        BY <1>1, TopStep, TopFacts DEF IInv, TypeOK, Becomes, Ended, Top
    <1>3. DOMAIN threads' = DOMAIN threads
        BY <1>2 DEF IInv, TypeOK
    <1>4. TypeOK'
        BY <1>2, <1>3 DEF IInv, TypeOK, store, Scopes
    <1>. QED
        BY <1>2, <1>4 DEF IInv, store

LEMMA PopScopeInv ==
    ASSUME IInv, NEW t \in DOMAIN threads, PopScope(t)
    PROVE  IInv'
    <1> DEFINE p == scopes[Top(t).env].parent
               f == [Top(t) EXCEPT !.env = p]
    <1>1. ~ Ended(t)
        BY DEF PopScope, Running
    <1>2. Top(t).env # Top(t).base
        BY DEF PopScope, Held
    <1>3. p \in DOMAIN scopes /\ scopes[p].opener = Top(t).base
        BY <1>1, <1>2, TopFacts DEF IInv, Tree
    <1>4. /\ f \in FrameType /\ f.base = Top(t).base /\ f.env = p
          /\ f.handlers = Top(t).handlers /\ f.update = Top(t).update
        BY <1>1, <1>3, TopFacts DEF FrameType
    <1>5. Sound(f, scopes, cells)
        BY <1>1, <1>3, <1>4, TopFacts DEF Sound, Owns, Pending, Held
    <1>. QED
        BY <1>1, <1>4, <1>5, OnlyTop DEF PopScope

LEMMA BeginUpdateInv ==
    ASSUME IInv, NEW t \in DOMAIN threads, NEW n \in Names, NEW i \in Indexes, BeginUpdate(t, n, i)
    PROVE  IInv'
    <1> DEFINE d == Denotes(Top(t).env, n)
               u == [env |-> Top(t).env, name |-> n, index |-> i, from |-> d, old |-> cells[d][n]]
               f == [Top(t) EXCEPT !.update = <<u>>]
    <1>1. ~ Ended(t) /\ Defined(Top(t).env, n)
        BY DEF BeginUpdate, Running
    <1>2. d \in DOMAIN scopes /\ d \in scopes[Top(t).env].sees /\ n \in DOMAIN cells[d]
        BY <1>1, TopFacts, DenotesFacts DEF IInv, Scopes
    <1>3. cells[d][n] \in Arrays
        <2>1. cells[d] \in Bindings
            BY <1>1, <1>2, TopFacts DEF IInv, TypeOK
        <2>. QED
            BY <1>2, <2>1 DEF Bindings
    <1>4. u \in Updates
        BY <1>1, <1>2, <1>3, TopFacts DEF Updates
    <1>5. /\ f \in FrameType /\ f.base = Top(t).base /\ f.env = Top(t).env
          /\ f.handlers = Top(t).handlers /\ f.update = <<u>>
        <2>. HIDE DEF u
        <2>1. <<u>> \in Seq(Updates)
            BY <1>4
        <2>. QED
            BY <1>1, <2>1, TopFacts DEF FrameType
    <1>6. Sound(f, scopes, cells)
        BY <1>1, <1>2, <1>5, TopFacts DEF Sound, Owns, Pending, Held
    <1>. QED
        BY <1>1, <1>5, <1>6, OnlyTop DEF BeginUpdate

LEMMA HandlerInv ==
    ASSUME IInv, NEW t \in DOMAIN threads, PushHandler(t) \/ PopHandler(t)
    PROVE  IInv'
    <1>1. ~ Ended(t)
        BY DEF PushHandler, PopHandler, Running
    <1>2. Top(t).handlers \in Seq(ScopeIds) /\ Top(t).env \in ScopeIds
        BY <1>1, TopFacts DEF FrameType
    <1>3. CASE PushHandler(t)
        <2> DEFINE f == [Top(t) EXCEPT !.handlers = Append(@, Top(t).env)]
        <2>0. Append(Top(t).handlers, Top(t).env) \in Seq(ScopeIds)
            BY <1>2
        <2>1. /\ f \in FrameType /\ f.base = Top(t).base /\ f.env = Top(t).env
              /\ f.handlers = Append(Top(t).handlers, Top(t).env) /\ f.update = Top(t).update
            BY <1>1, <2>0, TopFacts DEF FrameType
        <2>2. \A j \in DOMAIN f.handlers : 
                 \/ f.handlers[j] = Top(t).env
                 \/ j \in DOMAIN Top(t).handlers /\ f.handlers[j] = Top(t).handlers[j]
            BY <1>2, <2>1
        <2>3. Sound(f, scopes, cells)
            BY <1>1, <2>1, <2>2, TopFacts DEF Sound, Owns, Pending, Held
        <2>. QED
            BY <1>1, <1>3, <2>1, <2>3, OnlyTop DEF PushHandler
    <1>4. CASE PopHandler(t)
        <2> DEFINE hs == Top(t).handlers
                   f  == [Top(t) EXCEPT !.handlers = SubSeq(@, 1, Len(@) - 1)]
        <2>1. SubSeq(hs, 1, Len(hs) - 1) \in Seq(ScopeIds)
            BY <1>2
        <2>2. /\ f \in FrameType /\ f.base = Top(t).base /\ f.env = Top(t).env
              /\ f.handlers = SubSeq(hs, 1, Len(hs) - 1) /\ f.update = Top(t).update
            BY <1>1, <2>1, TopFacts DEF FrameType
        <2>3. \A j \in DOMAIN f.handlers : j \in DOMAIN hs /\ f.handlers[j] = hs[j]
            BY <1>2, <2>2
        <2>4. Sound(f, scopes, cells)
            BY <1>1, <2>2, <2>3, TopFacts DEF Sound, Owns, Pending, Held
        <2>. QED
            BY <1>1, <1>4, <2>2, <2>4, OnlyTop DEF PopHandler
    <1>. QED
        BY <1>3, <1>4

LEMMA SyncDoneInv ==
    ASSUME IInv, NEW t \in DOMAIN threads, SyncDone(t)
    PROVE  IInv'
    <1> DEFINE f == [Top(t) EXCEPT !.waits = NoWait]
    <1>1. ~ Ended(t)
        BY DEF SyncDone, Waiting
    <1>2. /\ f \in FrameType /\ f.base = Top(t).base /\ f.env = Top(t).env
          /\ f.handlers = Top(t).handlers /\ f.update = Top(t).update
        BY <1>1, TopFacts DEF FrameType, NoWait
    <1>3. Sound(f, scopes, cells)
        BY <1>1, <1>2, TopFacts DEF Sound, Owns, Pending, Held
    <1>. QED
        BY <1>1, <1>2, <1>3, OnlyTop DEF SyncDone

----------------------------------------------------------------------------
(* Steps that write a variable.                                            *)
LEMMA WritesFacts ==
    ASSUME TypeOK, CanWrite, NEW t \in DOMAIN threads
    PROVE  /\ Written \in Arrays
           /\ Len(writes) + 1 \in 1..MaxWrites
           /\ Append(writes, t) \in Seq(DOMAIN threads)
           /\ Len(Append(writes, t)) <= MaxWrites
    <1>1. Len(writes) \in Nat /\ Len(writes) + 1 <= MaxWrites
        BY BoundsAssumption DEF TypeOK, CanWrite
    <1>. QED
        BY <1>1, BoundsAssumption DEF TypeOK, Written, Arrays

LEMMA BindingFacts ==
    ASSUME NEW b \in Bindings, NEW n \in Names, NEW v \in Arrays
    PROVE  Binding(b, n, v) \in Bindings /\ DOMAIN b \subseteq DOMAIN Binding(b, n, v)
    <1>1. PICK ns \in SUBSET Names : b \in [ns -> Arrays]
        BY DEF Bindings
    <1>2. {n} \cup DOMAIN b \in SUBSET Names
        BY <1>1
    <1>3. Binding(b, n, v) \in [{n} \cup DOMAIN b -> Arrays]
        BY <1>1 DEF Binding
    <1>. QED
        BY <1>2, <1>3 DEF Bindings

(* Bindings replaced by others with at least the same names.               *)
LEMMA BindingsStep ==
    ASSUME NEW ce \in Seq(Bindings), NEW d \in DOMAIN ce, NEW b \in Bindings,
           DOMAIN ce[d] \subseteq DOMAIN b
    PROVE  LET ce2 == [ce EXCEPT ![d] = b]
           IN  /\ ce2 \in Seq(Bindings) /\ Len(ce2) = Len(ce) /\ DOMAIN ce2 = DOMAIN ce
               /\ \A s \in DOMAIN ce : DOMAIN ce[s] \subseteq DOMAIN ce2[s]
    OBVIOUS

LEMMA WriteInv ==
    ASSUME IInv, NEW t \in DOMAIN threads, ~ Ended(t), NEW s \in Scopes, NEW n \in Names,
           Write(t, s, n), UNCHANGED <<scopes, threads, captured, cancelled>>
    PROVE  IInv'
    <1> DEFINE b == Binding(cells[s], n, Written)
               l == Binding(latest[s], n, Written)
    <1>1. /\ cells \in Seq(Bindings) /\ latest \in Seq(Bindings)
          /\ s \in DOMAIN cells /\ s \in DOMAIN latest
          /\ cells[s] \in Bindings /\ latest[s] \in Bindings
        BY TopFacts DEF IInv, TypeOK, Scopes
    <1>2. /\ Written \in Arrays /\ writes' \in Seq(DOMAIN threads) /\ Len(writes') <= MaxWrites
        BY WritesFacts DEF IInv, Write
    <1>3. /\ b \in Bindings /\ DOMAIN cells[s] \subseteq DOMAIN b
          /\ l \in Bindings /\ DOMAIN latest[s] \subseteq DOMAIN l
        BY <1>1, <1>2, BindingFacts
    <1>4. cells' = [cells EXCEPT ![s] = b] /\ latest' = [latest EXCEPT ![s] = l]
        BY DEF Write
    <1>5. /\ cells' \in Seq(Bindings) /\ Len(cells') = Len(cells)
          /\ \A c \in DOMAIN cells : DOMAIN cells[c] \subseteq DOMAIN cells'[c]
          /\ latest' \in Seq(Bindings) /\ Len(latest') = Len(latest)
        <2>. HIDE DEF b, l
        <2>. QED
            BY <1>1, <1>3, <1>4, BindingsStep
    <1>6. TypeOK'
        BY <1>2, <1>5 DEF IInv, TypeOK, Scopes
    <1>7. Grows(scopes, cells, scopes, cells')
        BY <1>5, TopFacts DEF Grows
    <1>8. \A u \in DOMAIN threads : \A k \in DOMAIN threads[u] :
            OldFrame(threads, threads, scopes, cells', u, k)
        BY DEF OldFrame
    <1>9. AllSound(threads, scopes, cells') /\ Apart(threads)
        BY <1>7, <1>8, TopFacts, NextFrames DEF IInv
    <1>. QED
        BY <1>6, <1>9 DEF IInv

LEMMA EndUpdateInv ==
    ASSUME IInv, NEW t \in DOMAIN threads, EndUpdate(t)
    PROVE  IInv'
    <1> DEFINE u == Top(t).update[1]
               d == Denotes(u.env, u.name)
               w == Len(writes) + 1
               b == [cells[d] EXCEPT ![u.name] = [u.old EXCEPT ![u.index] = w]]
               l == [latest[d] EXCEPT ![u.name][u.index] = w]
               f == [Top(t) EXCEPT !.update = None]
    <1>1. ~ Ended(t)
        BY DEF EndUpdate, Running
    <1>2. Top(t).update \in Seq(Updates) /\ 1 \in DOMAIN Top(t).update /\ u \in Updates
        BY <1>1, TopFacts DEF EndUpdate, FrameType, None
    <1>3. Defined(u.env, u.name) /\ u.env \in Scopes
        BY <1>1, <1>2, TopFacts DEF Sound, Owns, Pending, Held, Defined, Scopes
    <1>4. d \in DOMAIN scopes /\ u.name \in DOMAIN cells[d]
        BY <1>3, DenotesFacts DEF IInv, Scopes
    <1>5. /\ cells \in Seq(Bindings) /\ latest \in Seq(Bindings)
          /\ d \in DOMAIN cells /\ d \in DOMAIN latest
          /\ cells[d] \in Bindings /\ latest[d] \in Bindings
        BY <1>1, <1>4, TopFacts DEF IInv, TypeOK
    <1>6. /\ w \in 1..MaxWrites /\ writes' \in Seq(DOMAIN threads) /\ Len(writes') <= MaxWrites
        BY WritesFacts DEF IInv, EndUpdate
    <1>7. b \in Bindings /\ DOMAIN b = DOMAIN cells[d]
        <2>1. [u.old EXCEPT ![u.index] = w] \in Arrays
            BY <1>2, <1>6 DEF Updates, Arrays
        <2>2. PICK ns \in SUBSET Names : cells[d] \in [ns -> Arrays]
            BY <1>5 DEF Bindings
        <2>3. b \in [ns -> Arrays]
            BY <2>1, <2>2
        <2>. QED
            BY <2>2, <2>3 DEF Bindings
    <1>8. l \in Bindings /\ DOMAIN l = DOMAIN latest[d]
        <2>1. PICK ns \in SUBSET Names : latest[d] \in [ns -> Arrays]
            BY <1>5 DEF Bindings
        <2>2. l = [latest[d] EXCEPT ![u.name] = [latest[d][u.name] EXCEPT ![u.index] = w]]
            OBVIOUS
        <2>3. CASE u.name \in ns
            <3>1. [latest[d][u.name] EXCEPT ![u.index] = w] \in Arrays
                BY <1>6, <2>1, <2>3 DEF Arrays
            <3>2. l \in [ns -> Arrays]
                BY <2>1, <2>2, <3>1
            <3>. QED
                BY <2>1, <3>2 DEF Bindings
        <2>4. CASE u.name \notin ns
            <3>1. l = latest[d]
                BY <2>1, <2>2, <2>4
            <3>. QED
                BY <1>5, <3>1
        <2>. QED
            BY <2>3, <2>4
    <1>9. cells' = [cells EXCEPT ![d] = b] /\ latest' = [latest EXCEPT ![d] = l]
        BY DEF EndUpdate
    <1>10. /\ cells' \in Seq(Bindings) /\ Len(cells') = Len(cells)
           /\ \A c \in DOMAIN cells : DOMAIN cells[c] \subseteq DOMAIN cells'[c]
           /\ latest' \in Seq(Bindings) /\ Len(latest') = Len(latest)
        <2>. HIDE DEF b, l, d
        <2>. QED
            BY <1>5, <1>7, <1>8, <1>9, BindingsStep
    <1>11. Grows(scopes, cells, scopes, cells')
        BY <1>1, <1>10, TopFacts DEF Grows
    <1>12. /\ f \in FrameType /\ f.base = Top(t).base /\ f.env = Top(t).env
           /\ f.handlers = Top(t).handlers /\ f.update = <<>>
        <2>1. None \in Seq(Updates) /\ None = <<>>
            BY DEF None
        <2>. QED
            BY <1>1, <2>1, TopFacts DEF FrameType
    <1>13. Sound(f, scopes, cells')
        BY <1>1, <1>12, TopFacts DEF Sound, Owns, Pending, Held
    <1>14. /\ threads' \in Seq(Seq(FrameType)) /\ Len(threads') = Len(threads)
           /\ AllSound(threads', scopes, cells') /\ Apart(threads')
        <2>. HIDE DEF f
        <2>1. threads' = [threads EXCEPT ![t][Len(threads[t])] = f]
            BY DEF EndUpdate, Becomes, f
        <2>. QED
            BY <1>1, <1>11, <1>12, <1>13, <2>1, TopStep, TopFacts DEF IInv, TypeOK
    <1>15. DOMAIN threads' = DOMAIN threads
        BY <1>14 DEF IInv, TypeOK
    <1>16. TypeOK'
        BY <1>6, <1>10, <1>14, <1>15 DEF IInv, TypeOK, Scopes, EndUpdate
    <1>. QED
        BY <1>14, <1>16 DEF IInv, EndUpdate

LEMMA DefineInv ==
    ASSUME IInv, NEW t \in DOMAIN threads, NEW n \in Names, Define(t, n) \/ SetWhole(t, n)
    PROVE  IInv'
    <1>1. ~ Ended(t)
        BY DEF Define, SetWhole, Running
    <1>2. Top(t).env \in Scopes
        BY <1>1, TopFacts DEF Scopes
    <1>3. CASE Define(t, n)
        BY <1>1, <1>2, <1>3, WriteInv DEF Define
    <1>4. CASE SetWhole(t, n)
        <2>1. Denotes(Top(t).env, n) \in Scopes
            BY <1>2, <1>4, DenotesFacts DEF IInv, SetWhole
        <2>. QED
            BY <1>1, <1>4, <2>1, WriteInv DEF SetWhole
    <1>. QED
        BY <1>3, <1>4

----------------------------------------------------------------------------
(* Steps after which threads have fewer frames.                            *)
LEMMA FewerFrames ==
    ASSUME IInv, threads' \in Seq(Seq(FrameType)), Len(threads') = Len(threads),
           AllSound(threads', scopes, cells), Apart(threads'),
           UNCHANGED <<scopes, store, captured>>, cancelled' \subseteq ThreadIds
    PROVE  IInv'
    <1>1. DOMAIN threads' = DOMAIN threads
        BY DEF IInv, TypeOK
    <1>2. TypeOK'
        BY <1>1 DEF IInv, TypeOK, store, Scopes
    <1>. QED
        BY <1>2 DEF IInv, store

LEMMA ReturnInv ==
    ASSUME IInv, NEW t \in DOMAIN threads, Return(t)
    PROVE  IInv'
    <1> DEFINE r == SubSeq(threads[t], 1, Len(threads[t]) - 1)
    <1>1. ~ Ended(t)
        BY DEF Return, Running
    <1>2. /\ r \in Seq(FrameType) /\ DOMAIN r \subseteq DOMAIN threads[t]
          /\ \A k \in DOMAIN r : r[k] = threads[t][k]
        BY <1>1, TopFacts
    <1>3. threads' = [threads EXCEPT ![t] = r]
        BY DEF Return
    <1>. HIDE DEF r
    <1>4. /\ threads' \in Seq(Seq(FrameType)) /\ Len(threads') = Len(threads)
          /\ \A u \in DOMAIN threads' :
               /\ u \in DOMAIN threads /\ DOMAIN threads'[u] \subseteq DOMAIN threads[u]
               /\ \A k \in DOMAIN threads'[u] : threads'[u][k] = threads[u][k]
        BY <1>2, <1>3 DEF IInv, TypeOK
    <1>5. AllSound(threads', scopes, cells) /\ Apart(threads')
        BY <1>1, <1>4, PrefixStep, TopFacts DEF IInv
    <1>. QED
        BY <1>4, <1>5, FewerFrames DEF Return, IInv, TypeOK

LEMMA EndInv ==
    ASSUME IInv, NEW t \in DOMAIN threads, Uncaught(t) \/ Abort(t)
    PROVE  IInv'
    <1>1. ~ Ended(t)
        BY DEF Uncaught, Abort, Running
    <1>2. /\ threads' \in Seq(Seq(FrameType)) /\ Len(threads') = Len(threads)
          /\ \A u \in DOMAIN threads' :
               /\ u \in DOMAIN threads /\ DOMAIN threads'[u] \subseteq DOMAIN threads[u]
               /\ \A k \in DOMAIN threads'[u] : threads'[u][k] = threads[u][k]
        <2>1. /\ threads \in Seq(Seq(FrameType)) /\ <<>> \in Seq(FrameType)
              /\ DOMAIN threads = 1..Len(threads) /\ Len(threads) \in Nat
            BY DEF IInv, TypeOK
        <2>2. \E X : threads' = [u \in DOMAIN threads |-> IF u \in X THEN <<>> ELSE threads[u]]
            <3>1. CASE Uncaught(t)
                <4>1. threads' = [u \in DOMAIN threads |->
                           IF u \in {v \in DOMAIN threads : v = t \/ t = Main} THEN <<>> ELSE threads[u]]
                    BY <3>1 DEF Uncaught
                <4>. QED
                    BY <4>1
            <3>2. CASE Abort(t)
                <4>1. threads' = [u \in DOMAIN threads |->
                           IF u \in DOMAIN threads THEN <<>> ELSE threads[u]]
                    BY <3>2 DEF Abort
                <4>. QED
                    BY <4>1
            <3>. QED
                BY <3>1, <3>2
        <2>3. PICK X : threads' = [u \in DOMAIN threads |-> IF u \in X THEN <<>> ELSE threads[u]]
            BY <2>2
        <2>4. threads' \in Seq(Seq(FrameType)) /\ Len(threads') = Len(threads)
            <3>1. threads' \in [1..Len(threads) -> Seq(FrameType)]
                BY <2>1, <2>3
            <3>. QED
                BY <2>1, <3>1, SeqOfFunction, Zenon
        <2>. QED
            BY <2>1, <2>3, <2>4
    <1>3. AllSound(threads', scopes, cells) /\ Apart(threads')
        BY <1>1, <1>2, PrefixStep, TopFacts DEF IInv
    <1>. QED
        BY <1>2, <1>3, FewerFrames DEF Uncaught, Abort, IInv, TypeOK

LEMMA CaughtInv ==
    ASSUME IInv, NEW t \in DOMAIN threads, Caught(t)
    PROVE  IInv'
    <1>1. ~ Ended(t) /\ threads[t] \in Seq(FrameType)
        BY TopFacts DEF Caught, Running
    <1>2. PICK k \in Catchers(t) :
            LET hs == threads[t][k].handlers
                f  == [threads[t][k] EXCEPT !.env = hs[Len(hs)],
                                            !.handlers = SubSeq(hs, 1, Len(hs) - 1)]
            IN  threads' = [threads EXCEPT ![t] = Append(SubSeq(threads[t], 1, k - 1), f)]
        BY DEF Caught
    <1> DEFINE g  == threads[t][k]
               hs == g.handlers
               f  == [g EXCEPT !.env = hs[Len(hs)], !.handlers = SubSeq(hs, 1, Len(hs) - 1)]
               r  == Append(SubSeq(threads[t], 1, k - 1), f)
    <1>3. k \in 1..Len(threads[t]) /\ g \in FrameType /\ hs # <<>> /\ Sound(g, scopes, cells)
        BY <1>1 DEF Catchers, IInv, AllSound
    <1>4. hs \in Seq(ScopeIds) /\ Len(hs) \in DOMAIN hs /\ hs[Len(hs)] \in ScopeIds
        BY <1>3 DEF FrameType
    <1>5. SubSeq(hs, 1, Len(hs) - 1) \in Seq(ScopeIds)
        BY <1>4
    <1>6. /\ f \in FrameType /\ f.base = g.base /\ f.env = hs[Len(hs)]
          /\ f.handlers = SubSeq(hs, 1, Len(hs) - 1) /\ f.update = g.update
        BY <1>3, <1>4, <1>5 DEF FrameType
    <1>7. \A j \in DOMAIN f.handlers : j \in DOMAIN hs /\ f.handlers[j] = hs[j]
        BY <1>4, <1>6
    <1>8. Sound(f, scopes, cells)
        BY <1>3, <1>4, <1>6, <1>7 DEF Sound, Owns, Pending, Held
    <1>9. threads' = [threads EXCEPT ![t] = r]
        BY <1>2
    <1>10. /\ r \in Seq(FrameType) /\ Len(r) = k
           /\ \A j \in 1..k : r[j] = IF j = k THEN f ELSE threads[t][j]
        <2>. HIDE DEF f
        <2>. QED
            BY <1>1, <1>3, <1>6
    <1>. HIDE DEF f, r
    <1>11. /\ threads' \in Seq(Seq(FrameType)) /\ Len(threads') = Len(threads)
           /\ \A u \in DOMAIN threads' : u \in DOMAIN threads
           /\ \A u \in DOMAIN threads' : threads'[u] = IF u = t THEN r ELSE threads[u]
        BY <1>9, <1>10 DEF IInv, TypeOK
    <1>12. ASSUME NEW u \in DOMAIN threads', NEW j \in DOMAIN threads'[u]
           PROVE  OldFrame(threads, threads', scopes, cells, u, j)
        <2>1. CASE u = t
            <3>1. j \in 1..k /\ threads'[u][j] = IF j = k THEN f ELSE threads[t][j]
                BY <1>10, <1>11, <1>12, <2>1
            <3>2. j \in DOMAIN threads[t]
                BY <1>1, <1>3, <3>1
            <3>. QED
                BY <1>6, <1>8, <2>1, <3>1, <3>2 DEF OldFrame
        <2>2. CASE u # t
            BY <1>11, <1>12, <2>2 DEF OldFrame
        <2>. QED
            BY <2>1, <2>2
    <1>13. AllSound(threads', scopes, cells) /\ Apart(threads')
        BY <1>1, <1>12, SameScopes, TopFacts DEF IInv
    <1>. QED
        BY <1>11, <1>13, FewerFrames DEF Caught, IInv, TypeOK

LEMMA RaceDoneInv ==
    ASSUME IInv, NEW t \in DOMAIN threads, RaceDone(t)
    PROVE  IInv'
    <1> DEFINE losers == {u \in Awaited(t) : ~ Ended(u)}
               f == [Top(t) EXCEPT !.waits = NoWait]
               r == [threads[t] EXCEPT ![Len(threads[t])] = f]
    <1>1. ~ Ended(t)
        BY DEF RaceDone, Waiting
    <1>2. /\ f \in FrameType /\ f.base = Top(t).base /\ f.env = Top(t).env
          /\ f.handlers = Top(t).handlers /\ f.update = Top(t).update
        BY <1>1, TopFacts DEF FrameType, NoWait
    <1>3. Sound(f, scopes, cells)
        BY <1>1, <1>2, TopFacts DEF Sound, Owns, Pending, Held
    <1>. HIDE DEF f
    <1>4. /\ r \in Seq(FrameType) /\ DOMAIN r = DOMAIN threads[t]
          /\ \A k \in DOMAIN r : r[k] = IF k = Len(threads[t]) THEN f ELSE threads[t][k]
        BY <1>1, <1>2, TopFacts
    <1>5. threads' = [u \in DOMAIN threads |->
                        IF u \in losers THEN <<>> ELSE IF u = t THEN r ELSE threads[u]]
        BY DEF RaceDone, f
    <1>. HIDE DEF r, losers
    <1>6. /\ threads \in Seq(Seq(FrameType)) /\ <<>> \in Seq(FrameType)
          /\ DOMAIN threads = 1..Len(threads) /\ Len(threads) \in Nat
        BY DEF IInv, TypeOK
    <1>7. threads' \in Seq(Seq(FrameType)) /\ Len(threads') = Len(threads)
        <2>1. threads' \in [1..Len(threads) -> Seq(FrameType)]
            BY <1>4, <1>5, <1>6
        <2>. QED
            BY <1>6, <2>1, SeqOfFunction, Zenon
    <1>8. ASSUME NEW u \in DOMAIN threads', NEW k \in DOMAIN threads'[u]
          PROVE  OldFrame(threads, threads', scopes, cells, u, k)
        <2>1. u \in DOMAIN threads /\ u \notin losers
            BY <1>5, <1>8
        <2>2. CASE u = t
            BY <1>2, <1>3, <1>4, <1>5, <1>8, <2>1, <2>2 DEF OldFrame, Top
        <2>3. CASE u # t
            BY <1>5, <1>8, <2>1, <2>3 DEF OldFrame
        <2>. QED
            BY <2>2, <2>3
    <1>9. AllSound(threads', scopes, cells) /\ Apart(threads')
        BY <1>1, <1>8, SameScopes, TopFacts DEF IInv
    <1>10. cancelled' \subseteq ThreadIds
        <2>1. losers \subseteq ThreadIds
            BY <1>1, TopFacts DEF losers, Awaited, FrameType
        <2>. QED
            BY <2>1 DEF RaceDone, IInv, TypeOK, losers
    <1>. QED
        BY <1>7, <1>9, <1>10, FewerFrames DEF RaceDone

----------------------------------------------------------------------------
(* Steps that add scopes.  A new one has a parent that exists, and is      *)
(* opened by the frame that opened the parent or by one that starts in it. *)
NewScope(sc, r, s) ==
    /\ r \in ScopeType
    /\ \E p \in DOMAIN sc :
        /\ r.parent = p /\ r.sees = {s} \cup sc[p].sees
        /\ r.opener \in {s, sc[p].opener}

LEMMA ConcatFacts ==
    ASSUME NEW S, NEW s \in Seq(S), NEW n \in Nat, NEW r \in [1..n -> S]
    PROVE  /\ s \o r \in Seq(S) /\ Len(s \o r) = Len(s) + n
           /\ \A i \in 1..Len(s) : (s \o r)[i] = s[i]
           /\ \A k \in 1..n : (s \o r)[Len(s) + k] = r[k]
    <1>1. r \in Seq(S) /\ Len(r) = n /\ Len(s) \in Nat
        BY SeqOfFunction
    <1>2. /\ s \o r \in Seq(S) /\ Len(s \o r) = Len(s) + Len(r)
          /\ \A i \in 1..Len(s) + Len(r) : (s \o r)[i] = IF i <= Len(s) THEN s[i] ELSE r[i - Len(s)]
        BY <1>1, ConcatProperties, Zenon
    <1> DEFINE c == s \o r
    <1>. HIDE DEF c
    <1>3. \A i \in 1..Len(s) + n : c[i] = IF i <= Len(s) THEN s[i] ELSE r[i - Len(s)]
        BY <1>1, <1>2 DEF c
    <1>4. \A k \in 1..n : /\ Len(s) + k \in 1..Len(s) + n /\ ~ (Len(s) + k <= Len(s))
                          /\ (Len(s) + k) - Len(s) = k
        BY <1>1
    <1>5. \A i \in 1..Len(s) : i \in 1..Len(s) + n /\ i <= Len(s)
        BY <1>1
    <1>. QED
        BY <1>1, <1>2, <1>3, <1>4, <1>5 DEF c

(* r is s with n more elements.                                            *)
Extends(s, n, r) == Len(r) = Len(s) + n /\ \A i \in 1..Len(s) : r[i] = s[i]

LEMMA JoinFacts ==
    ASSUME NEW S, NEW s \in Seq(S), NEW n \in Nat, NEW r \in [1..n -> S], NEW c, c = s \o r
    PROVE  /\ c \in Seq(S) /\ Extends(s, n, c)
           /\ \A k \in 1..n : c[Len(s) + k] = r[k]
    BY ConcatFacts DEF Extends

(* Scopes added within scopes there were, each with a fresh number.        *)
LEMMA NewScopes ==
    ASSUME NEW sc \in Seq(ScopeType), NEW ce \in Seq(Bindings), Len(ce) = Len(sc), Tree(sc),
           NEW n \in Nat, NEW sc2 \in Seq(ScopeType), NEW ce2 \in Seq(Bindings),
           Extends(sc, n, sc2), Extends(ce, n, ce2),
           \A k \in 1..n : NewScope(sc, sc2[Len(sc) + k], Len(sc) + k)
    PROVE  Tree(sc2) /\ Grows(sc, ce, sc2, ce2)
    <1>4. /\ DOMAIN sc = 1..Len(sc) /\ DOMAIN sc2 = 1..(Len(sc) + n) /\ Len(sc) \in Nat
        BY DEF Extends
    <1>5. Grows(sc, ce, sc2, ce2)
        BY <1>4 DEF Grows, Extends
    <1>6. ASSUME NEW s \in DOMAIN sc2
          PROVE  /\ sc2[s].sees \subseteq 1..s
                 /\ sc2[s].opener # s => /\ sc2[s].parent \in DOMAIN sc2
                                         /\ sc2[sc2[s].parent].opener = sc2[s].opener
        <2>1. CASE s \in DOMAIN sc
            <3>1. sc2[s] = sc[s] /\ DOMAIN sc \subseteq DOMAIN sc2
                BY <1>4, <2>1 DEF Extends
            <3>2. /\ sc[s].sees \subseteq 1..s
                  /\ sc[s].opener # s => /\ sc[s].parent \in DOMAIN sc
                                         /\ sc[sc[s].parent].opener = sc[s].opener
                BY <2>1 DEF Tree
            <3>3. \A p \in DOMAIN sc : sc2[p] = sc[p]
                BY <1>4 DEF Extends
            <3>. QED
                BY <3>1, <3>2, <3>3
        <2>2. CASE s \notin DOMAIN sc
            <3>1. PICK k \in 1..n : s = Len(sc) + k
                <4>1. s - Len(sc) \in 1..n /\ s = Len(sc) + (s - Len(sc))
                    BY <1>4, <2>2
                <4>. QED
                    BY <4>1
            <3>2. PICK p \in DOMAIN sc :
                    /\ sc2[s].parent = p /\ sc2[s].sees = {s} \cup sc[p].sees
                    /\ sc2[s].opener \in {s, sc[p].opener}
                BY <3>1 DEF NewScope
            <3>3. sc2[p] = sc[p] /\ p \in DOMAIN sc2 /\ 1..p \subseteq 1..s /\ s \in 1..s
                BY <1>4, <3>1, <3>2 DEF Extends
            <3>4. sc[p].sees \subseteq 1..p
                BY <3>2 DEF Tree
            <3>. QED
                BY <3>2, <3>3, <3>4
        <2>. QED
            BY <2>1, <2>2
    <1>7. Tree(sc2)
        BY <1>6 DEF Tree
    <1>. QED
        BY <1>5, <1>7

LEMMA AppendFacts ==
    ASSUME NEW S, NEW s \in Seq(S), NEW e \in S
    PROVE  /\ Append(s, e) \in Seq(S) /\ Extends(s, 1, Append(s, e))
           /\ Append(s, e)[Len(s) + 1] = e
    BY DEF Extends

LEMMA NewFrameFacts ==
    ASSUME NEW s \in ScopeIds, NEW sc, NEW ce, s \in DOMAIN sc, sc[s].opener = s
    PROVE  NewFrame(s) \in FrameType /\ NewFrame(s).base = s /\ Sound(NewFrame(s), sc, ce)
    <1>1. <<>> \in Seq(ScopeIds) /\ <<>> \in Seq(Updates) /\ DOMAIN <<>> = {}
        OBVIOUS
    <1>2. NoWait \in [mode : {"none", "sync", "race"}, tasks : SUBSET ThreadIds]
        BY DEF NoWait
    <1> DEFINE f == NewFrame(s)
    <1>3. f \in FrameType /\ f.base = s /\ f.env = s /\ f.handlers = <<>> /\ f.update = <<>>
        BY <1>1, <1>2 DEF NewFrame, FrameType, None
    <1>. HIDE DEF f
    <1>4. Held(f) = {s}
        BY <1>1, <1>3 DEF Held
    <1>5. Sound(f, sc, ce)
        BY <1>1, <1>3, <1>4 DEF Sound, Owns, Pending
    <1>. QED
        BY <1>3, <1>5 DEF f

LEMMA NoNamesType == NoNames \in Bindings /\ DOMAIN NoNames = {}
    <1>1. NoNames \in [{} -> Arrays]
        BY DEF NoNames
    <1>. QED
        BY <1>1 DEF Bindings

(* What one more scope, with names ns or none, does to the store.          *)
LEMMA OneScope ==
    ASSUME IInv, NEW r, NEW b \in Bindings, NEW c \in Bindings, CanOpen(1),
           NewScope(scopes, r, NextScope),
           scopes' = Append(scopes, r), cells' = Append(cells, b), latest' = Append(latest, c)
    PROVE  /\ NextScope \in ScopeIds /\ NextScope \notin DOMAIN scopes /\ NextScope \in DOMAIN scopes'
           /\ scopes'[NextScope] = r
           /\ scopes' \in Seq(ScopeType) /\ Len(scopes') <= MaxScopes
           /\ cells' \in Seq(Bindings) /\ Len(cells') = Len(scopes')
           /\ latest' \in Seq(Bindings) /\ Len(latest') = Len(scopes')
           /\ DOMAIN scopes \subseteq DOMAIN scopes'
           /\ Tree(scopes') /\ Grows(scopes, cells, scopes', cells')
    <1>1. /\ scopes \in Seq(ScopeType) /\ cells \in Seq(Bindings) /\ latest \in Seq(Bindings)
          /\ Len(cells) = Len(scopes) /\ Len(latest) = Len(scopes) /\ Len(scopes) \in Nat
          /\ r \in ScopeType
        BY DEF IInv, TypeOK, NewScope
    <1>2. /\ scopes' \in Seq(ScopeType) /\ Extends(scopes, 1, scopes') /\ scopes'[Len(scopes) + 1] = r
          /\ cells' \in Seq(Bindings) /\ Extends(cells, 1, cells')
          /\ latest' \in Seq(Bindings) /\ Extends(latest, 1, latest')
        BY <1>1, AppendFacts
    <1>3. \A k \in 1..1 : NewScope(scopes, scopes'[Len(scopes) + k], Len(scopes) + k)
        BY <1>2 DEF NextScope
    <1>4. Tree(scopes') /\ Grows(scopes, cells, scopes', cells')
        BY <1>1, <1>2, <1>3, NewScopes DEF IInv
    <1>5. /\ Len(scopes') = Len(scopes) + 1 /\ DOMAIN scopes' = 1..(Len(scopes) + 1)
          /\ DOMAIN scopes = 1..Len(scopes) /\ Len(cells') = Len(scopes) + 1
        BY <1>1, <1>2 DEF Extends
    <1>. QED
        BY <1>1, <1>2, <1>4, <1>5, BoundsAssumption DEF NextScope, CanOpen, ScopeIds, Extends

LEMMA PushScopeInv ==
    ASSUME IInv, NEW t \in DOMAIN threads, PushScope(t)
    PROVE  IInv'
    <1> DEFINE N == NextScope
               r == ScopeOf(Top(t).env, Top(t).base, N)
               f == [Top(t) EXCEPT !.env = N]
    <1>1. ~ Ended(t) /\ CanOpen(1)
        BY DEF PushScope, Running
    <1>2. N \in ScopeIds
        BY <1>1, TopFacts, BoundsAssumption DEF NextScope, CanOpen, ScopeIds
    <1>3. NewScope(scopes, r, N) /\ r.opener = Top(t).base
        <2>1. scopes[Top(t).env] \in ScopeType /\ Top(t).base \in ScopeIds /\ Top(t).env \in ScopeIds
            BY <1>1, TopFacts DEF IInv, TypeOK, FrameType
        <2>2. r \in ScopeType
            BY <1>2, <2>1 DEF ScopeOf, ScopeType, ScopeIds
        <2>3. r.parent = Top(t).env /\ r.sees = {N} \cup scopes[Top(t).env].sees /\ r.opener = Top(t).base
            BY DEF ScopeOf
        <2>. QED
            BY <1>1, <2>2, <2>3, TopFacts DEF NewScope
    <1>4. scopes' = Append(scopes, r) /\ cells' = Append(cells, NoNames) /\ latest' = Append(latest, NoNames)
        BY DEF PushScope
    <1>. HIDE DEF r
    <1>5. /\ N \notin DOMAIN scopes /\ N \in DOMAIN scopes' /\ scopes'[N] = r
          /\ scopes' \in Seq(ScopeType) /\ Len(scopes') <= MaxScopes
          /\ cells' \in Seq(Bindings) /\ Len(cells') = Len(scopes')
          /\ latest' \in Seq(Bindings) /\ Len(latest') = Len(scopes')
          /\ DOMAIN scopes \subseteq DOMAIN scopes'
          /\ Tree(scopes') /\ Grows(scopes, cells, scopes', cells')
        BY <1>1, <1>3, <1>4, NoNamesType, OneScope
    <1>6. /\ f \in FrameType /\ f.base = Top(t).base /\ f.env = N
          /\ f.handlers = Top(t).handlers /\ f.update = Top(t).update
        BY <1>1, <1>2, TopFacts DEF FrameType
    <1>7. Sound(f, scopes', cells')
        <2>1. Sound(Top(t), scopes', cells')
            BY <1>1, <1>5, TopFacts, SoundStays DEF IInv
        <2>. QED
            BY <1>3, <1>5, <1>6, <2>1 DEF Sound, Owns, Pending, Held
    <1>8. threads' = [threads EXCEPT ![t][Len(threads[t])] = f]
        BY DEF PushScope, Becomes
    <1>. HIDE DEF f
    <1>9. /\ threads' \in Seq(Seq(FrameType)) /\ Len(threads') = Len(threads)
          /\ AllSound(threads', scopes', cells') /\ Apart(threads')
        <2>1. /\ Tree(scopes) /\ AllSound(threads, scopes, cells) /\ Apart(threads)
              /\ threads \in Seq(Seq(FrameType))
            BY DEF IInv, TypeOK
        <2>2. /\ threads[t] # <<>> /\ f.base = threads[t][Len(threads[t])].base
              /\ \E n \in Nat : DOMAIN scopes = 1..n
            BY <1>1, <1>6, TopFacts
        <2>. QED
            BY <1>5, <1>6, <1>7, <1>8, <2>1, <2>2, TopStep
    <1>10. DOMAIN threads' = DOMAIN threads
        BY <1>9 DEF IInv, TypeOK
    <1>11. TypeOK'
        BY <1>5, <1>9, <1>10 DEF IInv, TypeOK, Scopes, PushScope
    <1>. QED
        BY <1>5, <1>9, <1>11 DEF IInv

(* A scope whose parent exists and in which a frame is to start.           *)
LEMMA BaseScope ==
    ASSUME TypeOK, NEW c \in DOMAIN scopes, NEW s \in ScopeIds
    PROVE  NewScope(scopes, ScopeOf(c, s, s), s) /\ ScopeOf(c, s, s).opener = s
    <1>1. scopes[c] \in ScopeType /\ c \in ScopeIds
        BY BoundsAssumption DEF TypeOK, ScopeIds
    <1> DEFINE r == ScopeOf(c, s, s)
    <1>2. r \in ScopeType
        BY <1>1 DEF ScopeOf, ScopeType, ScopeIds
    <1>3. r.parent = c /\ r.sees = {s} \cup scopes[c].sees /\ r.opener = s
        BY DEF ScopeOf
    <1>. QED
        BY <1>2, <1>3 DEF NewScope

(* The base of a frame is a scope that exists.                             *)
LEMMA BasesExist ==
    ASSUME IInv, NEW t \in DOMAIN threads, NEW k \in DOMAIN threads[t]
    PROVE  threads[t][k].base \in DOMAIN scopes
    BY DEF IInv, AllSound, Sound, Owns, Held

LEMMA CallInv ==
    ASSUME IInv, NEW t \in DOMAIN threads, NEW c \in captured, NEW ns \in SUBSET Names,
           Call(t, c, ns)
    PROVE  IInv'
    <1> DEFINE N == NextScope
               r == CalleeScope(t, c)
               b == [n \in ns |-> Written]
               f == NewFrame(N)
               fs == Append(threads[t], f)
    <1>1. ~ Ended(t) /\ CanOpen(1) /\ threads[t] \in Seq(FrameType) /\ Len(threads[t]) \in Nat
        BY TopFacts DEF Call, Running
    <1>2. N \in ScopeIds
        BY <1>1, TopFacts, BoundsAssumption DEF NextScope, CanOpen, ScopeIds
    <1>3. NewScope(scopes, r, N) /\ r.opener = N
        BY <1>2, BaseScope DEF CalleeScope, IInv, TypeOK, Scopes
    <1>4. b \in Bindings
        <2>1. CASE ns = {}
            <3>1. b \in [{} -> Arrays]
                BY <2>1
            <3>. QED
                BY <3>1 DEF Bindings
        <2>2. CASE ns # {}
            <3>1. Written \in Arrays
                BY <2>2, WritesFacts DEF Call, IInv
            <3>2. b \in [ns -> Arrays]
                BY <3>1
            <3>. QED
                BY <3>2 DEF Bindings
        <2>. QED
            BY <2>1, <2>2
    <1>5. writes' \in Seq(DOMAIN threads) /\ Len(writes') <= MaxWrites
        BY WritesFacts DEF Call, IInv, TypeOK
    <1>6. /\ scopes' = Append(scopes, r) /\ cells' = Append(cells, b) /\ latest' = Append(latest, b)
          /\ threads' = [threads EXCEPT ![t] = fs]
        BY DEF Call
    <1>. HIDE DEF r, b
    <1>7. /\ N \notin DOMAIN scopes /\ N \in DOMAIN scopes' /\ scopes'[N] = r
          /\ scopes' \in Seq(ScopeType) /\ Len(scopes') <= MaxScopes
          /\ cells' \in Seq(Bindings) /\ Len(cells') = Len(scopes')
          /\ latest' \in Seq(Bindings) /\ Len(latest') = Len(scopes')
          /\ DOMAIN scopes \subseteq DOMAIN scopes'
          /\ Tree(scopes') /\ Grows(scopes, cells, scopes', cells')
        BY <1>1, <1>3, <1>4, <1>6, OneScope
    <1>. HIDE DEF N
    <1>8. f \in FrameType /\ f.base = N /\ Sound(f, scopes', cells')
        BY <1>2, <1>3, <1>7, NewFrameFacts
    <1>. HIDE DEF f
    <1>9. /\ fs \in Seq(FrameType) /\ DOMAIN fs = 1..(Len(threads[t]) + 1)
          /\ \A k \in DOMAIN fs :
                \/ k = Len(threads[t]) + 1 /\ fs[k] = f
                \/ k \in DOMAIN threads[t] /\ fs[k] = threads[t][k]
        <2>1. fs \in Seq(FrameType) /\ Extends(threads[t], 1, fs) /\ fs[Len(threads[t]) + 1] = f
            BY <1>1, <1>8, AppendFacts
        <2>. HIDE DEF fs
        <2>2. /\ DOMAIN threads[t] = 1..Len(threads[t]) /\ DOMAIN fs = 1..Len(fs)
              /\ Len(fs) = Len(threads[t]) + 1
            BY <1>1, <2>1 DEF Extends
        <2>3. \A k \in 1..(Len(threads[t]) + 1) : k = Len(threads[t]) + 1 \/ k \in 1..Len(threads[t])
            BY <1>1
        <2>4. \A k \in 1..Len(threads[t]) : fs[k] = threads[t][k]
            BY <2>1 DEF Extends
        <2>. QED
            BY <2>1, <2>2, <2>3, <2>4
    <1>. HIDE DEF fs
    <1>10. /\ threads' \in Seq(Seq(FrameType)) /\ Len(threads') = Len(threads)
           /\ DOMAIN threads' = DOMAIN threads
           /\ \A u \in DOMAIN threads : threads'[u] = IF u = t THEN fs ELSE threads[u]
        BY <1>6, <1>9 DEF IInv, TypeOK
    <1>11. ASSUME NEW u \in DOMAIN threads', NEW k \in DOMAIN threads'[u]
           PROVE  \/ u = t /\ k = Len(threads[t]) + 1 /\ threads'[u][k] = f
                  \/ /\ u \in DOMAIN threads /\ k \in DOMAIN threads[u]
                     /\ threads'[u][k] = threads[u][k] /\ threads[u][k].base # N
        <2>1. CASE u = t
            BY <1>7, <1>9, <1>10, <1>11, <2>1, BasesExist
        <2>2. CASE u # t
            BY <1>7, <1>10, <1>11, <2>2, BasesExist
        <2>. QED
            BY <2>1, <2>2
    <1>12. ASSUME NEW u \in DOMAIN threads', NEW k \in DOMAIN threads'[u]
           PROVE  \/ OldFrame(threads, threads', scopes', cells', u, k)
                  \/ StartedFrame(threads', scopes, scopes', cells', u, k)
        <2>1. CASE u = t /\ k = Len(threads[t]) + 1 /\ threads'[u][k] = f
            BY <1>7, <1>8, <1>11, <2>1 DEF StartedFrame
        <2>2. CASE /\ u \in DOMAIN threads /\ k \in DOMAIN threads[u]
                   /\ threads'[u][k] = threads[u][k]
            BY <2>2 DEF OldFrame
        <2>. QED
            BY <1>11, <2>1, <2>2
    <1>13. AllSound(threads', scopes', cells') /\ Apart(threads')
        <2>1. Tree(scopes) /\ AllSound(threads, scopes, cells) /\ Apart(threads)
            BY DEF IInv
        <2>2. \E n \in Nat : DOMAIN scopes = 1..n
            BY <1>1, TopFacts
        <2>. QED
            BY <1>7, <1>12, <2>1, <2>2, NextFrames
    <1>14. TypeOK'
        BY <1>5, <1>7, <1>10 DEF IInv, TypeOK, Scopes, Call
    <1>. QED
        BY <1>7, <1>13, <1>14 DEF IInv

LEMMA MakeFunctionInv ==
    ASSUME IInv, NEW t \in DOMAIN threads, MakeFunction(t)
    PROVE  IInv'
    <1>1. Top(t).env \in Scopes
        BY TopFacts DEF MakeFunction, Running, Scopes
    <1>2. TypeOK'
        BY <1>1 DEF IInv, TypeOK, MakeFunction, store, Scopes
    <1>. QED
        BY <1>2 DEF IInv, MakeFunction, store

(* n branches start, each in a new scope; th is the threads there were, of *)
(* which a frame may have begun to wait.                                   *)
LEMMA BranchesInv ==
    ASSUME IInv, NEW t \in DOMAIN threads, NEW n \in Nat, Branches(t, n),
           NEW th \in Seq(Seq(FrameType)), Len(th) = Len(threads),
           \A u \in DOMAIN th :
               /\ DOMAIN th[u] = DOMAIN threads[u]
               /\ \A k \in DOMAIN th[u] :
                   \/ th[u][k] = threads[u][k]
                   \/ /\ th[u][k].base = threads[u][k].base /\ th[u][k].env = threads[u][k].env
                      /\ th[u][k].handlers = threads[u][k].handlers
                      /\ th[u][k].update = threads[u][k].update,
           threads' \in Seq(Seq(FrameType)), Extends(th, n, threads'),
           \A k \in 1..n : threads'[Len(threads) + k] = <<NewFrame(Len(scopes) + k)>>
    PROVE  IInv'
    <1> DEFINE new == [k \in 1..n |-> ScopeOf(Top(t).env, Len(scopes) + k, Len(scopes) + k)]
               bs  == [k \in 1..n |-> NoNames]
    <1>1. /\ ~ Ended(t) /\ Len(scopes) + n <= MaxScopes /\ Len(threads) + n <= MaxThreads
          /\ Len(scopes) \in Nat /\ Len(threads) \in Nat /\ Top(t).env \in DOMAIN scopes
          /\ DOMAIN scopes = 1..Len(scopes)
        BY TopFacts DEF Branches, Running, CanOpen, IInv, TypeOK
    <1>2. ASSUME NEW k \in 1..n
          PROVE  /\ Len(scopes) + k \in ScopeIds /\ NewScope(scopes, new[k], Len(scopes) + k)
                 /\ new[k] \in ScopeType /\ new[k].opener = Len(scopes) + k
        <2>1. Len(scopes) + k \in ScopeIds
            BY <1>1, BoundsAssumption DEF ScopeIds
        <2>2. new[k] = ScopeOf(Top(t).env, Len(scopes) + k, Len(scopes) + k)
            OBVIOUS
        <2>. HIDE DEF new
        <2>3. /\ NewScope(scopes, ScopeOf(Top(t).env, Len(scopes) + k, Len(scopes) + k), Len(scopes) + k)
              /\ ScopeOf(Top(t).env, Len(scopes) + k, Len(scopes) + k).opener = Len(scopes) + k
            <3>1. TypeOK
                BY DEF IInv
            <3>. QED
                BY <1>1, <2>1, <3>1, BaseScope
        <2>4. ScopeOf(Top(t).env, Len(scopes) + k, Len(scopes) + k) \in ScopeType
            BY <2>3 DEF NewScope
        <2>. QED
            BY <1>1, <2>1, <2>2, <2>3, <2>4
    <1>3. new \in [1..n -> ScopeType] /\ bs \in [1..n -> Bindings]
        BY <1>2, NoNamesType
    <1>4. scopes' = scopes \o new /\ cells' = cells \o bs /\ latest' = latest \o bs
        BY DEF Branches
    <1>5. /\ scopes \in Seq(ScopeType) /\ cells \in Seq(Bindings) /\ latest \in Seq(Bindings)
          /\ Len(cells) = Len(scopes) /\ Len(latest) = Len(scopes)
        BY DEF IInv, TypeOK
    <1>. HIDE DEF new, bs
    <1>6. /\ scopes' \in Seq(ScopeType) /\ Extends(scopes, n, scopes')
          /\ \A k \in 1..n : scopes'[Len(scopes) + k] = new[k]
        <2>1. \A s \in Seq(ScopeType) : \A c :
                c = s \o new => /\ c \in Seq(ScopeType) /\ Extends(s, n, c)
                                /\ \A k \in 1..n : c[Len(s) + k] = new[k]
            <3>. SUFFICES ASSUME NEW s \in Seq(ScopeType), NEW c, c = s \o new
                          PROVE  /\ c \in Seq(ScopeType) /\ Extends(s, n, c)
                                 /\ \A k \in 1..n : c[Len(s) + k] = new[k]
                OBVIOUS
            <3>1. new \in [1..n -> ScopeType]
                BY <1>3
            <3>2. c \in Seq(ScopeType) /\ Extends(s, n, c)
                BY <3>1, JoinFacts
            <3>3. \A k \in 1..n : c[Len(s) + k] = new[k]
                BY <3>1, JoinFacts
            <3>. QED
                BY <3>2, <3>3
        <2>. QED
            BY <1>4, <1>5, <2>1
    <1>7. /\ cells' \in Seq(Bindings) /\ Extends(cells, n, cells')
          /\ latest' \in Seq(Bindings) /\ Extends(latest, n, latest')
        <2>2. \A s \in Seq(Bindings) : \A c :
                c = s \o bs => c \in Seq(Bindings) /\ Extends(s, n, c)
            BY <1>3, JoinFacts
        <2>3. Extends(cells, n, cells') /\ Extends(latest, n, latest')
            BY <1>4, <1>5, <2>2
        <2>. QED
            BY <1>4, <1>5, <2>2, <2>3
    <1>8. Tree(scopes') /\ Grows(scopes, cells, scopes', cells')
        BY <1>2, <1>5, <1>6, <1>7, NewScopes DEF IInv
    <1>9. /\ DOMAIN scopes' = 1..(Len(scopes) + n) /\ DOMAIN scopes \subseteq DOMAIN scopes'
          /\ Len(scopes') = Len(scopes) + n /\ Len(cells') = Len(scopes') /\ Len(latest') = Len(scopes')
        BY <1>1, <1>5, <1>6, <1>7 DEF Extends
    <1>10. /\ DOMAIN threads' = 1..(Len(threads) + n) /\ DOMAIN threads = 1..Len(threads)
           /\ DOMAIN th = DOMAIN threads /\ Len(threads') = Len(threads) + n
           /\ \A u \in DOMAIN threads : u \in DOMAIN threads' /\ threads'[u] = th[u]
        <2>1. threads \in Seq(Seq(FrameType))
            BY DEF IInv, TypeOK
        <2>2. Len(threads') = Len(threads) + n /\ \A u \in 1..Len(threads) : threads'[u] = th[u]
            BY DEF Extends
        <2>3. DOMAIN threads' = 1..Len(threads') /\ DOMAIN threads = 1..Len(threads) /\ DOMAIN th = 1..Len(th)
            BY <2>1
        <2>. QED
            BY <1>1, <2>2, <2>3
    <1>11. ASSUME NEW k \in 1..n
           PROVE  LET f == NewFrame(Len(scopes) + k)
                  IN  /\ f.base = Len(scopes) + k /\ Sound(f, scopes', cells')
                      /\ f.base \notin DOMAIN scopes
        <2>1. Len(scopes) + k \in DOMAIN scopes' /\ Len(scopes) + k \notin DOMAIN scopes
            BY <1>1, <1>9
        <2>2. scopes'[Len(scopes) + k].opener = Len(scopes) + k /\ Len(scopes) + k \in ScopeIds
            BY <1>2, <1>6
        <2>. QED
            BY <2>1, <2>2, NewFrameFacts
    <1>12. ASSUME NEW u \in DOMAIN threads', u \notin DOMAIN threads
           PROVE  \E k \in 1..n : /\ u = Len(threads) + k /\ DOMAIN threads'[u] = {1}
                                  /\ threads'[u][1] = NewFrame(Len(scopes) + k)
        <2>1. u - Len(threads) \in 1..n /\ u = Len(threads) + (u - Len(threads))
            BY <1>1, <1>10, <1>12
        <2>2. PICK k \in 1..n : u = Len(threads) + k
            BY <2>1
        <2>3. threads'[u] = <<NewFrame(Len(scopes) + k)>>
            BY <2>2
        <2> DEFINE x == NewFrame(Len(scopes) + k)
        <2>4. DOMAIN <<x>> = {1} /\ <<x>>[1] = x
            <3>. HIDE DEF x
            <3>. QED
                OBVIOUS
        <2>. QED
            BY <2>2, <2>3, <2>4
    <1>13. ASSUME NEW u \in DOMAIN threads, NEW k \in DOMAIN threads'[u]
           PROVE  OldFrame(threads, threads', scopes', cells', u, k) /\ threads'[u][k].base \in DOMAIN scopes
        <2>1. /\ k \in DOMAIN threads[u] /\ k \in DOMAIN th[u] /\ threads'[u][k] = th[u][k]
              /\ threads[u][k].base \in DOMAIN scopes
            BY <1>10, <1>13, BasesExist
        <2>2. CASE th[u][k] = threads[u][k]
            BY <2>1, <2>2 DEF OldFrame
        <2>3. CASE /\ th[u][k].base = threads[u][k].base /\ th[u][k].env = threads[u][k].env
                   /\ th[u][k].handlers = threads[u][k].handlers
                   /\ th[u][k].update = threads[u][k].update
            <3>1. Sound(threads[u][k], scopes, cells)
                BY <2>1 DEF IInv, AllSound
            <3>2. \E m \in Nat : DOMAIN scopes = 1..m
                BY <1>1
            <3>3. Sound(threads[u][k], scopes', cells')
                BY <1>8, <3>1, <3>2, SoundStays DEF IInv
            <3>4. Sound(th[u][k], scopes', cells')
                BY <2>3, <3>3 DEF Sound, Owns, Pending, Held
            <3>. QED
                BY <2>1, <2>3, <3>4 DEF OldFrame
        <2>. QED
            BY <1>10, <2>1, <2>2, <2>3
    <1>14. ASSUME NEW u \in DOMAIN threads', NEW j \in DOMAIN threads'[u], u \notin DOMAIN threads
           PROVE  StartedFrame(threads', scopes, scopes', cells', u, j)
        <2>1. PICK k \in 1..n : /\ u = Len(threads) + k /\ j = 1
                                /\ threads'[u][j] = NewFrame(Len(scopes) + k)
            BY <1>12, <1>14
        <2>2. /\ threads'[u][j].base = Len(scopes) + k /\ Sound(threads'[u][j], scopes', cells')
              /\ threads'[u][j].base \notin DOMAIN scopes
            BY <1>11, <2>1
        <2>3. ASSUME NEW v \in DOMAIN threads', NEW i \in DOMAIN threads'[v],
                     threads'[v][i].base = threads'[u][j].base
              PROVE  v = u /\ i = j
            <3>1. v \notin DOMAIN threads
                BY <1>13, <2>2, <2>3
            <3>2. PICK l \in 1..n : /\ v = Len(threads) + l /\ i = 1
                                    /\ threads'[v][i] = NewFrame(Len(scopes) + l)
                BY <1>12, <2>3, <3>1
            <3>3. Len(scopes) + l = Len(scopes) + k
                BY <1>11, <2>2, <2>3, <3>2
            <3>4. l = k
                BY <1>1, <3>3
            <3>. QED
                BY <2>1, <3>2, <3>4
        <2>. QED
            BY <2>2, <2>3 DEF StartedFrame
    <1>15. AllSound(threads', scopes', cells') /\ Apart(threads')
        <2>1. Tree(scopes) /\ AllSound(threads, scopes, cells) /\ Apart(threads)
            BY DEF IInv
        <2>2. \E m \in Nat : DOMAIN scopes = 1..m
            BY <1>1
        <2>3. \A u \in DOMAIN threads' : \A k \in DOMAIN threads'[u] :
                \/ OldFrame(threads, threads', scopes', cells', u, k)
                \/ StartedFrame(threads', scopes, scopes', cells', u, k)
            BY <1>13, <1>14
        <2>. QED
            BY <1>8, <2>1, <2>2, <2>3, NextFrames
    <1>16. TypeOK'
        <2>1. writes \in Seq(DOMAIN threads')
            BY <1>10 DEF IInv, TypeOK
        <2>2. captured' \subseteq DOMAIN scopes'
            BY <1>1, <1>9 DEF IInv, TypeOK, Branches, Scopes
        <2>3. /\ Len(scopes') <= MaxScopes /\ Len(threads') <= MaxThreads
              /\ cancelled' \subseteq ThreadIds /\ writes' = writes /\ Len(writes) <= MaxWrites
            BY <1>1, <1>9, <1>10 DEF IInv, TypeOK, Branches
        <2>. QED
            BY <1>6, <1>7, <1>9, <2>1, <2>2, <2>3 DEF TypeOK, Scopes
    <1>. QED
        BY <1>8, <1>15, <1>16 DEF IInv

LEMMA SpawnInv ==
    ASSUME IInv, NEW t \in DOMAIN threads, Spawn(t)
    PROVE  IInv'
    <1>1. /\ threads \in Seq(Seq(FrameType)) /\ Len(scopes) \in Nat
          /\ Len(scopes) + 1 \in ScopeIds
        BY BoundsAssumption DEF IInv, TypeOK, Spawn, Branches, CanOpen, ScopeIds
    <1> DEFINE fs == <<NewFrame(NextScope)>>
    <1>2. fs \in Seq(FrameType)
        <2>1. <<>> \in Seq(ScopeIds) /\ <<>> \in Seq(Updates)
            OBVIOUS
        <2>2. NewFrame(NextScope) \in FrameType
            BY <1>1, <2>1 DEF NewFrame, NextScope, NoWait, None, FrameType
        <2>. QED
            BY <2>2
    <1>3. threads' = Append(threads, fs)
        BY DEF Spawn
    <1>. HIDE DEF fs
    <1>4. /\ threads' \in Seq(Seq(FrameType)) /\ Extends(threads, 1, threads')
          /\ threads'[Len(threads) + 1] = fs
        BY <1>1, <1>2, <1>3, AppendFacts
    <1>5. \A k \in 1..1 : threads'[Len(threads) + k] = <<NewFrame(Len(scopes) + k)>>
        BY <1>4 DEF fs, NextScope
    <1>. QED
        BY <1>1, <1>4, <1>5, BranchesInv DEF Spawn

LEMMA ForkInv ==
    ASSUME IInv, NEW t \in DOMAIN threads, NEW mode \in {"sync", "race"}, NEW n \in 1..MaxThreads,
           Fork(t, mode, n)
    PROVE  IInv'
    <1> DEFINE tasks == Len(threads) + 1 .. Len(threads) + n
               f  == [Top(t) EXCEPT !.waits = [mode |-> mode, tasks |-> tasks]]
               th == [threads EXCEPT ![t][Len(threads[t])] = f]
               new == [k \in 1..n |-> <<NewFrame(Len(scopes) + k)>>]
    <1>1. /\ ~ Ended(t) /\ Branches(t, n) /\ n \in Nat /\ Len(threads) \in Nat /\ Len(scopes) \in Nat
          /\ Len(threads) + n <= MaxThreads /\ Len(scopes) + n <= MaxScopes
          /\ threads \in Seq(Seq(FrameType))
        BY BoundsAssumption DEF Fork, Branches, Running, CanOpen, IInv, TypeOK
    <1>2. tasks \in SUBSET ThreadIds
        <2>1. \A u \in Int : u >= Len(threads) + 1 /\ u <= Len(threads) + n => u >= 1 /\ u <= MaxThreads
            BY <1>1, BoundsAssumption
        <2>. QED
            BY <1>1, <2>1, BoundsAssumption DEF ThreadIds
    <1>3. [mode |-> mode, tasks |-> tasks] \in [mode : {"none", "sync", "race"}, tasks : SUBSET ThreadIds]
        BY <1>2
    <1>4. /\ f \in FrameType /\ f.base = Top(t).base /\ f.env = Top(t).env
          /\ f.handlers = Top(t).handlers /\ f.update = Top(t).update
        BY <1>1, <1>3, TopFacts DEF FrameType
    <1>5. new \in [1..n -> Seq(FrameType)]
        <2>1. ASSUME NEW k \in 1..n
              PROVE  <<NewFrame(Len(scopes) + k)>> \in Seq(FrameType)
            <3>1. Len(scopes) + k \in ScopeIds
                BY <1>1, BoundsAssumption DEF ScopeIds
            <3>2. <<>> \in Seq(ScopeIds) /\ <<>> \in Seq(Updates)
                OBVIOUS
            <3>3. NewFrame(Len(scopes) + k) \in FrameType
                BY <3>1, <3>2 DEF NewFrame, NoWait, None, FrameType
            <3>. QED
                BY <3>3
        <2>. QED
            BY <2>1
    <1>6. threads' = th \o new
        BY DEF Fork
    <1>7. \A k \in 1..n : new[k] = <<NewFrame(Len(scopes) + k)>>
        OBVIOUS
    <1>. HIDE DEF f, new
    <1>8. threads[t] # <<>> /\ Top(t) = threads[t][Len(threads[t])]
        BY <1>1, TopFacts
    <1>9. /\ th \in Seq(Seq(FrameType)) /\ Len(th) = Len(threads)
          /\ \A u \in DOMAIN th :
                /\ u \in DOMAIN threads /\ DOMAIN th[u] = DOMAIN threads[u]
                /\ \A k \in DOMAIN th[u] :
                    th[u][k] = IF u = t /\ k = Len(threads[t]) THEN f ELSE threads[u][k]
        <2>. HIDE DEF f
        <2>1. /\ threads \in Seq(Seq(FrameType)) /\ threads[t] # <<>> /\ f \in FrameType
              /\ th = [threads EXCEPT ![t][Len(threads[t])] = f]
            BY <1>1, <1>4, <1>8
        <2>. HIDE DEF th
        <2>2. \A th2 : th2 = [threads EXCEPT ![t][Len(threads[t])] = f] =>
                /\ th2 \in Seq(Seq(FrameType)) /\ Len(th2) = Len(threads)
                /\ \A u \in DOMAIN th2 :
                    /\ u \in DOMAIN threads /\ DOMAIN th2[u] = DOMAIN threads[u]
                    /\ \A k \in DOMAIN th2[u] :
                        th2[u][k] = IF u = t /\ k = Len(threads[t]) THEN f ELSE threads[u][k]
            BY <2>1, ReplaceTop
        <2>. QED
            BY <2>1, <2>2
    <1>. HIDE DEF th
    <1>10. /\ threads' \in Seq(Seq(FrameType)) /\ Extends(th, n, threads')
           /\ \A k \in 1..n : threads'[Len(th) + k] = new[k]
        <2>1. \A c : c = th \o new => /\ c \in Seq(Seq(FrameType)) /\ Extends(th, n, c)
                                     /\ \A k \in 1..n : c[Len(th) + k] = new[k]
            <3>. SUFFICES ASSUME NEW c, c = th \o new
                          PROVE  /\ c \in Seq(Seq(FrameType)) /\ Extends(th, n, c)
                                 /\ \A k \in 1..n : c[Len(th) + k] = new[k]
                OBVIOUS
            <3>1. new \in [1..n -> Seq(FrameType)] /\ th \in Seq(Seq(FrameType)) /\ n \in Nat
                BY <1>1, <1>5, <1>9
            <3>2. c \in Seq(Seq(FrameType)) /\ Extends(th, n, c)
                BY <3>1, JoinFacts
            <3>3. \A k \in 1..n : c[Len(th) + k] = new[k]
                BY <3>1, JoinFacts
            <3>. QED
                BY <3>2, <3>3
        <2>. QED
            BY <1>6, <2>1
    <1>11. \A k \in 1..n : threads'[Len(threads) + k] = <<NewFrame(Len(scopes) + k)>>
        BY <1>7, <1>9, <1>10
    <1>12. ASSUME NEW u \in DOMAIN th
           PROVE  /\ DOMAIN th[u] = DOMAIN threads[u]
                  /\ \A k \in DOMAIN th[u] :
                      \/ th[u][k] = threads[u][k]
                      \/ /\ th[u][k].base = threads[u][k].base /\ th[u][k].env = threads[u][k].env
                         /\ th[u][k].handlers = threads[u][k].handlers
                         /\ th[u][k].update = threads[u][k].update
        BY <1>4, <1>8, <1>9
    <1>. QED
        BY <1>1, <1>9, <1>10, <1>11, <1>12, BranchesInv

----------------------------------------------------------------------------
LEMMA InitInv ==
    ASSUME Init
    PROVE  IInv
    <1> DEFINE r == [parent |-> 0, sees |-> {Globals}, opener |-> Globals]
               f == NewFrame(Globals)
    <1>1. Globals \in ScopeIds /\ 1 \in ThreadIds
        BY BoundsAssumption DEF Globals, ScopeIds, ThreadIds
    <1>2. r \in ScopeType /\ r.sees = {1} /\ r.opener = 1
        BY <1>1, BoundsAssumption DEF ScopeType, Globals
    <1>3. scopes = <<r>> /\ threads = <<<<f>>>> /\ cells = <<NoNames>> /\ latest = <<NoNames>>
        BY DEF Init
    <1>. HIDE DEF r
    <1>4. /\ scopes \in Seq(ScopeType) /\ Len(scopes) = 1 /\ DOMAIN scopes = {1} /\ scopes[1] = r
          /\ cells \in Seq(Bindings) /\ Len(cells) = 1 /\ latest \in Seq(Bindings) /\ Len(latest) = 1
        BY <1>2, <1>3, NoNamesType
    <1>5. f \in FrameType /\ Sound(f, scopes, cells)
        BY <1>1, <1>2, <1>4, NewFrameFacts DEF Globals
    <1>. HIDE DEF f
    <1>6. <<f>> \in Seq(FrameType) /\ DOMAIN <<f>> = {1} /\ <<f>>[1] = f
        BY <1>5
    <1> DEFINE fs == <<f>>
    <1>. HIDE DEF fs
    <1>7. threads = <<fs>> /\ fs \in Seq(FrameType) /\ DOMAIN fs = {1} /\ fs[1] = f
        BY <1>3, <1>6 DEF fs
    <1>8. threads \in Seq(Seq(FrameType)) /\ Len(threads) = 1 /\ DOMAIN threads = {1} /\ threads[1] = fs
        BY <1>7
    <1>9. captured = {} /\ cancelled = {} /\ writes = <<>>
        BY DEF Init
    <1>10. TypeOK
        BY <1>4, <1>8, <1>9, BoundsAssumption DEF TypeOK
    <1>11. Tree(scopes)
        BY <1>2, <1>4 DEF Tree
    <1>12. AllSound(threads, scopes, cells) /\ Apart(threads)
        BY <1>5, <1>7, <1>8 DEF AllSound, Apart
    <1>. QED
        BY <1>10, <1>11, <1>12 DEF IInv

LEMMA NextInv ==
    ASSUME IInv, [Next]_vars
    PROVE  IInv'
    <1>1. CASE UNCHANGED vars
        BY <1>1 DEF vars, IInv, TypeOK, Scopes
    <1>2. ASSUME NEW t \in DOMAIN threads, PushScope(t)
          PROVE  IInv'
        BY <1>2, PushScopeInv
    <1>3. ASSUME NEW t \in DOMAIN threads, PopScope(t)
          PROVE  IInv'
        BY <1>3, PopScopeInv
    <1>4. ASSUME NEW t \in DOMAIN threads, NEW n \in Names, Define(t, n) \/ SetWhole(t, n)
          PROVE  IInv'
        BY <1>4, DefineInv
    <1>5. ASSUME NEW t \in DOMAIN threads, NEW n \in Names, NEW i \in Indexes, BeginUpdate(t, n, i)
          PROVE  IInv'
        BY <1>5, BeginUpdateInv
    <1>6. ASSUME NEW t \in DOMAIN threads, EndUpdate(t)
          PROVE  IInv'
        BY <1>6, EndUpdateInv
    <1>7. ASSUME NEW t \in DOMAIN threads, PushHandler(t) \/ PopHandler(t)
          PROVE  IInv'
        BY <1>7, HandlerInv
    <1>8. ASSUME NEW t \in DOMAIN threads, Caught(t)
          PROVE  IInv'
        BY <1>8, CaughtInv
    <1>9. ASSUME NEW t \in DOMAIN threads, Uncaught(t) \/ Abort(t)
          PROVE  IInv'
        BY <1>9, EndInv
    <1>10. ASSUME NEW t \in DOMAIN threads, MakeFunction(t)
           PROVE  IInv'
        BY <1>10, MakeFunctionInv
    <1>11. ASSUME NEW t \in DOMAIN threads, NEW c \in captured, NEW ns \in SUBSET Names, Call(t, c, ns)
           PROVE  IInv'
        BY <1>11, CallInv
    <1>12. ASSUME NEW t \in DOMAIN threads, Return(t)
           PROVE  IInv'
        BY <1>12, ReturnInv
    <1>13. ASSUME NEW t \in DOMAIN threads, Spawn(t)
           PROVE  IInv'
        BY <1>13, SpawnInv
    <1>14. ASSUME NEW t \in DOMAIN threads, NEW mode \in {"sync", "race"},
                  NEW n \in 1..MaxThreads, Fork(t, mode, n)
           PROVE  IInv'
        BY <1>14, ForkInv
    <1>15. ASSUME NEW t \in DOMAIN threads, SyncDone(t)
           PROVE  IInv'
        BY <1>15, SyncDoneInv
    <1>16. ASSUME NEW t \in DOMAIN threads, RaceDone(t)
           PROVE  IInv'
        BY <1>16, RaceDoneInv
    <1>. QED
        BY <1>1, <1>2, <1>3, <1>4, <1>5, <1>6, <1>7, <1>8, <1>9, <1>10, <1>11, <1>12,
           <1>13, <1>14, <1>15, <1>16 DEF Next, Done

(* The variables keep their types: tasks and their frames only refer to    *)
(* scopes that exist, and PopScope never leaves the globals.               *)
THEOREM Typing == Spec => []TypeOK
    <1>1. Init => IInv
        BY InitInv
    <1>2. IInv /\ [Next]_vars => IInv'
        BY NextInv
    <1>3. IInv => TypeOK
        BY DEF IInv
    <1>. QED
        BY <1>1, <1>2, <1>3, PTL DEF Spec

(* However calls, failures and any number of tasks interleave, a frame     *)
(* runs in, and returns to, scopes it created itself, and no two frames    *)
(* share them: frame.env of one never leaks into another.                  *)
THEOREM FramesOwnTheirScopes == Spec => []FramesOwnScopes
    <1>1. Init => IInv
        BY InitInv
    <1>2. IInv /\ [Next]_vars => IInv'
        BY NextInv
    <1>3. IInv => FramesOwnScopes
        <2>1. ASSUME AllSound(threads, scopes, cells), Apart(threads)
              PROVE  FramesOwnScopes
            <3>1. ASSUME NEW t \in DOMAIN threads, NEW k \in DOMAIN threads[t]
                  PROVE  {threads[t][k].env} \cup Held(threads[t][k]) \subseteq OpenedBy(threads[t][k])
                BY <2>1 DEF AllSound, Sound, Owns, OpenedBy, Scopes
            <3>. QED
                BY <2>1, <3>1 DEF FramesOwnScopes, Apart
        <2>. QED
            BY <2>1 DEF IInv
    <1>. QED
        BY <1>1, <1>2, <1>3, PTL DEF Spec

----------------------------------------------------------------------------
(***************************************************************************)
(* LocalUpdatesReturn and PrivateWritesStand, for any names and any bounds:*)
(* what `set A[i] = e` loaded from a local variable goes back to that      *)
(* variable, whatever e calls and whatever the other tasks do meanwhile;   *)
(* and no assignment to a variable out of the reach of every function is   *)
(* lost to such an assignment that was pending.                            *)
(*                                                                         *)
(* For the first: to the invariant above is added why: the       *)
(* scopes a frame opened form the inner end of the chain it sees (Chain);  *)
(* those it is to return to lie one within the other, around its current   *)
(* one (Nested); so a name it declares while an update is pending lands in *)
(* a scope the update does not see, and one that any other frame declares  *)
(* lands outside the local end of the chain.  The variable found at first  *)
(* stays the innermost (Direct).                                           *)
(***************************************************************************)
Chain(sc) ==
    \A s \in DOMAIN sc :
        /\ s \in sc[s].sees /\ sc[s].opener <= s
        /\ sc[s].opener # s => sc[s].sees = {s} \cup sc[sc[s].parent].sees
        /\ \A d \in sc[s].sees : d >= sc[s].opener => sc[d].opener = sc[s].opener

(* What frame f is to return to, but for its handlers after the j-th.      *)
Outer(f, j) ==
    {f.base} \cup {f.handlers[i] : i \in {k \in DOMAIN f.handlers : k <= j}}
             \cup {f.update[k].env : k \in DOMAIN f.update}

Nested(f, sc) ==
    /\ Held(f) \subseteq sc[f.env].sees
    /\ \A j \in DOMAIN f.handlers : Outer(f, j) \subseteq sc[f.handlers[j]].sees

Direct(f, sc, ce) ==
    \A j \in DOMAIN f.update : \A d \in sc[f.update[j].env].sees :
        d >= f.base /\ f.update[j].name \in DOMAIN ce[d] => d <= f.update[j].from

Local(f, sc, ce) == Nested(f, sc) /\ Direct(f, sc, ce)

AllLocal(th, sc, ce) == \A t \in DOMAIN th : \A k \in DOMAIN th[t] : Local(th[t][k], sc, ce)

UInv ==
    /\ IInv
    /\ Chain(scopes)
    /\ AllLocal(threads, scopes, cells)

(* Scopes are only added, and no name is defined in one there was.         *)
SameNames(sc, ce, sc2, ce2) ==
    \A s \in DOMAIN sc : /\ s \in DOMAIN sc2 /\ sc2[s] = sc[s]
                         /\ DOMAIN ce2[s] = DOMAIN ce[s]

(* A frame of th2 that is the one of th in its place.                      *)
Kept(th, th2, t, k) == t \in DOMAIN th /\ k \in DOMAIN th[t] /\ th2[t][k] = th[t][k]

(* No update begins: what is pending after the step was before.            *)
OldUpdate(f) ==
    \/ f.update = None
    \/ \E t \in DOMAIN threads : \E k \in DOMAIN threads[t] : f.update = threads[t][k].update
OldUpdates == \A t \in DOMAIN threads' : \A k \in DOMAIN threads'[t] : OldUpdate(threads'[t][k])

----------------------------------------------------------------------------
(* The scopes an update of a sound frame refers to exist.                  *)
LEMMA UpdateScopes ==
    ASSUME NEW f, NEW sc, NEW ce, Tree(sc), Sound(f, sc, ce), NEW n \in Nat, DOMAIN sc = 1..n,
           NEW j \in DOMAIN f.update
    PROVE  /\ f.update[j].env \in DOMAIN sc /\ sc[f.update[j].env].opener = f.base
           /\ sc[f.update[j].env].sees \subseteq 1..f.update[j].env
           /\ sc[f.update[j].env].sees \subseteq DOMAIN sc
           /\ f.update[j].from \in sc[f.update[j].env].sees
           /\ f.update[j].name \in DOMAIN ce[f.update[j].from]
    <1>1. f.update[j].env \in DOMAIN sc /\ sc[f.update[j].env].opener = f.base
        BY DEF Sound, Owns, Held
    <1>2. sc[f.update[j].env].sees \subseteq 1..f.update[j].env
        BY <1>1 DEF Tree
    <1>. QED
        BY <1>1, <1>2 DEF Sound, Pending

(* A frame that does not change stays local as scopes are added.           *)
LEMMA LocalStays ==
    ASSUME NEW f, NEW sc, NEW ce, NEW sc2, NEW ce2,
           Tree(sc), SameNames(sc, ce, sc2, ce2), Sound(f, sc, ce), Local(f, sc, ce),
           NEW n \in Nat, DOMAIN sc = 1..n
    PROVE  Local(f, sc2, ce2)
    <1>1. /\ f.env \in DOMAIN sc
          /\ \A j \in DOMAIN f.handlers : f.handlers[j] \in DOMAIN sc
        BY DEF Sound, Owns, Held
    <1>2. Nested(f, sc2)
        BY <1>1 DEF Local, Nested, SameNames
    <1>3. ASSUME NEW j \in DOMAIN f.update,
                 NEW d \in sc2[f.update[j].env].sees, d >= f.base, f.update[j].name \in DOMAIN ce2[d]
          PROVE  d <= f.update[j].from
        <2>1. /\ f.update[j].env \in DOMAIN sc /\ f.update[j].from \in DOMAIN sc
              /\ sc[f.update[j].env].sees \subseteq DOMAIN sc
            BY UpdateScopes
        <2>2. d \in sc[f.update[j].env].sees /\ d \in DOMAIN sc
            BY <1>3, <2>1 DEF SameNames
        <2>3. f.update[j].name \in DOMAIN ce[d]
            BY <1>3, <2>2 DEF SameNames
        <2>. QED
            BY <1>3, <2>2, <2>3 DEF Local, Direct
    <1>. QED
        BY <1>2, <1>3 DEF Local, Direct

(* The frames of a step, one by one.                                       *)
LEMMA NextLocal ==
    ASSUME UInv, NEW n \in Nat, DOMAIN scopes = 1..n,
           SameNames(scopes, cells, scopes', cells'),
           \A t \in DOMAIN threads' : \A k \in DOMAIN threads'[t] :
               Kept(threads, threads', t, k) \/ Local(threads'[t][k], scopes', cells')
    PROVE  AllLocal(threads', scopes', cells')
    <1>1. ASSUME NEW t \in DOMAIN threads', NEW k \in DOMAIN threads'[t],
                 Kept(threads, threads', t, k)
          PROVE  Local(threads'[t][k], scopes', cells')
        <2>1. Sound(threads[t][k], scopes, cells) /\ Local(threads[t][k], scopes, cells)
            BY <1>1 DEF UInv, IInv, AllSound, AllLocal, Kept
        <2>2. Tree(scopes)
            BY DEF UInv, IInv
        <2>. QED
            BY <1>1, <2>1, <2>2, LocalStays DEF Kept
    <1>. QED
        BY <1>1 DEF AllLocal

LEMMA NextUpdates ==
    ASSUME \A t \in DOMAIN threads' : \A k \in DOMAIN threads'[t] :
               Kept(threads, threads', t, k) \/ OldUpdate(threads'[t][k])
    PROVE  OldUpdates
    BY DEF Kept, OldUpdate, OldUpdates

(* What the invariant says of the innermost frame.                         *)
LEMMA TopLocal ==
    ASSUME UInv, NEW t \in DOMAIN threads, ~ Ended(t)
    PROVE  /\ Local(Top(t), scopes, cells)
           /\ Held(Top(t)) \subseteq scopes[Top(t).env].sees
           /\ \A j \in DOMAIN Top(t).handlers :
                Outer(Top(t), j) \subseteq scopes[Top(t).handlers[j]].sees
           /\ Direct(Top(t), scopes, cells)
           /\ OldUpdate(Top(t))
    <1>1. Len(threads[t]) \in DOMAIN threads[t] /\ Top(t) = threads[t][Len(threads[t])]
        BY TopFacts DEF UInv
    <1>2. Local(Top(t), scopes, cells)
        BY <1>1 DEF UInv, AllLocal
    <1>3. OldUpdate(Top(t))
        BY <1>1 DEF OldUpdate
    <1>. QED
        BY <1>2, <1>3 DEF Local, Nested

----------------------------------------------------------------------------
(* Steps that change the innermost frame of a thread, and nothing else.    *)
LEMMA OnlyTopLocal ==
    ASSUME UInv, IInv', NEW t \in DOMAIN threads, ~ Ended(t),
           NEW f \in FrameType, Local(f, scopes, cells),
           Becomes(t, f), UNCHANGED <<scopes, cells>>
    PROVE  UInv' /\ (f.update = Top(t).update => OldUpdates)
    <1>1. /\ threads \in Seq(Seq(FrameType)) /\ threads[t] # <<>>
          /\ Len(scopes) \in Nat /\ DOMAIN scopes = 1..Len(scopes)
        BY TopFacts DEF UInv, IInv, TypeOK
    <1>2. \A u \in DOMAIN threads' :
            /\ u \in DOMAIN threads /\ DOMAIN threads'[u] = DOMAIN threads[u]
            /\ \A k \in DOMAIN threads'[u] :
                threads'[u][k] = IF u = t /\ k = Len(threads[t]) THEN f ELSE threads[u][k]
        BY <1>1, ReplaceTop DEF Becomes
    <1>3. \A u \in DOMAIN threads' : \A k \in DOMAIN threads'[u] :
            Kept(threads, threads', u, k) \/ Local(threads'[u][k], scopes', cells')
        BY <1>2 DEF Kept
    <1>4. SameNames(scopes, cells, scopes', cells')
        BY DEF SameNames
    <1>5. AllLocal(threads', scopes', cells')
        BY <1>1, <1>3, <1>4, NextLocal
    <1>6. ASSUME f.update = Top(t).update
          PROVE  OldUpdates
        <2>1. OldUpdate(f)
            BY <1>6, TopLocal DEF OldUpdate
        <2>. QED
            BY <1>2, <2>1, NextUpdates DEF Kept
    <1>. QED
        BY <1>5, <1>6 DEF UInv

(* The scope a block leaves is no scope its frame is to return to, so all  *)
(* of those lie in the chain of its parent.                                *)
LEMMA PopScopeLocal ==
    ASSUME UInv, IInv', NEW t \in DOMAIN threads, PopScope(t)
    PROVE  UInv' /\ OldUpdates
    <1> DEFINE e == Top(t).env
               p == scopes[e].parent
               f == [Top(t) EXCEPT !.env = p]
    <1>1. ~ Ended(t) /\ IInv
        BY DEF PopScope, Running, UInv
    <1>2. e \notin Held(Top(t)) /\ e # Top(t).base
        BY DEF PopScope, Held
    <1>3. e \in DOMAIN scopes /\ scopes[e].opener # e
        BY <1>1, <1>2, TopFacts
    <1>4. p \in DOMAIN scopes /\ scopes[e].sees = {e} \cup scopes[p].sees
        BY <1>1, <1>3 DEF UInv, IInv, Chain, Tree
    <1>5. /\ f \in FrameType /\ f.base = Top(t).base /\ f.env = p
          /\ f.handlers = Top(t).handlers /\ f.update = Top(t).update
        <2>1. p \in ScopeIds
            BY <1>1, <1>4, TopFacts
        <2>. QED
            BY <1>1, <2>1, TopFacts DEF FrameType
    <1>6. Held(f) \subseteq scopes[p].sees
        <2>1. Held(f) = Held(Top(t))
            BY <1>5 DEF Held
        <2>. QED
            BY <1>1, <1>2, <1>4, <2>1, TopLocal
    <1>7. Local(f, scopes, cells)
        <2>1. \A j \in DOMAIN f.handlers : Outer(f, j) = Outer(Top(t), j)
            BY <1>5 DEF Outer
        <2>2. Nested(f, scopes)
            BY <1>1, <1>5, <1>6, <2>1, TopLocal DEF Nested
        <2>3. Direct(f, scopes, cells)
            BY <1>1, <1>5, TopLocal DEF Direct
        <2>. QED
            BY <2>2, <2>3 DEF Local
    <1>. QED
        BY <1>1, <1>5, <1>7, OnlyTopLocal DEF PopScope, store

(* What a name denotes is the innermost scope that defines it.             *)
LEMMA DenotesInnermost ==
    ASSUME TypeOK, Tree(scopes), NEW s \in Scopes, NEW n, Defined(s, n)
    PROVE  \A d \in scopes[s].sees : n \in DOMAIN cells[d] => d <= Denotes(s, n)
    <1> DEFINE X == {c \in scopes[s].sees : n \in DOMAIN cells[c]}
    <1>1. s \in Nat /\ X \subseteq 1..s /\ X # {}
        BY DEF TypeOK, Tree, Defined, Scopes
    <1>2. \E m \in X : \A d \in X : d <= m
        BY <1>1, Greatest
    <1>3. \E c \in scopes[s].sees : /\ n \in DOMAIN cells[c]
                                    /\ \A d \in scopes[s].sees : n \in DOMAIN cells[d] => d <= c
        BY <1>2
    <1>. QED
        BY <1>3 DEF Denotes

LEMMA BeginUpdateLocal ==
    ASSUME UInv, IInv', NEW t \in DOMAIN threads, NEW n \in Names, NEW i \in Indexes,
           BeginUpdate(t, n, i)
    PROVE  UInv'
    <1> DEFINE d == Denotes(Top(t).env, n)
               u == [env |-> Top(t).env, name |-> n, index |-> i, from |-> d, old |-> cells[d][n]]
               f == [Top(t) EXCEPT !.update = <<u>>]
    <1>1. /\ ~ Ended(t) /\ Defined(Top(t).env, n) /\ IInv /\ Top(t).handlers = <<>>
          /\ Becomes(t, f) /\ UNCHANGED <<scopes, cells>>
        BY DEF BeginUpdate, Running, UInv, AtStatement, store
    <1>2. Top(t).env \in Scopes
        BY <1>1, TopFacts DEF Scopes
    <1>3. \A c \in scopes[Top(t).env].sees : n \in DOMAIN cells[c] => c <= d
        BY <1>1, <1>2, DenotesInnermost DEF IInv
    <1>4. f \in FrameType
        <2>1. /\ \A x \in DOMAIN threads' : \A k \in DOMAIN threads'[x] : threads'[x][k] \in FrameType
              /\ threads'[t][Len(threads[t])] = f
              /\ t \in DOMAIN threads' /\ Len(threads[t]) \in DOMAIN threads'[t]
            <3>1. threads' \in Seq(Seq(FrameType))
                BY DEF IInv, TypeOK
            <3>2. threads \in Seq(Seq(FrameType)) /\ Len(threads[t]) \in DOMAIN threads[t]
                BY <1>1, TopFacts DEF IInv, TypeOK
            <3>. HIDE DEF f
            <3>. QED
                BY <1>1, <3>1, <3>2 DEF Becomes
        <2>. QED
            BY <2>1
    <1>5. /\ f.base = Top(t).base /\ f.env = Top(t).env
          /\ f.handlers = <<>> /\ f.update = <<u>>
        BY <1>1, TopFacts DEF FrameType
    <1>6. DOMAIN f.update = {1} /\ f.update[1] = u /\ DOMAIN f.handlers = {}
        BY <1>5
    <1>7. Nested(f, scopes)
        <2>1. Top(t).base \in Held(Top(t))
            BY DEF Held
        <2>2. Top(t).base \in scopes[Top(t).env].sees
            BY <1>1, <2>1, TopLocal
        <2>3. Top(t).env \in scopes[Top(t).env].sees
            BY <1>2 DEF UInv, Chain, Scopes
        <2>4. Held(f) \subseteq {Top(t).base, Top(t).env}
            BY <1>5, <1>6 DEF Held
        <2>. QED
            BY <1>5, <1>6, <2>2, <2>3, <2>4 DEF Nested
    <1>8. Direct(f, scopes, cells)
        BY <1>3, <1>6 DEF Direct
    <1>. QED
        BY <1>1, <1>4, <1>7, <1>8, OnlyTopLocal DEF Local

(* A handler restores the environment it was set up in: what the frame is  *)
(* to return to after it lies outside.                                     *)
LEMMA PushHandlerLocal ==
    ASSUME UInv, IInv', NEW t \in DOMAIN threads, PushHandler(t)
    PROVE  UInv' /\ OldUpdates
    <1> DEFINE e  == Top(t).env
               hs == Top(t).handlers
               f  == [Top(t) EXCEPT !.handlers = Append(@, Top(t).env)]
    <1>1. ~ Ended(t) /\ IInv
        BY DEF PushHandler, Running, UInv
    <1>2. hs \in Seq(ScopeIds) /\ e \in ScopeIds /\ e \in DOMAIN scopes /\ Len(hs) \in Nat
        BY <1>1, TopFacts DEF FrameType
    <1>3. /\ f \in FrameType /\ f.base = Top(t).base /\ f.env = e
          /\ f.handlers = Append(hs, e) /\ f.update = Top(t).update
        <2>1. Append(hs, e) \in Seq(ScopeIds)
            BY <1>2
        <2>. QED
            BY <1>1, <2>1, TopFacts DEF FrameType
    <1>4. /\ DOMAIN f.handlers = 1..(Len(hs) + 1) /\ DOMAIN hs = 1..Len(hs)
          /\ f.handlers[Len(hs) + 1] = e
          /\ \A j \in DOMAIN hs : f.handlers[j] = hs[j]
          /\ \A j \in DOMAIN f.handlers : j \in DOMAIN hs \/ j = Len(hs) + 1
        BY <1>2, <1>3
    <1>. HIDE DEF f
    <1>5. Held(Top(t)) \subseteq scopes[e].sees /\ e \in scopes[e].sees
        BY <1>1, <1>2, TopLocal DEF UInv, Chain
    <1>6. Held(f) \subseteq scopes[e].sees
        BY <1>3, <1>4, <1>5 DEF Held
    <1>7. ASSUME NEW j \in DOMAIN f.handlers
          PROVE  Outer(f, j) \subseteq scopes[f.handlers[j]].sees
        <2>1. CASE j \in DOMAIN hs
            <3>1. \A k \in DOMAIN f.handlers : k <= j => k \in DOMAIN hs
                BY <1>2, <1>4, <2>1
            <3>2. Outer(f, j) \subseteq Outer(Top(t), j)
                BY <1>3, <1>4, <3>1 DEF Outer
            <3>. QED
                BY <1>1, <1>4, <2>1, <3>2, TopLocal
        <2>2. CASE j = Len(hs) + 1
            <3>1. Outer(f, j) \subseteq Held(f)
                BY DEF Outer, Held
            <3>. QED
                BY <1>4, <1>6, <2>2, <3>1
        <2>. QED
            BY <1>4, <2>1, <2>2
    <1>8. Direct(f, scopes, cells)
        BY <1>1, <1>3, TopLocal DEF Direct
    <1>. QED
        BY <1>1, <1>3, <1>6, <1>7, <1>8, OnlyTopLocal DEF PushHandler, Local, Nested, store, f

LEMMA PopHandlerLocal ==
    ASSUME UInv, IInv', NEW t \in DOMAIN threads, PopHandler(t)
    PROVE  UInv' /\ OldUpdates
    <1> DEFINE hs == Top(t).handlers
               f  == [Top(t) EXCEPT !.handlers = SubSeq(@, 1, Len(@) - 1)]
    <1>1. ~ Ended(t) /\ IInv
        BY DEF PopHandler, Running, UInv
    <1>2. hs \in Seq(ScopeIds) /\ SubSeq(hs, 1, Len(hs) - 1) \in Seq(ScopeIds)
        BY <1>1, TopFacts DEF FrameType
    <1>3. /\ f \in FrameType /\ f.base = Top(t).base /\ f.env = Top(t).env
          /\ f.handlers = SubSeq(hs, 1, Len(hs) - 1) /\ f.update = Top(t).update
        BY <1>1, <1>2, TopFacts DEF FrameType
    <1>4. \A j \in DOMAIN f.handlers : j \in DOMAIN hs /\ f.handlers[j] = hs[j]
        BY <1>2, <1>3
    <1>. HIDE DEF f
    <1>5. Held(f) \subseteq Held(Top(t))
        BY <1>3, <1>4 DEF Held
    <1>6. \A j \in DOMAIN f.handlers : Outer(f, j) \subseteq Outer(Top(t), j)
        BY <1>3, <1>4 DEF Outer
    <1>7. Nested(f, scopes)
        BY <1>1, <1>3, <1>4, <1>5, <1>6, TopLocal DEF Nested
    <1>8. Direct(f, scopes, cells)
        BY <1>1, <1>3, TopLocal DEF Direct
    <1>. QED
        BY <1>1, <1>3, <1>7, <1>8, OnlyTopLocal DEF PopHandler, Local, store, f

(* A frame that only begins or ceases to wait.                             *)
LEMMA SameFrameLocal ==
    ASSUME NEW f, NEW g, NEW sc, NEW ce, Local(f, sc, ce),
           g.base = f.base, g.env = f.env, g.handlers = f.handlers, g.update = f.update
    PROVE  Local(g, sc, ce)
    <1>1. Held(g) = Held(f)
        BY DEF Held
    <1>2. \A j \in DOMAIN f.handlers : Outer(g, j) = Outer(f, j)
        BY DEF Outer
    <1>3. Nested(g, sc)
        BY <1>1, <1>2 DEF Local, Nested
    <1>4. Direct(g, sc, ce)
        BY DEF Local, Direct
    <1>. QED
        BY <1>3, <1>4 DEF Local

LEMMA SyncDoneLocal ==
    ASSUME UInv, IInv', NEW t \in DOMAIN threads, SyncDone(t)
    PROVE  UInv' /\ OldUpdates
    <1> DEFINE f == [Top(t) EXCEPT !.waits = NoWait]
    <1>1. ~ Ended(t) /\ IInv
        BY DEF SyncDone, Waiting, UInv
    <1>2. /\ f \in FrameType /\ f.base = Top(t).base /\ f.env = Top(t).env
          /\ f.handlers = Top(t).handlers /\ f.update = Top(t).update
        BY <1>1, TopFacts DEF FrameType, NoWait
    <1>. HIDE DEF f
    <1>3. Local(f, scopes, cells)
        BY <1>1, <1>2, TopLocal, SameFrameLocal
    <1>. QED
        BY <1>1, <1>2, <1>3, OnlyTopLocal DEF SyncDone, store, f

----------------------------------------------------------------------------
(* Steps after which threads have fewer frames.                            *)
LEMMA SameStore ==
    ASSUME UInv, IInv', UNCHANGED <<scopes, cells>>,
           \A t \in DOMAIN threads' : \A k \in DOMAIN threads'[t] :
               \/ Kept(threads, threads', t, k)
               \/ Local(threads'[t][k], scopes, cells) /\ OldUpdate(threads'[t][k])
    PROVE  UInv' /\ OldUpdates
    <1>1. Len(scopes) \in Nat /\ DOMAIN scopes = 1..Len(scopes)
        BY DEF UInv, IInv, TypeOK
    <1>2. SameNames(scopes, cells, scopes', cells')
        BY DEF SameNames
    <1>3. AllLocal(threads', scopes', cells')
        BY <1>1, <1>2, NextLocal
    <1>4. OldUpdates
        BY NextUpdates
    <1>. QED
        BY <1>3, <1>4 DEF UInv

LEMMA ReturnLocal ==
    ASSUME UInv, IInv', NEW t \in DOMAIN threads, Return(t)
    PROVE  UInv' /\ OldUpdates
    <1> DEFINE r == SubSeq(threads[t], 1, Len(threads[t]) - 1)
    <1>1. ~ Ended(t) /\ IInv
        BY DEF Return, Running, UInv
    <1>2. DOMAIN r \subseteq DOMAIN threads[t] /\ \A k \in DOMAIN r : r[k] = threads[t][k]
        BY <1>1, TopFacts
    <1>3. threads' = [threads EXCEPT ![t] = r] /\ UNCHANGED <<scopes, cells>>
        BY DEF Return, store
    <1>. HIDE DEF r
    <1>4. \A u \in DOMAIN threads' : \A k \in DOMAIN threads'[u] : Kept(threads, threads', u, k)
        BY <1>2, <1>3 DEF Kept
    <1>. QED
        BY <1>3, <1>4, SameStore

LEMMA EndLocal ==
    ASSUME UInv, IInv', NEW t \in DOMAIN threads, Uncaught(t) \/ Abort(t)
    PROVE  UInv' /\ OldUpdates
    <1>1. DOMAIN threads' = DOMAIN threads
        BY DEF Uncaught, Abort
    <1>2. \A u \in DOMAIN threads : threads'[u] = <<>> \/ threads'[u] = threads[u]
        BY DEF Uncaught, Abort
    <1>3. DOMAIN <<>> = {}
        OBVIOUS
    <1>4. \A u \in DOMAIN threads' : \A k \in DOMAIN threads'[u] : Kept(threads, threads', u, k)
        BY <1>1, <1>2, <1>3 DEF Kept
    <1>5. UNCHANGED <<scopes, cells>>
        BY DEF Uncaught, Abort, store
    <1>. QED
        BY <1>4, <1>5, SameStore

(* The frame that catches a failure returns to its last handler's scope,   *)
(* around which all it is still to return to lies.                         *)
LEMMA CaughtLocal ==
    ASSUME UInv, IInv', NEW t \in DOMAIN threads, Caught(t)
    PROVE  UInv' /\ OldUpdates
    <1>1. ~ Ended(t) /\ IInv /\ threads[t] \in Seq(FrameType) /\ UNCHANGED <<scopes, cells>>
        BY TopFacts DEF Caught, Running, UInv, store
    <1>2. PICK k \in Catchers(t) :
            LET hs == threads[t][k].handlers
                f  == [threads[t][k] EXCEPT !.env = hs[Len(hs)],
                                            !.handlers = SubSeq(hs, 1, Len(hs) - 1)]
            IN  threads' = [threads EXCEPT ![t] = Append(SubSeq(threads[t], 1, k - 1), f)]
        BY DEF Caught
    <1> DEFINE g  == threads[t][k]
               hs == g.handlers
               f  == [g EXCEPT !.env = hs[Len(hs)], !.handlers = SubSeq(hs, 1, Len(hs) - 1)]
               r  == Append(SubSeq(threads[t], 1, k - 1), f)
    <1>3. k \in 1..Len(threads[t]) /\ g \in FrameType /\ hs # <<>> /\ Local(g, scopes, cells)
        BY <1>1 DEF Catchers, UInv, AllLocal
    <1>4. hs \in Seq(ScopeIds) /\ Len(hs) \in DOMAIN hs /\ hs[Len(hs)] \in ScopeIds
        BY <1>3 DEF FrameType
    <1>5. SubSeq(hs, 1, Len(hs) - 1) \in Seq(ScopeIds)
        BY <1>4
    <1>6. /\ f \in FrameType /\ f.base = g.base /\ f.env = hs[Len(hs)]
          /\ f.handlers = SubSeq(hs, 1, Len(hs) - 1) /\ f.update = g.update
        BY <1>3, <1>4, <1>5 DEF FrameType
    <1>7. \A j \in DOMAIN f.handlers : j \in DOMAIN hs /\ f.handlers[j] = hs[j] /\ j <= Len(hs)
        BY <1>4, <1>6
    <1>8. threads' = [threads EXCEPT ![t] = r]
        BY <1>2
    <1>9. /\ Len(r) = k /\ r \in Seq(FrameType)
          /\ \A j \in 1..k : r[j] = IF j = k THEN f ELSE threads[t][j]
        <2>. HIDE DEF f
        <2>. QED
            BY <1>1, <1>3, <1>6
    <1>. HIDE DEF f, r
    <1>10. Local(f, scopes, cells)
        <2>1. Held(f) \subseteq Outer(g, Len(hs))
            BY <1>6, <1>7 DEF Held, Outer
        <2>2. \A j \in DOMAIN f.handlers : Outer(f, j) \subseteq Outer(g, j)
            BY <1>6, <1>7 DEF Outer
        <2>3. Nested(f, scopes)
            BY <1>3, <1>4, <1>6, <1>7, <2>1, <2>2 DEF Local, Nested
        <2>4. Direct(f, scopes, cells)
            BY <1>3, <1>6 DEF Local, Direct
        <2>. QED
            BY <2>3, <2>4 DEF Local
    <1>11. ASSUME NEW u \in DOMAIN threads', NEW j \in DOMAIN threads'[u]
           PROVE  \/ Kept(threads, threads', u, j)
                  \/ Local(threads'[u][j], scopes, cells) /\ OldUpdate(threads'[u][j])
        <2>1. u \in DOMAIN threads /\ threads'[u] = IF u = t THEN r ELSE threads[u]
            BY <1>8
        <2>2. CASE u = t
            <3>1. j \in 1..k /\ threads'[u][j] = IF j = k THEN f ELSE threads[t][j]
                BY <1>9, <1>11, <2>1, <2>2
            <3>2. j \in DOMAIN threads[t]
                BY <1>1, <1>3, <3>1
            <3>3. OldUpdate(f)
                BY <1>1, <1>3, <1>6 DEF OldUpdate
            <3>. QED
                BY <1>10, <2>1, <2>2, <3>1, <3>2, <3>3 DEF Kept
        <2>3. CASE u # t
            BY <1>11, <2>1, <2>3 DEF Kept
        <2>. QED
            BY <2>2, <2>3
    <1>. QED
        BY <1>1, <1>11, SameStore

LEMMA RaceDoneLocal ==
    ASSUME UInv, IInv', NEW t \in DOMAIN threads, RaceDone(t)
    PROVE  UInv' /\ OldUpdates
    <1> DEFINE losers == {u \in Awaited(t) : ~ Ended(u)}
               f == [Top(t) EXCEPT !.waits = NoWait]
               r == [threads[t] EXCEPT ![Len(threads[t])] = f]
    <1>1. ~ Ended(t) /\ IInv /\ UNCHANGED <<scopes, cells>>
        BY DEF RaceDone, Waiting, UInv, store
    <1>2. /\ f \in FrameType /\ f.base = Top(t).base /\ f.env = Top(t).env
          /\ f.handlers = Top(t).handlers /\ f.update = Top(t).update
        BY <1>1, TopFacts DEF FrameType, NoWait
    <1>3. threads' = [u \in DOMAIN threads |->
                        IF u \in losers THEN <<>> ELSE IF u = t THEN r ELSE threads[u]]
        BY DEF RaceDone
    <1>. HIDE DEF f
    <1>4. Local(f, scopes, cells) /\ OldUpdate(f)
        BY <1>1, <1>2, TopLocal, SameFrameLocal DEF OldUpdate
    <1>5. /\ DOMAIN r = DOMAIN threads[t]
          /\ \A k \in DOMAIN r : r[k] = IF k = Len(threads[t]) THEN f ELSE threads[t][k]
        BY <1>1, <1>2, TopFacts
    <1>. HIDE DEF r, losers
    <1>6. DOMAIN <<>> = {}
        OBVIOUS
    <1>7. ASSUME NEW u \in DOMAIN threads', NEW k \in DOMAIN threads'[u]
          PROVE  \/ Kept(threads, threads', u, k)
                 \/ Local(threads'[u][k], scopes, cells) /\ OldUpdate(threads'[u][k])
        <2>1. u \in DOMAIN threads /\ u \notin losers
            BY <1>3, <1>6, <1>7
        <2>2. CASE u = t
            BY <1>3, <1>4, <1>5, <1>7, <2>1, <2>2 DEF Kept
        <2>3. CASE u # t
            BY <1>3, <1>7, <2>1, <2>3 DEF Kept
        <2>. QED
            BY <2>2, <2>3
    <1>. QED
        BY <1>1, <1>7, SameStore

LEMMA MakeFunctionLocal ==
    ASSUME UInv, IInv', NEW t \in DOMAIN threads, MakeFunction(t)
    PROVE  UInv' /\ OldUpdates
    BY DEF UInv, MakeFunction, store, OldUpdates, OldUpdate

----------------------------------------------------------------------------
(* Steps that write a variable.  One that exists: no name is defined.      *)
LEMMA SetWholeLocal ==
    ASSUME UInv, IInv', NEW t \in DOMAIN threads, NEW n \in Names, SetWhole(t, n)
    PROVE  UInv' /\ OldUpdates
    <1> DEFINE d == Denotes(Top(t).env, n)
    <1>1. ~ Ended(t) /\ Defined(Top(t).env, n) /\ IInv /\ UNCHANGED <<scopes, threads>>
        BY DEF SetWhole, Running, UInv
    <1>2. Top(t).env \in Scopes
        BY <1>1, TopFacts DEF Scopes
    <1>3. n \in DOMAIN cells[d]
        BY <1>1, <1>2, DenotesFacts DEF IInv
    <1>4. cells' = [cells EXCEPT ![d] = Binding(@, n, Written)]
        BY DEF SetWhole, Write
    <1>. HIDE DEF d
    <1>5. DOMAIN Binding(cells[d], n, Written) = DOMAIN cells[d]
        BY <1>3 DEF Binding
    <1>6. Len(scopes) \in Nat /\ DOMAIN scopes = 1..Len(scopes) /\ DOMAIN cells = DOMAIN scopes
        BY <1>1, TopFacts
    <1>7. SameNames(scopes, cells, scopes', cells')
        BY <1>1, <1>4, <1>5, <1>6 DEF SameNames
    <1>8. \A u \in DOMAIN threads' : \A k \in DOMAIN threads'[u] : Kept(threads, threads', u, k)
        BY <1>1 DEF Kept
    <1>9. AllLocal(threads', scopes', cells') /\ OldUpdates
        BY <1>6, <1>7, <1>8, NextLocal, NextUpdates
    <1>. QED
        BY <1>1, <1>9 DEF UInv

LEMMA EndUpdateLocal ==
    ASSUME UInv, IInv', NEW t \in DOMAIN threads, EndUpdate(t)
    PROVE  UInv' /\ OldUpdates
    <1> DEFINE u == Top(t).update[1]
               d == Denotes(u.env, u.name)
               f == [Top(t) EXCEPT !.update = None]
               v == [u.old EXCEPT ![u.index] = Len(writes) + 1]
    <1>1. ~ Ended(t) /\ IInv /\ Becomes(t, f) /\ UNCHANGED scopes
        BY DEF EndUpdate, Running, UInv
    <1>2. cells' = [cells EXCEPT ![d][u.name] = v]
        BY DEF EndUpdate
    <1>3. Len(scopes) \in Nat /\ DOMAIN scopes = 1..Len(scopes) /\ DOMAIN cells = DOMAIN scopes
        BY <1>1, TopFacts
    <1>4. f.base = Top(t).base /\ f.env = Top(t).env /\ f.handlers = Top(t).handlers /\ f.update = <<>>
        BY <1>1, TopFacts DEF FrameType, None
    <1>5. SameNames(scopes, cells, scopes', cells')
        <2>. HIDE DEF v, d, u
        <2>1. cells' = [cells EXCEPT ![d] = [cells[d] EXCEPT ![u.name] = v]]
            BY <1>2
        <2>2. DOMAIN [cells[d] EXCEPT ![u.name] = v] = DOMAIN cells[d]
            OBVIOUS
        <2>. QED
            BY <1>1, <1>3, <2>1, <2>2 DEF SameNames
    <1>. HIDE DEF f
    <1>6. DOMAIN f.update = {} /\ Top(t).handlers = <<>>
        BY <1>4 DEF EndUpdate
    <1>7. Local(f, scopes', cells') /\ OldUpdate(f)
        <2>1. Held(f) \subseteq Held(Top(t)) /\ DOMAIN f.handlers = {}
            BY <1>4, <1>6 DEF Held
        <2>2. Nested(f, scopes)
            BY <1>1, <1>4, <2>1, TopLocal DEF Nested
        <2>3. Direct(f, scopes', cells')
            BY <1>6 DEF Direct
        <2>. QED
            BY <1>1, <1>4, <2>2, <2>3 DEF Local, OldUpdate, None
    <1>8. threads \in Seq(Seq(FrameType)) /\ threads[t] # <<>> /\ threads' = [threads EXCEPT ![t][Len(threads[t])] = f]
        BY <1>1, TopFacts DEF IInv, TypeOK, Becomes
    <1>9. \A x \in DOMAIN threads' : \A k \in DOMAIN threads'[x] :
            \/ Kept(threads, threads', x, k)
            \/ Local(threads'[x][k], scopes', cells') /\ OldUpdate(threads'[x][k])
        BY <1>7, <1>8 DEF Kept
    <1>10. AllLocal(threads', scopes', cells') /\ OldUpdates
        BY <1>3, <1>5, <1>9, NextLocal, NextUpdates
    <1>. QED
        BY <1>1, <1>10 DEF UInv

(* A declaration is the one step that can define a name where an update is *)
(* pending: the frame's own lies outside of what the update sees, another  *)
(* frame's outside of the local end of it.                                 *)
LEMMA DefineLocal ==
    ASSUME UInv, IInv', NEW t \in DOMAIN threads, NEW n \in Names, Define(t, n)
    PROVE  UInv' /\ OldUpdates
    <1> DEFINE e == Top(t).env
    <1>1. /\ ~ Ended(t) /\ IInv /\ UNCHANGED <<scopes, threads>>
          /\ AtStatement(Top(t)) \/ e \notin Held(Top(t))
        BY DEF Define, Running, UInv
    <1>2. /\ Len(scopes) \in Nat /\ DOMAIN scopes = 1..Len(scopes) /\ DOMAIN cells = DOMAIN scopes
          /\ e \in DOMAIN scopes /\ scopes[e].opener = Top(t).base
          /\ Len(threads[t]) \in DOMAIN threads[t] /\ Top(t) = threads[t][Len(threads[t])]
          /\ Tree(scopes)
        BY <1>1, TopFacts DEF IInv
    <1>3. \A d \in DOMAIN scopes : d # e => cells'[d] = cells[d]
        BY <1>2 DEF Define, Write
    <1>. HIDE DEF e
    <1>4. ASSUME NEW x \in DOMAIN threads, NEW k \in DOMAIN threads[x],
                 NEW j \in DOMAIN threads[x][k].update,
                 NEW d \in scopes[threads[x][k].update[j].env].sees,
                 d >= threads[x][k].base, threads[x][k].update[j].name \in DOMAIN cells'[d]
          PROVE  d <= threads[x][k].update[j].from
        <2> DEFINE g == threads[x][k]
                   u == g.update[j]
        <2>1. Sound(g, scopes, cells) /\ Local(g, scopes, cells)
            BY <1>1 DEF UInv, IInv, AllSound, AllLocal
        <2>2. /\ u.env \in DOMAIN scopes /\ scopes[u.env].opener = g.base
              /\ scopes[u.env].sees \subseteq 1..u.env /\ scopes[u.env].sees \subseteq DOMAIN scopes
              /\ u.from \in scopes[u.env].sees
            BY <1>2, <2>1, UpdateScopes
        <2>3. d \in DOMAIN scopes /\ d \in Nat /\ u.from \in DOMAIN scopes /\ u.from \in Nat
            BY <1>2, <2>2
        <2>4. CASE d # e
            BY <1>3, <1>4, <2>1, <2>3, <2>4 DEF Local, Direct
        <2>5. CASE d = e /\ x = t /\ k = Len(threads[t])
            <3>1. g = Top(t)
                BY <1>2, <2>5
            <3>2. u.env \in Held(Top(t))
                BY <3>1 DEF Held
            <3>3. e \notin Held(Top(t))
                <4>1. DOMAIN <<>> = {}
                    OBVIOUS
                <4>. QED
                    BY <1>1, <3>1, <4>1 DEF AtStatement, None
            <3>4. u.env \in scopes[e].sees
                BY <1>1, <3>2, TopLocal DEF e
            <3>5. u.env \in 1..e /\ d \in 1..u.env
                BY <1>2, <2>2, <3>4 DEF Tree
            <3>6. e \in Nat /\ e = u.env
                BY <1>2, <2>5, <3>5
            <3>. QED
                BY <3>2, <3>3, <3>6
        <2>6. CASE d = e /\ ~ (x = t /\ k = Len(threads[t]))
            <3>1. g.base # Top(t).base
                BY <1>1, <1>2, <2>6 DEF IInv, Apart
            <3>2. scopes[d].opener # g.base
                BY <1>2, <2>6, <3>1
            <3>. QED
                BY <1>4, <2>2, <3>2 DEF UInv, Chain
        <2>. QED
            BY <2>4, <2>5, <2>6
    <1>5. \A x \in DOMAIN threads : \A k \in DOMAIN threads[x] : Direct(threads[x][k], scopes, cells')
        BY <1>4 DEF Direct
    <1>6. AllLocal(threads, scopes, cells')
        BY <1>5 DEF UInv, AllLocal, Local
    <1>. QED
        BY <1>1, <1>6 DEF UInv, OldUpdates, OldUpdate

----------------------------------------------------------------------------
(* Steps that add scopes.                                                  *)
LEMMA NewChain ==
    ASSUME NEW sc \in Seq(ScopeType), NEW ce \in Seq(Bindings), Len(ce) = Len(sc),
           Tree(sc), Chain(sc),
           NEW n \in Nat, NEW sc2 \in Seq(ScopeType), NEW ce2,
           Extends(sc, n, sc2), Extends(ce, n, ce2),
           \A k \in 1..n : NewScope(sc, sc2[Len(sc) + k], Len(sc) + k)
    PROVE  Chain(sc2) /\ SameNames(sc, ce, sc2, ce2)
    <1>1. DOMAIN sc = 1..Len(sc) /\ DOMAIN sc2 = 1..(Len(sc) + n) /\ Len(sc) \in Nat
        BY DEF Extends
    <1>2. \A s \in DOMAIN sc : s \in DOMAIN sc2 /\ sc2[s] = sc[s]
        BY <1>1 DEF Extends
    <1>3. SameNames(sc, ce, sc2, ce2)
        BY <1>1, <1>2 DEF SameNames, Extends
    <1>4. ASSUME NEW s \in DOMAIN sc2
          PROVE  /\ s \in sc2[s].sees /\ sc2[s].opener <= s
                 /\ sc2[s].opener # s => sc2[s].sees = {s} \cup sc2[sc2[s].parent].sees
                 /\ \A d \in sc2[s].sees : d >= sc2[s].opener => sc2[d].opener = sc2[s].opener
        <2>1. CASE s \in DOMAIN sc
            <3>1. /\ s \in sc[s].sees /\ sc[s].opener <= s
                  /\ sc[s].opener # s => sc[s].sees = {s} \cup sc[sc[s].parent].sees
                  /\ \A d \in sc[s].sees : d >= sc[s].opener => sc[d].opener = sc[s].opener
                BY <2>1 DEF Chain
            <3>2. /\ sc[s].sees \subseteq DOMAIN sc
                  /\ sc[s].opener # s => sc[s].parent \in DOMAIN sc
                BY <1>1, <2>1 DEF Tree
            <3>. QED
                BY <1>2, <2>1, <3>1, <3>2
        <2>2. CASE s \notin DOMAIN sc
            <3>1. PICK k \in 1..n : s = Len(sc) + k
                <4>1. s - Len(sc) \in 1..n /\ s = Len(sc) + (s - Len(sc))
                    BY <1>1, <2>2
                <4>. QED
                    BY <4>1
            <3>2. PICK p \in DOMAIN sc :
                    /\ sc2[s].parent = p /\ sc2[s].sees = {s} \cup sc[p].sees
                    /\ sc2[s].opener \in {s, sc[p].opener}
                BY <3>1 DEF NewScope
            <3>3. sc2[p] = sc[p] /\ p \in Nat /\ s \in Nat /\ p < s
                BY <1>1, <1>2, <3>1, <3>2
            <3>4. /\ sc[p].sees \subseteq 1..p /\ sc[p].opener <= p /\ sc[p].opener \in Nat
                  /\ \A d \in sc[p].sees : d >= sc[p].opener => sc[d].opener = sc[p].opener
                <4>1. sc[p] \in ScopeType
                    BY <3>2
                <4>2. sc[p].opener \in Nat
                    BY <4>1, BoundsAssumption DEF ScopeType, ScopeIds
                <4>. QED
                    BY <3>2, <4>2 DEF Tree, Chain
            <3>5. ASSUME NEW d \in sc2[s].sees, d >= sc2[s].opener
                  PROVE  sc2[d].opener = sc2[s].opener
                <4>1. CASE d = s
                    BY <4>1
                <4>2. CASE d # s
                    <5>1. d \in sc[p].sees /\ d \in 1..p /\ d < s /\ d \in DOMAIN sc
                        BY <1>1, <3>2, <3>3, <3>4, <3>5, <4>2
                    <5>2. sc2[s].opener = sc[p].opener
                        BY <3>2, <3>3, <3>5, <5>1
                    <5>. QED
                        BY <1>2, <3>4, <3>5, <5>1, <5>2
                <4>. QED
                    BY <4>1, <4>2
            <3>6. s \in sc2[s].sees
                BY <3>2
            <3>7. sc2[s].opener <= s
                BY <3>2, <3>3, <3>4
            <3>8. sc2[s].opener # s => sc2[s].sees = {s} \cup sc2[sc2[s].parent].sees
                BY <3>2, <3>3
            <3>. QED
                BY <3>5, <3>6, <3>7, <3>8
        <2>. QED
            BY <2>1, <2>2
    <1>5. Chain(sc2)
        BY <1>4 DEF Chain
    <1>. QED
        BY <1>3, <1>5

LEMMA NewFrameLocal ==
    ASSUME NEW s, NEW sc, NEW ce, s \in sc[s].sees
    PROVE  Local(NewFrame(s), sc, ce) /\ OldUpdate(NewFrame(s))
    <1> DEFINE f == NewFrame(s)
    <1>1. f.base = s /\ f.env = s /\ f.handlers = <<>> /\ f.update = <<>>
        BY DEF NewFrame, None
    <1>2. DOMAIN f.handlers = {} /\ DOMAIN f.update = {}
        BY <1>1
    <1>. HIDE DEF f
    <1>3. Held(f) = {s}
        BY <1>1, <1>2 DEF Held
    <1>. QED
        BY <1>1, <1>2, <1>3 DEF Local, Nested, Direct, OldUpdate, None, f

(* One more scope, opened by a frame there is or by one that starts in it. *)
LEMMA OneChain ==
    ASSUME UInv, NEW r, NEW b \in Bindings, NewScope(scopes, r, NextScope),
           scopes' = Append(scopes, r), cells' = Append(cells, b)
    PROVE  /\ Chain(scopes') /\ SameNames(scopes, cells, scopes', cells')
           /\ NextScope \in DOMAIN scopes' /\ NextScope \in scopes'[NextScope].sees
           /\ scopes'[NextScope] = r
           /\ Len(scopes) \in Nat /\ DOMAIN scopes = 1..Len(scopes)
    <1>1. /\ scopes \in Seq(ScopeType) /\ cells \in Seq(Bindings) /\ Len(cells) = Len(scopes)
          /\ Tree(scopes) /\ Chain(scopes) /\ r \in ScopeType
          /\ Len(scopes) \in Nat /\ DOMAIN scopes = 1..Len(scopes)
        BY DEF UInv, IInv, TypeOK, NewScope
    <1>2. /\ scopes' \in Seq(ScopeType) /\ Extends(scopes, 1, scopes') /\ scopes'[Len(scopes) + 1] = r
          /\ Extends(cells, 1, cells')
        BY <1>1, AppendFacts
    <1>3. \A k \in 1..1 : NewScope(scopes, scopes'[Len(scopes) + k], Len(scopes) + k)
        BY <1>2 DEF NextScope
    <1>4. Chain(scopes') /\ SameNames(scopes, cells, scopes', cells')
        BY <1>1, <1>2, <1>3, NewChain
    <1>5. NextScope \in DOMAIN scopes'
        BY <1>1, <1>2 DEF NextScope, Extends
    <1>. QED
        BY <1>1, <1>2, <1>4, <1>5 DEF NextScope, Chain

LEMMA PushScopeLocal ==
    ASSUME UInv, IInv', NEW t \in DOMAIN threads, PushScope(t)
    PROVE  UInv' /\ OldUpdates
    <1> DEFINE N == NextScope
               r == ScopeOf(Top(t).env, Top(t).base, N)
               f == [Top(t) EXCEPT !.env = N]
    <1>1. ~ Ended(t) /\ CanOpen(1) /\ IInv
        BY DEF PushScope, Running, UInv
    <1>2. N \in ScopeIds
        BY <1>1, TopFacts, BoundsAssumption DEF NextScope, CanOpen, ScopeIds
    <1>3. r.parent = Top(t).env /\ r.sees = {N} \cup scopes[Top(t).env].sees /\ r.opener = Top(t).base
        BY DEF ScopeOf
    <1>4. NewScope(scopes, r, N)
        <2>1. scopes[Top(t).env] \in ScopeType /\ Top(t).base \in ScopeIds /\ Top(t).env \in ScopeIds
            BY <1>1, TopFacts DEF IInv, TypeOK, FrameType
        <2>2. r \in ScopeType
            BY <1>2, <2>1 DEF ScopeOf, ScopeType, ScopeIds
        <2>. QED
            BY <1>1, <1>3, <2>2, TopFacts DEF NewScope
    <1>5. scopes' = Append(scopes, r) /\ cells' = Append(cells, NoNames)
        BY DEF PushScope
    <1>. HIDE DEF r
    <1>6. /\ Chain(scopes') /\ SameNames(scopes, cells, scopes', cells')
          /\ N \in DOMAIN scopes' /\ scopes'[N] = r
          /\ Len(scopes) \in Nat /\ DOMAIN scopes = 1..Len(scopes)
        BY <1>4, <1>5, NoNamesType, OneChain
    <1>7. /\ f \in FrameType /\ f.base = Top(t).base /\ f.env = N
          /\ f.handlers = Top(t).handlers /\ f.update = Top(t).update
        BY <1>1, <1>2, TopFacts DEF FrameType
    <1>8. threads' = [threads EXCEPT ![t][Len(threads[t])] = f]
        BY DEF PushScope, Becomes
    <1>. HIDE DEF f
    <1>9. Local(f, scopes', cells') /\ OldUpdate(f)
        <2>1. Local(Top(t), scopes', cells')
            BY <1>1, <1>6, TopFacts, TopLocal, LocalStays DEF IInv
        <2>2. Held(f) = Held(Top(t)) /\ \A j \in DOMAIN f.handlers : Outer(f, j) = Outer(Top(t), j)
            BY <1>7 DEF Held, Outer
        <2>3. Held(f) \subseteq scopes'[N].sees
            BY <1>1, <1>3, <1>6, <2>2, TopLocal
        <2>4. Nested(f, scopes')
            BY <1>7, <2>1, <2>2, <2>3 DEF Local, Nested
        <2>5. Direct(f, scopes', cells')
            BY <1>7, <2>1 DEF Local, Direct
        <2>6. OldUpdate(f)
            BY <1>1, <1>7, TopLocal DEF OldUpdate
        <2>. QED
            BY <2>4, <2>5, <2>6 DEF Local
    <1>10. threads \in Seq(Seq(FrameType)) /\ threads[t] # <<>>
        BY <1>1, TopFacts DEF IInv, TypeOK
    <1>11. \A u \in DOMAIN threads' : \A k \in DOMAIN threads'[u] :
            \/ Kept(threads, threads', u, k)
            \/ Local(threads'[u][k], scopes', cells') /\ OldUpdate(threads'[u][k])
        BY <1>8, <1>9, <1>10 DEF Kept
    <1>12. AllLocal(threads', scopes', cells') /\ OldUpdates
        BY <1>6, <1>11, NextLocal, NextUpdates
    <1>. QED
        BY <1>6, <1>12 DEF UInv

LEMMA CallLocal ==
    ASSUME UInv, IInv', NEW t \in DOMAIN threads, NEW c \in captured, NEW ns \in SUBSET Names,
           Call(t, c, ns)
    PROVE  UInv' /\ OldUpdates
    <1> DEFINE N == NextScope
               r == CalleeScope(t, c)
               b == [n \in ns |-> Written]
               f == NewFrame(N)
               fs == Append(threads[t], f)
    <1>1. /\ ~ Ended(t) /\ CanOpen(1) /\ IInv
          /\ threads[t] \in Seq(FrameType) /\ Len(threads[t]) \in Nat
        BY TopFacts DEF Call, Running, UInv
    <1>2. N \in ScopeIds
        BY <1>1, TopFacts, BoundsAssumption DEF NextScope, CanOpen, ScopeIds
    <1>3. NewScope(scopes, r, N)
        BY <1>1, <1>2, BaseScope DEF CalleeScope, IInv, TypeOK, Scopes
    <1>4. b \in Bindings
        <2>1. CASE ns = {}
            <3>1. b \in [{} -> Arrays]
                BY <2>1
            <3>. QED
                BY <3>1 DEF Bindings
        <2>2. CASE ns # {}
            <3>1. Written \in Arrays
                BY <1>1, <2>2, WritesFacts DEF Call, IInv
            <3>2. b \in [ns -> Arrays]
                BY <3>1
            <3>. QED
                BY <3>2 DEF Bindings
        <2>. QED
            BY <2>1, <2>2
    <1>5. /\ scopes' = Append(scopes, r) /\ cells' = Append(cells, b)
          /\ threads' = [threads EXCEPT ![t] = fs]
        BY DEF Call
    <1>. HIDE DEF r, b
    <1>6. /\ Chain(scopes') /\ SameNames(scopes, cells, scopes', cells')
          /\ N \in scopes'[N].sees
          /\ Len(scopes) \in Nat /\ DOMAIN scopes = 1..Len(scopes)
        BY <1>3, <1>4, <1>5, OneChain
    <1>7. Local(f, scopes', cells') /\ OldUpdate(f)
        BY <1>6, NewFrameLocal
    <1>. HIDE DEF f
    <1>8. \A k \in DOMAIN fs : fs[k] = f \/ (k \in DOMAIN threads[t] /\ fs[k] = threads[t][k])
        BY <1>1
    <1>. HIDE DEF fs
    <1>9. \A u \in DOMAIN threads' : \A k \in DOMAIN threads'[u] :
            \/ Kept(threads, threads', u, k)
            \/ Local(threads'[u][k], scopes', cells') /\ OldUpdate(threads'[u][k])
        BY <1>5, <1>7, <1>8 DEF Kept
    <1>10. AllLocal(threads', scopes', cells') /\ OldUpdates
        BY <1>6, <1>9, NextLocal, NextUpdates
    <1>. QED
        BY <1>6, <1>10 DEF UInv

(* n branches start, each in a new scope.                                  *)
LEMMA BranchesLocal ==
    ASSUME UInv, IInv', NEW t \in DOMAIN threads, NEW n \in Nat, Branches(t, n),
           \A u \in DOMAIN threads' : \A k \in DOMAIN threads'[u] :
               \/ Kept(threads, threads', u, k)
               \/ /\ u = t /\ threads'[u][k].base = Top(t).base /\ threads'[u][k].env = Top(t).env
                  /\ threads'[u][k].handlers = Top(t).handlers
                  /\ threads'[u][k].update = Top(t).update
               \/ \E m \in 1..n : threads'[u][k] = NewFrame(Len(scopes) + m)
    PROVE  UInv' /\ OldUpdates
    <1> DEFINE new == [k \in 1..n |-> ScopeOf(Top(t).env, Len(scopes) + k, Len(scopes) + k)]
               bs  == [k \in 1..n |-> NoNames]
    <1>1. /\ ~ Ended(t) /\ Len(scopes) + n <= MaxScopes /\ IInv /\ TypeOK /\ Tree(scopes)
          /\ Len(scopes) \in Nat /\ DOMAIN scopes = 1..Len(scopes) /\ Top(t).env \in DOMAIN scopes
        BY TopFacts DEF Branches, Running, CanOpen, UInv, IInv
    <1>2. ASSUME NEW k \in 1..n
          PROVE  NewScope(scopes, new[k], Len(scopes) + k) /\ new[k] \in ScopeType
        <2>1. Len(scopes) + k \in ScopeIds
            BY <1>1, BoundsAssumption DEF ScopeIds
        <2>2. new[k] = ScopeOf(Top(t).env, Len(scopes) + k, Len(scopes) + k)
            OBVIOUS
        <2>. HIDE DEF new
        <2>3. NewScope(scopes, new[k], Len(scopes) + k)
            BY <1>1, <2>1, <2>2, BaseScope
        <2>. QED
            BY <2>3 DEF NewScope
    <1>3. new \in [1..n -> ScopeType] /\ bs \in [1..n -> Bindings]
        BY <1>2, NoNamesType
    <1>4. scopes' = scopes \o new /\ cells' = cells \o bs
        BY DEF Branches
    <1>5. scopes \in Seq(ScopeType) /\ cells \in Seq(Bindings) /\ Len(cells) = Len(scopes)
        BY <1>1 DEF TypeOK
    <1>. HIDE DEF new, bs
    <1>6. /\ scopes' \in Seq(ScopeType) /\ Extends(scopes, n, scopes')
          /\ \A k \in 1..n : scopes'[Len(scopes) + k] = new[k]
        <2>1. ASSUME NEW s \in Seq(ScopeType), NEW c, c = s \o new
              PROVE  /\ c \in Seq(ScopeType) /\ Extends(s, n, c)
                     /\ \A k \in 1..n : c[Len(s) + k] = new[k]
            <3>1. new \in [1..n -> ScopeType]
                BY <1>3
            <3>2. c \in Seq(ScopeType) /\ Extends(s, n, c)
                BY <2>1, <3>1, JoinFacts
            <3>3. \A k \in 1..n : c[Len(s) + k] = new[k]
                BY <2>1, <3>1, JoinFacts
            <3>. QED
                BY <3>2, <3>3
        <2>. QED
            BY <1>4, <1>5, <2>1
    <1>7. Extends(cells, n, cells')
        <2>1. ASSUME NEW s \in Seq(Bindings), NEW c, c = s \o bs
              PROVE  Extends(s, n, c)
            BY <1>3, <2>1, JoinFacts
        <2>. QED
            BY <1>4, <1>5, <2>1
    <1>8. Chain(scopes') /\ SameNames(scopes, cells, scopes', cells')
        <2>1. Chain(scopes)
            BY DEF UInv
        <2>. QED
            BY <1>1, <1>2, <1>5, <1>6, <1>7, <2>1, NewChain
    <1>9. ASSUME NEW m \in 1..n
          PROVE  /\ Local(NewFrame(Len(scopes) + m), scopes', cells')
                 /\ OldUpdate(NewFrame(Len(scopes) + m))
        <2>1. Len(scopes) + m \in DOMAIN scopes'
            BY <1>1, <1>6 DEF Extends
        <2>2. Len(scopes) + m \in scopes'[Len(scopes) + m].sees
            BY <1>8, <2>1 DEF Chain
        <2>. QED
            BY <2>2, NewFrameLocal
    <1>10. Local(Top(t), scopes', cells') /\ OldUpdate(Top(t))
        BY <1>1, <1>8, TopFacts, TopLocal, LocalStays
    <1>11. \A u \in DOMAIN threads' : \A k \in DOMAIN threads'[u] :
            \/ Kept(threads, threads', u, k)
            \/ Local(threads'[u][k], scopes', cells') /\ OldUpdate(threads'[u][k])
        BY <1>9, <1>10, SameFrameLocal DEF OldUpdate
    <1>12. AllLocal(threads', scopes', cells') /\ OldUpdates
        BY <1>1, <1>8, <1>11, NextLocal, NextUpdates
    <1>. QED
        BY <1>8, <1>12 DEF UInv

(* The only frame of a thread that starts.                                 *)
LEMMA OneFrame ==
    ASSUME NEW x
    PROVE  DOMAIN <<x>> = {1} /\ <<x>>[1] = x
    OBVIOUS

LEMMA SpawnLocal ==
    ASSUME UInv, IInv', NEW t \in DOMAIN threads, Spawn(t)
    PROVE  UInv' /\ OldUpdates
    <1> DEFINE fs == <<NewFrame(NextScope)>>
    <1>1. threads \in Seq(Seq(FrameType)) /\ Len(threads) \in Nat /\ DOMAIN threads = 1..Len(threads)
        BY DEF UInv, IInv, TypeOK
    <1>2. threads' = Append(threads, fs)
        BY DEF Spawn
    <1>3. DOMAIN fs = {1} /\ fs[1] = NewFrame(Len(scopes) + 1)
        BY OneFrame DEF NextScope
    <1>. HIDE DEF fs
    <1>4. \A u \in DOMAIN threads' : (u \in DOMAIN threads /\ threads'[u] = threads[u]) \/ threads'[u] = fs
        BY <1>1, <1>2
    <1>5. ASSUME NEW u \in DOMAIN threads', NEW k \in DOMAIN threads'[u]
          PROVE  \/ Kept(threads, threads', u, k)
                 \/ \E m \in 1..1 : threads'[u][k] = NewFrame(Len(scopes) + m)
        <2>1. CASE u \in DOMAIN threads /\ threads'[u] = threads[u]
            BY <1>5, <2>1 DEF Kept
        <2>2. CASE threads'[u] = fs
            BY <1>3, <1>5, <2>2
        <2>. QED
            BY <1>4, <2>1, <2>2
    <1>. QED
        BY <1>5, BranchesLocal DEF Spawn

LEMMA ForkLocal ==
    ASSUME UInv, IInv', NEW t \in DOMAIN threads, NEW mode \in {"sync", "race"},
           NEW n \in 1..MaxThreads, Fork(t, mode, n)
    PROVE  UInv' /\ OldUpdates
    <1> DEFINE tasks == Len(threads) + 1 .. Len(threads) + n
               f  == [Top(t) EXCEPT !.waits = [mode |-> mode, tasks |-> tasks]]
               th == [threads EXCEPT ![t][Len(threads[t])] = f]
               new == [k \in 1..n |-> <<NewFrame(Len(scopes) + k)>>]
    <1>1. /\ ~ Ended(t) /\ Branches(t, n) /\ n \in Nat /\ IInv
          /\ threads \in Seq(Seq(FrameType)) /\ Len(threads) \in Nat /\ DOMAIN threads = 1..Len(threads)
          /\ threads[t] # <<>>
        BY BoundsAssumption DEF Fork, Branches, Running, Ended, UInv, IInv, TypeOK
    <1>2. threads' = th \o new
        BY DEF Fork
    <1>3. /\ f.base = Top(t).base /\ f.env = Top(t).env
          /\ f.handlers = Top(t).handlers /\ f.update = Top(t).update
        BY <1>1, TopFacts DEF FrameType
    <1>4. \A k \in 1..n : new[k] = <<NewFrame(Len(scopes) + k)>>
        OBVIOUS
    <1> DEFINE S == {th[u] : u \in 1..Len(threads)} \cup {new[k] : k \in 1..n}
    <1>5. th \in [1..Len(threads) -> S] /\ new \in [1..n -> S]
        BY <1>1
    <1>. HIDE DEF f, new
    <1>6. /\ DOMAIN th = DOMAIN threads
          /\ \A u \in DOMAIN threads :
                /\ DOMAIN th[u] = DOMAIN threads[u]
                /\ \A k \in DOMAIN th[u] :
                    th[u][k] = IF u = t /\ k = Len(threads[t]) THEN f ELSE threads[u][k]
        BY <1>1
    <1>. HIDE DEF th, S
    <1>7. /\ Len(threads') = Len(threads) + n
          /\ DOMAIN threads' = 1..Len(threads')
          /\ \A u \in 1..Len(threads) : threads'[u] = th[u]
          /\ \A k \in 1..n : threads'[Len(threads) + k] = new[k]
        <2>1. th \in Seq(S) /\ Len(th) = Len(threads)
            BY <1>1, <1>5, SeqOfFunction
        <2>2. threads' \in Seq(S) /\ Extends(th, n, threads')
            BY <1>1, <1>2, <1>5, <2>1, JoinFacts
        <2>3. \A k \in 1..n : threads'[Len(th) + k] = new[k]
            BY <1>1, <1>2, <1>5, <2>1, JoinFacts
        <2>. QED
            BY <2>1, <2>2, <2>3 DEF Extends
    <1>8. \A u \in DOMAIN threads' :
            \/ u \in DOMAIN threads /\ threads'[u] = th[u]
            \/ \E k \in 1..n : threads'[u] = <<NewFrame(Len(scopes) + k)>>
        <2>1. ASSUME NEW u \in DOMAIN threads', u \notin DOMAIN threads
              PROVE  \E k \in 1..n : threads'[u] = <<NewFrame(Len(scopes) + k)>>
            <3>1. u - Len(threads) \in 1..n /\ u = Len(threads) + (u - Len(threads))
                BY <1>1, <1>7, <2>1
            <3>. QED
                BY <1>4, <1>7, <3>1
        <2>. QED
            BY <1>1, <1>7, <2>1
    <1>9. ASSUME NEW u \in DOMAIN threads', NEW k \in DOMAIN threads'[u]
          PROVE  \/ Kept(threads, threads', u, k)
                 \/ u = t /\ threads'[u][k] = f
                 \/ \E m \in 1..n : threads'[u][k] = NewFrame(Len(scopes) + m)
        <2>1. CASE u \in DOMAIN threads /\ threads'[u] = th[u]
            BY <1>6, <1>9, <2>1 DEF Kept
        <2>2. CASE \E m \in 1..n : threads'[u] = <<NewFrame(Len(scopes) + m)>>
            BY <1>9, <2>2, OneFrame
        <2>. QED
            BY <1>8, <2>1, <2>2
    <1>. QED
        BY <1>1, <1>3, <1>9, BranchesLocal

----------------------------------------------------------------------------
LEMMA InitLocal ==
    ASSUME Init
    PROVE  UInv
    <1> DEFINE r == [parent |-> 0, sees |-> {Globals}, opener |-> Globals]
               f == NewFrame(Globals)
    <1>1. scopes = <<r>> /\ threads = <<<<f>>>>
        BY DEF Init
    <1>2. r.sees = {1} /\ r.opener = 1
        BY DEF Globals
    <1>. HIDE DEF r, f
    <1>3. DOMAIN scopes = {1} /\ scopes[1] = r
        BY <1>1, OneFrame
    <1> DEFINE fs == <<f>>
    <1>4. DOMAIN fs = {1} /\ fs[1] = f
        BY OneFrame
    <1>. HIDE DEF fs
    <1>5. DOMAIN threads = {1} /\ threads[1] = fs
        BY <1>1, OneFrame DEF fs
    <1>6. Chain(scopes)
        BY <1>2, <1>3 DEF Chain
    <1>7. Local(f, scopes, cells)
        BY <1>2, <1>3, NewFrameLocal DEF f, Globals
    <1>8. AllLocal(threads, scopes, cells)
        BY <1>4, <1>5, <1>7 DEF AllLocal
    <1>. QED
        BY <1>6, <1>8, InitInv DEF UInv

LEMMA NextUInv ==
    ASSUME UInv, [Next]_vars
    PROVE  UInv'
    <1>0. IInv'
        BY NextInv DEF UInv
    <1>1. CASE UNCHANGED vars
        BY <1>0, <1>1 DEF vars, UInv
    <1>2. ASSUME NEW t \in DOMAIN threads, PushScope(t) \/ PopScope(t)
          PROVE  UInv'
        BY <1>0, <1>2, PushScopeLocal, PopScopeLocal
    <1>3. ASSUME NEW t \in DOMAIN threads, NEW n \in Names, Define(t, n) \/ SetWhole(t, n)
          PROVE  UInv'
        BY <1>0, <1>3, DefineLocal, SetWholeLocal
    <1>4. ASSUME NEW t \in DOMAIN threads, NEW n \in Names, NEW i \in Indexes, BeginUpdate(t, n, i)
          PROVE  UInv'
        BY <1>0, <1>4, BeginUpdateLocal
    <1>5. ASSUME NEW t \in DOMAIN threads, EndUpdate(t)
          PROVE  UInv'
        BY <1>0, <1>5, EndUpdateLocal
    <1>6. ASSUME NEW t \in DOMAIN threads, PushHandler(t) \/ PopHandler(t)
          PROVE  UInv'
        BY <1>0, <1>6, PushHandlerLocal, PopHandlerLocal
    <1>7. ASSUME NEW t \in DOMAIN threads, Caught(t)
          PROVE  UInv'
        BY <1>0, <1>7, CaughtLocal
    <1>8. ASSUME NEW t \in DOMAIN threads, Uncaught(t) \/ Abort(t) \/ Return(t)
          PROVE  UInv'
        BY <1>0, <1>8, EndLocal, ReturnLocal
    <1>9. ASSUME NEW t \in DOMAIN threads, MakeFunction(t)
          PROVE  UInv'
        BY <1>0, <1>9, MakeFunctionLocal
    <1>10. ASSUME NEW t \in DOMAIN threads, NEW c \in captured, NEW ns \in SUBSET Names, Call(t, c, ns)
           PROVE  UInv'
        BY <1>0, <1>10, CallLocal
    <1>11. ASSUME NEW t \in DOMAIN threads, Spawn(t)
           PROVE  UInv'
        BY <1>0, <1>11, SpawnLocal
    <1>12. ASSUME NEW t \in DOMAIN threads, NEW mode \in {"sync", "race"},
                  NEW n \in 1..MaxThreads, Fork(t, mode, n)
           PROVE  UInv'
        BY <1>0, <1>12, ForkLocal
    <1>13. ASSUME NEW t \in DOMAIN threads, SyncDone(t) \/ RaceDone(t)
           PROVE  UInv'
        BY <1>0, <1>13, SyncDoneLocal, RaceDoneLocal
    <1>. QED
        BY <1>1, <1>2, <1>3, <1>4, <1>5, <1>6, <1>7, <1>8, <1>9, <1>10, <1>11, <1>12,
           <1>13 DEF Next, Done

(* The variable an update of a local was loaded from is the innermost one  *)
(* of its name that the update's scope sees, and there is only one such.   *)
LEMMA UpdatesReturn ==
    ASSUME UInv
    PROVE  LocalUpdatesReturn
    <1>1. IInv /\ Tree(scopes) /\ Len(scopes) \in Nat /\ DOMAIN scopes = 1..Len(scopes)
          /\ threads \in Seq(Seq(FrameType))
        BY DEF UInv, IInv, TypeOK
    <1>2. ASSUME NEW t \in DOMAIN threads, NEW k \in DOMAIN threads[t],
                 threads[t][k].update # None,
                 threads[t][k].update[1].from \in OpenedBy(threads[t][k])
          PROVE  Denotes(threads[t][k].update[1].env, threads[t][k].update[1].name)
                     = threads[t][k].update[1].from
        <2> DEFINE f == threads[t][k]
                   u == f.update[1]
        <2>1. f \in FrameType /\ Sound(f, scopes, cells) /\ Local(f, scopes, cells)
            BY <1>1 DEF UInv, IInv, AllSound, AllLocal
        <2>2. 1 \in DOMAIN f.update
            BY <1>2, <2>1 DEF FrameType, None
        <2>3. /\ u.env \in DOMAIN scopes /\ scopes[u.env].sees \subseteq 1..u.env
              /\ u.from \in scopes[u.env].sees /\ u.name \in DOMAIN cells[u.from]
            BY <1>1, <2>1, <2>2, UpdateScopes
        <2>4. \A d \in scopes[u.env].sees : u.name \in DOMAIN cells[d] => d <= u.from
            <3>1. f.base <= u.from /\ f.base \in Nat /\ u.from \in Nat
                BY <1>1, <1>2, <2>3, BasesExist DEF OpenedBy, Scopes, UInv, Chain
            <3>2. \A d \in scopes[u.env].sees : d \in Nat
                BY <1>1, <2>3
            <3>. QED
                BY <2>1, <2>2, <3>1, <3>2 DEF Local, Direct
        <2>. HIDE DEF u
        <2>5. u.env \in Scopes /\ Defined(u.env, u.name)
            BY <2>3 DEF Defined, Scopes
        <2>6. /\ Denotes(u.env, u.name) \in scopes[u.env].sees
              /\ u.name \in DOMAIN cells[Denotes(u.env, u.name)]
              /\ u.from <= Denotes(u.env, u.name)
            BY <1>1, <2>3, <2>5, DenotesFacts, DenotesInnermost DEF IInv
        <2>7. Denotes(u.env, u.name) <= u.from
            BY <2>4, <2>6
        <2>8. Denotes(u.env, u.name) \in Nat /\ u.from \in Nat
            BY <1>1, <2>3, <2>6
        <2>9. Denotes(u.env, u.name) = u.from
            BY <2>6, <2>7, <2>8
        <2>. QED
            BY <2>9 DEF u
    <1>. QED
        BY <1>2 DEF LocalUpdatesReturn

(* While `set A[i] = e` evaluates e, A goes on naming the local variable   *)
(* that was loaded: no call, failure, declaration or step of another task, *)
(* in any number, redirects the write.                                     *)
THEOREM UpdatesOfLocalsReturn == Spec => []LocalUpdatesReturn
    <1>1. Init => UInv
        BY InitLocal
    <1>2. UInv /\ [Next]_vars => UInv'
        BY NextUInv
    <1>3. UInv => LocalUpdatesReturn
        BY UpdatesReturn
    <1>. QED
        BY <1>1, <1>2, <1>3, PTL DEF Spec

----------------------------------------------------------------------------
(* For the second: of the chain a frame sees, all but the inner end that   *)
(* it opened itself is in the reach of some function (Walled); so one      *)
(* frame only can write a variable out of reach, and it does not while its *)
(* own update of it is pending: the array loaded is still the one the      *)
(* variable holds (Fresh).                                                 *)

Walled ==
    \A s \in Scopes : \A d \in scopes[s].sees : d < scopes[s].opener => d \in Reachable

Fresh(f) ==
    \A j \in DOMAIN f.update :
        f.update[j].from \notin Reachable =>
            f.update[j].old = cells[f.update[j].from][f.update[j].name]

AllFresh == \A t \in DOMAIN threads : \A k \in DOMAIN threads[t] : Fresh(threads[t][k])

WInv ==
    /\ UInv
    /\ Walled
    /\ AllFresh
    /\ PrivateWritesStand

----------------------------------------------------------------------------
LEMMA ScopeFacts ==
    ASSUME UInv
    PROVE  /\ IInv /\ Tree(scopes) /\ Chain(scopes)
           /\ Len(scopes) \in Nat /\ Scopes = 1..Len(scopes) /\ DOMAIN scopes = Scopes
           /\ DOMAIN cells = Scopes /\ DOMAIN latest = Scopes
           /\ captured \subseteq Scopes
           /\ \A s \in Scopes : scopes[s].opener \in Nat /\ scopes[s].sees \subseteq Scopes
    <1>1. /\ IInv /\ TypeOK /\ Tree(scopes) /\ Chain(scopes)
          /\ Len(scopes) \in Nat /\ Scopes = 1..Len(scopes) /\ DOMAIN scopes = Scopes
          /\ DOMAIN cells = Scopes /\ DOMAIN latest = Scopes /\ captured \subseteq Scopes
        BY DEF UInv, IInv, TypeOK, Scopes
    <1>2. ASSUME NEW s \in Scopes
          PROVE  scopes[s].opener \in Nat
        <2>1. scopes[s] \in ScopeType
            BY <1>1 DEF TypeOK
        <2>. QED
            BY <2>1, BoundsAssumption DEF ScopeType, ScopeIds
    <1>3. \A s \in Scopes : scopes[s].sees \subseteq Scopes
        BY <1>1 DEF Tree
    <1>. QED
        BY <1>1, <1>2, <1>3

(* What a frame sees and no function reaches, it opened itself.            *)
LEMMA PrivateIsOwn ==
    ASSUME WInv, NEW s \in Scopes, NEW d \in scopes[s].sees, d \notin Reachable
    PROVE  d \in Scopes /\ scopes[d].opener = scopes[s].opener
    <1>1. d \in Scopes /\ d \in Nat /\ scopes[s].opener \in Nat
        BY ScopeFacts DEF WInv
    <1>2. ~ (d < scopes[s].opener)
        BY DEF WInv, Walled
    <1>3. d >= scopes[s].opener
        BY <1>1, <1>2
    <1>. QED
        BY <1>1, <1>3, ScopeFacts DEF WInv, Chain

LEMMA ReachGrows ==
    ASSUME WInv, captured \subseteq captured',
           \A s \in Scopes : s \in Scopes' /\ scopes'[s] = scopes[s]
    PROVE  Reachable \subseteq Reachable'
    <1>1. captured \subseteq Scopes
        BY ScopeFacts DEF WInv
    <1>. QED
        BY <1>1 DEF Reachable

(* A step that writes no variable there was, and begins no update.         *)
LEMMA QuietStep ==
    ASSUME WInv, UInv', OldUpdates, captured \subseteq captured',
           \A s \in Scopes : /\ s \in Scopes' /\ scopes'[s] = scopes[s]
                             /\ cells'[s] = cells[s] /\ latest'[s] = latest[s],
           \A s \in Scopes' : s \notin Scopes =>
               /\ cells'[s] = latest'[s]
               /\ \A d \in scopes'[s].sees : d < scopes'[s].opener => d \in Reachable'
    PROVE  WInv'
    <1>1. Reachable \subseteq Reachable'
        BY ReachGrows
    <1>2. Walled'
        BY <1>1 DEF WInv, Walled
    <1>3. ASSUME NEW t \in DOMAIN threads', NEW k \in DOMAIN threads'[t],
                 NEW j \in DOMAIN threads'[t][k].update,
                 threads'[t][k].update[j].from \notin Reachable'
          PROVE  threads'[t][k].update[j].old
                     = cells'[threads'[t][k].update[j].from][threads'[t][k].update[j].name]
        <2>1. DOMAIN <<>> = {}
            OBVIOUS
        <2>2. PICK x \in DOMAIN threads :
                \E y \in DOMAIN threads[x] : threads'[t][k].update = threads[x][y].update
            BY <1>3, <2>1 DEF OldUpdates, OldUpdate, None
        <2>3. PICK y \in DOMAIN threads[x] : threads'[t][k].update = threads[x][y].update
            BY <2>2
        <2>4. threads[x][y].update[j].from \in Scopes
            <3>1. Sound(threads[x][y], scopes, cells)
                BY DEF WInv, UInv, IInv, AllSound
            <3>2. j \in DOMAIN threads[x][y].update
                BY <1>3, <2>3
            <3>. QED
                BY <3>1, <3>2, ScopeFacts, UpdateScopes DEF WInv
        <2>5. threads[x][y].update[j].old
                  = cells[threads[x][y].update[j].from][threads[x][y].update[j].name]
            BY <1>1, <1>3, <2>3 DEF WInv, AllFresh, Fresh
        <2>. QED
            BY <2>3, <2>4, <2>5
    <1>4. AllFresh'
        BY <1>3 DEF AllFresh, Fresh
    <1>5. PrivateWritesStand'
        BY <1>1 DEF WInv, PrivateWritesStand
    <1>. QED
        BY <1>2, <1>4, <1>5 DEF WInv

LEMMA NothingWritten ==
    ASSUME WInv, UInv', OldUpdates, captured \subseteq captured', UNCHANGED <<scopes, store>>
    PROVE  WInv'
    <1>1. /\ Scopes' = Scopes
          /\ \A s \in Scopes : scopes'[s] = scopes[s] /\ cells'[s] = cells[s] /\ latest'[s] = latest[s]
        BY DEF Scopes, store
    <1>. QED
        BY <1>1, QuietStep

(* An update begins with the array its variable holds.                     *)
LEMMA BeginUpdateFresh ==
    ASSUME WInv, UInv', NEW t \in DOMAIN threads, NEW n \in Names, NEW i \in Indexes,
           BeginUpdate(t, n, i)
    PROVE  WInv'
    <1> DEFINE d == Denotes(Top(t).env, n)
               u == [env |-> Top(t).env, name |-> n, index |-> i, from |-> d, old |-> cells[d][n]]
               f == [Top(t) EXCEPT !.update = <<u>>]
    <1>1. ~ Ended(t) /\ Becomes(t, f) /\ UNCHANGED <<scopes, cells, latest, captured>>
        BY DEF BeginUpdate, Running, store
    <1>2. /\ threads \in Seq(Seq(FrameType)) /\ threads[t] # <<>> /\ Top(t) \in FrameType
        BY <1>1, TopFacts DEF WInv, UInv, IInv, TypeOK
    <1>3. f.update = <<u>>
        BY <1>2 DEF FrameType
    <1>4. DOMAIN f.update = {1} /\ f.update[1] = u
        BY <1>3, OneFrame
    <1>5. u.old = cells[u.from][u.name]
        OBVIOUS
    <1>. HIDE DEF u, f
    <1>6. Fresh(f)
        BY <1>4, <1>5 DEF Fresh
    <1>7. \A x \in DOMAIN threads' : \A k \in DOMAIN threads'[x] :
            threads'[x][k] = f \/ Kept(threads, threads', x, k)
        BY <1>1, <1>2 DEF Becomes, Kept
    <1>8. \A x \in DOMAIN threads' : \A k \in DOMAIN threads'[x] : Fresh(threads'[x][k])
        BY <1>6, <1>7 DEF WInv, AllFresh, Kept
    <1>9. AllFresh'
        BY <1>1, <1>8 DEF AllFresh, Fresh, Reachable
    <1>. QED
        BY <1>1, <1>9 DEF WInv, Walled, PrivateWritesStand, Scopes, Reachable

----------------------------------------------------------------------------
(* The innermost frame of t writes a variable it sees, while no update of  *)
(* its own from there is pending.                                          *)
LEMMA WriteStep ==
    ASSUME WInv, UInv', NEW t \in DOMAIN threads, ~ Ended(t), UNCHANGED <<scopes, captured>>,
           NEW e \in Scopes, scopes[e].opener = Top(t).base, NEW s \in scopes[e].sees,
           \A c \in Scopes : c # s => cells'[c] = cells[c] /\ latest'[c] = latest[c],
           s \notin Reachable => cells'[s] = latest'[s],
           \A x \in DOMAIN threads' : \A k \in DOMAIN threads'[x] :
               IF x = t /\ k = Len(threads[t])
               THEN \A j \in DOMAIN threads'[x][k].update :
                        Kept(threads, threads', x, k) /\ threads[x][k].update[j].from # s
               ELSE Kept(threads, threads', x, k)
    PROVE  WInv'
    <1>1. Scopes' = Scopes /\ Reachable' = Reachable
        BY DEF Scopes, Reachable
    <1>2. Walled' /\ PrivateWritesStand'
        BY <1>1 DEF WInv, Walled, PrivateWritesStand
    <1>3. ASSUME NEW x \in DOMAIN threads', NEW k \in DOMAIN threads'[x],
                 NEW j \in DOMAIN threads'[x][k].update,
                 threads'[x][k].update[j].from \notin Reachable
          PROVE  threads'[x][k].update[j].old
                     = cells'[threads'[x][k].update[j].from][threads'[x][k].update[j].name]
        <2> DEFINE g == threads[x][k]
        <2>1. Kept(threads, threads', x, k)
            BY <1>3
        <2>2. x \in DOMAIN threads /\ k \in DOMAIN threads[x] /\ threads'[x][k] = g
            BY <2>1 DEF Kept
        <2>3. j \in DOMAIN g.update /\ g.update[j].from \notin Reachable
            BY <1>3, <2>2
        <2>4. g.update[j].old = cells[g.update[j].from][g.update[j].name]
            BY <2>2, <2>3 DEF WInv, AllFresh, Fresh
        <2>5. /\ g.update[j].env \in Scopes /\ scopes[g.update[j].env].opener = g.base
              /\ g.update[j].from \in scopes[g.update[j].env].sees
            <3>1. Sound(g, scopes, cells)
                BY <2>2 DEF WInv, UInv, IInv, AllSound
            <3>. QED
                BY <2>3, <3>1, ScopeFacts, UpdateScopes DEF WInv
        <2>6. g.update[j].from \in Scopes /\ scopes[g.update[j].from].opener = g.base
            BY <2>3, <2>5, PrivateIsOwn
        <2>7. g.update[j].from # s
            <3>1. CASE x = t /\ k = Len(threads[t])
                BY <1>3, <3>1
            <3>2. CASE ~ (x = t /\ k = Len(threads[t]))
                <4>1. SUFFICES ASSUME g.update[j].from = s
                               PROVE  FALSE
                    OBVIOUS
                <4>2. scopes[s].opener = Top(t).base
                    BY <2>3, <4>1, PrivateIsOwn
                <4>3. g.base = Top(t).base
                    BY <2>6, <4>1, <4>2
                <4>4. Len(threads[t]) \in DOMAIN threads[t] /\ Top(t) = threads[t][Len(threads[t])]
                    BY TopFacts DEF WInv, UInv
                <4>. QED
                    BY <2>2, <3>2, <4>3, <4>4 DEF WInv, UInv, IInv, Apart
            <3>. QED
                BY <3>1, <3>2
        <2>. QED
            BY <2>2, <2>4, <2>6, <2>7
    <1>4. AllFresh'
        BY <1>1, <1>3 DEF AllFresh, Fresh
    <1>. QED
        BY <1>2, <1>4 DEF WInv

LEMMA SetWholeWrites ==
    ASSUME WInv, UInv', NEW t \in DOMAIN threads, NEW n \in Names, SetWhole(t, n)
    PROVE  WInv'
    <1> DEFINE s == Denotes(Top(t).env, n)
    <1>1. /\ ~ Ended(t) /\ UInv /\ IInv /\ TypeOK /\ Tree(scopes) /\ Defined(Top(t).env, n)
          /\ Top(t).update = None /\ UNCHANGED <<scopes, threads, captured>>
        BY DEF SetWhole, Running, AtStatement, WInv, UInv, IInv
    <1>2. Top(t).env \in Scopes /\ scopes[Top(t).env].opener = Top(t).base
        BY <1>1, TopFacts DEF Scopes
    <1>3. s \in scopes[Top(t).env].sees /\ s \in Scopes
        BY <1>1, <1>2, DenotesFacts
    <1>4. /\ cells' = [cells EXCEPT ![s] = Binding(@, n, Written)]
          /\ latest' = [latest EXCEPT ![s] = Binding(@, n, Written)]
        BY DEF SetWhole, Write
    <1>. HIDE DEF s
    <1>5. /\ \A c \in Scopes : c # s => cells'[c] = cells[c] /\ latest'[c] = latest[c]
          /\ s \notin Reachable => cells'[s] = latest'[s]
        <2>1. s \notin Reachable => cells[s] = latest[s]
            BY <1>3 DEF WInv, PrivateWritesStand
        <2>. QED
            BY <1>1, <1>3, <1>4, <2>1, ScopeFacts
    <1>6. DOMAIN Top(t).update = {}
        BY <1>1 DEF None
    <1>7. Top(t) = threads[t][Len(threads[t])]
        BY <1>1, TopFacts
    <1>8. \A x \in DOMAIN threads' : \A k \in DOMAIN threads'[x] :
              IF x = t /\ k = Len(threads[t])
              THEN \A j \in DOMAIN threads'[x][k].update :
                       Kept(threads, threads', x, k) /\ threads[x][k].update[j].from # s
              ELSE Kept(threads, threads', x, k)
        BY <1>1, <1>6, <1>7 DEF Kept
    <1>. QED
        BY <1>1, <1>2, <1>3, <1>5, <1>8, WriteStep

(* While its own update is pending a frame only declares, in a scope that  *)
(* the update does not see.                                                *)
LEMMA DefineWrites ==
    ASSUME WInv, UInv', NEW t \in DOMAIN threads, NEW n \in Names, Define(t, n)
    PROVE  WInv'
    <1> DEFINE e == Top(t).env
    <1>1. /\ ~ Ended(t) /\ UInv /\ IInv /\ Tree(scopes) /\ UNCHANGED <<scopes, threads, captured>>
          /\ AtStatement(Top(t)) \/ e \notin Held(Top(t))
        BY DEF Define, Running, WInv, UInv, IInv
    <1>2. /\ e \in Scopes /\ scopes[e].opener = Top(t).base /\ e \in scopes[e].sees
          /\ Top(t) = threads[t][Len(threads[t])] /\ Sound(Top(t), scopes, cells)
        BY <1>1, TopFacts DEF Scopes, UInv, Chain
    <1>3. /\ cells' = [cells EXCEPT ![e] = Binding(@, n, Written)]
          /\ latest' = [latest EXCEPT ![e] = Binding(@, n, Written)]
        BY DEF Define, Write
    <1>4. /\ \A c \in Scopes : c # e => cells'[c] = cells[c] /\ latest'[c] = latest[c]
          /\ e \notin Reachable => cells'[e] = latest'[e]
        <2>. HIDE DEF e
        <2>1. e \notin Reachable => cells[e] = latest[e]
            BY <1>2 DEF WInv, PrivateWritesStand
        <2>. QED
            BY <1>1, <1>2, <1>3, <2>1, ScopeFacts
    <1>5. ASSUME NEW j \in DOMAIN Top(t).update
          PROVE  Top(t).update[j].from # e
        <2> DEFINE u == Top(t).update[j]
        <2>1. u.env \in Held(Top(t))
            BY DEF Held
        <2>2. e \notin Held(Top(t))
            <3>1. DOMAIN <<>> = {}
                OBVIOUS
            <3>. QED
                BY <1>1, <1>5, <3>1 DEF AtStatement, None
        <2>3. u.env \in scopes[e].sees
            BY <1>1, <2>1, TopLocal
        <2>4. u.env \in 1..e /\ e \in Nat
            BY <1>1, <1>2, <2>3, ScopeFacts DEF Tree
        <2>5. u.from \in 1..u.env
            BY <1>1, <1>2, <1>5, ScopeFacts, UpdateScopes
        <2>. QED
            BY <2>1, <2>2, <2>4, <2>5
    <1>6. \A x \in DOMAIN threads' : \A k \in DOMAIN threads'[x] :
              IF x = t /\ k = Len(threads[t])
              THEN \A j \in DOMAIN threads'[x][k].update :
                       Kept(threads, threads', x, k) /\ threads[x][k].update[j].from # e
              ELSE Kept(threads, threads', x, k)
        <2>. HIDE DEF e
        <2>. QED
            BY <1>1, <1>2, <1>5 DEF Kept
    <1>. QED
        BY <1>1, <1>2, <1>4, <1>6, WriteStep

(* The array stored is the one loaded, but for one element; and that is    *)
(* the one the variable holds, if no function reaches it.                  *)
LEMMA EndUpdateWrites ==
    ASSUME WInv, UInv', NEW t \in DOMAIN threads, EndUpdate(t)
    PROVE  WInv'
    <1> DEFINE u == Top(t).update[1]
               s == Denotes(u.env, u.name)
               f == [Top(t) EXCEPT !.update = None]
               w == Len(writes) + 1
               v == [u.old EXCEPT ![u.index] = w]
    <1>1. /\ ~ Ended(t) /\ UInv /\ IInv /\ TypeOK /\ Tree(scopes)
          /\ Becomes(t, f) /\ UNCHANGED <<scopes, captured>>
        BY DEF EndUpdate, Running, WInv, UInv, IInv
    <1>2. /\ Top(t) \in FrameType /\ Sound(Top(t), scopes, cells) /\ Local(Top(t), scopes, cells)
          /\ threads \in Seq(Seq(FrameType)) /\ threads[t] # <<>>
          /\ Len(threads[t]) \in DOMAIN threads[t] /\ Top(t) = threads[t][Len(threads[t])]
        BY <1>1, TopFacts, TopLocal DEF TypeOK
    <1>3. 1 \in DOMAIN Top(t).update
        BY <1>2 DEF EndUpdate, FrameType, None
    <1>4. /\ u.env \in Scopes /\ scopes[u.env].opener = Top(t).base
          /\ u.from \in scopes[u.env].sees /\ u.name \in DOMAIN cells[u.from]
        BY <1>1, <1>2, <1>3, ScopeFacts, UpdateScopes
    <1>5. /\ cells' = [cells EXCEPT ![s][u.name] = v]
          /\ latest' = [latest EXCEPT ![s][u.name][u.index] = w]
        BY DEF EndUpdate
    <1>. HIDE DEF u
    <1>6. /\ s \in scopes[u.env].sees /\ s \in Scopes /\ u.name \in DOMAIN cells[s] /\ u.from <= s
        <2>1. Defined(u.env, u.name)
            BY <1>4 DEF Defined
        <2>. QED
            BY <1>1, <1>4, <2>1, DenotesFacts, DenotesInnermost
    <1>. HIDE DEF s
    <1>7. ASSUME s \notin Reachable
          PROVE  s = u.from /\ u.old = cells[s][u.name] /\ cells[s] = latest[s]
        <2>1. scopes[s].opener = Top(t).base
            BY <1>4, <1>6, <1>7, PrivateIsOwn
        <2>2. Top(t).base <= s
            BY <1>1, <1>6, <2>1, ScopeFacts DEF Chain
        <2>3. s <= u.from
            BY <1>1, <1>2, <1>3, <1>6, <2>2, ScopeFacts DEF Local, Direct, u
        <2>4. s \in Nat /\ u.from \in Nat
            BY <1>1, <1>4, <1>6, ScopeFacts
        <2>5. s = u.from
            BY <1>6, <2>3, <2>4
        <2>6. u.old = cells[s][u.name]
            BY <1>2, <1>3, <1>7, <2>5 DEF WInv, AllFresh, Fresh, u
        <2>. QED
            BY <1>6, <1>7, <2>5, <2>6 DEF WInv, PrivateWritesStand
    <1>8. /\ \A c \in Scopes : c # s => cells'[c] = cells[c] /\ latest'[c] = latest[c]
          /\ s \notin Reachable => cells'[s] = latest'[s]
        <2>1. DOMAIN cells = Scopes /\ DOMAIN latest = Scopes
            BY <1>1, ScopeFacts
        <2>2. \A c \in Scopes : c # s => cells'[c] = cells[c] /\ latest'[c] = latest[c]
            <3>. HIDE DEF v
            <3>. QED
                BY <1>5, <2>1
        <2>3. ASSUME s \notin Reachable
              PROVE  cells'[s] = latest'[s]
            <3>1. cells'[s] = [cells[s] EXCEPT ![u.name] = [cells[s][u.name] EXCEPT ![u.index] = w]]
                BY <1>5, <1>6, <1>7, <2>1, <2>3
            <3>2. latest'[s] = [latest[s] EXCEPT ![u.name] = [latest[s][u.name] EXCEPT ![u.index] = w]]
                BY <1>5, <1>6, <2>1
            <3>. QED
                BY <1>7, <2>3, <3>1, <3>2
        <2>. QED
            BY <2>2, <2>3
    <1>9. f.update = <<>>
        BY <1>2 DEF FrameType, None
    <1>10. DOMAIN f.update = {}
        BY <1>9
    <1>. HIDE DEF f
    <1>11. threads' = [threads EXCEPT ![t][Len(threads[t])] = f]
        BY <1>1 DEF Becomes
    <1>12. \A x \in DOMAIN threads' : \A k \in DOMAIN threads'[x] :
              IF x = t /\ k = Len(threads[t])
              THEN \A j \in DOMAIN threads'[x][k].update :
                       Kept(threads, threads', x, k) /\ threads[x][k].update[j].from # s
              ELSE Kept(threads, threads', x, k)
        BY <1>2, <1>10, <1>11 DEF Kept
    <1>. QED
        BY <1>1, <1>4, <1>6, <1>8, <1>12, WriteStep

----------------------------------------------------------------------------
(* Steps that add scopes.                                                  *)
LEMMA OneMore ==
    ASSUME WInv, UInv', OldUpdates, captured' = captured, NEW r, NEW b,
           scopes' = Append(scopes, r), cells' = Append(cells, b), latest' = Append(latest, b),
           \A d \in r.sees : d < r.opener => d \in Reachable
    PROVE  WInv'
    <1>1. /\ scopes \in Seq(ScopeType) /\ cells \in Seq(Bindings) /\ latest \in Seq(Bindings)
          /\ Len(cells) = Len(scopes) /\ Len(latest) = Len(scopes)
          /\ Len(scopes) \in Nat /\ Scopes = 1..Len(scopes)
        BY DEF WInv, UInv, IInv, TypeOK, Scopes
    <1>2. /\ Scopes' = 1..(Len(scopes) + 1)
          /\ \A s \in Scopes : scopes'[s] = scopes[s] /\ cells'[s] = cells[s] /\ latest'[s] = latest[s]
          /\ scopes'[Len(scopes) + 1] = r
          /\ cells'[Len(scopes) + 1] = b /\ latest'[Len(scopes) + 1] = b
        BY <1>1 DEF Scopes
    <1>3. \A s \in Scopes' : s \notin Scopes => s = Len(scopes) + 1
        BY <1>1, <1>2
    <1>4. \A s \in Scopes : s \in Scopes' /\ scopes'[s] = scopes[s]
        BY <1>1, <1>2
    <1>5. Reachable \subseteq Reachable'
        BY <1>4, ReachGrows
    <1>6. \A s \in Scopes' : s \notin Scopes =>
              /\ cells'[s] = latest'[s]
              /\ \A d \in scopes'[s].sees : d < scopes'[s].opener => d \in Reachable'
        BY <1>2, <1>3, <1>5
    <1>. QED
        BY <1>2, <1>4, <1>6, QuietStep

LEMMA PushScopeWrites ==
    ASSUME WInv, UInv', OldUpdates, NEW t \in DOMAIN threads, PushScope(t)
    PROVE  WInv'
    <1> DEFINE r == ScopeOf(Top(t).env, Top(t).base, NextScope)
    <1>1. ~ Ended(t) /\ UInv /\ IInv
        BY DEF PushScope, Running, WInv, UInv
    <1>2. /\ Top(t).env \in Scopes /\ scopes[Top(t).env].opener = Top(t).base
          /\ Top(t).base \in Scopes
        BY <1>1, TopFacts DEF Scopes
    <1>3. r.sees = {NextScope} \cup scopes[Top(t).env].sees /\ r.opener = Top(t).base
        BY DEF ScopeOf
    <1>4. /\ scopes' = Append(scopes, r) /\ cells' = Append(cells, NoNames)
          /\ latest' = Append(latest, NoNames) /\ captured' = captured
        BY DEF PushScope
    <1>. HIDE DEF r
    <1>5. ~ (NextScope < Top(t).base)
        BY <1>1, <1>2, ScopeFacts DEF NextScope
    <1>6. \A d \in r.sees : d < r.opener => d \in Reachable
        BY <1>2, <1>3, <1>5 DEF WInv, Walled
    <1>. QED
        BY <1>4, <1>6, OneMore

LEMMA CallWrites ==
    ASSUME WInv, UInv', OldUpdates, NEW t \in DOMAIN threads, NEW c \in captured,
           NEW ns \in SUBSET Names, Call(t, c, ns)
    PROVE  WInv'
    <1> DEFINE r == CalleeScope(t, c)
               b == [n \in ns |-> Written]
    <1>1. r.sees = {NextScope} \cup scopes[c].sees /\ r.opener = NextScope
        BY DEF CalleeScope, ScopeOf
    <1>2. /\ scopes' = Append(scopes, r) /\ cells' = Append(cells, b) /\ latest' = Append(latest, b)
          /\ captured' = captured
        BY DEF Call
    <1>. HIDE DEF r, b
    <1>3. NextScope \in Nat
        BY ScopeFacts DEF WInv, NextScope
    <1>4. \A d \in r.sees : d < r.opener => d \in Reachable
        BY <1>1, <1>3 DEF Reachable
    <1>. QED
        BY <1>2, <1>4, OneMore

LEMMA BranchesWrites ==
    ASSUME WInv, UInv', OldUpdates, NEW t \in DOMAIN threads, NEW n \in Nat, Branches(t, n)
    PROVE  WInv'
    <1> DEFINE e   == Top(t).env
               new == [k \in 1..n |-> ScopeOf(e, Len(scopes) + k, Len(scopes) + k)]
               bs  == [k \in 1..n |-> NoNames]
    <1>1. /\ ~ Ended(t) /\ UInv /\ IInv /\ scopes' = scopes \o new
          /\ cells' = cells \o bs /\ latest' = latest \o bs /\ captured' = captured \cup {e}
        BY DEF Branches, Running, WInv, UInv
    <1>2. /\ scopes \in Seq(ScopeType) /\ cells \in Seq(Bindings) /\ latest \in Seq(Bindings)
          /\ Len(cells) = Len(scopes) /\ Len(latest) = Len(scopes)
          /\ Len(scopes) \in Nat /\ Scopes = 1..Len(scopes)
        BY <1>1 DEF IInv, TypeOK, Scopes
    <1>3. e \in Scopes
        BY <1>1, TopFacts DEF Scopes
    <1>4. \A k \in 1..n : /\ new[k].sees = {Len(scopes) + k} \cup scopes[e].sees
                          /\ new[k].opener = Len(scopes) + k
        BY DEF ScopeOf
    <1> DEFINE S == Range(scopes) \cup {new[k] : k \in 1..n}
               B == Range(cells) \cup Range(latest) \cup {NoNames}
    <1>5. scopes \in Seq(S) /\ new \in [1..n -> S]
        BY <1>2 DEF Range
    <1>6. cells \in Seq(B) /\ latest \in Seq(B) /\ bs \in [1..n -> B]
        BY <1>2 DEF Range
    <1>7. \A k \in 1..n : bs[k] = NoNames
        OBVIOUS
    <1>. HIDE DEF e, new, bs, S, B
    <1>8. Extends(scopes, n, scopes') /\ \A k \in 1..n : scopes'[Len(scopes) + k] = new[k]
        <2>1. Extends(scopes, n, scopes')
            BY <1>1, <1>5, JoinFacts
        <2>2. \A k \in 1..n : scopes'[Len(scopes) + k] = new[k]
            BY <1>1, <1>5, JoinFacts
        <2>. QED
            BY <2>1, <2>2
    <1>9. Extends(cells, n, cells') /\ \A k \in 1..n : cells'[Len(scopes) + k] = NoNames
        <2>1. \A k \in 1..n : cells'[Len(cells) + k] = bs[k]
            BY <1>1, <1>6, JoinFacts
        <2>2. Extends(cells, n, cells')
            BY <1>1, <1>6, JoinFacts
        <2>. QED
            BY <1>2, <1>7, <2>1, <2>2
    <1>10. Extends(latest, n, latest') /\ \A k \in 1..n : latest'[Len(scopes) + k] = NoNames
        <2>1. \A k \in 1..n : latest'[Len(latest) + k] = bs[k]
            BY <1>1, <1>6, JoinFacts
        <2>2. Extends(latest, n, latest')
            BY <1>1, <1>6, JoinFacts
        <2>. QED
            BY <1>2, <1>7, <2>1, <2>2
    <1>11. Scopes' = 1..(Len(scopes) + n)
        <2>1. Scopes' = 1..Len(scopes')
            BY ScopeFacts DEF UInv, IInv, TypeOK, Scopes
        <2>. QED
            BY <1>8, <2>1 DEF Extends
    <1>12. \A s \in Scopes : /\ s \in Scopes' /\ scopes'[s] = scopes[s]
                             /\ cells'[s] = cells[s] /\ latest'[s] = latest[s]
        BY <1>2, <1>8, <1>9, <1>10, <1>11 DEF Extends
    <1>13. ASSUME NEW s \in Scopes', s \notin Scopes
           PROVE  /\ cells'[s] = latest'[s]
                  /\ \A d \in scopes'[s].sees : d < scopes'[s].opener => d \in Reachable'
        <2>1. s - Len(scopes) \in 1..n /\ s = Len(scopes) + (s - Len(scopes))
            BY <1>2, <1>11, <1>13
        <2>2. PICK k \in 1..n : s = Len(scopes) + k
            BY <2>1
        <2>3. cells'[s] = latest'[s]
            BY <1>9, <1>10, <2>2
        <2>4. scopes'[s].sees = {s} \cup scopes[e].sees /\ scopes'[s].opener = s
            BY <1>4, <1>8, <2>2
        <2>5. scopes[e].sees \subseteq Reachable'
            BY <1>1, <1>3, <1>12 DEF Reachable
        <2>6. s \in Nat
            BY <1>2, <2>2
        <2>. QED
            BY <2>3, <2>4, <2>5, <2>6
    <1>14. captured \subseteq captured'
        BY <1>1
    <1>. QED
        BY <1>12, <1>13, <1>14, QuietStep

----------------------------------------------------------------------------
LEMMA InitWrites ==
    ASSUME Init
    PROVE  WInv
    <1>1. UInv
        BY InitLocal
    <1>2. scopes = <<[parent |-> 0, sees |-> {Globals}, opener |-> Globals]>>
        BY DEF Init
    <1>3. Scopes = {1} /\ scopes[1].sees = {1} /\ scopes[1].opener = 1
        BY <1>2 DEF Scopes, Globals
    <1>4. Walled
        BY <1>3 DEF Walled
    <1> DEFINE f  == NewFrame(Globals)
               fs == <<f>>
    <1>5. threads = <<fs>> /\ f.update = <<>>
        BY DEF Init, NewFrame, None
    <1>6. DOMAIN f.update = {}
        BY <1>5
    <1>. HIDE DEF f
    <1>7. DOMAIN fs = {1} /\ fs[1] = f
        BY OneFrame
    <1>. HIDE DEF fs
    <1>8. DOMAIN threads = {1} /\ threads[1] = fs
        BY <1>5, OneFrame
    <1>9. AllFresh
        BY <1>6, <1>7, <1>8 DEF AllFresh, Fresh
    <1>10. PrivateWritesStand
        BY DEF Init, PrivateWritesStand
    <1>. QED
        BY <1>1, <1>4, <1>9, <1>10 DEF WInv

LEMMA NextWrites ==
    ASSUME WInv, [Next]_vars
    PROVE  WInv'
    <1>0. UInv /\ UInv' /\ IInv'
        BY NextUInv DEF WInv, UInv
    <1>1. CASE UNCHANGED vars
        BY <1>0, <1>1 DEF vars, WInv, Walled, AllFresh, Fresh, PrivateWritesStand, Scopes, Reachable
    <1>2. ASSUME NEW t \in DOMAIN threads, PushScope(t)
          PROVE  WInv'
        BY <1>0, <1>2, PushScopeLocal, PushScopeWrites
    <1>3. ASSUME NEW t \in DOMAIN threads, PopScope(t) \/ PushHandler(t) \/ PopHandler(t)
          PROVE  WInv'
        BY <1>0, <1>3, PopScopeLocal, PushHandlerLocal, PopHandlerLocal, NothingWritten
           DEF PopScope, PushHandler, PopHandler
    <1>4. ASSUME NEW t \in DOMAIN threads, NEW n \in Names, Define(t, n) \/ SetWhole(t, n)
          PROVE  WInv'
        BY <1>0, <1>4, DefineWrites, SetWholeWrites
    <1>5. ASSUME NEW t \in DOMAIN threads, NEW n \in Names, NEW i \in Indexes, BeginUpdate(t, n, i)
          PROVE  WInv'
        BY <1>0, <1>5, BeginUpdateFresh
    <1>6. ASSUME NEW t \in DOMAIN threads, EndUpdate(t)
          PROVE  WInv'
        BY <1>0, <1>6, EndUpdateWrites
    <1>7. ASSUME NEW t \in DOMAIN threads, Caught(t) \/ Uncaught(t) \/ Abort(t) \/ Return(t)
          PROVE  WInv'
        BY <1>0, <1>7, CaughtLocal, EndLocal, ReturnLocal, NothingWritten
           DEF Caught, Uncaught, Abort, Return
    <1>8. ASSUME NEW t \in DOMAIN threads, MakeFunction(t)
          PROVE  WInv'
        BY <1>0, <1>8, MakeFunctionLocal, NothingWritten DEF MakeFunction
    <1>9. ASSUME NEW t \in DOMAIN threads, NEW c \in captured, NEW ns \in SUBSET Names, Call(t, c, ns)
          PROVE  WInv'
        BY <1>0, <1>9, CallLocal, CallWrites
    <1>10. ASSUME NEW t \in DOMAIN threads, Spawn(t)
           PROVE  WInv'
        BY <1>0, <1>10, SpawnLocal, BranchesWrites DEF Spawn
    <1>11. ASSUME NEW t \in DOMAIN threads, NEW mode \in {"sync", "race"},
                  NEW n \in 1..MaxThreads, Fork(t, mode, n)
           PROVE  WInv'
        <2>1. n \in Nat
            BY BoundsAssumption
        <2>. QED
            BY <1>0, <1>11, <2>1, ForkLocal, BranchesWrites DEF Fork
    <1>12. ASSUME NEW t \in DOMAIN threads, SyncDone(t) \/ RaceDone(t)
           PROVE  WInv'
        BY <1>0, <1>12, SyncDoneLocal, RaceDoneLocal, NothingWritten DEF SyncDone, RaceDone
    <1>. QED
        BY <1>1, <1>2, <1>3, <1>4, <1>5, <1>6, <1>7, <1>8, <1>9, <1>10, <1>11, <1>12
           DEF Next, Done

(* A variable no function reaches holds in every element what was assigned *)
(* to that element last: however tasks and calls interleave, no pending    *)
(* `set A[i] = e` stores over an assignment it did not see.                *)
THEOREM PrivateWritesAreKept == Spec => []PrivateWritesStand
    <1>1. Init => WInv
        BY InitWrites
    <1>2. WInv /\ [Next]_vars => WInv'
        BY NextWrites
    <1>3. WInv => PrivateWritesStand
        BY DEF WInv
    <1>. QED
        BY <1>1, <1>2, <1>3, PTL DEF Spec
=============================================================================

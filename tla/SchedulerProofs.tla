-------------------------- MODULE SchedulerProofs --------------------------
(***************************************************************************)
(* Theorems about the scheduler, for any number of tasks, any fuel, any    *)
(* Loopers and any JoinSizes.                                              *)
(***************************************************************************)
EXTENDS Scheduler, SequenceTheorems, TLAPS

----------------------------------------------------------------------------
(* Sequences of walks.                                                     *)

(* Replacing the innermost walk by another one.                            *)
LEMMA ReplaceTop ==
    ASSUME NEW s \in Seq(Walks), s # <<>>, NEW e \in Walks
    PROVE  LET r == [s EXCEPT ![Len(s)] = e]
           IN
           /\ r \in Seq(Walks) /\ Len(r) = Len(s) /\ r # <<>>
           /\ r[Len(s)] = e
           /\ \A i \in 1 .. Len(s) : i # Len(s) => r[i] = s[i]
           /\ Len(s) \in 1 .. Len(s)
<1>1. Len(s) \in Nat /\ Len(s) \in 1 .. Len(s)
    OBVIOUS
<1>2. /\ [s EXCEPT ![Len(s)] = e] \in Seq(Walks)
      /\ Len([s EXCEPT ![Len(s)] = e]) = Len(s)
      /\ \A j \in 1 .. Len(s) : [s EXCEPT ![Len(s)] = e][j] = IF j = Len(s) THEN e ELSE s[j]
    BY <1>1, ExceptSeq
<1>3. [s EXCEPT ![Len(s)] = e] # <<>>
    BY <1>1, <1>2
<1>. QED
    BY <1>1, <1>2, <1>3

(* Moving the innermost walk to element t changes nothing else.            *)
LEMMA MoveTop ==
    ASSUME NEW s \in Seq(Walks), s # <<>>, NEW t \in Actors
    PROVE  LET r == [s EXCEPT ![Len(s)].at = t]
           IN
           /\ r \in Seq(Walks) /\ Len(r) = Len(s) /\ r # <<>>
           /\ r[Len(s)].at = t
           /\ r[Len(s)].still = s[Len(s)].still
           /\ \A i \in 1 .. Len(s) : i # Len(s) => r[i] = s[i]
<1>. DEFINE e == [s[Len(s)] EXCEPT !.at = t]
<1>. DEFINE q == [s EXCEPT ![Len(s)] = e]
<1>1. s[Len(s)] \in Walks
    BY ElementOfSeq
<1>2. e \in Walks /\ e.at = t /\ e.still = s[Len(s)].still
    BY <1>1 DEF Walks
<1>3. [s EXCEPT ![Len(s)].at = t] = q
    OBVIOUS
<1>. HIDE DEF e
<1>4. /\ q \in Seq(Walks) /\ Len(q) = Len(s) /\ q # <<>>
      /\ q[Len(s)] = e
      /\ \A i \in 1 .. Len(s) : i # Len(s) => q[i] = s[i]
    BY <1>2, ReplaceTop
<1>. HIDE DEF q
<1>. QED
    BY <1>2, <1>3, <1>4

(* Recording that the innermost walk keeps w changes nothing else.         *)
LEMMA KeepTop ==
    ASSUME NEW s \in Seq(Walks), s # <<>>, NEW w \in Tasks
    PROVE  LET r == [s EXCEPT ![Len(s)].still = @ \cup {w}]
           IN
           /\ r \in Seq(Walks) /\ Len(r) = Len(s) /\ r # <<>>
           /\ r[Len(s)].at = s[Len(s)].at
           /\ r[Len(s)].still = s[Len(s)].still \cup {w}
           /\ \A i \in 1 .. Len(s) : i # Len(s) => r[i] = s[i]
<1>. DEFINE e == [s[Len(s)] EXCEPT !.still = s[Len(s)].still \cup {w}]
<1>. DEFINE q == [s EXCEPT ![Len(s)] = e]
<1>1. s[Len(s)] \in Walks
    BY ElementOfSeq
<1>2. e \in Walks /\ e.at = s[Len(s)].at /\ e.still = s[Len(s)].still \cup {w}
    BY <1>1 DEF Walks
<1>3. [s EXCEPT ![Len(s)].still = @ \cup {w}] = q
    OBVIOUS
<1>. HIDE DEF e
<1>4. /\ q \in Seq(Walks) /\ Len(q) = Len(s) /\ q # <<>>
      /\ q[Len(s)] = e
      /\ \A i \in 1 .. Len(s) : i # Len(s) => q[i] = s[i]
    BY <1>2, ReplaceTop
<1>. HIDE DEF q
<1>. QED
    BY <1>2, <1>3, <1>4

(* Starting a walk inside the others.                                      *)
LEMMA PushWalk ==
    ASSUME NEW s \in Seq(Walks), NEW r, r = Append(s, NewWalk)
    PROVE  /\ r \in Seq(Walks) /\ Len(r) = Len(s) + 1 /\ r # <<>>
           /\ \A i \in 1 .. Len(s) : r[i] = s[i]
           /\ r[Len(r)].at = 0 /\ r[Len(r)].still = {}
<1>1. NewWalk \in Walks
    BY DEF NewWalk, Walks, Actors, Main
<1>2. Len(s) \in Nat
    OBVIOUS
<1>3. NewWalk.at = 0 /\ NewWalk.still = {}
    BY DEF NewWalk
<1>. QED
    BY <1>1, <1>2, <1>3

----------------------------------------------------------------------------
(* What the invariant says of whoever has control.                         *)

LEMMA WalkTypes ==
    ASSUME WalkInv, NEW i \in 1 .. Len(ticks)
    PROVE  /\ ticks[i] \in Walks /\ created \in Nat
           /\ ticks[i].at \in 0 .. created
           /\ ticks[i].still \subseteq sched
<1>1. ticks[i] \in Walks
    BY ElementOfSeq DEF WalkInv, TypeOK
<1>2. ticks[i].at \in Nat
    BY <1>1, SchedulerAssumption DEF Walks, Actors, Tasks, Main
<1>3. ticks[i].at <= created /\ ticks[i].still \subseteq sched
    BY DEF WalkInv, StackInv, WalksKeep
<1>4. created \in Nat
    BY SchedulerAssumption DEF WalkInv, TypeOK
<1>. QED
    BY <1>1, <1>2, <1>3, <1>4

LEMMA TaskHasControl ==
    ASSUME WalkInv, NEW w \in Tasks, Runs(w)
    PROVE  /\ ticks \in Seq(Walks) /\ ticks # <<>> /\ Len(ticks) \in Nat \ {0}
           /\ ticks[Len(ticks)].at = w
           /\ w \in Running /\ w \in sched /\ w \notin done /\ w \in 1 .. created
           /\ \A i \in 1 .. Len(ticks) : i # Len(ticks) =>
                  ticks[i].at \in Running /\ ticks[i].at # w /\ w < ticks[i].at
<1>1. w # Main
    BY SchedulerAssumption DEF Tasks, Main
<1>2. /\ ticks \in Seq(Walks) /\ ticks # <<>> /\ Len(ticks) \in Nat \ {0}
      /\ ticks[Len(ticks)].at = w /\ w \in Running
    BY <1>1 DEF Runs, Last, WalkInv, TypeOK, Running
<1>3. w \in sched /\ w \notin done /\ w \in 1 .. created
    BY <1>2 DEF WalkInv, TypeOK, StackInv, RunningScheduled
<1>4. \A i \in 1 .. Len(ticks) : i # Len(ticks) =>
                  ticks[i].at \in Running /\ w < ticks[i].at
    BY <1>2 DEF WalkInv, StackInv, OwnersAhead
<1>5. \A i \in 1 .. Len(ticks) : i # Len(ticks) => ticks[i].at # w
    BY <1>4, SchedulerAssumption DEF Tasks, Running
<1>. QED
    BY <1>2, <1>3, <1>4, <1>5

LEMMA MainHasControl ==
    ASSUME WalkInv, Runs(Main)
    PROVE  ticks = <<>> /\ Running = {} /\ phase = "statement"
<1>1. ticks = <<>> /\ phase = "statement"
    BY DEF Runs
<1>2. Running = {}
    BY <1>1 DEF WalkInv, StackInv, RunningOnStack
<1>. QED
    BY <1>1, <1>2

(* Between two elements of a walk, every task that waits for the walk is   *)
(* still ahead of it.                                                      *)
LEMMA WalkHasControl ==
    ASSUME WalkInv, BetweenElements
    PROVE  /\ ticks \in Seq(Walks) /\ ticks # <<>> /\ Len(ticks) \in Nat \ {0}
           /\ ticks[Len(ticks)].at \in 0 .. created
           /\ ticks[Len(ticks)].at \notin Running
           /\ \A i \in 1 .. Len(ticks) : i # Len(ticks) =>
                  ticks[i].at \in Running /\ ticks[i].at \in Pending
<1>1. /\ ticks \in Seq(Walks) /\ ticks # <<>> /\ Len(ticks) \in Nat \ {0}
    BY DEF BetweenElements, WalkInv, TypeOK
<1>2. ticks[Len(ticks)].at \in 0 .. created
  <2>1. ticks[Len(ticks)] \in Walks
    BY <1>1, ElementOfSeq
  <2>2. ticks[Len(ticks)].at <= created /\ created \in Nat
    BY <1>1, SchedulerAssumption DEF WalkInv, StackInv, WalksKeep, TypeOK
  <2>. QED
    BY <2>1, <2>2, SchedulerAssumption DEF Walks, Actors, Tasks, Main
<1>3. ASSUME ticks[Len(ticks)].at \in Running PROVE FALSE
  <2>1. Runs(ticks[Len(ticks)].at) /\ ticks[Len(ticks)].at \in Tasks
    BY <1>1, <1>3, SchedulerAssumption DEF Runs, Last, Running, BetweenElements, Main, Tasks
  <2>. QED
    BY <2>1 DEF BetweenElements
<1>4. ASSUME NEW i \in 1 .. Len(ticks), i # Len(ticks)
      PROVE  ticks[i].at \in Running /\ ticks[i].at \in Pending
  <2>1. ticks[i].at \in Running /\ ticks[Len(ticks)].at < ticks[i].at
    BY <1>1, <1>4 DEF WalkInv, StackInv, OwnersAhead
  <2>2. ticks[i].at \in sched \ done
    BY <2>1 DEF WalkInv, StackInv, RunningScheduled
  <2>. QED
    BY <1>2, <2>1, <2>2, SchedulerAssumption DEF Pending, Last, Running, Tasks
<1>. QED
    BY <1>1, <1>2, <1>3, <1>4


----------------------------------------------------------------------------
(* How the ways of giving control back act on the call stack.              *)

(* A task that yields leaves the top of the stack and is kept by its walk. *)
LEMMA YieldStack ==
    ASSUME WalkInv, NEW w \in Tasks, Runs(w), Yields(w),
           created' \in Nat, created <= created', done' = done,
           sched \subseteq sched', sched' \cap (0 .. created) \subseteq sched,
           sched' \subseteq Nat
    PROVE  StackInv' /\ ticks' \in Seq(Walks) /\ (\A t \in Tasks : ~ Runs(t)')
<1>1. /\ ticks \in Seq(Walks) /\ ticks # <<>> /\ Len(ticks) \in Nat \ {0}
      /\ ticks[Len(ticks)].at = w
      /\ w \in Running /\ w \in sched /\ w \notin done /\ w \in 1 .. created
      /\ \A i \in 1 .. Len(ticks) : i # Len(ticks) =>
             ticks[i].at \in Running /\ ticks[i].at # w /\ w < ticks[i].at
    BY TaskHasControl
<1>2. /\ ticks' = [ticks EXCEPT ![Len(ticks)].still = @ \cup {w}]
      /\ gen' = [gen EXCEPT ![w] = "suspended"]
    BY SchedulerAssumption DEF Yields, Tasks, Main
<1>3. /\ ticks' \in Seq(Walks) /\ Len(ticks') = Len(ticks) /\ ticks' # <<>>
      /\ ticks'[Len(ticks)].at = w
      /\ ticks'[Len(ticks)].still = ticks[Len(ticks)].still \cup {w}
      /\ \A i \in 1 .. Len(ticks) : i # Len(ticks) => ticks'[i] = ticks[i]
    BY <1>1, <1>2, KeepTop
<1>4. \A i \in 1 .. Len(ticks) : ticks'[i].at = ticks[i].at
    BY <1>1, <1>3
<1>5. Running' = Running \ {w} /\ gen'[w] = "suspended"
    BY <1>2 DEF Running, WalkInv, TypeOK
<1>6. RunningScheduled'
    BY <1>5 DEF WalkInv, StackInv, RunningScheduled
<1>7. RunningOnStack'
    BY <1>3, <1>4, <1>5 DEF WalkInv, StackInv, RunningOnStack
<1>8. OwnersAhead'
  <2>. SUFFICES ASSUME NEW i \in 1 .. Len(ticks), NEW j \in 1 .. Len(ticks), i < j
                PROVE  ticks'[i].at \in Running' /\ ticks'[j].at < ticks'[i].at
    BY <1>3 DEF OwnersAhead
  <2>1. ticks[i].at \in Running /\ ticks[j].at < ticks[i].at
    BY DEF WalkInv, StackInv, OwnersAhead
  <2>2. ticks[i].at # w
    BY <1>1
  <2>. QED
    BY <1>4, <1>5, <2>1, <2>2
<1>9. WalksKeep'
  <2>1. \A i \in 1 .. Len(ticks) : ticks'[i].at <= created' /\ ticks'[i].still \subseteq sched'
    <3>. SUFFICES ASSUME NEW i \in 1 .. Len(ticks)
                  PROVE  ticks'[i].at <= created' /\ ticks'[i].still \subseteq sched'
      OBVIOUS
    <3>1. ticks[i].at \in 0 .. created /\ created \in Nat /\ ticks[i].still \subseteq sched
      BY WalkTypes
    <3>2. ticks'[i].at <= created'
      BY <1>4, <3>1
    <3>3. ticks'[i].still \subseteq ticks[i].still \cup {w}
      BY <1>3
    <3>. QED
      BY <1>1, <3>1, <3>2, <3>3
  <2>2. ASSUME NEW t \in sched', t \notin done,
               t < ticks'[1].at \/ (t = ticks'[1].at /\ t \notin Running')
        PROVE  t \in ticks'[1].still
    <3>1. ticks'[1].at = ticks[1].at /\ ticks[1].at \in 0 .. created /\ created \in Nat
      <4>1. 1 \in 1 .. Len(ticks)
        BY <1>1
      <4>. QED
        BY <4>1, <1>4, WalkTypes
    <3>2. t \in 0 .. created
      <4>1. t \in Nat
        OBVIOUS
      <4>2. t <= ticks[1].at
        BY <2>2, <3>1, <4>1
      <4>. QED
        BY <3>1, <4>1, <4>2
    <3>3. t \in sched \ done
      BY <2>2, <3>2
    <3>4. CASE t = w
      <4>1. CASE Len(ticks) = 1
        BY <4>1, <3>4, <1>3
      <4>2. CASE Len(ticks) # 1
        <5>1. 1 \in 1 .. Len(ticks) /\ ticks'[1] = ticks[1] /\ w < ticks[1].at
          BY <4>2, <1>1, <1>3
        <5>. QED
          BY <5>1, <3>3, <3>4, <1>1 DEF WalkInv, StackInv, WalksKeep
      <4>. QED
        BY <4>1, <4>2
    <3>5. CASE t # w
      <4>1. t \in Running' <=> t \in Running
        BY <1>5, <3>5
      <4>2. t \in ticks[1].still
        BY <2>2, <3>1, <3>3, <4>1, <1>1 DEF WalkInv, StackInv, WalksKeep
      <4>. QED
        BY <4>2, <1>1, <1>3
    <3>. QED
      BY <3>4, <3>5
  <2>. QED
    BY <2>1, <2>2, <1>3 DEF WalksKeep
<1>10. \A t \in Tasks : ~ Runs(t)'
    BY <1>3, <1>4, <1>5, <1>1, SchedulerAssumption DEF Runs, Last, Tasks, Main
<1>. QED
    BY <1>3, <1>6, <1>7, <1>8, <1>9, <1>10 DEF StackInv


(* A task that ends leaves the top of the stack and is kept by no walk.    *)
LEMMA FinishStack ==
    ASSUME WalkInv, NEW w \in Tasks, Runs(w),
           gen' = [gen EXCEPT ![w] = "closed"], done' = done \cup {w},
           UNCHANGED <<created, ticks, sched>>
    PROVE  StackInv' /\ (\A t \in Tasks : ~ Runs(t)')
<1>1. /\ ticks \in Seq(Walks) /\ ticks # <<>> /\ Len(ticks) \in Nat \ {0}
      /\ ticks[Len(ticks)].at = w
      /\ w \in Running /\ w \in sched /\ w \notin done /\ w \in 1 .. created
      /\ \A i \in 1 .. Len(ticks) : i # Len(ticks) =>
             ticks[i].at \in Running /\ ticks[i].at # w /\ w < ticks[i].at
    BY TaskHasControl
<1>2. Running' = Running \ {w} /\ gen'[w] = "closed"
    BY DEF Running, WalkInv, TypeOK
<1>3. RunningScheduled'
    BY <1>2 DEF WalkInv, StackInv, RunningScheduled
<1>4. RunningOnStack'
    BY <1>2 DEF WalkInv, StackInv, RunningOnStack
<1>5. OwnersAhead'
    BY <1>1, <1>2 DEF WalkInv, StackInv, OwnersAhead
<1>6. WalksKeep'
    BY <1>1, <1>2 DEF WalkInv, StackInv, WalksKeep
<1>7. \A t \in Tasks : ~ Runs(t)'
    BY <1>1, <1>2, SchedulerAssumption DEF Runs, Last, Tasks, Main
<1>. QED
    BY <1>3, <1>4, <1>5, <1>6, <1>7 DEF StackInv

(* While the host or the statement's frame has control, the stack is empty *)
(* and stays so.                                                           *)
LEMMA EmptyStack ==
    ASSUME ticks' = <<>>, Running' = {}
    PROVE  StackInv' /\ (\A t \in Tasks : ~ Runs(t)')
<1>1. Len(ticks') = 0
    OBVIOUS
<1>2. \A t \in Tasks : ~ Runs(t)'
    BY SchedulerAssumption DEF Runs, Tasks, Main
<1>. QED
    BY <1>1, <1>2 DEF StackInv, RunningScheduled, RunningOnStack, OwnersAhead, WalksKeep

(* A walk starts: everybody on the stack is ahead of it.                   *)
LEMMA PushStack ==
    ASSUME WalkInv, ticks' = Append(ticks, NewWalk),
           UNCHANGED <<created, gen, done, sched>>,
           ticks # <<>> => ticks[Len(ticks)].at \in Running
    PROVE  StackInv' /\ ticks' \in Seq(Walks) /\ (\A t \in Tasks : ~ Runs(t)')
<1>1. /\ ticks \in Seq(Walks) /\ Len(ticks) \in Nat /\ created \in Nat
      /\ ticks' \in Seq(Walks) /\ Len(ticks') = Len(ticks) + 1 /\ ticks' # <<>>
      /\ \A i \in 1 .. Len(ticks) : ticks'[i] = ticks[i]
      /\ ticks'[Len(ticks')].at = 0 /\ ticks'[Len(ticks')].still = {}
    BY PushWalk, SchedulerAssumption DEF WalkInv, TypeOK
<1>2. Running' = Running
    BY DEF Running
<1>3. RunningScheduled'
    BY <1>2 DEF WalkInv, StackInv, RunningScheduled
<1>4. RunningOnStack'
    BY <1>1, <1>2 DEF WalkInv, StackInv, RunningOnStack
<1>5. OwnersAhead'
  <2>. SUFFICES ASSUME NEW i \in 1 .. Len(ticks'), NEW j \in 1 .. Len(ticks'), i < j
                PROVE  ticks'[i].at \in Running' /\ ticks'[j].at < ticks'[i].at
    BY DEF OwnersAhead
  <2>1. i \in 1 .. Len(ticks)
    BY <1>1
  <2>2. CASE j \in 1 .. Len(ticks)
    BY <1>1, <1>2, <2>1, <2>2 DEF WalkInv, StackInv, OwnersAhead
  <2>3. CASE j = Len(ticks')
    <3>1. ticks[i].at \in Running
      <4>1. CASE i = Len(ticks)
        BY <4>1, <2>1, <1>1
      <4>2. CASE i # Len(ticks)
        <5>1. Len(ticks) \in 1 .. Len(ticks) /\ i < Len(ticks)
          BY <4>2, <2>1, <1>1
        <5>. QED
          BY <2>1, <5>1 DEF WalkInv, StackInv, OwnersAhead
      <4>. QED
        BY <4>1, <4>2
    <3>2. 0 < ticks[i].at
      BY <3>1, SchedulerAssumption DEF Running, Tasks
    <3>. QED
      BY <1>1, <1>2, <2>1, <2>3, <3>1, <3>2
  <2>. QED
    BY <2>2, <2>3, <1>1
<1>6. WalksKeep'
  <2>1. ASSUME NEW i \in 1 .. Len(ticks')
        PROVE  ticks'[i].at <= created' /\ ticks'[i].still \subseteq sched'
    <3>1. CASE i \in 1 .. Len(ticks)
      BY <1>1, <3>1 DEF WalkInv, StackInv, WalksKeep
    <3>2. CASE i = Len(ticks')
      BY <1>1, <3>2
    <3>. QED
      BY <3>1, <3>2, <1>1
  <2>2. ASSUME NEW t \in sched', t \notin done',
               t < ticks'[1].at \/ (t = ticks'[1].at /\ t \notin Running')
        PROVE  t \in ticks'[1].still
    <3>1. CASE ticks = <<>>
      <4>1. ticks'[1].at = 0
        BY <1>1, <3>1
      <4>2. t \in 1 .. created
        BY DEF WalkInv, TypeOK
      <4>. QED
        BY <2>2, <4>1, <4>2, <1>1
    <3>2. CASE ticks # <<>>
      <4>1. ticks'[1] = ticks[1]
        BY <3>2, <1>1
      <4>. QED
        BY <4>1, <3>2, <2>2, <1>2 DEF WalkInv, StackInv, WalksKeep
    <3>. QED
      BY <3>1, <3>2
  <2>. QED
    BY <2>1, <2>2 DEF WalksKeep
<1>7. \A t \in Tasks : ~ Runs(t)'
    BY <1>1, SchedulerAssumption DEF Runs, Last, Tasks, Main
<1>. QED
    BY <1>1, <1>3, <1>4, <1>5, <1>6, <1>7 DEF StackInv


(* The walk moves to its next element, which now runs or now is done.      *)
LEMMA VisitStack ==
    ASSUME WalkInv, NEW t \in Tasks, Visits(t), gen[t] # "running",
           ticks' = [ticks EXCEPT ![Len(ticks)].at = t],
           UNCHANGED <<created, sched>>,
           \/ Running' = Running \cup {t} /\ done' = done
           \/ Running' = Running /\ done' = done \cup {t}
    PROVE  /\ StackInv' /\ ticks' \in Seq(Walks)
           /\ Last(ticks').at = t /\ ticks' # <<>>
<1>1. /\ ticks \in Seq(Walks) /\ ticks # <<>> /\ Len(ticks) \in Nat \ {0}
      /\ ticks[Len(ticks)].at \in 0 .. created
      /\ ticks[Len(ticks)].at \notin Running
      /\ \A i \in 1 .. Len(ticks) : i # Len(ticks) =>
             ticks[i].at \in Running /\ ticks[i].at \in Pending
    BY WalkHasControl DEF Visits
<1>2. t \in Actors
    BY DEF Actors
<1>3. /\ ticks' \in Seq(Walks) /\ Len(ticks') = Len(ticks) /\ ticks' # <<>>
      /\ ticks'[Len(ticks)].at = t
      /\ ticks'[Len(ticks)].still = ticks[Len(ticks)].still
      /\ \A i \in 1 .. Len(ticks) : i # Len(ticks) => ticks'[i] = ticks[i]
    BY <1>1, <1>2, MoveTop
<1>4. /\ t \in sched /\ t \notin done /\ t \in 1 .. created /\ created \in Nat
      /\ t \notin Running
      /\ t > ticks[Len(ticks)].at
      /\ \A u \in Pending : t <= u
    BY SchedulerAssumption DEF Visits, Pending, Last, WalkInv, TypeOK, Running
<1>5. \A i \in 1 .. Len(ticks) : i # Len(ticks) => t < ticks[i].at
  <2>. SUFFICES ASSUME NEW i \in 1 .. Len(ticks), i # Len(ticks)
                PROVE  t < ticks[i].at
    OBVIOUS
  <2>1. ticks[i].at \in Running /\ t <= ticks[i].at
    BY <1>1, <1>4
  <2>. QED
    BY <2>1, <1>4, SchedulerAssumption DEF Running, Tasks
<1>6. RunningScheduled'
  <2>1. Running \subseteq sched \ done
    BY DEF WalkInv, StackInv, RunningScheduled
  <2>. QED
    BY <2>1, <1>4 DEF RunningScheduled
<1>7. RunningOnStack'
  <2>. SUFFICES ASSUME NEW u \in Running'
                PROVE  \E i \in 1 .. Len(ticks) : ticks'[i].at = u
    BY <1>3 DEF RunningOnStack
  <2>1. CASE u = t
    BY <2>1, <1>1, <1>3
  <2>2. CASE u # t
    <3>1. u \in Running
      BY <2>2
    <3>2. PICK i \in 1 .. Len(ticks) : ticks[i].at = u
      BY <3>1 DEF WalkInv, StackInv, RunningOnStack
    <3>3. i # Len(ticks)
      BY <3>1, <3>2, <1>1
    <3>. QED
      BY <3>2, <3>3, <1>3
  <2>. QED
    BY <2>1, <2>2
<1>8. OwnersAhead'
  <2>. SUFFICES ASSUME NEW i \in 1 .. Len(ticks), NEW j \in 1 .. Len(ticks), i < j
                PROVE  ticks'[i].at \in Running' /\ ticks'[j].at < ticks'[i].at
    BY <1>3 DEF OwnersAhead
  <2>1. i # Len(ticks) /\ ticks'[i] = ticks[i]
    BY <1>1, <1>3
  <2>2. ticks[i].at \in Running /\ ticks[j].at < ticks[i].at
    BY DEF WalkInv, StackInv, OwnersAhead
  <2>. QED
    BY <2>1, <2>2, <1>3, <1>5
<1>9. WalksKeep'
  <2>1. ASSUME NEW i \in 1 .. Len(ticks)
        PROVE  ticks'[i].at <= created' /\ ticks'[i].still \subseteq sched'
    <3>1. ticks[i].at \in 0 .. created /\ ticks[i].still \subseteq sched
      BY WalkTypes
    <3>. QED
      BY <1>3, <1>4, <3>1
  <2>2. ASSUME NEW u \in sched', u \notin done',
               u < ticks'[1].at \/ (u = ticks'[1].at /\ u \notin Running')
        PROVE  u \in ticks'[1].still
    <3>1. CASE Len(ticks) = 1
      <4>1. ticks'[1].at = t /\ ticks'[1].still = ticks[1].still
        BY <3>1, <1>3
      <4>2. u # t
        BY <2>2, <4>1, <1>4
      <4>3. u < t /\ u \in sched \ done /\ u \in 1 .. created
        BY <2>2, <4>1, <4>2 DEF WalkInv, TypeOK
      <4>4. u \notin Pending
        BY <4>3, <1>4
      <4>5. ~ (u > ticks[1].at)
        BY <4>3, <4>4, <3>1 DEF Pending, Last
      <4>6. u < ticks[1].at \/ u = ticks[1].at
        BY <4>3, <4>5, <1>1, <1>4, <3>1
      <4>7. u \in ticks[1].still
        BY <4>3, <4>6, <1>1, <3>1 DEF WalkInv, StackInv, WalksKeep
      <4>. QED
        BY <4>1, <4>7
    <3>2. CASE Len(ticks) # 1
      <4>1. ticks'[1] = ticks[1]
        BY <3>2, <1>1, <1>3
      <4>2. u \notin Running' => u \notin Running
        OBVIOUS
      <4>. QED
        BY <4>1, <4>2, <2>2, <1>1 DEF WalkInv, StackInv, WalksKeep
    <3>. QED
      BY <3>1, <3>2
  <2>. QED
    BY <2>1, <2>2, <1>3 DEF WalksKeep
<1>. QED
    BY <1>3, <1>6, <1>7, <1>8, <1>9 DEF StackInv, Last

(* A walk that ends is the outermost one, nobody runs any more, and it has *)
(* kept everybody who still has to run.                                    *)
LEMMA EndOfWalk ==
    ASSUME WalkInv, TickEnd
    PROVE  /\ Len(ticks) = 1 /\ ticks' = <<>> /\ UNCHANGED gen
           /\ Running = {}
           /\ sched \ done \subseteq sched' /\ sched' \subseteq sched
<1>1. /\ ticks \in Seq(Walks) /\ ticks # <<>> /\ Len(ticks) \in Nat \ {0}
      /\ ticks[Len(ticks)].at \notin Running
      /\ \A i \in 1 .. Len(ticks) : i # Len(ticks) => ticks[i].at \in Pending
    BY WalkHasControl DEF TickEnd
<1>2. Pending = {}
    BY DEF TickEnd
<1>3. Len(ticks) = 1
  <2>. SUFFICES ASSUME Len(ticks) # 1 PROVE FALSE
    OBVIOUS
  <2>1. 1 \in 1 .. Len(ticks)
    BY <1>1
  <2>. QED
    BY <2>1, <1>1, <1>2
<1>4. Running = {}
    BY <1>1, <1>3 DEF WalkInv, StackInv, RunningOnStack
<1>5. sched' = ticks[1].still /\ ticks' = <<>> /\ gen' = gen
    BY <1>3 DEF TickEnd, Last
<1>6. ASSUME NEW t \in sched \ done PROVE t \in ticks[1].still
  <2>1. t \in Nat /\ ticks[1].at \in Nat
    BY <1>3, WalkTypes DEF WalkInv, TypeOK
  <2>2. ~ (t > ticks[1].at)
    BY <1>2, <1>3, <1>6 DEF Pending, Last
  <2>. QED
    BY <1>1, <1>4, <2>1, <2>2, <1>6 DEF WalkInv, StackInv, WalksKeep
<1>7. ticks[1].still \subseteq sched
    BY <1>3, WalkTypes
<1>. QED
    BY <1>3, <1>4, <1>5, <1>6, <1>7


----------------------------------------------------------------------------
(* One lemma per action: it preserves the invariant.                       *)

LEMMA InitInv == Init => WalkInv
<1>. SUFFICES ASSUME Init PROVE WalkInv
    OBVIOUS
<1>1. TypeOK
    BY SchedulerAssumption DEF Init, TypeOK, Phases, Joins, NoJoin
<1>2. Running = {}
    BY DEF Init, Running
<1>3. StackInv
    BY <1>2 DEF Init, StackInv, RunningScheduled, RunningOnStack, OwnersAhead, WalksKeep
<1>4. TaskJoinsFresh
    BY SchedulerAssumption DEF Init, TaskJoinsFresh, Runs, NoJoin, Actors, Tasks, Main
<1>5. JoinsCreated
    BY DEF Init, JoinsCreated, NoJoin
<1>6. NoTaskLost
    BY DEF Init, NoTaskLost
<1>. QED
    BY <1>1, <1>3, <1>4, <1>5, <1>6 DEF Init, WalkInv, CancelledUnscheduled, StackOwned

(* Steps that change nothing the invariant reads but the phase and the     *)
(* counts of turns.                                                        *)
LEMMA PhaseStep ==
    ASSUME WalkInv, ticks = <<>>,
           phase' \in Phases, turns' \in [Actors -> Nat],
           UNCHANGED <<created, gen, done, failed, cancelled, sched, ticks, join>>
    PROVE  WalkInv'
<1>1. Running = {} /\ Running' = Running
    BY DEF WalkInv, StackInv, RunningOnStack, Running
<1>2. StackInv' /\ \A t \in Tasks : ~ Runs(t)'
    BY <1>1, EmptyStack
<1>3. TypeOK'
    BY DEF WalkInv, TypeOK
<1>4. TaskJoinsFresh'
    BY <1>2 DEF WalkInv, TaskJoinsFresh
<1>. QED
    BY <1>2, <1>3, <1>4 DEF WalkInv, NoTaskLost, CancelledUnscheduled, JoinsCreated, StackOwned

LEMMA StatementInv == WalkInv /\ Statement => WalkInv'
<1>. SUFFICES ASSUME WalkInv, Statement PROVE WalkInv'
    OBVIOUS
<1>1. ticks = <<>> /\ phase' \in Phases
    BY DEF Statement, WalkInv, StackOwned, Phases
<1>2. turns' \in [Actors -> Nat]
    BY DEF Statement, WalkInv, TypeOK
<1>. QED
    BY <1>1, <1>2, PhaseStep DEF Statement

LEMMA ResetInv == WalkInv /\ Reset => WalkInv'
<1>. SUFFICES ASSUME WalkInv, Reset PROVE WalkInv'
    OBVIOUS
<1>1. ticks = <<>> /\ ticks' = <<>>
    BY DEF Reset, WalkInv, StackOwned
<1>2. Running = {} /\ Running' = Running
    BY <1>1 DEF Reset, WalkInv, StackInv, RunningOnStack, Running
<1>3. StackInv' /\ \A t \in Tasks : ~ Runs(t)'
    BY <1>1, <1>2, EmptyStack
<1>4. TypeOK'
    BY DEF Reset, WalkInv, TypeOK
<1>5. TaskJoinsFresh'
    BY <1>3 DEF Reset, WalkInv, TaskJoinsFresh
<1>6. NoTaskLost' /\ CancelledUnscheduled'
    BY DEF Reset, WalkInv, NoTaskLost, CancelledUnscheduled
<1>. QED
    BY <1>1, <1>3, <1>4, <1>5, <1>6 DEF Reset, WalkInv, JoinsCreated, StackOwned

LEMMA ExitInv == WalkInv /\ Exit => WalkInv'
<1>. SUFFICES ASSUME WalkInv, Exit PROVE WalkInv'
    OBVIOUS
<1>1. ticks = <<>> /\ phase' \in Phases /\ turns' \in [Actors -> Nat]
    BY DEF Exit, WalkInv, StackOwned, Phases, TypeOK
<1>. QED
    BY <1>1, PhaseStep DEF Exit

LEMMA DrainEndInv == WalkInv /\ DrainEnd => WalkInv'
<1>. SUFFICES ASSUME WalkInv, DrainEnd PROVE WalkInv'
    OBVIOUS
<1>1. ticks = <<>> /\ phase' \in Phases /\ turns' \in [Actors -> Nat]
    BY DEF DrainEnd, WalkInv, Phases, TypeOK
<1>. QED
    BY <1>1, PhaseStep DEF DrainEnd

LEMMA DrainTickInv == WalkInv /\ DrainTick => WalkInv'
<1>. SUFFICES ASSUME WalkInv, DrainTick PROVE WalkInv'
    OBVIOUS
<1>1. ticks' = Append(ticks, NewWalk) /\ ticks = <<>>
    BY DEF DrainTick
<1>2. StackInv' /\ ticks' \in Seq(Walks) /\ \A t \in Tasks : ~ Runs(t)'
    BY <1>1, PushStack DEF DrainTick
<1>3. TypeOK'
    BY <1>2 DEF DrainTick, WalkInv, TypeOK
<1>4. TaskJoinsFresh'
    BY <1>2 DEF DrainTick, WalkInv, TaskJoinsFresh
<1>. QED
    BY <1>2, <1>3, <1>4 DEF DrainTick, WalkInv, NoTaskLost, CancelledUnscheduled, JoinsCreated, StackOwned

LEMMA JoinTickInv == ASSUME WalkInv, NEW w \in Actors, JoinTick(w) PROVE WalkInv'
<1>1. ticks # <<>> => ticks[Len(ticks)].at \in Running
  <2>1. CASE w = Main
    BY <2>1, MainHasControl DEF JoinTick
  <2>2. CASE w \in Tasks
    BY <2>2, TaskHasControl DEF JoinTick
  <2>. QED
    BY <2>1, <2>2 DEF Actors
<1>2. StackInv' /\ ticks' \in Seq(Walks) /\ \A t \in Tasks : ~ Runs(t)'
    BY <1>1, PushStack DEF JoinTick
<1>3. TypeOK'
    BY <1>2 DEF JoinTick, WalkInv, TypeOK
<1>4. TaskJoinsFresh'
    BY <1>2 DEF JoinTick, WalkInv, TaskJoinsFresh
<1>5. phase' # "idle"
    BY SchedulerAssumption DEF JoinTick, Runs
<1>6. phase = "statement" => join[Main].kind # "none"
  <2>1. CASE w = Main
    BY <2>1 DEF JoinTick
  <2>2. CASE w \in Tasks
    BY <2>2, TaskHasControl DEF JoinTick, WalkInv, StackOwned
  <2>. QED
    BY <2>1, <2>2 DEF Actors
<1>. QED
    BY <1>2, <1>3, <1>4, <1>5, <1>6
       DEF JoinTick, WalkInv, NoTaskLost, CancelledUnscheduled, JoinsCreated, StackOwned


LEMMA TurnsType ==
    ASSUME turns \in [Actors -> Nat], NEW w \in Actors, Counted(w)
    PROVE  turns' \in [Actors -> Nat]
BY DEF Counted, NextTurn

LEMMA GenType ==
    ASSUME WalkInv, NEW w \in Tasks, NEW g \in {"suspended", "running", "closed"}
    PROVE  [gen EXCEPT ![w] = g] \in [Tasks -> {"suspended", "running", "closed"}]
BY DEF WalkInv, TypeOK

(* A frame that yields, having created the tasks up to created'.           *)
LEMMA YieldStep ==
    ASSUME WalkInv, NEW w \in Actors, Runs(w), Yields(w),
           created' \in created .. MaxTasks,
           sched' = sched \cup (created + 1 .. created'),
           turns' \in [Actors -> Nat],
           join' \in [Actors -> Joins],
           \A t \in Tasks : join[t] = NoJoin \/ t = w => join'[t] = NoJoin,
           \A a \in Actors : join'[a] = join[a] \/ (a = w /\ join'[a] = NoJoin),
           UNCHANGED <<phase, done, failed, cancelled>>
    PROVE  WalkInv'
<1>1. created \in Nat /\ created' \in Nat /\ created <= created' /\ created' <= MaxTasks
    BY SchedulerAssumption DEF WalkInv, TypeOK
<1>2. sched \subseteq 1 .. created
    BY DEF WalkInv, TypeOK
<1>3. /\ StackInv' /\ ticks' \in Seq(Walks) /\ (\A t \in Tasks : ~ Runs(t)')
      /\ gen' \in [Tasks -> {"suspended", "running", "closed"}]
      /\ \A t \in Tasks : gen'[t] # "running" => gen[t] # "running" \/ t = w
  <2>1. CASE w = Main
    <3>1. ticks' = <<>> /\ gen' = gen /\ Running = {} /\ Running' = Running
      BY <2>1, MainHasControl DEF Yields, Running
    <3>. QED
      BY <3>1, EmptyStack DEF WalkInv, TypeOK
  <2>2. CASE w \in Tasks
    <3>1. StackInv' /\ ticks' \in Seq(Walks) /\ (\A t \in Tasks : ~ Runs(t)')
      BY <2>2, <1>1, <1>2, YieldStack
    <3>2. gen' = [gen EXCEPT ![w] = "suspended"]
      BY <2>2, SchedulerAssumption DEF Yields, Tasks, Main
    <3>. QED
      BY <2>2, <3>1, <3>2, GenType DEF WalkInv, TypeOK
  <2>. QED
    BY <2>1, <2>2 DEF Actors
<1>4. TypeOK'
  <2>1. 1 .. created \subseteq 1 .. created' /\ created' \in 0 .. MaxTasks
    BY <1>1
  <2>2. sched' \subseteq 1 .. created'
    BY <1>1, <1>2
  <2>. QED
    BY <1>3, <2>1, <2>2 DEF WalkInv, TypeOK
<1>5. NoTaskLost'
    BY <1>1 DEF WalkInv, NoTaskLost
<1>6. TaskJoinsFresh'
    BY <1>3 DEF WalkInv, TaskJoinsFresh
<1>7. CancelledUnscheduled'
    BY <1>1 DEF WalkInv, TypeOK, CancelledUnscheduled
<1>8. phase' # "idle"
    BY DEF Runs
<1>9. JoinsCreated'
    BY <1>1 DEF WalkInv, JoinsCreated, NoJoin
<1>10. StackOwned'
  <2>1. CASE w = Main
    BY <1>8, <2>1, MainHasControl DEF Yields, StackOwned
  <2>2. CASE w \in Tasks
    <3>1. join'[Main] = join[Main] /\ ticks # <<>>
      BY <2>2, TaskHasControl, SchedulerAssumption DEF Actors, Tasks, Main
    <3>. QED
      BY <1>8, <3>1 DEF WalkInv, StackOwned
  <2>. QED
    BY <2>1, <2>2 DEF Actors
<1>. QED
    BY <1>3, <1>4, <1>5, <1>6, <1>7, <1>9, <1>10 DEF WalkInv

LEMMA InstructionInv == ASSUME WalkInv, NEW w \in Actors, Instruction(w) PROVE WalkInv'
<1>1. turns' \in [Actors -> Nat]
    BY TurnsType DEF Instruction, WalkInv, TypeOK
<1>2. created' \in created .. MaxTasks /\ sched' = sched \cup (created + 1 .. created')
    BY SchedulerAssumption DEF Instruction, WalkInv, TypeOK
<1>3. \A t \in Tasks : join[t] = NoJoin \/ t = w => join'[t] = NoJoin
    BY DEF Instruction, CanStep
<1>. QED
    BY <1>1, <1>2, <1>3, YieldStep DEF Instruction, CanStep, WalkInv, TypeOK

LEMMA SpawnInv == ASSUME WalkInv, NEW w \in Actors, Spawn(w) PROVE WalkInv'
<1>1. turns' \in [Actors -> Nat]
    BY TurnsType DEF Spawn, WalkInv, TypeOK
<1>2. created' \in created .. MaxTasks /\ sched' = sched \cup (created + 1 .. created')
    BY SchedulerAssumption DEF Spawn, WalkInv, TypeOK
<1>3. \A t \in Tasks : join[t] = NoJoin \/ t = w => join'[t] = NoJoin
    BY DEF Spawn, CanStep
<1>. QED
    BY <1>1, <1>2, <1>3, YieldStep DEF Spawn, CanStep, WalkInv, TypeOK

(* A frame that ends, by a return or an uncaught failure.                  *)
LEMMA EndStep ==
    ASSUME WalkInv, NEW w \in Actors, Runs(w), Finishes(w) \/ Fails(w),
           turns' \in [Actors -> Nat],
           join' \in [Actors -> Joins],
           \A t \in Tasks : join[t] = NoJoin \/ t = w => join'[t] = NoJoin,
           \A a \in Actors : join'[a] = join[a] \/ (a = w /\ join'[a] = NoJoin),
           UNCHANGED <<created, cancelled, sched, ticks>>
    PROVE  WalkInv'
<1>1. CASE w = Main
  <2>1. ticks' = <<>> /\ Running' = {}
    BY <1>1, MainHasControl DEF Finishes, Fails, Running
  <2>2. StackInv' /\ \A t \in Tasks : ~ Runs(t)'
    BY <2>1, EmptyStack
  <2>3. TypeOK'
    BY <1>1, <2>1 DEF WalkInv, TypeOK, Finishes, Fails, Phases
  <2>4. TaskJoinsFresh'
    BY <1>1, <2>2 DEF WalkInv, TaskJoinsFresh, Finishes, Fails
  <2>5. JoinsCreated'
    BY DEF WalkInv, JoinsCreated, NoJoin
  <2>. QED
    BY <1>1, <2>1, <2>2, <2>3, <2>4, <2>5
       DEF WalkInv, NoTaskLost, CancelledUnscheduled, StackOwned, Finishes, Fails
<1>2. CASE w \in Tasks
  <2>1. /\ gen' = [gen EXCEPT ![w] = "closed"] /\ done' = done \cup {w}
        /\ failed' \subseteq failed \cup {w} /\ phase' = phase
    BY <1>2, SchedulerAssumption DEF Finishes, Fails, Tasks, Main
  <2>2. StackInv' /\ (\A t \in Tasks : ~ Runs(t)')
    BY <1>2, <2>1, FinishStack
  <2>3. w \in sched /\ w \in 1 .. created
    BY <1>2, TaskHasControl
  <2>4. TypeOK'
    <3>1. gen' \in [Tasks -> {"suspended", "running", "closed"}]
      BY <1>2, <2>1, GenType
    <3>. QED
      BY <2>1, <2>3, <3>1 DEF WalkInv, TypeOK, CancelledUnscheduled
  <2>5. TaskJoinsFresh'
    BY <2>1, <2>2 DEF WalkInv, TaskJoinsFresh, TypeOK
  <2>6. JoinsCreated'
    BY DEF WalkInv, JoinsCreated, NoJoin
  <2>7. join'[Main] = join[Main] /\ ticks # <<>>
    BY <1>2, TaskHasControl, SchedulerAssumption DEF Actors, Tasks, Main
  <2>8. StackOwned'
    BY <2>1, <2>7 DEF WalkInv, StackOwned
  <2>. QED
    BY <2>1, <2>2, <2>4, <2>5, <2>6, <2>8
       DEF WalkInv, NoTaskLost, CancelledUnscheduled
<1>. QED
    BY <1>1, <1>2 DEF Actors

LEMMA ReturnInv == ASSUME WalkInv, NEW w \in Actors, Return(w) PROVE WalkInv'
<1>1. turns' \in [Actors -> Nat]
    BY TurnsType DEF Return, WalkInv, TypeOK
<1>2. \A t \in Tasks : join[t] = NoJoin \/ t = w => join'[t] = NoJoin
    BY DEF Return
<1>. QED
    BY <1>1, <1>2, EndStep DEF Return, WalkInv, TypeOK

LEMMA FailInv == ASSUME WalkInv, NEW w \in Actors, Fail(w) PROVE WalkInv'
<1>1. turns' \in [Actors -> Nat]
    BY TurnsType DEF Fail, WalkInv, TypeOK
<1>2. \A t \in Tasks : join[t] = NoJoin \/ t = w => join'[t] = NoJoin
    BY DEF Fail
<1>. QED
    BY <1>1, <1>2, EndStep DEF Fail, WalkInv, TypeOK


LEMMA JoinResetType ==
    ASSUME WalkInv, NEW w \in Actors, join' = [join EXCEPT ![w] = NoJoin]
    PROVE  /\ join' \in [Actors -> Joins]
           /\ \A t \in Tasks : join[t] = NoJoin \/ t = w => join'[t] = NoJoin
           /\ \A a \in Actors : join'[a] = join[a] \/ (a = w /\ join'[a] = NoJoin)
<1>1. NoJoin \in Joins
    BY DEF NoJoin, Joins
<1>2. Tasks \subseteq Actors
    BY DEF Actors
<1>. QED
    BY <1>1, <1>2 DEF WalkInv, TypeOK

LEMMA SyncEndInv == ASSUME WalkInv, NEW w \in Actors, SyncEnd(w) PROVE WalkInv'
<1>1. /\ join' \in [Actors -> Joins]
      /\ \A t \in Tasks : join[t] = NoJoin \/ t = w => join'[t] = NoJoin
      /\ \A a \in Actors : join'[a] = join[a] \/ (a = w /\ join'[a] = NoJoin)
    BY JoinResetType DEF SyncEnd
<1>2. turns' \in [Actors -> Nat]
    BY DEF SyncEnd, WalkInv, TypeOK
<1>3. CASE Resumes(w)
  <2>1. created' \in created .. MaxTasks /\ sched' = sched \cup (created + 1 .. created')
    BY SchedulerAssumption DEF SyncEnd, WalkInv, TypeOK
  <2>. QED
    BY <1>1, <1>2, <1>3, <2>1, YieldStep DEF SyncEnd, Resumes
<1>4. CASE Fails(w) /\ UNCHANGED ticks
    BY <1>1, <1>2, <1>4, EndStep DEF SyncEnd
<1>. QED
    BY <1>3, <1>4 DEF SyncEnd, JoinOutcome

(* Only the statement's own frame ever decides a race: when a task could,  *)
(* none of its branches has had a turn.                                    *)
LEMMA RaceEndIsMain == ASSUME WalkInv, NEW w \in Actors, RaceEnd(w) PROVE w = Main
<1>. SUFFICES ASSUME w \in Tasks PROVE FALSE
    BY DEF Actors
<1>1. join[w].branches \cap done = {}
    BY DEF RaceEnd, WalkInv, TaskJoinsFresh
<1>. QED
    BY <1>1 DEF RaceEnd, Satisfied

LEMMA RaceEndInv == ASSUME WalkInv, NEW w \in Actors, RaceEnd(w) PROVE WalkInv'
<1>1. w = Main /\ ticks = <<>> /\ Running = {}
    BY RaceEndIsMain, MainHasControl DEF RaceEnd
<1>2. /\ join' \in [Actors -> Joins]
      /\ \A t \in Tasks : join[t] = NoJoin => join'[t] = NoJoin
      /\ \A a \in Actors : join'[a] = join[a] \/ join'[a] = NoJoin
    BY JoinResetType DEF RaceEnd
<1>3. /\ ticks' = <<>> /\ UNCHANGED <<gen, done, failed, created, turns>>
      /\ phase' \in Phases /\ Running' = {}
  <2>1. CASE Resumes(w)
    BY <1>1, <2>1 DEF Resumes, Yields, RaceEnd, WalkInv, TypeOK, Running
  <2>2. CASE Fails(w) /\ UNCHANGED ticks
    BY <1>1, <2>2 DEF Fails, RaceEnd, Phases, Running
  <2>. QED
    BY <2>1, <2>2 DEF RaceEnd, JoinOutcome
<1>4. StackInv' /\ \A t \in Tasks : ~ Runs(t)'
    BY <1>3, EmptyStack
<1>. DEFINE L == Losers(join[w])
<1>5. L \subseteq 1 .. created
    BY DEF WalkInv, JoinsCreated, Losers
<1>6. sched' = sched \ L /\ cancelled' = cancelled \cup (L \ done)
    BY DEF RaceEnd
<1>. HIDE DEF L
<1>7. TypeOK'
    BY <1>2, <1>3, <1>5, <1>6 DEF WalkInv, TypeOK
<1>8. NoTaskLost' /\ CancelledUnscheduled'
    BY <1>3, <1>6 DEF WalkInv, NoTaskLost, CancelledUnscheduled
<1>9. TaskJoinsFresh'
    BY <1>2, <1>3, <1>4 DEF WalkInv, TaskJoinsFresh
<1>10. JoinsCreated'
    BY <1>2, <1>3 DEF WalkInv, JoinsCreated, NoJoin
<1>. QED
    BY <1>3, <1>4, <1>7, <1>8, <1>9, <1>10 DEF WalkInv, StackOwned

(* A task whose join has been forked still has control, and its branches   *)
(* are younger than everything that is done.                               *)
LEMMA ForkInv ==
    ASSUME WalkInv, NEW w \in Actors, NEW kind \in {"sync", "race"}, NEW n \in JoinSizes,
           Fork(w, kind, n)
    PROVE  WalkInv'
<1>. DEFINE new == created + 1 .. created + n
            j == [kind |-> kind, branches |-> new]
<1>1. created \in Nat /\ n \in Nat /\ created + n \in 0 .. MaxTasks /\ created' = created + n
    BY SchedulerAssumption DEF Fork, WalkInv, TypeOK
<1>2. /\ new \subseteq Tasks /\ new \subseteq 1 .. created'
      /\ new \cap (1 .. created) = {} /\ 1 .. created \subseteq 1 .. created'
      /\ 1 .. created' \subseteq 1 .. created \cup new
    BY <1>1, SchedulerAssumption DEF Tasks
<1>3. j \in Joins
    BY <1>2 DEF Joins
<1>4. /\ join' = [join EXCEPT ![w] = j] /\ sched' = sched \cup new
      /\ UNCHANGED <<phase, gen, done, failed, cancelled, ticks>>
    BY DEF Fork
<1>. HIDE DEF new, j
<1>5. turns' \in [Actors -> Nat]
    BY TurnsType DEF Fork, WalkInv, TypeOK
<1>6. TypeOK'
    BY <1>1, <1>2, <1>3, <1>4, <1>5 DEF WalkInv, TypeOK
<1>7. NoTaskLost' /\ CancelledUnscheduled'
    BY <1>2, <1>4 DEF WalkInv, NoTaskLost, CancelledUnscheduled, TypeOK
<1>8. Running' = Running
    BY <1>4 DEF Running
<1>9. StackInv'
  <2>1. RunningScheduled' /\ RunningOnStack' /\ OwnersAhead'
    BY <1>4, <1>8
       DEF WalkInv, StackInv, RunningScheduled, RunningOnStack, OwnersAhead
  <2>2. \A i \in 1 .. Len(ticks) : ticks[i].at <= created' /\ ticks[i].still \subseteq sched'
    BY <1>1, <1>4, WalkTypes
  <2>3. ASSUME NEW t \in sched', t \notin done, ticks # <<>>,
               t < ticks[1].at \/ (t = ticks[1].at /\ t \notin Running)
        PROVE  t \in ticks[1].still
    <3>1. ticks[1].at \in 0 .. created
      <4>1. 1 \in 1 .. Len(ticks)
        BY <2>3 DEF WalkInv, TypeOK
      <4>. QED
        BY <4>1, WalkTypes
    <3>2. t \notin new
      BY <1>1, <2>3, <3>1 DEF new
    <3>. QED
      BY <1>4, <2>3, <3>2 DEF WalkInv, StackInv, WalksKeep
  <2>4. WalksKeep'
    BY <1>4, <1>8, <2>2, <2>3 DEF WalksKeep
  <2>. QED
    BY <2>1, <2>4 DEF StackInv
<1>10. TaskJoinsFresh'
  <2>. SUFFICES ASSUME NEW t \in Tasks
                PROVE  /\ gen'[t] # "running" => join'[t] = NoJoin
                       /\ Runs(t)' => join'[t].branches \cap done' = {}
    BY DEF TaskJoinsFresh
  <2>1. t \in Actors
    BY DEF Actors
  <2>2. CASE t = w
    <3>1. gen[t] = "running"
      BY <2>2, TaskHasControl DEF Fork, CanStep, Running
    <3>2. join'[t].branches = new
      BY <1>4, <2>1, <2>2 DEF WalkInv, TypeOK, j
    <3>3. new \cap done = {}
      BY <1>2 DEF WalkInv, TypeOK
    <3>. QED
      BY <1>4, <3>1, <3>2, <3>3
  <2>3. CASE t # w
    <3>1. join'[t] = join[t]
      BY <1>4, <2>1, <2>3 DEF WalkInv, TypeOK
    <3>2. Runs(t)' <=> Runs(t)
      BY <1>4 DEF Runs
    <3>. QED
      BY <1>4, <3>1, <3>2 DEF WalkInv, TaskJoinsFresh
  <2>. QED
    BY <2>2, <2>3
<1>11. JoinsCreated'
    BY <1>2, <1>4 DEF WalkInv, JoinsCreated, TypeOK, j
<1>12. StackOwned'
  <2>1. CASE w = Main
    BY <1>4, <2>1, MainHasControl DEF Fork, CanStep, StackOwned
  <2>2. CASE w \in Tasks
    <3>1. join'[Main] = join[Main]
      BY <1>4, <2>2, SchedulerAssumption DEF WalkInv, TypeOK, Actors, Tasks, Main
    <3>. QED
      BY <1>4, <3>1 DEF WalkInv, StackOwned
  <2>. QED
    BY <2>1, <2>2 DEF Actors
<1>. QED
    BY <1>6, <1>7, <1>9, <1>10, <1>11, <1>12 DEF WalkInv

LEMMA RuntimeErrorInv == ASSUME WalkInv, NEW w \in Actors, RuntimeError(w) PROVE WalkInv'
<1>1. /\ ticks' = <<>> /\ Running' = {} /\ phase' \in Phases
      /\ gen' \in [Tasks -> {"suspended", "running", "closed"}]
    BY DEF RuntimeError, Running, Phases, WalkInv, TypeOK
<1>2. StackInv' /\ \A t \in Tasks : ~ Runs(t)'
    BY <1>1, EmptyStack
<1>3. /\ join' \in [Actors -> Joins]
      /\ \A a \in Actors : join'[a] = join[a] \/ join'[a] = NoJoin
      /\ \A t \in Tasks : gen[t] = "running" => join'[t] = NoJoin
      /\ \A t \in Tasks : join[t] = NoJoin => join'[t] = NoJoin
    BY DEF RuntimeError, WalkInv, TypeOK, NoJoin, Joins, Actors, Running
<1>4. TypeOK'
    BY <1>1, <1>3 DEF RuntimeError, WalkInv, TypeOK
<1>5. TaskJoinsFresh'
    BY <1>2, <1>3 DEF RuntimeError, WalkInv, TaskJoinsFresh
<1>6. JoinsCreated'
    BY <1>3 DEF RuntimeError, WalkInv, JoinsCreated, NoJoin
<1>. QED
    BY <1>1, <1>2, <1>4, <1>5, <1>6
       DEF RuntimeError, WalkInv, NoTaskLost, CancelledUnscheduled, StackOwned

LEMMA GiveTurnInv == ASSUME WalkInv, NEW t \in Tasks, GiveTurn(t) PROVE WalkInv'
<1>1. Running' = Running \cup {t} /\ gen[t] # "running" /\ gen[t] = "suspended"
    BY DEF GiveTurn, Running, WalkInv, TypeOK
<1>2. StackInv' /\ ticks' \in Seq(Walks) /\ Last(ticks').at = t
    BY <1>1, VisitStack DEF GiveTurn
<1>3. gen' \in [Tasks -> {"suspended", "running", "closed"}]
    BY GenType DEF GiveTurn
<1>4. TypeOK'
    BY <1>2, <1>3 DEF GiveTurn, WalkInv, TypeOK
<1>5. TaskJoinsFresh'
  <2>. SUFFICES ASSUME NEW u \in Tasks
                PROVE  /\ gen'[u] # "running" => join'[u] = NoJoin
                       /\ Runs(u)' => join'[u].branches \cap done' = {}
    BY DEF TaskJoinsFresh
  <2>1. gen'[u] # "running" => join'[u] = NoJoin
    BY <1>1 DEF GiveTurn, WalkInv, TypeOK, TaskJoinsFresh
  <2>2. ASSUME Runs(u)' PROVE join'[u].branches \cap done' = {}
    <3>1. u = t
      BY <1>2, <2>2, SchedulerAssumption DEF Runs, Tasks, Main
    <3>2. join'[u] = NoJoin
      BY <1>1, <3>1 DEF GiveTurn, WalkInv, TaskJoinsFresh
    <3>. QED
      BY <3>2 DEF NoJoin
  <2>. QED
    BY <2>1, <2>2
<1>6. phase' # "idle"
    BY DEF GiveTurn, Visits, BetweenElements
<1>. QED
    BY <1>2, <1>4, <1>5, <1>6
       DEF GiveTurn, WalkInv, NoTaskLost, CancelledUnscheduled, JoinsCreated, StackOwned

LEMMA CollectClosedInv == ASSUME WalkInv, NEW t \in Tasks, CollectClosed(t) PROVE WalkInv'
<1>1. Running' = Running /\ gen[t] # "running" /\ done' = done \cup {t}
    BY DEF CollectClosed, Running
<1>2. StackInv' /\ ticks' \in Seq(Walks) /\ Last(ticks').at = t
    BY <1>1, VisitStack DEF CollectClosed
<1>3. t \in sched /\ t \in 1 .. created
    BY DEF CollectClosed, Visits, Pending, WalkInv, TypeOK
<1>4. TypeOK'
    BY <1>2, <1>3 DEF CollectClosed, WalkInv, TypeOK, CancelledUnscheduled
<1>5. \A u \in Tasks : ~ Runs(u)'
    BY <1>1, <1>2, SchedulerAssumption DEF CollectClosed, Runs, Tasks, Main
<1>6. TaskJoinsFresh'
    BY <1>5 DEF CollectClosed, WalkInv, TaskJoinsFresh
<1>7. phase' # "idle"
    BY DEF CollectClosed, Visits, BetweenElements
<1>. QED
    BY <1>2, <1>4, <1>6, <1>7
       DEF CollectClosed, WalkInv, NoTaskLost, CancelledUnscheduled, JoinsCreated, StackOwned

LEMMA ReenterInv == ASSUME WalkInv, NEW t \in Tasks, Reenter(t) PROVE WalkInv'
<1>1. \A u \in Tasks : ~ Runs(u)'
    BY SchedulerAssumption DEF Reenter, Runs, Tasks, Main
<1>2. TypeOK'
    BY DEF Reenter, WalkInv, TypeOK, Phases
<1>3. Running' = Running
    BY DEF Reenter, Running
<1>4. StackInv'
    BY <1>3 DEF Reenter, WalkInv, StackInv, RunningScheduled, RunningOnStack, OwnersAhead, WalksKeep
<1>5. TaskJoinsFresh'
    BY <1>1 DEF Reenter, WalkInv, TaskJoinsFresh
<1>. QED
    BY <1>2, <1>4, <1>5
       DEF Reenter, WalkInv, NoTaskLost, CancelledUnscheduled, JoinsCreated, StackOwned

LEMMA TickEndInv == ASSUME WalkInv, TickEnd PROVE WalkInv'
<1>1. /\ ticks' = <<>> /\ UNCHANGED gen /\ Running = {}
      /\ sched \ done \subseteq sched' /\ sched' \subseteq sched
    BY EndOfWalk
<1>2. Running' = {}
    BY <1>1 DEF Running
<1>3. StackInv' /\ \A t \in Tasks : ~ Runs(t)'
    BY <1>1, <1>2, EmptyStack
<1>4. TypeOK'
    BY <1>1 DEF TickEnd, WalkInv, TypeOK
<1>5. NoTaskLost' /\ CancelledUnscheduled'
    BY <1>1 DEF TickEnd, WalkInv, NoTaskLost, CancelledUnscheduled
<1>6. TaskJoinsFresh'
    BY <1>1, <1>3 DEF TickEnd, WalkInv, TaskJoinsFresh
<1>. QED
    BY <1>1, <1>3, <1>4, <1>5, <1>6 DEF TickEnd, WalkInv, JoinsCreated, StackOwned


----------------------------------------------------------------------------
(* The theorems.                                                           *)

LEMMA NextInv == WalkInv /\ [Next]_vars => WalkInv'
<1>. SUFFICES ASSUME WalkInv, [Next]_vars PROVE WalkInv'
    OBVIOUS
<1>1. CASE Statement
    BY <1>1, StatementInv
<1>2. CASE Reset \/ Exit
    BY <1>2, ResetInv, ExitInv
<1>3. ASSUME NEW w \in Actors, FrameStep(w) PROVE WalkInv'
  <2>1. CASE Instruction(w)
    BY <2>1, InstructionInv
  <2>2. CASE Spawn(w)
    BY <2>2, SpawnInv
  <2>3. CASE \E n \in JoinSizes : Fork(w, "sync", n)
    BY <2>3, ForkInv
  <2>4. CASE \E n \in JoinSizes : Fork(w, "race", n)
    BY <2>4, ForkInv
  <2>5. CASE JoinTick(w)
    BY <2>5, JoinTickInv
  <2>6. CASE SyncEnd(w)
    BY <2>6, SyncEndInv
  <2>7. CASE RaceEnd(w)
    BY <2>7, RaceEndInv
  <2>8. CASE Return(w)
    BY <2>8, ReturnInv
  <2>9. CASE Fail(w)
    BY <2>9, FailInv
  <2>10. CASE RuntimeError(w)
    BY <2>10, RuntimeErrorInv
  <2>. QED
    BY <1>3, <2>1, <2>2, <2>3, <2>4, <2>5, <2>6, <2>7, <2>8, <2>9, <2>10 DEF FrameStep
<1>4. CASE WalkStep
  <2>1. ASSUME NEW t \in Tasks, GiveTurn(t) PROVE WalkInv'
    BY <2>1, GiveTurnInv
  <2>2. ASSUME NEW t \in Tasks, CollectClosed(t) PROVE WalkInv'
    BY <2>2, CollectClosedInv
  <2>3. ASSUME NEW t \in Tasks, Reenter(t) PROVE WalkInv'
    BY <2>3, ReenterInv
  <2>4. CASE TickEnd
    BY <2>4, TickEndInv
  <2>5. CASE DrainTick
    BY <2>5, DrainTickInv
  <2>6. CASE DrainEnd
    BY <2>6, DrainEndInv
  <2>. QED
    BY <1>4, <2>1, <2>2, <2>3, <2>4, <2>5, <2>6 DEF WalkStep
<1>5. CASE Ended \/ UNCHANGED vars
  <2>1. UNCHANGED vars
    BY <1>5 DEF Ended
  <2>2. Running' = Running /\ \A t \in Tasks : Runs(t)' <=> Runs(t)
    BY <2>1 DEF vars, Running, Runs
  <2>3. StackInv' /\ TypeOK' /\ TaskJoinsFresh'
    BY <2>1, <2>2 DEF vars, WalkInv, StackInv, RunningScheduled, RunningOnStack,
                      OwnersAhead, WalksKeep, TypeOK, TaskJoinsFresh
  <2>. QED
    BY <2>1, <2>3
       DEF vars, WalkInv, NoTaskLost, CancelledUnscheduled, JoinsCreated, StackOwned
<1>. QED
    BY <1>1, <1>2, <1>3, <1>4, <1>5 DEF Next, MachineStep

(* The first part of the inductive invariant holds in every reachable      *)
(* state.                                                                  *)
THEOREM WalkInvariance == Spec => []WalkInv
<1>1. Init => WalkInv
    BY InitInv
<1>2. WalkInv /\ [Next]_vars => WalkInv'
    BY NextInv
<1>. QED
    BY <1>1, <1>2, PTL DEF Spec

(* The variables keep their types, for every value of the constants.       *)
THEOREM TypeCorrect == Spec => []TypeOK
<1>1. WalkInv => TypeOK
    BY DEF WalkInv
<1>. QED
    BY <1>1, WalkInvariance, PTL

(* Rebinding scheduler_tasks at the end of a walk never drops a task that  *)
(* still has to run.                                                       *)
THEOREM NoTaskIsLost == Spec => []NoTaskLost
<1>1. WalkInv => NoTaskLost
    BY DEF WalkInv
<1>. QED
    BY <1>1, WalkInvariance, PTL


----------------------------------------------------------------------------
(* Action properties.                                                      *)

LEMMA YieldsKeepsDepth ==
    ASSUME WalkInv, NEW w \in Actors, Runs(w), Yields(w)
    PROVE  Len(ticks') = Len(ticks)
<1>1. CASE w = Main
    BY <1>1 DEF Yields
<1>2. CASE w \in Tasks
  <2>1. ticks \in Seq(Walks) /\ ticks # <<>>
    BY <1>2, TaskHasControl
  <2>2. ticks' = [ticks EXCEPT ![Len(ticks)].still = @ \cup {w}]
    BY <1>2, SchedulerAssumption DEF Yields, Tasks, Main
  <2>. QED
    BY <1>2, <2>1, <2>2, KeepTop
<1>. QED
    BY <1>1, <1>2 DEF Actors

LEMMA DepthStep ==
    ASSUME WalkInv, [Next]_vars
    PROVE  \/ Len(ticks') >= Len(ticks)
           \/ Len(ticks) = 1
           \/ ticks' = <<>>
<1>. DEFINE Goal == Len(ticks') >= Len(ticks) \/ Len(ticks) = 1 \/ ticks' = <<>>
<1>0. ticks \in Seq(Walks) /\ Len(ticks) \in Nat
    BY DEF WalkInv, TypeOK
<1>1. CASE UNCHANGED ticks
    BY <1>0, <1>1
<1>2. ASSUME NEW w \in Actors, FrameStep(w) PROVE Goal
  <2>1. CASE Yields(w) /\ Runs(w)
    BY <1>0, <2>1, YieldsKeepsDepth
  <2>2. CASE UNCHANGED ticks
    BY <1>0, <2>2
  <2>3. CASE JoinTick(w)
    BY <1>0, <2>3, PushWalk DEF JoinTick
  <2>4. CASE RuntimeError(w)
    BY <2>4 DEF RuntimeError
  <2>. QED
    BY <1>2, <2>1, <2>2, <2>3, <2>4
       DEF FrameStep, Instruction, Spawn, Fork, SyncEnd, RaceEnd, Return, Fail,
           JoinOutcome, Resumes, CanStep
<1>3. CASE WalkStep
  <2>1. ASSUME NEW t \in Tasks, GiveTurn(t) \/ CollectClosed(t) PROVE Goal
    <3>1. ticks # <<>> /\ ticks' = [ticks EXCEPT ![Len(ticks)].at = t] /\ t \in Actors
      BY <2>1 DEF GiveTurn, CollectClosed, Visits, BetweenElements, Actors
    <3>. QED
      BY <1>0, <3>1, MoveTop
  <2>2. CASE TickEnd
    BY <2>2, EndOfWalk
  <2>3. CASE DrainTick
    BY <1>0, <2>3 DEF DrainTick
  <2>4. CASE DrainEnd \/ \E t \in Tasks : Reenter(t)
    BY <1>1, <2>4 DEF DrainEnd, Reenter
  <2>. QED
    BY <1>3, <2>1, <2>2, <2>3, <2>4 DEF WalkStep
<1>. QED
    BY <1>1, <1>2, <1>3 DEF Next, MachineStep, Statement, Reset, Exit, Ended, vars

(* No join inside a task ever completes: however many tasks there are, a   *)
(* walk started inside another one ends only with the statement.           *)
THEOREM InnerWalks == Spec => InnerWalkNeverEnds
<1>1. WalkInv /\ [Next]_vars =>
          (Len(ticks) >= 2 /\ Len(ticks') < Len(ticks) => ticks' = <<>>)
  <2>. SUFFICES ASSUME WalkInv, [Next]_vars, Len(ticks) >= 2, Len(ticks') < Len(ticks)
                PROVE  ticks' = <<>>
    OBVIOUS
  <2>1. Len(ticks) \in Nat
    BY DEF WalkInv, TypeOK
  <2>2. Len(ticks') \in Nat
    BY NextInv DEF WalkInv, TypeOK
  <2>3. Len(ticks') >= Len(ticks) \/ Len(ticks) = 1 \/ ticks' = <<>>
    BY DepthStep
  <2>4. \A m, n \in Nat : m >= 2 /\ n < m => ~ (n >= m) /\ m # 1
    OBVIOUS
  <2>5. ~ (Len(ticks') >= Len(ticks)) /\ Len(ticks) # 1
    BY <2>1, <2>2, <2>4, Zenon
  <2>. QED
    BY <2>3, <2>5, Zenon
<1>. QED
    BY <1>1, WalkInvariance, PTL DEF Spec, InnerWalkNeverEnds

(* A statement that ends through its drain leaves no task behind.          *)
THEOREM Drained == Spec => DrainLeavesNothing
<1>1. WalkInv /\ [Next]_vars =>
          (phase = "drain" /\ ticks = <<>> /\ phase' = "idle"
              => 1 .. created \subseteq done \cup cancelled)
  <2>. SUFFICES ASSUME WalkInv, [Next]_vars, phase = "drain", ticks = <<>>, phase' = "idle"
                PROVE  1 .. created \subseteq done \cup cancelled
    OBVIOUS
  <2>1. \A w \in Actors : ~ Runs(w)
    BY SchedulerAssumption DEF Runs
  <2>2. ~ \E w \in Actors : FrameStep(w)
    BY <2>1 DEF FrameStep, Instruction, Spawn, Fork, JoinTick, SyncEnd, RaceEnd,
                Return, Fail, RuntimeError, CanStep
  <2>3. DrainEnd
    BY <2>2 DEF Next, MachineStep, WalkStep, Statement, Reset, Exit, Ended, GiveTurn,
                CollectClosed, Reenter, TickEnd, DrainTick, Visits, BetweenElements, vars
  <2>. QED
    BY <2>3 DEF DrainEnd, WalkInv, NoTaskLost
<1>. QED
    BY <1>1, WalkInvariance, PTL DEF Spec, DrainLeavesNothing

(* What happens to one frame's own state when it has control.              *)
LEMMA CancelledFrameStep ==
    ASSUME WalkInv, NEW w \in Actors, FrameStep(w), NEW t \in cancelled
    PROVE  t \in cancelled' /\ t \notin done' /\ turns'[t] = turns[t] /\ gen'[t] = gen[t]
<1>1. Runs(w)
    BY DEF FrameStep, Instruction, Spawn, Fork, JoinTick, SyncEnd, RaceEnd,
           Return, Fail, RuntimeError, CanStep
<1>2. t \in Tasks /\ t \in Actors /\ t \notin done /\ t \notin Running /\ t # w /\ t # Main
  <2>1. t \in Tasks /\ t \notin done /\ t # Main
    BY SchedulerAssumption DEF WalkInv, TypeOK, Tasks, Main
  <2>2. t \notin Running
    BY DEF WalkInv, CancelledUnscheduled, StackInv, RunningScheduled
  <2>3. t # w
    BY <1>1, <2>1, <2>2, TaskHasControl
  <2>. QED
    BY <2>1, <2>2, <2>3 DEF Actors
<1>3. cancelled \subseteq cancelled'
    BY DEF FrameStep, Instruction, Spawn, Fork, JoinTick, SyncEnd, RaceEnd,
           Return, Fail, RuntimeError
<1>4. turns'[t] = turns[t]
    BY <1>2 DEF FrameStep, Instruction, Spawn, Fork, JoinTick, SyncEnd, RaceEnd,
           Return, Fail, RuntimeError, Counted, WalkInv, TypeOK
<1>5. Yields(w) => gen'[t] = gen[t]
    BY <1>2 DEF Yields, WalkInv, TypeOK
<1>6. Finishes(w) \/ Fails(w) => gen'[t] = gen[t] /\ t \notin done'
    BY <1>2 DEF Finishes, Fails, WalkInv, TypeOK
<1>7. gen'[t] = gen[t] /\ t \notin done'
    BY <1>2, <1>5, <1>6
       DEF FrameStep, Instruction, Spawn, Fork, JoinTick, SyncEnd, RaceEnd,
           Return, Fail, RuntimeError, JoinOutcome, Resumes, Running
<1>. QED
    BY <1>3, <1>4, <1>7

(* A loser of a race is never given a turn again.                          *)
THEOREM CancelledIsFinal == Spec => CancelledStaysStopped
<1>. DEFINE Same(t) == t \in cancelled' /\ t \notin done'
                       /\ turns'[t] = turns[t] /\ gen'[t] = gen[t]
<1>1. ASSUME WalkInv, [Next]_vars, NEW t \in cancelled PROVE Same(t)
  <2>1. t \in Tasks /\ t \notin done /\ t \notin sched /\ t # Main
    BY <1>1, SchedulerAssumption DEF WalkInv, TypeOK, CancelledUnscheduled, Tasks, Main
  <2>2. ASSUME NEW w \in Actors, FrameStep(w) PROVE Same(t)
    BY <1>1, <2>2, CancelledFrameStep
  <2>3. ASSUME NEW u \in Tasks, GiveTurn(u) \/ CollectClosed(u) PROVE Same(t)
    <3>1. u # t
      BY <2>1, <2>3 DEF GiveTurn, CollectClosed, Visits, Pending
    <3>. QED
      BY <1>1, <2>1, <2>3, <3>1 DEF GiveTurn, CollectClosed, WalkInv, TypeOK
  <2>4. CASE TickEnd
    BY <1>1, <2>1, <2>4, EndOfWalk DEF TickEnd
  <2>5. CASE DrainTick \/ DrainEnd \/ Exit \/ Ended \/ UNCHANGED vars
    BY <2>1, <2>5 DEF DrainTick, DrainEnd, Exit, Ended, vars
  <2>6. CASE Statement
    BY <1>1, <2>1, <2>6 DEF Statement, WalkInv, TypeOK, Actors
  <2>8. CASE Reset
    BY <2>1, <2>8 DEF Reset
  <2>7. ASSUME NEW u \in Tasks, Reenter(u) PROVE Same(t)
    BY <2>1, <2>7 DEF Reenter
  <2>. QED
    BY <1>1, <2>2, <2>3, <2>4, <2>5, <2>6, <2>7, <2>8 DEF Next, MachineStep, WalkStep
<1>2. WalkInv /\ [Next]_vars =>
          \A t \in cancelled : t \in cancelled' /\ t \notin done'
                               /\ turns'[t] = turns[t] /\ gen'[t] = gen[t]
    BY <1>1
<1>. QED
    BY <1>2, WalkInvariance, PTL DEF Spec, CancelledStaysStopped

----------------------------------------------------------------------------
(***************************************************************************)
(* The scheduler is fair to the branches of a sync or race: RoundRobin and *)
(* RaceIsEven, for any number of tasks, any fuel, any Loopers and any      *)
(* JoinSizes.                                                              *)
(*                                                                         *)
(* The proof compares the turns of two branches by how far the walk has    *)
(* come.  Between two walks all branches that still count have had the     *)
(* same number of turns; within a walk those it has passed are one ahead.  *)
(***************************************************************************)
(* Branches are tasks, and all tasks are counted alike.                    *)
LEMMA BranchesAreTasks ==
    ASSUME WalkInv
    PROVE  /\ join[Main].branches \subseteq Tasks /\ Counting \subseteq Tasks
           /\ join[Main].branches \subseteq 1 .. created /\ created \in Nat
           /\ Main \in Actors /\ Tasks \subseteq Actors /\ Main \notin Tasks
<1>1. Main \in Actors /\ Tasks \subseteq Actors /\ Main \notin Tasks
    BY SchedulerAssumption DEF Actors, Tasks, Main
<1>2. created \in Nat /\ created <= MaxTasks
    BY SchedulerAssumption DEF WalkInv, TypeOK
<1>3. join[Main].branches \subseteq 1 .. created
    BY <1>1 DEF WalkInv, JoinsCreated
<1>4. 1 .. created \subseteq Tasks
    BY <1>2, SchedulerAssumption DEF Tasks
<1>. QED
    BY <1>1, <1>2, <1>3, <1>4 DEF Counting

LEMMA TasksCountAlike ==
    ASSUME NEW b \in Tasks, NEW c \in Tasks, NEW n
    PROVE  NextTurn(b, n) = NextTurn(c, n)
BY SchedulerAssumption DEF NextTurn, Fuel, Tasks, Main

(* A step in which nobody that counts has a turn, or w has one, keeps the  *)
(* branches even.                                                          *)
LEMMA OneTurn ==
    ASSUME WalkInv, TurnInv, Shallow, Counting' \subseteq Counting, NEW w,
           \A b \in Counting' : HadTurn(b)' <=> HadTurn(b) \/ b = w,
           \A b \in Counting' :
               turns'[b] = IF b = w /\ ~ HadTurn(b) THEN NextTurn(b, turns[b]) ELSE turns[b]
    PROVE  TurnsByWalk'
<1>1. Counting \subseteq Tasks
    BY BranchesAreTasks
<1>. SUFFICES ASSUME NEW b \in Counting', NEW c \in Counting'
              PROVE  /\ (HadTurn(b)' <=> HadTurn(c)') => turns'[b] = turns'[c]
                     /\ HadTurn(b)' /\ ~ HadTurn(c)' => turns'[b] = NextTurn(b, turns'[c])
    BY DEF TurnsByWalk, NextTurn, Fuel
<1>2. b \in Tasks /\ c \in Tasks /\ b \in Counting /\ c \in Counting
    BY <1>1
<1>3. /\ (HadTurn(b) <=> HadTurn(c)) => turns[b] = turns[c]
      /\ HadTurn(b) /\ ~ HadTurn(c) => turns[b] = NextTurn(b, turns[c])
      /\ HadTurn(c) /\ ~ HadTurn(b) => turns[c] = NextTurn(c, turns[b])
    BY <1>2 DEF TurnInv, TurnsByWalk
<1>4. \A n : NextTurn(b, n) = NextTurn(c, n)
    BY <1>2, TasksCountAlike
<1>5. /\ HadTurn(b)' <=> HadTurn(b) \/ b = w
      /\ HadTurn(c)' <=> HadTurn(c) \/ c = w
      /\ turns'[b] = IF b = w /\ ~ HadTurn(b) THEN NextTurn(b, turns[b]) ELSE turns[b]
      /\ turns'[c] = IF c = w /\ ~ HadTurn(c) THEN NextTurn(c, turns[c]) ELSE turns[c]
    OBVIOUS
<1>6. CASE b = c
    BY <1>6
<1>7. CASE b # c /\ b = w
    BY <1>3, <1>4, <1>5, <1>7
<1>8. CASE b # c /\ c = w
    BY <1>3, <1>4, <1>5, <1>8
<1>9. CASE b # w /\ c # w
    BY <1>3, <1>5, <1>9
<1>. QED
    BY <1>6, <1>7, <1>8, <1>9


(* The outermost walk, when the statement's own is the only one.           *)
LEMMA OnlyWalk ==
    ASSUME WalkInv, Shallow, ticks # <<>>
    PROVE  Len(ticks) = 1 /\ Last(ticks) = ticks[1] /\ ticks[1].at \in 0 .. created
<1>1. ticks \in Seq(Walks) /\ Len(ticks) \in Nat /\ Len(ticks) # 0
    BY DEF WalkInv, TypeOK
<1>2. Len(ticks) = 1
    BY <1>1 DEF Shallow
<1>. QED
    BY <1>2, WalkTypes DEF Last

(* A task uses its turn: it yields, ends, or starts to wait in a join.  A  *)
(* task that waited in one had used it already.                            *)
LEMMA TaskUsesTurn ==
    ASSUME WalkInv, TurnInv, NEW w \in Tasks, Runs(w),
           UNCHANGED <<phase, cancelled>>,
           \A t \in Tasks \ {w} :
               gen'[t] = gen[t] /\ join'[t] = join[t] /\ turns'[t] = turns[t],
           join'[Main] = join[Main],
           turns'[w] = IF join[w] = NoJoin THEN NextTurn(w, turns[w]) ELSE turns[w],
           gen'[w] # "running" \/ join'[w] # NoJoin,
           gen'[w] # "closed" \/ w \in done',
           done \subseteq done', done' \subseteq done \cup {w},
           created' \in Nat, created <= created',
           ticks' # <<>>, Len(ticks') = Len(ticks), ticks'[1].at = ticks[1].at
    PROVE  TurnInv'
<1>1. /\ join[Main].branches \subseteq Tasks /\ Counting \subseteq Tasks
      /\ created \in Nat
    BY BranchesAreTasks
<1>2. /\ ticks \in Seq(Walks) /\ ticks # <<>> /\ ticks[Len(ticks)].at = w
      /\ w \in 1 .. created /\ gen[w] = "running"
    BY TaskHasControl DEF Running
<1>3. Counting' \subseteq Counting
    BY DEF Counting
<1>4. ASSUME Shallow
      PROVE  /\ ticks[1].at = w
             /\ \A b \in Tasks : HadTurn(b)' <=> HadTurn(b) \/ b = w
             /\ \A b \in Tasks :
                   turns'[b] = IF b = w /\ ~ HadTurn(b) THEN NextTurn(b, turns[b]) ELSE turns[b]
  <2>1. ticks[1].at = w /\ ticks'[1].at = w
    BY <1>2, <1>4, OnlyWalk
  <2>2. HadTurn(w) <=> join[w] # NoJoin
    BY <1>2, <2>1, SchedulerAssumption DEF HadTurn, Tasks
  <2>3. HadTurn(w)'
    BY <2>1 DEF HadTurn
  <2>4. ASSUME NEW b \in Tasks, b # w PROVE HadTurn(b)' <=> HadTurn(b)
    BY <1>2, <2>1, <2>4 DEF HadTurn
  <2>. QED
    BY <2>1, <2>2, <2>3, <2>4
<1>5. Shallow' <=> Shallow
    BY DEF Shallow
<1>6. TurnsByWalk'
  <2>1. CASE Shallow
    BY <1>1, <1>3, <1>4, <2>1, OneTurn
  <2>2. CASE ~ Shallow
    BY <1>5, <2>2 DEF TurnsByWalk
  <2>. QED
    BY <2>1, <2>2
<1>7. DonePassed'
  <2>. SUFFICES ASSUME Shallow, join[Main].kind = "race",
                       NEW b \in join[Main].branches \cap done'
                PROVE  b <= ticks[1].at
    BY <1>5 DEF DonePassed
  <2>1. CASE b \in done
    BY <1>2, <2>1 DEF TurnInv, DonePassed
  <2>2. CASE b = w
    BY <1>2, <1>4, <2>2, SchedulerAssumption DEF Tasks
  <2>. QED
    BY <2>1, <2>2
<1>8. MainWaits'
    BY DEF TurnInv, MainWaits
<1>9. BranchesAlive'
    BY <1>1 DEF TurnInv, BranchesAlive
<1>10. UnbornFresh'
  <2>. SUFFICES ASSUME NEW t \in Tasks, t > created'
                PROVE  gen'[t] = "suspended" /\ turns'[t] = 0
    BY DEF UnbornFresh
  <2>1. t > created /\ t # w
    BY <1>1, <1>2, SchedulerAssumption DEF Tasks
  <2>. QED
    BY <2>1 DEF TurnInv, UnbornFresh
<1>. QED
    BY <1>6, <1>7, <1>8, <1>9, <1>10 DEF TurnInv

(* The statement's frame waits in no join, before and after.               *)
LEMMA MainWaitsInNone ==
    ASSUME WalkInv, TurnInv, join'[Main] = NoJoin,
           \A t \in Tasks : turns'[t] = turns[t] /\ (t > created => gen'[t] = gen[t]),
           created' \in Nat, created <= created'
    PROVE  TurnInv'
<1>1. Counting' = {} /\ join'[Main].branches = {} /\ join'[Main].kind = "none"
    BY DEF Counting, NoJoin
<1>2. UnbornFresh'
    BY SchedulerAssumption DEF TurnInv, UnbornFresh, WalkInv, TypeOK, Tasks
<1>. QED
    BY <1>1, <1>2 DEF TurnInv, TurnsByWalk, DonePassed, MainWaits, BranchesAlive


----------------------------------------------------------------------------
(* One lemma per kind of step: it keeps the branches even.                 *)

LEMMA InitTurns == Init => TurnInv
BY SchedulerAssumption
   DEF Init, TurnInv, TurnsByWalk, DonePassed, MainWaits, BranchesAlive, UnbornFresh,
       Shallow, NoJoin, Actors, Tasks, Main

LEMMA CommandTurns ==
    ASSUME WalkInv, TurnInv, Statement \/ Reset \/ Exit
    PROVE  TurnInv'
<1>1. phase = "idle" /\ join'[Main] = NoJoin /\ UNCHANGED <<gen, created>>
    BY DEF Statement, Reset, Exit, TurnInv, MainWaits
<1>2. \A t \in Tasks : turns'[t] = turns[t] /\ gen'[t] = gen[t]
    BY <1>1, BranchesAreTasks DEF Statement, Reset, Exit, WalkInv, TypeOK
<1>. QED
    BY <1>1, <1>2, BranchesAreTasks, MainWaitsInNone

(* What a frame that has control leaves alone.                             *)
LEMMA OthersKeepTurns ==
    ASSUME WalkInv, NEW w \in Actors, Counted(w) \/ UNCHANGED turns
    PROVE  /\ \A t \in Tasks \ {w} : turns'[t] = turns[t]
           /\ Counted(w) => turns'[w] = NextTurn(w, turns[w])
BY DEF Counted, WalkInv, TypeOK, Actors

(* An instruction, a spawn, or the end of a join in a task.                *)
LEMMA TaskYields ==
    ASSUME WalkInv, TurnInv, NEW w \in Tasks, Runs(w), Yields(w),
           \/ join[w] = NoJoin /\ Counted(w) /\ UNCHANGED join
           \/ join[w] # NoJoin /\ UNCHANGED turns /\ join' = [join EXCEPT ![w] = NoJoin],
           created' \in Nat, created <= created',
           UNCHANGED <<phase, done, cancelled>>
    PROVE  TurnInv'
<1>1. w \in Actors /\ w # Main /\ Main \in Actors /\ Tasks \subseteq Actors
    BY BranchesAreTasks
<1>2. /\ gen' = [gen EXCEPT ![w] = "suspended"]
      /\ ticks' = [ticks EXCEPT ![Len(ticks)].still = @ \cup {w}]
    BY <1>1 DEF Yields
<1>3. /\ gen'[w] = "suspended" /\ \A t \in Tasks \ {w} : gen'[t] = gen[t]
    BY <1>2 DEF WalkInv, TypeOK
<1>4. ticks \in Seq(Walks) /\ ticks # <<>> /\ Len(ticks) \in Nat \ {0}
    BY TaskHasControl
<1>5. ticks' # <<>> /\ Len(ticks') = Len(ticks) /\ ticks'[1].at = ticks[1].at
  <2>1. /\ ticks' # <<>> /\ Len(ticks') = Len(ticks)
        /\ ticks'[Len(ticks)].at = ticks[Len(ticks)].at
        /\ \A i \in 1 .. Len(ticks) : i # Len(ticks) => ticks'[i] = ticks[i]
    BY <1>2, <1>4, KeepTop
  <2>2. 1 \in 1 .. Len(ticks)
    BY <1>4
  <2>. QED
    BY <2>1, <2>2
<1>6. join'[Main] = join[Main] /\ \A t \in Tasks \ {w} : join'[t] = join[t]
    BY <1>1 DEF WalkInv, TypeOK
<1>7. turns'[w] = IF join[w] = NoJoin THEN NextTurn(w, turns[w]) ELSE turns[w]
    BY <1>1, OthersKeepTurns
<1>8. \A t \in Tasks \ {w} : turns'[t] = turns[t]
    BY <1>1, OthersKeepTurns
<1>. QED
    BY <1>3, <1>5, <1>6, <1>7, <1>8, TaskUsesTurn

(* A return or an uncaught failure of a task, in a join or not.            *)
LEMMA TaskEnds ==
    ASSUME WalkInv, TurnInv, NEW w \in Tasks, Runs(w), Finishes(w) \/ Fails(w),
           \/ join[w] = NoJoin /\ Counted(w) /\ UNCHANGED join
           \/ join[w] # NoJoin /\ UNCHANGED turns /\ join' = [join EXCEPT ![w] = NoJoin],
           UNCHANGED <<created, cancelled, ticks>>
    PROVE  TurnInv'
<1>1. w \in Actors /\ w # Main /\ Main \in Actors /\ Tasks \subseteq Actors
    BY BranchesAreTasks
<1>2. gen' = [gen EXCEPT ![w] = "closed"] /\ done' = done \cup {w} /\ phase' = phase
    BY <1>1 DEF Finishes, Fails
<1>3. gen'[w] = "closed" /\ \A t \in Tasks \ {w} : gen'[t] = gen[t]
    BY <1>2 DEF WalkInv, TypeOK
<1>4. ticks # <<>>
    BY TaskHasControl
<1>5. join'[Main] = join[Main] /\ \A t \in Tasks \ {w} : join'[t] = join[t]
    BY <1>1 DEF WalkInv, TypeOK
<1>6. turns'[w] = IF join[w] = NoJoin THEN NextTurn(w, turns[w]) ELSE turns[w]
    BY <1>1, OthersKeepTurns
<1>7. \A t \in Tasks \ {w} : turns'[t] = turns[t]
    BY <1>1, OthersKeepTurns
<1>8. created' \in Nat /\ created <= created'
    BY BranchesAreTasks
<1>. QED
    BY <1>2, <1>3, <1>4, <1>5, <1>6, <1>7, <1>8, TaskUsesTurn

(* A task that starts to wait has used its turn, though it still runs.     *)
LEMMA TaskForks ==
    ASSUME WalkInv, TurnInv, NEW w \in Tasks, NEW kind \in {"sync", "race"}, NEW n \in JoinSizes,
           Fork(w, kind, n)
    PROVE  TurnInv'
<1>1. w \in Actors /\ w # Main /\ Main \in Actors /\ Tasks \subseteq Actors
    BY BranchesAreTasks
<1>2. Runs(w) /\ join[w] = NoJoin /\ Counted(w) /\ UNCHANGED <<phase, gen, done, cancelled, ticks>>
    BY DEF Fork, CanStep
<1>3. created' \in Nat /\ created <= created'
    BY SchedulerAssumption, BranchesAreTasks DEF Fork
<1>4. ticks # <<>> /\ gen[w] = "running"
    BY <1>2, TaskHasControl DEF Running
<1>5. /\ join'[Main] = join[Main] /\ \A t \in Tasks \ {w} : join'[t] = join[t]
      /\ join'[w] # NoJoin
    BY <1>1 DEF Fork, WalkInv, TypeOK, NoJoin
<1>6. turns'[w] = NextTurn(w, turns[w]) /\ \A t \in Tasks \ {w} : turns'[t] = turns[t]
    BY <1>1, <1>2, OthersKeepTurns
<1>. QED
    BY <1>2, <1>3, <1>4, <1>5, <1>6, TaskUsesTurn

(* The branches of a new join of the statement have not run.               *)
LEMMA MainForks ==
    ASSUME WalkInv, TurnInv, NEW kind \in {"sync", "race"}, NEW n \in JoinSizes, Fork(Main, kind, n)
    PROVE  TurnInv'
<1>. DEFINE new == created + 1 .. created + n
<1>1. /\ created \in Nat /\ n \in Nat /\ created' = created + n /\ created' <= MaxTasks
      /\ Main \in Actors /\ Main \notin Tasks
    BY SchedulerAssumption, BranchesAreTasks DEF Fork
<1>2. ticks' = <<>> /\ phase' = "statement"
    BY MainHasControl DEF Fork, CanStep
<1>3. UNCHANGED <<gen, done, cancelled>> /\ \A t \in Tasks : turns'[t] = turns[t]
    BY <1>1, OthersKeepTurns DEF Fork
<1>4. join'[Main].branches = new
    BY <1>1 DEF Fork, WalkInv, TypeOK
<1>5. \A b \in new : b \in Tasks /\ b > created
    BY <1>1, SchedulerAssumption DEF Tasks
<1>6. \A b \in new : gen[b] = "suspended" /\ turns[b] = 0
    BY <1>5 DEF TurnInv, UnbornFresh
<1>7. Counting' \subseteq new
    BY <1>4 DEF Counting
<1>8. new \cap cancelled = {}
    BY <1>1 DEF WalkInv, TypeOK
<1>. HIDE DEF new
<1>9. TurnsByWalk'
    BY <1>2, <1>3, <1>5, <1>6, <1>7 DEF TurnsByWalk, HadTurn
<1>10. BranchesAlive'
    BY <1>3, <1>4, <1>6, <1>8 DEF BranchesAlive
<1>11. UnbornFresh'
    BY <1>1, <1>3, SchedulerAssumption DEF TurnInv, UnbornFresh, Tasks
<1>. QED
    BY <1>2, <1>9, <1>10, <1>11 DEF TurnInv, DonePassed, MainWaits


(* The statement's frame goes on or ends: it waits in no join then.        *)
LEMMA MainStepTurns ==
    ASSUME WalkInv, TurnInv,
           \/ Instruction(Main) \/ Spawn(Main) \/ SyncEnd(Main) \/ RaceEnd(Main)
           \/ Return(Main) \/ Fail(Main)
    PROVE  TurnInv'
<1>1. Main \in Actors /\ Main \notin Tasks /\ created \in Nat
    BY BranchesAreTasks
<1>2. join'[Main] = NoJoin
    BY <1>1 DEF Instruction, Spawn, SyncEnd, RaceEnd, Return, Fail, CanStep, WalkInv, TypeOK
<1>3. UNCHANGED gen
    BY DEF Instruction, Spawn, SyncEnd, RaceEnd, Return, Fail, JoinOutcome, Resumes,
           Yields, Finishes, Fails
<1>4. Counted(Main) \/ UNCHANGED turns
    BY DEF Instruction, Spawn, SyncEnd, RaceEnd, Return, Fail
<1>5. \A t \in Tasks : turns'[t] = turns[t]
    BY <1>1, <1>4, OthersKeepTurns
<1>6. created' \in Nat /\ created <= created'
    BY <1>1 DEF Instruction, Spawn, SyncEnd, RaceEnd, Return, Fail
<1>. QED
    BY <1>2, <1>3, <1>5, <1>6, MainWaitsInNone

LEMMA RuntimeErrorTurns == ASSUME WalkInv, TurnInv, NEW w \in Actors, RuntimeError(w) PROVE TurnInv'
<1>1. Main \in Actors /\ created \in Nat
    BY BranchesAreTasks
<1>2. join'[Main] = NoJoin /\ UNCHANGED <<turns, created>>
    BY <1>1 DEF RuntimeError
<1>3. ASSUME NEW t \in Tasks, t > created PROVE gen'[t] = gen[t]
  <2>1. gen[t] = "suspended"
    BY <1>3 DEF TurnInv, UnbornFresh
  <2>. QED
    BY <2>1 DEF RuntimeError
<1>. QED
    BY <1>1, <1>2, <1>3, MainWaitsInNone

(* A walk starts: the statement's has passed nobody yet, another one makes *)
(* two.                                                                    *)
LEMMA JoinTickTurns == ASSUME WalkInv, TurnInv, NEW w \in Actors, JoinTick(w) PROVE TurnInv'
<1>1. /\ UNCHANGED <<phase, created, gen, done, cancelled, join, turns>>
      /\ ticks' = Append(ticks, NewWalk) /\ ticks \in Seq(Walks)
    BY DEF JoinTick, WalkInv, TypeOK
<1>2. /\ Len(ticks') = Len(ticks) + 1 /\ ticks' # <<>> /\ Len(ticks) \in Nat
      /\ ticks'[Len(ticks')].at = 0
    BY <1>1, PushWalk
<1>3. TurnsByWalk' /\ DonePassed'
  <2>1. CASE w = Main
    <3>1. ticks = <<>> /\ phase = "statement"
      BY <2>1, MainHasControl DEF JoinTick
    <3>2. Len(ticks') = 1 /\ ticks'[1].at = 0
      BY <1>2, <3>1
    <3>3. Shallow /\ Counting' = Counting /\ Counting \subseteq Tasks /\ Main \notin Counting
      BY <1>1, <3>1, BranchesAreTasks DEF Shallow, Counting
    <3>4. \A b \in Tasks : ~ HadTurn(b) /\ ~ HadTurn(b)'
      BY <3>1, <3>2, SchedulerAssumption DEF HadTurn, Tasks
    <3>5. \A b \in Counting' : HadTurn(b)' <=> HadTurn(b) \/ b = Main
      BY <3>3, <3>4
    <3>6. TurnsByWalk'
      BY <1>1, <3>3, <3>5, OneTurn
    <3>7. join[Main].kind = "race" => join[Main].branches \cap done = {}
      BY <2>1 DEF JoinTick, Satisfied
    <3>8. DonePassed'
      BY <1>1, <3>7 DEF DonePassed
    <3>. QED
      BY <3>6, <3>8
  <2>2. CASE w \in Tasks
    <3>1. ticks # <<>>
      BY <2>2, TaskHasControl DEF JoinTick
    <3>2. ~ Shallow'
      BY <1>1, <1>2, <3>1 DEF Shallow
    <3>. QED
      BY <3>2 DEF TurnsByWalk, DonePassed
  <2>. QED
    BY <2>1, <2>2 DEF Actors
<1>4. MainWaits' /\ BranchesAlive' /\ UnbornFresh'
    BY <1>1 DEF TurnInv, MainWaits, BranchesAlive, UnbornFresh
<1>. QED
    BY <1>3, <1>4 DEF TurnInv

(* The outermost walk comes to its next element: all that count before it  *)
(* have been passed.                                                       *)
LEMMA VisitTurns ==
    ASSUME WalkInv, TurnInv, NEW t \in Tasks, Visits(t), gen[t] # "running",
           ticks' = [ticks EXCEPT ![Len(ticks)].at = t],
           UNCHANGED <<phase, created, cancelled, join, turns>>,
           \A u \in Tasks \ {t} : gen'[u] = gen[u],
           \/ gen[t] # "closed" /\ gen'[t] = "running" /\ done' = done
           \/ gen[t] = "closed" /\ gen'[t] = gen[t] /\ done' = done \cup {t}
    PROVE  TurnInv'
<1>1. /\ ticks \in Seq(Walks) /\ ticks # <<>> /\ Len(ticks) \in Nat \ {0}
      /\ ticks[Len(ticks)].at \notin Running
    BY WalkHasControl DEF Visits
<1>2. /\ t \in sched \ done /\ t > Last(ticks).at
      /\ \A u \in sched \ done : u > Last(ticks).at => t <= u
    BY DEF Visits, Pending
<1>3. /\ ticks' # <<>> /\ Len(ticks') = Len(ticks) /\ ticks'[Len(ticks)].at = t
    BY <1>1, MoveTop DEF Actors
<1>4. /\ join[Main].branches \subseteq Tasks /\ Counting \subseteq Tasks /\ created \in Nat
      /\ join[Main].branches \subseteq 1 .. created
    BY BranchesAreTasks
<1>5. t \in 1 .. created
    BY <1>2 DEF WalkInv, TypeOK
<1>6. Shallow' <=> Shallow
    BY <1>3 DEF Shallow
<1>7. t \in join[Main].branches => gen[t] # "closed"
    BY <1>2 DEF TurnInv, BranchesAlive
<1>8. Counting' = Counting
    BY <1>7 DEF Counting
<1>9. ASSUME Shallow, NEW b \in Counting PROVE HadTurn(b)' <=> HadTurn(b)
  <2>1. /\ Len(ticks) = 1 /\ Last(ticks) = ticks[1] /\ ticks[1].at \in 0 .. created
        /\ ticks'[1].at = t
    BY <1>1, <1>3, <1>9, OnlyWalk
  <2>2. b \in Tasks /\ b \in join[Main].branches /\ b \in 1 .. created
    BY <1>4, <1>9 DEF Counting
  <2>3. HadTurn(b) <=> b <= ticks[1].at
    <3>1. b = ticks[1].at => gen[b] # "running"
      BY <1>1, <2>1, <2>2 DEF Running
    <3>. QED
      BY <1>1, <2>1, <2>2, <3>1 DEF HadTurn
  <2>4. HadTurn(b)' <=> b < t
    <3>1. join[t] = NoJoin
      BY DEF WalkInv, TaskJoinsFresh
    <3>2. b = t => gen'[b] = "running"
      BY <1>7, <2>2
    <3>. QED
      BY <1>3, <2>1, <3>1, <3>2 DEF HadTurn
  <2>5. b < t <=> b <= ticks[1].at
    <3>1. b <= ticks[1].at => b < t
      BY <1>2, <1>5, <2>1, <2>2
    <3>2. CASE b \in done
      <4>1. join[Main].kind = "race"
        BY <1>9, <3>2 DEF Counting
      <4>2. b <= ticks[1].at
        BY <1>1, <1>9, <2>2, <3>2, <4>1 DEF TurnInv, DonePassed
      <4>. QED
        BY <3>1, <4>2
    <3>3. CASE b \notin done
      <4>1. b \in sched
        BY <2>2, <3>3 DEF WalkInv, NoTaskLost, TurnInv, BranchesAlive
      <4>. QED
        BY <1>2, <1>5, <2>1, <2>2, <3>1, <3>3, <4>1
    <3>. QED
      BY <3>2, <3>3
  <2>. QED
    BY <2>3, <2>4, <2>5
<1>10. TurnsByWalk'
  <2>1. CASE Shallow
    <3>1. Main \notin Counting
      BY BranchesAreTasks
    <3>2. \A b \in Counting' : HadTurn(b)' <=> HadTurn(b) \/ b = Main
      BY <1>8, <1>9, <2>1, <3>1
    <3>3. \A b \in Counting' :
              turns'[b] = IF b = Main /\ ~ HadTurn(b) THEN NextTurn(b, turns[b]) ELSE turns[b]
      BY <1>8, <3>1
    <3>. QED
      BY <1>8, <2>1, <3>2, <3>3, OneTurn
  <2>2. CASE ~ Shallow
    BY <1>6, <2>2 DEF TurnsByWalk
  <2>. QED
    BY <2>1, <2>2
<1>11. DonePassed'
  <2>. SUFFICES ASSUME Shallow, join[Main].kind = "race",
                       NEW b \in join[Main].branches \cap done'
                PROVE  b <= ticks'[1].at
    BY <1>6 DEF DonePassed
  <2>1. Last(ticks) = ticks[1] /\ ticks[1].at \in 0 .. created /\ ticks'[1].at = t
    BY <1>1, <1>3, OnlyWalk
  <2>2. b \in done
    BY <1>7
  <2>3. b <= ticks[1].at
    BY <1>1, <2>2 DEF TurnInv, DonePassed
  <2>. QED
    BY <1>2, <1>4, <1>5, <2>1, <2>3
<1>12. BranchesAlive'
    BY <1>4, <1>7 DEF TurnInv, BranchesAlive
<1>13. MainWaits' /\ UnbornFresh'
    BY <1>4, <1>5 DEF TurnInv, MainWaits, UnbornFresh
<1>. QED
    BY <1>10, <1>11, <1>12, <1>13 DEF TurnInv


(* The outermost walk ends: it has passed everybody that counts.           *)
LEMMA TickEndTurns == ASSUME WalkInv, TurnInv, TickEnd PROVE TurnInv'
<1>1. /\ UNCHANGED <<phase, created, gen, done, cancelled, join, turns>>
      /\ Len(ticks) = 1 /\ ticks' = <<>> /\ Running = {} /\ Pending = {}
    BY EndOfWalk DEF TickEnd
<1>2. ticks # <<>> /\ ticks \in Seq(Walks)
    BY <1>1 DEF TickEnd, BetweenElements, WalkInv, TypeOK
<1>3. Counting' = Counting
    BY <1>1 DEF Counting
<1>4. ASSUME Shallow, NEW b \in Counting PROVE HadTurn(b)
  <2>1. Last(ticks) = ticks[1] /\ ticks[1].at \in 0 .. created
    BY <1>2, <1>4, OnlyWalk
  <2>2. /\ b \in Tasks /\ b \in join[Main].branches /\ b \in 1 .. created
        /\ created \in Nat
    BY <1>4, BranchesAreTasks DEF Counting
  <2>3. b <= ticks[1].at
    <3>1. CASE b \in done
      BY <1>2, <1>4, <2>2, <3>1 DEF Counting, TurnInv, DonePassed
    <3>2. CASE b \notin done
      <4>1. b \in sched
        BY <2>2, <3>2 DEF WalkInv, NoTaskLost, TurnInv, BranchesAlive
      <4>. QED
        BY <1>1, <2>1, <2>2, <3>2, <4>1 DEF Pending
    <3>. QED
      BY <3>1, <3>2
  <2>4. gen[b] # "running"
    BY <1>1, <2>2 DEF Running
  <2>. QED
    BY <1>2, <2>1, <2>2, <2>3, <2>4 DEF HadTurn
<1>5. TurnsByWalk'
  <2>. SUFFICES ASSUME Shallow', NEW b \in Counting, NEW c \in Counting
                PROVE  turns[b] = turns[c]
    BY <1>1, <1>3 DEF TurnsByWalk, HadTurn
  <2>1. Shallow
    BY <1>1 DEF Shallow
  <2>. QED
    BY <1>4, <2>1 DEF TurnInv, TurnsByWalk
<1>. QED
    BY <1>1, <1>5 DEF TurnInv, DonePassed, MainWaits, BranchesAlive, UnbornFresh

(* Only a statement has joins: what the drain does cannot unsettle them.   *)
LEMMA HostTurns ==
    ASSUME WalkInv, TurnInv, DrainTick \/ DrainEnd \/ (\E t \in Tasks : Reenter(t)) \/ UNCHANGED vars
    PROVE  TurnInv'
<1>1. CASE UNCHANGED vars
    BY <1>1
       DEF vars, TurnInv, TurnsByWalk, DonePassed, MainWaits, BranchesAlive, UnbornFresh,
           Shallow, Counting, HadTurn
<1>2. CASE DrainTick \/ DrainEnd \/ \E t \in Tasks : Reenter(t)
  <2>1. UNCHANGED <<created, gen, done, cancelled, join, turns>>
    BY <1>2 DEF DrainTick, DrainEnd, Reenter
  <2>2. ~ Shallow'
    BY <1>2 DEF Shallow, DrainTick, DrainEnd, Reenter
  <2>3. MainWaits'
    BY <1>2, <2>1 DEF TurnInv, MainWaits, DrainTick, DrainEnd, Reenter
  <2>. QED
    BY <2>1, <2>2, <2>3
       DEF TurnInv, TurnsByWalk, DonePassed, BranchesAlive, UnbornFresh
<1>. QED
    BY <1>1, <1>2

LEMMA TaskStepTurns == ASSUME WalkInv, TurnInv, NEW w \in Tasks, FrameStep(w) PROVE TurnInv'
<1>1. w \in Actors /\ created \in Nat /\ w # Main
    BY BranchesAreTasks
<1>2. CASE Instruction(w)
    BY <1>1, <1>2, TaskYields DEF Instruction, CanStep
<1>3. CASE Spawn(w)
    BY <1>1, <1>3, TaskYields DEF Spawn, CanStep
<1>4. ASSUME NEW n \in JoinSizes, NEW kind \in {"sync", "race"}, Fork(w, kind, n)
      PROVE  TurnInv'
    BY <1>4, TaskForks
<1>5. CASE JoinTick(w) \/ RuntimeError(w)
    BY <1>1, <1>5, JoinTickTurns, RuntimeErrorTurns
<1>6. CASE SyncEnd(w)
  <2>1. /\ Runs(w) /\ join[w] # NoJoin /\ UNCHANGED <<turns, created, cancelled>>
        /\ join' = [join EXCEPT ![w] = NoJoin]
        /\ created' \in Nat /\ created <= created'
    BY <1>1, <1>6 DEF SyncEnd, NoJoin
  <2>2. CASE Resumes(w)
    BY <1>1, <2>1, <2>2, TaskYields DEF Resumes
  <2>3. CASE Fails(w) /\ UNCHANGED ticks
    BY <2>1, <2>3, TaskEnds
  <2>. QED
    BY <1>6, <2>2, <2>3 DEF SyncEnd, JoinOutcome
<1>7. CASE RaceEnd(w)
    BY <1>1, <1>7, RaceEndIsMain
<1>8. CASE Return(w) \/ Fail(w)
    BY <1>8, TaskEnds DEF Return, Fail
<1>. QED
    BY <1>2, <1>3, <1>4, <1>5, <1>6, <1>7, <1>8 DEF FrameStep

LEMMA MainFrameTurns == ASSUME WalkInv, TurnInv, FrameStep(Main) PROVE TurnInv'
<1>1. Main \in Actors
    BY BranchesAreTasks
<1>2. ASSUME NEW n \in JoinSizes, NEW kind \in {"sync", "race"}, Fork(Main, kind, n)
      PROVE  TurnInv'
    BY <1>2, MainForks
<1>3. CASE JoinTick(Main) \/ RuntimeError(Main)
    BY <1>1, <1>3, JoinTickTurns, RuntimeErrorTurns
<1>. QED
    BY <1>2, <1>3, MainStepTurns DEF FrameStep

LEMMA GiveTurnTurns == ASSUME WalkInv, TurnInv, NEW t \in Tasks, GiveTurn(t) PROVE TurnInv'
<1>1. gen'[t] = "running" /\ \A u \in Tasks \ {t} : gen'[u] = gen[u]
    BY DEF GiveTurn, WalkInv, TypeOK
<1>. QED
    BY <1>1, VisitTurns DEF GiveTurn

LEMMA NextTurns == WalkInv /\ TurnInv /\ [Next]_vars => TurnInv'
<1>. SUFFICES ASSUME WalkInv, TurnInv, [Next]_vars PROVE TurnInv'
    OBVIOUS
<1>1. ASSUME NEW w \in Actors, FrameStep(w) PROVE TurnInv'
    BY <1>1, TaskStepTurns, MainFrameTurns DEF Actors
<1>2. CASE WalkStep
  <2>1. ASSUME NEW t \in Tasks, CollectClosed(t) PROVE TurnInv'
    BY <2>1, VisitTurns DEF CollectClosed
  <2>. QED
    BY <1>2, <2>1, GiveTurnTurns, TickEndTurns, HostTurns DEF WalkStep
<1>. QED
    BY <1>1, <1>2, CommandTurns, HostTurns DEF Next, MachineStep, Ended

(* The whole inductive invariant holds in every reachable state.           *)
THEOREM Invariance == Spec => []IInv
<1>1. Init => TurnInv
    BY InitTurns
<1>2. WalkInv /\ TurnInv /\ [Next]_vars => TurnInv'
    BY NextTurns
<1>. QED
    BY <1>1, <1>2, WalkInvariance, PTL DEF Spec, IInv

----------------------------------------------------------------------------
(* What follows for the branches.                                          *)

(* Two branches that are alive while the statement waits for them have had *)
(* the same number of turns, but for the one by which the earlier branch   *)
(* is ahead within a walk: however many branches there are, whatever they  *)
(* do, spawn or wait for, and whoever loops.                               *)
THEOREM RoundRobinHolds == Spec => []RoundRobin
<1>1. WalkInv /\ TurnInv => RoundRobin
  <2>. SUFFICES ASSUME WalkInv, TurnInv, Shallow,
                       NEW b \in join[Main].branches \ done,
                       NEW c \in join[Main].branches \ done, b < c
                PROVE  turns[b] \in {turns[c], NextTurn(b, turns[c])}
    BY DEF RoundRobin, Shallow
  <2>1. b \in Counting /\ c \in Counting
    BY DEF Counting
  <2>2. b \in Nat /\ c \in Nat
    BY <2>1, BranchesAreTasks DEF Tasks
  <2>3. HadTurn(c) => HadTurn(b)
    <3>1. CASE ticks = <<>>
      BY <3>1 DEF HadTurn
    <3>2. CASE ticks # <<>>
      <4>1. ticks[1].at \in 0 .. created /\ created \in Nat
        BY <3>2, OnlyWalk, BranchesAreTasks
      <4>. QED
        BY <2>2, <4>1 DEF HadTurn
    <3>. QED
      BY <3>1, <3>2
  <2>. QED
    BY <2>1, <2>3 DEF TurnInv, TurnsByWalk
<1>. QED
    BY <1>1, Invariance, PTL DEF IInv

(* When a race is decided every branch, the winner and the losers, has had *)
(* exactly as many turns as every other.                                   *)
THEOREM RaceIsEvenHolds == Spec => []RaceIsEven
<1>1. WalkInv /\ TurnInv => RaceIsEven
  <2>. SUFFICES ASSUME WalkInv, TurnInv, Runs(Main), join[Main].kind = "race",
                       NEW b \in join[Main].branches, NEW c \in join[Main].branches
                PROVE  turns[b] = turns[c]
    BY DEF RaceIsEven
  <2>1. ticks = <<>> /\ phase = "statement"
    BY MainHasControl
  <2>2. Shallow /\ b \in Counting /\ c \in Counting
    BY <2>1 DEF Shallow, Counting
  <2>. QED
    BY <2>1, <2>2 DEF TurnInv, TurnsByWalk, HadTurn
<1>. QED
    BY <1>1, Invariance, PTL DEF IInv
=============================================================================

------------------------ MODULE SchedulerRefinement ------------------------
(***************************************************************************)
(* The scheduler implements StructuredConcurrency, for every value of the  *)
(* constants: each of its steps is a step of the promise or changes        *)
(* nothing the promise speaks of.                                          *)
(***************************************************************************)
EXTENDS SchedulerProofs, WellFoundedInduction

LEMMA LeastExists ==
    ASSUME NEW S \in SUBSET Nat, S # {}
    PROVE  \E m \in S : \A n \in S : m <= n
<1>. DEFINE R == OpToRel(<, Nat)
<1>1. \A m, n \in Nat : m < n => <<m, n>> \in R
    BY DEF OpToRel
<1>2. IsWellFoundedOn(R, Nat)
    BY NatLessThanWellFounded
<1>. HIDE DEF R
<1>3. PICK m \in S : \A n \in S : ~ (<<n, m>> \in R)
    BY <1>2, WFMin
<1>4. \A n \in S : ~ (n < m)
    BY <1>1, <1>3
<1>5. \A n \in S : m <= n
    BY <1>4
<1>. QED
    BY <1>5

(* The winner of a decided race is one of its finished branches.           *)
LEMMA WinnerIsDone ==
    ASSUME WalkInv, NEW w \in Actors, join[w].branches \cap done # {}
    PROVE  Winner(join[w]) \in join[w].branches \cap done
<1>. DEFINE S == join[w].branches \cap done
<1>1. S \subseteq Nat
  <2>1. done \subseteq Nat
    BY SchedulerAssumption DEF WalkInv, TypeOK
  <2>. QED
    BY <2>1
<1>2. \E b \in S : \A c \in S : b <= c
    BY <1>1, LeastExists
<1>3. Winner(join[w]) = CHOOSE b \in S : \A c \in S : b <= c
    BY DEF Winner
<1>. HIDE DEF S
<1>4. Winner(join[w]) \in S
    BY <1>2, <1>3
<1>. QED
    BY <1>4 DEF S

----------------------------------------------------------------------------
(* The mapped state.                                                       *)

(* A born task is in exactly one state, read off done, failed, cancelled   *)
(* and its generator.                                                      *)
LEMMA FateValues ==
    ASSUME WalkInv, NEW t \in Tasks
    PROVE  /\ Fate[t] = Status(t)
           /\ t > created <=> Fate[t] = "unborn"
           /\ t \in cancelled <=> Fate[t] = "cancelled"
           /\ t \in failed <=> Fate[t] = "failed"
           /\ t \in done \ failed <=> Fate[t] = "finished"
           /\ t <= created /\ t \notin done \cup cancelled /\ gen[t] = "closed"
                  <=> Fate[t] = "broken"
           /\ t <= created /\ t \notin done \cup cancelled /\ gen[t] # "closed"
                  <=> Fate[t] = "live"
<1>1. /\ created \in Nat /\ t \in Nat /\ t >= 1 /\ failed \subseteq done
      /\ cancelled \cap done = {}
      /\ t \in done => t <= created
      /\ t \in cancelled => t <= created
    BY SchedulerAssumption DEF WalkInv, TypeOK, Tasks
<1>2. Fate[t] = Status(t)
    BY DEF Fate
<1>3. CASE t > created
    BY <1>1, <1>2, <1>3 DEF Status
<1>4. CASE t <= created
    BY <1>1, <1>2, <1>4 DEF Status
<1>. QED
    BY <1>1, <1>3, <1>4

(* A step that changes nobody's fate.                                      *)
LEMMA FateSame ==
    ASSUME UNCHANGED <<created, cancelled, failed, done>>,
           \A t \in Tasks : gen'[t] = "closed" <=> gen[t] = "closed"
    PROVE  Fate' = Fate
<1>1. \A t \in Tasks : Status(t)' = Status(t)
    BY DEF Status
<1>. QED
    BY <1>1 DEF Fate

(* A step that gives the tasks of S the fate s and leaves the others theirs. *)
LEMMA FateBecomes ==
    ASSUME NEW S, NEW s,
           \A t \in Tasks : Status(t)' = IF t \in S THEN s ELSE Status(t)
    PROVE  Abstract!Becomes(S, s)
BY DEF Abstract!Becomes, Fate

----------------------------------------------------------------------------
(* What the refinement needs: the walks, and that a task not yet created   *)
(* has a fresh generator.                                                  *)
RInv == WalkInv /\ UnbornFresh

LEMMA RInvariance == Spec => []RInv
<1>1. IInv => RInv
    BY DEF IInv, TurnInv, RInv
<1>. QED
    BY <1>1, Invariance, PTL

----------------------------------------------------------------------------
(* One lemma per kind of step.                                             *)

AStep == [Abstract!Next]_(Abstract!avars)

(* Steps that change only what the promise does not speak of.              *)
LEMMA StutterStep ==
    ASSUME UNCHANGED <<phase, created, cancelled, failed, done>>,
           join'[Main] = join[Main],
           \A t \in Tasks : gen'[t] = "closed" <=> gen[t] = "closed"
    PROVE  AStep
<1>1. Fate' = Fate
    BY FateSame
<1>. QED
    BY <1>1 DEF AStep, Abstract!avars

(* A frame that yields or waits closes no generator.                       *)
LEMMA YieldsOpen ==
    ASSUME WalkInv, NEW w \in Actors, Runs(w), Yields(w)
    PROVE  \A t \in Tasks : gen'[t] = "closed" <=> gen[t] = "closed"
<1>1. CASE w = Main
    BY <1>1 DEF Yields
<1>2. CASE w \in Tasks
  <2>1. gen[w] = "running"
    BY <1>2, TaskHasControl DEF Running
  <2>2. gen' = [gen EXCEPT ![w] = "suspended"]
    BY <1>2, SchedulerAssumption DEF Yields, Tasks, Main
  <2>. QED
    BY <2>1, <2>2 DEF WalkInv, TypeOK
<1>. QED
    BY <1>1, <1>2 DEF Actors

(* Whoever has control, the promise lets tasks run: the statement waits in *)
(* a join, or the host drains.                                             *)
LEMMA MayRun ==
    ASSUME WalkInv, ticks # <<>>, phase \in {"statement", "drain"}
    PROVE  Abstract!TasksMayRun
BY DEF WalkInv, StackOwned, Abstract!TasksMayRun

(* The statement or a task creates the tasks from created + 1 to m.        *)
LEMMA CreateStep ==
    ASSUME RInv, NEW m \in created .. MaxTasks, created' = m,
           UNCHANGED <<cancelled, failed, done>>,
           \A t \in Tasks : gen'[t] = "closed" <=> gen[t] = "closed"
    PROVE  /\ created + 1 .. m \subseteq Abstract!Unborn
           /\ Abstract!Becomes(created + 1 .. m, "live")
<1>1. created \in Nat /\ m \in Nat /\ MaxTasks \in Nat
    BY SchedulerAssumption DEF RInv, WalkInv, TypeOK
<1>2. \A t \in created + 1 .. m : t \in Tasks /\ t > created
    BY <1>1 DEF Tasks
<1>3. created + 1 .. m \subseteq Abstract!Unborn
    BY <1>2, FateValues DEF RInv, Abstract!Unborn
<1>4. ASSUME NEW t \in Tasks
      PROVE  Status(t)' = IF t \in created + 1 .. m THEN "live" ELSE Status(t)
  <2>0. t \in Nat
    BY DEF Tasks
  <2>1. CASE t \in created + 1 .. m
    <3>1. ~ (t > created') /\ t > created
      BY <1>1, <2>0, <2>1
    <3>2. t \notin cancelled /\ t \notin failed /\ t \notin done
      BY <1>1, <2>1, <3>1 DEF RInv, WalkInv, TypeOK
    <3>3. gen'[t] # "closed"
      BY <3>1 DEF RInv, UnbornFresh
    <3>. QED
      BY <2>1, <3>1, <3>2, <3>3 DEF Status
  <2>2. CASE t \notin created + 1 .. m
    <3>1. t > created' <=> t > created
      BY <1>1, <2>0, <2>2
    <3>. QED
      BY <2>2, <3>1 DEF Status
  <2>. QED
    BY <2>1, <2>2
<1>. QED
    BY <1>3, <1>4, FateBecomes

LEMMA SpawnStep ==
    ASSUME RInv, NEW w \in Actors, Spawn(w)
    PROVE  AStep
<1>1. created + 1 \in created .. MaxTasks /\ created + 1 .. created + 1 = {created + 1}
    BY SchedulerAssumption DEF Spawn, RInv, WalkInv, TypeOK
<1>2. \A t \in Tasks : gen'[t] = "closed" <=> gen[t] = "closed"
    BY YieldsOpen DEF Spawn, CanStep, RInv
<1>3. /\ {created + 1} \subseteq Abstract!Unborn
      /\ Abstract!Becomes({created + 1}, "live")
    BY <1>1, <1>2, CreateStep DEF Spawn
<1>4. phase \in {"statement", "drain"} /\ UNCHANGED <<phase, join>>
    BY DEF Spawn, CanStep, Runs
<1>5. {created + 1} \in SUBSET Tasks
    BY <1>3 DEF Abstract!Unborn
<1>6. Abstract!Create({created + 1})
    BY <1>3, <1>4 DEF Abstract!Create
<1>. QED
    BY <1>5, <1>6 DEF AStep, Abstract!Next

LEMMA ForkStep ==
    ASSUME RInv, NEW w \in Actors, NEW k \in {"sync", "race"}, NEW n \in JoinSizes,
           Fork(w, k, n)
    PROVE  AStep
<1>. DEFINE S == created + 1 .. created + n
<1>1. created + n \in created .. MaxTasks
    BY SchedulerAssumption DEF Fork, RInv, WalkInv, TypeOK
<1>2. S \subseteq Abstract!Unborn /\ Abstract!Becomes(S, "live")
    BY <1>1, CreateStep DEF Fork
<1>3. S \in SUBSET Tasks
    BY <1>2 DEF Abstract!Unborn
<1>4. phase \in {"statement", "drain"} /\ phase' = phase /\ join[w] = NoJoin
      /\ join' = [join EXCEPT ![w] = [kind |-> k, branches |-> S]]
    BY DEF Fork, CanStep, Runs
<1>. HIDE DEF S
<1>5. join \in [Actors -> Joins] /\ Main \in Actors
    BY DEF RInv, WalkInv, TypeOK, Actors
<1>6. CASE w = Main
  <2>1. phase = "statement"
    BY <1>6 DEF Fork, CanStep, Runs
  <2>2. Abstract!Open(k, S)
    BY <1>2, <1>4, <1>5, <1>6, <2>1 DEF Abstract!Open, Abstract!None, NoJoin
  <2>. QED
    BY <1>3, <2>2 DEF AStep, Abstract!Next
<1>7. CASE w # Main
  <2>1. join'[Main] = join[Main]
    BY <1>4, <1>5, <1>7
  <2>2. Abstract!Create(S)
    BY <1>2, <1>4, <2>1 DEF Abstract!Create
  <2>. QED
    BY <1>3, <2>2 DEF AStep, Abstract!Next
<1>. QED
    BY <1>6, <1>7

(* A frame that returns or fails: the statement is drained or given up, a  *)
(* task is complete.                                                       *)
LEMMA TaskEndStep ==
    ASSUME RInv, NEW w \in Tasks, Runs(w), Finishes(w) \/ Fails(w),
           UNCHANGED <<created, cancelled>>, join'[Main] = join[Main]
    PROVE  AStep
<1>1. w # Main /\ w \in Running /\ w \in sched /\ w \notin done /\ w \in 1 .. created
      /\ ticks # <<>>
    BY TaskHasControl, SchedulerAssumption DEF Tasks, Main, RInv
<1>2. phase \in {"statement", "drain"} /\ phase' = phase
    BY <1>1 DEF Runs, Finishes, Fails
<1>3. w \notin cancelled /\ w <= created /\ gen[w] = "running"
      /\ gen \in [Tasks -> {"suspended", "running", "closed"}]
    BY <1>1 DEF RInv, WalkInv, TypeOK, CancelledUnscheduled, Running
<1>4. w \in Abstract!Live
    BY <1>1, <1>3, FateValues DEF RInv, Abstract!Live
<1>5. gen' = [gen EXCEPT ![w] = "closed"] /\ done' = done \cup {w}
      /\ (failed' = failed \/ failed' = failed \cup {w})
    BY <1>1 DEF Finishes, Fails
<1>6. w \notin failed
    BY <1>1 DEF RInv, WalkInv, TypeOK
<1>7. w \in Nat /\ created \in Nat
    BY <1>1, SchedulerAssumption DEF RInv, WalkInv, TypeOK
<1>8. ASSUME NEW t \in Tasks, t # w PROVE Status(t)' = Status(t)
    BY <1>3, <1>5, <1>8 DEF Status
<1>9. Status(w)' = IF failed' = failed THEN "finished" ELSE "failed"
    BY <1>3, <1>5, <1>6, <1>7 DEF Status
<1>10. Abstract!Becomes({w}, "finished") \/ Abstract!Becomes({w}, "failed")
  <2>1. CASE failed' = failed
    BY <2>1, <1>8, <1>9, FateBecomes
  <2>2. CASE failed' # failed
    BY <2>2, <1>8, <1>9, FateBecomes
  <2>. QED
    BY <2>1, <2>2
<1>11. Abstract!TasksMayRun
    BY <1>1, <1>2, MayRun DEF RInv
<1>12. Abstract!Complete(w)
    BY <1>2, <1>4, <1>10, <1>11 DEF Abstract!Complete
<1>. QED
    BY <1>12 DEF AStep, Abstract!Next

LEMMA ReturnFailStep ==
    ASSUME RInv, NEW w \in Actors, Return(w) \/ Fail(w)
    PROVE  AStep
<1>1. CASE w = Main
  <2>1. phase = "statement" /\ join[Main] = NoJoin /\ UNCHANGED join
        /\ UNCHANGED <<created, cancelled, failed, done, gen>>
        /\ (phase' = "drain" \/ phase' = "idle")
    BY <1>1 DEF Return, Fail, Runs, Finishes, Fails
  <2>2. Fate' = Fate
    BY <2>1, FateSame
  <2>3. Abstract!Return \/ Abstract!Fail
    BY <2>1, <2>2 DEF Abstract!Return, Abstract!Fail, Abstract!None, NoJoin
  <2>. QED
    BY <2>3 DEF AStep, Abstract!Next
<1>2. CASE w \in Tasks
    BY <1>2, TaskEndStep DEF Return, Fail
<1>. QED
    BY <1>1, <1>2 DEF Actors

LEMMA SyncEndStep ==
    ASSUME RInv, NEW w \in Actors, SyncEnd(w)
    PROVE  AStep
<1>1. /\ Runs(w) /\ join[w].kind = "sync" /\ join[w].branches \subseteq done
      /\ JoinOutcome(w, join[w].branches \cap failed # {})
      /\ join' = [join EXCEPT ![w] = NoJoin] /\ UNCHANGED <<created, cancelled>>
    BY DEF SyncEnd, Satisfied
<1>2. join \in [Actors -> Joins] /\ Main \in Actors /\ failed \subseteq done
    BY DEF RInv, WalkInv, TypeOK, Actors
<1>3. CASE w = Main
  <2>1. /\ phase = "statement" /\ join'[Main] = NoJoin
        /\ UNCHANGED <<created, cancelled, failed, done, gen>>
        /\ \/ phase' = "statement"
           \/ join[Main].branches \cap failed # {} /\ phase' = "idle"
    BY <1>1, <1>2, <1>3 DEF JoinOutcome, Resumes, Yields, Fails, Runs
  <2>2. Fate' = Fate
    BY <2>1, FateSame
  <2>3. \A t \in join[Main].branches :
            t \in Tasks /\ t \in Abstract!Ended /\ (t \in failed <=> Fate[t] = "failed")
    <3>1. join[Main].branches \subseteq Tasks
      BY <1>2 DEF Joins
    <3>. QED
      BY <3>1, <1>1, <1>3, FateValues DEF RInv, Abstract!Ended
  <2>4. Abstract!GoesOn(\E t \in join[Main].branches : Fate[t] = "failed")
    <3>1. CASE phase' = "statement"
      BY <3>1, <2>1 DEF Abstract!GoesOn, Abstract!None, NoJoin
    <3>2. CASE join[Main].branches \cap failed # {} /\ phase' = "idle"
      BY <3>2, <2>1, <2>3 DEF Abstract!GoesOn, Abstract!None, NoJoin
    <3>. QED
      BY <2>1, <3>1, <3>2
  <2>5. Abstract!CloseSync
    BY <1>1, <1>3, <2>1, <2>2, <2>3, <2>4 DEF Abstract!CloseSync
  <2>. QED
    BY <2>5 DEF AStep, Abstract!Next
<1>4. CASE w \in Tasks
  <2>1. join[w].branches = {}
    BY <1>1, <1>4 DEF RInv, WalkInv, TaskJoinsFresh
  <2>2. Resumes(w)
    BY <1>1, <2>1 DEF JoinOutcome
  <2>3. \A t \in Tasks : gen'[t] = "closed" <=> gen[t] = "closed"
    BY <1>1, <2>2, YieldsOpen DEF RInv, Resumes
  <2>4. join'[Main] = join[Main]
    BY <1>1, <1>2, <1>4, SchedulerAssumption DEF Tasks, Main
  <2>. QED
    BY <1>1, <2>2, <2>3, <2>4, StutterStep DEF Resumes
<1>. QED
    BY <1>3, <1>4 DEF Actors

LEMMA RaceEndStep ==
    ASSUME RInv, NEW w \in Actors, RaceEnd(w)
    PROVE  AStep
<1>1. w = Main
    BY RaceEndIsMain DEF RInv
<1>. DEFINE j == join[Main]
<1>2. /\ phase = "statement" /\ j.kind = "race" /\ j.branches \cap done # {}
      /\ cancelled' = cancelled \cup (Losers(j) \ done)
      /\ join' = [join EXCEPT ![Main] = NoJoin]
      /\ UNCHANGED <<created, failed, done, gen>>
      /\ \/ phase' = "statement"
         \/ Winner(j) \in failed /\ phase' = "idle"
    BY <1>1 DEF RaceEnd, Satisfied, JoinOutcome, Resumes, Yields, Fails, Runs
<1>3. join \in [Actors -> Joins] /\ Main \in Actors /\ failed \subseteq done
      /\ join'[Main] = NoJoin /\ j.branches \subseteq Tasks /\ j.branches \subseteq 1 .. created
    BY <1>2 DEF RInv, WalkInv, TypeOK, Actors, Joins, JoinsCreated
<1>4. Winner(j) \in j.branches \cap done
    BY <1>2, <1>3, WinnerIsDone DEF RInv
<1>5. Losers(j) \ done = j.branches \ done
    BY <1>4 DEF Losers
<1>6. Winner(j) \in Tasks /\ Winner(j) \in j.branches \cap Abstract!Ended
      /\ (Winner(j) \in failed <=> Fate[Winner(j)] = "failed")
    BY <1>3, <1>4, FateValues DEF RInv, Abstract!Ended
<1>7. \A t \in Tasks : t \in j.branches \ done <=> t \in j.branches \ Abstract!Ended
    BY <1>3, FateValues DEF RInv, Abstract!Ended
<1>. HIDE DEF j
<1>8. ASSUME NEW t \in Tasks
      PROVE  Status(t)' = IF t \in j.branches \ Abstract!Ended
                          THEN "cancelled" ELSE Status(t)
  <2>1. created \in Nat /\ t \in Nat
    BY SchedulerAssumption DEF RInv, WalkInv, TypeOK, Tasks
  <2>2. CASE t \in j.branches \ done
    <3>1. ~ (t > created') /\ t \in cancelled'
      BY <2>1, <2>2, <1>2, <1>3, <1>5
    <3>. QED
      BY <2>2, <3>1, <1>7 DEF Status
  <2>3. CASE t \notin j.branches \ done
    <3>1. t \in cancelled' <=> t \in cancelled
      BY <2>3, <1>2, <1>5
    <3>. QED
      BY <2>3, <3>1, <1>2, <1>7 DEF Status
  <2>. QED
    BY <2>2, <2>3
<1>9. Abstract!Becomes(j.branches \ Abstract!Ended, "cancelled")
    BY <1>8, FateBecomes
<1>10. Abstract!GoesOn(Fate[Winner(j)] = "failed")
    BY <1>2, <1>3, <1>6 DEF Abstract!GoesOn, Abstract!None, NoJoin
<1>11. Abstract!CloseRace(Winner(j))
    BY <1>2, <1>6, <1>9, <1>10 DEF Abstract!CloseRace, j
<1>. QED
    BY <1>6, <1>11 DEF AStep, Abstract!Next

LEMMA RuntimeErrorStep ==
    ASSUME RInv, NEW w \in Actors, RuntimeError(w)
    PROVE  AStep
<1>1. phase \in {"statement", "drain"} /\ phase' = "idle"
    BY DEF RuntimeError, Runs
<1>2. /\ gen' = [t \in Tasks |-> IF gen[t] = "running" THEN "closed" ELSE gen[t]]
      /\ UNCHANGED <<created, done, failed, cancelled>>
    BY DEF RuntimeError
<1>3. join'[Main] = NoJoin
    BY DEF RuntimeError, Actors
<1>4. \A t \in Running : t \in Tasks /\ t \notin done /\ t \notin failed
                         /\ t \notin cancelled /\ ~ (t > created) /\ gen[t] # "closed"
  <2>. SUFFICES ASSUME NEW t \in Running
                PROVE  t \in Tasks /\ t \notin done /\ t \notin failed
                       /\ t \notin cancelled /\ ~ (t > created) /\ gen[t] # "closed"
    OBVIOUS
  <2>1. t \in Tasks /\ gen[t] = "running" /\ t \in sched /\ t \notin done
    BY DEF Running, RInv, WalkInv, StackInv, RunningScheduled
  <2>2. t \notin failed /\ t \notin cancelled /\ t \in 1 .. created
    BY <2>1 DEF RInv, WalkInv, TypeOK, CancelledUnscheduled
  <2>3. ~ (t > created)
    BY <2>2, SchedulerAssumption DEF RInv, WalkInv, TypeOK
  <2>. QED
    BY <2>1, <2>2, <2>3
<1>5. Running \subseteq Abstract!Live
  <2>. SUFFICES ASSUME NEW t \in Running PROVE t \in Abstract!Live
    OBVIOUS
  <2>1. Status(t) = "live"
    BY <1>4 DEF Status
  <2>. QED
    BY <1>4, <2>1 DEF Abstract!Live, Fate
<1>6. \A t \in Tasks : Status(t)' = IF t \in Running THEN "broken" ELSE Status(t)
    BY <1>2, <1>4 DEF Status, Running
<1>7. Abstract!Becomes(Running, "broken")
    BY <1>6, FateBecomes
<1>8. Abstract!Abort(Running)
    BY <1>1, <1>3, <1>5, <1>7 DEF Abstract!Abort, Abstract!None, NoJoin
<1>9. Running \in SUBSET Tasks
    BY DEF Running
<1>. QED
    BY <1>8, <1>9 DEF AStep, Abstract!Next

LEMMA CollectClosedStep ==
    ASSUME RInv, NEW t \in Tasks, CollectClosed(t)
    PROVE  AStep
<1>1. /\ phase \in {"statement", "drain"} /\ ticks # <<>> /\ gen[t] = "closed"
      /\ t \in sched /\ t \notin done /\ done' = done \cup {t}
      /\ UNCHANGED <<phase, created, gen, failed, cancelled, join>>
    BY DEF CollectClosed, Visits, BetweenElements, Pending
<1>2. t \notin failed /\ t \notin cancelled /\ ~ (t > created)
    BY <1>1, SchedulerAssumption DEF RInv, WalkInv, TypeOK, CancelledUnscheduled, Tasks
<1>3. t \in Abstract!Broken
    BY <1>1, <1>2 DEF Abstract!Broken, Fate, Status
<1>4. \A u \in Tasks : Status(u)' = IF u \in {t} THEN "finished" ELSE Status(u)
    BY <1>1, <1>2 DEF Status
<1>5. Abstract!Becomes({t}, "finished")
    BY <1>4, FateBecomes
<1>6. Abstract!TasksMayRun
    BY <1>1, MayRun DEF RInv
<1>7. Abstract!Complete(t)
    BY <1>1, <1>3, <1>5, <1>6 DEF Abstract!Complete
<1>. QED
    BY <1>7 DEF AStep, Abstract!Next

LEMMA ReenterStep ==
    ASSUME RInv, NEW t \in Tasks, Reenter(t)
    PROVE  AStep
<1>1. Abstract!TasksMayRun
    BY MayRun DEF Reenter, Visits, BetweenElements, RInv
<1>2. Fate' = Fate
    BY FateSame DEF Reenter
<1>3. Abstract!Die
    BY <1>1, <1>2 DEF Abstract!Die, Reenter
<1>. QED
    BY <1>3 DEF AStep, Abstract!Next

LEMMA DrainEndStep ==
    ASSUME RInv, DrainEnd
    PROVE  AStep
<1>1. Fate' = Fate
    BY FateSame DEF DrainEnd
<1>2. \A t \in Tasks : t \notin Abstract!Live /\ t \notin Abstract!Broken
  <2>. SUFFICES ASSUME NEW t \in Tasks, Fate[t] \in {"live", "broken"} PROVE FALSE
    BY DEF Abstract!Live, Abstract!Broken
  <2>1. t <= created /\ t \notin done \cup cancelled
    BY FateValues DEF RInv
  <2>2. t \in 1 .. created
    BY <2>1, SchedulerAssumption DEF RInv, WalkInv, TypeOK, Tasks
  <2>. QED
    BY <2>1, <2>2 DEF DrainEnd, RInv, WalkInv, NoTaskLost
<1>3. Abstract!Live \cup Abstract!Broken = {}
    BY <1>2 DEF Abstract!Live, Abstract!Broken
<1>4. Abstract!Settle
    BY <1>1, <1>3 DEF DrainEnd, Abstract!Settle
<1>. QED
    BY <1>4 DEF AStep, Abstract!Next

LEMMA UserStep ==
    ASSUME RInv, Statement \/ Reset \/ Exit
    PROVE  AStep
<1>1. CASE Statement \/ Exit
  <2>1. Fate' = Fate
    BY <1>1, FateSame DEF Statement, Exit
  <2>2. Abstract!Begin \/ Abstract!Leave
    BY <1>1, <2>1 DEF Statement, Exit, Abstract!Begin, Abstract!Leave
  <2>. QED
    BY <2>2 DEF AStep, Abstract!Next
<1>2. CASE Reset
  <2>1. /\ phase = "idle" /\ UNCHANGED <<phase, created, gen, done, failed, join>>
        /\ cancelled' = cancelled \cup (1 .. created \ done)
    BY <1>2 DEF Reset
  <2>2. failed \subseteq done /\ created \in Nat /\ cancelled \cap done = {}
    BY SchedulerAssumption DEF RInv, WalkInv, TypeOK
  <2>3. ASSUME NEW t \in Tasks
        PROVE  Status(t)' = IF t \in Abstract!Live \cup Abstract!Broken
                            THEN "cancelled" ELSE Status(t)
    <3>1. t \in Nat /\ t >= 1
      BY DEF Tasks
    <3>2. t \in 1 .. created <=> ~ (t > created)
      BY <2>2, <3>1
    <3>3. t \in Abstract!Live \cup Abstract!Broken
            <=> t \in 1 .. created /\ t \notin done /\ t \notin cancelled
      BY <2>2, <3>2 DEF Abstract!Live, Abstract!Broken, Fate, Status
    <3>4. CASE t \in 1 .. created \ done
      <4>1. Status(t)' = "cancelled"
        BY <2>1, <3>2, <3>4 DEF Status
      <4>2. t \in cancelled => Status(t) = "cancelled"
        BY <3>2, <3>4 DEF Status
      <4>. QED
        BY <3>3, <3>4, <4>1, <4>2
    <3>5. CASE t \notin 1 .. created \ done
      <4>1. t \in cancelled' <=> t \in cancelled
        BY <2>1, <3>5
      <4>2. Status(t)' = Status(t)
        BY <2>1, <4>1 DEF Status
      <4>. QED
        BY <3>3, <3>5, <4>2
    <3>. QED
      BY <3>4, <3>5
  <2>4. Abstract!Becomes(Abstract!Live \cup Abstract!Broken, "cancelled")
    BY <2>3, FateBecomes
  <2>5. Abstract!Discard
    BY <2>1, <2>4 DEF Abstract!Discard
  <2>. QED
    BY <2>5 DEF AStep, Abstract!Next
<1>. QED
    BY <1>1, <1>2

----------------------------------------------------------------------------
(* The theorem.                                                            *)

LEMMA Simulation ==
    ASSUME RInv, [Next]_vars
    PROVE  AStep
<1>1. CASE Statement \/ Reset \/ Exit
    BY <1>1, UserStep
<1>2. ASSUME NEW w \in Actors, FrameStep(w) PROVE AStep
  <2>1. CASE Instruction(w)
    <3>1. \A t \in Tasks : gen'[t] = "closed" <=> gen[t] = "closed"
      BY <2>1, YieldsOpen DEF Instruction, CanStep, RInv
    <3>. QED
      BY <2>1, <3>1, StutterStep DEF Instruction
  <2>2. CASE Spawn(w)
    BY <2>2, SpawnStep
  <2>3. CASE \E n \in JoinSizes : Fork(w, "sync", n) \/ Fork(w, "race", n)
    BY <2>3, ForkStep
  <2>4. CASE JoinTick(w)
    BY <2>4, StutterStep DEF JoinTick
  <2>5. CASE SyncEnd(w)
    BY <2>5, SyncEndStep
  <2>6. CASE RaceEnd(w)
    BY <2>6, RaceEndStep
  <2>7. CASE Return(w) \/ Fail(w)
    BY <2>7, ReturnFailStep
  <2>8. CASE RuntimeError(w)
    BY <2>8, RuntimeErrorStep
  <2>. QED
    BY <1>2, <2>1, <2>2, <2>3, <2>4, <2>5, <2>6, <2>7, <2>8 DEF FrameStep
<1>3. CASE WalkStep
  <2>1. ASSUME NEW t \in Tasks, GiveTurn(t) PROVE AStep
    <3>1. \A u \in Tasks : gen'[u] = "closed" <=> gen[u] = "closed"
      BY <2>1 DEF GiveTurn, RInv, WalkInv, TypeOK
    <3>. QED
      BY <2>1, <3>1, StutterStep DEF GiveTurn
  <2>2. ASSUME NEW t \in Tasks, CollectClosed(t) \/ Reenter(t) PROVE AStep
    BY <2>2, CollectClosedStep, ReenterStep
  <2>3. CASE TickEnd
    <3>1. UNCHANGED gen
      BY <2>3, EndOfWalk DEF RInv
    <3>. QED
      BY <2>3, <3>1, StutterStep DEF TickEnd
  <2>4. CASE DrainTick
    BY <2>4, StutterStep DEF DrainTick
  <2>5. CASE DrainEnd
    BY <2>5, DrainEndStep
  <2>. QED
    BY <1>3, <2>1, <2>2, <2>3, <2>4, <2>5 DEF WalkStep
<1>4. CASE Ended \/ UNCHANGED vars
    BY <1>4, StutterStep DEF Ended, vars
<1>. QED
    BY <1>1, <1>2, <1>3, <1>4 DEF Next, MachineStep

(* The scheduler, the list it iterates over, its walks and its generators, *)
(* keep the promise StructuredConcurrency makes.                           *)
THEOREM Refinement == Spec => Implements
<1>1. Init => Abstract!Init
  <2>. SUFFICES ASSUME Init PROVE Abstract!Init
    OBVIOUS
  <2>1. \A t \in Tasks : Status(t) = "unborn"
    BY DEF Init, Status, Tasks
  <2>2. Fate = [t \in Tasks |-> "unborn"]
    BY <2>1 DEF Fate
  <2>. QED
    BY <2>2 DEF Init, Abstract!Init, Abstract!None, NoJoin, Actors
<1>2. RInv /\ [Next]_vars => [Abstract!Next]_(Abstract!avars)
    BY Simulation DEF AStep
<1>. QED
    BY <1>1, <1>2, RInvariance, PTL DEF Spec, Implements, Abstract!Spec

=============================================================================

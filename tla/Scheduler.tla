----------------------------- MODULE Scheduler -----------------------------
(***************************************************************************)
(* The cooperative scheduler of the Verse virtual machine                  *)
(* (src/src/versetools/vm.py, VM and VTask).                               *)
(*                                                                         *)
(* A statement (one REPL input, one script, one call of Main) is executed  *)
(* by the host, which drives the frame of the statement to its end         *)
(* (_drain) and then lets the remaining tasks run                          *)
(* (_drain_background_tasks).  spawn, sync and race append tasks to        *)
(* scheduler_tasks.  A task runs only when somebody walks that list        *)
(* (_tick_all): the host while it drains, and any frame, the statement's   *)
(* or a task's, that waits in a sync or a race.  All of it is one call     *)
(* stack of Python generators: `ticks` is the stack of walks in progress.  *)
(*                                                                         *)
(* What the bytecode of a frame computes is left out: a frame may do       *)
(* anything its next instruction could do, for at most a bounded number of *)
(* instructions unless the frame is one of the Loopers.                    *)
(***************************************************************************)
EXTENDS Naturals, Sequences, SequencesExt

CONSTANTS
    MaxTasks,   \* bound: tasks created in the whole session
    MainFuel,   \* bound: instructions of a statement before it must end
    TaskFuel,   \* bound: instructions of a task before it must end
    Loopers,    \* the frames whose code may jump backwards for ever
    JoinSizes   \* the numbers of branches a sync or a race may have

Main  == 0              \* the frame of the statement
Tasks == 1 .. MaxTasks  \* tasks, numbered in the order of their creation
Actors == {Main} \cup Tasks

ASSUME SchedulerAssumption ==
    /\ MaxTasks \in Nat /\ MainFuel \in Nat /\ TaskFuel \in Nat
    /\ Loopers \subseteq Actors
    /\ JoinSizes \subseteq Nat

VARIABLES
    phase,      \* what the host is doing
    created,    \* how many tasks have been created so far
    gen,        \* the state of each task's generator
    done,       \* VTask.done
    failed,     \* VTask.failed
    cancelled,  \* the tasks given up: race losers, those of a discarded machine (history)
    sched,      \* VM.scheduler_tasks, always in creation order
    ticks,      \* the walks of scheduler_tasks in progress, innermost last
    join,       \* the sync or race each frame waits in
    turns       \* how many times each frame was given control, as NextTurn counts

vars == <<phase, created, gen, done, failed, cancelled, sched, ticks, join, turns>>

Phases == {"idle", "statement", "drain", "crashed", "exited"}
NoJoin == [kind |-> "none", branches |-> {}]
Joins  == [kind : {"none", "sync", "race"}, branches : SUBSET Tasks]

(* One activation of _tick_all: the element the loop has reached (0 before *)
(* the first) and the list still_running it is building.                   *)
Walks == [at : Actors, still : SUBSET Tasks]
NewWalk == [at |-> 0, still |-> {}]

Fuel(w) == IF w = Main THEN MainFuel ELSE TaskFuel

----------------------------------------------------------------------------
(* Who has control: the innermost walk is inside next(t.generator) exactly *)
(* when the generator it has reached is running.                           *)

Runs(w) ==
    IF w = Main
    THEN phase = "statement" /\ ticks = <<>>
    ELSE /\ phase \in {"statement", "drain"}
         /\ ticks # <<>>
         /\ Last(ticks).at = w
         /\ gen[w] = "running"

BetweenElements ==
    /\ phase \in {"statement", "drain"}
    /\ ticks # <<>>
    /\ ~ \E t \in Tasks : Runs(t)

(* Mutants of Pending: an element is skipped, as when the loop removes from *)
(* the list it iterates over; tasks whose generator runs are passed over;  *)
(* a walk stops after the first task that yields.                          *)
PendingSkips   == {t \in sched \ done : t > Last(ticks).at + 1}
PendingNotRunning ==
    {t \in sched \ done : t > Last(ticks).at /\ gen[t] # "running"}
PendingOne     ==
    {t \in sched \ done : t > Last(ticks).at /\ Last(ticks).still = {}}

(* The elements the innermost loop has yet to visit.  The loop iterates    *)
(* over the live list, so tasks appended during the walk are visited in    *)
(* the same walk.                                                          *)
Pending == {t \in sched \ done : t > Last(ticks).at}

Running == {t \in Tasks : gen[t] = "running"}

----------------------------------------------------------------------------
(* How an instruction gives control back.                                  *)

(* The frame yields: its walk appends the task to still_running.  The      *)
(* statement's frame is driven by _drain, which calls next again at once.  *)
Yields(w) ==
    IF w = Main
    THEN UNCHANGED <<ticks, gen>>
    ELSE /\ ticks' = [ticks EXCEPT ![Len(ticks)].still = @ \cup {w}]
         /\ gen' = [gen EXCEPT ![w] = "suspended"]

(* Mutants: a return that leaves VTask.done unset, a failure that does.    *)
FinishesNotDone(w) ==
    IF w = Main
    THEN phase' = "drain" /\ UNCHANGED <<gen, done, failed>>
    ELSE gen' = [gen EXCEPT ![w] = "closed"] /\ UNCHANGED <<phase, done, failed>>
FailsNotDone(w) ==
    IF w = Main
    THEN phase' = "idle" /\ UNCHANGED <<gen, done, failed>>
    ELSE /\ gen' = [gen EXCEPT ![w] = "closed"]
         /\ failed' = failed \cup {w}
         /\ UNCHANGED <<phase, done>>

(* The frame returns: StopIteration for a task, the drain for a statement. *)
Finishes(w) ==
    IF w = Main
    THEN phase' = "drain" /\ UNCHANGED <<gen, done, failed>>
    ELSE /\ gen' = [gen EXCEPT ![w] = "closed"]
         /\ done' = done \cup {w}
         /\ UNCHANGED <<phase, failed>>

(* A VerseFailure no handler of the frame catches: it ends the task as     *)
(* failed, and the statement without its drain.                            *)
Fails(w) ==
    IF w = Main
    THEN phase' = "idle" /\ UNCHANGED <<gen, done, failed>>
    ELSE /\ gen' = [gen EXCEPT ![w] = "closed"]
         /\ done' = done \cup {w}
         /\ failed' = failed \cup {w}
         /\ UNCHANGED phase

(* A frame that waits in no join executes its next instruction while its   *)
(* fuel lasts; a looper jumps back to the start of its loop.               *)
CanStep(w) ==
    /\ Runs(w)
    /\ join[w] = NoJoin
    /\ turns[w] < Fuel(w) \/ w \in Loopers

(* The count of turns after n of them; that of a looper starts again.      *)
NextTurn(w, n) == IF n < Fuel(w) THEN n + 1 ELSE 0
Counted(w) == turns' = [turns EXCEPT ![w] = NextTurn(w, @)]

----------------------------------------------------------------------------
Init ==
    /\ phase = "idle"
    /\ created = 0
    /\ gen = [t \in Tasks |-> "suspended"]
    /\ done = {} /\ failed = {} /\ cancelled = {}
    /\ sched = {}
    /\ ticks = <<>>
    /\ join = [w \in Actors |-> NoJoin]
    /\ turns = [w \in Actors |-> 0]

(* The REPL, or the command line for a script and then for its Main, asks  *)
(* the virtual machine to run one more chunk.                              *)
Statement ==
    /\ phase = "idle"
    /\ phase' = "statement"
    /\ turns' = [turns EXCEPT ![Main] = 0]
    /\ UNCHANGED <<created, gen, done, failed, cancelled, sched, ticks, join>>

(* :reset gives the session a new virtual machine: whatever an earlier     *)
(* error left in the list is abandoned.                                    *)
Reset ==
    /\ phase = "idle"
    /\ sched' = {}
    /\ cancelled' = cancelled \cup (1 .. created \ done)
    /\ UNCHANGED <<phase, created, gen, done, failed, ticks, join, turns>>

Exit ==
    /\ phase = "idle"
    /\ phase' = "exited"
    /\ UNCHANGED <<created, gen, done, failed, cancelled, sched, ticks, join, turns>>

(* Any instruction that touches no task, a caught failure included.        *)
Instruction(w) ==
    /\ CanStep(w)
    /\ Counted(w)
    /\ Yields(w)
    /\ UNCHANGED <<phase, created, done, failed, cancelled, sched, join>>

(* Mutant: a task spawned by a task goes to a list that is about to be     *)
(* replaced.                                                               *)
SpawnOnOldList(w) ==
    /\ CanStep(w)
    /\ created < MaxTasks
    /\ created' = created + 1
    /\ sched' = IF w = Main THEN sched \cup {created + 1} ELSE sched
    /\ Counted(w)
    /\ Yields(w)
    /\ UNCHANGED <<phase, done, failed, cancelled, join>>

(* SPAWN: append one task to the list and go on.                           *)
Spawn(w) ==
    /\ CanStep(w)
    /\ created < MaxTasks
    /\ created' = created + 1
    /\ sched' = sched \cup {created + 1}
    /\ Counted(w)
    /\ Yields(w)
    /\ UNCHANGED <<phase, done, failed, cancelled, join>>

(* SYNC n and RACE n: append one task for every branch, then wait.         *)
Fork(w, kind, n) ==
    /\ CanStep(w)
    /\ created + n <= MaxTasks
    /\ created' = created + n
    /\ sched' = sched \cup (created + 1 .. created + n)
    /\ join' = [join EXCEPT ![w] = [kind |-> kind, branches |-> created + 1 .. created + n]]
    /\ Counted(w)
    /\ UNCHANGED <<phase, gen, done, failed, cancelled, ticks>>

(* Mutants: any and all exchanged, in the sync and in the race.            *)
SatisfiedAny(j) == j.kind # "none" /\ j.branches \cap done # {}
SatisfiedAll(j) == j.kind # "none" /\ j.branches \subseteq done

(* The condition of the loop in which SYNC and RACE wait.                  *)
Satisfied(j) ==
    \/ j.kind = "sync" /\ j.branches \subseteq done
    \/ j.kind = "race" /\ j.branches \cap done # {}

(* The body of that loop: a walk of the list, which ends in TickEnd.       *)
JoinTick(w) ==
    /\ Runs(w)
    /\ join[w].kind # "none"
    /\ ~ Satisfied(join[w])
    /\ ticks' = Append(ticks, NewWalk)
    /\ UNCHANGED <<phase, created, gen, done, failed, cancelled, sched, join, turns>>

(* A join that is over pushes its value, or raises a VerseFailure: the     *)
(* frame has a handler for it, or it ends the frame.                       *)
Resumes(w) ==
    /\ Yields(w)
    /\ UNCHANGED <<phase, done, failed>>
JoinOutcome(w, lost) ==
    \/ Resumes(w)
    \/ lost /\ Fails(w) /\ UNCHANGED ticks

SyncEnd(w) ==
    /\ Runs(w)
    /\ join[w].kind = "sync" /\ Satisfied(join[w])
    /\ JoinOutcome(w, join[w].branches \cap failed # {})
    /\ join' = [join EXCEPT ![w] = NoJoin]
    /\ UNCHANGED <<created, cancelled, sched, turns>>

(* The winner is the first branch, in branch order, that is done; the      *)
(* others leave the list whatever their state.                             *)
Winner(j) == CHOOSE b \in j.branches \cap done : \A c \in j.branches \cap done : b <= c
Losers(j) == j.branches \ {Winner(j)}

(* Mutant: the losers stay in the list.                                    *)
RaceEndKeepsLosers(w) ==
    /\ Runs(w)
    /\ join[w].kind = "race" /\ Satisfied(join[w])
    /\ cancelled' = cancelled \cup (Losers(join[w]) \ done)
    /\ JoinOutcome(w, Winner(join[w]) \in failed)
    /\ join' = [join EXCEPT ![w] = NoJoin]
    /\ UNCHANGED <<created, sched, turns>>

RaceEnd(w) ==
    /\ Runs(w)
    /\ join[w].kind = "race" /\ Satisfied(join[w])
    /\ sched' = sched \ Losers(join[w])
    /\ cancelled' = cancelled \cup (Losers(join[w]) \ done)
    /\ JoinOutcome(w, Winner(join[w]) \in failed)
    /\ join' = [join EXCEPT ![w] = NoJoin]
    /\ UNCHANGED <<created, turns>>

(* RETURN, or the end of the chunk.                                        *)
Return(w) ==
    /\ Runs(w) /\ join[w] = NoJoin
    /\ Finishes(w)
    /\ Counted(w)
    /\ UNCHANGED <<created, cancelled, sched, ticks, join>>

(* An instruction that fails with no handler in the frame.                 *)
Fail(w) ==
    /\ Runs(w) /\ join[w] = NoJoin
    /\ Fails(w)
    /\ Counted(w)
    /\ UNCHANGED <<created, cancelled, sched, ticks, join>>

(* A VerseRuntimeError: nothing below the REPL catches it, so it ends      *)
(* every generator on the call stack and every walk before the walk has    *)
(* stored its still_running.                                               *)
RuntimeError(w) ==
    /\ Runs(w) /\ join[w] = NoJoin
    /\ phase' = "idle"
    /\ ticks' = <<>>
    /\ gen' = [t \in Tasks |-> IF gen[t] = "running" THEN "closed" ELSE gen[t]]
    /\ join' = [a \in Actors |-> IF a = Main \/ a \in Running THEN NoJoin ELSE join[a]]
    /\ UNCHANGED <<created, done, failed, cancelled, sched, turns>>

----------------------------------------------------------------------------
(* The loop of _tick_all, and that of _drain_background_tasks.             *)

(* Mutant: the list is iterated in no particular order.                    *)
VisitsAny(t) ==
    /\ BetweenElements
    /\ t \in sched \ (done \cup Last(ticks).still)

Visits(t) ==
    /\ BetweenElements
    /\ t \in Pending
    /\ \A u \in Pending : t <= u

(* next(t.generator) on a suspended generator: the task has control.       *)
GiveTurn(t) ==
    /\ Visits(t)
    /\ gen[t] = "suspended"
    /\ gen' = [gen EXCEPT ![t] = "running"]
    /\ ticks' = [ticks EXCEPT ![Len(ticks)].at = t]
    /\ UNCHANGED <<phase, created, done, failed, cancelled, sched, join, turns>>

(* next on a generator that an earlier runtime error closed raises         *)
(* StopIteration: the task counts as done, with no result and no failure.  *)
CollectClosed(t) ==
    /\ Visits(t)
    /\ gen[t] = "closed"
    /\ done' = done \cup {t}
    /\ ticks' = [ticks EXCEPT ![Len(ticks)].at = t]
    /\ UNCHANGED <<phase, created, gen, failed, cancelled, sched, join, turns>>

(* next on the generator of a task that is itself waiting further down the *)
(* call stack: Python raises ValueError, which nothing catches.            *)
Reenter(t) ==
    /\ Visits(t)
    /\ gen[t] = "running"
    /\ phase' = "crashed"
    /\ UNCHANGED <<created, gen, done, failed, cancelled, sched, ticks, join, turns>>

(* Mutant: the loop breaks off at the first task that ends.                *)
TickEndAtFirst ==
    /\ BetweenElements
    /\ Pending = {} \/ Last(ticks).at \in done
    /\ sched' = Last(ticks).still \cup Pending
    /\ ticks' = Front(ticks)
    /\ UNCHANGED <<phase, created, gen, done, failed, cancelled, join, turns>>

(* The loop is over: still_running becomes the list, and the frame that    *)
(* waits in the join yields.  If an inner walk could end, the outer loop   *)
(* would go on over the old list object; no inner walk ever does           *)
(* (InnerWalkNeverEnds), so the old list is not kept.                      *)
TickEnd ==
    /\ BetweenElements
    /\ Pending = {}
    /\ sched' = Last(ticks).still
    /\ IF Len(ticks) = 1
       THEN ticks' = <<>> /\ UNCHANGED gen
       ELSE LET owner == ticks[Len(ticks) - 1].at
            IN  /\ ticks' = [Front(ticks) EXCEPT ![Len(ticks) - 1].still = @ \cup {owner}]
                /\ gen' = [gen EXCEPT ![owner] = "suspended"]
    /\ UNCHANGED <<phase, created, done, failed, cancelled, join, turns>>

DrainTick ==
    /\ phase = "drain" /\ ticks = <<>>
    /\ sched \ done # {}
    /\ ticks' = <<NewWalk>>
    /\ UNCHANGED <<phase, created, gen, done, failed, cancelled, sched, join, turns>>

DrainEnd ==
    /\ phase = "drain" /\ ticks = <<>>
    /\ sched \subseteq done
    /\ phase' = "idle"
    /\ UNCHANGED <<created, gen, done, failed, cancelled, sched, ticks, join, turns>>

(* The process has ended, normally or by the uncaught ValueError.          *)
Ended ==
    /\ phase \in {"exited", "crashed"}
    /\ UNCHANGED vars

----------------------------------------------------------------------------
FrameStep(w) ==
    \/ Instruction(w)
    \/ Spawn(w)
    \/ \E n \in JoinSizes : Fork(w, "sync", n)
    \/ \E n \in JoinSizes : Fork(w, "race", n)
    \/ JoinTick(w)
    \/ SyncEnd(w)
    \/ RaceEnd(w)
    \/ Return(w)
    \/ Fail(w)
    \/ RuntimeError(w)

WalkStep ==
    \/ \E t \in Tasks : GiveTurn(t) \/ CollectClosed(t) \/ Reenter(t)
    \/ TickEnd
    \/ DrainTick
    \/ DrainEnd

(* Everything the virtual machine does by itself; Statement, Reset and     *)
(* Exit are the user's.                                                    *)
MachineStep ==
    \/ \E w \in Actors : FrameStep(w)
    \/ WalkStep

Next == Statement \/ Reset \/ Exit \/ MachineStep \/ Ended

Spec == Init /\ [][Next]_vars

(* One host thread executes the machine: while a statement is being        *)
(* executed the interpreter takes its next step.                           *)
FairSpec == Spec /\ WF_vars(MachineStep)

----------------------------------------------------------------------------
(* Properties.                                                             *)

(* Types of the variables; VTask.failed is only ever set with VTask.done,  *)
(* no cancelled task is done, and nothing speaks of a task not yet created. *)
TypeOK ==
    /\ phase \in Phases
    /\ created \in 0 .. MaxTasks
    /\ gen \in [Tasks -> {"suspended", "running", "closed"}]
    /\ done \subseteq 1 .. created /\ failed \subseteq done
    /\ cancelled \subseteq 1 .. created /\ cancelled \cap done = {}
    /\ sched \subseteq 1 .. created
    /\ ticks \in Seq(Walks)
    /\ join \in [Actors -> Joins]
    /\ turns \in [Actors -> Nat]

(* A task that has neither finished nor lost a race is in scheduler_tasks, *)
(* through every walk, spawn inside a walk and aborted walk: rebinding the *)
(* list to still_running (vm.py:110) drops nobody who still has to run.    *)
NoTaskLost == 1 .. created \subseteq done \cup cancelled \cup sched

(* While the statement waits in a join, two branches that are both alive   *)
(* have been given the same number of turns, but for the one turn by which *)
(* the earlier branch is ahead within a walk (the round robin of           *)
(* _tick_all).  Only the statement's own walk counts: see Reenter for what *)
(* a second walk does.                                                     *)
RoundRobin ==
    phase = "statement" /\ Len(ticks) <= 1 =>
        \A b, c \in join[Main].branches \ done :
            b < c => turns[b] \in {turns[c], NextTurn(b, turns[c])}

(* When a race is decided, every branch has had exactly as many turns as   *)
(* every other: no branch wins because another was served less.            *)
RaceIsEven ==
    Runs(Main) /\ join[Main].kind = "race" /\ Satisfied(join[Main]) =>
        \A b, c \in join[Main].branches : turns[b] = turns[c]

(* The inductive invariant, first the part behind NoTaskLost,              *)
(* InnerWalkNeverEnds, CancelledStaysStopped and DrainLeavesNothing: a     *)
(* running task is scheduled, unfinished and on the call stack; a walk     *)
(* starts inside a task that the walk has yet to reach; the outermost walk *)
(* keeps everybody it has passed and does not wait for; the branches of a  *)
(* join that a task has just forked have not run; cancelled tasks are out  *)
(* of the list; only a join or the drain of the statement starts the       *)
(* outermost walk.                                                         *)
RunningScheduled == Running \subseteq sched \ done
RunningOnStack ==
    \A t \in Running : \E i \in 1 .. Len(ticks) : ticks[i].at = t
OwnersAhead ==
    \A i, j \in 1 .. Len(ticks) :
        i < j => ticks[i].at \in Running /\ ticks[j].at < ticks[i].at
WalksKeep ==
    /\ \A i \in 1 .. Len(ticks) : ticks[i].at <= created /\ ticks[i].still \subseteq sched
    /\ ticks # <<>> =>
        \A t \in sched \ done :
            t < ticks[1].at \/ (t = ticks[1].at /\ t \notin Running) => t \in ticks[1].still
TaskJoinsFresh ==
    \A t \in Tasks :
        /\ gen[t] # "running" => join[t] = NoJoin
        /\ Runs(t) => join[t].branches \cap done = {}
CancelledUnscheduled == cancelled \cap sched = {}
JoinsCreated == \A w \in Actors : join[w].branches \subseteq 1 .. created
StackOwned ==
    /\ phase = "idle" => ticks = <<>>
    /\ phase = "statement" /\ ticks # <<>> => join[Main].kind # "none"

StackInv == RunningScheduled /\ RunningOnStack /\ OwnersAhead /\ WalksKeep

WalkInv ==
    /\ TypeOK /\ NoTaskLost /\ StackInv
    /\ TaskJoinsFresh /\ CancelledUnscheduled /\ JoinsCreated /\ StackOwned

(* And the part behind RoundRobin and RaceIsEven: the branches of the      *)
(* statement's join have had as many turns as each other, but for those    *)
(* that its walk has passed; none of them is cancelled or closed without   *)
(* being done, and tasks start with no turn.                               *)

(* The branches that are compared: a sync goes on with those that are not  *)
(* done; a race is over with the first walk that finds one done.           *)
Counting ==
    {b \in join[Main].branches : join[Main].kind = "race" \/ b \notin done}

(* The statement's walk has passed b, or b has just used its turn: a task  *)
(* that is running has once it waits in a join.                            *)
HadTurn(b) ==
    /\ ticks # <<>>
    /\ \/ b < ticks[1].at
       \/ b = ticks[1].at /\ (gen[b] # "running" \/ join[b] # NoJoin)

(* Only the statement's own walk: a second walk never ends.                *)
Shallow == phase = "statement" /\ Len(ticks) <= 1

TurnsByWalk ==
    Shallow =>
        \A b, c \in Counting :
            /\ (HadTurn(b) <=> HadTurn(c)) => turns[b] = turns[c]
            /\ HadTurn(b) /\ ~ HadTurn(c) => turns[b] = NextTurn(b, turns[c])
DonePassed ==
    Shallow /\ ticks # <<>> /\ join[Main].kind = "race" =>
        \A b \in join[Main].branches \cap done : b <= ticks[1].at
MainWaits == phase \notin {"statement", "crashed"} => join[Main] = NoJoin
BranchesAlive ==
    /\ join[Main].branches \cap cancelled = {}
    /\ \A b \in join[Main].branches \ done : gen[b] # "closed"
UnbornFresh == \A t \in Tasks : t > created => gen[t] = "suspended" /\ turns[t] = 0

TurnInv == TurnsByWalk /\ DonePassed /\ MainWaits /\ BranchesAlive /\ UnbornFresh

IInv == WalkInv /\ TurnInv

(* No walk inside a walk ever completes: it ends at the re-entered task    *)
(* that started it, or with the whole statement.  So no join inside a task *)
(* ever yields a value, and no walk loses its list to an inner one.        *)
InnerWalkNeverEnds ==
    [][Len(ticks) >= 2 /\ Len(ticks') < Len(ticks) => ticks' = <<>>]_vars

(* Cancelling a loser of a race is final: it is never given a turn again   *)
(* and never becomes done, whatever later walks and statements do.         *)
CancelledStaysStopped ==
    [][\A t \in cancelled : t \in cancelled' /\ t \notin done'
                            /\ turns'[t] = turns[t] /\ gen'[t] = gen[t]]_vars

(* A statement that ends through its drain leaves no task behind but the   *)
(* cancelled ones, those of earlier failed statements included.            *)
DrainLeavesNothing ==
    [][phase = "drain" /\ ticks = <<>> /\ phase' = "idle"
        => 1 .. created \subseteq done \cup cancelled]_vars

(* A statement comes back to the prompt, or takes the process with it,     *)
(* unless a task that loops for ever is alive: joins and the drain wait    *)
(* for nobody whom no walk visits.                                         *)
StatementEnds ==
    phase \in {"statement", "drain"}
        ~> phase \in {"idle", "crashed"} \/ Loopers \cap sched # {}

(* A task that needs finitely many turns finishes in the drain, even while *)
(* others loop for ever beside it.                                         *)
FiniteTasksFinish ==
    \A t \in Tasks \ Loopers :
        phase = "drain" /\ t \in sched ~> t \in done \/ phase \in {"idle", "crashed"}

(* A race with a branch that ends is decided, even if others loop.         *)
RaceIsDecided ==
    (join[Main].kind = "race" /\ join[Main].branches \ Loopers # {})
        ~> join[Main].kind = "none" \/ phase = "crashed"

(* The documents' claims that the code does not keep; each is checked by a *)
(* run that finds it violated.                                             *)

(* docs/repl.md:67-69: an error in the input returns to the prompt; no     *)
(* program brings the process down.                                        *)
ErrorsDontKillTheSession == phase # "crashed"

(* docs/differences-from-verse.md:115-117: any spawned task is drained     *)
(* before the statement that spawned it returns control.                   *)
DrainedBeforePrompt == phase = "idle" => 1 .. created \subseteq done \cup cancelled

(* docs/language-reference.md:331-332: the scheduler switches tasks after  *)
(* every instruction; a task that has been spawned, and is still waiting   *)
(* for its first turn, gets it while the statement is still computing.     *)
Unserved(t) == t \in sched /\ gen[t] = "suspended" /\ turns[t] = 0
SpawnedTaskGetsATurn ==
    \A t \in Tasks : phase = "statement" /\ Unserved(t) ~> phase # "statement" \/ ~Unserved(t)

(* docs/language-reference.md:343-345: race takes the first branch to      *)
(* finish: a race whose branches all end is decided.                       *)
RaceEnds == join[Main].kind = "race" ~> join[Main].kind = "none" \/ phase = "crashed"

----------------------------------------------------------------------------
(* The scheduler implements StructuredConcurrency.                         *)

Status(t) ==
    IF t > created THEN "unborn"
    ELSE IF t \in cancelled THEN "cancelled"
    ELSE IF t \in failed THEN "failed"
    ELSE IF t \in done THEN "finished"
    ELSE IF gen[t] = "closed" THEN "broken"
    ELSE "live"

Fate == [t \in Tasks |-> Status(t)]

Abstract == INSTANCE StructuredConcurrency WITH
    Tasks <- Tasks, host <- phase, status <- Fate, waiting <- join[Main]

(* Every behaviour of the scheduler is one the promise allows.             *)
Implements == Abstract!Spec
=============================================================================

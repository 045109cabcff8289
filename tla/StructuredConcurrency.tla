----------------------- MODULE StructuredConcurrency -----------------------
(***************************************************************************)
(* What spawn, sync and race promise to the author of a Verse program, with *)
(* no list of tasks, no walk and no generator: which tasks exist, how each *)
(* ended, what the statement waits for, and when the host may show its     *)
(* prompt again.  Scheduler.tla implements it (Scheduler!Implements).      *)
(***************************************************************************)
EXTENDS Naturals, FiniteSets

CONSTANT Tasks

VARIABLES
    host,     \* what the host does, as in Scheduler
    status,   \* the fate of each task
    waiting   \* the sync or race the statement itself waits in

avars == <<host, status, waiting>>

Unborn == {t \in Tasks : status[t] = "unborn"}
Live   == {t \in Tasks : status[t] = "live"}
Broken == {t \in Tasks : status[t] = "broken"}   \* ended by a runtime error
Ended  == {t \in Tasks : status[t] \in {"finished", "failed"}}

None == [kind |-> "none", branches |-> {}]

Becomes(S, s) == status' = [t \in Tasks |-> IF t \in S THEN s ELSE status[t]]

(* Tasks make progress only while the statement waits or settles.          *)
TasksMayRun ==
    \/ host = "statement" /\ waiting.kind # "none"
    \/ host = "drain"

Init ==
    /\ host = "idle"
    /\ status = [t \in Tasks |-> "unborn"]
    /\ waiting = None

Begin == host = "idle" /\ host' = "statement" /\ UNCHANGED <<status, waiting>>
Leave == host = "idle" /\ host' = "exited" /\ UNCHANGED <<status, waiting>>

(* The user starts afresh: what an error left unfinished is given up.      *)
Discard ==
    /\ host = "idle"
    /\ Becomes(Live \cup Broken, "cancelled")
    /\ UNCHANGED <<host, waiting>>

(* The statement, or a task whose turn it is, creates tasks.               *)
Create(S) ==
    /\ host \in {"statement", "drain"}
    /\ S \subseteq Unborn
    /\ Becomes(S, "live")
    /\ UNCHANGED <<host, waiting>>

(* The statement starts a sync or a race and waits.                        *)
Open(kind, S) ==
    /\ host = "statement" /\ waiting = None
    /\ S \subseteq Unborn
    /\ Becomes(S, "live")
    /\ waiting' = [kind |-> kind, branches |-> S]
    /\ UNCHANGED host

(* A task ends once; a broken one is found out to be over.                 *)
Complete(t) ==
    /\ TasksMayRun
    /\ \/ t \in Live /\ (Becomes({t}, "finished") \/ Becomes({t}, "failed"))
       \/ t \in Broken /\ Becomes({t}, "finished")
    /\ UNCHANGED <<host, waiting>>

(* The statement goes on, or ends if the join failed and nothing caught it. *)
GoesOn(lost) ==
    /\ waiting' = None
    /\ host' = "statement" \/ (lost /\ host' = "idle")

(* A sync is over when all of its branches have ended.                     *)
CloseSync ==
    /\ host = "statement" /\ waiting.kind = "sync"
    /\ waiting.branches \subseteq Ended
    /\ GoesOn(\E t \in waiting.branches : status[t] = "failed")
    /\ UNCHANGED status

(* A race is over when one has; the unfinished others never will.          *)
CloseRace(winner) ==
    /\ host = "statement" /\ waiting.kind = "race"
    /\ winner \in waiting.branches \cap Ended
    /\ Becomes(waiting.branches \ Ended, "cancelled")
    /\ GoesOn(status[winner] = "failed")

(* A statement that returns lets every task it leaves behind finish.       *)
Return ==
    /\ host = "statement" /\ waiting = None
    /\ host' = "drain"
    /\ UNCHANGED <<status, waiting>>
Settle ==
    /\ host = "drain"
    /\ Live \cup Broken = {}
    /\ host' = "idle"
    /\ UNCHANGED <<status, waiting>>

(* A statement that fails does not.                                        *)
Fail ==
    /\ host = "statement" /\ waiting = None
    /\ host' = "idle"
    /\ UNCHANGED <<status, waiting>>

(* A runtime error, in the statement or in a task, breaks the tasks on the *)
(* call stack, abandons the join and goes back to the prompt.              *)
Abort(S) ==
    /\ host \in {"statement", "drain"}
    /\ S \subseteq Live
    /\ Becomes(S, "broken")
    /\ waiting' = None
    /\ host' = "idle"

(* A join inside a task kills the process.                                 *)
Die ==
    /\ TasksMayRun
    /\ host' = "crashed"
    /\ UNCHANGED <<status, waiting>>

Next ==
    \/ Begin \/ Leave \/ Discard \/ Return \/ Settle \/ Fail \/ Die
    \/ \E S \in SUBSET Tasks : Create(S) \/ Abort(S)
    \/ \E kind \in {"sync", "race"}, S \in SUBSET Tasks : Open(kind, S)
    \/ \E t \in Tasks : Complete(t)
    \/ CloseSync
    \/ \E t \in Tasks : CloseRace(t)

Spec == Init /\ [][Next]_avars
=============================================================================

---------------------------- MODULE Environments ----------------------------
(***************************************************************************)
(* The variables of a Verse program and who may reach them                 *)
(* (src/src/versetools/values.py, Environment and VFunction; vm.py, the    *)
(* opcodes that touch frame.env, VM._call, VM._bind_params and             *)
(* VM._spawn_function; compiler.py, _compile_assign).  An Environment is a *)
(* scope here.  Every task is a thread, a stack of frames; a tick lets     *)
(* any other task in between two instructions, so any thread may take the  *)
(* next step (Scheduler.tla has the order of the ticks, Frame.tla the      *)
(* control flow inside a frame).                                           *)
(*                                                                         *)
(* A variable holds an array, and of each element only which assignment it *)
(* comes from is kept.  `set A[i] = e` is two steps: the array is loaded   *)
(* before e is evaluated, and a copy of it with one element replaced is    *)
(* stored after.                                                           *)
(***************************************************************************)
EXTENDS Naturals, Sequences, FiniteSetsExt

CONSTANTS
    Names,        \* of variables
    Indexes,      \* of the elements of an array
    MaxScopes,    \* bounds: Environments created,
    MaxThreads,   \* tasks created, with the main one,
    MaxFrames,    \* nested calls of a thread,
    MaxHandlers,  \* failure contexts open at a time,
    MaxWrites     \* assignments

ASSUME BoundsAssumption ==
    /\ MaxScopes \in Nat \ {0} /\ MaxThreads \in Nat \ {0}
    /\ MaxFrames \in Nat \ {0} /\ MaxHandlers \in Nat /\ MaxWrites \in Nat

Main    == 1
Globals == 1
None    == <<>>

VARIABLES
    scopes,     \* each scope, in the order of creation
    cells,      \* scope -> names defined in it -> array
    threads,    \* each task's stack of frames; empty once it ended
    captured,   \* the scopes that are closure_env of some function
    cancelled,  \* history: the branches that lost a race
    writes,     \* history: the task of each assignment, in their order
    latest      \* history: as cells, the last assignment to each element

vars == <<scopes, cells, threads, captured, cancelled, writes, latest>>
store == <<cells, writes, latest>>

(* A scope: parent is 0 for the globals; sees is the chain of parents, the *)
(* scope itself included; opener (history) is the base of the frame that   *)
(* created it.                                                             *)
ScopeOf(parent, opener, s) ==
    [parent |-> parent, sees |-> {s} \cup scopes[parent].sees, opener |-> opener]
NoNames == [n \in {} |-> None]

(* A frame: base is the environment it started with, env the current one;  *)
(* handlers holds the environment each restores; update is the pending     *)
(* element assignment, if any; waits says for which branches it waits.     *)
NoWait == [mode |-> "none", tasks |-> {}]
NewFrame(s) == [base |-> s, env |-> s, handlers |-> <<>>, update |-> None, waits |-> NoWait]

Top(t)     == threads[t][Len(threads[t])]
Ended(t)   == threads[t] = <<>>
Running(t) == ~ Ended(t) /\ Top(t).waits = NoWait
Becomes(t, f) == threads' = [threads EXCEPT ![t][Len(threads[t])] = f]

(* Between two statements; and the scopes the frame is to return to, which *)
(* no expression or block it executes leaves (FrameTyping, VerifiedStays-  *)
(* Typed).                                                                 *)
AtStatement(f) == f.handlers = <<>> /\ f.update = None
Held(f) == {f.base} \cup {f.handlers[j] : j \in DOMAIN f.handlers}
                    \cup {f.update[j].env : j \in DOMAIN f.update}

(* Mutant of Denotes: the chain is searched from the globals.              *)
DenotesOutermost(s, n) ==
    CHOOSE c \in scopes[s].sees :
        /\ n \in DOMAIN cells[c]
        /\ \A d \in scopes[s].sees : n \in DOMAIN cells[d] => c <= d

(* Environment.get and .set find the variable in the innermost scope that  *)
(* defines it at that moment: a parent is always the older scope.          *)
Defined(s, n) == \E c \in scopes[s].sees : n \in DOMAIN cells[c]
Denotes(s, n) ==
    CHOOSE c \in scopes[s].sees :
        /\ n \in DOMAIN cells[c]
        /\ \A d \in scopes[s].sees : n \in DOMAIN cells[d] => d <= c

CanWrite == Len(writes) < MaxWrites
Written  == [i \in Indexes |-> Len(writes) + 1]
Binding(f, n, v) == [m \in {n} \cup DOMAIN f |-> IF m = n THEN v ELSE f[m]]
Write(t, s, n) ==
    /\ CanWrite
    /\ cells'  = [cells EXCEPT ![s] = Binding(@, n, Written)]
    /\ latest' = [latest EXCEPT ![s] = Binding(@, n, Written)]
    /\ writes' = Append(writes, t)

(* Environment(parent=...).                                                *)
CanOpen(n) == Len(scopes) + n <= MaxScopes
NextScope  == Len(scopes) + 1
----------------------------------------------------------------------------
Init ==
    /\ scopes = <<[parent |-> 0, sees |-> {Globals}, opener |-> Globals]>>
    /\ cells = <<NoNames>>
    /\ threads = <<<<NewFrame(Globals)>>>>
    /\ captured = {}
    /\ cancelled = {}
    /\ writes = <<>>
    /\ latest = <<NoNames>>

(* Mutant of PopScope: the globals can be popped.                          *)
PopScopeUnguarded(t) ==
    /\ Running(t)
    /\ Top(t).env = Globals \/ Top(t).env \notin Held(Top(t))
    /\ Becomes(t, [Top(t) EXCEPT !.env = scopes[Top(t).env].parent])
    /\ UNCHANGED <<scopes, store, captured, cancelled>>

(* PUSH_SCOPE and POP_SCOPE.                                               *)
PushScope(t) ==
    /\ Running(t) /\ CanOpen(1)
    /\ scopes' = Append(scopes, ScopeOf(Top(t).env, Top(t).base, NextScope))
    /\ cells'  = Append(cells, NoNames)
    /\ latest' = Append(latest, NoNames)
    /\ Becomes(t, [Top(t) EXCEPT !.env = NextScope])
    /\ UNCHANGED <<captured, cancelled, writes>>

PopScope(t) ==
    /\ Running(t) /\ Top(t).env \notin Held(Top(t))
    /\ Becomes(t, [Top(t) EXCEPT !.env = scopes[Top(t).env].parent])
    /\ UNCHANGED <<scopes, store, captured, cancelled>>

(* STORE_NAME: a declaration, the loop variable, or a clause's binding.    *)
Define(t, n) ==
    /\ Running(t)
    /\ AtStatement(Top(t)) \/ Top(t).env \notin Held(Top(t))
    /\ Write(t, Top(t).env, n)
    /\ UNCHANGED <<scopes, threads, captured, cancelled>>

(* `set A = e`: SET_NAME.                                                  *)
SetWhole(t, n) ==
    /\ Running(t) /\ AtStatement(Top(t)) /\ Defined(Top(t).env, n)
    /\ Write(t, Denotes(Top(t).env, n), n)
    /\ UNCHANGED <<scopes, threads, captured, cancelled>>

(* `set A[i] = e`: LOAD_NAME of A, then the code of i and e ...            *)
BeginUpdate(t, n, i) ==
    /\ Running(t) /\ AtStatement(Top(t)) /\ Defined(Top(t).env, n)
    /\ LET d == Denotes(Top(t).env, n)
       IN  Becomes(t, [Top(t) EXCEPT !.update =
               <<[env |-> Top(t).env, name |-> n, index |-> i, from |-> d, old |-> cells[d][n]]>>])
    /\ UNCHANGED <<scopes, store, captured, cancelled>>

(* ... then SET_INDEX, which copies the array, and SET_NAME of A.          *)
EndUpdate(t) ==
    /\ Running(t) /\ CanWrite /\ Top(t).update # None
    /\ Top(t).handlers = <<>> /\ Top(t).env = Top(t).update[1].env
    /\ LET u == Top(t).update[1]
           d == Denotes(u.env, u.name)
       IN  /\ cells'  = [cells EXCEPT ![d][u.name] = [u.old EXCEPT ![u.index] = Len(writes) + 1]]
           /\ latest' = [latest EXCEPT ![d][u.name][u.index] = Len(writes) + 1]
    /\ writes' = Append(writes, t)
    /\ Becomes(t, [Top(t) EXCEPT !.update = None])
    /\ UNCHANGED <<scopes, captured, cancelled>>

OpenHandlers ==
    LET In(u) == FoldSet(LAMBDA k, sum : sum + Len(threads[u][k].handlers), 0, DOMAIN threads[u])
    IN  FoldSet(LAMBDA u, sum : sum + In(u), 0, DOMAIN threads)

(* PUSH_HANDLER and POP_HANDLER.                                           *)
PushHandler(t) ==
    /\ Running(t) /\ OpenHandlers < MaxHandlers
    /\ Becomes(t, [Top(t) EXCEPT !.handlers = Append(@, Top(t).env)])
    /\ UNCHANGED <<scopes, store, captured, cancelled>>

PopHandler(t) ==
    /\ Running(t) /\ Top(t).handlers # <<>> /\ Top(t).env = Top(t).handlers[Len(Top(t).handlers)]
    /\ Becomes(t, [Top(t) EXCEPT !.handlers = SubSeq(@, 1, Len(@) - 1)])
    /\ UNCHANGED <<scopes, store, captured, cancelled>>

(* A VerseFailure leaves frames until one has a handler, which restores    *)
(* its environment.                                                        *)
Catchers(t) == {k \in DOMAIN threads[t] : threads[t][k].handlers # <<>>}
Caught(t) ==
    /\ Running(t)
    /\ \E k \in Catchers(t) :
        /\ \A j \in Catchers(t) : j <= k
        /\ LET hs == threads[t][k].handlers
               f  == [threads[t][k] EXCEPT !.env = hs[Len(hs)],
                                           !.handlers = SubSeq(hs, 1, Len(hs) - 1)]
           IN  threads' = [threads EXCEPT ![t] = Append(SubSeq(threads[t], 1, k - 1), f)]
    /\ UNCHANGED <<scopes, store, captured, cancelled>>

(* No frame has one: the task ends failed, or, the main one, the program.  *)
Uncaught(t) ==
    /\ Running(t) /\ Catchers(t) = {}
    /\ threads' = [u \in DOMAIN threads |-> IF u = t \/ t = Main THEN <<>> ELSE threads[u]]
    /\ UNCHANGED <<scopes, store, captured, cancelled>>

(* A VerseRuntimeError (an undefined name, an index out of range, ...) is  *)
(* caught by no frame and by no task: the program ends.                    *)
Abort(t) ==
    /\ Running(t)
    /\ threads' = [u \in DOMAIN threads |-> <<>>]
    /\ UNCHANGED <<scopes, store, captured, cancelled>>

(* MAKE_FUNCTION: any frame may come to call what was made.                *)
MakeFunction(t) ==
    /\ Running(t)
    /\ captured' = captured \cup {Top(t).env}
    /\ UNCHANGED <<scopes, store, threads, cancelled>>

(* Mutant of CalleeScope: the callee sees its caller's variables.          *)
CallerScope(t, c) == ScopeOf(Top(t).env, NextScope, NextScope)

(* CALL of a function made in scope c, whose parameters are ns.            *)
CalleeScope(t, c) == ScopeOf(c, NextScope, NextScope)
Call(t, c, ns) ==
    /\ Running(t) /\ CanOpen(1) /\ Len(threads[t]) < MaxFrames
    /\ ns # {} => CanWrite
    /\ scopes' = Append(scopes, CalleeScope(t, c))
    /\ cells'  = Append(cells, [n \in ns |-> Written])
    /\ latest' = Append(latest, [n \in ns |-> Written])
    /\ writes' = IF ns = {} THEN writes ELSE Append(writes, t)
    /\ threads' = [threads EXCEPT ![t] = Append(@, NewFrame(NextScope))]
    /\ UNCHANGED <<captured, cancelled>>

(* RETURN and the end of the code.                                         *)
Return(t) ==
    /\ Running(t) /\ AtStatement(Top(t))
    /\ threads' = [threads EXCEPT ![t] = SubSeq(@, 1, Len(@) - 1)]
    /\ UNCHANGED <<scopes, store, captured, cancelled>>

(* The body of a spawn and each branch of a sync or race is a function     *)
(* made where it stands and started in a thread of its own, n of them here.*)
Branches(t, n) ==
    /\ Running(t) /\ CanOpen(n) /\ Len(threads) + n <= MaxThreads
    /\ scopes' = scopes \o [k \in 1..n |-> ScopeOf(Top(t).env, Len(scopes) + k, Len(scopes) + k)]
    /\ cells'  = cells \o [k \in 1..n |-> NoNames]
    /\ latest' = latest \o [k \in 1..n |-> NoNames]
    /\ captured' = captured \cup {Top(t).env}
    /\ UNCHANGED <<cancelled, writes>>

(* Mutant of Spawn: the new thread runs in its creator's environment.      *)
SpawnInPlace(t) ==
    /\ Branches(t, 1)
    /\ threads' = Append(threads, <<NewFrame(Top(t).env)>>)

(* SPAWN, SYNC and RACE.                                                   *)
Spawn(t) ==
    /\ Branches(t, 1)
    /\ threads' = Append(threads, <<NewFrame(NextScope)>>)

Fork(t, mode, n) ==
    /\ Branches(t, n)
    /\ LET tasks == Len(threads) + 1 .. Len(threads) + n
           f     == [Top(t) EXCEPT !.waits = [mode |-> mode, tasks |-> tasks]]
       IN  threads' = [threads EXCEPT ![t][Len(threads[t])] = f]
                      \o [k \in 1..n |-> <<NewFrame(Len(scopes) + k)>>]

(* A sync goes on when all its branches ended; a race when the first did,  *)
(* and the others are no longer scheduled.  If the branch that decides     *)
(* failed so does the frame: the next step is then Caught or Uncaught.     *)
Waiting(t, mode) == ~ Ended(t) /\ Top(t).waits.mode = mode
Awaited(t) == Top(t).waits.tasks

SyncDone(t) ==
    /\ Waiting(t, "sync")
    /\ \A u \in Awaited(t) : Ended(u)
    /\ Becomes(t, [Top(t) EXCEPT !.waits = NoWait])
    /\ UNCHANGED <<scopes, store, captured, cancelled>>

RaceDone(t) ==
    /\ Waiting(t, "race")
    /\ \E u \in Awaited(t) : Ended(u)
    /\ LET losers == {u \in Awaited(t) : ~ Ended(u)}
           f      == [Top(t) EXCEPT !.waits = NoWait]
       IN  /\ threads' = [u \in DOMAIN threads |->
                             IF u \in losers THEN <<>>
                             ELSE IF u = t THEN [threads[t] EXCEPT ![Len(threads[t])] = f]
                             ELSE threads[u]]
           /\ cancelled' = cancelled \cup losers
    /\ UNCHANGED <<scopes, store, captured>>

Done ==
    /\ \A t \in DOMAIN threads : Ended(t)
    /\ UNCHANGED vars

Next ==
    \/ \E t \in DOMAIN threads :
        \/ PushScope(t) \/ PopScope(t)
        \/ \E n \in Names : \/ Define(t, n) \/ SetWhole(t, n)
                            \/ \E i \in Indexes : BeginUpdate(t, n, i)
        \/ EndUpdate(t)
        \/ PushHandler(t) \/ PopHandler(t)
        \/ Caught(t) \/ Uncaught(t) \/ Abort(t)
        \/ MakeFunction(t)
        \/ \E c \in captured, ns \in SUBSET Names : Call(t, c, ns)
        \/ Return(t)
        \/ Spawn(t)
        \/ \E mode \in {"sync", "race"}, n \in 1..MaxThreads : Fork(t, mode, n)
        \/ SyncDone(t) \/ RaceDone(t)
    \/ Done

Spec == Init /\ [][Next]_vars
----------------------------------------------------------------------------
Scopes    == DOMAIN scopes
ScopeIds  == 1..MaxScopes
ThreadIds == 1..MaxThreads
ScopeType == [parent : 0..MaxScopes, sees : SUBSET ScopeIds, opener : ScopeIds]
Arrays    == [Indexes -> 1..MaxWrites]
Bindings  == UNION {[ns -> Arrays] : ns \in SUBSET Names}
Updates   == [env : ScopeIds, name : Names, index : Indexes, from : ScopeIds, old : Arrays]
FrameType == [base : ScopeIds, env : ScopeIds, handlers : Seq(ScopeIds), update : Seq(Updates),
              waits : [mode : {"none", "sync", "race"}, tasks : SUBSET ThreadIds]]

(* The types of the variables.                                             *)
TypeOK ==
    /\ scopes \in Seq(ScopeType) /\ Len(scopes) <= MaxScopes
    /\ cells \in Seq(Bindings) /\ Len(cells) = Len(scopes)
    /\ latest \in Seq(Bindings) /\ Len(latest) = Len(scopes)
    /\ threads \in Seq(Seq(FrameType)) /\ Len(threads) <= MaxThreads
    /\ captured \subseteq Scopes
    /\ cancelled \subseteq ThreadIds
    /\ writes \in Seq(DOMAIN threads) /\ Len(writes) <= MaxWrites

(* However calls, failures and tasks interleave, a frame's current         *)
(* environment and those its handlers restore were created by that frame,  *)
(* and no two frames, of one task or of two, started in the same one: a    *)
(* declaration never lands among the locals of another call or branch.     *)
OpenedBy(f) == {s \in Scopes : scopes[s].opener = f.base}
FramesOwnScopes ==
    /\ \A t \in DOMAIN threads : \A k \in DOMAIN threads[t] :
        LET f == threads[t][k] IN {f.env} \cup Held(f) \subseteq OpenedBy(f)
    /\ \A t, u \in DOMAIN threads :
        \A k \in DOMAIN threads[t], j \in DOMAIN threads[u] :
            threads[t][k].base = threads[u][j].base => t = u /\ k = j

(* While `set A[i] = e` evaluates e, A goes on naming the variable that    *)
(* was loaded, if that is a local of the frame: what e calls and what the  *)
(* other tasks declare meanwhile does not redirect the write.              *)
LocalUpdatesReturn ==
    \A t \in DOMAIN threads : \A k \in DOMAIN threads[t] :
        LET f == threads[t][k]
            u == f.update[1]
        IN  f.update # None /\ u.from \in OpenedBy(f) => Denotes(u.env, u.name) = u.from

(* A variable that no function reaches, because none was made in its scope *)
(* or within it, holds in every element what was assigned to that element  *)
(* last: between the load and the store of `set A[i] = e` nothing but e    *)
(* itself can assign to it.                                                *)
Reachable == UNION {scopes[c].sees : c \in captured}
PrivateWritesStand ==
    \A s \in Scopes \ Reachable : cells[s] = latest[s]

(* A write of a branch that lost a race stands until something is assigned *)
(* to that element again (docs/differences-from-verse.md:112-114).         *)
LosersWritesStand ==
    \A s \in Scopes : \A n \in DOMAIN cells[s] : \A i \in Indexes :
        writes[latest[s][n][i]] \in cancelled => cells[s][n][i] = latest[s][n][i]
============================================================================

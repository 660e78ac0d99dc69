---------------------------- MODULE ToolExecutor ----------------------------
(***************************************************************************)
(* One batch of tool calls: the ToolScheduler of                           *)
(* agent/toolExecutor/toolScheduler.ts and the part of                     *)
(* toolExecutorService.ts that prepares the calls of a model step, runs    *)
(* them through the scheduler, finalises their results and stops.          *)
(*                                                                         *)
(* A call is the number of its place in the step.  The scheduler's arrays  *)
(* hold calls in the order executeBatch added them, which is the order of  *)
(* their numbers, so they are kept as sets.  What the tools do while they  *)
(* run is outside; they end when they like, or never.                      *)
(***************************************************************************)
EXTENDS Naturals, FiniteSets

CONSTANTS
    NumCalls,       \* the calls of the step
    AccessLists,    \* the ToolAccesses a call may declare
    Paths           \* the files they are about

Calls == 1..NumCalls

\* A ToolResourceAccess: everything, or the files a path stands for (one
\* file, or, when recursive, all below it) and whether they are written.
Access == [all : BOOLEAN, writes : BOOLEAN, covers : SUBSET Paths]

ASSUME NumCallsAssumption == NumCalls \in Nat
ASSUME AccessAssumption == AccessLists \subseteq SUBSET Access

VARIABLES
    accesses,   \* the accesses of each call's task
    phase,      \* where execute() is
    at,         \* where each call is
    resolved,   \* calls whose task only returns a ready result
    stopBatch,  \* a prepared call asked to skip the calls after it
    signal,     \* the turn's abort signal
    scan,       \* calls startQueuedTasks has still to look at
    running,    \* calls whose tool really is executing
    abandoned,  \* calls given up after the abort grace
    finalizing, \* results taken from the batch, in finalizeTimedResult
    delivered   \* results yielded to the loop

vars == <<accesses, phase, at, resolved, stopBatch, signal, scan, running,
          abandoned, finalizing, delivered>>

Active == {c \in Calls : at[c] \in {"active", "settled"}}
Queued == {c \in Calls : at[c] = "queued"}
Settled == {c \in Calls : at[c] \in {"settled", "finished"}}

-----------------------------------------------------------------------------
\* resourceAccessesConflict: "all" against anything, or overlapping files of
\* which one is written.
Clash(a, b) ==
    \/ a.all
    \/ b.all
    \/ /\ a.writes \/ b.writes
       /\ a.covers \cap b.covers # {}

Conflict(c, d) == \E a \in accesses[c], b \in accesses[d] : Clash(a, b)

\* As one might write it, blind to the calls that wait already.
BlockedByActive(c, queuedBefore) == \E d \in Active : Conflict(c, d)

\* isBlocked: an active call conflicts, or one queued before this one.
IsBlocked(c, queuedBefore) == \E d \in Active \cup queuedBefore : Conflict(c, d)

\* As it would be without the check of the signal.
ExecutesAnyway(c) == c \notin resolved

\* start(): the task's asynchronous start() runs at once up to the tool's
\* own execute, which runSingleExecution skips once the signal is aborted.
Executes(c) == c \notin resolved /\ ~signal

Start(c) ==
    /\ at' = [at EXCEPT ![c] = "active"]
    /\ running' = IF Executes(c) THEN running \cup {c} ELSE running

\* As it would be if finish() forgot the waiting calls, or looked at every call.
NoRescan(c) == {}
RescanAll(c) == Queued \cup Active

\* finish(): the call leaves the active list and every waiting call is looked
\* at again.
RescanAfter(c) == Queued

\* Nothing synchronous is under way.
Idle == phase # "adding" /\ scan = {}

-----------------------------------------------------------------------------
Init ==
    /\ accesses = [c \in Calls |-> {}]
    /\ phase = "preparing"
    /\ at = [c \in Calls |-> "new"]
    /\ resolved = {}
    /\ stopBatch = FALSE
    /\ signal = FALSE
    /\ scan = {}
    /\ running = {}
    /\ abandoned = {}
    /\ finalizing = {}
    /\ delivered = {}

\* prepareToolCall, one call after the other.  A rejected call, one that does
\* not resolve or is vetoed, and one that meets an abort on the way get a ready
\* result, which has no accesses.  A synthetic result and a runnable call may
\* ask to stop the batch: the calls after it are skipped.
Prepare(c) ==
    /\ phase = "preparing"
    /\ at[c] = "new"
    /\ \A d \in Calls : d < c => at[d] # "new"
    /\ at' = [at EXCEPT ![c] = "prepared"]
    /\ \E ready, stops \in BOOLEAN :
          /\ stopBatch => ready
          /\ stopBatch => ~stops
          /\ resolved' = IF ready THEN resolved \cup {c} ELSE resolved
          /\ \E list \in IF ready THEN {{}} ELSE AccessLists :
                accesses' = [accesses EXCEPT ![c] = list]
          /\ stopBatch' = (stopBatch \/ stops)
    /\ UNCHANGED <<phase, signal, scan, running, abandoned,
                   finalizing, delivered>>

\* A hook of the preparation throws: execute() throws and nothing was added.
PrepareThrows ==
    /\ phase = "preparing"
    /\ \E c \in Calls : at[c] = "new"
    /\ phase' = "done"
    /\ UNCHANGED <<accesses, at, resolved, stopBatch, signal, scan, running,
                   abandoned, finalizing, delivered>>

\* All are prepared: executeBatch begins.
BeginBatch ==
    /\ phase = "preparing"
    /\ \A c \in Calls : at[c] = "prepared"
    /\ phase' = "adding"
    /\ UNCHANGED <<accesses, at, resolved, stopBatch, signal, scan, running,
                   abandoned, finalizing, delivered>>

\* scheduler.add, for each task in turn.
Add(c) ==
    /\ phase = "adding"
    /\ at[c] = "prepared"
    /\ \A d \in Calls : d < c => at[d] # "prepared"
    /\ IF IsBlocked(c, Queued)
       THEN at' = [at EXCEPT ![c] = "queued"] /\ UNCHANGED running
       ELSE Start(c)
    /\ UNCHANGED <<accesses, phase, resolved, stopBatch, signal, scan,
                   abandoned, finalizing, delivered>>

AllAdded ==
    /\ phase = "adding"
    /\ \A c \in Calls : at[c] # "prepared"
    /\ phase' = "draining"
    /\ UNCHANGED <<accesses, at, resolved, stopBatch, signal, scan, running,
                   abandoned, finalizing, delivered>>

-----------------------------------------------------------------------------
\* A task with no tool behind it, or started after the abort, has its result
\* at once.
ReadyResult(c) ==
    /\ Idle
    /\ at[c] = "active"
    /\ c \notin running
    /\ at' = [at EXCEPT ![c] = "settled"]
    /\ UNCHANGED <<accesses, phase, resolved, stopBatch, signal, scan, running,
                   abandoned, finalizing, delivered>>

\* A tool returns or throws; both are a result (runSingleExecution).  One that
\* was given up is no longer listened to.
ToolEnds(c) ==
    /\ Idle
    /\ c \in running
    /\ running' = running \ {c}
    /\ at' = IF at[c] = "active" THEN [at EXCEPT ![c] = "settled"] ELSE at
    /\ UNCHANGED <<accesses, phase, resolved, stopBatch, signal, scan,
                   abandoned, finalizing, delivered>>

\* raceWithAbortGrace: the grace after an abort is over and the tool has not
\* ended.  Its call gets a result; the tool is still executing.
GraceExpires(c) ==
    /\ Idle
    /\ signal
    /\ at[c] = "active"
    /\ c \in running
    /\ at' = [at EXCEPT ![c] = "settled"]
    /\ abandoned' = abandoned \cup {c}
    /\ UNCHANGED <<accesses, phase, resolved, stopBatch, signal, scan, running,
                   finalizing, delivered>>

\* start()'s finally, a moment after the result: finish() and the beginning
\* of startQueuedTasks.
Finish(c) ==
    /\ Idle
    /\ at[c] = "settled"
    /\ at' = [at EXCEPT ![c] = "finished"]
    /\ scan' = RescanAfter(c)
    /\ UNCHANGED <<accesses, phase, resolved, stopBatch, signal, running,
                   abandoned, finalizing, delivered>>

\* startQueuedTasks looks at the next waiting call; the ones before it that
\* go on waiting are the queued calls with a smaller number.
LookAt(c) ==
    /\ c \in scan
    /\ \A d \in scan : c <= d
    /\ scan' = scan \ {c}
    /\ IF IsBlocked(c, {d \in Queued : d < c})
       THEN UNCHANGED <<at, running>>
       ELSE Start(c)
    /\ UNCHANGED <<accesses, phase, resolved, stopBatch, signal, abandoned,
                   finalizing, delivered>>

-----------------------------------------------------------------------------
\* executeBatch yields a settled result; execute() begins to finalise it and
\* asks for the next one.
TakeResult(c) ==
    /\ Idle
    /\ phase = "draining"
    /\ c \in Settled \ (finalizing \cup delivered)
    /\ finalizing' = finalizing \cup {c}
    /\ UNCHANGED <<accesses, phase, at, resolved, stopBatch, signal, scan,
                   running, abandoned, delivered>>

\* finalizeTimedResult ends and the result is yielded.
Deliver(c) ==
    /\ Idle
    /\ phase \in {"draining", "closing"}
    /\ c \in finalizing
    /\ finalizing' = finalizing \ {c}
    /\ delivered' = IF phase = "draining" THEN delivered \cup {c} ELSE delivered
    /\ UNCHANGED <<accesses, phase, at, resolved, stopBatch, signal, scan,
                   running, abandoned>>

\* A finalisation rejects, or the loop stops listening: the finally blocks
\* wait for what was begun.
StopEarly ==
    /\ Idle
    /\ phase = "draining"
    /\ finalizing \cup delivered # {}
    /\ phase' = "closing"
    /\ UNCHANGED <<accesses, at, resolved, stopBatch, signal, scan, running,
                   abandoned, finalizing, delivered>>

\* What the finally blocks wait for: executeBatch's allSettled over every
\* task of the batch, and execute's over the finalisations.
AllAwaited == Settled = Calls /\ finalizing = {}

\* All results are delivered, or everything begun has settled.
End ==
    /\ Idle
    /\ \/ phase = "draining" /\ delivered = Calls
       \/ phase = "closing"
    /\ AllAwaited
    /\ phase' = "done"
    /\ UNCHANGED <<accesses, at, resolved, stopBatch, signal, scan, running,
                   abandoned, finalizing, delivered>>

\* The turn is cancelled, at any moment.
Abort ==
    /\ Idle
    /\ phase # "done"
    /\ ~signal
    /\ signal' = TRUE
    /\ UNCHANGED <<accesses, phase, at, resolved, stopBatch, scan, running,
                   abandoned, finalizing, delivered>>

-----------------------------------------------------------------------------
\* The steps of the executor itself, and of hooks that return.
Proceed ==
    \/ \E c \in Calls : Prepare(c)
    \/ BeginBatch
    \/ \E c \in Calls : Add(c)
    \/ AllAdded
    \/ \E c \in Calls : ReadyResult(c)
    \/ \E c \in Calls : GraceExpires(c)
    \/ \E c \in Calls : Finish(c)
    \/ \E c \in Calls : LookAt(c)
    \/ \E c \in Calls : TakeResult(c)
    \/ \E c \in Calls : Deliver(c)
    \/ End

Next ==
    \/ Proceed
    \/ PrepareThrows
    \/ \E c \in Calls : ToolEnds(c)
    \/ StopEarly
    \/ Abort

\* Nothing is said of the tools' ends: a tool may execute for ever.  Every
\* step of Proceed uses up something, so fairness of the whole is enough.
Spec == Init /\ [][Next]_vars /\ WF_vars(Proceed)

-----------------------------------------------------------------------------
TypeOK ==
    /\ accesses \in [Calls -> AccessLists \cup {{}}]
    /\ phase \in {"preparing", "adding", "draining", "closing", "done"}
    /\ at \in [Calls -> {"new", "prepared", "queued", "active", "settled",
                         "finished"}]
    /\ resolved \subseteq Calls
    /\ stopBatch \in BOOLEAN
    /\ signal \in BOOLEAN
    /\ scan \subseteq Queued
    /\ running \subseteq Calls
    /\ abandoned \subseteq Calls
    /\ finalizing \subseteq Calls
    /\ delivered \subseteq Calls

\* toolScheduler.ts:5-6: whenever the scheduler is at rest, a call waits for
\* exactly one reason: a call before it that it conflicts with has not
\* finished.  So no call overtakes one it conflicts with, none waits for
\* calls it has nothing to do with, and none is forgotten in the queue.
WaitsOnlyForConflicts ==
    Idle => \A c \in Active \cup Queued :
               c \in Queued <=>
                  \E d \in Active \cup Queued : d < c /\ Conflict(c, d)

\* Two tools that really execute at the same time never conflict, tools that
\* were given up after an abort and still run included; and when execute() is
\* over, only such given-up tools may still be executing, so that the next
\* step's calls meet no other.
ToolsNeverCollide ==
    /\ \A c, d \in running : c # d => ~Conflict(c, d)
    /\ phase = "done" => running \subseteq abandoned

\* An abort ends the batch, even when tools never return: each running tool
\* is given up after its grace, and the calls that waited do not execute.
AbortEndsBatch == signal ~> (phase = "done")
=============================================================================

------------------------------- MODULE AgentLoop -------------------------------
(***************************************************************************)
(* The agent loop of agent-core-v2, AgentLoopService in                    *)
(* packages/agent-core-v2/src/agent/loop/loopService.ts, with its step     *)
(* queue (stepRequestQueue.ts, stepRequest.ts), the turn clock (turnOps.ts)*)
(* and the two services that drive it from its hooks: loopContinuation and *)
(* stepRetry.                                                              *)
(*                                                                         *)
(* A client hands the loop a step request.  The request is admitted to a   *)
(* turn (a new one, the active one, or whichever comes next), waits in the *)
(* turn's queue as a step, is materialized into the context when the loop  *)
(* takes it, and its step is settled.  Turns queue behind the active one.  *)
(*                                                                         *)
(* JavaScript runs one synchronous block at a time, so an action here is a *)
(* block between two awaits, with every call the block makes.  The only    *)
(* block cut into several actions is the loop of releaseQuiescence over    *)
(* the held admissions (Replay): until it is done nothing else is enabled. *)
(*                                                                         *)
(* A definition under "Bug:" is not part of the specification.  It is the  *)
(* next definition with a mistake in it, one that a property must expose   *)
(* (the README tells which).                                               *)
(***************************************************************************)
EXTENDS Integers, Sequences, FiniteSets, TurnOps

CONSTANTS
    Prompts,        \* newTurn: user prompts, retries, goal continuations
    Notices,        \* activeOrNewTurn, agent-scoped: injected steers, task notifications
    Steers,         \* activeTurnOnly, agent-scoped: steers of the running turn
    FollowUps,      \* activeOrNextTurn, mergeable: stop-hook continuations
    Continuations,  \* activeOrNextTurn: the step after a step that ran tools
    None,           \* no request, no turn
    MaxSteps,       \* loopControl.maxStepsPerTurn
    MaxAttempts,    \* loopControl.maxRetriesPerStep
    MaxLeases       \* bound: quiescence leases held at once

Requests == Prompts \cup Notices \cup Steers \cup FollowUps \cup Continuations

\* A turn is named by the request it was created for.
Turns == Prompts \cup Notices

Mergeable  == Notices \cup Steers \cup FollowUps
TurnScoped == Prompts \cup FollowUps \cup Continuations

ASSUME RequestsAssumption ==
    /\ IsFiniteSet(Requests)
    /\ None \notin Requests /\ None \notin Nat
    /\ Turns \cap (Steers \cup FollowUps \cup Continuations) = {}
    /\ Prompts \cap Notices = {}
    /\ Steers \cap (FollowUps \cup Continuations) = {}
    /\ FollowUps \cap Continuations = {}

ASSUME BoundsAssumption ==
    MaxSteps \in Nat \ {0} /\ MaxAttempts \in Nat \ {0} /\ MaxLeases \in Nat

VARIABLES
    request,     \* per request: its state, its receipt, and the step made of it
    turn,        \* per turn: the TurnJob
    active,      \* activeTurnJob
    pending,     \* pendingTurns
    standalone,  \* standaloneStepQueue
    held,        \* heldAdmissions
    replaying,   \* the held admissions releaseQuiescence has not replayed yet
    leases,      \* quiescenceDepth
    clock,       \* the wire model of the turn clock
    reserved,    \* nextReservedTurnId (0 stands for undefined)
    run,         \* the active turn's run(): where it awaits, and its locals
    context,     \* the context memory: per step, the requests it materialized
    waiting,     \* some promise of settled() is unresolved
    disposing

admissionVars == <<standalone, held, replaying, leases>>
turnVars      == <<turn, active, pending, clock, reserved, run, context>>
vars == <<request, turnVars, admissionVars, waiting, disposing>>
--------------------------------------------------------------------------------
(***************************************************************************)
(* Data: requests and their steps, queues, jobs, and the active run.       *)
(***************************************************************************)

StepState == {"none", "queued", "running", "completed", "cancelled"}

\* A request (pending, materialized or aborted once created), the promise its
\* receipt holds, and the one step that stands for it in its turn's job.
RequestRecord ==
    [state   : {"new", "pending", "materialized", "aborted"},
     receipt : {"none", "waiting", "assigned", "rejected"},
     turn    : Turns \cup {None},
     step    : StepState,
     result  : {"none", "completed", "cancelled"}]

\* A step queue.  takeNextBatch never compares the position of a mergeable
\* request with that of a non-mergeable one, so the two orders are kept apart.
\* Aborted requests stay until they are reached, and count for nothing.
Queue == [drivers : Seq(Requests), merges : Seq(Requests)]

EmptyQueue == [drivers |-> <<>>, merges |-> <<>>]

EnqueueTail(q, r) ==
    IF r \in Mergeable THEN [q EXCEPT !.merges = Append(@, r)]
                       ELSE [q EXCEPT !.drivers = Append(@, r)]

EnqueueHead(q, r) ==
    IF r \in Mergeable THEN [q EXCEPT !.merges = <<r>> \o @]
                       ELSE [q EXCEPT !.drivers = <<r>> \o @]

Entries(s) == {s[i] : i \in DOMAIN s}

\* The requests of a queue that are not aborted, in request map rq.
Live(q, rq) ==
    {r \in Entries(q.drivers) \cup Entries(q.merges) : rq[r].state # "aborted"}

\* The first live request of sequence s, given that there is one.
FirstLive(s, rq) ==
    CHOOSE i \in DOMAIN s :
        /\ rq[s[i]].state # "aborted"
        /\ \A j \in 1 .. (i - 1) : rq[s[j]].state = "aborted"

\* takeNextBatch: the first non-mergeable request drives, or the first of all
\* if there is none; every mergeable request joins its step; the rest stays.
TakeNextBatch(q, rq) ==
    LET driven == \E r \in Entries(q.drivers) : rq[r].state # "aborted"
        line   == IF driven THEN q.drivers ELSE q.merges
        i      == FirstLive(line, rq)
    IN  [driver  |-> line[i],
         members |-> {line[i]} \cup {r \in Entries(q.merges) : rq[r].state # "aborted"},
         rest    |-> [drivers |-> IF driven THEN SubSeq(line, i + 1, Len(line)) ELSE <<>>,
                      merges  |-> <<>>]]

Job ==
    [id      : Nat,
     state   : {"none", "queued", "running", "completed", "failed", "cancelled"},
     aborted : BOOLEAN,
     queue   : Queue]

NoJob == [id |-> 0, state |-> "none", aborted |-> FALSE, queue |-> EmptyQueue]

\* phase is the await at which run() stands: a step's hooks, request and tools
\* ("executing"), its onDidFinishStep hooks ("finishing"), an error handler
\* ("recovering"), the microtasks after a handled error ("resuming") or after
\* run() has returned ("ended").
Run ==
    [phase    : {"idle", "executing", "finishing", "recovering", "resuming", "ended"},
     driver   : Requests \cup {None},
     steps    : Nat,
     finish   : {"none", "completed", "tool_calls", "filtered"},
     failed   : Requests \cup {None},
     attempts : Nat,
     result   : {"none", "completed", "failed", "cancelled"}]

IdleRun ==
    [phase |-> "idle", driver |-> None, steps |-> 0, finish |-> "none",
     failed |-> None, attempts |-> 0, result |-> "none"]
--------------------------------------------------------------------------------
(***************************************************************************)
(* Steps.  These operators take the request map as it stands in the middle *)
(* of a block and return what the call leaves of it.                       *)
(***************************************************************************)

\* assignStep: each request of rs becomes a queued step of turn t.
AssignSteps(rq, rs, t) ==
    [r \in Requests |->
        IF r \in rs THEN [rq[r] EXCEPT !.turn = t, !.step = "queued", !.receipt = "assigned"]
                    ELSE rq[r]]

\* Bug: the receipt stays unanswered.
RejectSilently(rq, r) == rq

\* rejectAssignment.
Reject(rq, r) == [rq EXCEPT ![r].receipt = "rejected"]

\* StepRequest.abort: only a pending request can be aborted.
AbortRequests(rq, rs) ==
    [r \in Requests |->
        IF r \in rs /\ rq[r].state = "pending" THEN [rq[r] EXCEPT !.state = "aborted"]
                                               ELSE rq[r]]

Unsettled(rq, r) == rq[r].step \in {"queued", "running"}

\* Bug: the request of a cancelled step stays alive.
CancelStepsNotRequests(rq, rs) ==
    [r \in Requests |->
        IF r \in rs /\ Unsettled(rq, r)
        THEN [rq[r] EXCEPT !.step = "cancelled", !.result = IF @ = "none" THEN "cancelled" ELSE @]
        ELSE rq[r]]

\* Bug: a cancelled step leaves its result unresolved.
CancelStepsSilently(rq, rs) ==
    LET cancelled == {r \in rs : Unsettled(rq, r)}
        aborted   == AbortRequests(rq, cancelled)
    IN  [r \in Requests |->
            IF r \in cancelled THEN [aborted[r] EXCEPT !.step = "cancelled"] ELSE rq[r]]

\* cancelStep: the step is cancelled, its request aborted if it is not in the
\* context yet, and its result resolved unless it already is.
CancelSteps(rq, rs) ==
    LET cancelled == {r \in rs : Unsettled(rq, r)}
        aborted   == AbortRequests(rq, cancelled)
    IN  [r \in Requests |->
            IF r \in cancelled
            THEN [aborted[r] EXCEPT
                     !.step   = "cancelled",
                     !.result = IF @ = "none" THEN "cancelled" ELSE @]
            ELSE rq[r]]

\* Bug: a request taken once is not marked.
MaterializeUnmarked(rq, rs) == rq

\* materializeBatch: a request joins the context once, the first time it is taken.
Materialize(rq, rs) ==
    [r \in Requests |->
        IF r \in rs /\ rq[r].state = "pending" THEN [rq[r] EXCEPT !.state = "materialized"]
                                               ELSE rq[r]]

\* Bug: only the step of the turn's own request.
FirstStepOf(rq, t) == {t}

\* The steps of a job.
StepsOf(rq, t) == {r \in Requests : rq[r].turn = t}

\* Nothing active, queued or held: what settled() tests.
Idle == active = None /\ pending = <<>> /\ held = <<>>

\* Bug: the held admissions are looked at before one of them is removed.
MaybeSettleTooEarly(a, p, h) == waiting' = (waiting /\ ~(a = None /\ p = <<>> /\ held = <<>>))

\* maybeSettle: with active turn a, queued turns p and held admissions h.
MaybeSettle(a, p, h) == waiting' = (waiting /\ ~(a = None /\ p = <<>> /\ h = <<>>))

\* No synchronous block is under way.
Quiet == replaying = <<>>
--------------------------------------------------------------------------------
(***************************************************************************)
(* run(): each operator is the rest of a block, given the turn map ts, the *)
(* request map rq and the run record rn as the block has left them.        *)
(***************************************************************************)

\* Bug: the run keeps its driver.
EndRunKeepsDriver(t, ts, rq, rn, result) ==
    /\ run' = [rn EXCEPT !.phase = "ended", !.result = result]
    /\ request' = AbortRequests(rq, Live(ts[t].queue, rq) \cap TurnScoped)
    /\ turn' = ts
    /\ UNCHANGED context

\* run() returns: its finally clause aborts the turn-scoped requests still queued.
EndRun(t, ts, rq, rn, result) ==
    /\ run' = [rn EXCEPT !.phase = "ended", !.driver = None, !.result = result]
    /\ request' = AbortRequests(rq, Live(ts[t].queue, rq) \cap TurnScoped)
    /\ turn' = ts
    /\ UNCHANGED context

\* beginLoopStep takes a batch and executeLoopStep starts it.
ExecuteStep(t, ts, rq, rn) ==
    LET batch == TakeNextBatch(ts[t].queue, rq)
    IN  /\ turn' = [ts EXCEPT ![t].queue = batch.rest]
        /\ request' = Materialize([rq EXCEPT ![batch.driver].step = "running"], batch.members)
        /\ context' = Append(context, {r \in batch.members : rq[r].state = "pending"})
        /\ run' = [rn EXCEPT !.phase = "executing", !.driver = batch.driver,
                             !.steps = @ + 1, !.finish = "none"]

\* Bug: the signal of the turn is not checked.
BeginLoopStepRegardless(t, ts, rq, rn) ==
    LET empty == Live(ts[t].queue, rq) = {}
        spent == rn.steps >= MaxSteps
    IN  \/ empty /\ EndRun(t, ts, rq, rn, "completed")
        \/ ~empty /\ spent /\ EndRun(t, ts, rq, rn, "failed")
        \/ ~empty /\ ~spent /\ ExecuteStep(t, ts, rq, rn)

\* beginLoopStep: a cancelled turn, an empty queue and a spent step budget each
\* end the run instead.
BeginLoopStep(t, ts, rq, rn) ==
    LET empty == Live(ts[t].queue, rq) = {}
        spent == rn.steps >= MaxSteps
    IN  \/ ts[t].aborted /\ EndRun(t, ts, rq, rn, "cancelled")
        \/ ~ts[t].aborted /\ empty /\ EndRun(t, ts, rq, rn, "completed")
        \/ ~ts[t].aborted /\ ~empty /\ spent /\ EndRun(t, ts, rq, rn, "failed")
        \/ ~ts[t].aborted /\ ~empty /\ ~spent /\ ExecuteStep(t, ts, rq, rn)

\* startTurn: the clock advances, the turn runs, and its first step begins in
\* the same block.
StartTurn(t, ts, rq) ==
    /\ clock' = PromptTurn(clock)
    /\ active' = t
    /\ BeginLoopStep(t, [ts EXCEPT ![t].state = "running"], rq, IdleRun)

\* pumpTurns, called with no active turn and the turns of p queued.
PumpTurns(p, ts, rq) ==
    \/ /\ p # <<>> /\ leases = 0 /\ ~disposing
       /\ pending' = Tail(p)
       /\ StartTurn(Head(p), ts, rq)
    \/ /\ p = <<>> \/ leases > 0 \/ disposing
       /\ pending' = p
       /\ active' = None
       /\ turn' = ts
       /\ request' = rq
       /\ run' = IdleRun
       /\ UNCHANGED <<clock, context>>
--------------------------------------------------------------------------------
(***************************************************************************)
(* Admission: enqueue, admit, and the quiescence that holds admissions.    *)
(***************************************************************************)

\* Bug: the clock alone, without the ids reserved since.
ClockOnly(a, b) == a

LargerOf(a, b) == IF a >= b THEN a ELSE b

\* Bug: no standalone step moves.
StandaloneDropped(rq) == {}

\* moveStandaloneStepsTo: the requests of the standalone queue that move.
StandaloneMoved(rq) == Live(standalone, rq)

\* createAndQueueTurn: reserve an id, give the new job its own request and the
\* standalone ones, queue the job, and pump.
CreateAndQueueTurn(r, rq) ==
    LET id    == LargerOf(clock.next, reserved)
        own   == EnqueueTail(EmptyQueue, r)
        queue == [drivers |-> own.drivers \o standalone.drivers,
                  merges  |-> own.merges \o standalone.merges]
        ts    == [turn EXCEPT ![r] = [id |-> id, state |-> "queued", aborted |-> FALSE,
                                      queue |-> queue]]
        rq1   == AssignSteps(rq, {r} \cup StandaloneMoved(rq), r)
    IN  /\ reserved' = id + 1
        /\ standalone' = EmptyQueue
        /\ IF active = None
           THEN PumpTurns(Append(pending, r), ts, rq1)
           ELSE /\ pending' = Append(pending, r)
                /\ turn' = ts
                /\ request' = rq1
                /\ UNCHANGED <<active, clock, run, context>>

\* assignStep to the active job.
AssignToActive(r, rq) ==
    /\ turn' = [turn EXCEPT ![active].queue = EnqueueTail(@, r)]
    /\ request' = AssignSteps(rq, {r}, active)
    /\ UNCHANGED <<active, pending, clock, reserved, run, context, standalone>>

EnqueueStandalone(r, rq) ==
    /\ standalone' = EnqueueTail(standalone, r)
    /\ request' = rq
    /\ UNCHANGED turnVars

\* Bug: a follow-up always waits for the next turn.
AdmitNext(r, rq) ==
    \/ r \in Prompts /\ CreateAndQueueTurn(r, rq)
    \/ r \in Notices /\ active = None /\ CreateAndQueueTurn(r, rq)
    \/ r \in Notices \cup Steers /\ active # None /\ AssignToActive(r, rq)
    \/ r \in FollowUps \cup Continuations /\ EnqueueStandalone(r, rq)

\* admit.  Only a request for the active turn can be refused, when there is none.
Admit(r, rq) ==
    \/ r \in Prompts /\ CreateAndQueueTurn(r, rq)
    \/ r \in Notices /\ active = None /\ CreateAndQueueTurn(r, rq)
    \/ r \notin Prompts /\ active # None /\ AssignToActive(r, rq)
    \/ r \in FollowUps \cup Continuations /\ active = None /\ EnqueueStandalone(r, rq)

Refused(r) == r \in Steers /\ active = None

\* enqueue by a client: held while a lease is out, admitted otherwise.
Enqueue(r) ==
    LET rq == [request EXCEPT ![r].state = "pending", ![r].receipt = "waiting"]
    IN  /\ Quiet
        /\ ~disposing
        /\ request[r].state = "new"
        /\ \/ /\ leases > 0
              /\ held' = Append(held, r)
              /\ request' = rq
              /\ UNCHANGED <<turnVars, standalone>>
           \/ /\ leases = 0
              /\ Admit(r, rq)
              /\ UNCHANGED held
           \/ /\ leases = 0
              /\ Refused(r)
              /\ request' = Reject(rq, r)
              /\ UNCHANGED <<turnVars, standalone, held>>
        /\ UNCHANGED <<replaying, leases, waiting, disposing>>

\* Bug: granted while a turn is active.
AcquireWhileActive ==
    /\ Quiet
    /\ ~disposing
    /\ leases < MaxLeases
    /\ pending = <<>> /\ held = <<>> /\ Live(standalone, request) = {}
    /\ leases' = leases + 1
    /\ UNCHANGED <<request, turnVars, standalone, held, replaying, waiting, disposing>>

\* tryAcquireQuiescence: granted only when nothing runs and nothing waits.
AcquireQuiescence ==
    /\ Quiet
    /\ ~disposing
    /\ leases < MaxLeases
    /\ active = None
    /\ pending = <<>> /\ held = <<>> /\ Live(standalone, request) = {}
    /\ leases' = leases + 1
    /\ UNCHANGED <<request, turnVars, standalone, held, replaying, waiting, disposing>>

\* Bug: the held admissions are forgotten.
ReleaseLeaseOnly ==
    /\ Quiet
    /\ leases > 0
    /\ leases' = leases - 1
    /\ UNCHANGED <<request, turnVars, standalone, held, replaying, waiting, disposing>>

\* releaseQuiescence: the last lease hands the held admissions to Replay.
ReleaseQuiescence ==
    /\ Quiet
    /\ leases > 0
    /\ leases' = leases - 1
    /\ \/ /\ leases' > 0 \/ disposing
          /\ UNCHANGED <<held, replaying, waiting>>
       \/ /\ leases' = 0 /\ ~disposing
          /\ replaying' = held
          /\ held' = <<>>
          /\ MaybeSettle(active, pending, held)
    /\ UNCHANGED <<request, turnVars, standalone, disposing>>

\* One round of releaseQuiescence's loop; the pump after the last one settles.
Replay ==
    LET r == Head(replaying)
    IN  /\ replaying # <<>>
        /\ replaying' = Tail(replaying)
        /\ \/ Admit(r, request)
           \/ /\ Refused(r)
              /\ request' = Reject(AbortRequests(request, {r}), r)
              /\ UNCHANGED <<turnVars, standalone>>
        /\ IF replaying' = <<>> THEN MaybeSettle(active', pending', held) ELSE UNCHANGED waiting
        /\ UNCHANGED <<held, leases, disposing>>
--------------------------------------------------------------------------------
(***************************************************************************)
(* Cancellation, disposal and settled().                                   *)
(***************************************************************************)

RemoveFrom(s, i) == SubSeq(s, 1, i - 1) \o SubSeq(s, i + 1, Len(s))

\* abortRequest on a receipt whose request has no turn yet: it is dropped from
\* the held admissions, or left aborted in the standalone queue.
AbortReceipt(r) ==
    /\ Quiet
    /\ request[r].receipt = "waiting"
    /\ request' = Reject(AbortRequests(request, {r}), r)
    /\ IF r \in Entries(held)
       THEN /\ \E i \in DOMAIN held : held[i] = r /\ held' = RemoveFrom(held, i)
            /\ MaybeSettle(active, pending, held')
       ELSE UNCHANGED <<held, waiting>>
    /\ UNCHANGED <<turnVars, standalone, replaying, leases, disposing>>

\* Step.cancel, and abortRequest on a receipt that was assigned.
CancelStep(r) ==
    /\ Quiet
    /\ Unsettled(request, r)
    /\ request' = CancelSteps(request, {r})
    /\ UNCHANGED <<turnVars, admissionVars, waiting, disposing>>

\* cancel of the active turn: its signal is aborted, and its run notices later.
\* The turn.cancel it records names an id the clock has passed.
CancelActiveTurn ==
    /\ Quiet
    /\ active # None
    /\ ~turn[active].aborted
    /\ turn' = [turn EXCEPT ![active].aborted = TRUE]
    /\ clock' = CancelTurn(clock, turn[active].id)
    /\ UNCHANGED <<request, active, pending, reserved, run, context>>
    /\ UNCHANGED <<admissionVars, waiting, disposing>>

CancelledJobs(ts) ==
    [t \in Turns |->
        IF t \in ts THEN [turn[t] EXCEPT !.state = "cancelled", !.aborted = TRUE] ELSE turn[t]]

\* cancel of a queued turn: its id goes to the clock, all its steps are settled.
CancelQueuedTurn(i) ==
    LET t == pending[i]
    IN  /\ Quiet
        /\ pending' = RemoveFrom(pending, i)
        /\ clock' = CancelTurn(clock, turn[t].id)
        /\ request' = CancelSteps(request, StepsOf(request, t))
        /\ turn' = CancelledJobs({t})
        /\ MaybeSettle(active, pending', held)
        /\ UNCHANGED <<active, reserved, run, context, admissionVars, disposing>>

\* Bug: held admissions are dropped without an answer.
HomelessStandalone == Live(standalone, request)

\* What has no turn yet.
Homeless == Live(standalone, request) \cup Entries(held)

\* dispose: every queued turn is cancelled, the active one told to stop, and
\* whatever has no turn is refused.
Dispose ==
    LET queued == Entries(pending)
        rq     == CancelSteps(request, {r \in Requests : request[r].turn \in queued})
        jobs   == CancelledJobs(queued)
    IN  /\ Quiet
        /\ ~disposing
        /\ disposing' = TRUE
        /\ pending' = <<>>
        /\ clock' = CancelTurns(clock, {turn[t].id : t \in queued})
        /\ turn' = IF active = None THEN jobs ELSE [jobs EXCEPT ![active].aborted = TRUE]
        /\ request' = [r \in Requests |->
                          IF r \in Homeless
                          THEN [rq[r] EXCEPT !.state = "aborted", !.receipt = "rejected"]
                          ELSE rq[r]]
        /\ standalone' = EmptyQueue
        /\ held' = <<>>
        /\ MaybeSettle(active, <<>>, <<>>)
        /\ UNCHANGED <<active, reserved, run, context, replaying, leases>>

\* settled() returns an unresolved promise unless the loop is idle.
Settled ==
    /\ Quiet
    /\ ~Idle
    /\ waiting' = TRUE
    /\ UNCHANGED <<request, turnVars, admissionVars, disposing>>
--------------------------------------------------------------------------------
(***************************************************************************)
(* The active turn's run.  At(p): run() stands at await p.                 *)
(***************************************************************************)

At(p) == Quiet /\ active # None /\ run.phase = p

\* The signal a step runs under: the turn's or its own.
TurnAborted == turn[active].aborted
StepAborted == request[run.driver].step = "cancelled"

RunOnly == UNCHANGED <<active, pending, clock, reserved, admissionVars, waiting, disposing>>

\* The model answered, the tools ran and step.end is recorded; the
\* onDidFinishStep hooks start, the first of which resets the retry count.
\* Bound: tools are called only while a continuation request is left.
StepResponds(finish) ==
    /\ At("executing")
    /\ ~TurnAborted /\ ~StepAborted
    /\ finish = "tool_calls" => \E c \in Continuations : request[c].state = "new"
    /\ run' = [run EXCEPT !.phase = "finishing", !.finish = finish,
                          !.failed = None, !.attempts = 0]
    /\ UNCHANGED <<request, turn, context>>
    /\ RunOnly

\* Bug: a step listens to its own signal only.
StepAbortsAlone ==
    /\ At("executing") \/ At("finishing")
    /\ ~TurnAborted /\ StepAborted
    /\ run' = [run EXCEPT !.phase = "resuming", !.driver = None]
    /\ UNCHANGED <<request, turn, context>>
    /\ RunOnly

\* handleLoopCancellation: only the step was cancelled, and the run goes on.
\* An abort error from below (or a cancelled turn) ends the run.
StepAborts ==
    /\ At("executing") \/ At("finishing")
    /\ \/ /\ ~TurnAborted /\ StepAborted
          /\ run' = [run EXCEPT !.phase = "resuming", !.driver = None]
          /\ UNCHANGED <<request, turn, context>>
       \/ /\ TurnAborted \/ ~StepAborted
          /\ EndRun(active, turn, request, run, "cancelled")
    /\ RunOnly

\* stepRetry.recover: consecutive failures of one driver are counted.
Attempt == IF run.failed = run.driver THEN run.attempts + 1 ELSE 1

\* The step failed with an error its signal does not explain.  stepRetry
\* claims a retryable one, until the driver has used its attempts.
StepFails(retryable) ==
    /\ At("executing")
    /\ ~TurnAborted /\ ~StepAborted
    /\ \/ /\ retryable /\ Attempt < MaxAttempts
          /\ run' = [run EXCEPT !.phase = "recovering", !.failed = run.driver,
                                !.attempts = Attempt]
          /\ UNCHANGED <<request, turn, context>>
       \/ /\ ~retryable \/ Attempt >= MaxAttempts
          /\ EndRun(active, turn, request, run, "failed")
    /\ RunOnly

\* The backoff is over, or was cut short by the turn's signal.  A step
\* cancelled meanwhile is not retried, and the handler then disowns the error.
BackoffEnds ==
    /\ At("recovering")
    /\ \/ /\ TurnAborted
          /\ EndRun(active, turn, request, run, "cancelled")
       \/ /\ StepAborted
          /\ EndRun(active, turn, request, run, "failed")
       \/ /\ ~StepAborted
          /\ request' = [request EXCEPT ![run.driver].step = "queued"]
          /\ turn' = [turn EXCEPT ![active].queue = EnqueueHead(@, run.driver)]
          /\ run' = [run EXCEPT !.phase = "resuming", !.driver = None]
          /\ UNCHANGED context
    /\ RunOnly

\* The loop goes around after an error that was handled.
Resume ==
    /\ At("resuming")
    /\ BeginLoopStep(active, turn, request, run)
    /\ RunOnly

\* completeLoopStep.
CompleteStep(rq, r) ==
    [rq EXCEPT ![r].step = "completed", ![r].result = IF @ = "none" THEN "completed" ELSE @]

\* The hooks are done.  A filtered response fails the turn after its step has
\* completed, a hook that stops the turn ends it, and otherwise the next step
\* begins, for which the continuation hook has queued a request if tools ran.
StepEnds(stop) ==
    LET rq == CompleteStep(request, run.driver)
        rn == [run EXCEPT !.driver = None]
    IN  /\ At("finishing")
        /\ \/ /\ run.finish = "filtered"
              /\ EndRun(active, turn, rq, rn, IF TurnAborted THEN "cancelled" ELSE "failed")
           \/ /\ run.finish # "filtered" /\ stop
              /\ EndRun(active, turn, rq, rn, "completed")
           \/ /\ run.finish = "completed" /\ ~stop
              /\ BeginLoopStep(active, turn, rq, rn)
           \/ /\ run.finish = "tool_calls" /\ ~stop
              /\ \E c \in Continuations :
                    /\ request[c].state = "new"
                    /\ BeginLoopStep(active,
                          [turn EXCEPT ![active].queue = EnqueueTail(@, c)],
                          AssignSteps([rq EXCEPT ![c].state = "pending"], {c}, active),
                          rn)
        /\ RunOnly

\* Bug: the next turn is not started.
ReleaseWithoutPump ==
    /\ At("ended")
    /\ active' = None
    /\ run' = IdleRun
    /\ request' = CancelSteps(request, StepsOf(request, active))
    /\ turn' = [turn EXCEPT ![active].state = run.result]
    /\ MaybeSettle(None, pending, held)
    /\ UNCHANGED <<pending, clock, reserved, context, admissionVars, disposing>>

\* runTurn's finally: releaseActiveTurn cancels every step the turn leaves
\* unsettled, and the next turn starts in the same block.
ReleaseActiveTurn ==
    LET rq == CancelSteps(request, StepsOf(request, active))
        ts == [turn EXCEPT ![active].state = run.result]
    IN  /\ At("ended")
        /\ PumpTurns(pending, ts, rq)
        /\ MaybeSettle(None, pending, held)
        /\ UNCHANGED <<reserved, admissionVars, disposing>>
--------------------------------------------------------------------------------
Init ==
    /\ request = [r \in Requests |-> [state |-> "new", receipt |-> "none", turn |-> None,
                                      step |-> "none", result |-> "none"]]
    /\ turn = [t \in Turns |-> NoJob]
    /\ active = None
    /\ pending = <<>>
    /\ standalone = EmptyQueue
    /\ held = <<>> /\ replaying = <<>> /\ leases = 0
    /\ clock = InitClock
    /\ reserved = 0
    /\ run = IdleRun
    /\ context = <<>>
    /\ waiting = FALSE
    /\ disposing = FALSE

RunStep ==
    \/ \E finish \in {"completed", "tool_calls", "filtered"} : StepResponds(finish)
    \/ \E retryable \in BOOLEAN : StepFails(retryable)
    \/ StepAborts
    \/ BackoffEnds
    \/ Resume
    \/ \E stop \in BOOLEAN : StepEnds(stop)
    \/ ReleaseActiveTurn

Client ==
    \/ \E r \in Requests \ Continuations : Enqueue(r) \/ AbortReceipt(r)
    \/ \E r \in Requests : CancelStep(r)
    \/ CancelActiveTurn
    \/ \E i \in DOMAIN pending : CancelQueuedTurn(i)
    \/ AcquireQuiescence
    \/ Settled
    \/ Dispose

Next == RunStep \/ Client \/ ReleaseQuiescence \/ Replay

Spec == Init /\ [][Next]_vars
--------------------------------------------------------------------------------
(***************************************************************************)
(* Fairness.  What follows a cancellation is due to the code: every await  *)
(* of a step runs under the abort signal (the tool executor gives a tool   *)
(* two seconds), the backoff is a timer, hooks and microtasks run, and the *)
(* holder of a lease (undo) disposes it in a finally clause.  A model that *)
(* is not cancelled need not answer, and clients need not do anything.     *)
(***************************************************************************)
NoticeAbort == StepAborts /\ (TurnAborted \/ StepAborted)

FairSpec ==
    /\ Spec
    /\ WF_vars(NoticeAbort)
    /\ WF_vars(BackoffEnds)
    /\ WF_vars(Resume)
    /\ WF_vars(\E stop \in BOOLEAN : StepEnds(stop))
    /\ WF_vars(ReleaseActiveTurn)
    /\ WF_vars(ReleaseQuiescence)
    /\ WF_vars(Replay)
--------------------------------------------------------------------------------
(***************************************************************************)
(* Invariants.                                                             *)
(***************************************************************************)

\* The variables hold what the code's types say; a run is under way exactly
\* when a turn is active, and it has a driver exactly while a step is.
TypeOK ==
    /\ request \in [Requests -> RequestRecord]
    /\ turn \in [Turns -> Job]
    /\ active \in Turns \cup {None}
    /\ pending \in Seq(Turns)
    /\ standalone \in Queue
    /\ held \in Seq(Requests)
    /\ replaying \in Seq(Requests)
    /\ leases \in Nat
    /\ clock \in Clock
    /\ reserved \in Nat
    /\ run \in Run
    /\ context \in Seq(SUBSET Requests)
    /\ waiting \in BOOLEAN
    /\ disposing \in BOOLEAN
    /\ run.phase = "idle" <=> active = None
    /\ run.driver # None <=> run.phase \in {"executing", "finishing", "recovering"}

QueuedIds == {turn[pending[i]].id : i \in DOMAIN pending}

\* The ids reserved in memory and the persisted clock tell one story, though
\* turn.prompt records no id: every id from clock.next up to the last one
\* reserved is that of a queued turn or of a cancelled one, queued turns stand
\* in the order of their ids, and the active turn's id has been passed.
\* (reserveTurnId, startTurn, cancelQueuedTurn; turnOps.ts)
TurnIdsAccounted ==
    /\ \A i, j \in DOMAIN pending : i < j => turn[pending[i]].id < turn[pending[j]].id
    /\ QueuedIds \cap clock.cancelled = {}
    /\ QueuedIds \cup clock.cancelled = clock.next .. (reserved - 1)
    /\ active # None => turn[active].id < clock.next

\* A step whose result a caller may still await belongs to the active turn or
\* to a queued one: whatever ends a turn settles all its steps, the ones that
\* joined late, merged into another step or wait for a retry included.
\* (enqueueStep, cancelStep, completeLoopStep, releaseActiveTurn)
NoStepLeftUnsettled ==
    \A r \in Requests :
        request[r].turn # None /\ (Unsettled(request, r) \/ request[r].result = "none")
            => request[r].turn \in {active} \cup Entries(pending)

\* An unanswered receipt is one of a request that is still held, about to be
\* replayed, or standing in the standalone queue: every way out of these
\* resolves or rejects it.  (admit, abortRequest, releaseQuiescence, dispose)
ReceiptsAccounted ==
    \A r \in Requests :
        request[r].receipt = "waiting" <=>
            r \in Entries(held) \cup Entries(replaying) \cup Live(standalone, request)

\* settled() never misses its moment: while somebody waits on it, something is
\* active, queued or held.  (settled, maybeSettle and its callers)
NoLostWakeup == waiting => ~Idle \/ replaying # <<>>

\* While a lease is out no turn is active, queued or in the making, and
\* nothing stays held once the last lease is gone or the loop is disposed.
\* (tryAcquireQuiescence, releaseQuiescence, dispose)
QuiescenceIsQuiet ==
    /\ leases > 0 => active = None /\ pending = <<>> /\ Live(standalone, request) = {}
    /\ held # <<>> => leases > 0 /\ ~disposing

\* A request that waits for the next turn is never bypassed by one: as long
\* as it waits, no turn is active or queued.  (admit, moveStandaloneStepsTo)
NextTurnTakesStandalone ==
    Live(standalone, request) # {} => active = None /\ pending = <<>>

Delivered == UNION Entries(context)

\* A request enters the context in one step only, however often its step is
\* retried, and it does so exactly when it is materialized.
\* (takeNextBatch, materializeRequest, stepRetry's retry)
DeliveredOnce ==
    /\ \A i, j \in DOMAIN context : i # j => context[i] \cap context[j] = {}
    /\ \A r \in Requests : request[r].state = "materialized" <=> r \in Delivered

\* Once the loop is disposed and its last run is over, every promise it gave
\* out is settled.  (dispose; loop.test.ts:636)
DisposalSettlesAll ==
    disposing /\ active = None =>
        /\ pending = <<>> /\ held = <<>>
        /\ \A r \in Requests : ~Unsettled(request, r) /\ request[r].receipt # "waiting"
--------------------------------------------------------------------------------
(***************************************************************************)
(* Action properties.                                                      *)
(***************************************************************************)

\* The turn.prompt record of a turn that starts means the id the turn was
\* given when it was created, so a replay counts the same turns.
\* (startTurn and promptTurn)
StartTakesClockId ==
    [][active' # active /\ active' # None => turn'[active'].id = clock.next]_vars

\* What was cancelled or aborted before it reached the context never reaches
\* it, wherever it was waiting.  (cancelStep, abort, takeNextBatch)
CancelledNeverDelivered ==
    [][\A r \in Requests :
          /\ request[r].state = "aborted" \/ request[r].result = "cancelled"
          /\ r \notin Delivered
          => r \notin Delivered']_vars

\* Once its signal is aborted, a turn puts nothing more into the context: no
\* further step begins, through a retry or otherwise.  (beginLoopStep)
CancelStopsDelivery ==
    [][active # None /\ active' = active /\ turn[active].aborted => context' = context]_vars

\* Turns, seen from outside, are served as TurnQueue says.
Abstract == INSTANCE TurnQueue WITH
    NoTurn  <- None,
    issued  <- reserved,
    queued  <- QueuedIds,
    running <- IF active = None THEN None ELSE turn[active].id

TurnQueueRefinement == Abstract!Spec
--------------------------------------------------------------------------------
(***************************************************************************)
(* Liveness, under FairSpec.                                               *)
(***************************************************************************)

\* A turn that was told to stop stops, even if the model never answers.
\* (cancel, handleLoopCancellation, runTurn)
CancelledTurnEnds ==
    \A t \in Turns : turn[t].aborted ~> turn[t].state \in {"completed", "failed", "cancelled"}

\* The drain a removal awaits after cancelling everything comes to its end.
\* (agentLifecycleService.remove; dispose, settled)
DisposalDrains == disposing ~> active = None /\ ~waiting

\* A request held during quiescence is eventually admitted, refused or aborted.
\* (releaseQuiescence, abortRequest)
HeldIsReleased ==
    \A r \in Requests : r \in Entries(held) ~> r \notin Entries(held) \cup Entries(replaying)
--------------------------------------------------------------------------------
(***************************************************************************)
(* What the sources say and the code does not do.                          *)
(***************************************************************************)

\* stepRequestQueue.ts:11-13: "When a run ends, turn-scoped requests are
\* aborted while agent-scoped requests (steers) carry into the next turn."
AgentScopedCarriesOver ==
    [][\A r \in Notices \cup Steers :
          At("ended") /\ request[r].turn = active /\ request[r].state = "pending"
              /\ request[r].step = "queued"
          => request'[r].state # "aborted" \/ active' = active]_vars

\* loop.test.ts:597: "cancels a running step without cancelling its turn and
\* continues the next step".
StepCancelSparesTurn ==
    [][active # None /\ run.driver # None /\ StepAborted /\ ~TurnAborted
          => run'.result # "failed"]_vars
================================================================================

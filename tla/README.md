# MultiAI-CLI: specifications and proofs

TLA+ models of the concurrent core of MultiAI-CLI, checked with TLC and, where a
result should hold for every size of the system, proved with TLAPS. Paths below
are relative to `packages/agent-core-v2/src/agent/` unless they start with
`packages/`; in the sections on MiniDb they are relative to `packages/minidb/src/`.

Contents: [the system](#the-system) · [what is modelled](#what-is-modelled) ·
[how the code maps to the model](#how-the-code-maps-to-the-model) ·
[runs](#runs) · [fairness](#fairness) · [disagreements](#where-sources-and-code-disagree) ·
[proofs](#proofs) · [not modelled](#not-modelled) · [plan](#plan)

## The system

MultiAI-CLI is an agent that talks to language models and runs tools. A session
holds agents; an agent is a container of services around one **loop**. Everything
runs on Node's event loop: a block of synchronous code is never interrupted, and
every `await` lets any other block run in between. So the hard behaviours are not
data races but *stale decisions*: something is decided before an await, and is no
longer true after it.

| component | state | operations | interacts with | must be correct in |
|---|---|---|---|---|
| agent loop (`loop/loopService.ts`, `stepRequestQueue.ts`, `stepRequest.ts`) | queued turns, the active turn, a queue of step requests per turn, the requests waiting for a next turn, admissions held during quiescence, waiters of `settled()` | enqueue, abort, cancel (turn, step), acquire and release quiescence, settled, dispose, and the run of the active turn | prompt, goal, task, undo and compaction services call it; hooks and error handlers call back; the turn clock through the wire | one turn at a time, in order; every promise settled; each request delivered once or not at all; what is cancelled stays cancelled |
| turn clock (`loop/turnOps.ts`) | next id, ids cancelled ahead of it | turn.prompt, turn.cancel | written by the loop through the wire, rebuilt on restore | agrees with the ids reserved in memory; ids of begun turns are never reused |
| continuation, step retry (`loop/loopContinuationService.ts`, `stepRetry/stepRetryService.ts`) | failed driver and its attempts | hooks and an error handler of the loop | loop | a retried request is not delivered twice |
| wire service (`packages/agent-core-v2/src/wire/wireService.ts`) | models, restore phase, queue of re-entrant operations | dispatch, flush, restore | append log, blobs | memory and log tell the same story |
| append log (`packages/agent-core-v2/src/persistence/backends/node-fs/appendLogStore.ts`) | per log: pending records, flush in flight, epoch, failure, retirement | append, rewrite, flush, read, acquire, release | storage | base and appends, once and in order, across failures |
| prompt queue (`prompt/promptService.ts`) | pending, launching, active, steered prompts | submit, steer, abort, clear | loop, full compaction | every prompt is started or settled, one at a time |
| tool executor (`toolExecutor/toolExecutorService.ts`, `toolScheduler.ts`) | calls of a step: prepared, queued, active, settled, delivered | execute, add, finish, abort | loop, tools | conflicting calls in order, others in parallel; an abort ends the batch |
| interactions (`packages/agent-core-v2/src/session/interaction/`) | pending questions and approvals | request, respond, cancel for a turn | lifecycle, clients | each answered once, by the right party |
| swarm batches (`packages/agent-core-v2/src/session/swarm/agentRunBatch.ts`) | pending, active, rate-limit capacity | launch, finish, rate limit | agents | limits hold, everything is run |
| undo, full compaction, goals, background tasks | their own bookkeeping | drive the loop | loop | history is not rewritten under a running turn |
| MiniDb (`packages/minidb`) | store, WAL, snapshot, rotation lock; lock file and reader caches | open, set, del, compact, recover; take over | other processes | nothing acknowledged is lost; one writer |
| kap-server event stream (`packages/kap-server/src/transport/ws/v1/`) | journal, connections | publish, replay on reconnect | clients | no event lost or repeated |
| OAuth (`packages/oauth/src/multiai-manager.ts`) | tokens, refresh in flight | get, refresh, sign out | HTTP | one refresh at a time |

`PROJECT.json` lists every component, also those left out, and the hazards of this
code at the line where each bites.

## What is modelled

| module | what it is |
|---|---|
| `TurnOps` | the turn clock: the pure operations of `loop/turnOps.ts` |
| `AgentLoop` | the loop: turns, steps, quiescence, cancellation, retries, disposal |
| `TurnQueue` | abstract: what the loop promises of its turns, whatever becomes of their steps |
| `TurnIds` | turn ids across crashes, flushes and restores |
| `AppendLog` | the append-log store for one key: buffers, drains, rewrites, retirement, failures, crashes |
| `DurableLog` | abstract: what the store promises its callers |
| `PromptQueue` | the prompt scheduler over the loop's turns, with compactions that come between |
| `ToolExecutor` | one batch of tool calls: preparation, scheduler, results, abort and grace |
| `MiniDb` | a database under concurrent writes, compaction, storage failures and crashes |
| `MCAgentLoop`, `MCTurnIds`, `MCAppendLog`, `MCPromptQueue`, `MCToolExecutor`, `MCMiniDb` | small instances for TLC |
| `Filters` | what `splice`, `filter` and `concat` make of arrays |
| `OperatorTheorems`, `TurnIdsProofs`, `AgentLoopProofs`, `AgentLoopPromises`, `AppendLogProofs`, `PromptQueueProofs`, `ToolExecutorProofs`, `MiniDbProofs` | proofs |

`AgentLoop` and `TurnIds` both extend `TurnOps`; `AppendLog` and `PromptQueue` extend
`Filters`, whose definitions say what `SelectSeq` and `FlattenSeq` of the libraries say,
as recursive functions, which the provers can unfold. `AgentLoop` implements `TurnQueue`
(`AgentLoop!TurnQueueRefinement`), and `AppendLog` implements `DurableLog`
(`AppendLog!DurableLogRefinement`). Components meet at the promises they make each
other: `PromptQueue` sees the loop as the queue of turns that `TurnQueue` states, and
what `TurnIds` calls a flush is a flush of `AppendLog`.

Definitions under a comment `\* Bug:` or `\* As it would be` (or *might*) are not part of any specification: each is
the definition below it with a plausible mistake, and `PROJECT.json` ("mutants")
names the property that TLC finds violated when the mistake is put in.

## How the code maps to the model

### The loop

**One action per synchronous block.** `Enqueue(r)` is the whole of `enqueue`:
admission, the creation of a turn with the standalone steps that join it, the
pump, the start of the turn and the beginning of its first step, which all happen
before the first `await`. `ReleaseActiveTurn` is the whole `finally` clause of
`runTurn`. The run of the active turn is cut at its awaits; `run.phase` says where
it stands:

| phase | the await in the code | leaves by |
|---|---|---|
| `executing` | `executeLoopStep`: hooks, model request, tools | `StepResponds`, `StepFails`, `StepAborts` |
| `finishing` | `runAfterStep`: the `onDidFinishStep` hooks | `StepEnds`, `StepAborts` |
| `recovering` | `tryRecoverLoopError`: the backoff of step retry | `BackoffEnds` |
| `resuming` | the microtasks between a handled error and the next `beginLoopStep` | `Resume` |
| `ended` | the microtasks between the return of `run()` and `runTurn`'s `finally` | `ReleaseActiveTurn` |

The last two are short but real: a client's block may run in them, and two of the
disagreements below live there. One synchronous block is cut into several actions:
the loop of `releaseQuiescence` over the held admissions (`Replay`, one admission a
round). While it lasts nothing else is enabled, so that it is still atomic.

**Requests stand for their steps.** A `StepRequest` makes at most one `Step` per
turn and belongs to one turn, so `request[r]` holds both, with the promise of the
receipt and that of the step's result. The kinds are the five constants; the pairs of
`admission`, `mergeable` and `turnScoped` are those the senders use.

| constant | admission | senders |
|---|---|---|
| `Prompts` | `newTurn` | prompt, retry, goal |
| `Notices` | `activeOrNewTurn`, agent-scoped, mergeable | injected steers, task notifications |
| `Steers` | `activeTurnOnly`, agent-scoped, mergeable | steers |
| `FollowUps` | `activeOrNextTurn`, mergeable | stop hooks |
| `Continuations` | `activeOrNextTurn` | the step after tools |

**A step queue is two sequences**, one of mergeable and one of other requests.
`takeNextBatch` never compares positions across the two.

**Abstractions.** Messages, hooks' own effects, events, telemetry and the text a
step streams are left out; an abort signal is a Boolean; a list of waiters of
`settled()` is one Boolean. `turn.ready` is left out: `runTurn` settles it in every
case. A listener of `turn.ended` that enqueues within the block of
`ReleaseActiveTurn` is modelled as a client that enqueues right after it.
`prepareTurnConfig` is assumed not to throw. The second error handler of the code
(full compaction) has the shape of step retry and is left out, with its counter.
`run()` without a turn is left out: only tests use it. In `TurnIds` the queue of
turns is a set: it stands in the order of its ids, which `AgentLoop` shows
(`TurnIdsAccounted`).

### The append log

A `LogState` is a buffer; `buffers` holds those since the last restart, the last one
being the one in the map `logs`. A buffer's `flights` are its flushes that have not
settled, in the order of their creation: `rewrite()` chains itself behind the flush
there is and takes `flushPromise` over, so the last flight is the owner. A drain moves
through `ready` (the await of the buffer before it), `append` (the storage call),
`finish`; a replacement through `write`, `finish`. `NextBatch` is the head of the loop
of `drain`, `Finish` is `finishOwnedFlush`, `Retire` the end of `settleRetiredState`.

A storage call that fails, or is cut off by a crash, may have written any whole lines
and a part of the next (`Interrupted`). What follows a torn line is glued to it
(`Extended`). Parsing is reduced to whole, `Torn` and `Corrupt` lines, records to the
numbers of their appends. `Rewrite` may be called as restore and fork call it: on what
was read, with the buffer before it retired. A flush whose drain is overtaken by a
rewrite resolves although its records are pending again (`:227`): the model counts
nothing as promised by it, see the hazard.

### The prompt queue

Each action is a block of `promptService.ts` between awaits. `launch` is the prompt in
`startNext` and the await it stands at, the submit hook, the loop's assignment, or the
microtask after it. `steer` takes its prompts out of the queue before its await and
hands them to the prompt that is active after it. `startNext` calls itself in its
`finally` clause; `StartNext` is that whole chain up to its first await, and `runaway`
says that it has none. The loop is the queue of its turns, a turn of another origin
included; what an exhausted stack leaves behind is not modelled. The branch for a turn
that is undefined (`:195`) is left out: the receipt of a prompt is rejected, not
resolved without a turn. A steer that fails leaves its prompts in `adrift`: nothing of
theirs settles any more, and no document says what should; the properties except them.

### The tool executor

A call is the number of its place in the step. `Prepare` is `prepareToolCall` with
whatever hooks decide; `Add`, `Finish` and `LookAt` are the scheduler, the last one call
of the pass of `startQueuedTasks` (nothing else is enabled during a pass). Accesses are
modelled as `resourceAccessesConflict` compares them: everything, or a set of files
that is read or written. A tool ends when it likes or never. `GraceExpires` is
`raceWithAbortGrace`: the call gets a result while its tool still executes. The
scheduler's handling of a `start` that throws at once is left out: its only caller
passes an async function, and `runSingleExecution` turns every error into a result.

### MiniDb

The model is the database as its user opens it (`MiniDbQueryStore`,
`packages/agent-core-v2/src/persistence/backends/minidb/miniDbQueryStore.ts`): values in
memory, `fsyncPolicy` 'always', no expiry, no eviction. A commit has a number; the store
maps a key to the commit that set it, and a log is the sequence of its commits. A call
of `set` or `del` goes through

| `writer[w].at` | where in `index.ts` |
|---|---|
| `parked` | awaits the rotation lock |
| `gated` | past the gate, before the append |
| `waiting` | the frame is queued or written, not synced |
| `sealedOut`, `failed` | the append was refused or the flush failed; `restoreKey` comes next |
| `retrying` | `retryOnWalSeal` waits for the end of the rotation |

`WriteBatch` and `SyncBatch` are `flushBatch`; `FailBatch` fails either, with any whole
frames of the batch in the file (recovery skips torn bytes, `recovery.ts`). `compaction.at`
follows `runCompaction`: `fence`, `snapshot` (each key dumped at a moment of its own),
`precopy`, and the rotation: `draining`, `drained`, `closing`, `closed`, and one phase
after each of the four steps that put the files in place. Whether another pre-copy pass
is worth it (`SMALL_DELTA`, `CONVERGE_RATIO`) is a choice. `durable` is what a power
failure leaves: the files as synced, each with its name on the directory synced; after
it each file may be found as written or as synced. `fsyncDir` is assumed to succeed. The
callbacks of a microtask run before the I/O of `close` and of the renames completes
(`Microtasks`). Batches of several operations, values on disk, backup and the readers
of replicas are left out.

## Runs

| run | configuration | what it shows |
|---|---|---|
| `loop_turns` | `MCAgentLoopTurns.cfg` | two prompts and a notice: turns that queue, join, are held, cancelled, retried, disposed of |
| `loop_steps` | `MCAgentLoopSteps.cfg` | a prompt, a steer, a follow-up, a continuation: what becomes of the steps of one turn; liveness |
| `turn_ids` | `MCTurnIds.cfg` | seven ids, two crashes, a flush at any moment |
| `append_log` | `MCAppendLog.cfg` | three records, two rewrites, two buffers after each other, failures, a crash; liveness and refinement |
| `prompt_queue` | `MCPromptQueue.cfg` | three prompts, a foreign turn, two compactions; liveness |
| `tool_executor` | `MCToolExecutor.cfg` | three calls with every choice of four accesses; liveness |
| `minidb` | `MCMiniDb.cfg` | two keys, two writers, three calls, a compaction, one failure or crash; liveness |
| `loop_carry`, `loop_step_cancel`, `turn_ids_reuse`, `append_log_torn`, `prompt_compaction` | `MCAgentLoopCarry.cfg`, `MCAgentLoopStepCancel.cfg`, `MCTurnIdsReuse.cfg`, `MCAppendLogTorn.cfg`, `MCPromptCompaction.cfg` | [disagreements](#where-sources-and-code-disagree): TLC finds each property violated |

Properties of the loop:

- `TurnIdsAccounted`, `StartTakesClockId`: `turn.prompt` is logged without an id, so
  the id a turn was given long before it starts must be the clock's at that moment.
- `NoStepLeftUnsettled`, `ReceiptsAccounted`, `DisposalSettlesAll`: whatever ends a
  turn, a wait or the loop settles every promise handed out.
- `NoLostWakeup`, `DisposalDrains`: `settled()` resolves when the loop is idle, on
  every path that makes it so.
- `QuiescenceIsQuiet`, `HeldIsReleased`: no turn is made or run under a lease, and
  nothing stays held after the last one.
- `NextTurnTakesStandalone`: a follow-up is not overtaken by a turn.
- `DeliveredOnce`, `CancelledNeverDelivered`, `CancelStopsDelivery`: the context gets
  each request once however often its step is retried, never one that was cancelled
  before, and nothing at all from a cancelled turn.
- `TurnQueueRefinement`: all turns, seen from outside, are a queue that serves the
  smallest id first, one at a time, and never leaves a turn waiting while none runs.
- `CancelledTurnEnds`: a cancelled turn ends even if the model never answers.

Properties across restarts: `ClockAhead` and `StartsAreFresh` (an id in the log is
never taken again) and `ReservedIdsAccounted` (reservations and clock fit after any
restore).

Properties of the append log (`NoneMissing` and `PromisedIsDurable` as long as no
record was swallowed by a torn line, `Readable`):

- `InOrder`: the records of the file stand in the order of their
  appends, each once, whatever failed without telling how much it wrote.
- `NoneMissing`: every record is in the file, in a buffer, or was dropped with one.
- `PromisedIsDurable`: what a flush reported durable stays, through rewrites and crashes.
- `BufferDrains`, `RetirementSettles`: what is appended is drained and a released buffer
  makes way, unless a failure or a crash ends it.
- `DurableLogRefinement`: for its callers a log and a tail; a rewrite does not show.

Properties of prompts and tools:

- `InOnePlace`: a prompt without a completion is in exactly one place it can get one from.
- `OnePromptAtATime`: no two prompts have a turn or are launched at the same time.
- `SteeredEndTogether`: prompts steered into a turn end with the prompt they ride with.
- `EveryPromptSettles`: no order of turns, hooks and compactions leaves the queue standing.
- `WaitsOnlyForConflicts`: a call waits exactly for a call before it that it conflicts
  with: none overtakes, none waits needlessly, none is forgotten.
- `ToolsNeverCollide`: tools that really execute together never conflict, those that were
  given up after an abort included.
- `AbortEndsBatch`: an abort ends the batch though tools may never return.

Properties of MiniDb:

- `AckedSurvives`: at any moment, what a reader sees and what a recovery would find after
  the death of the process or of the machine is the last acknowledged write of a key, or
  a later one.
- `RefusedOnlyOnFailure`: a write that races a rotation is retried, not refused.
- `EveryWriteSettles`: no rotation, and no failure of one, leaves a writer parked.

**Bounds.** `MaxSteps` and `MaxAttempts` are 2 (3 where a run needs one more step):
one step may be retried once, and the step budget can run out in the middle of a
turn. `MaxLeases` is 1 or 0: the code distinguishes only the last lease. Three turns
are the fewest in which one is active, one queued, and one cancelled between others
or held. The requests of an instance are used up, so that its states are finite; the
instances leave out the kinds a run is not about. `MaxTurnId` and `MaxCrashes` bound
`TurnIds`: with two crashes a restored clock is itself restored again.
`Symmetry` permutes the prompts, which no
definition tells apart; it is used only without liveness.

In `AppendLog` three records fit a batch in flight, one that arrives meanwhile and one
in the next buffer; two rewrites can overlap, and a second one finds the first one's
failure. Two buffers show a retirement and its successor; a third would wait for the
second as the second does for the first. Three prompts are the fewest in which one is
active, one steered and one next; two compactions let one begin while the end of
another is still to be announced. Three calls are the fewest in which one waits behind
a waiting one, and the four accesses are the kinds the comparison tells apart; the proofs
lift both numbers. In `MiniDb` two writers on one key and a compaction already meet in
every phase; a failure and a crash in one behaviour would take `MaxFaults = 2`, which the
proofs cover for the safety properties and TLC does not.

`CHECK_DEADLOCK FALSE` stands in the configurations because each system rests when
its instance's inputs are used up.

## Fairness

`FairSpec` asks for weak fairness of the steps the event loop itself takes: the
microtasks (`Resume`, `ReleaseActiveTurn`), the end of the hooks (`StepEnds`), the
timer of the backoff (`BackoffEnds`), and that an aborted step notices
(`NoticeAbort`): model requests and hooks take the abort signal, and the tool
executor abandons a tool two seconds after it. Quiescence is released because its
only holder, undo, disposes the lease in a `finally` clause. Nothing is asked of the
model: a step that is not cancelled may stay `executing` for ever; nor of clients.

The other modules ask for weak fairness of `Proceed`, what goes on by itself, as a
whole (per buffer in `AppendLog`): callbacks and microtasks run, and I/O ends, well or
badly. Every step of it uses something up, so that no part can starve another for ever.
In `ToolExecutor` the end of a tool is not in it, but the timer of the grace is. In
`PromptQueue` the ends of turns, hooks and compactions are: that a turn ends is what the
loop is asked for, and a turn that never ends keeps the queue waiting as it should.
Clients' calls, failures and crashes are never asked for.

## Where sources and code disagree

1. **Steers do not carry into the next turn** (`loop_carry`). `stepRequestQueue.ts:11-13`
   says that agent-scoped requests do. `abortTurnScoped` spares them, but the turn's
   release cancels every queued step of its job (`loopService.ts:572`), which aborts
   the requests. A steer or task notification enqueued after the run has decided to
   end and before the turn is released is accepted and dropped.
2. **Cancelling a step can fail its turn** (`loop_step_cancel`). A step cancelled while
   it runs is skipped and the turn goes on (`test/agent/loop/loop.test.ts:597`). A step cancelled
   during the backoff before its retry makes step retry return false
   (`stepRetryService.ts:156`), and the loop fails the turn with the provider error.
3. **Cancelled ids are handed out again** (`turn_ids_reuse`). `turnOps.ts:5-6` says the model
   owns the next available id *including cancelled queued reservations*. After a
   restart the reservations below a cancelled id are forgotten and reservation
   counts up to it again: a turn runs under an id that the log has as cancelled, and
   from then on the clock is one ahead of it.

4. **A torn line takes the next record with it** (`append_log_torn`).
   `packages/agent-core-v2/src/persistence/backends/node-fs/appendLogStore.ts:7-8` and a
   test say that a torn final line is dropped. It is, by a reader; but the next
   append is written right behind it (`:250`), without a newline between. Its first record
   is swallowed although its flush succeeded, and from then on every read throws.
5. **A compaction between turns exhausts the stack** (`prompt_compaction`). When a
   turn ends while the context is being compacted and a prompt waits, `startNext` puts the
   prompt back (`promptService.ts:187`), returns, and its `finally` clause (`:205`) calls it
   again in the same state.

Behaviours the models have and no source speaks about: when a delete of MiniDb fails on
the way to the log, `restoreKey` tells nothing apart from "absent" (`index.ts:933`), so that
an older value can come back over a later acknowledged delete (`spoiled`; the comment at
`index.ts:740-742` is silent on deletes); a steer that fails loses its prompts (`adrift`);
a step cancelled while its hooks run ends `completed` with a `cancelled` result (`loopService.ts:690`), and a
steer that was merged into another step and delivered resolves as `cancelled` when
the turn ends (`:572`).

## Proofs

Every invariant, every action property and both refinements that the passing runs check
are proved, for every value of the constants: any finite set of requests of each kind, any
`MaxSteps` and `MaxAttempts` from 1, any `MaxLeases`, any number of ids and crashes
(`TurnIds`), of records, rewrites, buffers, handles and crashes (`AppendLog`), of prompts,
foreign turns and compactions (`PromptQueue`), of calls and any accesses
(`ToolExecutor`), and any keys, writers, compactions, failures and crashes (`MiniDb`).
They assume, and nothing else:

- `RequestsAssumption`: the kinds of requests are disjoint, as one request has one
  admission, and their number is finite; `None`, which stands for undefined, is no
  request and no turn id;
- `AppendLogAssumption`: a torn and a corrupt line are told from each other and from
  records; `PromptQueueAssumption`: `None` is no prompt and no result, `Other` no prompt;
- `BoundsAssumption`, `TurnIdsAssumption`, `NumCallsAssumption`, `AccessAssumption` and
  `MiniDbAssumption`: bounds are numbers, accesses are ones the code knows, and there is
  a key.

| module | proves |
|---|---|
| `OperatorTheorems` | lemmas on operators. The clock: each operation ends at the first id that is not cancelled, keeps exactly the cancelled ids above it, and stays finite. `Without` and `Joined`: what their results hold and in which order. Rising sequences: each is determined by its set |
| `TurnIdsProofs` | `TypeCorrect`, `ClockStaysAhead`, `ReservedIdsFit`, `TurnsStartFresh` |
| `AgentLoopProofs` | `TypeCorrect`: `[]TypeOK` of the loop; `IdsAgree`: `[]TurnIdsAccounted`; `StartsWithClockId`: `StartTakesClockId` |
| `AgentLoopPromises` | `StepsSettled`, `ReceiptsAnswered`, `WakeupsNotLost`, `QuietUnderLeases`, `StandaloneServed`, `DeliveryOnce`, `DisposalComplete`: the other invariants of the loop; `CancelledStaysOut`, `CancelledTurnDeliversNothing`: its other action properties; `TurnQueueImplemented`: `TurnQueueRefinement` |
| `AppendLogProofs` | `TypeCorrect`; `RecordsInOrder`: `[]InOrder`; `NoRecordMissing`: `[]NoneMissing`; `PromisesKept`: `[]PromisedIsDurable`; `DurableLogImplemented`: `DurableLogRefinement` |
| `PromptQueueProofs` | `TypeCorrect`; `PromptsInOnePlace`: `[]InOnePlace`; `PromptsOneAtATime`: `[]OnePromptAtATime`; `CompanionsEndTogether`: `SteeredEndTogether` |
| `ToolExecutorProofs` | `TypeCorrect`; `NoneOvertakes`: `[]WaitsOnlyForConflicts`; `NeverCollide`: `[]ToolsNeverCollide` |
| `MiniDbProofs` | `TypeCorrect`; `NoSpuriousRefusal`: `[]RefusedOnlyOnFailure`; `AcknowledgedWritesSurvive`: `[]AckedSurvives` |

**The clock.** `FirstUncancelled` chooses from an interval as long as the set of
cancelled ids. That such an id exists is a counting argument: an interval of *n* + 1
ids does not fit into *n* cancelled ones. So every invariant below carries that the
set of cancelled ids is finite (`FiniteClock`).

**Types of the loop.** `TypeInv` is `TypeOK` in three parts, one for the run and the
data its blocks change (`RunOK`), one for the turns (`TurnsOK`) and one for admission
(`AdmissionOK`). The parts follow the code: each operator of `run()` is proved to keep
`RunOK` once, and every action that ends in it cites that lemma.

**Ids of the loop.** `TurnIdsAccounted` is not inductive. A turn created twice would
change the id of a queued one, so `IdsInv` also says that a request that is new, held
or about to be replayed has made no turn and is held only once (`FreshOK`), that what
is queued was created, and that the clock itself stands at an id that is not cancelled
and never beyond the next reservation (`ClockFits`). The argument has three lemmas on a
queue and a clock alone: the first of the queue may leave when the clock advances
(`PopAccounted`), a turn may join with the next id (`AppendAccounted`), a turn may
leave when its id is cancelled (`RemoveAccounted`, `ClearAccounted`). Every action is
one of these or changes no id. `StartTakesClockId` comes with the same induction:
`PopAccounted` also shows that the first of the queue has the clock's id.

**Promises of the loop.** None of the other invariants of `AgentLoop` is inductive alone;
`PromisesInv` follows a request from where it waits into the queue of its turn and from
there into the context. It adds to `IdsInv`:

- `Fits`: which combinations of a request's five fields occur. A receipt is open only
  without a turn; a request that may still be materialized has no result, so that what
  was cancelled is aborted and no later batch takes it.
- `Belong` and `Unfinished`: what is live in a turn's queue belongs to that turn, and a
  step that is not over belongs to the active turn or a queued one. So the end of a turn,
  which looks at its own steps only, settles all there are.
- `InContext` and `Drives`: delivery and `materialized` agree, and the driver of a step,
  which a retry puts back into its queue, has been delivered by this very turn. So a
  retried driver is not appended again.
- `ReceiptsAccounted` and `Admitting`: where each unanswered receipt waits, and that the
  standalone queue, the held requests, the leases and the turns exclude one another as
  the early returns of `admit` and `tryAcquireQuiescence` intend; a replay in progress
  keeps `settled()` waiting.

An action keeps what its operators keep, and each operator has one lemma (`AssignServes`,
`CancelStepsServes` and so on). The two action properties come from the same induction:
no step turns an aborted request into another (`AbortedStays`), and none extends the
context under an aborted signal (`CutOff`).

**The loop as a queue of turns.** `TurnQueueRefinement` maps the queued turns to their
ids. By `IdsInv` these are exactly the reserved ids that are ahead of the clock and not
cancelled (`QueuedFree`), a set that clock and reservations determine. So a step that
touches neither, whatever it does to steps, is a stutter (`UnseenStep`); cancelling and
disposing only make the set smaller (`WithdrawnStep`); and the turn that starts is the
least, because it has the clock's id (`PumpStep`). That none waits while none runs needs
`Admitting`: where there is a queue to pump, there is neither a lease nor a disposal that
would stop the pump.

**Ids across restarts.** The invariant of `TurnIdsProofs` says of the durable copy
what it says of the clock in memory, since any crash may put one in place of the other.

**The append log.** `LogInv` has four parts. `BuffersOK`: one buffer at a time is at
the file, and what its first flush is about to do fits what the buffer holds. `OrderOK`:
the file and the buffers, one behind the other, hold growing numbers. A buffer
whose batch may have reached the file is the exception, which `Fresh` delimits: after a
failure nobody knows how much was written, so that its records may be in both, until a
rewrite has put the file straight. `WritesOK`: a replacement still to be written is the log
that a reader should find, in spite of what is appended meanwhile, for what arrives
is greater. `AccountsOK`: a record that is in no buffer and was not dropped is in the
file, unless a torn line has swallowed one; and what was promised is among those.

For `DurableLogImplemented` each step is shown to take a record (`Taken`) or to let
records leave the front of what the buffers hold (`Moved`). The log and the tail that
`DurableLogRefinement` maps the state to are rising sequences, and two rising sequences
of the same numbers are equal (`RisingUnique`). So it is enough to follow sets of
records, whatever the order in which buffers, drains and rewrites handled them; and a
rewrite, which moves none, does not show.

The lemmas on filters and rising sequences are inductions over the length of a
sequence. They are stated as the absence of a least counterexample (`LeastExists`),
since the induction theorems of the library take an operator as a parameter.

**The prompt queue.** `InOnePlace` counts places; the invariant says it place by
place (`Exclusive`), since each action moves a prompt from one given place to another. It
is inductive with four more facts. `Company`: only the active prompt has prompts riding
with it, so that the end of any other leaves none behind. `SteersApart`: two calls of
`steer` in flight share no prompt. `Untouched`: a new prompt has no completion. And
`Outcomes`: a turn's result is of a turn that is over, whose prompt still is where the
result will be given to it, or has ended already. A late result therefore
settles nobody else's prompt. `SteeredEndTogether` follows from `Exclusive` step by step.

**Tool calls.** In the middle of a pass of `startQueuedTasks` a waiting call may have lost its
reason to wait. So `Order` speaks of the calls outside `scan`, the ones the pass has
looked at, and says of active calls that they conflict with no *held* call before them,
not only with no active one: that is what starting a call late needs. `Apart` needs
`Executing`: a tool that was given up runs beside active calls, but giving up takes an
abort, after which no tool starts.

**MiniDb.** `PhaseInv` ties together the phases of the compaction, the state of the log
object and its size, and gives `RefusedOnlyOnFailure`: an append is turned away only while
the rotation lock is set, when it is retried, or after a failure. `Survival` is about the
order of commits and has six parts, each there because another one needs it:

- `Order`: logs, queue and batch are ascending, and what is in flight is newer than all
  that is acknowledged, so that "the last frame wins" is "the newest wins".
- `Recoverable`: any of the snapshots that may remain, with any of the logs, yields
  what is acknowledged or newer. It speaks of the four combinations separately, as a
  power failure may leave any. `Serves` is the form that is inductive: if the log has a
  frame of the key, it has one that is new enough; otherwise the snapshot's value is.
- `NewFiles`: the same of the files being written, taken as they will be: the
  snapshot for the keys dumped so far, and the new log as what was copied with what will
  be. A key dumped late may hold a commit whose frame will fail; that is why `Newest` asks
  only for *some* commit that is not too old.
- `Placed`: what has been renamed is what was written, and the log was drained before.
  So `NewFiles` becomes `Recoverable` rename by rename: the new snapshot serves the old
  log as well, since the old log covers everything the fence left out.
- `Reads` and `Calling`: the same of the store and of what each call in flight would put
  back, relative to what was acknowledged or in flight *when it was made* (`PutsBack`).
  Calls that fail together are taken back in the order they were made, and the last one
  leaves what the first one found.

Keys of which a delete has failed are excepted throughout; `PutsBack` is what fails for them.

**Model-checked only.** The liveness properties, since TLAPS proves nothing of fairness or
ENABLED: `CancelledTurnEnds`, `DisposalDrains` and `HeldIsReleased` of the loop,
`BufferDrains` and `RetirementSettles` of the append log, `EveryPromptSettles`,
`AbortEndsBatch` and `EveryWriteSettles`. The runs check them on their instances.

## Not modelled

See `PROJECT.json`. In short: rendering, parsing, provider adapters, files and
processes, and the first engine (`packages/agent-core`), which the second
supersedes; policy services that only answer hooks (permissions, goals, plan mode);
MiniDb's indexes, which are sequential. Concurrent and not modelled: MiniDb's lock file
and its replica readers (`MiniDb` is modelled under their promise of one writer),
interactions, swarm batches, the event stream of kap-server and the OAuth refresh; their
hazards are listed with the reason.

## Plan

1. `LockFile` and `ShardReaders` of MiniDb: takeover and the reader cache, each
   against the comment that states its guarantee (`lockfile.ts:158`,
   `cluster/lock-pool.ts:21-22`).
2. Batches of several operations and values on disk in `MiniDb`.
3. A session of several loops with its interactions; `AgentRunBatch`; then the event
   stream and OAuth.
4. Proofs: that the loop `PromptQueue` relies on is a `TurnQueue`, and that the flushes of
   `TurnIds` are those of `AppendLog`, so that the results compose.

---------------------------- MODULE AgentLoopProofs ----------------------------
(***************************************************************************)
(* The agent loop, for any number of requests, attempts, steps and leases: *)
(* what each operator of AgentLoop returns or leaves in the variables,     *)
(* TypeOK as an invariant, and the turn ids.                               *)
(***************************************************************************)
EXTENDS AgentLoop, OperatorTheorems, SequenceTheorems


RequestMap == [Requests -> RequestRecord]
TurnMap    == [Turns -> Job]

\* The empty sequence is a sequence over any set.
LEMMA EmptySequence == \A S : <<>> \in Seq(S)
OBVIOUS

\* A turn is named by a request, and None names neither.
LEMMA TurnsAreRequests == Turns \subseteq Requests /\ None \notin Turns
BY RequestsAssumption DEF Turns, Requests
--------------------------------------------------------------------------------
(* Requests and steps.                                                     *)

\* The operators on requests return a request map.
LEMMA AssignStepsType ==
  ASSUME NEW rq \in RequestMap, NEW rs, NEW t \in Turns
  PROVE  AssignSteps(rq, rs, t) \in RequestMap
BY DEF AssignSteps, RequestMap, RequestRecord, StepState

\* rejectAssignment returns a request map.
LEMMA RejectType ==
  ASSUME NEW rq \in RequestMap, NEW r \in Requests
  PROVE  Reject(rq, r) \in RequestMap
BY DEF Reject, RequestMap, RequestRecord

\* abort returns a request map.
LEMMA AbortRequestsType ==
  ASSUME NEW rq \in RequestMap, NEW rs
  PROVE  AbortRequests(rq, rs) \in RequestMap
BY DEF AbortRequests, RequestMap, RequestRecord

\* cancelStep returns a request map.
LEMMA CancelStepsType ==
  ASSUME NEW rq \in RequestMap, NEW rs
  PROVE  CancelSteps(rq, rs) \in RequestMap
<1> DEFINE cancelled == {r \in rs : Unsettled(rq, r)}
           aborted   == AbortRequests(rq, cancelled)
<1>1. aborted \in RequestMap
  BY AbortRequestsType
<1>2. CancelSteps(rq, rs) =
        [r \in Requests |->
            IF r \in cancelled
            THEN [aborted[r] EXCEPT !.step = "cancelled",
                                    !.result = IF @ = "none" THEN "cancelled" ELSE @]
            ELSE rq[r]]
  BY DEF CancelSteps
<1>3. ASSUME NEW r \in Requests, NEW a \in RequestRecord
      PROVE  [a EXCEPT !.step = "cancelled",
                       !.result = IF @ = "none" THEN "cancelled" ELSE @] \in RequestRecord
  BY DEF RequestRecord, StepState
<1> HIDE DEF cancelled, aborted
<1> QED BY <1>1, <1>2, <1>3 DEF RequestMap

\* materializeBatch returns a request map.
LEMMA MaterializeType ==
  ASSUME NEW rq \in RequestMap, NEW rs
  PROVE  Materialize(rq, rs) \in RequestMap
BY DEF Materialize, RequestMap, RequestRecord

\* completeLoopStep returns a request map.
LEMMA CompleteStepType ==
  ASSUME NEW rq \in RequestMap, NEW r \in Requests
  PROVE  CompleteStep(rq, r) \in RequestMap
BY DEF CompleteStep, RequestMap, RequestRecord, StepState
--------------------------------------------------------------------------------
(* Queues.                                                                 *)

\* Enqueueing at either end of a step queue gives a step queue.
LEMMA QueueTypes ==
  /\ EmptyQueue \in Queue
  /\ \A q \in Queue, r \in Requests : EnqueueTail(q, r) \in Queue /\ EnqueueHead(q, r) \in Queue
<1>1. EmptyQueue \in Queue
  BY DEF EmptyQueue, Queue
<1>2. ASSUME NEW q \in Queue, NEW r \in Requests
      PROVE  EnqueueTail(q, r) \in Queue /\ EnqueueHead(q, r) \in Queue
  <2>1. q.drivers \in Seq(Requests) /\ q.merges \in Seq(Requests)
    BY DEF Queue
  <2>2. /\ Append(q.drivers, r) \in Seq(Requests) /\ Append(q.merges, r) \in Seq(Requests)
        /\ <<r>> \o q.drivers \in Seq(Requests) /\ <<r>> \o q.merges \in Seq(Requests)
    BY <2>1
  <2>3. \A s \in Seq(Requests) : [q EXCEPT !.drivers = s] \in Queue /\ [q EXCEPT !.merges = s] \in Queue
    BY DEF Queue
  <2> QED BY <2>2, <2>3 DEF EnqueueTail, EnqueueHead
<1> QED BY <1>1, <1>2

\* The entries of a sequence over S are in S.
LEMMA EntriesType ==
  ASSUME NEW S, NEW s \in Seq(S)
  PROVE  Entries(s) \subseteq S
BY DEF Entries

\* The live entries of a step queue are requests.
LEMMA LiveType ==
  ASSUME NEW q \in Queue, NEW rq
  PROVE  Live(q, rq) \subseteq Requests
BY EntriesType DEF Live, Queue

\* A line with a live request has a first one.
LEMMA FirstLiveFacts ==
  ASSUME NEW s \in Seq(Requests), NEW rq,
         \E r \in Entries(s) : rq[r].state # "aborted"
  PROVE  LET i == FirstLive(s, rq)
         IN  /\ i \in DOMAIN s
             /\ rq[s[i]].state # "aborted"
<1> DEFINE alive == {i \in DOMAIN s : rq[s[i]].state # "aborted"}
<1>1. alive \in SUBSET Nat /\ alive # {}
  BY DEF Entries
<1>2. PICK m \in alive : \A k \in alive : m <= k
  <2> HIDE DEF alive
  <2> QED BY <1>1, LeastExists
<1>3. \A j \in 1 .. (m - 1) : rq[s[j]].state = "aborted"
  <2> SUFFICES ASSUME NEW j \in 1 .. (m - 1), j \in alive PROVE FALSE
    OBVIOUS
  <2> QED BY <1>2
<1> DEFINE First(i) == /\ rq[s[i]].state # "aborted"
                       /\ \A j \in 1 .. (i - 1) : rq[s[j]].state = "aborted"
<1>4. First(m) /\ m \in DOMAIN s
  BY <1>3
<1>5. FirstLive(s, rq) = CHOOSE i \in DOMAIN s : First(i)
  BY DEF FirstLive
<1>6. FirstLive(s, rq) \in DOMAIN s /\ First(FirstLive(s, rq))
  <2> HIDE DEF First
  <2> QED BY <1>4, <1>5
<1> QED BY <1>6

\* takeNextBatch, of a queue with a live request, returns requests and a queue.
LEMMA TakeNextBatchType ==
  ASSUME NEW q \in Queue, NEW rq, Live(q, rq) # {}
  PROVE  LET batch == TakeNextBatch(q, rq)
         IN  /\ batch.driver \in Requests
             /\ batch.members \in SUBSET Requests
             /\ batch.rest \in Queue
<1> DEFINE driven == \E r \in Entries(q.drivers) : rq[r].state # "aborted"
           line   == IF driven THEN q.drivers ELSE q.merges
           i      == FirstLive(line, rq)
           rest   == [drivers |-> IF driven THEN SubSeq(line, i + 1, Len(line)) ELSE <<>>,
                      merges  |-> <<>>]
           joined == {r \in Entries(q.merges) : rq[r].state # "aborted"}
<1>1. q.drivers \in Seq(Requests) /\ q.merges \in Seq(Requests)
  BY DEF Queue
<1>2. line \in Seq(Requests) /\ \E r \in Entries(line) : rq[r].state # "aborted"
  BY <1>1 DEF Live
<1> HIDE DEF driven, line
<1>3. i \in DOMAIN line
  BY <1>2, FirstLiveFacts
<1> HIDE DEF i
<1>4. line[i] \in Requests
  BY <1>2, <1>3
<1>5. SubSeq(line, i + 1, Len(line)) \in Seq(Requests)
  BY <1>2, <1>3
<1>6. joined \in SUBSET Requests
  BY <1>1, EntriesType
<1>7. rest \in Queue
  BY <1>5 DEF Queue
<1>8. TakeNextBatch(q, rq) = [driver |-> line[i], members |-> {line[i]} \cup joined, rest |-> rest]
  BY DEF TakeNextBatch, driven, line, i
<1> HIDE DEF rest, joined
<1> QED BY <1>4, <1>6, <1>7, <1>8
--------------------------------------------------------------------------------
(***************************************************************************)
(* The state.  TypeInv is TypeOK in three parts, with the one thing it     *)
(* needs to be inductive: the clock has finitely many cancelled ids.       *)
(***************************************************************************)

StepPhases == {"executing", "finishing", "recovering"}

RunOK ==
    /\ request \in RequestMap
    /\ turn \in TurnMap
    /\ run \in Run
    /\ context \in Seq(SUBSET Requests)
    /\ run.driver # None <=> run.phase \in StepPhases

TurnsOK ==
    /\ active \in Turns \cup {None}
    /\ pending \in Seq(Turns)
    /\ FiniteClock(clock)
    /\ reserved \in Nat
    /\ run.phase = "idle" <=> active = None

AdmissionOK ==
    /\ standalone \in Queue
    /\ held \in Seq(Requests)
    /\ replaying \in Seq(Requests)
    /\ leases \in Nat
    /\ waiting \in BOOLEAN
    /\ disposing \in BOOLEAN

TypeInv == RunOK /\ TurnsOK /\ AdmissionOK

\* The inductive invariant implies the type invariant.
LEMMA TypeInvImplies == TypeInv => TypeOK
BY DEF TypeInv, RunOK, TurnsOK, AdmissionOK, StepPhases, FiniteClock, TypeOK, RequestMap, TurnMap

\* maybeSettle leaves a truth value.
LEMMA MaybeSettleType ==
  ASSUME NEW a, NEW p, NEW h, MaybeSettle(a, p, h)
  PROVE  waiting' \in BOOLEAN
BY DEF MaybeSettle

\* No run is under way in IdleRun.
LEMMA IdleRunType ==
  IdleRun \in Run /\ IdleRun.driver = None /\ IdleRun.phase = "idle"
BY DEF IdleRun, Run

\* The end of run() keeps the types and leaves no driver.
LEMMA EndRunType ==
  ASSUME RunOK, NEW t, NEW ts \in TurnMap, NEW rq \in RequestMap, NEW rn \in Run,
         NEW result \in {"completed", "failed", "cancelled"},
         EndRun(t, ts, rq, rn, result)
  PROVE  RunOK' /\ run'.phase = "ended"
<1>1. /\ run' = [rn EXCEPT !.phase = "ended", !.driver = None, !.result = result]
      /\ request' = AbortRequests(rq, Live(ts[t].queue, rq) \cap TurnScoped)
      /\ turn' = ts /\ context' = context
  BY DEF EndRun
<1>2. run' \in Run /\ run'.phase = "ended" /\ run'.driver = None
  BY <1>1 DEF Run
<1>3. request' \in RequestMap
  BY <1>1, AbortRequestsType
<1> QED BY <1>1, <1>2, <1>3 DEF RunOK, StepPhases

\* A step that begins has a driver.
LEMMA ExecuteStepType ==
  ASSUME RunOK, NEW t \in Turns, NEW ts \in TurnMap, NEW rq \in RequestMap, NEW rn \in Run,
         Live(ts[t].queue, rq) # {},
         ExecuteStep(t, ts, rq, rn)
  PROVE  RunOK' /\ run'.phase = "executing"
<1> DEFINE batch == TakeNextBatch(ts[t].queue, rq)
           joined == {r \in batch.members : rq[r].state = "pending"}
<1>1. /\ turn' = [ts EXCEPT ![t].queue = batch.rest]
      /\ request' = Materialize([rq EXCEPT ![batch.driver].step = "running"], batch.members)
      /\ context' = Append(context, joined)
      /\ run' = [rn EXCEPT !.phase = "executing", !.driver = batch.driver,
                           !.steps = @ + 1, !.finish = "none"]
  BY DEF ExecuteStep
<1>2. ts[t] \in Job /\ ts[t].queue \in Queue
  BY DEF TurnMap, Job
<1>3. /\ batch.driver \in Requests
      /\ batch.members \in SUBSET Requests
      /\ batch.rest \in Queue
  BY <1>2, TakeNextBatchType
<1> HIDE DEF batch
<1>4. turn' \in TurnMap
  BY <1>1, <1>3 DEF TurnMap, Job
<1>5. [rq EXCEPT ![batch.driver].step = "running"] \in RequestMap
  BY <1>3 DEF RequestMap, RequestRecord, StepState
<1>6. request' \in RequestMap
  BY <1>1, <1>5, MaterializeType
<1>7. context' \in Seq(SUBSET Requests)
  BY <1>1, <1>3 DEF RunOK
<1>8. run' \in Run /\ run'.phase = "executing" /\ run'.driver = batch.driver
  <2>1. rn.steps + 1 \in Nat
    BY DEF Run
  <2>2. /\ run'.phase = "executing" /\ run'.driver = batch.driver /\ run'.steps = rn.steps + 1
        /\ run'.finish = "none"
    BY <1>1 DEF Run
  <2> QED BY <1>1, <1>3, <2>1, <2>2 DEF Run
<1>9. batch.driver # None
  BY <1>3, RequestsAssumption
<1> QED BY <1>4, <1>6, <1>7, <1>8, <1>9 DEF RunOK, StepPhases

\* beginLoopStep starts a step or ends the run.
LEMMA BeginLoopStepType ==
  ASSUME RunOK, NEW t \in Turns, NEW ts \in TurnMap, NEW rq \in RequestMap, NEW rn \in Run,
         BeginLoopStep(t, ts, rq, rn)
  PROVE  RunOK' /\ run'.phase \in {"executing", "ended"}
<1>1. ASSUME NEW result \in {"completed", "failed", "cancelled"}, EndRun(t, ts, rq, rn, result)
      PROVE  RunOK' /\ run'.phase = "ended"
  BY <1>1, EndRunType
<1>2. ASSUME Live(ts[t].queue, rq) # {}, ExecuteStep(t, ts, rq, rn)
      PROVE  RunOK' /\ run'.phase = "executing"
  BY <1>2, ExecuteStepType
<1> QED BY <1>1, <1>2 DEF BeginLoopStep

\* startTurn makes the turn active and its run busy.
LEMMA StartTurnType ==
  ASSUME RunOK, FiniteClock(clock),
         NEW t \in Turns, NEW ts \in TurnMap, NEW rq \in RequestMap,
         StartTurn(t, ts, rq)
  PROVE  RunOK' /\ FiniteClock(clock') /\ active' = t /\ run'.phase # "idle"
<1>1. [ts EXCEPT ![t].state = "running"] \in TurnMap
  BY DEF TurnMap, Job
<1>2. BeginLoopStep(t, [ts EXCEPT ![t].state = "running"], rq, IdleRun)
  BY DEF StartTurn
<1>3. RunOK' /\ run'.phase \in {"executing", "ended"}
  BY <1>1, <1>2, IdleRunType, BeginLoopStepType
<1>4. clock' = PromptTurn(clock) /\ active' = t
  BY DEF StartTurn
<1> QED BY <1>3, <1>4, PromptTurnFacts

\* pumpTurns leaves a running turn, or none and an idle run.
LEMMA PumpTurnsType ==
  ASSUME RunOK, FiniteClock(clock), reserved' \in Nat,
         NEW p \in Seq(Turns), NEW ts \in TurnMap, NEW rq \in RequestMap,
         PumpTurns(p, ts, rq)
  PROVE  RunOK' /\ TurnsOK'
<1>1. CASE /\ p # <<>> /\ leases = 0 /\ ~disposing
           /\ pending' = Tail(p)
           /\ StartTurn(Head(p), ts, rq)
  <2>1. Head(p) \in Turns /\ Tail(p) \in Seq(Turns)
    BY <1>1
  <2>2. RunOK' /\ FiniteClock(clock') /\ active' = Head(p) /\ run'.phase # "idle"
    BY <1>1, <2>1, StartTurnType
  <2>3. Head(p) # None
    BY <2>1, TurnsAreRequests
  <2> QED BY <1>1, <2>1, <2>2, <2>3 DEF TurnsOK
<1>2. CASE /\ pending' = p /\ active' = None /\ turn' = ts /\ request' = rq
           /\ run' = IdleRun /\ UNCHANGED <<clock, context>>
  BY <1>2, IdleRunType DEF RunOK, TurnsOK, StepPhases
<1> QED BY <1>1, <1>2 DEF PumpTurns
--------------------------------------------------------------------------------
(* Admission.                                                              *)

\* createAndQueueTurn keeps the types, whether it pumps or not.
LEMMA CreateAndQueueTurnType ==
  ASSUME TypeInv, NEW r \in Turns, NEW rq \in RequestMap, CreateAndQueueTurn(r, rq)
  PROVE  RunOK' /\ TurnsOK' /\ standalone' \in Queue
<1> DEFINE id    == LargerOf(clock.next, reserved)
           own   == EnqueueTail(EmptyQueue, r)
           queue == [drivers |-> own.drivers \o standalone.drivers,
                     merges  |-> own.merges \o standalone.merges]
           job   == [id |-> id, state |-> "queued", aborted |-> FALSE, queue |-> queue]
           ts    == [turn EXCEPT ![r] = job]
           rq1   == AssignSteps(rq, {r} \cup StandaloneMoved(rq), r)
<1>1. id \in Nat
  BY DEF LargerOf, TypeInv, TurnsOK, FiniteClock, Clock
<1>2. own \in Queue
  BY TurnsAreRequests, QueueTypes
<1> HIDE DEF id, own
<1>3. queue \in Queue
  BY <1>2 DEF Queue, TypeInv, AdmissionOK
<1> HIDE DEF queue
<1>4. job \in Job
  BY <1>1, <1>3 DEF Job
<1> HIDE DEF job
<1>5. ts \in TurnMap
  BY <1>4 DEF TurnMap, TypeInv, RunOK
<1>6. rq1 \in RequestMap
  BY AssignStepsType
<1>7. /\ reserved' = id + 1 /\ standalone' = EmptyQueue
      /\ IF active = None
         THEN PumpTurns(Append(pending, r), ts, rq1)
         ELSE /\ pending' = Append(pending, r) /\ turn' = ts /\ request' = rq1
              /\ UNCHANGED <<active, clock, run, context>>
  BY DEF CreateAndQueueTurn, id, own, queue, job
<1> HIDE DEF ts, rq1
<1>8. reserved' \in Nat /\ standalone' \in Queue
  BY <1>1, <1>7, QueueTypes
<1>9. Append(pending, r) \in Seq(Turns)
  BY DEF TypeInv, TurnsOK
<1>10. CASE active = None
  BY <1>5, <1>6, <1>7, <1>8, <1>9, <1>10, PumpTurnsType DEF TypeInv, TurnsOK
<1>11. CASE active # None
  BY <1>5, <1>6, <1>7, <1>8, <1>9, <1>11 DEF TypeInv, RunOK, TurnsOK
<1> QED BY <1>8, <1>10, <1>11

\* admit keeps the types.
LEMMA AdmitType ==
  ASSUME TypeInv, NEW r \in Requests, NEW rq \in RequestMap, Admit(r, rq)
  PROVE  RunOK' /\ TurnsOK' /\ standalone' \in Queue
<1>1. CASE r \in Turns /\ CreateAndQueueTurn(r, rq)
  BY <1>1, CreateAndQueueTurnType
<1>2. CASE active # None /\ AssignToActive(r, rq)
  <2>1. active \in Turns
    BY <1>2 DEF TypeInv, TurnsOK
  <2>2. EnqueueTail(turn[active].queue, r) \in Queue
    BY <2>1, QueueTypes DEF TypeInv, RunOK, TurnMap, Job
  <2>3. /\ turn' = [turn EXCEPT ![active].queue = EnqueueTail(@, r)]
        /\ request' = AssignSteps(rq, {r}, active)
        /\ UNCHANGED <<active, pending, clock, reserved, run, context, standalone>>
    BY <1>2 DEF AssignToActive
  <2>4. turn' \in TurnMap
    BY <2>1, <2>2, <2>3 DEF TypeInv, RunOK, TurnMap, Job
  <2>5. request' \in RequestMap
    BY <2>1, <2>3, AssignStepsType
  <2> QED BY <2>3, <2>4, <2>5 DEF TypeInv, RunOK, TurnsOK, AdmissionOK
<1>3. CASE EnqueueStandalone(r, rq)
  BY <1>3, QueueTypes DEF EnqueueStandalone, turnVars, TypeInv, RunOK, TurnsOK, AdmissionOK
<1> QED BY <1>1, <1>2, <1>3 DEF Admit, Turns

\* enqueue keeps the types.
LEMMA EnqueueKeeps ==
  ASSUME TypeInv, NEW r \in Requests, Enqueue(r)
  PROVE  TypeInv'
<1> DEFINE rq == [request EXCEPT ![r].state = "pending", ![r].receipt = "waiting"]
<1>1. rq \in RequestMap
  BY DEF TypeInv, RunOK, RequestMap, RequestRecord
<1>2. /\ \/ held' = Append(held, r) /\ request' = rq /\ UNCHANGED <<turnVars, standalone>>
         \/ Admit(r, rq) /\ UNCHANGED held
         \/ request' = Reject(rq, r) /\ UNCHANGED <<turnVars, standalone, held>>
      /\ UNCHANGED <<replaying, leases, waiting, disposing>>
  BY DEF Enqueue
<1> HIDE DEF rq
<1>3. CASE held' = Append(held, r) /\ request' = rq /\ UNCHANGED <<turnVars, standalone>>
  BY <1>1, <1>2, <1>3 DEF turnVars, TypeInv, RunOK, TurnsOK, AdmissionOK
<1>4. CASE Admit(r, rq) /\ UNCHANGED held
  BY <1>1, <1>2, <1>4, AdmitType DEF TypeInv, AdmissionOK
<1>5. CASE request' = Reject(rq, r) /\ UNCHANGED <<turnVars, standalone, held>>
  BY <1>1, <1>2, <1>5, RejectType DEF turnVars, TypeInv, RunOK, TurnsOK, AdmissionOK
<1> QED BY <1>2, <1>3, <1>4, <1>5

\* releaseQuiescence keeps the types.
LEMMA ReleaseQuiescenceKeeps ==
  ASSUME TypeInv, ReleaseQuiescence
  PROVE  TypeInv'
<1>1. /\ leases' = leases - 1 /\ leases > 0
      /\ UNCHANGED <<request, turnVars, standalone, disposing>>
      /\ \/ UNCHANGED <<held, replaying, waiting>>
         \/ replaying' = held /\ held' = <<>> /\ MaybeSettle(active, pending, held)
  BY DEF ReleaseQuiescence
<1>2. waiting' \in BOOLEAN
  BY <1>1, MaybeSettleType DEF TypeInv, AdmissionOK
<1>3. RunOK' /\ TurnsOK'
  BY <1>1 DEF turnVars, TypeInv, RunOK, TurnsOK
<1>4. leases' \in Nat
  BY <1>1 DEF TypeInv, AdmissionOK
<1>5. held' \in Seq(Requests) /\ replaying' \in Seq(Requests)
  BY <1>1, EmptySequence DEF TypeInv, AdmissionOK
<1> QED BY <1>1, <1>2, <1>3, <1>4, <1>5 DEF TypeInv, AdmissionOK

\* A round of the replay keeps the types.
LEMMA ReplayKeeps ==
  ASSUME TypeInv, Replay
  PROVE  TypeInv'
<1> DEFINE r == Head(replaying)
<1>1. /\ replaying # <<>> /\ replaying' = Tail(replaying)
      /\ \/ Admit(r, request)
         \/ /\ request' = Reject(AbortRequests(request, {r}), r)
            /\ UNCHANGED <<turnVars, standalone>>
      /\ IF replaying' = <<>> THEN MaybeSettle(active', pending', held) ELSE UNCHANGED waiting
      /\ UNCHANGED <<held, leases, disposing>>
  BY DEF Replay
<1>2. r \in Requests /\ replaying' \in Seq(Requests)
  BY <1>1 DEF TypeInv, AdmissionOK
<1> HIDE DEF r
<1>3. waiting' \in BOOLEAN
  BY <1>1, MaybeSettleType DEF TypeInv, AdmissionOK
<1>4. RunOK' /\ TurnsOK' /\ standalone' \in Queue
  <2>1. request \in RequestMap
    BY DEF TypeInv, RunOK
  <2>2. CASE Admit(r, request)
    BY <1>2, <2>1, <2>2, AdmitType
  <2>3. CASE request' = Reject(AbortRequests(request, {r}), r) /\ UNCHANGED <<turnVars, standalone>>
    <3>1. request' \in RequestMap
      BY <1>2, <2>1, <2>3, RejectType, AbortRequestsType
    <3> QED BY <2>3, <3>1 DEF turnVars, TypeInv, RunOK, TurnsOK, AdmissionOK
  <2> QED BY <1>1, <2>2, <2>3
<1> QED BY <1>1, <1>2, <1>3, <1>4 DEF TypeInv, AdmissionOK
--------------------------------------------------------------------------------
(* Cancellation, disposal and settled().                                   *)

\* A sequence that loses an element stays a sequence.
LEMMA RemoveFromType ==
  ASSUME NEW S, NEW s \in Seq(S), NEW i \in DOMAIN s
  PROVE  RemoveFrom(s, i) \in Seq(S)
BY DEF RemoveFrom

\* Aborting a receipt keeps the types.
LEMMA AbortReceiptKeeps ==
  ASSUME TypeInv, NEW r \in Requests, AbortReceipt(r)
  PROVE  TypeInv'
<1>1. /\ request' = Reject(AbortRequests(request, {r}), r)
      /\ \/ /\ \E i \in DOMAIN held : held[i] = r /\ held' = RemoveFrom(held, i)
            /\ MaybeSettle(active, pending, held')
         \/ UNCHANGED <<held, waiting>>
      /\ UNCHANGED <<turnVars, standalone, replaying, leases, disposing>>
  BY DEF AbortReceipt
<1>2. request' \in RequestMap
  BY <1>1, RejectType, AbortRequestsType DEF TypeInv, RunOK
<1>3. held' \in Seq(Requests)
  BY <1>1, RemoveFromType DEF TypeInv, AdmissionOK
<1>4. waiting' \in BOOLEAN
  BY <1>1, MaybeSettleType DEF TypeInv, AdmissionOK
<1> QED BY <1>1, <1>2, <1>3, <1>4 DEF turnVars, TypeInv, RunOK, TurnsOK, AdmissionOK

\* Cancelling a step keeps the types.
LEMMA CancelStepKeeps ==
  ASSUME TypeInv, NEW r \in Requests, CancelStep(r)
  PROVE  TypeInv'
BY CancelStepsType
   DEF CancelStep, turnVars, admissionVars, TypeInv, RunOK, TurnsOK, AdmissionOK

\* Cancelling the active turn keeps the types.
LEMMA CancelActiveTurnKeeps ==
  ASSUME TypeInv, CancelActiveTurn
  PROVE  TypeInv'
<1>1. /\ active # None
      /\ turn' = [turn EXCEPT ![active].aborted = TRUE]
      /\ clock' = CancelTurn(clock, turn[active].id)
      /\ UNCHANGED <<request, active, pending, reserved, run, context>>
      /\ UNCHANGED <<admissionVars, waiting, disposing>>
  BY DEF CancelActiveTurn
<1>2. active \in Turns /\ turn \in TurnMap /\ FiniteClock(clock)
  BY <1>1 DEF TypeInv, RunOK, TurnsOK
<1>3. turn' \in TurnMap
  BY <1>1, <1>2 DEF TurnMap, Job
<1>4. turn[active].id \in Nat
  BY <1>2 DEF TurnMap, Job
<1>5. FiniteClock(clock')
  BY <1>1, <1>2, <1>4, CancelTurnFacts
<1> QED BY <1>1, <1>3, <1>5 DEF admissionVars, TypeInv, RunOK, TurnsOK, AdmissionOK

\* Cancelling jobs gives a map of jobs.
LEMMA CancelledJobsType ==
  ASSUME turn \in TurnMap, NEW ts
  PROVE  CancelledJobs(ts) \in TurnMap
BY DEF CancelledJobs, TurnMap, Job

\* Cancelling a queued turn keeps the types.
LEMMA CancelQueuedTurnKeeps ==
  ASSUME TypeInv, NEW i \in DOMAIN pending, CancelQueuedTurn(i)
  PROVE  TypeInv'
<1> DEFINE t == pending[i]
<1>1. /\ pending' = RemoveFrom(pending, i)
      /\ clock' = CancelTurn(clock, turn[t].id)
      /\ request' = CancelSteps(request, StepsOf(request, t))
      /\ turn' = CancelledJobs({t})
      /\ MaybeSettle(active, pending', held)
      /\ UNCHANGED <<active, reserved, run, context, admissionVars, disposing>>
  BY DEF CancelQueuedTurn
<1>2. /\ request \in RequestMap /\ turn \in TurnMap /\ FiniteClock(clock)
      /\ pending \in Seq(Turns) /\ t \in Turns
  BY DEF TypeInv, RunOK, TurnsOK
<1>3. turn[t].id \in Nat
  BY <1>2 DEF TurnMap, Job
<1> HIDE DEF t
<1>4. FiniteClock(clock')
  BY <1>1, <1>2, <1>3, CancelTurnFacts
<1>5. request' \in RequestMap /\ turn' \in TurnMap /\ pending' \in Seq(Turns) /\ waiting' \in BOOLEAN
  BY <1>1, <1>2, CancelStepsType, CancelledJobsType, RemoveFromType, MaybeSettleType
<1> QED BY <1>1, <1>4, <1>5 DEF admissionVars, TypeInv, RunOK, TurnsOK, AdmissionOK

\* The ids of the queued turns are finitely many numbers.
LEMMA QueuedIdsFinite ==
  ASSUME turn \in TurnMap, NEW ts \in SUBSET Turns
  PROVE  {turn[t].id : t \in ts} \in SUBSET Nat /\ IsFiniteSet({turn[t].id : t \in ts})
<1> DEFINE ids == {turn[t].id : t \in ts}
           f == [t \in ts |-> turn[t].id]
<1>1. \A t \in ts : turn[t].id \in Nat
  BY DEF TurnMap, Job
<1>2. f \in Surjection(ts, ids)
  BY DEF Surjection
<1>3. IsFiniteSet(ts)
  BY RequestsAssumption, TurnsAreRequests, FS_Subset
<1> HIDE DEF f
<1>4. IsFiniteSet(ids)
  BY <1>2, <1>3, FS_Surjection
<1> QED BY <1>1, <1>4

\* dispose keeps the types.
LEMMA DisposeKeeps ==
  ASSUME TypeInv, Dispose
  PROVE  TypeInv'
<1> DEFINE queued == Entries(pending)
           rq     == CancelSteps(request, {r \in Requests : request[r].turn \in queued})
           jobs   == CancelledJobs(queued)
<1>1. /\ disposing' = TRUE /\ pending' = <<>>
      /\ clock' = CancelTurns(clock, {turn[t].id : t \in queued})
      /\ turn' = IF active = None THEN jobs ELSE [jobs EXCEPT ![active].aborted = TRUE]
      /\ request' = [r \in Requests |->
                        IF r \in Homeless
                        THEN [rq[r] EXCEPT !.state = "aborted", !.receipt = "rejected"]
                        ELSE rq[r]]
      /\ standalone' = EmptyQueue /\ held' = <<>>
      /\ MaybeSettle(active, <<>>, <<>>)
      /\ UNCHANGED <<active, reserved, run, context, replaying, leases>>
  BY DEF Dispose
<1>2. /\ request \in RequestMap /\ turn \in TurnMap /\ FiniteClock(clock)
      /\ queued \in SUBSET Turns /\ active \in Turns \cup {None}
  BY EntriesType DEF TypeInv, RunOK, TurnsOK
<1>3. rq \in RequestMap /\ jobs \in TurnMap
  BY <1>2, CancelStepsType, CancelledJobsType
<1> HIDE DEF queued, rq, jobs
<1>4. FiniteClock(clock')
  BY <1>1, <1>2, QueuedIdsFinite, CancelTurnsFacts
<1>5. turn' \in TurnMap
  BY <1>1, <1>2, <1>3 DEF TurnMap, Job
<1>6. request' \in RequestMap
  BY <1>1, <1>3 DEF RequestMap, RequestRecord
<1>7. waiting' \in BOOLEAN
  BY <1>1, MaybeSettleType
<1>8. RunOK'
  BY <1>1, <1>5, <1>6 DEF TypeInv, RunOK
<1>9. TurnsOK'
  BY <1>1, <1>4, EmptySequence DEF TypeInv, TurnsOK
<1>10. AdmissionOK'
  BY <1>1, <1>7, EmptySequence, QueueTypes DEF TypeInv, AdmissionOK
<1> QED BY <1>8, <1>9, <1>10 DEF TypeInv
--------------------------------------------------------------------------------
(* The active turn's run.  Its steps leave TurnsOK alone, as long as the   *)
(* run does not become idle.                                               *)

\* A step of the run keeps the types if it keeps RunOK and the run busy.
LEMMA RunOnlyKeeps ==
  ASSUME TypeInv, active # None, RunOnly, RunOK', run'.phase # "idle"
  PROVE  TypeInv'
BY DEF RunOnly, admissionVars, TypeInv, TurnsOK, AdmissionOK

\* A response keeps the types.
LEMMA StepRespondsKeeps ==
  ASSUME TypeInv, NEW finish \in {"completed", "tool_calls", "filtered"}, StepResponds(finish)
  PROVE  TypeInv'
<1>1. /\ active # None /\ run.phase = "executing" /\ RunOnly
      /\ run' = [run EXCEPT !.phase = "finishing", !.finish = finish,
                            !.failed = None, !.attempts = 0]
      /\ UNCHANGED <<request, turn, context>>
  BY DEF StepResponds, At
<1>2. run' \in Run /\ run'.phase = "finishing" /\ run'.driver = run.driver
  BY <1>1 DEF TypeInv, RunOK, Run
<1>3. RunOK'
  BY <1>1, <1>2 DEF TypeInv, RunOK, StepPhases
<1> QED BY <1>1, <1>2, <1>3, RunOnlyKeeps

\* An aborted step keeps the types.
LEMMA StepAbortsKeeps ==
  ASSUME TypeInv, StepAborts
  PROVE  TypeInv'
<1>1. /\ active # None /\ RunOnly
      /\ \/ /\ run' = [run EXCEPT !.phase = "resuming", !.driver = None]
            /\ UNCHANGED <<request, turn, context>>
         \/ EndRun(active, turn, request, run, "cancelled")
  BY DEF StepAborts, At
<1>2. CASE /\ run' = [run EXCEPT !.phase = "resuming", !.driver = None]
           /\ UNCHANGED <<request, turn, context>>
  <2>1. run' \in Run /\ run'.phase = "resuming" /\ run'.driver = None
    BY <1>2 DEF TypeInv, RunOK, Run
  <2>2. RunOK'
    BY <1>2, <2>1 DEF TypeInv, RunOK, StepPhases
  <2> QED BY <1>1, <2>1, <2>2, RunOnlyKeeps
<1>3. CASE EndRun(active, turn, request, run, "cancelled")
  <2>1. RunOK' /\ run'.phase = "ended"
    BY <1>3, EndRunType DEF TypeInv, RunOK
  <2> QED BY <1>1, <2>1, RunOnlyKeeps
<1> QED BY <1>1, <1>2, <1>3

\* A failed step keeps the types.
LEMMA StepFailsKeeps ==
  ASSUME TypeInv, NEW retryable \in BOOLEAN, StepFails(retryable)
  PROVE  TypeInv'
<1>1. /\ active # None /\ run.phase = "executing" /\ RunOnly
      /\ \/ /\ run' = [run EXCEPT !.phase = "recovering", !.failed = run.driver,
                                  !.attempts = Attempt]
            /\ UNCHANGED <<request, turn, context>>
         \/ EndRun(active, turn, request, run, "failed")
  BY DEF StepFails, At
<1>2. CASE /\ run' = [run EXCEPT !.phase = "recovering", !.failed = run.driver,
                                 !.attempts = Attempt]
           /\ UNCHANGED <<request, turn, context>>
  <2>1. Attempt \in Nat
    BY DEF Attempt, TypeInv, RunOK, Run
  <2> HIDE DEF Attempt
  <2>2. run' \in Run /\ run'.phase = "recovering" /\ run'.driver = run.driver
    BY <1>2, <2>1 DEF TypeInv, RunOK, Run
  <2>3. RunOK'
    BY <1>1, <1>2, <2>2 DEF TypeInv, RunOK, StepPhases
  <2> QED BY <1>1, <2>2, <2>3, RunOnlyKeeps
<1>3. CASE EndRun(active, turn, request, run, "failed")
  <2>1. RunOK' /\ run'.phase = "ended"
    BY <1>3, EndRunType DEF TypeInv, RunOK
  <2> QED BY <1>1, <2>1, RunOnlyKeeps
<1> QED BY <1>1, <1>2, <1>3

\* The end of the backoff keeps the types.
LEMMA BackoffEndsKeeps ==
  ASSUME TypeInv, BackoffEnds
  PROVE  TypeInv'
<1>1. /\ active # None /\ run.phase = "recovering" /\ RunOnly
      /\ \/ EndRun(active, turn, request, run, "cancelled")
         \/ EndRun(active, turn, request, run, "failed")
         \/ /\ request' = [request EXCEPT ![run.driver].step = "queued"]
            /\ turn' = [turn EXCEPT ![active].queue = EnqueueHead(@, run.driver)]
            /\ run' = [run EXCEPT !.phase = "resuming", !.driver = None]
            /\ UNCHANGED context
  BY DEF BackoffEnds, At
<1>2. ASSUME NEW result \in {"cancelled", "failed"}, EndRun(active, turn, request, run, result)
      PROVE  TypeInv'
  <2>1. RunOK' /\ run'.phase = "ended"
    BY <1>2, EndRunType DEF TypeInv, RunOK
  <2> QED BY <1>1, <2>1, RunOnlyKeeps
<1>3. CASE /\ request' = [request EXCEPT ![run.driver].step = "queued"]
           /\ turn' = [turn EXCEPT ![active].queue = EnqueueHead(@, run.driver)]
           /\ run' = [run EXCEPT !.phase = "resuming", !.driver = None]
           /\ UNCHANGED context
  <2>1. active \in Turns /\ run \in Run /\ request \in RequestMap /\ turn \in TurnMap
    BY <1>1 DEF TypeInv, RunOK, TurnsOK
  <2>2. run.driver \in Requests
    BY <1>1, <2>1 DEF TypeInv, RunOK, StepPhases, Run
  <2>3. run' \in Run /\ run'.phase = "resuming" /\ run'.driver = None
    BY <1>3, <2>1 DEF Run
  <2>4. request' \in RequestMap
    BY <1>3, <2>1, <2>2 DEF RequestMap, RequestRecord, StepState
  <2>5. EnqueueHead(turn[active].queue, run.driver) \in Queue
    BY <2>1, <2>2, QueueTypes DEF TurnMap, Job
  <2>6. turn' \in TurnMap
    BY <1>3, <2>1, <2>5 DEF TurnMap, Job
  <2>7. RunOK'
    BY <1>3, <2>3, <2>4, <2>6 DEF TypeInv, RunOK, StepPhases
  <2> QED BY <1>1, <2>3, <2>7, RunOnlyKeeps
<1> QED BY <1>1, <1>2, <1>3

\* The next round of the loop keeps the types.
LEMMA ResumeKeeps ==
  ASSUME TypeInv, Resume
  PROVE  TypeInv'
<1>1. active # None /\ RunOnly /\ BeginLoopStep(active, turn, request, run)
  BY DEF Resume, At
<1>2. RunOK' /\ run'.phase \in {"executing", "ended"}
  BY <1>1, BeginLoopStepType DEF TypeInv, RunOK, TurnsOK
<1> QED BY <1>1, <1>2, RunOnlyKeeps

\* The end of a step keeps the types, with or without a continuation.
LEMMA StepEndsKeeps ==
  ASSUME TypeInv, NEW stop \in BOOLEAN, StepEnds(stop)
  PROVE  TypeInv'
<1> DEFINE rq == CompleteStep(request, run.driver)
           rn == [run EXCEPT !.driver = None]
           More(c) == AssignSteps([rq EXCEPT ![c].state = "pending"], {c}, active)
           Fed(c)  == [turn EXCEPT ![active].queue = EnqueueTail(@, c)]
<1>1. /\ active # None /\ run.phase = "finishing" /\ RunOnly
      /\ \/ \E result \in {"completed", "failed", "cancelled"} : EndRun(active, turn, rq, rn, result)
         \/ BeginLoopStep(active, turn, rq, rn)
         \/ \E c \in Continuations : BeginLoopStep(active, Fed(c), More(c), rn)
  BY DEF StepEnds, At
<1>2. active \in Turns /\ run \in Run /\ request \in RequestMap /\ turn \in TurnMap
  BY <1>1 DEF TypeInv, RunOK, TurnsOK
<1>3. run.driver \in Requests
  BY <1>1, <1>2 DEF TypeInv, RunOK, StepPhases, Run
<1>4. rq \in RequestMap
  BY <1>2, <1>3, CompleteStepType
<1>5. rn \in Run
  BY <1>2 DEF Run
<1> HIDE DEF rq, rn
<1>6. ASSUME NEW c \in Continuations
      PROVE  More(c) \in RequestMap /\ Fed(c) \in TurnMap
  <2>1. c \in Requests
    BY DEF Requests
  <2>2. [rq EXCEPT ![c].state = "pending"] \in RequestMap
    BY <1>4, <2>1 DEF RequestMap, RequestRecord
  <2>3. EnqueueTail(turn[active].queue, c) \in Queue
    BY <1>2, <2>1, QueueTypes DEF TurnMap, Job
  <2>4. Fed(c) \in TurnMap
    BY <1>2, <2>3 DEF TurnMap, Job
  <2> QED BY <1>2, <2>2, <2>4, AssignStepsType
<1> HIDE DEF More, Fed
<1>7. RunOK
  BY DEF TypeInv
<1>8. ASSUME NEW result \in {"completed", "failed", "cancelled"},
             EndRun(active, turn, rq, rn, result)
      PROVE  RunOK' /\ run'.phase = "ended"
  BY <1>2, <1>4, <1>5, <1>7, <1>8, EndRunType
<1>9. ASSUME NEW ts \in TurnMap, NEW rqs \in RequestMap, BeginLoopStep(active, ts, rqs, rn)
      PROVE  RunOK' /\ run'.phase \in {"executing", "ended"}
  BY <1>2, <1>5, <1>7, <1>9, BeginLoopStepType
<1>10. RunOK' /\ run'.phase \in {"executing", "ended"}
  BY <1>1, <1>2, <1>4, <1>6, <1>8, <1>9
<1> QED BY <1>1, <1>10, RunOnlyKeeps

\* Releasing the active turn keeps the types.
LEMMA ReleaseActiveTurnKeeps ==
  ASSUME TypeInv, ReleaseActiveTurn
  PROVE  TypeInv'
<1> DEFINE rq == CancelSteps(request, StepsOf(request, active))
           ts == [turn EXCEPT ![active].state = run.result]
<1>1. /\ active # None /\ run.phase = "ended" /\ PumpTurns(pending, ts, rq)
      /\ MaybeSettle(None, pending, held)
      /\ UNCHANGED <<reserved, admissionVars, disposing>>
  BY DEF ReleaseActiveTurn, At
<1>2. /\ request \in RequestMap /\ turn \in TurnMap /\ active \in Turns /\ run \in Run
      /\ pending \in Seq(Turns) /\ reserved \in Nat /\ FiniteClock(clock) /\ RunOK
  BY <1>1 DEF TypeInv, RunOK, TurnsOK
<1>3. rq \in RequestMap
  BY <1>2, CancelStepsType
<1>4. ts \in TurnMap
  BY <1>2 DEF TurnMap, Job, Run
<1> HIDE DEF rq, ts
<1>5. RunOK' /\ TurnsOK'
  BY <1>1, <1>2, <1>3, <1>4, PumpTurnsType
<1>6. waiting' \in BOOLEAN
  BY <1>1, MaybeSettleType
<1> QED BY <1>1, <1>5, <1>6 DEF admissionVars, TypeInv, AdmissionOK
--------------------------------------------------------------------------------
(* The theorem.                                                            *)

\* A new loop has the types.
LEMMA InitTypes == Init => TypeInv
<1> SUFFICES ASSUME Init PROVE TypeInv
  OBVIOUS
<1>1. InitClock \in Clock /\ FiniteClock(InitClock)
  BY FS_EmptySet DEF InitClock, Clock, FiniteClock
<1>2. NoJob \in Job
  BY QueueTypes DEF NoJob, Job
<1>3. RunOK
  BY <1>2, IdleRunType
     DEF Init, RunOK, RequestMap, RequestRecord, StepState, TurnMap, StepPhases
<1>4. TurnsOK
  BY <1>1, IdleRunType DEF Init, TurnsOK
<1>5. AdmissionOK
  BY EmptySequence, QueueTypes DEF Init, AdmissionOK
<1> QED BY <1>3, <1>4, <1>5 DEF TypeInv

\* Nothing a client does breaks the types.
LEMMA ClientKeeps == TypeInv /\ Client => TypeInv'
<1> SUFFICES ASSUME TypeInv, Client PROVE TypeInv'
  OBVIOUS
<1>1. CASE \E r \in Requests \ Continuations : Enqueue(r) \/ AbortReceipt(r)
  BY <1>1, EnqueueKeeps, AbortReceiptKeeps
<1>2. CASE \E r \in Requests : CancelStep(r)
  BY <1>2, CancelStepKeeps
<1>3. CASE CancelActiveTurn
  BY <1>3, CancelActiveTurnKeeps
<1>4. CASE \E i \in DOMAIN pending : CancelQueuedTurn(i)
  BY <1>4, CancelQueuedTurnKeeps
<1>5. CASE AcquireQuiescence
  BY <1>5 DEF AcquireQuiescence, turnVars, TypeInv, RunOK, TurnsOK, AdmissionOK
<1>6. CASE Settled
  BY <1>6 DEF Settled, turnVars, admissionVars, TypeInv, RunOK, TurnsOK, AdmissionOK
<1>7. CASE Dispose
  BY <1>7, DisposeKeeps
<1> QED BY <1>1, <1>2, <1>3, <1>4, <1>5, <1>6, <1>7 DEF Client

\* No step of the run breaks the types.
LEMMA RunStepKeeps == TypeInv /\ RunStep => TypeInv'
BY StepRespondsKeeps, StepFailsKeeps, StepAbortsKeeps, BackoffEndsKeeps, ResumeKeeps,
   StepEndsKeeps, ReleaseActiveTurnKeeps
   DEF RunStep

\* No step breaks the types.
LEMMA NextKeepsTypes == TypeInv /\ [Next]_vars => TypeInv'
<1>1. TypeInv /\ UNCHANGED vars => TypeInv'
  BY DEF vars, turnVars, admissionVars, TypeInv, RunOK, TurnsOK, AdmissionOK
<1> QED BY <1>1, ClientKeeps, RunStepKeeps, ReleaseQuiescenceKeeps, ReplayKeeps DEF Next

\* The inductive invariant holds.
LEMMA TypeInvHolds == Spec => []TypeInv
<1> QED BY InitTypes, NextKeepsTypes, PTL DEF Spec

\* The variables of the loop keep their types; a run is under way exactly when
\* a turn is active, and has a driver exactly while a step is under way.
THEOREM TypeCorrect == Spec => []TypeOK
<1> QED BY TypeInvHolds, TypeInvImplies, PTL
--------------------------------------------------------------------------------
(***************************************************************************)
(* The turn ids of the agent loop: the ids reserved in memory and the turn *)
(* clock agree, so a turn starts with the very id that its turn.prompt     *)
(* record, which names none, stands for.                                   *)
(*                                                                         *)
(* TurnIdsAccounted is not inductive alone.  A turn created twice would    *)
(* change the id of a queued one, so the invariant also says that what is  *)
(* held or new has no turn yet.                                            *)
(***************************************************************************)


IdsOf(p, ts) == {ts[p[i]].id : i \in DOMAIN p}

\* TurnIdsAccounted, without the active turn, of any queue p, jobs ts, clock c
\* and number res of reserved ids.
Accounted(p, ts, c, res) ==
    /\ \A i, j \in DOMAIN p : i < j => ts[p[i]].id < ts[p[j]].id
    /\ IdsOf(p, ts) \cap c.cancelled = {}
    /\ IdsOf(p, ts) \cup c.cancelled = c.next .. (res - 1)

\* The clock stands at an id that is free, and none beyond the next to reserve.
ClockFits(c, res) == c.next \notin c.cancelled /\ c.next <= res

\* The parts of a clock.
LEMMA ClockTypes ==
  ASSUME NEW c, FiniteClock(c)
  PROVE  c.next \in Nat /\ c.cancelled \in SUBSET Nat
BY DEF FiniteClock, Clock

\* Turn ids are numbers.
LEMMA IdTypes ==
  ASSUME NEW ts \in TurnMap, NEW p \in Seq(Turns)
  PROVE  /\ \A t \in Turns : ts[t].id \in Nat
         /\ \A i \in DOMAIN p : p[i] \in Turns /\ ts[p[i]].id \in Nat
BY DEF TurnMap, Job

\* The first of the queue has the clock's id, and may leave the queue when the
\* clock advances.
LEMMA PopAccounted ==
  ASSUME NEW p \in Seq(Turns), p # <<>>, NEW ts \in TurnMap, NEW clk, FiniteClock(clk),
         NEW res \in Nat, Accounted(p, ts, clk, res), ClockFits(clk, res)
  PROVE  /\ ts[Head(p)].id = clk.next
         /\ Accounted(Tail(p), ts, PromptTurn(clk), res)
         /\ ClockFits(PromptTurn(clk), res)
         /\ clk.next < PromptTurn(clk).next
<1> DEFINE c == PromptTurn(clk)
           id(i) == ts[p[i]].id
<1>1. /\ clk.next \in Nat /\ clk.cancelled \in SUBSET Nat
      /\ \A i \in DOMAIN p : p[i] \in Turns /\ id(i) \in Nat
  BY ClockTypes, IdTypes
<1>2. /\ FiniteClock(c)
      /\ clk.next < c.next
      /\ c.next \notin clk.cancelled
      /\ \A j \in (clk.next + 1) .. (c.next - 1) : j \in clk.cancelled
      /\ c.cancelled = {k \in clk.cancelled : k > c.next}
  BY PromptTurnFacts
<1>3. c.next \in Nat
  BY <1>2, ClockTypes
<1> HIDE DEF c
<1>4. 1 \in DOMAIN p /\ Head(p) = p[1]
  OBVIOUS
<1>5. /\ \A i \in DOMAIN p : id(i) \in clk.next .. (res - 1) /\ id(i) \notin clk.cancelled
      /\ \A x \in clk.next .. (res - 1) : x \in clk.cancelled \/ \E i \in DOMAIN p : x = id(i)
      /\ \A x \in clk.cancelled : x \in clk.next .. (res - 1)
      /\ \A i, j \in DOMAIN p : i < j => id(i) < id(j)
  BY DEF Accounted, IdsOf
<1>6. id(1) = clk.next
  <2>1. clk.next \in clk.next .. (res - 1)
    BY <1>1, <1>4, <1>5
  <2>2. PICK k \in DOMAIN p : clk.next = id(k)
    BY <1>5, <2>1 DEF ClockFits
  <2>3. k = 1 \/ id(1) < id(k)
    BY <1>4, <1>5
  <2>4. clk.next <= id(1)
    BY <1>1, <1>4, <1>5
  <2> QED BY <1>1, <1>4, <2>2, <2>3, <2>4
<1>7. \A i \in DOMAIN p : i # 1 => clk.next < id(i) /\ id(i) # clk.next
  BY <1>1, <1>4, <1>5, <1>6
<1>8. /\ DOMAIN Tail(p) = 1 .. (Len(p) - 1)
      /\ \A i \in DOMAIN Tail(p) : i + 1 \in DOMAIN p /\ i + 1 # 1 /\ Tail(p)[i] = p[i + 1]
      /\ \A i \in DOMAIN p : i # 1 => i - 1 \in DOMAIN Tail(p) /\ Tail(p)[i - 1] = p[i]
  OBVIOUS
<1>9. IdsOf(Tail(p), ts) = {id(i) : i \in DOMAIN p \ {1}}
  <2>1. ASSUME NEW x \in IdsOf(Tail(p), ts) PROVE \E i \in DOMAIN p \ {1} : x = id(i)
    BY <1>8 DEF IdsOf
  <2>2. ASSUME NEW i \in DOMAIN p \ {1} PROVE id(i) \in IdsOf(Tail(p), ts)
    <3>1. i - 1 \in DOMAIN Tail(p) /\ Tail(p)[i - 1] = p[i]
      BY <1>8
    <3> QED BY <3>1 DEF IdsOf
  <2> QED BY <2>1, <2>2
<1>10. ASSUME NEW i \in DOMAIN p, i # 1
       PROVE  id(i) \in c.next .. (res - 1) /\ id(i) \notin c.cancelled
  <2>1. id(i) \in Nat /\ clk.next < id(i) /\ id(i) <= res - 1 /\ id(i) \notin clk.cancelled
    BY <1>1, <1>5, <1>7, <1>10
  <2>2. ~(id(i) < c.next)
    BY <1>1, <1>2, <1>3, <2>1
  <2> QED BY <1>2, <1>3, <2>1, <2>2
<1>11. ASSUME NEW x \in c.cancelled
       PROVE  x \in c.next .. (res - 1)
  BY <1>1, <1>2, <1>3, <1>5
<1>12. ASSUME NEW x \in c.next .. (res - 1)
       PROVE  x \in c.cancelled \/ \E i \in DOMAIN p \ {1} : x = id(i)
  <2>1. x \in clk.next .. (res - 1) /\ x # clk.next /\ x \in Nat /\ c.next <= x
    BY <1>1, <1>2, <1>3
  <2>2. CASE x \in clk.cancelled
    BY <1>2, <1>3, <2>1, <2>2
  <2>3. CASE \E i \in DOMAIN p : x = id(i)
    BY <1>6, <2>1, <2>3
  <2> QED BY <1>5, <2>1, <2>2, <2>3
<1>13. Accounted(Tail(p), ts, c, res)
  <2>1. \A i, j \in DOMAIN Tail(p) : i < j => ts[Tail(p)[i]].id < ts[Tail(p)[j]].id
    BY <1>5, <1>8
  <2>2. IdsOf(Tail(p), ts) \cap c.cancelled = {}
    BY <1>9, <1>10
  <2>3. IdsOf(Tail(p), ts) \cup c.cancelled = c.next .. (res - 1)
    BY <1>9, <1>10, <1>11, <1>12
  <2> QED BY <2>1, <2>2, <2>3 DEF Accounted
<1>14. ClockFits(c, res)
  <2>1. clk.next <= res - 1
    BY <1>1, <1>4, <1>5, <1>6
  <2>2. CASE c.next = clk.next + 1
    BY <1>1, <1>2, <1>3, <2>1, <2>2 DEF ClockFits
  <2>3. CASE c.next > clk.next + 1
    <3>1. c.next - 1 \in clk.cancelled
      BY <1>1, <1>2, <1>3, <2>3
    <3>2. c.next - 1 <= res - 1
      BY <1>1, <1>5, <3>1
    <3> QED BY <1>2, <1>3, <3>2 DEF ClockFits
  <2> QED BY <1>1, <1>2, <1>3, <2>2, <2>3
<1> QED BY <1>2, <1>4, <1>6, <1>13, <1>14 DEF c

\* A turn that is not queued yet may join with the next id.
LEMMA AppendAccounted ==
  ASSUME NEW p \in Seq(Turns), NEW ts \in TurnMap, NEW clk, FiniteClock(clk),
         NEW res \in Nat, Accounted(p, ts, clk, res), ClockFits(clk, res),
         NEW t \in Turns, t \notin Entries(p), NEW job \in Job,
         job.id = LargerOf(clk.next, res)
  PROVE  /\ job.id = res
         /\ Accounted(Append(p, t), [ts EXCEPT ![t] = job], clk, job.id + 1)
         /\ ClockFits(clk, job.id + 1)
<1> DEFINE ts2 == [ts EXCEPT ![t] = job]
           q == Append(p, t)
<1>1. /\ clk.next \in Nat /\ clk.cancelled \in SUBSET Nat
      /\ \A i \in DOMAIN p : p[i] \in Turns /\ ts[p[i]].id \in Nat
  BY ClockTypes, IdTypes
<1>2. job.id = res
  BY <1>1 DEF LargerOf, ClockFits
<1>3. /\ DOMAIN q = DOMAIN p \cup {Len(p) + 1} /\ Len(p) + 1 \notin DOMAIN p
      /\ q[Len(p) + 1] = t
      /\ \A i \in DOMAIN p : q[i] = p[i] /\ p[i] # t /\ i < Len(p) + 1
  BY DEF Entries
<1>4. ts2[t] = job /\ \A x \in Turns : x # t => ts2[x] = ts[x]
  BY DEF TurnMap
<1>5. \A i \in DOMAIN p : ts2[q[i]].id = ts[p[i]].id
  BY <1>1, <1>3, <1>4
<1>6. /\ \A i \in DOMAIN p : ts[p[i]].id \in clk.next .. (res - 1)
      /\ IdsOf(p, ts) \cap clk.cancelled = {}
      /\ IdsOf(p, ts) \cup clk.cancelled = clk.next .. (res - 1)
      /\ \A i, j \in DOMAIN p : i < j => ts[p[i]].id < ts[p[j]].id
  BY DEF Accounted, IdsOf
<1>7. IdsOf(q, ts2) = IdsOf(p, ts) \cup {res}
  BY <1>2, <1>3, <1>4, <1>5 DEF IdsOf
<1> HIDE DEF ts2, q
<1>8. \A i, j \in DOMAIN q : i < j => ts2[q[i]].id < ts2[q[j]].id
  <2> SUFFICES ASSUME NEW i \in DOMAIN q, NEW j \in DOMAIN q, i < j
               PROVE  ts2[q[i]].id < ts2[q[j]].id
    OBVIOUS
  <2>1. i \in DOMAIN p
    BY <1>3
  <2>2. CASE j \in DOMAIN p
    BY <1>5, <1>6, <2>1, <2>2
  <2>3. CASE j = Len(p) + 1
    BY <1>1, <1>2, <1>3, <1>4, <1>5, <1>6, <2>1, <2>3
  <2> QED BY <1>3, <2>2, <2>3
<1>9. res \notin clk.cancelled
  BY <1>1, <1>6
<1>10. clk.next .. res = clk.next .. (res - 1) \cup {res}
  BY <1>1 DEF ClockFits
<1>11. (res + 1) - 1 = res
  OBVIOUS
<1>12. Accounted(q, ts2, clk, res + 1)
  BY <1>6, <1>7, <1>8, <1>9, <1>10, <1>11 DEF Accounted
<1> QED BY <1>1, <1>2, <1>12 DEF ClockFits, ts2, q

\* What is left when the ids gone, some queued turns' among them, are cancelled.
LEMMA ClockAfterCancel ==
  ASSUME NEW clk, FiniteClock(clk), NEW res \in Nat, ClockFits(clk, res),
         NEW gone \in SUBSET Nat, NEW ids \in SUBSET Nat,
         gone \cap ids = {}, gone \cup ids = clk.next .. (res - 1),
         NEW c, FiniteClock(c), clk.next <= c.next, c.next \notin gone,
         \A j \in clk.next .. (c.next - 1) : j \in gone,
         c.cancelled = {k \in gone : k > c.next}
  PROVE  /\ ids \cap c.cancelled = {}
         /\ ids \cup c.cancelled = c.next .. (res - 1)
         /\ ClockFits(c, res)
<1>1. clk.next \in Nat /\ c.next \in Nat
  BY ClockTypes
<1>2. ids \cap c.cancelled = {}
  OBVIOUS
<1>3. ASSUME NEW x \in ids PROVE x \in c.next .. (res - 1)
  <2>1. x \in clk.next .. (res - 1) /\ x \notin gone
    OBVIOUS
  <2> QED BY <1>1, <2>1
<1>4. ASSUME NEW x \in c.cancelled PROVE x \in c.next .. (res - 1)
  <2>1. x \in clk.next .. (res - 1) /\ x > c.next
    OBVIOUS
  <2> QED BY <1>1, <2>1
<1>5. ASSUME NEW x \in c.next .. (res - 1) PROVE x \in ids \cup c.cancelled
  <2>1. x \in gone \cup ids
    BY <1>1
  <2>2. CASE x \in gone
    BY <1>1, <2>2
  <2> QED BY <2>1, <2>2
<1>6. ClockFits(c, res)
  <2>1. CASE c.next = clk.next
    BY <2>1 DEF ClockFits
  <2>2. CASE c.next > clk.next
    <3>1. c.next - 1 \in clk.next .. (res - 1)
      BY <1>1, <2>2
    <3> QED BY <1>1, <3>1 DEF ClockFits
  <2> QED BY <1>1, <2>1, <2>2
<1> QED BY <1>2, <1>3, <1>4, <1>5, <1>6

\* Where element k of RemoveFrom(s, i) stood in s.
Unshifted(k, i) == IF k < i THEN k ELSE k + 1

\* RemoveFrom drops one element and keeps the others in their order.
LEMMA RemoveFromFacts ==
  ASSUME NEW S, NEW s \in Seq(S), NEW i \in DOMAIN s
  PROVE  LET q == RemoveFrom(s, i)
         IN  /\ DOMAIN q = 1 .. (Len(s) - 1)
             /\ \A k \in DOMAIN q :
                   Unshifted(k, i) \in DOMAIN s /\ Unshifted(k, i) # i /\ q[k] = s[Unshifted(k, i)]
<1> DEFINE q == RemoveFrom(s, i)
           before == SubSeq(s, 1, i - 1)
           after  == SubSeq(s, i + 1, Len(s))
<1>1. i \in 1 .. Len(s) /\ Len(s) \in Nat /\ DOMAIN s = 1 .. Len(s)
  OBVIOUS
<1>2. /\ before \in Seq(S) /\ Len(before) = i - 1
      /\ \A k \in 1 .. (i - 1) : before[k] = s[k]
  BY <1>1
<1>3. /\ after \in Seq(S) /\ Len(after) = Len(s) - i
      /\ \A k \in 1 .. (Len(s) - i) : after[k] = s[i + k]
  BY <1>1
<1>4. q = before \o after
  BY DEF RemoveFrom
<1> HIDE DEF before, after, q
<1>5. /\ Len(q) = Len(s) - 1 /\ q \in Seq(S)
      /\ \A k \in 1 .. (i - 1) : q[k] = before[k]
      /\ \A k \in i .. (Len(s) - 1) : q[k] = after[k - (i - 1)]
  <2>1. /\ q \in Seq(S) /\ Len(q) = Len(before) + Len(after)
        /\ \A k \in 1 .. Len(before) + Len(after) :
              q[k] = IF k <= Len(before) THEN before[k] ELSE after[k - Len(before)]
    BY <1>2, <1>3, <1>4, ConcatProperties
  <2>2. Len(before) = i - 1 /\ Len(after) = Len(s) - i
    BY <1>2, <1>3
  <2>3. i - 1 \in Nat /\ (i - 1) + (Len(s) - i) = Len(s) - 1
    BY <1>1
  <2>4. \A k \in 1 .. (i - 1) : k \in 1 .. (Len(s) - 1) /\ k <= i - 1
    BY <1>1
  <2>5. \A k \in i .. (Len(s) - 1) : k \in 1 .. (Len(s) - 1) /\ ~(k <= i - 1)
    BY <1>1
  <2> QED BY <2>1, <2>2, <2>3, <2>4, <2>5
<1>6. \A k \in i .. (Len(s) - 1) : q[k] = s[k + 1]
  <2> SUFFICES ASSUME NEW k \in i .. (Len(s) - 1) PROVE q[k] = s[k + 1]
    OBVIOUS
  <2>1. k - (i - 1) \in 1 .. (Len(s) - i) /\ i + (k - (i - 1)) = k + 1
    BY <1>1
  <2> QED BY <1>3, <1>5, <2>1
<1>7. DOMAIN q = 1 .. (Len(s) - 1)
  BY <1>5
<1>8. ASSUME NEW k \in 1 .. (Len(s) - 1)
      PROVE  Unshifted(k, i) \in DOMAIN s /\ Unshifted(k, i) # i /\ q[k] = s[Unshifted(k, i)]
  <2>1. CASE k < i
    <3>1. Unshifted(k, i) = k /\ k \in 1 .. (i - 1)
      BY <1>1, <2>1 DEF Unshifted
    <3>2. q[k] = s[k]
      BY <1>2, <1>5, <3>1
    <3> QED BY <1>1, <3>1, <3>2
  <2>2. CASE k >= i
    BY <1>1, <1>6, <2>2 DEF Unshifted
  <2> QED BY <1>1, <2>1, <2>2
<1> QED BY <1>7, <1>8 DEF q

\* A queued turn may leave the queue when its id is cancelled.
LEMMA RemoveAccounted ==
  ASSUME NEW p \in Seq(Turns), NEW i \in DOMAIN p, NEW ts \in TurnMap,
         NEW clk, FiniteClock(clk), NEW res \in Nat,
         Accounted(p, ts, clk, res), ClockFits(clk, res)
  PROVE  LET c == CancelTurn(clk, ts[p[i]].id)
         IN  /\ Accounted(RemoveFrom(p, i), ts, c, res)
             /\ ClockFits(c, res)
             /\ clk.next <= c.next
<1> DEFINE id(k) == ts[p[k]].id
           c == CancelTurn(clk, id(i))
           q == RemoveFrom(p, i)
           old(k) == Unshifted(k, i)
           gone == clk.cancelled \cup {id(i)}
<1>1. /\ clk.next \in Nat /\ clk.cancelled \in SUBSET Nat
      /\ \A k \in DOMAIN p : p[k] \in Turns /\ id(k) \in Nat
  BY ClockTypes, IdTypes
<1>2. /\ \A k \in DOMAIN p : id(k) \in clk.next .. (res - 1) /\ id(k) \notin clk.cancelled
      /\ IdsOf(p, ts) \cup clk.cancelled = clk.next .. (res - 1)
      /\ \A k, j \in DOMAIN p : k < j => id(k) < id(j)
  BY DEF Accounted, IdsOf
<1>3. /\ FiniteClock(c)
      /\ clk.next <= c.next
      /\ c.next \notin gone
      /\ \A j \in clk.next .. (c.next - 1) : j \in gone
      /\ c.cancelled = {k \in gone : k > c.next}
  <2>1. id(i) \in Nat /\ clk.next <= id(i)
    BY <1>1, <1>2
  <2> HIDE DEF id
  <2>2. ASSUME NEW x \in Nat, clk.next <= x
        PROVE  /\ FiniteClock(CancelTurn(clk, x))
               /\ clk.next <= CancelTurn(clk, x).next
               /\ CancelTurn(clk, x).next \notin clk.cancelled \cup {x}
               /\ \A j \in clk.next .. (CancelTurn(clk, x).next - 1) : j \in clk.cancelled \cup {x}
               /\ CancelTurn(clk, x).cancelled =
                     {k \in clk.cancelled \cup {x} : k > CancelTurn(clk, x).next}
    BY <2>2, CancelTurnFacts
  <2> QED BY <2>1, <2>2
<1> HIDE DEF c
<1>4. /\ DOMAIN q = 1 .. (Len(p) - 1)
      /\ \A k \in DOMAIN q : old(k) \in DOMAIN p /\ old(k) # i /\ q[k] = p[old(k)]
  BY RemoveFromFacts DEF Unshifted
<1>5. \A k \in DOMAIN p : k # i => \E j \in DOMAIN q : k = old(j)
  <2> SUFFICES ASSUME NEW k \in DOMAIN p, k # i
               PROVE  \E j \in DOMAIN q : k = old(j)
    OBVIOUS
  <2>1. CASE k < i
    BY <1>4, <2>1 DEF Unshifted
  <2>2. CASE k > i
    <3>1. k - 1 \in DOMAIN q /\ old(k - 1) = k
      BY <1>4, <2>2 DEF Unshifted
    <3> QED BY <3>1
  <2> QED BY <2>1, <2>2
<1>6. \A k, j \in DOMAIN q : k < j => old(k) < old(j)
  BY <1>4 DEF Unshifted
<1>7. \A k, j \in DOMAIN q : k < j => ts[q[k]].id < ts[q[j]].id
  BY <1>2, <1>4, <1>6
<1>8. \A k \in DOMAIN p : k # i => id(k) # id(i)
  BY <1>1, <1>2
<1> HIDE DEF q, old
<1>9. IdsOf(q, ts) = IdsOf(p, ts) \ {id(i)}
  <2>1. ASSUME NEW x \in IdsOf(q, ts) PROVE x \in IdsOf(p, ts) \ {id(i)}
    BY <1>4, <1>8 DEF IdsOf
  <2>2. ASSUME NEW x \in IdsOf(p, ts) \ {id(i)} PROVE x \in IdsOf(q, ts)
    BY <1>4, <1>5 DEF IdsOf
  <2> QED BY <2>1, <2>2
<1>10. /\ gone \in SUBSET Nat /\ IdsOf(q, ts) \in SUBSET Nat
       /\ gone \cap IdsOf(q, ts) = {}
       /\ gone \cup IdsOf(q, ts) = clk.next .. (res - 1)
  <2>1. IdsOf(p, ts) \in SUBSET Nat /\ id(i) \in IdsOf(p, ts) /\ IdsOf(p, ts) \cap clk.cancelled = {}
    BY <1>1 DEF IdsOf, Accounted
  <2> QED BY <1>1, <1>2, <1>9, <2>1
<1> HIDE DEF gone
<1>11. /\ IdsOf(q, ts) \cap c.cancelled = {}
       /\ IdsOf(q, ts) \cup c.cancelled = c.next .. (res - 1)
       /\ ClockFits(c, res)
  BY <1>3, <1>10, ClockAfterCancel
<1> QED BY <1>3, <1>7, <1>11 DEF Accounted, c, q

\* So may all queued turns at once.
LEMMA ClearAccounted ==
  ASSUME NEW p \in Seq(Turns), NEW ts \in TurnMap, NEW clk, FiniteClock(clk),
         NEW res \in Nat, Accounted(p, ts, clk, res), ClockFits(clk, res)
  PROVE  LET c == CancelTurns(clk, {ts[t].id : t \in Entries(p)})
         IN  /\ \A ts2 : Accounted(<<>>, ts2, c, res)
             /\ ClockFits(c, res)
             /\ clk.next <= c.next
<1> DEFINE ids  == {ts[t].id : t \in Entries(p)}
           c    == CancelTurns(clk, ids)
           gone == clk.cancelled \cup {k \in ids : k >= clk.next}
<1>1. clk.next \in Nat /\ clk.cancelled \in SUBSET Nat
  BY ClockTypes
<1>2. ids = IdsOf(p, ts)
  BY DEF IdsOf, Entries
<1>3. ids \in SUBSET Nat /\ IsFiniteSet(ids)
  <2>1. ids \in SUBSET Nat
    BY <1>2, IdTypes DEF IdsOf
  <2>2. ids \subseteq clk.next .. (res - 1)
    BY <1>2 DEF Accounted
  <2>3. IsFiniteSet(clk.next .. (res - 1))
    <3>1. clk.next \in Int /\ res - 1 \in Int
      BY <1>1
    <3> QED BY <3>1, FS_Interval
  <2> QED BY <2>1, <2>2, <2>3, FS_Subset
<1> HIDE DEF ids
<1>4. /\ FiniteClock(c)
      /\ clk.next <= c.next
      /\ c.next \notin gone
      /\ \A j \in clk.next .. (c.next - 1) : j \in gone
      /\ c.cancelled = {k \in gone : k > c.next}
  BY <1>3, CancelTurnsFacts
<1> HIDE DEF c
<1>5. gone \in SUBSET Nat /\ gone = clk.next .. (res - 1)
  BY <1>1, <1>2, <1>3 DEF Accounted
<1> HIDE DEF gone
<1>6. /\ {} \cap c.cancelled = {}
      /\ {} \cup c.cancelled = c.next .. (res - 1)
      /\ ClockFits(c, res)
  <2>1. {} \in SUBSET Nat /\ gone \cap {} = {} /\ gone \cup {} = clk.next .. (res - 1)
    BY <1>5
  <2> QED BY <1>4, <1>5, <2>1, ClockAfterCancel
<1>7. DOMAIN <<>> = {} /\ \A ts2 : IdsOf(<<>>, ts2) = {}
  <2>1. DOMAIN <<>> = {}
    OBVIOUS
  <2> QED BY <2>1 DEF IdsOf
<1>8. \A ts2 : Accounted(<<>>, ts2, c, res)
  BY <1>6, <1>7 DEF Accounted
<1> QED BY <1>4, <1>6, <1>8 DEF c, ids
--------------------------------------------------------------------------------
(***************************************************************************)
(* The invariant, in two parts.                                            *)
(***************************************************************************)

NeverCreated(ts, t) == ts[t].state = "none"

\* The ids are accounted for, and what is active or queued was created.
IdsOK ==
    /\ Accounted(pending, turn, clock, reserved)
    /\ ClockFits(clock, reserved)
    /\ active # None => turn[active].id < clock.next
    /\ \A t \in Entries(pending) : ~NeverCreated(turn, t)
    /\ active # None => ~NeverCreated(turn, active)

Injective(s) == \A i, j \in DOMAIN s : s[i] = s[j] => i = j

\* A request that is new, held or about to be replayed has made no turn, and
\* no request is held twice.
FreshOK ==
    /\ \A t \in Turns : request[t].state = "new" => NeverCreated(turn, t)
    /\ \A r \in Entries(held) \cup Entries(replaying) : request[r].state # "new"
    /\ \A t \in Turns \cap (Entries(held) \cup Entries(replaying)) : NeverCreated(turn, t)
    /\ Injective(held) /\ Injective(replaying)
    /\ replaying # <<>> => held = <<>>

IdsInv == TypeInv /\ IdsOK /\ FreshOK

\* StartTakesClockId, of one step; and a turn that goes on keeps its id.
StartsRight ==
    /\ active' # active /\ active' # None => turn'[active'].id = clock.next
    /\ active' = active /\ active # None => turn'[active].id = turn[active].id

\* Turns of ts2 are those of ts: same ids, the same ones created.
SameTurns(ts2, ts) ==
    \A t \in Turns : ts2[t].id = ts[t].id /\ (NeverCreated(ts2, t) <=> NeverCreated(ts, t))

\* No request becomes new again from rq to rq2.
NoneRenewed(rq2, rq) == \A r \in Requests : rq2[r].state = "new" => rq[r].state = "new"

\* Accounting depends on the ids of the turns only.
LEMMA AccountedSame ==
  ASSUME NEW p \in Seq(Turns), NEW ts, NEW ts2, NEW c, NEW res,
         \A t \in Entries(p) : ts2[t].id = ts[t].id, Accounted(p, ts, c, res)
  PROVE  Accounted(p, ts2, c, res)
<1>1. \A i \in DOMAIN p : ts2[p[i]].id = ts[p[i]].id
  BY DEF Entries
<1>2. IdsOf(p, ts2) = IdsOf(p, ts)
  BY <1>1 DEF IdsOf
<1> QED BY <1>1, <1>2 DEF Accounted

\* None of the operators on requests makes a request new.
LEMMA RequestsNotRenewed ==
  ASSUME NEW rq \in RequestMap
  PROVE  /\ \A rs, t : NoneRenewed(AssignSteps(rq, rs, t), rq)
         /\ \A r \in Requests : NoneRenewed(Reject(rq, r), rq)
         /\ \A rs : NoneRenewed(AbortRequests(rq, rs), rq)
         /\ \A rs : NoneRenewed(CancelSteps(rq, rs), rq)
         /\ \A rs : NoneRenewed(Materialize(rq, rs), rq)
         /\ \A r \in Requests : NoneRenewed(CompleteStep(rq, r), rq)
<1>1. \A rs, t : NoneRenewed(AssignSteps(rq, rs, t), rq)
  BY DEF NoneRenewed, AssignSteps, RequestMap, RequestRecord
<1>2. \A r \in Requests : NoneRenewed(Reject(rq, r), rq)
  BY DEF NoneRenewed, Reject, RequestMap, RequestRecord
<1>3. \A rs : NoneRenewed(AbortRequests(rq, rs), rq)
  BY DEF NoneRenewed, AbortRequests, RequestMap, RequestRecord
<1>4. ASSUME NEW rs PROVE NoneRenewed(CancelSteps(rq, rs), rq)
  <2> DEFINE cancelled == {r \in rs : Unsettled(rq, r)}
             aborted   == AbortRequests(rq, cancelled)
  <2>1. aborted \in RequestMap /\ NoneRenewed(aborted, rq)
    BY <1>3, AbortRequestsType
  <2>2. CancelSteps(rq, rs) =
          [r \in Requests |->
              IF r \in cancelled
              THEN [aborted[r] EXCEPT !.step = "cancelled",
                                      !.result = IF @ = "none" THEN "cancelled" ELSE @]
              ELSE rq[r]]
    BY DEF CancelSteps
  <2>3. ASSUME NEW a \in RequestRecord
        PROVE  [a EXCEPT !.step = "cancelled",
                         !.result = IF @ = "none" THEN "cancelled" ELSE @].state = a.state
    BY DEF RequestRecord
  <2> DEFINE Gone(a) == [a EXCEPT !.step = "cancelled",
                                  !.result = IF @ = "none" THEN "cancelled" ELSE @]
  <2> HIDE DEF cancelled, aborted
  <2>4. \A r \in Requests : aborted[r] \in RequestRecord
    BY <2>1 DEF RequestMap
  <2>5. \A r \in Requests : Gone(aborted[r]).state = aborted[r].state
    BY <2>3, <2>4
  <2>6. \A r \in Requests :
          CancelSteps(rq, rs)[r] = IF r \in cancelled THEN Gone(aborted[r]) ELSE rq[r]
    BY <2>2
  <2> HIDE DEF Gone
  <2> QED BY <2>1, <2>5, <2>6 DEF NoneRenewed
<1>5. \A rs : NoneRenewed(Materialize(rq, rs), rq)
  BY DEF NoneRenewed, Materialize, RequestMap, RequestRecord
<1>6. \A r \in Requests : NoneRenewed(CompleteStep(rq, r), rq)
  BY DEF NoneRenewed, CompleteStep, RequestMap, RequestRecord
<1> QED BY <1>1, <1>2, <1>3, <1>4, <1>5, <1>6

\* Two blocks that renew no request renew none together.
LEMMA RenewedTransitive ==
  \A a, b, c : NoneRenewed(a, b) /\ NoneRenewed(b, c) => NoneRenewed(a, c)
BY DEF NoneRenewed

\* Two blocks that leave the turns the same do so together.
LEMMA SameTransitive ==
  \A a, b, c : SameTurns(a, b) /\ SameTurns(b, c) => SameTurns(a, c)
BY DEF SameTurns

\* Giving a turn another queue, or aborting it, leaves the turns the same.
LEMMA QueueKeepsTurns ==
  ASSUME NEW ts \in TurnMap, NEW t \in Turns, NEW q
  PROVE  /\ SameTurns([ts EXCEPT ![t].queue = q], ts)
         /\ SameTurns([ts EXCEPT ![t].aborted = q], ts)
BY DEF SameTurns, NeverCreated, TurnMap, Job

\* A block of run() leaves the turns the same and renews no request.
LEMMA BeginLoopStepSame ==
  ASSUME NEW t \in Turns, NEW ts \in TurnMap, NEW rq \in RequestMap, NEW rn \in Run,
         BeginLoopStep(t, ts, rq, rn)
  PROVE  SameTurns(turn', ts) /\ NoneRenewed(request', rq)
<1>1. ASSUME NEW result, EndRun(t, ts, rq, rn, result)
      PROVE  SameTurns(turn', ts) /\ NoneRenewed(request', rq)
  BY <1>1, RequestsNotRenewed DEF EndRun, SameTurns
<1>2. ASSUME Live(ts[t].queue, rq) # {}, ExecuteStep(t, ts, rq, rn)
      PROVE  SameTurns(turn', ts) /\ NoneRenewed(request', rq)
  <2> DEFINE batch == TakeNextBatch(ts[t].queue, rq)
             begun == [rq EXCEPT ![batch.driver].step = "running"]
  <2>1. turn' = [ts EXCEPT ![t].queue = batch.rest] /\ request' = Materialize(begun, batch.members)
    BY <1>2 DEF ExecuteStep
  <2>2. ts[t].queue \in Queue
    BY DEF TurnMap, Job
  <2>3. batch.driver \in Requests
    BY <1>2, <2>2, TakeNextBatchType
  <2> HIDE DEF batch
  <2>4. begun \in RequestMap /\ NoneRenewed(begun, rq)
    BY <2>3 DEF RequestMap, RequestRecord, StepState, NoneRenewed
  <2> HIDE DEF begun
  <2> QED BY <2>1, <2>4, QueueKeepsTurns, RequestsNotRenewed, RenewedTransitive
<1> QED BY <1>1, <1>2 DEF BeginLoopStep

\* Append, Tail and RemoveFrom, as far as the entries go.
LEMMA AppendEntries ==
  ASSUME NEW S, NEW s \in Seq(S), NEW x \in S
  PROVE  /\ Append(s, x) \in Seq(S)
         /\ Entries(Append(s, x)) = Entries(s) \cup {x}
         /\ Injective(s) /\ x \notin Entries(s) => Injective(Append(s, x))
<1> DEFINE q == Append(s, x)
<1>1. /\ q \in Seq(S)
      /\ DOMAIN q = DOMAIN s \cup {Len(s) + 1}
      /\ q[Len(s) + 1] = x
      /\ \A i \in DOMAIN s : q[i] = s[i]
  OBVIOUS
<1> HIDE DEF q
<1>2. Entries(q) = Entries(s) \cup {x}
  BY <1>1 DEF Entries
<1>3. ASSUME Injective(s), x \notin Entries(s) PROVE Injective(q)
  BY <1>1, <1>3 DEF Injective, Entries
<1> QED BY <1>1, <1>2, <1>3 DEF q

\* The head of an injective sequence does not occur in its tail.
LEMMA TailEntries ==
  ASSUME NEW S, NEW s \in Seq(S), s # <<>>
  PROVE  /\ Entries(Tail(s)) \subseteq Entries(s) /\ Head(s) \in Entries(s)
         /\ Injective(s) => Injective(Tail(s)) /\ Head(s) \notin Entries(Tail(s))
<1>1. /\ DOMAIN Tail(s) = 1 .. (Len(s) - 1)
      /\ \A i \in DOMAIN Tail(s) : i + 1 \in DOMAIN s /\ i + 1 # 1 /\ Tail(s)[i] = s[i + 1]
      /\ 1 \in DOMAIN s /\ Head(s) = s[1]
  OBVIOUS
<1>2. Entries(Tail(s)) \subseteq Entries(s) /\ Head(s) \in Entries(s)
  BY <1>1 DEF Entries
<1>3. ASSUME Injective(s) PROVE Head(s) \notin Entries(Tail(s))
  BY <1>1, <1>3 DEF Injective, Entries
<1>4. ASSUME Injective(s) PROVE Injective(Tail(s))
  <2> SUFFICES ASSUME NEW i \in DOMAIN Tail(s), NEW j \in DOMAIN Tail(s), Tail(s)[i] = Tail(s)[j]
               PROVE  i = j
    BY DEF Injective
  <2>1. i + 1 = j + 1
    BY <1>1, <1>4 DEF Injective
  <2> QED BY <1>1, <2>1
<1> QED BY <1>2, <1>3, <1>4

\* RemoveFrom adds no entry, and no duplicate.
LEMMA RemoveFromEntries ==
  ASSUME NEW S, NEW s \in Seq(S), NEW i \in DOMAIN s
  PROVE  /\ Entries(RemoveFrom(s, i)) \subseteq Entries(s)
         /\ Injective(s) => Injective(RemoveFrom(s, i))
<1> DEFINE q == RemoveFrom(s, i)
<1>1. /\ DOMAIN q = 1 .. (Len(s) - 1)
      /\ \A k \in DOMAIN q : Unshifted(k, i) \in DOMAIN s /\ q[k] = s[Unshifted(k, i)]
  BY RemoveFromFacts
<1> HIDE DEF q
<1>2. Entries(q) \subseteq Entries(s)
  BY <1>1 DEF Entries
<1>3. ASSUME Injective(s) PROVE Injective(q)
  <2> SUFFICES ASSUME NEW k \in DOMAIN q, NEW j \in DOMAIN q, q[k] = q[j]
               PROVE  k = j
    BY DEF Injective
  <2>1. Unshifted(k, i) = Unshifted(j, i)
    BY <1>1, <1>3 DEF Injective
  <2>2. k \in Nat /\ j \in Nat /\ i \in Nat
    BY <1>1
  <2> QED BY <2>1, <2>2 DEF Unshifted
<1> QED BY <1>2, <1>3 DEF q

\* pumpTurns starts the first queued turn with the clock's id, and the rest of
\* the queue stays accounted for.
LEMMA PumpTurnsIds ==
  ASSUME FiniteClock(clock), reserved' \in Nat,
         NEW p \in Seq(Turns), NEW ts \in TurnMap, NEW rq \in RequestMap,
         Accounted(p, ts, clock, reserved'), ClockFits(clock, reserved'),
         \A t \in Entries(p) : ~NeverCreated(ts, t),
         PumpTurns(p, ts, rq)
  PROVE  /\ IdsOK'
         /\ active' # None => turn'[active'].id = clock.next
         /\ SameTurns(turn', ts)
         /\ NoneRenewed(request', rq)
<1>1. CASE /\ p # <<>>
           /\ pending' = Tail(p)
           /\ StartTurn(Head(p), ts, rq)
  <2> DEFINE t   == Head(p)
             ts1 == [ts EXCEPT ![t].state = "running"]
  <2>1. /\ clock' = PromptTurn(clock) /\ active' = t
        /\ BeginLoopStep(t, ts1, rq, IdleRun)
    BY <1>1 DEF StartTurn
  <2>2. t \in Turns /\ t \in Entries(p)
    BY <1>1 DEF Entries
  <2>3. Entries(Tail(p)) \subseteq Entries(p) /\ Tail(p) \in Seq(Turns)
    BY <1>1 DEF Entries
  <2> HIDE DEF t
  <2>4. ts1 \in TurnMap
    BY <2>2 DEF TurnMap, Job
  <2>5. SameTurns(ts1, ts)
    BY <2>2 DEF SameTurns, NeverCreated, TurnMap, Job
  <2> HIDE DEF ts1
  <2>6. SameTurns(turn', ts) /\ NoneRenewed(request', rq)
    BY <2>1, <2>2, <2>4, <2>5, BeginLoopStepSame, IdleRunType, SameTransitive
  <2>7. /\ ts[t].id = clock.next
        /\ Accounted(Tail(p), ts, clock', reserved')
        /\ ClockFits(clock', reserved')
        /\ clock.next < clock'.next
    BY <1>1, <2>1, PopAccounted DEF t
  <2>8. \A x \in Turns : turn'[x].id = ts[x].id /\ (NeverCreated(turn', x) <=> NeverCreated(ts, x))
    BY <2>6 DEF SameTurns
  <2>9. Entries(p) \subseteq Turns
    BY EntriesType
  <2>10. Accounted(pending', turn', clock', reserved')
    BY <1>1, <2>3, <2>7, <2>8, <2>9, AccountedSame
  <2>11. \A x \in Entries(pending') : ~NeverCreated(turn', x)
    BY <1>1, <2>3, <2>8, <2>9
  <2>12. turn'[active'].id = clock.next /\ ~NeverCreated(turn', active')
    BY <2>1, <2>2, <2>7, <2>8
  <2>13. IdsOK'
    BY <2>7, <2>10, <2>11, <2>12 DEF IdsOK
  <2> QED BY <2>6, <2>12, <2>13
<1>2. CASE /\ pending' = p /\ active' = None /\ turn' = ts /\ request' = rq
           /\ UNCHANGED clock
  BY <1>2 DEF IdsOK, SameTurns, NoneRenewed
<1> QED BY <1>1, <1>2 DEF PumpTurns

\* A request that made no turn yet makes one, with the next id.
LEMMA CreateAndQueueTurnIds ==
  ASSUME TypeInv, IdsOK, NEW r \in Turns, NeverCreated(turn, r), NEW rq \in RequestMap,
         CreateAndQueueTurn(r, rq)
  PROVE  /\ IdsOK' /\ StartsRight
         /\ NoneRenewed(request', rq)
         /\ \A t \in Turns : t # r /\ NeverCreated(turn, t) => NeverCreated(turn', t)
<1> DEFINE id    == LargerOf(clock.next, reserved)
           own   == EnqueueTail(EmptyQueue, r)
           queue == [drivers |-> own.drivers \o standalone.drivers,
                     merges  |-> own.merges \o standalone.merges]
           job   == [id |-> id, state |-> "queued", aborted |-> FALSE, queue |-> queue]
           ts    == [turn EXCEPT ![r] = job]
           rq1   == AssignSteps(rq, {r} \cup StandaloneMoved(rq), r)
           p     == Append(pending, r)
<1>1. /\ FiniteClock(clock) /\ clock.next \in Nat /\ reserved \in Nat
      /\ turn \in TurnMap /\ pending \in Seq(Turns) /\ active \in Turns \cup {None}
  BY ClockTypes DEF TypeInv, TurnsOK, RunOK
<1>2. id \in Nat
  BY <1>1 DEF LargerOf
<1>3. /\ reserved' = id + 1
      /\ IF active = None
         THEN PumpTurns(p, ts, rq1)
         ELSE /\ pending' = p /\ turn' = ts /\ request' = rq1
              /\ UNCHANGED <<active, clock, run, context>>
  BY DEF CreateAndQueueTurn
<1>4. own \in Queue
  BY TurnsAreRequests, QueueTypes
<1> HIDE DEF id, own
<1>5. queue \in Queue
  BY <1>4 DEF Queue, TypeInv, AdmissionOK
<1> HIDE DEF queue
<1>6. job \in Job /\ job.id = id /\ job.state = "queued"
  BY <1>2, <1>5 DEF Job
<1> HIDE DEF job
<1>7. /\ ts \in TurnMap /\ ts[r] = job
      /\ \A t \in Turns : t # r => ts[t] = turn[t]
  BY <1>1, <1>6 DEF TurnMap
<1>8. rq1 \in RequestMap /\ NoneRenewed(rq1, rq)
  BY AssignStepsType, RequestsNotRenewed
<1>9. r \notin Entries(pending) /\ r # active
  BY TurnsAreRequests DEF IdsOK
<1>10. Accounted(p, ts, clock, id + 1) /\ ClockFits(clock, id + 1)
  BY <1>1, <1>6, <1>9, AppendAccounted DEF IdsOK, id
<1>11. p \in Seq(Turns) /\ Entries(p) = Entries(pending) \cup {r}
  BY <1>1, AppendEntries
<1>12. Entries(pending) \subseteq Turns
  BY <1>1, EntriesType
<1>13. \A t \in Entries(p) : ~NeverCreated(ts, t)
  BY <1>6, <1>7, <1>9, <1>11, <1>12 DEF IdsOK, NeverCreated
<1>14. \A t \in Turns : t # r /\ NeverCreated(turn, t) => NeverCreated(ts, t)
  BY <1>7 DEF NeverCreated
<1> HIDE DEF ts, rq1, p
<1>15. reserved' = id + 1 /\ reserved' \in Nat
  BY <1>2, <1>3
<1>16. CASE active = None
  <2>1. PumpTurns(p, ts, rq1)
    BY <1>3, <1>16
  <2>2. /\ IdsOK'
        /\ active' # None => turn'[active'].id = clock.next
        /\ SameTurns(turn', ts)
        /\ NoneRenewed(request', rq1)
    BY <1>1, <1>7, <1>8, <1>10, <1>11, <1>13, <1>15, <2>1, PumpTurnsIds
  <2> QED BY <1>8, <1>14, <1>16, <2>2, RenewedTransitive DEF StartsRight, SameTurns
<1>17. CASE active # None
  <2>1. pending' = p /\ turn' = ts /\ request' = rq1 /\ active' = active /\ clock' = clock
    BY <1>3, <1>17
  <2>2. turn'[active] = turn[active]
    BY <1>1, <1>7, <1>9, <1>17, <2>1
  <2>3. IdsOK'
    BY <1>10, <1>13, <1>15, <2>1, <2>2 DEF IdsOK, NeverCreated
  <2> QED BY <1>8, <1>14, <2>1, <2>2, <2>3 DEF StartsRight
<1> QED BY <1>16, <1>17

\* Steps that change neither the queue of turns nor the ids keep IdsOK.
LEMMA SameKeepsIds ==
  ASSUME TypeInv, IdsOK, SameTurns(turn', turn), UNCHANGED <<active, pending, clock, reserved>>
  PROVE  IdsOK' /\ StartsRight
<1>1. pending \in Seq(Turns) /\ Entries(pending) \subseteq Turns /\ active \in Turns \cup {None}
  BY EntriesType DEF TypeInv, TurnsOK
<1>2. \A t \in Turns : turn'[t].id = turn[t].id /\ (NeverCreated(turn', t) <=> NeverCreated(turn, t))
  BY DEF SameTurns
<1>3. Accounted(pending, turn', clock, reserved)
  BY <1>1, <1>2, AccountedSame DEF IdsOK
<1> QED BY <1>1, <1>2, <1>3 DEF IdsOK, StartsRight

\* admit, of a request that made no turn yet.
LEMMA AdmitIds ==
  ASSUME TypeInv, IdsOK, NEW r \in Requests, r \in Turns => NeverCreated(turn, r),
         NEW rq \in RequestMap, Admit(r, rq)
  PROVE  /\ IdsOK' /\ StartsRight
         /\ NoneRenewed(request', rq)
         /\ \A t \in Turns : t # r /\ NeverCreated(turn, t) => NeverCreated(turn', t)
<1>1. CASE r \in Turns /\ CreateAndQueueTurn(r, rq)
  BY <1>1, CreateAndQueueTurnIds
<1>2. CASE active # None /\ AssignToActive(r, rq)
  <2>1. active \in Turns /\ turn \in TurnMap
    BY <1>2 DEF TypeInv, RunOK, TurnsOK
  <2>2. /\ turn' = [turn EXCEPT ![active].queue = EnqueueTail(@, r)]
        /\ request' = AssignSteps(rq, {r}, active)
        /\ UNCHANGED <<active, pending, clock, reserved>>
    BY <1>2 DEF AssignToActive
  <2>3. SameTurns(turn', turn)
    BY <2>1, <2>2, QueueKeepsTurns
  <2>4. NoneRenewed(request', rq)
    BY <2>2, RequestsNotRenewed
  <2> QED BY <2>2, <2>3, <2>4, SameKeepsIds DEF SameTurns
<1>3. CASE EnqueueStandalone(r, rq)
  <2>1. request' = rq /\ turn' = turn /\ UNCHANGED <<active, pending, clock, reserved>>
    BY <1>3 DEF EnqueueStandalone, turnVars
  <2> QED BY <2>1, SameKeepsIds DEF SameTurns, NoneRenewed
<1> QED BY <1>1, <1>2, <1>3 DEF Admit, Turns
--------------------------------------------------------------------------------
(***************************************************************************)
(* The actions.                                                            *)
(***************************************************************************)

\* A step that changes neither what is held nor what is created, and renews no
\* request, keeps FreshOK.
LEMMA FreshKept ==
  ASSUME FreshOK, NoneRenewed(request', request), UNCHANGED <<held, replaying>>,
         TypeInv, \A t \in Turns : NeverCreated(turn, t) => NeverCreated(turn', t)
  PROVE  FreshOK'
<1>1. Entries(held) \cup Entries(replaying) \subseteq Requests /\ Turns \subseteq Requests
  BY EntriesType, TurnsAreRequests DEF TypeInv, AdmissionOK
<1> QED BY <1>1 DEF FreshOK, NoneRenewed

\* enqueue, of a request that is new and so has no turn yet.
LEMMA EnqueueKeepsIds ==
  ASSUME IdsInv, NEW r \in Requests, Enqueue(r)
  PROVE  IdsInv' /\ StartsRight
<1> DEFINE rq == [request EXCEPT ![r].state = "pending", ![r].receipt = "waiting"]
<1>1. /\ request[r].state = "new" /\ replaying = <<>>
      /\ \/ held' = Append(held, r) /\ request' = rq /\ UNCHANGED <<turnVars, standalone>>
         \/ Admit(r, rq) /\ UNCHANGED held
         \/ request' = Reject(rq, r) /\ UNCHANGED <<turnVars, standalone, held>>
      /\ UNCHANGED <<replaying, leases, waiting, disposing>>
  BY DEF Enqueue, Quiet
<1>2. TypeInv /\ TypeInv'
  BY EnqueueKeeps DEF IdsInv
<1>3. /\ request \in RequestMap /\ rq \in RequestMap /\ NoneRenewed(rq, request)
      /\ rq[r].state = "pending"
  <2>1. request \in RequestMap
    BY <1>2 DEF TypeInv, RunOK
  <2>2. rq \in RequestMap
    BY <2>1 DEF RequestMap, RequestRecord
  <2>3. rq[r].state = "pending" /\ \A x \in Requests : x # r => rq[x] = request[x]
    BY <2>1 DEF RequestMap, RequestRecord
  <2> QED BY <2>1, <2>2, <2>3 DEF NoneRenewed
<1>4. /\ Entries(held) \subseteq Requests /\ r \notin Entries(held)
      /\ Entries(replaying) = {} /\ Turns \subseteq Requests
      /\ r \in Turns => NeverCreated(turn, r)
  BY <1>1, <1>2, EntriesType, TurnsAreRequests DEF IdsInv, FreshOK, TypeInv, AdmissionOK, Entries
<1> HIDE DEF rq
<1>5. CASE held' = Append(held, r) /\ request' = rq /\ UNCHANGED <<turnVars, standalone>>
  <2>1. Entries(held') = Entries(held) \cup {r} /\ Injective(held')
    BY <1>2, <1>4, <1>5, AppendEntries DEF IdsInv, FreshOK, TypeInv, AdmissionOK
  <2>2. FreshOK'
    BY <1>1, <1>3, <1>4, <1>5, <2>1 DEF IdsInv, FreshOK, NoneRenewed, turnVars
  <2> QED BY <1>2, <1>5, <2>2, SameKeepsIds DEF IdsInv, turnVars, SameTurns
<1>6. CASE Admit(r, rq) /\ UNCHANGED held
  <2>1. /\ IdsOK' /\ StartsRight
        /\ NoneRenewed(request', rq)
        /\ \A t \in Turns : t # r /\ NeverCreated(turn, t) => NeverCreated(turn', t)
    BY <1>2, <1>3, <1>4, <1>6, AdmitIds DEF IdsInv
  <2>2. request'[r].state # "new"
    BY <1>3, <2>1 DEF NoneRenewed
  <2>3. NoneRenewed(request', request)
    BY <1>3, <2>1, RenewedTransitive
  <2>4. FreshOK'
    BY <1>1, <1>4, <1>6, <2>1, <2>2, <2>3 DEF IdsInv, FreshOK, NoneRenewed
  <2> QED BY <1>2, <2>1, <2>4 DEF IdsInv
<1>7. CASE request' = Reject(rq, r) /\ UNCHANGED <<turnVars, standalone, held>>
  <2>1. NoneRenewed(request', request)
    BY <1>3, <1>7, RequestsNotRenewed, RenewedTransitive
  <2> QED BY <1>1, <1>2, <1>7, <2>1, SameKeepsIds, FreshKept DEF IdsInv, turnVars, SameTurns
<1> QED BY <1>1, <1>5, <1>6, <1>7

\* releaseQuiescence hands over what is held as it is.
LEMMA ReleaseQuiescenceKeepsIds ==
  ASSUME IdsInv, ReleaseQuiescence
  PROVE  IdsInv' /\ StartsRight
<1>1. /\ replaying = <<>> /\ UNCHANGED <<request, turnVars>>
      /\ \/ UNCHANGED <<held, replaying>>
         \/ replaying' = held /\ held' = <<>>
  BY DEF ReleaseQuiescence, Quiet
<1>2. IdsOK' /\ StartsRight
  BY <1>1, SameKeepsIds DEF IdsInv, turnVars, SameTurns
<1>3. Entries(<<>>) = {} /\ Injective(<<>>)
  BY DEF Entries, Injective
<1>4. FreshOK'
  BY <1>1, <1>3 DEF IdsInv, FreshOK, turnVars, NeverCreated
<1> QED BY <1>2, <1>4, ReleaseQuiescenceKeeps DEF IdsInv

\* A replayed request has no turn yet, and is not replayed again.
LEMMA ReplayKeepsIds ==
  ASSUME IdsInv, Replay
  PROVE  IdsInv' /\ StartsRight
<1> DEFINE r == Head(replaying)
<1>1. /\ replaying # <<>> /\ replaying' = Tail(replaying) /\ held' = held
      /\ \/ Admit(r, request)
         \/ /\ request' = Reject(AbortRequests(request, {r}), r)
            /\ UNCHANGED <<turnVars, standalone>>
  BY DEF Replay
<1>2. TypeInv /\ TypeInv' /\ request \in RequestMap /\ replaying \in Seq(Requests)
  BY ReplayKeeps DEF IdsInv, TypeInv, RunOK, AdmissionOK
<1>3. /\ r \in Entries(replaying) /\ r \notin Entries(replaying')
      /\ Entries(replaying') \subseteq Entries(replaying) /\ Injective(replaying')
  BY <1>1, <1>2, TailEntries DEF IdsInv, FreshOK
<1>4. /\ Entries(replaying) \subseteq Requests /\ Turns \subseteq Requests
      /\ held = <<>> /\ Entries(held) = {}
      /\ request[r].state # "new" /\ (r \in Turns => NeverCreated(turn, r))
  BY <1>1, <1>2, <1>3, EntriesType, TurnsAreRequests DEF IdsInv, FreshOK, Entries
<1> HIDE DEF r
<1>5. /\ IdsOK' /\ StartsRight
      /\ NoneRenewed(request', request)
      /\ \A t \in Turns : t # r /\ NeverCreated(turn, t) => NeverCreated(turn', t)
  <2>1. CASE Admit(r, request)
    BY <1>2, <1>3, <1>4, <2>1, AdmitIds DEF IdsInv
  <2>2. CASE request' = Reject(AbortRequests(request, {r}), r) /\ UNCHANGED <<turnVars, standalone>>
    <3>1. NoneRenewed(request', request)
      BY <1>2, <1>3, <1>4, <2>2, RequestsNotRenewed, AbortRequestsType, RenewedTransitive
    <3> QED BY <1>2, <2>2, <3>1, SameKeepsIds DEF IdsInv, turnVars, SameTurns
  <2> QED BY <1>1, <2>1, <2>2
<1>6. FreshOK'
  BY <1>1, <1>3, <1>4, <1>5 DEF IdsInv, FreshOK, NoneRenewed
<1> QED BY <1>2, <1>5, <1>6 DEF IdsInv

\* Dropping, aborting and cancelling requests outside the queue of turns.
LEMMA AbortReceiptKeepsIds ==
  ASSUME IdsInv, NEW r \in Requests, AbortReceipt(r)
  PROVE  IdsInv' /\ StartsRight
<1>1. /\ replaying = <<>>
      /\ request' = Reject(AbortRequests(request, {r}), r)
      /\ held' = held \/ \E i \in DOMAIN held : held' = RemoveFrom(held, i)
      /\ UNCHANGED <<turnVars, replaying>>
  BY DEF AbortReceipt, Quiet
<1>2. /\ TypeInv /\ TypeInv' /\ request \in RequestMap
      /\ held \in Seq(Requests) /\ Entries(held) \subseteq Requests
  BY AbortReceiptKeeps, EntriesType DEF IdsInv, TypeInv, RunOK, AdmissionOK
<1>3. NoneRenewed(request', request)
  BY <1>1, <1>2, RequestsNotRenewed, AbortRequestsType, RenewedTransitive
<1>4. IdsOK' /\ StartsRight
  BY <1>1, <1>2, SameKeepsIds DEF IdsInv, turnVars, SameTurns
<1>5. Entries(held') \subseteq Entries(held) /\ Injective(held')
  BY <1>1, <1>2, RemoveFromEntries DEF IdsInv, FreshOK
<1>6. turn' = turn /\ Turns \subseteq Requests /\ Entries(replaying) = {}
  BY <1>1, TurnsAreRequests DEF turnVars, Entries
<1>7. FreshOK'
  BY <1>1, <1>2, <1>3, <1>5, <1>6 DEF IdsInv, FreshOK, NoneRenewed
<1> QED BY <1>2, <1>4, <1>7 DEF IdsInv

\* What leaves the turns and the held requests alone.
LEMMA RunOnlyKeepsIds ==
  ASSUME IdsInv, TypeInv', UNCHANGED <<active, pending, clock, reserved, held, replaying>>,
         SameTurns(turn', turn), NoneRenewed(request', request)
  PROVE  IdsInv' /\ StartsRight
<1>1. TypeInv /\ IdsOK /\ FreshOK
  BY DEF IdsInv
<1>2. \A t \in Turns : NeverCreated(turn, t) => NeverCreated(turn', t)
  BY DEF SameTurns
<1>3. IdsOK' /\ StartsRight
  BY <1>1, SameKeepsIds
<1>4. FreshOK'
  BY <1>1, <1>2, FreshKept
<1> QED BY <1>3, <1>4 DEF IdsInv

\* Cancelling a step touches no turn.
LEMMA CancelStepKeepsIds ==
  ASSUME IdsInv, NEW r \in Requests, CancelStep(r)
  PROVE  IdsInv' /\ StartsRight
<1>1. /\ request' = CancelSteps(request, {r}) /\ turn' = turn
      /\ UNCHANGED <<active, pending, clock, reserved, held, replaying>>
  BY DEF CancelStep, turnVars, admissionVars
<1>2. TypeInv' /\ request \in RequestMap
  BY CancelStepKeeps DEF IdsInv, TypeInv, RunOK
<1>3. NoneRenewed(request', request)
  BY <1>1, <1>2, RequestsNotRenewed
<1> QED BY <1>1, <1>2, <1>3, RunOnlyKeepsIds DEF SameTurns

\* The turn.cancel of the active turn leaves the clock as it is.
LEMMA CancelActiveTurnKeepsIds ==
  ASSUME IdsInv, CancelActiveTurn
  PROVE  IdsInv' /\ StartsRight
<1>1. /\ active # None
      /\ turn' = [turn EXCEPT ![active].aborted = TRUE]
      /\ clock' = CancelTurn(clock, turn[active].id)
      /\ UNCHANGED <<request, active, pending, reserved, held, replaying>>
  BY DEF CancelActiveTurn, admissionVars
<1>2. TypeInv' /\ turn \in TurnMap /\ active \in Turns
  BY <1>1, CancelActiveTurnKeeps DEF IdsInv, TypeInv, RunOK, TurnsOK
<1>3. SameTurns(turn', turn)
  BY <1>1, <1>2, QueueKeepsTurns
<1>4. clock' = clock
  BY <1>1 DEF CancelTurn, IdsInv, IdsOK
<1> QED BY <1>1, <1>2, <1>3, <1>4, RunOnlyKeepsIds DEF NoneRenewed

\* cancelQueuedTurn and dispose mark jobs that were created; ids stay.
LEMMA CancelledJobsIds ==
  ASSUME turn \in TurnMap, NEW ts
  PROVE  \A t \in Turns : /\ CancelledJobs(ts)[t].id = turn[t].id
                          /\ ~NeverCreated(turn, t) => ~NeverCreated(CancelledJobs(ts), t)
                          /\ t \notin ts => CancelledJobs(ts)[t] = turn[t]
BY DEF CancelledJobs, TurnMap, Job, NeverCreated

\* The id of a queued turn that is cancelled goes to the clock.
LEMMA CancelQueuedTurnKeepsIds ==
  ASSUME IdsInv, NEW i \in DOMAIN pending, CancelQueuedTurn(i)
  PROVE  IdsInv' /\ StartsRight
<1> DEFINE t == pending[i]
<1>1. /\ pending' = RemoveFrom(pending, i)
      /\ clock' = CancelTurn(clock, turn[t].id)
      /\ request' = CancelSteps(request, StepsOf(request, t))
      /\ turn' = CancelledJobs({t})
      /\ UNCHANGED <<active, reserved, held, replaying>>
  BY DEF CancelQueuedTurn, admissionVars
<1>2. /\ TypeInv /\ TypeInv' /\ request \in RequestMap /\ turn \in TurnMap /\ FiniteClock(clock)
      /\ pending \in Seq(Turns) /\ Entries(pending) \subseteq Turns /\ t \in Turns
      /\ active \in Turns \cup {None} /\ reserved \in Nat
  BY CancelQueuedTurnKeeps, EntriesType DEF IdsInv, TypeInv, RunOK, TurnsOK
<1>3. t \in Entries(pending)
  BY DEF Entries
<1>4. /\ Accounted(pending', turn, clock', reserved)
      /\ ClockFits(clock', reserved) /\ clock.next <= clock'.next
  BY <1>1, <1>2, RemoveAccounted DEF IdsInv, IdsOK
<1> HIDE DEF t
<1>5. \A x \in Turns : /\ turn'[x].id = turn[x].id
                       /\ ~NeverCreated(turn, x) => ~NeverCreated(turn', x)
                       /\ x # t => turn'[x] = turn[x]
  BY <1>1, <1>2, CancelledJobsIds
<1>6. pending' \in Seq(Turns) /\ Entries(pending') \subseteq Entries(pending)
  BY <1>1, <1>2, RemoveFromType, RemoveFromEntries
<1>7. Accounted(pending', turn', clock', reserved)
  BY <1>2, <1>4, <1>5, <1>6, AccountedSame
<1>8. active # None => turn'[active].id < clock'.next
  <2>1. clock.next \in Nat /\ clock'.next \in Nat /\ \A x \in Turns : turn[x].id \in Nat
    BY <1>2, ClockTypes, IdTypes DEF TypeInv, TurnsOK
  <2> QED BY <1>2, <1>4, <1>5, <2>1 DEF IdsInv, IdsOK
<1>9. IdsOK'
  BY <1>1, <1>2, <1>4, <1>5, <1>6, <1>7, <1>8 DEF IdsInv, IdsOK
<1>10. \A x \in Turns : NeverCreated(turn, x) => NeverCreated(turn', x)
  BY <1>3, <1>5 DEF IdsInv, IdsOK, NeverCreated
<1>11. FreshOK'
  BY <1>1, <1>2, <1>10, RequestsNotRenewed, FreshKept DEF IdsInv
<1> QED BY <1>1, <1>2, <1>5, <1>9, <1>11 DEF IdsInv, StartsRight

\* So do the ids of all queued turns when the loop is disposed.
LEMMA DisposeKeepsIds ==
  ASSUME IdsInv, Dispose
  PROVE  IdsInv' /\ StartsRight
<1> DEFINE queued == Entries(pending)
           rq     == CancelSteps(request, {r \in Requests : request[r].turn \in queued})
           jobs   == CancelledJobs(queued)
<1>1. /\ replaying = <<>> /\ pending' = <<>>
      /\ clock' = CancelTurns(clock, {turn[t].id : t \in queued})
      /\ turn' = IF active = None THEN jobs ELSE [jobs EXCEPT ![active].aborted = TRUE]
      /\ request' = [r \in Requests |->
                        IF r \in Homeless
                        THEN [rq[r] EXCEPT !.state = "aborted", !.receipt = "rejected"]
                        ELSE rq[r]]
      /\ held' = <<>>
      /\ UNCHANGED <<active, reserved, replaying>>
  BY DEF Dispose, Quiet
<1>2. /\ TypeInv /\ TypeInv' /\ request \in RequestMap /\ turn \in TurnMap /\ FiniteClock(clock)
      /\ pending \in Seq(Turns) /\ queued \in SUBSET Turns
      /\ active \in Turns \cup {None} /\ reserved \in Nat
  BY DisposeKeeps, EntriesType DEF IdsInv, TypeInv, RunOK, TurnsOK
<1>3. /\ \A ts2 : Accounted(<<>>, ts2, clock', reserved)
      /\ ClockFits(clock', reserved) /\ clock.next <= clock'.next
  BY <1>1, <1>2, ClearAccounted DEF IdsInv, IdsOK
<1>4. rq \in RequestMap /\ NoneRenewed(rq, request) /\ jobs \in TurnMap
  BY <1>2, CancelStepsType, RequestsNotRenewed, CancelledJobsType
<1>5. \A t \in Turns : /\ jobs[t].id = turn[t].id
                       /\ ~NeverCreated(turn, t) => ~NeverCreated(jobs, t)
                       /\ t \notin queued => jobs[t] = turn[t]
  BY <1>2, CancelledJobsIds
<1>6. \A t \in queued : ~NeverCreated(turn, t)
  BY DEF IdsInv, IdsOK
<1> HIDE DEF queued, rq, jobs
<1>7. SameTurns(turn', jobs)
  <2>1. CASE active = None
    BY <1>1, <2>1 DEF SameTurns
  <2>2. CASE active # None
    <3>1. turn' = [jobs EXCEPT ![active].aborted = TRUE] /\ active \in Turns
      BY <1>1, <1>2, <2>2
    <3> QED BY <1>4, <3>1, QueueKeepsTurns
  <2> QED BY <2>1, <2>2
<1>8. \A t \in Turns : /\ turn'[t].id = turn[t].id
                       /\ NeverCreated(turn, t) <=> NeverCreated(turn', t)
  BY <1>5, <1>6, <1>7 DEF SameTurns, NeverCreated
<1>9. NoneRenewed(request', request)
  <2>1. ASSUME NEW r \in Requests, request'[r].state = "new" PROVE rq[r].state = "new"
    BY <1>1, <1>4, <2>1 DEF RequestMap, RequestRecord
  <2> QED BY <1>4, <2>1 DEF NoneRenewed
<1>10. active # None => turn'[active].id < clock'.next
  <2>1. clock.next \in Nat /\ clock'.next \in Nat /\ \A t \in Turns : turn[t].id \in Nat
    BY <1>2, ClockTypes, IdTypes DEF TypeInv, TurnsOK
  <2> QED BY <1>2, <1>3, <1>8, <2>1 DEF IdsInv, IdsOK
<1>11. Entries(<<>>) = {} /\ Injective(<<>>) /\ Turns \subseteq Requests
  BY TurnsAreRequests DEF Entries, Injective
<1>12. IdsOK'
  BY <1>1, <1>2, <1>3, <1>8, <1>10, <1>11 DEF IdsInv, IdsOK
<1>13. FreshOK'
  BY <1>1, <1>8, <1>9, <1>11 DEF IdsInv, FreshOK, NoneRenewed
<1> QED BY <1>1, <1>2, <1>8, <1>12, <1>13 DEF IdsInv, StartsRight
--------------------------------------------------------------------------------
(***************************************************************************)
(* The active turn's run.                                                  *)
(***************************************************************************)

\* A response touches no turn.
LEMMA StepRespondsKeepsIds ==
  ASSUME IdsInv, NEW finish \in {"completed", "tool_calls", "filtered"}, StepResponds(finish)
  PROVE  IdsInv' /\ StartsRight
<1>1. TypeInv'
  BY StepRespondsKeeps DEF IdsInv
<1> QED BY <1>1, RunOnlyKeepsIds
        DEF StepResponds, RunOnly, admissionVars, SameTurns, NoneRenewed

\* The end of a run leaves the turns the same and renews no request.
LEMMA EndRunSame ==
  ASSUME TypeInv, NEW t, NEW rq \in RequestMap, NEW rn, NEW result,
         EndRun(t, turn, rq, rn, result)
  PROVE  SameTurns(turn', turn) /\ NoneRenewed(request', rq)
BY RequestsNotRenewed DEF EndRun, SameTurns

\* Neither does an aborted step.
LEMMA StepAbortsKeepsIds ==
  ASSUME IdsInv, StepAborts
  PROVE  IdsInv' /\ StartsRight
<1>1. TypeInv' /\ TypeInv /\ request \in RequestMap
  BY StepAbortsKeeps DEF IdsInv, TypeInv, RunOK
<1>2. /\ RunOnly
      /\ UNCHANGED <<request, turn>> \/ EndRun(active, turn, request, run, "cancelled")
  BY DEF StepAborts
<1>3. SameTurns(turn', turn) /\ NoneRenewed(request', request)
  BY <1>1, <1>2, EndRunSame DEF SameTurns, NoneRenewed
<1> QED BY <1>1, <1>2, <1>3, RunOnlyKeepsIds DEF RunOnly, admissionVars

\* Neither does a failed step.
LEMMA StepFailsKeepsIds ==
  ASSUME IdsInv, NEW retryable \in BOOLEAN, StepFails(retryable)
  PROVE  IdsInv' /\ StartsRight
<1>1. TypeInv' /\ TypeInv /\ request \in RequestMap
  BY StepFailsKeeps DEF IdsInv, TypeInv, RunOK
<1>2. /\ RunOnly
      /\ UNCHANGED <<request, turn>> \/ EndRun(active, turn, request, run, "failed")
  BY DEF StepFails
<1>3. SameTurns(turn', turn) /\ NoneRenewed(request', request)
  BY <1>1, <1>2, EndRunSame DEF SameTurns, NoneRenewed
<1> QED BY <1>1, <1>2, <1>3, RunOnlyKeepsIds DEF RunOnly, admissionVars

\* A retried step goes back to the queue of its turn.
LEMMA BackoffEndsKeepsIds ==
  ASSUME IdsInv, BackoffEnds
  PROVE  IdsInv' /\ StartsRight
<1>1. /\ active # None /\ run.phase = "recovering" /\ RunOnly
      /\ \/ \E result \in {"cancelled", "failed"} : EndRun(active, turn, request, run, result)
         \/ /\ request' = [request EXCEPT ![run.driver].step = "queued"]
            /\ turn' = [turn EXCEPT ![active].queue = EnqueueHead(@, run.driver)]
  BY DEF BackoffEnds, At
<1>2. /\ TypeInv' /\ TypeInv /\ request \in RequestMap /\ turn \in TurnMap
      /\ active \in Turns /\ run \in Run
  BY <1>1, BackoffEndsKeeps DEF IdsInv, TypeInv, RunOK, TurnsOK
<1>3. CASE \E result \in {"cancelled", "failed"} : EndRun(active, turn, request, run, result)
  <2>1. SameTurns(turn', turn) /\ NoneRenewed(request', request)
    BY <1>2, <1>3, EndRunSame
  <2> QED BY <1>1, <1>2, <2>1, RunOnlyKeepsIds DEF RunOnly, admissionVars
<1>4. CASE /\ request' = [request EXCEPT ![run.driver].step = "queued"]
           /\ turn' = [turn EXCEPT ![active].queue = EnqueueHead(@, run.driver)]
  <2>1. SameTurns(turn', turn)
    BY <1>2, <1>4, QueueKeepsTurns
  <2>2. NoneRenewed(request', request)
    BY <1>2, <1>4 DEF RequestMap, RequestRecord, NoneRenewed
  <2> QED BY <1>1, <1>2, <2>1, <2>2, RunOnlyKeepsIds DEF RunOnly, admissionVars
<1> QED BY <1>1, <1>3, <1>4

\* The next round of the loop changes the queue of its turn only.
LEMMA ResumeKeepsIds ==
  ASSUME IdsInv, Resume
  PROVE  IdsInv' /\ StartsRight
<1>1. active # None /\ RunOnly /\ BeginLoopStep(active, turn, request, run)
  BY DEF Resume, At
<1>2. /\ TypeInv' /\ request \in RequestMap /\ turn \in TurnMap /\ active \in Turns /\ run \in Run
  BY <1>1, ResumeKeeps DEF IdsInv, TypeInv, RunOK, TurnsOK
<1>3. SameTurns(turn', turn) /\ NoneRenewed(request', request)
  BY <1>1, <1>2, BeginLoopStepSame
<1> QED BY <1>1, <1>2, <1>3, RunOnlyKeepsIds DEF RunOnly, admissionVars

\* So does the end of a step, whose continuation joins the same turn.
LEMMA StepEndsKeepsIds ==
  ASSUME IdsInv, NEW stop \in BOOLEAN, StepEnds(stop)
  PROVE  IdsInv' /\ StartsRight
<1> DEFINE rq == CompleteStep(request, run.driver)
           rn == [run EXCEPT !.driver = None]
           Made(c) == [rq EXCEPT ![c].state = "pending"]
           More(c) == AssignSteps(Made(c), {c}, active)
           Fed(c)  == [turn EXCEPT ![active].queue = EnqueueTail(@, c)]
<1>1. /\ active # None /\ run.phase = "finishing" /\ RunOnly
      /\ \/ \E result \in {"completed", "failed", "cancelled"} : EndRun(active, turn, rq, rn, result)
         \/ BeginLoopStep(active, turn, rq, rn)
         \/ \E c \in Continuations : BeginLoopStep(active, Fed(c), More(c), rn)
  BY DEF StepEnds, At
<1>2. /\ TypeInv /\ TypeInv'
      /\ active \in Turns /\ run \in Run /\ request \in RequestMap /\ turn \in TurnMap
  BY <1>1, StepEndsKeeps DEF IdsInv, TypeInv, RunOK, TurnsOK
<1>3. run.driver \in Requests
  BY <1>1, <1>2 DEF TypeInv, RunOK, StepPhases, Run
<1>4. rq \in RequestMap /\ NoneRenewed(rq, request)
  BY <1>2, <1>3, CompleteStepType, RequestsNotRenewed
<1>5. rn \in Run
  BY <1>2 DEF Run
<1> HIDE DEF rq, rn
<1>6. ASSUME NEW c \in Continuations
      PROVE  /\ More(c) \in RequestMap /\ NoneRenewed(More(c), rq)
             /\ Fed(c) \in TurnMap /\ SameTurns(Fed(c), turn)
  <2>1. c \in Requests
    BY DEF Requests
  <2>2. Made(c) \in RequestMap
    BY <1>4, <2>1 DEF RequestMap, RequestRecord
  <2>3. Made(c)[c].state = "pending" /\ \A x \in Requests : x # c => Made(c)[x] = rq[x]
    BY <1>4, <2>1 DEF RequestMap, RequestRecord
  <2>4. NoneRenewed(Made(c), rq)
    BY <2>1, <2>3 DEF NoneRenewed
  <2> HIDE DEF Made
  <2>5. EnqueueTail(turn[active].queue, c) \in Queue
    BY <1>2, <2>1, QueueTypes DEF TurnMap, Job
  <2>6. Fed(c) \in TurnMap
    BY <1>2, <2>5 DEF TurnMap, Job
  <2>7. SameTurns(Fed(c), turn)
    BY <1>2, QueueKeepsTurns
  <2>8. More(c) \in RequestMap /\ NoneRenewed(More(c), Made(c))
    BY <1>2, <2>2, AssignStepsType, RequestsNotRenewed
  <2> QED BY <2>4, <2>6, <2>7, <2>8, RenewedTransitive
<1> HIDE DEF Made, More, Fed
<1>7. SameTurns(turn', turn) /\ NoneRenewed(request', rq)
  <2>1. CASE \E result \in {"completed", "failed", "cancelled"} : EndRun(active, turn, rq, rn, result)
    BY <1>2, <1>4, <2>1, EndRunSame
  <2>2. CASE BeginLoopStep(active, turn, rq, rn)
    BY <1>2, <1>4, <1>5, <2>2, BeginLoopStepSame
  <2>3. CASE \E c \in Continuations : BeginLoopStep(active, Fed(c), More(c), rn)
    <3>1. PICK c \in Continuations : BeginLoopStep(active, Fed(c), More(c), rn)
      BY <2>3
    <3>2. SameTurns(turn', Fed(c)) /\ NoneRenewed(request', More(c))
      BY <1>2, <1>5, <1>6, <3>1, BeginLoopStepSame
    <3> QED BY <1>6, <3>2, SameTransitive, RenewedTransitive
  <2> QED BY <1>1, <2>1, <2>2, <2>3
<1>8. NoneRenewed(request', request)
  BY <1>4, <1>7, RenewedTransitive
<1> QED BY <1>1, <1>2, <1>7, <1>8, RunOnlyKeepsIds DEF RunOnly, admissionVars

\* The active turn is not queued, for its id has been passed; so its end does
\* not disturb the accounting, and the first of the queue starts.
LEMMA ReleaseActiveTurnKeepsIds ==
  ASSUME IdsInv, ReleaseActiveTurn
  PROVE  IdsInv' /\ StartsRight
<1> DEFINE rq == CancelSteps(request, StepsOf(request, active))
           ts == [turn EXCEPT ![active].state = run.result]
<1>1. /\ active # None /\ PumpTurns(pending, ts, rq)
      /\ UNCHANGED <<reserved, held, replaying>>
  BY DEF ReleaseActiveTurn, At, admissionVars
<1>2. /\ TypeInv /\ TypeInv' /\ request \in RequestMap /\ turn \in TurnMap
      /\ active \in Turns /\ run \in Run /\ FiniteClock(clock) /\ reserved \in Nat
      /\ pending \in Seq(Turns) /\ Entries(pending) \subseteq Turns
  BY <1>1, ReleaseActiveTurnKeeps, EntriesType DEF IdsInv, TypeInv, RunOK, TurnsOK
<1>3. rq \in RequestMap /\ NoneRenewed(rq, request)
  BY <1>2, CancelStepsType, RequestsNotRenewed
<1>4. /\ ts \in TurnMap
      /\ \A t \in Turns : ts[t].id = turn[t].id /\ (t # active => ts[t] = turn[t])
  BY <1>2 DEF TurnMap, Job, Run
<1> HIDE DEF rq, ts
<1>5. active \notin Entries(pending)
  <2> SUFFICES ASSUME NEW i \in DOMAIN pending, pending[i] = active PROVE FALSE
    BY DEF Entries
  <2>1. turn[active].id \in IdsOf(pending, turn)
    BY DEF IdsOf
  <2>2. turn[active].id \in clock.next .. (reserved - 1)
    BY <2>1 DEF IdsInv, IdsOK, Accounted
  <2>3. turn[active].id < clock.next
    BY <1>1 DEF IdsInv, IdsOK
  <2>4. clock.next \in Nat /\ turn[active].id \in Nat
    BY <1>2, ClockTypes, IdTypes
  <2> QED BY <2>2, <2>3, <2>4
<1>6. /\ Accounted(pending, ts, clock, reserved)
      /\ ClockFits(clock, reserved)
      /\ \A t \in Entries(pending) : ~NeverCreated(ts, t)
  BY <1>2, <1>4, <1>5, AccountedSame DEF IdsInv, IdsOK, NeverCreated
<1>7. /\ IdsOK'
      /\ active' # None => turn'[active'].id = clock.next
      /\ SameTurns(turn', ts)
      /\ NoneRenewed(request', rq)
  BY <1>1, <1>2, <1>3, <1>4, <1>6, PumpTurnsIds
<1>8. \A t \in Turns : NeverCreated(turn, t) => NeverCreated(turn', t)
  BY <1>1, <1>4, <1>7 DEF IdsInv, IdsOK, SameTurns, NeverCreated
<1>9. NoneRenewed(request', request)
  BY <1>3, <1>7, RenewedTransitive
<1>10. FreshOK'
  BY <1>1, <1>2, <1>8, <1>9, FreshKept DEF IdsInv
<1> QED BY <1>2, <1>4, <1>7, <1>10 DEF IdsInv, StartsRight, SameTurns
--------------------------------------------------------------------------------
(***************************************************************************)
(* The theorems.                                                           *)
(***************************************************************************)

\* In a new loop no id is reserved.
LEMMA InitIds == Init => IdsInv
<1> SUFFICES ASSUME Init PROVE IdsInv
  OBVIOUS
<1>1. TypeInv
  BY InitTypes
<1>2. /\ pending = <<>> /\ held = <<>> /\ replaying = <<>> /\ active = None
      /\ clock.next = 0 /\ clock.cancelled = {} /\ reserved = 0
      /\ \A t \in Turns : NeverCreated(turn, t)
  BY DEF Init, InitClock, NoJob, NeverCreated
<1>3. DOMAIN <<>> = {} /\ Entries(<<>>) = {} /\ Injective(<<>>) /\ IdsOf(<<>>, turn) = {}
  BY DEF Entries, Injective, IdsOf
<1>4. 0 .. (0 - 1) = {}
  OBVIOUS
<1>5. IdsOK
  BY <1>2, <1>3, <1>4 DEF IdsOK, Accounted, ClockFits
<1>6. FreshOK
  BY <1>2, <1>3 DEF FreshOK
<1> QED BY <1>1, <1>5, <1>6 DEF IdsInv

\* Whatever a client does, the ids stay accounted for.
LEMMA ClientKeepsIds == IdsInv /\ Client => IdsInv' /\ StartsRight
<1> SUFFICES ASSUME IdsInv, Client PROVE IdsInv' /\ StartsRight
  OBVIOUS
<1>1. CASE \E r \in Requests \ Continuations : Enqueue(r) \/ AbortReceipt(r)
  BY <1>1, EnqueueKeepsIds, AbortReceiptKeepsIds
<1>2. CASE \E r \in Requests : CancelStep(r)
  BY <1>2, CancelStepKeepsIds
<1>3. CASE CancelActiveTurn
  BY <1>3, CancelActiveTurnKeepsIds
<1>4. CASE \E i \in DOMAIN pending : CancelQueuedTurn(i)
  BY <1>4, CancelQueuedTurnKeepsIds
<1>5. TypeInv'
  BY ClientKeeps DEF IdsInv
<1>6. CASE AcquireQuiescence
  BY <1>5, <1>6, RunOnlyKeepsIds DEF AcquireQuiescence, turnVars, SameTurns, NoneRenewed
<1>7. CASE Settled
  BY <1>5, <1>7, RunOnlyKeepsIds DEF Settled, turnVars, admissionVars, SameTurns, NoneRenewed
<1>8. CASE Dispose
  BY <1>8, DisposeKeepsIds
<1> QED BY <1>1, <1>2, <1>3, <1>4, <1>6, <1>7, <1>8 DEF Client

\* So they do in every step of the run.
LEMMA RunStepKeepsIds == IdsInv /\ RunStep => IdsInv' /\ StartsRight
BY StepRespondsKeepsIds, StepFailsKeepsIds, StepAbortsKeepsIds, BackoffEndsKeepsIds,
   ResumeKeepsIds, StepEndsKeepsIds, ReleaseActiveTurnKeepsIds
   DEF RunStep

\* Every step keeps the invariant, and a turn it starts has the clock's id.
LEMMA NextKeepsIds == IdsInv /\ [Next]_vars => IdsInv' /\ StartsRight
<1>1. ASSUME IdsInv, UNCHANGED vars PROVE IdsInv' /\ StartsRight
  <2>1. TypeInv'
    BY <1>1, NextKeepsTypes DEF IdsInv
  <2> QED BY <1>1, <2>1, RunOnlyKeepsIds
          DEF vars, turnVars, admissionVars, SameTurns, NoneRenewed
<1> QED BY <1>1, ClientKeepsIds, RunStepKeepsIds, ReleaseQuiescenceKeepsIds, ReplayKeepsIds
        DEF Next

\* The inductive invariant holds.
LEMMA IdsInvHolds == Spec => []IdsInv
<1> QED BY InitIds, NextKeepsIds, PTL DEF Spec

\* The inductive invariant implies TurnIdsAccounted.
LEMMA IdsInvImplies == IdsInv => TurnIdsAccounted
BY DEF IdsInv, IdsOK, Accounted, IdsOf, QueuedIds, TurnIdsAccounted

\* Every id from the clock on that was reserved is a queued turn's or a
\* cancelled one, queued turns stand in the order of their ids, and the active
\* turn's id has been passed, whatever is enqueued, held, cancelled or disposed.
THEOREM IdsAgree == Spec => []TurnIdsAccounted
<1> QED BY IdsInvHolds, IdsInvImplies, PTL

\* A turn starts with the id of the clock, which its turn.prompt record means.
THEOREM StartsWithClockId == Spec => StartTakesClockId
<1>1. IdsInv /\ [Next]_vars
        => [active' # active /\ active' # None => turn'[active'].id = clock.next]_vars
  BY NextKeepsIds DEF StartsRight
<1> QED BY <1>1, IdsInvHolds, PTL DEF Spec, StartTakesClockId
================================================================================

--------------------------- MODULE AgentLoopPromises ---------------------------
(***************************************************************************)
(* The promises of the agent loop: every receipt is answered, every step   *)
(* settled, every request delivered at most once, nobody waits on an idle  *)
(* loop, and quiescence is quiet, for any number of requests, steps,       *)
(* attempts and leases.                                                    *)
(*                                                                         *)
(* The invariant follows a request from where it waits (held, replayed or  *)
(* in the standalone queue, with its receipt unanswered) into the queue of *)
(* its turn, and from there into the context.                              *)
(***************************************************************************)
EXTENDS AgentLoopProofs

\* A request that is new has nothing; it has a step once it has a turn; its
\* receipt is open only while it has none; a step without a result is not over;
\* a request that may still be materialized has no result.
RecordFits(q) ==
    /\ q.state = "new" => q.receipt = "none" /\ q.turn = None
    /\ q.turn = None <=> q.step = "none"
    /\ q.turn = None => q.result = "none"
    /\ q.turn # None /\ q.result = "none" => q.step \in {"queued", "running"}
    /\ q.receipt = "waiting" => q.state = "pending" /\ q.turn = None
    /\ q.state = "pending" => q.result = "none"

Fits(rq) == \A r \in Requests : RecordFits(rq[r])

\* What is live in the queue of a turn belongs to that turn.
Belong(ts, rq) == \A t \in Turns : \A r \in Live(ts[t].queue, rq) : rq[r].turn = t

\* Steps that are not over are of the turn a or of the queued ones p.
Unfinished(rq, a, p) ==
    \A r \in Requests : Unsettled(rq, r) => rq[r].turn \in {a} \cup Entries(p)

\* The driver of a step is in the context and belongs to the turn t.
Drives(rn, rq, t) ==
    rn.driver # None => rq[rn.driver].turn = t /\ rq[rn.driver].state = "materialized"

\* DeliveredOnce, of any request map and context.
InContext(rq, ctx) ==
    /\ \A i, j \in DOMAIN ctx : i # j => ctx[i] \cap ctx[j] = {}
    /\ \A r \in Requests : rq[r].state = "materialized" <=> r \in UNION Entries(ctx)

\* Nothing is queued unless a turn is active, nothing waits for the next turn
\* then, and nothing is left after the disposal.  Somebody waits only for what
\* is there.
Admitting ==
    /\ leases > 0 => active = None /\ Live(standalone, request) = {}
    /\ held # <<>> => leases > 0 /\ ~disposing
    /\ active = None => pending = <<>>
    /\ active # None => Live(standalone, request) = {}
    /\ disposing => pending = <<>> /\ replaying = <<>> /\ Live(standalone, request) = {}
    /\ replaying # <<>> => leases = 0
    /\ Entries(replaying) \cap Live(standalone, request) = {}
    /\ waiting => ~Idle \/ replaying # <<>>

\* The requests and their turns.
Served ==
    /\ Fits(request) /\ Belong(turn, request) /\ InContext(request, context)
    /\ Unfinished(request, active, pending)
    /\ Drives(run, request, active)

PromisesInv == IdsInv /\ Served /\ ReceiptsAccounted /\ Admitting
--------------------------------------------------------------------------------
(***************************************************************************)
(* What a block may do to requests.                                        *)
(***************************************************************************)

\* No request is revived.
AbortedStays(rq2, rq) ==
    \A r \in Requests : rq[r].state = "aborted" => rq2[r].state = "aborted"

\* Requests keep turn and receipt, and those without a turn are left alone.
Calm(rq2, rq) ==
    \A r \in Requests :
        /\ rq2[r].turn = rq[r].turn
        /\ rq2[r].receipt = rq[r].receipt
        /\ rq[r].turn = None => rq2[r] = rq[r]
        /\ rq[r].state = "aborted" => rq2[r].state = "aborted"

\* The same requests are materialized.
SameDelivery(rq2, rq) ==
    \A r \in Requests : rq2[r].state = "materialized" <=> rq[r].state = "materialized"

\* Blocks follow each other.
LEMMA CalmTransitive ==
  /\ \A a, b, c : Calm(a, b) /\ Calm(b, c) => Calm(a, c)
  /\ \A a, b, c : SameDelivery(a, b) /\ SameDelivery(b, c) => SameDelivery(a, c)
  /\ \A a, b, c : AbortedStays(a, b) /\ AbortedStays(b, c) => AbortedStays(a, c)
BY DEF Calm, SameDelivery, AbortedStays

\* What cancelStep does to a request.
Cancelled(q) ==
    [q EXCEPT !.step = "cancelled", !.result = IF @ = "none" THEN "cancelled" ELSE @]

\* Its fields.
LEMMA CancelledFacts ==
  ASSUME NEW q \in RequestRecord
  PROVE  /\ Cancelled(q).state = q.state /\ Cancelled(q).receipt = q.receipt
         /\ Cancelled(q).turn = q.turn /\ Cancelled(q).step = "cancelled"
         /\ Cancelled(q).result # "none"
<1>1. Cancelled(q).state = q.state /\ Cancelled(q).receipt = q.receipt
  BY DEF Cancelled, RequestRecord
<1>2. Cancelled(q).turn = q.turn /\ Cancelled(q).step = "cancelled"
  BY DEF Cancelled, RequestRecord
<1>3. Cancelled(q).result # "none"
  BY DEF Cancelled, RequestRecord
<1> QED BY <1>1, <1>2, <1>3

\* cancelStep, request by request.
LEMMA CancelStepsFacts ==
  ASSUME NEW rq \in RequestMap, NEW rs, NEW r \in Requests
  PROVE  LET q == CancelSteps(rq, rs)[r]
             cancelled == r \in rs /\ Unsettled(rq, r)
         IN  /\ ~cancelled => q = rq[r]
             /\ q.turn = rq[r].turn /\ q.receipt = rq[r].receipt
             /\ cancelled => q.step = "cancelled" /\ q.result # "none"
             /\ cancelled /\ rq[r].state = "pending" => q.state = "aborted"
             /\ rq[r].state # "pending" => q.state = rq[r].state
<1> DEFINE those   == {x \in rs : Unsettled(rq, x)}
           aborted == AbortRequests(rq, those)
<1>1. CancelSteps(rq, rs) = [x \in Requests |-> IF x \in those THEN Cancelled(aborted[x]) ELSE rq[x]]
  BY DEF CancelSteps, Cancelled
<1>2. r \in those <=> r \in rs /\ Unsettled(rq, r)
  OBVIOUS
<1>3. /\ aborted \in RequestMap
      /\ aborted[r].turn = rq[r].turn /\ aborted[r].receipt = rq[r].receipt
      /\ r \in those /\ rq[r].state = "pending" => aborted[r].state = "aborted"
      /\ rq[r].state # "pending" => aborted[r].state = rq[r].state
  BY AbortRequestsType DEF AbortRequests, RequestMap, RequestRecord
<1> HIDE DEF those, aborted
<1>4. CancelSteps(rq, rs)[r] = IF r \in those THEN Cancelled(aborted[r]) ELSE rq[r]
  BY <1>1
<1>5. aborted[r] \in RequestRecord
  BY <1>3 DEF RequestMap
<1>6. /\ Cancelled(aborted[r]).state = aborted[r].state
      /\ Cancelled(aborted[r]).receipt = aborted[r].receipt
      /\ Cancelled(aborted[r]).turn = aborted[r].turn
      /\ Cancelled(aborted[r]).step = "cancelled"
      /\ Cancelled(aborted[r]).result # "none"
  BY <1>5, CancelledFacts
<1> QED BY <1>2, <1>3, <1>4, <1>6

\* cancelStep settles the steps it reaches and leaves the rest of the requests.
LEMMA CancelStepsServes ==
  ASSUME NEW rq \in RequestMap, NEW rs, Fits(rq)
  PROVE  LET rq2 == CancelSteps(rq, rs)
         IN  /\ rq2 \in RequestMap
             /\ Fits(rq2) /\ Calm(rq2, rq) /\ SameDelivery(rq2, rq)
             /\ \A r \in Requests : Unsettled(rq2, r) => Unsettled(rq, r) /\ r \notin rs
<1> DEFINE rq2 == CancelSteps(rq, rs)
<1>1. rq2 \in RequestMap
  BY CancelStepsType
<1>2. ASSUME NEW r \in Requests
      PROVE  LET cancelled == r \in rs /\ Unsettled(rq, r)
             IN  /\ ~cancelled => rq2[r] = rq[r]
                 /\ rq2[r].turn = rq[r].turn /\ rq2[r].receipt = rq[r].receipt
                 /\ cancelled => rq2[r].step = "cancelled" /\ rq2[r].result # "none"
                 /\ cancelled /\ rq[r].state = "pending" => rq2[r].state = "aborted"
                 /\ rq[r].state # "pending" => rq2[r].state = rq[r].state
  BY CancelStepsFacts
<1> HIDE DEF rq2
<1>3. ASSUME NEW r \in Requests
      PROVE  /\ RecordFits(rq2[r])
             /\ rq[r].turn = None => rq2[r] = rq[r]
             /\ rq[r].state = "aborted" => rq2[r].state = "aborted"
             /\ rq2[r].state = "materialized" <=> rq[r].state = "materialized"
             /\ Unsettled(rq2, r) => Unsettled(rq, r) /\ r \notin rs
  <2>1. RecordFits(rq[r])
    BY DEF Fits
  <2>2. CASE ~(r \in rs /\ Unsettled(rq, r))
    BY <1>2, <2>1, <2>2 DEF Unsettled
  <2>3. CASE r \in rs /\ Unsettled(rq, r)
    BY <1>2, <2>1, <2>3 DEF Unsettled, RecordFits
  <2> QED BY <2>2, <2>3
<1> QED BY <1>1, <1>2, <1>3 DEF Fits, Calm, SameDelivery, rq2

\* abort, of requests that have a turn.
LEMMA AbortServes ==
  ASSUME NEW rq \in RequestMap, NEW rs, Fits(rq), \A r \in rs \cap Requests : rq[r].turn # None
  PROVE  LET rq2 == AbortRequests(rq, rs)
         IN  /\ rq2 \in RequestMap
             /\ Fits(rq2) /\ Calm(rq2, rq) /\ SameDelivery(rq2, rq)
             /\ \A r \in Requests : Unsettled(rq2, r) => Unsettled(rq, r)
<1> DEFINE rq2 == AbortRequests(rq, rs)
<1>1. rq2 \in RequestMap
  BY AbortRequestsType
<1>2. ASSUME NEW r \in Requests
      PROVE  /\ rq2[r].turn = rq[r].turn /\ rq2[r].receipt = rq[r].receipt
             /\ rq2[r].step = rq[r].step /\ rq2[r].result = rq[r].result
             /\ IF r \in rs /\ rq[r].state = "pending"
                THEN rq2[r].state = "aborted"
                ELSE rq2[r] = rq[r]
  BY DEF AbortRequests, RequestMap, RequestRecord
<1> HIDE DEF rq2
<1>3. Fits(rq2)
  BY <1>2 DEF Fits, RecordFits
<1>4. Calm(rq2, rq)
  BY <1>2 DEF Calm
<1>5. SameDelivery(rq2, rq)
  BY <1>2 DEF SameDelivery
<1>6. \A r \in Requests : Unsettled(rq2, r) => Unsettled(rq, r)
  BY <1>2 DEF Unsettled
<1> QED BY <1>1, <1>3, <1>4, <1>5, <1>6 DEF rq2

\* completeLoopStep, of a step whose request is in the context.
LEMMA CompleteStepServes ==
  ASSUME NEW rq \in RequestMap, NEW d \in Requests, Fits(rq),
         rq[d].turn # None, rq[d].state = "materialized"
  PROVE  LET rq2 == CompleteStep(rq, d)
         IN  /\ rq2 \in RequestMap
             /\ Fits(rq2) /\ Calm(rq2, rq) /\ SameDelivery(rq2, rq)
             /\ \A r \in Requests : Unsettled(rq2, r) => Unsettled(rq, r)
<1> DEFINE rq2 == CompleteStep(rq, d)
<1>1. rq2 \in RequestMap
  BY CompleteStepType
<1>2. \A r \in Requests : r # d => rq2[r] = rq[r]
  BY DEF CompleteStep, RequestMap
<1>3. rq[d] \in RequestRecord
  BY DEF RequestMap
<1>4. rq2[d] = [rq[d] EXCEPT !.step = "completed",
                             !.result = IF @ = "none" THEN "completed" ELSE @]
  BY DEF CompleteStep, RequestMap
<1> HIDE DEF rq2
<1>5. /\ rq2[d].state = rq[d].state /\ rq2[d].turn = rq[d].turn /\ rq2[d].receipt = rq[d].receipt
      /\ rq2[d].step = "completed" /\ rq2[d].result # "none"
  BY <1>3, <1>4 DEF RequestRecord
<1>6. Fits(rq2)
  BY <1>2, <1>5 DEF Fits, RecordFits
<1>7. Calm(rq2, rq)
  BY <1>2, <1>5 DEF Calm
<1>8. SameDelivery(rq2, rq)
  BY <1>2, <1>5 DEF SameDelivery
<1>9. \A r \in Requests : Unsettled(rq2, r) => Unsettled(rq, r)
  BY <1>2, <1>5 DEF Unsettled
<1> QED BY <1>1, <1>6, <1>7, <1>8, <1>9 DEF rq2

\* What a queue holds.
Contents(q) == Entries(q.drivers) \cup Entries(q.merges)

\* A queue stays its turn's as long as nothing new enters it.
LEMMA BelongKept ==
  ASSUME NEW ts, NEW ts2, NEW rq, NEW rq2, Belong(ts, rq), Calm(rq2, rq),
         \A t \in Turns : ts2[t].queue \in Queue /\ Contents(ts2[t].queue) \subseteq Contents(ts[t].queue)
  PROVE  Belong(ts2, rq2)
<1> SUFFICES ASSUME NEW t \in Turns, NEW r \in Live(ts2[t].queue, rq2) PROVE rq2[r].turn = t
  BY DEF Belong
<1>1. r \in Contents(ts2[t].queue) /\ rq2[r].state # "aborted" /\ r \in Requests
  BY LiveType DEF Live, Contents
<1>2. r \in Live(ts[t].queue, rq)
  BY <1>1 DEF Live, Contents, Calm
<1> QED BY <1>1, <1>2 DEF Belong, Calm

\* What is live in a queue of turns has a turn.
LEMMA LiveHasTurn ==
  ASSUME NEW ts \in TurnMap, NEW rq, Belong(ts, rq), NEW t \in Turns
  PROVE  \A r \in Live(ts[t].queue, rq) : r \in Requests /\ rq[r].turn = t /\ t # None
<1>1. ts[t].queue \in Queue
  BY DEF TurnMap, Job
<1> QED BY <1>1, LiveType, TurnsAreRequests DEF Belong

\* The context fits as long as the same requests are materialized.
LEMMA InContextKept ==
  ASSUME NEW rq, NEW rq2, NEW ctx, InContext(rq, ctx), SameDelivery(rq2, rq)
  PROVE  InContext(rq2, ctx)
BY DEF InContext, SameDelivery
--------------------------------------------------------------------------------
(***************************************************************************)
(* The blocks of run().                                                    *)
(***************************************************************************)

\* takeNextBatch takes live requests and leaves nothing that was not there.
LEMMA TakeNextBatchFacts ==
  ASSUME NEW q \in Queue, NEW rq, Live(q, rq) # {}
  PROVE  LET batch == TakeNextBatch(q, rq)
         IN  /\ batch.driver \in batch.members
             /\ batch.members \subseteq Live(q, rq)
             /\ batch.rest \in Queue
             /\ Contents(batch.rest) \subseteq Contents(q)
<1> DEFINE driven == \E r \in Entries(q.drivers) : rq[r].state # "aborted"
           line   == IF driven THEN q.drivers ELSE q.merges
           i      == FirstLive(line, rq)
           rest   == [drivers |-> IF driven THEN SubSeq(line, i + 1, Len(line)) ELSE <<>>,
                      merges  |-> <<>>]
           joined == {r \in Entries(q.merges) : rq[r].state # "aborted"}
<1>1. q.drivers \in Seq(Requests) /\ q.merges \in Seq(Requests)
  BY DEF Queue
<1>2. line \in Seq(Requests) /\ \E r \in Entries(line) : rq[r].state # "aborted"
  BY <1>1 DEF Live
<1>3. Entries(line) \subseteq Contents(q) /\ (driven => line = q.drivers)
  BY DEF Contents
<1>4. TakeNextBatch(q, rq) = [driver |-> line[i], members |-> {line[i]} \cup joined, rest |-> rest]
  BY DEF TakeNextBatch
<1>5. rest.drivers = (IF driven THEN SubSeq(line, i + 1, Len(line)) ELSE <<>>) /\ rest.merges = <<>>
  OBVIOUS
<1> HIDE DEF driven, line
<1>6. i \in DOMAIN line /\ rq[line[i]].state # "aborted"
  BY <1>2, FirstLiveFacts
<1> HIDE DEF i
<1>7. line[i] \in Entries(line)
  BY <1>6 DEF Entries
<1>8. line[i] \in Live(q, rq) /\ joined \subseteq Live(q, rq)
  BY <1>3, <1>6, <1>7 DEF Live, Contents
<1>9. /\ SubSeq(line, i + 1, Len(line)) \in Seq(Requests)
      /\ Entries(SubSeq(line, i + 1, Len(line))) \subseteq Entries(line)
  <2> DEFINE tail == SubSeq(line, i + 1, Len(line))
  <2>1. /\ i \in 1 .. Len(line) /\ Len(line) \in Nat
        /\ tail \in Seq(Requests) /\ Len(tail) = Len(line) - i
        /\ \A k \in 1 .. (Len(line) - i) : tail[k] = line[i + k]
    BY <1>2, <1>6
  <2>2. \A k \in DOMAIN tail : k \in 1 .. (Len(line) - i) /\ i + k \in DOMAIN line
    BY <2>1
  <2> HIDE DEF tail
  <2>3. Entries(tail) \subseteq Entries(line)
    BY <2>1, <2>2 DEF Entries
  <2> QED BY <2>1, <2>3 DEF tail
<1>10. Entries(<<>>) = {} /\ <<>> \in Seq(Requests)
  BY EmptySequence DEF Entries
<1>11. rest \in Queue
  BY <1>9, <1>10 DEF Queue
<1> HIDE DEF rest
<1>12. Contents(rest) \subseteq Contents(q)
  BY <1>3, <1>5, <1>9, <1>10 DEF Contents
<1> HIDE DEF joined
<1> QED BY <1>4, <1>8, <1>11, <1>12

\* What a block of turn t's run does, given the request map rq and the jobs ts.
BlockServes(t, ts, rq) ==
    /\ Fits(request') /\ Belong(turn', request') /\ InContext(request', context')
    /\ Drives(run', request', t)
    /\ Calm(request', rq)
    /\ \A p : Unfinished(rq, t, p) => Unfinished(request', t, p)
    /\ ts[t].aborted => context' = context

\* The end of the run aborts requests of its own turn only.
LEMMA EndRunServes ==
  ASSUME NEW t \in Turns, NEW ts \in TurnMap, NEW rq \in RequestMap, NEW rn \in Run,
         NEW result \in {"completed", "failed", "cancelled"},
         Fits(rq), Belong(ts, rq), InContext(rq, context),
         EndRun(t, ts, rq, rn, result)
  PROVE  BlockServes(t, ts, rq)
<1> DEFINE gone == Live(ts[t].queue, rq) \cap TurnScoped
<1>1. /\ run' = [rn EXCEPT !.phase = "ended", !.driver = None, !.result = result]
      /\ request' = AbortRequests(rq, gone)
      /\ turn' = ts /\ context' = context
  BY DEF EndRun
<1>2. \A r \in gone \cap Requests : rq[r].turn # None
  BY LiveHasTurn
<1> HIDE DEF gone
<1>3. /\ Fits(request') /\ Calm(request', rq) /\ SameDelivery(request', rq)
      /\ \A r \in Requests : Unsettled(request', r) => Unsettled(rq, r)
  BY <1>1, <1>2, AbortServes
<1>4. \A x \in Turns : turn'[x].queue \in Queue
  BY <1>1 DEF TurnMap, Job
<1>5. Belong(turn', request')
  BY <1>1, <1>3, <1>4, BelongKept
<1>6. InContext(request', context')
  BY <1>1, <1>3, InContextKept
<1>7. run'.driver = None
  BY <1>1 DEF Run
<1>8. \A p : Unfinished(rq, t, p) => Unfinished(request', t, p)
  BY <1>3 DEF Unfinished, Calm
<1> QED BY <1>1, <1>3, <1>5, <1>6, <1>7, <1>8 DEF BlockServes, Drives

\* Appending a batch to the context.
LEMMA AppendInContext ==
  ASSUME NEW rq, NEW rq2, NEW ctx \in Seq(SUBSET Requests), NEW batch \in SUBSET Requests,
         InContext(rq, ctx), \A r \in batch : rq[r].state # "materialized",
         \A r \in Requests : rq2[r].state = "materialized" <=> rq[r].state = "materialized" \/ r \in batch
  PROVE  InContext(rq2, Append(ctx, batch))
<1> DEFINE ctx2 == Append(ctx, batch)
<1>1. /\ DOMAIN ctx2 = DOMAIN ctx \cup {Len(ctx) + 1}
      /\ ctx2[Len(ctx) + 1] = batch
      /\ \A i \in DOMAIN ctx : ctx2[i] = ctx[i]
      /\ \A i \in DOMAIN ctx : ctx[i] \subseteq Requests
  OBVIOUS
<1> HIDE DEF ctx2
<1>2. \A i \in DOMAIN ctx : \A r \in ctx[i] : rq[r].state = "materialized"
  BY <1>1 DEF InContext, Entries
<1>3. \A i \in DOMAIN ctx : ctx[i] \cap batch = {}
  BY <1>2
<1>4. \A i, j \in DOMAIN ctx : i # j => ctx[i] \cap ctx[j] = {}
  BY DEF InContext
<1>5. \A i, j \in DOMAIN ctx2 : i # j => ctx2[i] \cap ctx2[j] = {}
  BY <1>1, <1>3, <1>4
<1>6. Entries(ctx2) = Entries(ctx) \cup {batch}
  BY <1>1 DEF Entries
<1>7. \A r : r \in UNION Entries(ctx2) <=> r \in UNION Entries(ctx) \/ r \in batch
  <2>1. ASSUME NEW S, NEW x, NEW r PROVE r \in UNION (S \cup {x}) <=> r \in UNION S \/ r \in x
    OBVIOUS
  <2> QED BY <1>6, <2>1
<1>8. \A r \in Requests : rq[r].state = "materialized" <=> r \in UNION Entries(ctx)
  BY DEF InContext
<1>9. \A r \in Requests : rq2[r].state = "materialized" <=> r \in UNION Entries(ctx2)
  BY <1>7, <1>8
<1> QED BY <1>5, <1>9 DEF InContext, ctx2

\* A step that begins puts what is pending of its batch into the context.
LEMMA ExecuteStepServes ==
  ASSUME NEW t \in Turns, NEW ts \in TurnMap, NEW rq \in RequestMap, NEW rn \in Run,
         context \in Seq(SUBSET Requests),
         Fits(rq), Belong(ts, rq), InContext(rq, context),
         Live(ts[t].queue, rq) # {}, ~ts[t].aborted,
         ExecuteStep(t, ts, rq, rn)
  PROVE  BlockServes(t, ts, rq)
<1> DEFINE batch  == TakeNextBatch(ts[t].queue, rq)
           joined == {r \in batch.members : rq[r].state = "pending"}
           begun  == [rq EXCEPT ![batch.driver].step = "running"]
<1>1. /\ turn' = [ts EXCEPT ![t].queue = batch.rest]
      /\ request' = Materialize(begun, batch.members)
      /\ context' = Append(context, joined)
      /\ run' = [rn EXCEPT !.phase = "executing", !.driver = batch.driver,
                           !.steps = @ + 1, !.finish = "none"]
  BY DEF ExecuteStep
<1>2. ts[t] \in Job /\ ts[t].queue \in Queue
  BY DEF TurnMap, Job
<1>3. /\ batch.driver \in batch.members
      /\ batch.members \subseteq Live(ts[t].queue, rq)
      /\ batch.rest \in Queue
      /\ Contents(batch.rest) \subseteq Contents(ts[t].queue)
  BY <1>2, TakeNextBatchFacts
<1>4. \A r \in Live(ts[t].queue, rq) :
         r \in Requests /\ rq[r].turn = t /\ t # None /\ rq[r].state # "aborted"
  BY LiveHasTurn DEF Live
<1> HIDE DEF batch
<1>5. batch.driver \in Requests /\ batch.members \in SUBSET Requests
  BY <1>3, <1>4
<1>6. ASSUME NEW r \in Requests
      PROVE  /\ begun[r].turn = rq[r].turn /\ begun[r].receipt = rq[r].receipt
             /\ begun[r].result = rq[r].result /\ begun[r].state = rq[r].state
             /\ r = batch.driver => begun[r].step = "running"
             /\ r # batch.driver => begun[r] = rq[r]
             /\ begun[r] \in RequestRecord
  BY <1>5 DEF RequestMap, RequestRecord, StepState
<1>7. ASSUME NEW r \in Requests
      PROVE  IF r \in batch.members /\ begun[r].state = "pending"
             THEN request'[r] = [begun[r] EXCEPT !.state = "materialized"]
             ELSE request'[r] = begun[r]
  BY <1>1 DEF Materialize
<1> HIDE DEF begun
<1>8. ASSUME NEW r \in Requests
      PROVE  /\ request'[r].turn = rq[r].turn /\ request'[r].receipt = rq[r].receipt
             /\ request'[r].result = rq[r].result
             /\ request'[r].step = begun[r].step
             /\ IF r \in joined THEN request'[r].state = "materialized"
                                ELSE request'[r].state = rq[r].state
             /\ r # batch.driver /\ r \notin joined => request'[r] = rq[r]
  <2>1. r \in joined <=> r \in batch.members /\ begun[r].state = "pending"
    BY <1>6
  <2> HIDE DEF joined
  <2>2. CASE r \in joined
    <3>1. request'[r] = [begun[r] EXCEPT !.state = "materialized"]
      BY <1>7, <2>1, <2>2
    <3>2. /\ request'[r].turn = begun[r].turn /\ request'[r].receipt = begun[r].receipt
          /\ request'[r].result = begun[r].result /\ request'[r].step = begun[r].step
          /\ request'[r].state = "materialized"
      BY <1>6, <3>1 DEF RequestRecord
    <3> QED BY <1>6, <2>2, <3>2
  <2>3. CASE r \notin joined
    <3>1. request'[r] = begun[r]
      BY <1>7, <2>1, <2>3
    <3> QED BY <1>6, <2>3, <3>1
  <2> QED BY <2>2, <2>3
<1>9. joined \subseteq batch.members /\ \A r \in joined : rq[r].state = "pending"
  OBVIOUS
<1> HIDE DEF joined
<1>10. ASSUME NEW r \in Requests PROVE RecordFits(request'[r])
  <2>1. RecordFits(rq[r])
    BY DEF Fits
  <2>2. r # batch.driver => begun[r].step = rq[r].step
    BY <1>6
  <2>3. r = batch.driver => begun[r].step = "running" /\ rq[r].turn # None
    BY <1>3, <1>4, <1>6
  <2>4. r \in joined => rq[r].turn # None
    BY <1>3, <1>4, <1>9
  <2> QED BY <1>8, <2>1, <2>2, <2>3, <2>4 DEF RecordFits
<1>11. Calm(request', rq)
  <2> SUFFICES ASSUME NEW r \in Requests
               PROVE  /\ request'[r].turn = rq[r].turn
                      /\ request'[r].receipt = rq[r].receipt
                      /\ rq[r].turn = None => request'[r] = rq[r]
                      /\ rq[r].state = "aborted" => request'[r].state = "aborted"
    BY DEF Calm
  <2>1. rq[r].turn = None => r # batch.driver /\ r \notin joined
    BY <1>3, <1>4, <1>9
  <2> QED BY <1>8, <1>9, <2>1
<1>12. Belong(turn', request')
  <2>1. \A x \in Turns : turn'[x].queue = IF x = t THEN batch.rest ELSE ts[x].queue
    BY <1>1 DEF TurnMap, Job
  <2>2. \A x \in Turns : ts[x].queue \in Queue
    BY DEF TurnMap, Job
  <2>3. \A x \in Turns :
           turn'[x].queue \in Queue /\ Contents(turn'[x].queue) \subseteq Contents(ts[x].queue)
    BY <1>3, <2>1, <2>2
  <2> QED BY <1>11, <2>3, BelongKept
<1>13. InContext(request', context')
  <2>1. \A r \in joined : rq[r].state # "materialized"
    BY <1>9
  <2>2. joined \in SUBSET Requests
    BY <1>5, <1>9
  <2>3. \A r \in Requests : request'[r].state = "materialized" <=> rq[r].state = "materialized" \/ r \in joined
    BY <1>8
  <2>4. InContext(request', Append(context, joined))
    BY <2>1, <2>2, <2>3, AppendInContext
  <2> QED BY <1>1, <2>4
<1>14. Drives(run', request', t)
  <2>1. run'.driver = batch.driver
    BY <1>1 DEF Run
  <2>2. rq[batch.driver] \in RequestRecord /\ RecordFits(rq[batch.driver])
    BY <1>5 DEF RequestMap, Fits
  <2>3. rq[batch.driver].state \in {"pending", "materialized"} /\ rq[batch.driver].turn = t
    BY <1>3, <1>4, <2>2 DEF RequestRecord, RecordFits
  <2>4. rq[batch.driver].state = "pending" => batch.driver \in joined
    BY <1>3 DEF joined
  <2> QED BY <1>5, <1>8, <2>1, <2>3, <2>4 DEF Drives
<1>15. ASSUME NEW p, Unfinished(rq, t, p) PROVE Unfinished(request', t, p)
  <2> SUFFICES ASSUME NEW r \in Requests, Unsettled(request', r)
               PROVE  request'[r].turn \in {t} \cup Entries(p)
    BY DEF Unfinished
  <2>1. CASE r = batch.driver
    BY <1>3, <1>4, <1>8, <2>1
  <2>2. CASE r # batch.driver
    BY <1>6, <1>8, <1>15, <2>2 DEF Unfinished, Unsettled
  <2> QED BY <2>1, <2>2
<1> QED BY <1>10, <1>11, <1>12, <1>13, <1>14, <1>15 DEF BlockServes, Fits

\* beginLoopStep.
LEMMA BeginLoopStepServes ==
  ASSUME NEW t \in Turns, NEW ts \in TurnMap, NEW rq \in RequestMap, NEW rn \in Run,
         context \in Seq(SUBSET Requests),
         Fits(rq), Belong(ts, rq), InContext(rq, context),
         BeginLoopStep(t, ts, rq, rn)
  PROVE  BlockServes(t, ts, rq)
<1>1. ASSUME NEW result \in {"completed", "failed", "cancelled"}, EndRun(t, ts, rq, rn, result)
      PROVE  BlockServes(t, ts, rq)
  BY <1>1, EndRunServes
<1>2. ASSUME Live(ts[t].queue, rq) # {}, ~ts[t].aborted, ExecuteStep(t, ts, rq, rn)
      PROVE  BlockServes(t, ts, rq)
  BY <1>2, ExecuteStepServes
<1> QED BY <1>1, <1>2 DEF BeginLoopStep

\* A sequence holds its head and what its tail holds.
LEMMA HeadTailEntries ==
  ASSUME NEW S, NEW s \in Seq(S), s # <<>>
  PROVE  Entries(s) = {Head(s)} \cup Entries(Tail(s))
<1>1. Entries(Tail(s)) \subseteq Entries(s) /\ Head(s) \in Entries(s)
  BY TailEntries
<1>2. /\ DOMAIN Tail(s) = 1 .. (Len(s) - 1) /\ DOMAIN s = 1 .. Len(s) /\ Len(s) \in Nat
      /\ \A i \in DOMAIN Tail(s) : Tail(s)[i] = s[i + 1]
      /\ Head(s) = s[1]
  OBVIOUS
<1>3. \A i \in DOMAIN s : i # 1 => i - 1 \in DOMAIN Tail(s) /\ s[i] = Tail(s)[i - 1]
  BY <1>2
<1>4. ASSUME NEW x \in Entries(s) PROVE x \in {Head(s)} \cup Entries(Tail(s))
  <2>1. PICK i \in DOMAIN s : x = s[i]
    BY DEF Entries
  <2>2. CASE i = 1
    BY <1>2, <2>1, <2>2
  <2>3. CASE i # 1
    <3>1. i - 1 \in DOMAIN Tail(s) /\ x = Tail(s)[i - 1]
      BY <1>3, <2>1, <2>3
    <3> QED BY <3>1 DEF Entries
  <2> QED BY <2>2, <2>3
<1> QED BY <1>1, <1>4

\* RemoveFrom loses at most the element it removes.
LEMMA RemoveFromLoses ==
  ASSUME NEW S, NEW s \in Seq(S), NEW i \in DOMAIN s
  PROVE  /\ Entries(s) \subseteq Entries(RemoveFrom(s, i)) \cup {s[i]}
         /\ Injective(s) => Entries(RemoveFrom(s, i)) = Entries(s) \ {s[i]}
<1> DEFINE q == RemoveFrom(s, i)
<1>1. /\ DOMAIN q = 1 .. (Len(s) - 1)
      /\ \A k \in DOMAIN q :
            Unshifted(k, i) \in DOMAIN s /\ Unshifted(k, i) # i /\ q[k] = s[Unshifted(k, i)]
  BY RemoveFromFacts
<1>2. i \in 1 .. Len(s) /\ Len(s) \in Nat /\ DOMAIN s = 1 .. Len(s)
  OBVIOUS
<1> HIDE DEF q
<1>3. ASSUME NEW k \in DOMAIN s, k # i PROVE s[k] \in Entries(q)
  <2>1. CASE k < i
    <3>1. k \in DOMAIN q /\ Unshifted(k, i) = k
      BY <1>1, <1>2, <2>1 DEF Unshifted
    <3>2. q[k] = s[k]
      BY <1>1, <3>1
    <3> QED BY <3>1, <3>2 DEF Entries
  <2>2. CASE k > i
    <3>1. k - 1 \in DOMAIN q /\ Unshifted(k - 1, i) = k
      BY <1>1, <1>2, <2>2 DEF Unshifted
    <3>2. q[k - 1] = s[k]
      BY <1>1, <3>1
    <3> QED BY <3>1, <3>2 DEF Entries
  <2> QED BY <1>2, <1>3, <2>1, <2>2
<1>4. Entries(s) \subseteq Entries(q) \cup {s[i]}
  <2>1. ASSUME NEW x \in Entries(s) PROVE x \in Entries(q) \cup {s[i]}
    <3>1. PICK k \in DOMAIN s : x = s[k]
      BY DEF Entries
    <3> QED BY <1>3, <3>1
  <2> QED BY <2>1
<1>5. ASSUME Injective(s) PROVE Entries(q) \subseteq Entries(s) \ {s[i]}
  <2>1. ASSUME NEW k \in DOMAIN q PROVE q[k] \in Entries(s) /\ q[k] # s[i]
    <3>1. Unshifted(k, i) \in DOMAIN s /\ Unshifted(k, i) # i /\ q[k] = s[Unshifted(k, i)]
      BY <1>1
    <3> HIDE DEF Unshifted
    <3> QED BY <1>5, <3>1 DEF Injective, Entries
  <2> QED BY <2>1 DEF Entries
<1> QED BY <1>4, <1>5 DEF q

\* pumpTurns serves the first queued turn unless a lease or the disposal
\* prevents it.
LEMMA PumpTurnsServes ==
  ASSUME NEW p \in Seq(Turns), NEW ts \in TurnMap, NEW rq \in RequestMap,
         context \in Seq(SUBSET Requests),
         Fits(rq), Belong(ts, rq), InContext(rq, context), Unfinished(rq, None, p),
         PumpTurns(p, ts, rq)
  PROVE  /\ Served' /\ Calm(request', rq)
         /\ IF p # <<>> /\ leases = 0 /\ ~disposing
            THEN active' = Head(p) /\ active' # None
            ELSE active' = None /\ pending' = p
<1>1. CASE /\ p # <<>> /\ leases = 0 /\ ~disposing
           /\ pending' = Tail(p)
           /\ StartTurn(Head(p), ts, rq)
  <2> DEFINE t   == Head(p)
             ts1 == [ts EXCEPT ![t].state = "running"]
  <2>1. active' = t /\ BeginLoopStep(t, ts1, rq, IdleRun)
    BY <1>1 DEF StartTurn
  <2>2. t \in Turns /\ t # None /\ Entries(p) = {t} \cup Entries(Tail(p))
    <3>1. Entries(p) = {t} \cup Entries(Tail(p)) /\ t \in Entries(p)
      BY <1>1, HeadTailEntries, TailEntries
    <3>2. t \in Turns
      BY <1>1
    <3> QED BY <3>1, <3>2, TurnsAreRequests
  <2> HIDE DEF t
  <2>3. ts1 \in TurnMap /\ \A x \in Turns : ts1[x].queue = ts[x].queue /\ ts1[x].queue \in Queue
    BY <2>2 DEF TurnMap, Job
  <2> HIDE DEF ts1
  <2>4. Calm(rq, rq)
    BY DEF Calm
  <2>5. Belong(ts1, rq)
    BY <2>3, <2>4, BelongKept
  <2>6. BlockServes(t, ts1, rq)
    BY <2>1, <2>2, <2>3, <2>5, IdleRunType, BeginLoopStepServes
  <2>7. Unfinished(rq, t, Tail(p))
    <3>1. ASSUME NEW r \in Requests, Unsettled(rq, r) PROVE rq[r].turn \in {t} \cup Entries(Tail(p))
      <4>1. rq[r].turn # None
        BY <3>1 DEF Fits, RecordFits, Unsettled
      <4> QED BY <2>2, <3>1, <4>1 DEF Unfinished
    <3> QED BY <3>1 DEF Unfinished
  <2> QED BY <1>1, <2>1, <2>2, <2>6, <2>7 DEF BlockServes, Served, t
<1>2. CASE /\ p = <<>> \/ leases > 0 \/ disposing
           /\ pending' = p /\ active' = None /\ turn' = ts /\ request' = rq
           /\ run' = IdleRun /\ UNCHANGED context
  <2>1. Calm(request', rq)
    BY <1>2 DEF Calm
  <2>2. Drives(run', request', active')
    BY <1>2, IdleRunType DEF Drives
  <2>3. ~(p # <<>> /\ leases = 0 /\ ~disposing)
    BY <1>2
  <2> QED BY <1>2, <2>1, <2>2, <2>3 DEF Served
<1> QED BY <1>1, <1>2 DEF PumpTurns
--------------------------------------------------------------------------------
(***************************************************************************)
(* Admission.                                                              *)
(***************************************************************************)

\* CancelStopsDelivery, of one step.
CutOff == active # None /\ active' = active /\ turn[active].aborted => context' = context

\* The invariant, and what no step does.
Kept == Served' /\ ReceiptsAccounted' /\ Admitting' /\ AbortedStays(request', request) /\ CutOff

\* The empty sequence has no entries.
LEMMA NoEntries == Entries(<<>>) = {}
BY DEF Entries

\* Nothing waits in an empty queue.
LEMMA EmptyQueueHolds == \A rq : Live(EmptyQueue, rq) = {}
BY NoEntries DEF Live, EmptyQueue

\* assignStep to turn t, of requests that are pending and have no turn.
LEMMA AssignServes ==
  ASSUME NEW rq \in RequestMap, Fits(rq), NEW t \in Turns, NEW rs \in SUBSET Requests,
         \A r \in rs : rq[r].state = "pending" /\ rq[r].turn = None
  PROVE  LET rq2 == AssignSteps(rq, rs, t)
         IN  /\ rq2 \in RequestMap
             /\ Fits(rq2) /\ SameDelivery(rq2, rq) /\ AbortedStays(rq2, rq)
             /\ \A r \in rs : /\ rq2[r].turn = t /\ rq2[r].receipt = "assigned"
                              /\ rq2[r].state = "pending"
             /\ \A r \in Requests \ rs : rq2[r] = rq[r]
             /\ \A a, p : Unfinished(rq, a, p) /\ t \in {a} \cup Entries(p) => Unfinished(rq2, a, p)
<1> DEFINE rq2 == AssignSteps(rq, rs, t)
<1>1. rq2 \in RequestMap
  BY AssignStepsType
<1>2. \A r \in Requests \ rs : rq2[r] = rq[r]
  BY DEF AssignSteps
<1>3. \A r \in rs : /\ rq2[r].turn = t /\ rq2[r].receipt = "assigned" /\ rq2[r].step = "queued"
                    /\ rq2[r].state = "pending" /\ rq2[r].result = rq[r].result
  BY DEF AssignSteps, RequestMap, RequestRecord
<1> HIDE DEF rq2
<1>4. t # None
  BY TurnsAreRequests
<1>5. Fits(rq2)
  <2> SUFFICES ASSUME NEW r \in Requests PROVE RecordFits(rq2[r])
    BY DEF Fits
  <2>1. RecordFits(rq[r])
    BY DEF Fits
  <2>2. CASE r \in rs
    BY <1>3, <1>4, <2>1, <2>2 DEF RecordFits
  <2>3. CASE r \notin rs
    BY <1>2, <2>1, <2>3
  <2> QED BY <2>2, <2>3
<1>6. SameDelivery(rq2, rq) /\ AbortedStays(rq2, rq)
  BY <1>2, <1>3 DEF SameDelivery, AbortedStays
<1>7. ASSUME NEW a, NEW p, Unfinished(rq, a, p), t \in {a} \cup Entries(p)
      PROVE  Unfinished(rq2, a, p)
  BY <1>2, <1>3, <1>7 DEF Unfinished, Unsettled
<1> QED BY <1>1, <1>2, <1>3, <1>5, <1>6, <1>7 DEF rq2

\* What leads from requests rq and jobs ts to rq2 and ts2 when requests without
\* a turn are assigned to turn t.
Assigned(ts2, rq2, ts, rq, t, rs) ==
    /\ \A r \in rs : rq[r].turn = None /\ rq[r].state = "pending" /\ rq2[r].turn = t
    /\ \A r \in Requests \ rs : rq2[r] = rq[r]
    /\ \A x \in Turns \ {t} : Contents(ts2[x].queue) \subseteq Contents(ts[x].queue)
    /\ Live(ts2[t].queue, rq) \subseteq rs \cup Live(ts[t].queue, rq)

\* The queues stay their turns' when what is assigned enters turn t's.
LEMMA BelongAssigned ==
  ASSUME NEW ts, NEW ts2 \in TurnMap, NEW rq, NEW rq2, NEW t \in Turns, NEW rs,
         Belong(ts, rq), Assigned(ts2, rq2, ts, rq, t, rs)
  PROVE  Belong(ts2, rq2)
<1>0. /\ \A r \in rs : rq[r].turn = None /\ rq[r].state = "pending" /\ rq2[r].turn = t
      /\ \A r \in Requests \ rs : rq2[r] = rq[r]
      /\ \A x \in Turns \ {t} : Contents(ts2[x].queue) \subseteq Contents(ts[x].queue)
      /\ Live(ts2[t].queue, rq) \subseteq rs \cup Live(ts[t].queue, rq)
  BY DEF Assigned
<1> SUFFICES ASSUME NEW x \in Turns, NEW r \in Live(ts2[x].queue, rq2) PROVE rq2[r].turn = x
  BY DEF Belong
<1>1. ts2[x].queue \in Queue /\ x # None
  BY TurnsAreRequests DEF TurnMap, Job
<1>2. r \in Requests /\ r \in Contents(ts2[x].queue) /\ rq2[r].state # "aborted"
  BY <1>1, LiveType DEF Live, Contents
<1>3. rq[r].state # "aborted"
  BY <1>0, <1>2
<1>4. r \in Live(ts2[x].queue, rq)
  BY <1>2, <1>3 DEF Live, Contents
<1>5. CASE x = t
  <2>1. CASE r \in rs
    BY <1>0, <1>5, <2>1
  <2>2. CASE r \notin rs
    BY <1>0, <1>2, <1>4, <1>5, <2>2 DEF Belong
  <2> QED BY <2>1, <2>2
<1>6. CASE x # t
  <2>1. r \in Live(ts[x].queue, rq)
    BY <1>0, <1>2, <1>3, <1>6 DEF Live, Contents
  <2>2. rq[r].turn = x
    BY <2>1 DEF Belong
  <2> QED BY <1>0, <1>1, <1>2, <2>2
<1> QED BY <1>5, <1>6

\* Enqueueing adds one request to what a queue holds.
LEMMA EnqueueContents ==
  ASSUME NEW q \in Queue, NEW r \in Requests
  PROVE  /\ Contents(EnqueueTail(q, r)) = Contents(q) \cup {r}
         /\ Contents(EnqueueHead(q, r)) = Contents(q) \cup {r}
         /\ Contents(EmptyQueue) = {}
<1>1. q.drivers \in Seq(Requests) /\ q.merges \in Seq(Requests)
  BY DEF Queue
<1>2. ASSUME NEW s \in Seq(Requests)
      PROVE  Entries(Append(s, r)) = Entries(s) \cup {r} /\ Entries(<<r>> \o s) = Entries(s) \cup {r}
  <2>1. Entries(Append(s, r)) = Entries(s) \cup {r}
    BY AppendEntries
  <2> DEFINE q2 == <<r>> \o s
  <2>2. /\ DOMAIN q2 = 1 .. (Len(s) + 1) /\ q2[1] = r /\ Len(s) \in Nat /\ DOMAIN s = 1 .. Len(s)
        /\ \A i \in DOMAIN s : q2[i + 1] = s[i]
        /\ \A i \in DOMAIN q2 : i # 1 => q2[i] = s[i - 1]
    OBVIOUS
  <2> HIDE DEF q2
  <2>3. \A i \in DOMAIN s : i + 1 \in DOMAIN q2
    BY <2>2
  <2>4. \A i \in DOMAIN q2 : i # 1 => i - 1 \in DOMAIN s
    BY <2>2
  <2>5. 1 \in DOMAIN q2
    BY <2>2
  <2>6. ASSUME NEW x \in Entries(q2) PROVE x \in Entries(s) \cup {r}
    BY <2>2, <2>4 DEF Entries
  <2>7. ASSUME NEW x \in Entries(s) PROVE x \in Entries(q2)
    <3>1. PICK i \in DOMAIN s : x = s[i]
      BY DEF Entries
    <3>2. i + 1 \in DOMAIN q2 /\ q2[i + 1] = x
      BY <2>2, <2>3, <3>1
    <3> QED BY <3>2 DEF Entries
  <2>8. r \in Entries(q2)
    BY <2>2, <2>5 DEF Entries
  <2> QED BY <2>1, <2>6, <2>7, <2>8 DEF q2
<1>3. /\ \A s : [q EXCEPT !.merges = s].merges = s /\ [q EXCEPT !.merges = s].drivers = q.drivers
      /\ \A s : [q EXCEPT !.drivers = s].drivers = s /\ [q EXCEPT !.drivers = s].merges = q.merges
  BY DEF Queue
<1>4. Contents(EnqueueTail(q, r)) = Contents(q) \cup {r}
  BY <1>1, <1>2, <1>3 DEF EnqueueTail, Contents
<1>5. Contents(EnqueueHead(q, r)) = Contents(q) \cup {r}
  BY <1>1, <1>2, <1>3 DEF EnqueueHead, Contents
<1>6. Contents(EmptyQueue) = {}
  BY DEF EmptyQueue, Contents, Entries
<1> QED BY <1>4, <1>5, <1>6

\* What two sequences hold together.
LEMMA ConcatEntries ==
  ASSUME NEW S, NEW a \in Seq(S), NEW b \in Seq(S)
  PROVE  a \o b \in Seq(S) /\ Entries(a \o b) = Entries(a) \cup Entries(b)
<1> DEFINE c == a \o b
<1>1. /\ c \in Seq(S) /\ Len(a) \in Nat /\ Len(b) \in Nat
      /\ DOMAIN a = 1 .. Len(a) /\ DOMAIN b = 1 .. Len(b) /\ DOMAIN c = 1 .. (Len(a) + Len(b))
      /\ \A i \in DOMAIN c : c[i] = IF i <= Len(a) THEN a[i] ELSE b[i - Len(a)]
  BY ConcatProperties
<1> HIDE DEF c
<1>2. \A i \in DOMAIN a : i \in DOMAIN c /\ c[i] = a[i]
  BY <1>1
<1>3. \A i \in DOMAIN b : i + Len(a) \in DOMAIN c /\ c[i + Len(a)] = b[i]
  BY <1>1
<1>4. \A i \in DOMAIN c : i \in DOMAIN a \/ i - Len(a) \in DOMAIN b
  BY <1>1
<1>5. Entries(a) \subseteq Entries(c)
  BY <1>2 DEF Entries
<1>6. ASSUME NEW x \in Entries(b) PROVE x \in Entries(c)
  <2>1. PICK i \in DOMAIN b : x = b[i]
    BY DEF Entries
  <2>2. i + Len(a) \in DOMAIN c /\ c[i + Len(a)] = x
    BY <1>3, <2>1
  <2> QED BY <2>2 DEF Entries
<1>7. ASSUME NEW x \in Entries(c) PROVE x \in Entries(a) \cup Entries(b)
  <2>1. PICK i \in DOMAIN c : x = c[i]
    BY DEF Entries
  <2>2. CASE i <= Len(a)
    <3>1. i \in DOMAIN a /\ x = a[i]
      BY <1>1, <2>1, <2>2
    <3> QED BY <3>1 DEF Entries
  <2>3. CASE ~(i <= Len(a))
    <3>1. i - Len(a) \in DOMAIN b /\ x = b[i - Len(a)]
      BY <1>1, <2>1, <2>3
    <3> QED BY <3>1 DEF Entries
  <2> QED BY <2>2, <2>3
<1> QED BY <1>1, <1>5, <1>6, <1>7 DEF c

\* Before r is admitted, with request map rq and the requests W held elsewhere.
AdmitReady(r, rq, W) ==
    /\ Fits(rq) /\ Belong(turn, rq) /\ InContext(rq, context)
    /\ Unfinished(rq, active, pending) /\ Drives(run, rq, active)
    /\ rq[r].state = "pending" /\ rq[r].turn = None /\ rq[r].receipt = "waiting"
    /\ r \notin W \cup Live(standalone, rq)
    /\ W \cap Live(standalone, rq) = {}
    /\ \A x \in Requests \ {r} : rq[x].receipt = "waiting" <=> x \in W \cup Live(standalone, rq)
    /\ leases = 0 /\ ~disposing
    /\ active = None => pending = <<>>
    /\ active # None => Live(standalone, rq) = {}

\* And after.
AdmitServed(rq, W) ==
    /\ Served' /\ AbortedStays(request', rq) /\ CutOff
    /\ \A x \in Requests :
          request'[x].receipt = "waiting" <=> x \in W \cup Live(standalone', request')
    /\ W \cap Live(standalone', request') = {}
    /\ active' = None => pending' = <<>>
    /\ active' # None => Live(standalone', request') = {}
    /\ active # None => active' # None

\* A new turn takes the requests that wait for the next one.
LEMMA CreateAndQueueTurnServes ==
  ASSUME TypeInv, NEW r \in Turns, NEW rq \in RequestMap, NEW W, AdmitReady(r, rq, W),
         CreateAndQueueTurn(r, rq)
  PROVE  AdmitServed(rq, W)
<1> DEFINE id    == LargerOf(clock.next, reserved)
           own   == EnqueueTail(EmptyQueue, r)
           queue == [drivers |-> own.drivers \o standalone.drivers,
                     merges  |-> own.merges \o standalone.merges]
           job   == [id |-> id, state |-> "queued", aborted |-> FALSE, queue |-> queue]
           ts    == [turn EXCEPT ![r] = job]
           rs    == {r} \cup StandaloneMoved(rq)
           rq1   == AssignSteps(rq, rs, r)
           p     == Append(pending, r)
<1>1. /\ clock.next \in Nat /\ reserved \in Nat /\ standalone \in Queue
      /\ turn \in TurnMap /\ pending \in Seq(Turns) /\ active \in Turns \cup {None}
      /\ r \in Requests /\ context \in Seq(SUBSET Requests)
  BY ClockTypes, TurnsAreRequests DEF TypeInv, TurnsOK, RunOK, AdmissionOK
<1>2. /\ standalone' = EmptyQueue
      /\ IF active = None
         THEN PumpTurns(p, ts, rq1)
         ELSE /\ pending' = p /\ turn' = ts /\ request' = rq1
              /\ UNCHANGED <<active, clock, run, context>>
  BY DEF CreateAndQueueTurn
<1>3. id \in Nat
  BY <1>1 DEF LargerOf
<1> HIDE DEF id
<1>4. own \in Queue /\ Contents(own) = {r}
  BY <1>1, QueueTypes, EnqueueContents
<1> HIDE DEF own
<1>5. queue \in Queue /\ Contents(queue) = {r} \cup Contents(standalone)
  <2>1. /\ own.drivers \in Seq(Requests) /\ own.merges \in Seq(Requests)
        /\ standalone.drivers \in Seq(Requests) /\ standalone.merges \in Seq(Requests)
    BY <1>1, <1>4 DEF Queue
  <2>2. ASSUME NEW a \in Seq(Requests), NEW b \in Seq(Requests)
        PROVE  a \o b \in Seq(Requests) /\ Entries(a \o b) = Entries(a) \cup Entries(b)
    BY ConcatEntries
  <2>3. queue \in Queue
    BY <2>1, <2>2 DEF Queue
  <2>4. Contents(queue) = Contents(own) \cup Contents(standalone)
    BY <2>1, <2>2 DEF Contents
  <2> QED BY <1>4, <2>3, <2>4
<1> HIDE DEF queue
<1>6. job \in Job /\ job.queue = queue
  BY <1>3, <1>5 DEF Job
<1> HIDE DEF job
<1>7. /\ ts \in TurnMap /\ ts[r].queue = queue
      /\ \A t \in Turns : t # r => ts[t] = turn[t]
  BY <1>1, <1>6 DEF TurnMap
<1>8. /\ rs \in SUBSET Requests
      /\ \A x \in rs : rq[x].state = "pending" /\ rq[x].turn = None
  <2>1. Live(standalone, rq) \subseteq Requests
    BY <1>1, LiveType
  <2>2. ASSUME NEW x \in Live(standalone, rq) PROVE rq[x].state = "pending" /\ rq[x].turn = None
    BY <2>1 DEF AdmitReady, Fits, RecordFits
  <2> QED BY <1>1, <2>1, <2>2 DEF StandaloneMoved, AdmitReady
<1>9. rs = {r} \cup Live(standalone, rq)
  BY DEF StandaloneMoved
<1> HIDE DEF rs
<1>10. /\ rq1 \in RequestMap
       /\ Fits(rq1) /\ SameDelivery(rq1, rq) /\ AbortedStays(rq1, rq)
       /\ \A x \in rs : rq1[x].turn = r /\ rq1[x].receipt = "assigned" /\ rq1[x].state = "pending"
       /\ \A x \in Requests \ rs : rq1[x] = rq[x]
       /\ \A a, q : Unfinished(rq, a, q) /\ r \in {a} \cup Entries(q) => Unfinished(rq1, a, q)
  BY <1>8, AssignServes DEF AdmitReady
<1> HIDE DEF ts, rq1
<1>11. Belong(ts, rq1)
  <2>1. Live(ts[r].queue, rq) \subseteq rs
    BY <1>5, <1>7, <1>9 DEF Live, Contents
  <2>2. \A x \in Turns \ {r} : Contents(ts[x].queue) \subseteq Contents(turn[x].queue)
    BY <1>7
  <2>3. Belong(turn, rq)
    BY DEF AdmitReady
  <2>4. \A x \in rs : rq[x].turn = None /\ rq[x].state = "pending" /\ rq1[x].turn = r
    BY <1>8, <1>10
  <2>5. Live(ts[r].queue, rq) \subseteq rs \cup Live(turn[r].queue, rq)
    BY <2>1
  <2>6. Assigned(ts, rq1, turn, rq, r, rs)
    BY <1>10, <2>2, <2>4, <2>5 DEF Assigned
  <2> QED BY <1>7, <2>3, <2>6, BelongAssigned
<1>12. InContext(rq1, context)
  BY <1>10, InContextKept DEF AdmitReady
<1>13. p \in Seq(Turns) /\ Entries(p) = Entries(pending) \cup {r} /\ p # <<>>
  <2>1. p \in Seq(Turns) /\ Entries(p) = Entries(pending) \cup {r}
    BY <1>1, AppendEntries
  <2>2. Entries(<<>>) = {}
    BY DEF Entries
  <2> HIDE DEF p
  <2> QED BY <2>1, <2>2
<1>14. Unfinished(rq, active, p)
  BY <1>13 DEF AdmitReady, Unfinished
<1>15. Unfinished(rq1, active, p)
  BY <1>10, <1>13, <1>14
<1> HIDE DEF p
<1>16. \A s : Live(EmptyQueue, s) = {}
  BY DEF Live, EmptyQueue, Entries
<1>17. \A x \in Requests : rq1[x].receipt = "waiting" <=> x \in W
  BY <1>9, <1>10 DEF AdmitReady
<1>18. Served' /\ Calm(request', rq1) /\ CutOff /\ active' # None
  <2>1. CASE active = None
    <3>1. leases = 0 /\ ~disposing
      BY DEF AdmitReady
    <3>2. PumpTurns(p, ts, rq1) /\ Unfinished(rq1, None, p)
      BY <1>2, <1>15, <2>1
    <3> QED BY <1>1, <1>7, <1>10, <1>11, <1>12, <1>13, <2>1, <3>1, <3>2, PumpTurnsServes DEF CutOff
  <2>2. CASE active # None
    <3>1. pending' = p /\ turn' = ts /\ request' = rq1 /\ UNCHANGED <<active, run, context>>
      BY <1>2, <2>2
    <3>2. Drives(run, rq1, active)
      <4>1. run.driver # None => run.driver \in Requests
        BY DEF TypeInv, RunOK, Run
      <4> QED BY <1>8, <1>10, <4>1 DEF AdmitReady, Drives
    <3> QED BY <1>10, <1>11, <1>12, <1>15, <2>2, <3>1, <3>2 DEF Served, Calm, CutOff
  <2> QED BY <2>1, <2>2
<1>19. AbortedStays(request', rq)
  BY <1>10, <1>18 DEF Calm, AbortedStays
<1>20. \A x \in Requests : request'[x].receipt = "waiting" <=> x \in W
  BY <1>17, <1>18 DEF Calm
<1> QED BY <1>2, <1>16, <1>18, <1>19, <1>20 DEF AdmitServed

\* A request that joins the active turn.
LEMMA AssignToActiveServes ==
  ASSUME TypeInv, NEW r \in Requests, NEW rq \in RequestMap, NEW W, AdmitReady(r, rq, W),
         active # None, AssignToActive(r, rq)
  PROVE  AdmitServed(rq, W)
<1>1. active \in Turns /\ turn \in TurnMap /\ standalone \in Queue
  BY DEF TypeInv, RunOK, TurnsOK, AdmissionOK
<1>2. /\ turn' = [turn EXCEPT ![active].queue = EnqueueTail(@, r)]
      /\ request' = AssignSteps(rq, {r}, active)
      /\ UNCHANGED <<active, pending, run, context, standalone>>
  BY DEF AssignToActive
<1>3. \A x \in {r} : rq[x].state = "pending" /\ rq[x].turn = None
  BY DEF AdmitReady
<1>4. /\ Fits(request') /\ SameDelivery(request', rq) /\ AbortedStays(request', rq)
      /\ \A x \in {r} : /\ request'[x].turn = active /\ request'[x].receipt = "assigned"
                        /\ request'[x].state = "pending"
      /\ \A x \in Requests \ {r} : request'[x] = rq[x]
      /\ \A a, q : Unfinished(rq, a, q) /\ active \in {a} \cup Entries(q) => Unfinished(request', a, q)
  <2>1. {r} \in SUBSET Requests
    OBVIOUS
  <2> QED BY <1>1, <1>2, <1>3, <2>1, AssignServes DEF AdmitReady
<1>5. Belong(turn', request')
  <2>1. turn[active].queue \in Queue
    BY <1>1 DEF TurnMap, Job
  <2>2. EnqueueTail(turn[active].queue, r) \in Queue
    BY <2>1, QueueTypes
  <2>3. /\ turn' \in TurnMap
        /\ turn'[active].queue = EnqueueTail(turn[active].queue, r)
        /\ \A x \in Turns : x # active => turn'[x] = turn[x]
    BY <1>1, <1>2, <2>2 DEF TurnMap, Job
  <2>4. Contents(turn'[active].queue) = Contents(turn[active].queue) \cup {r}
    BY <2>1, <2>3, EnqueueContents
  <2>5. Live(turn'[active].queue, rq) \subseteq {r} \cup Live(turn[active].queue, rq)
    BY <2>4 DEF Live, Contents
  <2>6. \A x \in Turns \ {active} : Contents(turn'[x].queue) \subseteq Contents(turn[x].queue)
    BY <2>3
  <2>7. Belong(turn, rq)
    BY DEF AdmitReady
  <2>8. \A x \in {r} : rq[x].turn = None /\ rq[x].state = "pending" /\ request'[x].turn = active
    BY <1>3, <1>4
  <2> DEFINE those == {r}
  <2>9. /\ \A x \in those : rq[x].turn = None /\ rq[x].state = "pending" /\ request'[x].turn = active
        /\ \A x \in Requests \ those : request'[x] = rq[x]
        /\ Live(turn'[active].queue, rq) \subseteq those \cup Live(turn[active].queue, rq)
    BY <1>4, <2>5, <2>8
  <2>10. Assigned(turn', request', turn, rq, active, those)
    BY <2>6, <2>9 DEF Assigned
  <2> HIDE DEF those
  <2> QED BY <1>1, <2>3, <2>7, <2>10, BelongAssigned
<1>6. InContext(request', context')
  BY <1>2, <1>4, InContextKept DEF AdmitReady
<1>7. Unfinished(request', active', pending')
  BY <1>2, <1>4 DEF AdmitReady
<1>8. Drives(run', request', active')
  <2>1. run.driver # None => run.driver \in Requests
    BY DEF TypeInv, RunOK, Run
  <2> QED BY <1>2, <1>3, <1>4, <2>1 DEF AdmitReady, Drives
<1>9. Live(standalone, rq) = {} /\ Live(standalone', request') = {}
  <2>1. Contents(standalone) \subseteq Requests
    BY <1>1, EntriesType DEF Contents, Queue
  <2>2. Live(standalone, rq) = {}
    BY DEF AdmitReady
  <2>3. \A x \in Contents(standalone) : x # r => request'[x].state = "aborted"
    BY <1>4, <2>1, <2>2 DEF Live, Contents
  <2>4. r \notin Contents(standalone)
    BY <1>3, <2>2 DEF Live, Contents
  <2> QED BY <1>2, <2>2, <2>3, <2>4 DEF Live, Contents
<1>10. \A x \in Requests : request'[x].receipt = "waiting" <=> x \in W
  BY <1>4, <1>9 DEF AdmitReady
<1> QED BY <1>2, <1>4, <1>5, <1>6, <1>7, <1>8, <1>9, <1>10 DEF AdmitServed, Served, CutOff

\* A request that waits for the next turn.
LEMMA EnqueueStandaloneServes ==
  ASSUME TypeInv, NEW r \in Requests, NEW rq \in RequestMap, NEW W, AdmitReady(r, rq, W),
         active = None, EnqueueStandalone(r, rq)
  PROVE  AdmitServed(rq, W)
<1>1. /\ standalone' = EnqueueTail(standalone, r) /\ request' = rq
      /\ UNCHANGED <<turn, active, pending, run, context>>
  BY DEF EnqueueStandalone, turnVars
<1>2. standalone \in Queue
  BY DEF TypeInv, AdmissionOK
<1>3. Contents(standalone') = Contents(standalone) \cup {r}
  BY <1>1, <1>2, EnqueueContents
<1>4. rq[r].state # "aborted"
  BY DEF AdmitReady
<1>5. Live(standalone', request') = Live(standalone, rq) \cup {r}
  BY <1>1, <1>3, <1>4 DEF Live, Contents
<1>6. Served'
  BY <1>1 DEF AdmitReady, Served
<1>7. AbortedStays(request', rq) /\ CutOff
  BY <1>1 DEF AbortedStays, CutOff
<1> QED BY <1>1, <1>5, <1>6, <1>7 DEF AdmitReady, AdmitServed

\* admit.
LEMMA AdmitServes ==
  ASSUME TypeInv, NEW r \in Requests, NEW rq \in RequestMap, NEW W, AdmitReady(r, rq, W),
         Admit(r, rq)
  PROVE  AdmitServed(rq, W)
<1>1. CASE r \in Turns /\ CreateAndQueueTurn(r, rq)
  BY <1>1, CreateAndQueueTurnServes
<1>2. CASE active # None /\ AssignToActive(r, rq)
  BY <1>2, AssignToActiveServes
<1>3. CASE active = None /\ EnqueueStandalone(r, rq)
  BY <1>3, EnqueueStandaloneServes
<1> QED BY <1>1, <1>2, <1>3 DEF Admit, Turns
--------------------------------------------------------------------------------
(***************************************************************************)
(* The steps of the run.                                                   *)
(***************************************************************************)

\* With request map rq the same requests wait, in the same places.
Waits(rq) ==
    /\ \A r \in Requests : rq[r].receipt = "waiting" <=> request[r].receipt = "waiting"
    /\ Live(standalone, rq) = Live(standalone, request)

\* The state, taken apart.
LEMMA InvFacts ==
  ASSUME PromisesInv
  PROVE  /\ TypeInv /\ request \in RequestMap /\ turn \in TurnMap /\ run \in Run
         /\ standalone \in Queue /\ context \in Seq(SUBSET Requests)
         /\ pending \in Seq(Turns) /\ Entries(pending) \subseteq Turns
         /\ active \in Turns \cup {None}
         /\ held \in Seq(Requests) /\ replaying \in Seq(Requests)
         /\ Served /\ ReceiptsAccounted /\ Admitting
         /\ Live(standalone, request) \subseteq Requests
BY EntriesType, LiveType
   DEF PromisesInv, IdsInv, TypeInv, RunOK, TurnsOK, AdmissionOK

\* Whoever waits for a turn goes on waiting in a calm block.
LEMMA CalmWaits ==
  ASSUME PromisesInv, NEW rq, NEW rq2, Waits(rq), Fits(rq), Calm(rq2, rq)
  PROVE  Waits(rq2)
<1>1. Live(standalone, request) \subseteq Requests /\ standalone \in Queue /\ ReceiptsAccounted
  BY InvFacts
<1>2. \A r \in Requests : rq2[r].receipt = "waiting" <=> request[r].receipt = "waiting"
  BY DEF Waits, Calm
<1>3. ASSUME NEW r \in Live(standalone, request) PROVE r \in Live(standalone, rq2)
  <2>1. r \in Requests /\ request[r].receipt = "waiting"
    BY <1>1 DEF ReceiptsAccounted
  <2>2. rq[r].turn = None
    BY <2>1 DEF Waits, Fits, RecordFits
  <2>3. r \in Live(standalone, rq) /\ rq2[r] = rq[r]
    BY <2>1, <2>2 DEF Waits, Calm
  <2> QED BY <2>3 DEF Live
<1>4. ASSUME NEW r \in Live(standalone, rq2) PROVE r \in Live(standalone, request)
  <2>1. r \in Requests
    BY <1>1, LiveType
  <2>2. r \in Live(standalone, rq)
    BY <2>1 DEF Live, Calm
  <2> QED BY <2>2 DEF Waits
<1> QED BY <1>2, <1>3, <1>4 DEF Waits

\* What only the run changes.
LEMMA RunOnlyKept ==
  ASSUME PromisesInv, RunOnly, Served', Waits(request'), AbortedStays(request', request), CutOff
  PROVE  Kept
<1>1. /\ UNCHANGED <<active, pending, held, replaying, leases, standalone, waiting, disposing>>
  BY DEF RunOnly, admissionVars
<1>2. Live(standalone', request') = Live(standalone, request)
  BY <1>1 DEF Waits
<1>3. ReceiptsAccounted'
  BY <1>1, <1>2 DEF PromisesInv, ReceiptsAccounted, Waits
<1>4. Admitting'
  BY <1>1, <1>2 DEF PromisesInv, Admitting, Idle
<1> QED BY <1>3, <1>4 DEF Kept

\* A block of the active turn's run, from requests rq and jobs ts.
LEMMA BlockKept ==
  ASSUME PromisesInv, active # None, RunOnly,
         NEW ts, NEW rq, BlockServes(active, ts, rq), ts[active].aborted = turn[active].aborted,
         Fits(rq), Unfinished(rq, active, pending), Waits(rq), AbortedStays(rq, request)
  PROVE  Kept
<1>1. active' = active /\ pending' = pending
  BY DEF RunOnly
<1>2. Served'
  BY <1>1 DEF BlockServes, Served
<1>3. Calm(request', rq) /\ CutOff
  BY DEF BlockServes, CutOff
<1>4. Waits(request')
  BY <1>3, CalmWaits
<1>5. AbortedStays(request', request)
  BY <1>3 DEF Calm, AbortedStays
<1> QED BY <1>2, <1>3, <1>4, <1>5, RunOnlyKept

\* What the current requests and jobs give such a block.
LEMMA BlockReady ==
  ASSUME PromisesInv
  PROVE  /\ Fits(request) /\ Belong(turn, request) /\ InContext(request, context)
         /\ Unfinished(request, active, pending) /\ Waits(request) /\ AbortedStays(request, request)
BY DEF PromisesInv, Served, Waits, AbortedStays

\* The end of the run, from any request map that fits.
LEMMA EndRunKept ==
  ASSUME PromisesInv, active # None, RunOnly,
         NEW rn \in Run, NEW result \in {"completed", "failed", "cancelled"},
         EndRun(active, turn, request, rn, result)
  PROVE  Kept
<1>1. active \in Turns /\ turn \in TurnMap /\ request \in RequestMap
  BY InvFacts
<1>2. BlockServes(active, turn, request)
  BY <1>1, BlockReady, EndRunServes
<1> QED BY <1>2, BlockReady, BlockKept

\* A step that leaves requests, turns and context alone and drops the driver or
\* keeps it.
LEMMA IdleStepKept ==
  ASSUME PromisesInv, RunOnly, UNCHANGED <<request, turn, context>>,
         run'.driver \in {run.driver, None}
  PROVE  Kept
<1>1. active' = active /\ pending' = pending
  BY DEF RunOnly
<1>2. Served'
  BY <1>1 DEF PromisesInv, Served, Drives
<1>3. Waits(request') /\ AbortedStays(request', request) /\ CutOff
  BY DEF Waits, AbortedStays, CutOff
<1> QED BY <1>2, <1>3, RunOnlyKept

\* A response.
LEMMA StepRespondsKept ==
  ASSUME PromisesInv, NEW finish, StepResponds(finish)
  PROVE  Kept
<1>1. /\ RunOnly /\ UNCHANGED <<request, turn, context>>
      /\ run' = [run EXCEPT !.phase = "finishing", !.finish = finish,
                            !.failed = None, !.attempts = 0]
  BY DEF StepResponds
<1>2. run'.driver = run.driver
  BY <1>1, InvFacts DEF Run
<1> QED BY <1>1, <1>2, IdleStepKept

\* An aborted step.
LEMMA StepAbortsKept ==
  ASSUME PromisesInv, StepAborts
  PROVE  Kept
<1>1. /\ active # None /\ RunOnly
      /\ \/ /\ run' = [run EXCEPT !.phase = "resuming", !.driver = None]
            /\ UNCHANGED <<request, turn, context>>
         \/ EndRun(active, turn, request, run, "cancelled")
  BY DEF StepAborts, At
<1>2. run \in Run
  BY InvFacts
<1>3. CASE EndRun(active, turn, request, run, "cancelled")
  BY <1>1, <1>2, <1>3, EndRunKept
<1>4. CASE /\ run' = [run EXCEPT !.phase = "resuming", !.driver = None]
           /\ UNCHANGED <<request, turn, context>>
  <2>1. run'.driver = None
    BY <1>2, <1>4 DEF Run
  <2> QED BY <1>1, <1>4, <2>1, IdleStepKept
<1> QED BY <1>1, <1>3, <1>4

\* A failed step.
LEMMA StepFailsKept ==
  ASSUME PromisesInv, NEW retryable, StepFails(retryable)
  PROVE  Kept
<1>1. /\ active # None /\ RunOnly
      /\ \/ /\ run' = [run EXCEPT !.phase = "recovering", !.failed = run.driver,
                                  !.attempts = Attempt]
            /\ UNCHANGED <<request, turn, context>>
         \/ EndRun(active, turn, request, run, "failed")
  BY DEF StepFails, At
<1>2. run \in Run
  BY InvFacts
<1>3. CASE EndRun(active, turn, request, run, "failed")
  BY <1>1, <1>2, <1>3, EndRunKept
<1>4. CASE /\ run' = [run EXCEPT !.phase = "recovering", !.failed = run.driver,
                                 !.attempts = Attempt]
           /\ UNCHANGED <<request, turn, context>>
  <2>1. run'.driver = run.driver
    BY <1>2, <1>4 DEF Run
  <2> QED BY <1>1, <1>4, <2>1, IdleStepKept
<1> QED BY <1>1, <1>3, <1>4

\* A step that is retried goes back to the queue of its own turn.
LEMMA BackoffEndsKept ==
  ASSUME PromisesInv, BackoffEnds
  PROVE  Kept
<1>1. /\ active # None /\ run.phase = "recovering" /\ RunOnly
      /\ \/ \E result \in {"cancelled", "failed"} : EndRun(active, turn, request, run, result)
         \/ /\ request[run.driver].step # "cancelled"
            /\ request' = [request EXCEPT ![run.driver].step = "queued"]
            /\ turn' = [turn EXCEPT ![active].queue = EnqueueHead(@, run.driver)]
            /\ run' = [run EXCEPT !.phase = "resuming", !.driver = None]
            /\ UNCHANGED context
  BY DEF BackoffEnds, At, StepAborted
<1>2. run \in Run /\ active \in Turns /\ request \in RequestMap /\ turn \in TurnMap
  BY <1>1, InvFacts
<1>3. CASE \E result \in {"cancelled", "failed"} : EndRun(active, turn, request, run, result)
  BY <1>1, <1>2, <1>3, EndRunKept
<1>4. CASE /\ request' = [request EXCEPT ![run.driver].step = "queued"]
           /\ turn' = [turn EXCEPT ![active].queue = EnqueueHead(@, run.driver)]
           /\ run' = [run EXCEPT !.phase = "resuming", !.driver = None]
           /\ UNCHANGED context
  <2> DEFINE d == run.driver
  <2>1. d \in Requests
    BY <1>1, <1>2 DEF PromisesInv, IdsInv, TypeInv, RunOK, StepPhases, Run
  <2>2. request[d].turn = active /\ request[d].state = "materialized" /\ active # None
    BY <1>1, <2>1, RequestsAssumption DEF PromisesInv, Served, Drives
  <2> HIDE DEF d
  <2>3. /\ request'[d].turn = request[d].turn /\ request'[d].receipt = request[d].receipt
        /\ request'[d].state = request[d].state /\ request'[d].result = request[d].result
        /\ request'[d].step = "queued"
        /\ \A r \in Requests : r # d => request'[r] = request[r]
    BY <1>2, <1>4, <2>1 DEF RequestMap, RequestRecord, d
  <2>4. RecordFits(request'[d])
    <3>1. RecordFits(request[d])
      BY <2>1 DEF PromisesInv, Served, Fits
    <3> QED BY <2>2, <2>3, <3>1 DEF RecordFits
  <2>5. Fits(request')
    BY <2>3, <2>4 DEF PromisesInv, Served, Fits
  <2>6. Calm(request', request)
    BY <2>2, <2>3 DEF Calm
  <2>7. SameDelivery(request', request)
    BY <2>3 DEF SameDelivery
  <2>8. Belong(turn', request')
    <3>1. turn[active].queue \in Queue
      BY <1>2 DEF TurnMap, Job
    <3>2. EnqueueHead(turn[active].queue, d) \in Queue
      BY <2>1, <3>1, QueueTypes
    <3>3. /\ turn'[active].queue = EnqueueHead(turn[active].queue, d)
          /\ \A x \in Turns : x # active => turn'[x] = turn[x]
      BY <1>2, <1>4, <3>2 DEF TurnMap, Job, d
    <3>4. Contents(turn'[active].queue) = Contents(turn[active].queue) \cup {d}
      BY <2>1, <3>1, <3>3, EnqueueContents
    <3>5. ASSUME NEW x \in Turns, NEW r \in Live(turn'[x].queue, request') PROVE request'[r].turn = x
      <4>1. turn'[x].queue \in Queue
        BY <1>2, <3>2, <3>3 DEF TurnMap, Job
      <4>2. r \in Requests /\ r \in Contents(turn'[x].queue) /\ request'[r].state # "aborted"
        BY <4>1, LiveType, <3>5 DEF Live, Contents
      <4>3. CASE x = active /\ r = d
        BY <2>2, <2>3, <4>3
      <4>4. CASE r \in Contents(turn[x].queue)
        <5>1. request[r].state # "aborted"
          BY <2>6, <4>2 DEF Calm
        <5>2. r \in Live(turn[x].queue, request)
          BY <4>4, <5>1 DEF Live, Contents
        <5>3. request[r].turn = x
          BY <5>2 DEF PromisesInv, Served, Belong
        <5> QED BY <2>6, <4>2, <5>3 DEF Calm
      <4> QED BY <3>3, <3>4, <4>2, <4>3, <4>4
    <3> QED BY <3>5 DEF Belong
  <2>9. InContext(request', context')
    BY <1>4, <2>7, BlockReady, InContextKept
  <2>10. run'.driver = None /\ active' = active /\ pending' = pending
    BY <1>1, <1>2, <1>4 DEF Run, RunOnly
  <2>11. Unfinished(request', active', pending')
    <3>1. ASSUME NEW r \in Requests, Unsettled(request', r)
          PROVE  request'[r].turn \in {active} \cup Entries(pending)
      BY <2>2, <2>3, <3>1 DEF PromisesInv, Served, Unfinished, Unsettled
    <3> QED BY <2>10, <3>1 DEF Unfinished
  <2>12. Served'
    BY <2>5, <2>8, <2>9, <2>10, <2>11 DEF Served, Drives
  <2>13. Waits(request')
    BY <2>6, BlockReady, CalmWaits
  <2>14. AbortedStays(request', request) /\ CutOff
    BY <1>4, <2>6 DEF Calm, AbortedStays, CutOff
  <2> QED BY <1>1, <2>12, <2>13, <2>14, RunOnlyKept
<1> QED BY <1>1, <1>3, <1>4

\* The next round of the loop.
LEMMA ResumeKept ==
  ASSUME PromisesInv, Resume
  PROVE  Kept
<1>1. active # None /\ RunOnly /\ BeginLoopStep(active, turn, request, run)
  BY DEF Resume, At
<1>2. /\ active \in Turns /\ run \in Run /\ request \in RequestMap /\ turn \in TurnMap
      /\ context \in Seq(SUBSET Requests)
  BY <1>1, InvFacts
<1>3. BlockServes(active, turn, request)
  BY <1>1, <1>2, BlockReady, BeginLoopStepServes
<1> QED BY <1>1, <1>3, BlockReady, BlockKept

\* The active turn is not queued, for its id has been passed.
LEMMA ActiveNotQueued ==
  ASSUME IdsInv, active # None
  PROVE  active \notin Entries(pending)
<1> SUFFICES ASSUME NEW i \in DOMAIN pending, pending[i] = active PROVE FALSE
  BY DEF Entries
<1>1. active \in Turns /\ FiniteClock(clock) /\ turn \in TurnMap
  BY DEF IdsInv, TypeInv, RunOK, TurnsOK
<1>2. turn[active].id \in IdsOf(pending, turn)
  BY DEF IdsOf
<1>3. turn[active].id \in clock.next .. (reserved - 1)
  BY <1>2 DEF IdsInv, IdsOK, Accounted
<1>4. turn[active].id < clock.next
  BY DEF IdsInv, IdsOK
<1>5. clock.next \in Nat /\ turn[active].id \in Nat
  BY <1>1, ClockTypes DEF TurnMap, Job
<1> QED BY <1>3, <1>4, <1>5

\* The end of a step, whose continuation joins the active turn.
LEMMA StepEndsKept ==
  ASSUME PromisesInv, NEW stop \in BOOLEAN, StepEnds(stop)
  PROVE  Kept
<1> DEFINE d  == run.driver
           rq == CompleteStep(request, d)
           rn == [run EXCEPT !.driver = None]
           Made(c) == [rq EXCEPT ![c].state = "pending"]
           More(c) == AssignSteps(Made(c), {c}, active)
           Fed(c)  == [turn EXCEPT ![active].queue = EnqueueTail(@, c)]
<1>1. /\ active # None /\ run.phase = "finishing" /\ RunOnly
      /\ \/ \E result \in {"completed", "failed", "cancelled"} : EndRun(active, turn, rq, rn, result)
         \/ BeginLoopStep(active, turn, rq, rn)
         \/ \E c \in Continuations :
               request[c].state = "new" /\ BeginLoopStep(active, Fed(c), More(c), rn)
  BY DEF StepEnds, At
<1>2. /\ active \in Turns /\ run \in Run /\ request \in RequestMap /\ turn \in TurnMap
      /\ context \in Seq(SUBSET Requests) /\ pending \in Seq(Turns) /\ standalone \in Queue
      /\ Live(standalone, request) \subseteq Requests
  BY <1>1, InvFacts
<1>3. d \in Requests
  BY <1>1, <1>2 DEF PromisesInv, IdsInv, TypeInv, RunOK, StepPhases, Run
<1>4. request[d].turn # None /\ request[d].state = "materialized"
  BY <1>1, <1>3, RequestsAssumption DEF PromisesInv, Served, Drives
<1>5. rn \in Run
  BY <1>2 DEF Run
<1> HIDE DEF d, rn
<1>6. /\ rq \in RequestMap
      /\ Fits(rq) /\ Calm(rq, request) /\ SameDelivery(rq, request)
      /\ \A r \in Requests : Unsettled(rq, r) => Unsettled(request, r)
  BY <1>2, <1>3, <1>4, BlockReady, CompleteStepServes
<1>7. \A r \in Requests : r # d => rq[r] = request[r]
  BY <1>2 DEF CompleteStep, RequestMap
<1> HIDE DEF rq
<1>8. /\ InContext(rq, context) /\ Waits(rq) /\ AbortedStays(rq, request)
      /\ Unfinished(rq, active, pending)
  BY <1>6, BlockReady, InContextKept, CalmWaits DEF Calm, AbortedStays, Unfinished
<1>9. Belong(turn, rq)
  <2>1. \A x \in Turns : turn[x].queue \in Queue
    BY <1>2 DEF TurnMap, Job
  <2> QED BY <1>6, <2>1, BlockReady, BelongKept
<1>10. CASE \E result \in {"completed", "failed", "cancelled"} : EndRun(active, turn, rq, rn, result)
  <2>1. BlockServes(active, turn, rq)
    BY <1>2, <1>5, <1>6, <1>8, <1>9, <1>10, EndRunServes
  <2> QED BY <1>1, <1>6, <1>8, <2>1, BlockKept
<1>11. CASE BeginLoopStep(active, turn, rq, rn)
  <2>1. BlockServes(active, turn, rq)
    BY <1>2, <1>5, <1>6, <1>8, <1>9, <1>11, BeginLoopStepServes
  <2> QED BY <1>1, <1>6, <1>8, <2>1, BlockKept
<1>12. ASSUME NEW c \in Continuations, request[c].state = "new",
              BeginLoopStep(active, Fed(c), More(c), rn)
       PROVE  Kept
  <2> DEFINE made == Made(c)
             more == More(c)
             fed  == Fed(c)
             own  == {c}
  <2>1. c \in Requests /\ c # d
    BY <1>4, <1>12 DEF Requests
  <2>2. /\ rq[c] = request[c] /\ request[c].receipt = "none" /\ request[c].turn = None
        /\ rq[c].step = "none" /\ rq[c].result = "none" /\ rq[c].state = "new"
    BY <1>7, <1>12, <2>1, BlockReady DEF Fits, RecordFits
  <2>3. /\ made \in RequestMap
        /\ made[c].state = "pending" /\ made[c].turn = None /\ made[c].receipt = "none"
        /\ made[c].step = "none" /\ made[c].result = "none"
        /\ \A r \in Requests : r # c => made[r] = rq[r]
    BY <1>6, <2>1, <2>2 DEF RequestMap, RequestRecord
  <2> HIDE DEF made
  <2>4. Fits(made)
    BY <1>6, <2>3 DEF Fits, RecordFits
  <2>5. SameDelivery(made, rq) /\ AbortedStays(made, rq)
    BY <2>2, <2>3 DEF SameDelivery, AbortedStays
  <2>6. Belong(turn, made)
    <3>1. ASSUME NEW x \in Turns, NEW r \in Live(turn[x].queue, made) PROVE made[r].turn = x
      <4>1. turn[x].queue \in Queue /\ x # None
        BY <1>2, TurnsAreRequests DEF TurnMap, Job
      <4>2. r \in Requests /\ made[r].state # "aborted" /\ r \in Contents(turn[x].queue)
        BY <4>1, LiveType, <3>1 DEF Live, Contents
      <4>3. r \in Live(turn[x].queue, rq)
        BY <2>2, <2>3, <4>2 DEF Live, Contents
      <4>4. rq[r].turn = x
        BY <1>9, <4>3 DEF Belong
      <4> QED BY <2>2, <2>3, <4>1, <4>2, <4>4
    <3> QED BY <3>1 DEF Belong
  <2>7. Unfinished(made, active, pending)
    BY <1>8, <2>3 DEF Unfinished, Unsettled
  <2>8. \A r \in own : made[r].state = "pending" /\ made[r].turn = None
    BY <2>3
  <2>9. /\ more \in RequestMap
        /\ Fits(more) /\ SameDelivery(more, made) /\ AbortedStays(more, made)
        /\ \A r \in own : /\ more[r].turn = active /\ more[r].receipt = "assigned"
                          /\ more[r].state = "pending"
        /\ \A r \in Requests \ own : more[r] = made[r]
        /\ Unfinished(more, active, pending)
    <3>1. own \in SUBSET Requests /\ more = AssignSteps(made, own, active)
      BY <2>1 DEF made
    <3>2. active \in {active} \cup Entries(pending)
      OBVIOUS
    <3> HIDE DEF own, more
    <3> QED BY <1>2, <2>3, <2>4, <2>7, <2>8, <3>1, <3>2, AssignServes
  <2>10. /\ more[c].receipt = "assigned" /\ more[c].state = "pending" /\ more[c].turn = active
         /\ \A r \in Requests : r # c => more[r] = rq[r]
    BY <2>3, <2>9
  <2> HIDE DEF more
  <2>11. /\ fed \in TurnMap /\ fed[active].aborted = turn[active].aborted
         /\ Contents(fed[active].queue) = Contents(turn[active].queue) \cup own
         /\ \A x \in Turns : x # active => fed[x] = turn[x]
    <3>1. turn[active].queue \in Queue
      BY <1>2 DEF TurnMap, Job
    <3>2. EnqueueTail(turn[active].queue, c) \in Queue
      BY <2>1, <3>1, QueueTypes
    <3>3. /\ fed \in TurnMap /\ fed[active].queue = EnqueueTail(turn[active].queue, c)
          /\ fed[active].aborted = turn[active].aborted
          /\ \A x \in Turns : x # active => fed[x] = turn[x]
      BY <1>2, <3>2 DEF TurnMap, Job
    <3> QED BY <2>1, <3>1, <3>3, EnqueueContents
  <2> HIDE DEF fed, own
  <2>12. Belong(fed, more)
    <3>1. Live(fed[active].queue, made) \subseteq own \cup Live(turn[active].queue, made)
      BY <2>11 DEF Live, Contents
    <3>2. \A x \in Turns \ {active} : Contents(fed[x].queue) \subseteq Contents(turn[x].queue)
      BY <2>11
    <3>3. \A r \in own : made[r].turn = None /\ made[r].state = "pending" /\ more[r].turn = active
      BY <2>8, <2>9
    <3>4. Assigned(fed, more, turn, made, active, own)
      BY <2>9, <3>1, <3>2, <3>3 DEF Assigned
    <3> QED BY <1>2, <2>6, <2>11, <3>4, BelongAssigned
  <2>13. InContext(more, context)
    BY <1>8, <2>5, <2>9, InContextKept
  <2>14. AbortedStays(more, request)
    BY <1>8, <2>5, <2>9 DEF AbortedStays
  <2>15. Waits(more)
    <3>1. c \notin Contents(standalone)
      <4>1. c \in Contents(standalone) => c \in Live(standalone, request)
        BY <1>12 DEF Live, Contents
      <4> QED BY <2>1, <2>2, <4>1 DEF PromisesInv, ReceiptsAccounted
    <3>2. Contents(standalone) \subseteq Requests
      BY <1>2, EntriesType DEF Contents, Queue
    <3>3. \A r \in Contents(standalone) : more[r] = rq[r]
      BY <2>10, <3>1, <3>2
    <3>4. Live(standalone, more) = Live(standalone, rq)
      BY <3>3 DEF Live, Contents
    <3> QED BY <1>8, <2>2, <2>10, <3>4 DEF Waits
  <2>16. BlockServes(active, fed, more)
    BY <1>2, <1>5, <1>12, <2>9, <2>11, <2>12, <2>13, BeginLoopStepServes DEF fed, more
  <2> QED BY <1>1, <2>9, <2>11, <2>14, <2>15, <2>16, BlockKept
<1> QED BY <1>1, <1>10, <1>11, <1>12

\* The end of a turn: what it left unsettled is cancelled, and the next turn,
\* another one, begins.
LEMMA ReleaseActiveTurnKept ==
  ASSUME PromisesInv, ReleaseActiveTurn
  PROVE  Kept
<1> DEFINE rq == CancelSteps(request, StepsOf(request, active))
           ts == [turn EXCEPT ![active].state = run.result]
<1>1. /\ active # None /\ replaying = <<>>
      /\ PumpTurns(pending, ts, rq) /\ MaybeSettle(None, pending, held)
      /\ UNCHANGED <<reserved, standalone, held, replaying, leases, disposing>>
  BY DEF ReleaseActiveTurn, At, Quiet, admissionVars
<1>2. /\ active \in Turns /\ run \in Run /\ request \in RequestMap /\ turn \in TurnMap
      /\ context \in Seq(SUBSET Requests) /\ pending \in Seq(Turns)
  BY <1>1, InvFacts
<1>3. /\ rq \in RequestMap
      /\ Fits(rq) /\ Calm(rq, request) /\ SameDelivery(rq, request)
      /\ \A r \in Requests : Unsettled(rq, r) => Unsettled(request, r) /\ r \notin StepsOf(request, active)
  BY <1>2, BlockReady, CancelStepsServes
<1>4. /\ ts \in TurnMap
      /\ \A x \in Turns : ts[x].queue = turn[x].queue /\ ts[x].queue \in Queue
  BY <1>2 DEF TurnMap, Job, Run
<1> HIDE DEF rq, ts
<1>5. Belong(ts, rq)
  BY <1>3, <1>4, BlockReady, BelongKept
<1>6. InContext(rq, context) /\ Waits(rq)
  BY <1>3, BlockReady, InContextKept, CalmWaits
<1>7. Unfinished(rq, None, pending)
  BY <1>3, BlockReady DEF Unfinished, Calm, StepsOf
<1>8. /\ Served' /\ Calm(request', rq)
      /\ IF pending # <<>> /\ leases = 0 /\ ~disposing
         THEN active' = Head(pending) /\ active' # None
         ELSE active' = None /\ pending' = pending
  BY <1>1, <1>2, <1>3, <1>4, <1>5, <1>6, <1>7, PumpTurnsServes
<1>9. Waits(request')
  BY <1>3, <1>6, <1>8, CalmWaits
<1>10. AbortedStays(request', request)
  BY <1>3, <1>8 DEF Calm, AbortedStays
<1>11. active' # active
  <2>1. active \notin Entries(pending)
    BY <1>1, ActiveNotQueued DEF PromisesInv
  <2>2. pending # <<>> => Head(pending) \in Entries(pending)
    BY <1>2, TailEntries
  <2> QED BY <1>1, <1>8, <2>1, <2>2
<1>12. /\ leases = 0 /\ Live(standalone, request) = {} /\ Admitting
       /\ disposing => pending = <<>>
  <2>1. Admitting /\ leases \in Nat
    BY DEF PromisesInv, IdsInv, TypeInv, AdmissionOK
  <2> QED BY <1>1, <2>1 DEF Admitting
<1>13. Live(standalone', request') = {}
  BY <1>1, <1>9, <1>12 DEF Waits
<1>14. ReceiptsAccounted'
  BY <1>1, <1>9, <1>12, <1>13 DEF PromisesInv, ReceiptsAccounted, Waits
<1>15. IF pending # <<>> THEN active' # None ELSE active' = None /\ pending' = <<>>
  BY <1>8, <1>12
<1>16. waiting' => active' # None \/ held' # <<>>
  BY <1>1, <1>15 DEF MaybeSettle
<1>17. disposing => active' = None /\ pending' = <<>>
  BY <1>12, <1>15
<1>18. Admitting'
  BY <1>1, <1>12, <1>13, <1>15, <1>16, <1>17 DEF Admitting, Idle
<1> QED BY <1>8, <1>10, <1>11, <1>14, <1>18 DEF Kept, CutOff
--------------------------------------------------------------------------------
(***************************************************************************)
(* Clients: admission, quiescence, cancellation, disposal.                 *)
(***************************************************************************)

\* A request that a client hands over is held, admitted or refused.
LEMMA EnqueueKept ==
  ASSUME PromisesInv, NEW r \in Requests, Enqueue(r)
  PROVE  Kept
<1> DEFINE rq == [request EXCEPT ![r].state = "pending", ![r].receipt = "waiting"]
           W  == Entries(held) \cup Entries(replaying)
<1>1. /\ replaying = <<>> /\ ~disposing /\ request[r].state = "new"
      /\ \/ /\ leases > 0 /\ held' = Append(held, r) /\ request' = rq
            /\ UNCHANGED <<turnVars, standalone>>
         \/ leases = 0 /\ Admit(r, rq) /\ UNCHANGED held
         \/ request' = Reject(rq, r) /\ UNCHANGED <<turnVars, standalone, held>>
      /\ UNCHANGED <<replaying, leases, waiting, disposing>>
  BY DEF Enqueue, Quiet
<1>2. /\ request \in RequestMap /\ turn \in TurnMap /\ standalone \in Queue
      /\ held \in Seq(Requests) /\ Live(standalone, request) \subseteq Requests
      /\ TypeInv /\ Admitting /\ ReceiptsAccounted
  BY InvFacts
<1>3. /\ request[r].receipt = "none" /\ request[r].turn = None /\ request[r].step = "none"
      /\ request[r].result = "none"
  BY <1>1, BlockReady DEF Fits, RecordFits
<1>4. /\ rq \in RequestMap
      /\ rq[r].state = "pending" /\ rq[r].receipt = "waiting" /\ rq[r].turn = None
      /\ rq[r].step = "none" /\ rq[r].result = "none"
      /\ \A x \in Requests : x # r => rq[x] = request[x]
  BY <1>2, <1>3 DEF RequestMap, RequestRecord
<1> HIDE DEF rq
<1>5. Entries(replaying) = {} /\ r \notin W \cup Live(standalone, request)
  BY <1>1, <1>2, <1>3 DEF ReceiptsAccounted, Entries
<1>6. r \notin Contents(standalone) /\ Contents(standalone) \subseteq Requests
  BY <1>1, <1>2, <1>5, EntriesType DEF Live, Contents, Queue
<1>7. ASSUME NEW rq2, \A x \in Requests : x # r => rq2[x] = request[x]
      PROVE  Live(standalone, rq2) = Live(standalone, request)
  BY <1>6, <1>7 DEF Live, Contents
<1>8. Live(standalone, rq) = Live(standalone, request)
  BY <1>4, <1>7
<1>9. /\ Fits(rq) /\ SameDelivery(rq, request) /\ AbortedStays(rq, request)
      /\ Unfinished(rq, active, pending)
  <2>1. Fits(rq)
    BY <1>4, BlockReady DEF Fits, RecordFits
  <2>2. SameDelivery(rq, request) /\ AbortedStays(rq, request)
    BY <1>1, <1>4 DEF SameDelivery, AbortedStays
  <2>3. Unfinished(rq, active, pending)
    BY <1>4, BlockReady DEF Unfinished, Unsettled
  <2> QED BY <2>1, <2>2, <2>3
<1>10. Belong(turn, rq)
  <2>1. ASSUME NEW x \in Turns, NEW y \in Live(turn[x].queue, rq) PROVE rq[y].turn = x
    <3>1. turn[x].queue \in Queue /\ x # None
      BY <1>2, TurnsAreRequests DEF TurnMap, Job
    <3>2. y \in Requests /\ y \in Contents(turn[x].queue) /\ rq[y].state # "aborted"
      BY <3>1, LiveType, <2>1 DEF Live, Contents
    <3>3. y \in Live(turn[x].queue, request)
      BY <1>1, <1>4, <3>2 DEF Live, Contents
    <3>4. request[y].turn = x
      BY <3>3, BlockReady DEF Belong
    <3> QED BY <1>3, <1>4, <3>1, <3>2, <3>4
  <2> QED BY <2>1 DEF Belong
<1>11. InContext(rq, context)
  BY <1>9, BlockReady, InContextKept
<1>12. Drives(run, rq, active)
  <2>1. run.driver # None => run.driver \in Requests
    BY <1>2 DEF TypeInv, RunOK, Run
  <2> QED BY <1>1, <1>4, <2>1 DEF PromisesInv, Served, Drives
<1>13. CASE /\ leases > 0 /\ held' = Append(held, r) /\ request' = rq
            /\ UNCHANGED <<turnVars, standalone>>
  <2>1. Entries(held') = Entries(held) \cup {r}
    BY <1>2, <1>13, AppendEntries
  <2>2. Served'
    BY <1>9, <1>10, <1>11, <1>12, <1>13 DEF Served, turnVars
  <2>3. ReceiptsAccounted'
    BY <1>1, <1>2, <1>4, <1>5, <1>8, <1>13, <2>1 DEF ReceiptsAccounted
  <2>4. held' # <<>>
    <3>1. Entries(<<>>) = {}
      BY DEF Entries
    <3> QED BY <2>1, <3>1
  <2>5. Admitting'
    BY <1>1, <1>2, <1>8, <1>13, <2>4 DEF Admitting, Idle, turnVars
  <2> QED BY <1>9, <1>13, <2>2, <2>3, <2>5 DEF Kept, CutOff, turnVars
<1>14. CASE leases = 0 /\ Admit(r, rq) /\ UNCHANGED held
  <2>1. W \cap Live(standalone, rq) = {}
    <3>1. held = <<>>
      BY <1>2, <1>14 DEF Admitting
    <3> QED BY <1>5, <3>1 DEF Entries
  <2>2. \A x \in Requests \ {r} : rq[x].receipt = "waiting" <=> x \in W \cup Live(standalone, rq)
    BY <1>2, <1>4, <1>8 DEF ReceiptsAccounted
  <2>3. /\ active = None => pending = <<>>
        /\ active # None => Live(standalone, rq) = {}
    BY <1>2, <1>8 DEF Admitting
  <2> HIDE DEF W
  <2>4. AdmitReady(r, rq, W)
    BY <1>1, <1>4, <1>5, <1>8, <1>9, <1>10, <1>11, <1>12, <1>14, <2>1, <2>2, <2>3 DEF AdmitReady
  <2>5. AdmitServed(rq, W)
    BY <1>2, <1>4, <1>14, <2>4, AdmitServes
  <2>6. held' = held /\ replaying' = replaying /\ leases' = 0 /\ leases = 0 /\ disposing' = disposing
    BY <1>1, <1>14
  <2>7. ReceiptsAccounted'
    BY <2>5, <2>6 DEF AdmitServed, ReceiptsAccounted, W
  <2>8. waiting' => active' # None \/ held' # <<>>
    <3>1. waiting' => active # None \/ held # <<>>
      BY <1>1, <1>2 DEF Admitting, Idle
    <3> QED BY <2>5, <2>6, <3>1 DEF AdmitServed
  <2>9. Admitting'
    BY <1>1, <1>2, <1>5, <2>5, <2>6, <2>8 DEF AdmitServed, Admitting, Idle
  <2>10. AbortedStays(request', request)
    BY <1>9, <2>5 DEF AdmitServed, AbortedStays
  <2> QED BY <2>5, <2>7, <2>9, <2>10 DEF AdmitServed, Kept
<1>15. CASE request' = Reject(rq, r) /\ UNCHANGED <<turnVars, standalone, held>>
  <2>1. /\ request'[r].receipt = "rejected" /\ request'[r].state = "pending"
        /\ request'[r].turn = None /\ request'[r].step = "none" /\ request'[r].result = "none"
        /\ \A x \in Requests : x # r => request'[x] = request[x]
    BY <1>4, <1>15 DEF Reject, RequestMap, RequestRecord
  <2>2. Fits(request')
    BY <2>1, BlockReady DEF Fits, RecordFits
  <2>3. SameDelivery(request', rq) /\ AbortedStays(request', request)
    BY <1>1, <1>4, <2>1 DEF SameDelivery, AbortedStays
  <2>4. \A x \in Requests : request'[x].state = rq[x].state /\ request'[x].turn = rq[x].turn
    BY <1>4, <2>1
  <2>5. Belong(turn', request')
    <3>1. \A x \in Turns : Live(turn[x].queue, request') = Live(turn[x].queue, rq)
      <4>1. \A x \in Turns : turn[x].queue \in Queue
        BY <1>2 DEF TurnMap, Job
      <4>2. \A x \in Turns : Contents(turn[x].queue) \subseteq Requests
        BY <4>1, EntriesType DEF Contents, Queue
      <4> QED BY <2>4, <4>2 DEF Live, Contents
    <3>2. turn' = turn /\ \A x \in Turns : Live(turn[x].queue, rq) \subseteq Requests
      <4>1. \A x \in Turns : turn[x].queue \in Queue
        BY <1>2 DEF TurnMap, Job
      <4> QED BY <1>15, <4>1, LiveType DEF turnVars
    <3> QED BY <1>10, <2>4, <3>1, <3>2 DEF Belong
  <2>6. InContext(request', context')
    BY <1>11, <1>15, <2>3, InContextKept DEF turnVars
  <2>7. Unfinished(request', active, pending)
    BY <2>1, BlockReady DEF Unfinished, Unsettled
  <2>8. Drives(run, request', active)
    <3>1. run.driver # None => run.driver \in Requests
      BY <1>2 DEF TypeInv, RunOK, Run
    <3> QED BY <1>12, <2>4, <3>1 DEF Drives
  <2>9. Served'
    BY <1>15, <2>2, <2>5, <2>6, <2>7, <2>8 DEF Served, turnVars
  <2>10. Live(standalone', request') = Live(standalone, request)
    BY <1>7, <1>15, <2>1
  <2>11. ReceiptsAccounted'
    BY <1>1, <1>2, <1>5, <1>15, <2>1, <2>10 DEF ReceiptsAccounted
  <2>12. Admitting'
    BY <1>1, <1>2, <1>15, <2>10 DEF Admitting, Idle, turnVars
  <2> QED BY <1>15, <2>3, <2>9, <2>11, <2>12 DEF Kept, CutOff, turnVars
<1> QED BY <1>1, <1>13, <1>14, <1>15

\* A lease is granted when nothing runs and nothing waits.
LEMMA AcquireQuiescenceKept ==
  ASSUME PromisesInv, AcquireQuiescence
  PROVE  Kept
<1>1. /\ ~disposing /\ replaying = <<>> /\ active = None /\ Live(standalone, request) = {}
      /\ pending = <<>> /\ held = <<>> /\ leases' = leases + 1
      /\ UNCHANGED <<request, turnVars, standalone, held, replaying, waiting, disposing>>
  BY DEF AcquireQuiescence, Quiet
<1>2. Served'
  BY <1>1 DEF PromisesInv, Served, turnVars
<1>3. ReceiptsAccounted'
  BY <1>1 DEF PromisesInv, ReceiptsAccounted
<1>4. Admitting'
  BY <1>1 DEF PromisesInv, Admitting, Idle, turnVars
<1> QED BY <1>1, <1>2, <1>3, <1>4 DEF Kept, CutOff, AbortedStays, turnVars

\* The last lease hands over what is held.
LEMMA ReleaseQuiescenceKept ==
  ASSUME PromisesInv, ReleaseQuiescence
  PROVE  Kept
<1>1. /\ replaying = <<>> /\ leases > 0 /\ leases' = leases - 1
      /\ UNCHANGED <<request, turnVars, standalone, disposing>>
      /\ \/ (leases' > 0 \/ disposing) /\ UNCHANGED <<held, replaying, waiting>>
         \/ /\ leases' = 0 /\ ~disposing /\ replaying' = held /\ held' = <<>>
            /\ MaybeSettle(active, pending, held)
  BY DEF ReleaseQuiescence, Quiet
<1>2. Served'
  BY <1>1 DEF PromisesInv, Served, turnVars
<1>3. Entries(<<>>) = {} /\ leases \in Nat /\ Admitting /\ ReceiptsAccounted
  BY InvFacts DEF Entries, TypeInv, AdmissionOK
<1>4. active = None /\ pending = <<>> /\ Live(standalone, request) = {}
  BY <1>1, <1>3 DEF Admitting
<1>5. /\ active' = None /\ pending' = <<>> /\ Live(standalone', request') = {}
      /\ request' = request
  BY <1>1, <1>4 DEF turnVars
<1>6. ReceiptsAccounted'
  BY <1>1, <1>3, <1>4, <1>5 DEF ReceiptsAccounted
<1>7. Admitting'
  <2>1. CASE (leases' > 0 \/ disposing) /\ UNCHANGED <<held, replaying, waiting>>
    BY <1>1, <1>3, <1>4, <1>5, <2>1 DEF Admitting, Idle
  <2>2. CASE /\ leases' = 0 /\ ~disposing /\ replaying' = held /\ held' = <<>>
             /\ MaybeSettle(active, pending, held)
    BY <1>1, <1>3, <1>4, <1>5, <2>2 DEF Admitting, Idle, MaybeSettle
  <2> QED BY <1>1, <2>1, <2>2
<1> QED BY <1>1, <1>2, <1>6, <1>7 DEF Kept, CutOff, AbortedStays, turnVars

\* Request r, which had no turn, is aborted and its receipt rejected.
RefusedFacts(r) ==
    /\ request'[r].state = "aborted" /\ request'[r].receipt = "rejected"
    /\ request'[r].turn = None /\ request'[r].step = "none" /\ request'[r].result = "none"
    /\ \A x \in Requests : x # r => request'[x] = request[x]

\* What a refusal does to requests.
LEMMA RefusalFacts ==
  ASSUME PromisesInv, NEW r \in Requests, request[r].state = "pending", request[r].turn = None,
         request' = Reject(AbortRequests(request, {r}), r)
  PROVE  RefusedFacts(r)
<1>1. request \in RequestMap
  BY InvFacts
<1>2. request[r].step = "none" /\ request[r].result = "none"
  BY BlockReady DEF Fits, RecordFits
<1> DEFINE rq == AbortRequests(request, {r})
<1>3. /\ rq \in RequestMap /\ rq[r] = [request[r] EXCEPT !.state = "aborted"]
      /\ \A x \in Requests : x # r => rq[x] = request[x]
  BY <1>1, AbortRequestsType DEF AbortRequests
<1> HIDE DEF rq
<1>4. /\ rq[r].state = "aborted" /\ rq[r].turn = None /\ rq[r].step = "none"
      /\ rq[r].result = "none"
  BY <1>1, <1>2, <1>3 DEF RequestMap, RequestRecord
<1>5. /\ request'[r] = [rq[r] EXCEPT !.receipt = "rejected"]
      /\ \A x \in Requests : x # r => request'[x] = rq[x]
  BY <1>3 DEF Reject, RequestMap, rq
<1>6. /\ request'[r].receipt = "rejected" /\ request'[r].state = rq[r].state
      /\ request'[r].turn = rq[r].turn /\ request'[r].step = rq[r].step
      /\ request'[r].result = rq[r].result
  <2>1. rq[r] \in RequestRecord
    BY <1>3 DEF RequestMap
  <2>2. \A q \in RequestRecord :
           LET q2 == [q EXCEPT !.receipt = "rejected"]
           IN  /\ q2.receipt = "rejected" /\ q2.state = q.state /\ q2.turn = q.turn
               /\ q2.step = q.step /\ q2.result = q.result
    BY DEF RequestRecord
  <2> QED BY <1>5, <2>1, <2>2
<1> QED BY <1>3, <1>4, <1>5, <1>6 DEF RefusedFacts

\* It leaves everything that was served as it was.
LEMMA RefusalServes ==
  ASSUME PromisesInv, NEW r \in Requests, request[r].state = "pending", request[r].turn = None,
         RefusedFacts(r), UNCHANGED <<turn, active, pending, run, context>>
  PROVE  Served' /\ AbortedStays(request', request)
<1>1. turn \in TurnMap /\ run \in Run
  BY InvFacts
<1>2. Fits(request')
  BY BlockReady DEF RefusedFacts, Fits, RecordFits
<1>3. SameDelivery(request', request) /\ AbortedStays(request', request)
  BY DEF RefusedFacts, SameDelivery, AbortedStays
<1>4. Belong(turn', request')
  <2>1. ASSUME NEW x \in Turns, NEW y \in Live(turn[x].queue, request') PROVE request'[y].turn = x
    <3>1. turn[x].queue \in Queue
      BY <1>1 DEF TurnMap, Job
    <3>2. y \in Requests /\ y \in Contents(turn[x].queue) /\ request'[y].state # "aborted"
      BY <3>1, LiveType, <2>1 DEF Live, Contents
    <3>3. y # r /\ request'[y] = request[y]
      BY <3>2 DEF RefusedFacts
    <3>4. y \in Live(turn[x].queue, request)
      BY <3>2, <3>3 DEF Live, Contents
    <3> QED BY <3>3, <3>4, BlockReady DEF Belong
  <2> QED BY <2>1 DEF Belong
<1>5. InContext(request', context')
  BY <1>3, BlockReady, InContextKept
<1>6. Unfinished(request', active', pending')
  BY BlockReady DEF RefusedFacts, Unfinished, Unsettled
<1>7. Drives(run', request', active')
  <2>1. run.driver # None => run.driver \in Requests /\ run.driver # r
    BY <1>1 DEF Run, PromisesInv, Served, Drives
  <2> QED BY <2>1 DEF RefusedFacts, PromisesInv, Served, Drives
<1> QED BY <1>2, <1>3, <1>4, <1>5, <1>6, <1>7 DEF Served

\* The request no longer waits for the next turn.
LEMMA RefusalLive ==
  ASSUME standalone \in Queue, NEW r \in Requests, RefusedFacts(r)
  PROVE  Live(standalone, request') = Live(standalone, request) \ {r}
<1>1. Contents(standalone) \subseteq Requests
  BY EntriesType DEF Contents, Queue
<1> QED BY <1>1 DEF RefusedFacts, Live, Contents

\* A replayed request is admitted or refused.
LEMMA ReplayKept ==
  ASSUME PromisesInv, Replay
  PROVE  Kept
<1> DEFINE r == Head(replaying)
           W == Entries(held) \cup Entries(replaying')
<1>1. /\ replaying # <<>> /\ replaying' = Tail(replaying)
      /\ \/ Admit(r, request)
         \/ /\ request' = Reject(AbortRequests(request, {r}), r)
            /\ UNCHANGED <<turnVars, standalone>>
      /\ IF replaying' = <<>> THEN MaybeSettle(active', pending', held) ELSE UNCHANGED waiting
      /\ UNCHANGED <<held, leases, disposing>>
  BY DEF Replay
<1>2. /\ request \in RequestMap /\ turn \in TurnMap /\ standalone \in Queue
      /\ replaying \in Seq(Requests) /\ Live(standalone, request) \subseteq Requests
      /\ TypeInv /\ Admitting /\ ReceiptsAccounted
  BY InvFacts
<1>3. /\ Entries(replaying) = {r} \cup Entries(replaying') /\ r \notin Entries(replaying')
      /\ held = <<>> /\ Entries(held) = {}
  BY <1>1, <1>2, HeadTailEntries, TailEntries DEF PromisesInv, IdsInv, FreshOK, Entries
<1>4. r \in Requests
  BY <1>1, <1>2
<1> HIDE DEF r
<1>5. request[r].receipt = "waiting" /\ request[r].state = "pending" /\ request[r].turn = None
  <2>1. request[r].receipt = "waiting"
    BY <1>2, <1>3, <1>4 DEF ReceiptsAccounted
  <2> QED BY <1>4, <2>1, BlockReady DEF Fits, RecordFits
<1>6. leases = 0 /\ ~disposing /\ Entries(replaying) \cap Live(standalone, request) = {}
  BY <1>1, <1>2 DEF Admitting
<1>7. W = Entries(replaying')
  BY <1>3
<1>8. ASSUME Admit(r, request) PROVE Kept
  <2>1. AdmitReady(r, request, W)
    <3>1. \A x \in Requests \ {r} :
             request[x].receipt = "waiting" <=> x \in W \cup Live(standalone, request)
      BY <1>2, <1>3 DEF ReceiptsAccounted
    <3>2. r \notin W \cup Live(standalone, request) /\ W \cap Live(standalone, request) = {}
      BY <1>3, <1>6, <1>7
    <3>3. /\ active = None => pending = <<>>
          /\ active # None => Live(standalone, request) = {}
      BY <1>2 DEF Admitting
    <3> HIDE DEF W
    <3> QED BY <1>5, <1>6, <3>1, <3>2, <3>3, BlockReady DEF AdmitReady, PromisesInv, Served
  <2> HIDE DEF W
  <2>2. AdmitServed(request, W)
    BY <1>2, <1>4, <1>8, <2>1, AdmitServes
  <2>3. held' = <<>> /\ Entries(held') = {} /\ leases' = 0 /\ ~disposing'
    BY <1>1, <1>3, <1>6
  <2>4. ReceiptsAccounted'
    BY <1>7, <2>2, <2>3 DEF AdmitServed, ReceiptsAccounted
  <2>5. waiting' => active' # None \/ replaying' # <<>>
    <3>1. replaying' = <<>> => MaybeSettle(active', pending', held)
      BY <1>1
    <3> QED BY <1>3, <2>2, <3>1 DEF MaybeSettle, AdmitServed
  <2>6. Admitting'
    BY <1>7, <2>2, <2>3, <2>5 DEF AdmitServed, Admitting, Idle
  <2> QED BY <2>2, <2>4, <2>6 DEF AdmitServed, Kept
<1>9. ASSUME request' = Reject(AbortRequests(request, {r}), r), UNCHANGED <<turnVars, standalone>>
      PROVE  Kept
  <2>1. RefusedFacts(r)
    BY <1>2, <1>4, <1>5, <1>9, RefusalFacts
  <2>2. Served' /\ AbortedStays(request', request)
    BY <1>4, <1>5, <1>9, <2>1, RefusalServes DEF turnVars
  <2>3. Live(standalone', request') = Live(standalone, request)
    <3>1. Live(standalone, request') = Live(standalone, request) \ {r}
      BY <1>2, <1>4, <2>1, RefusalLive
    <3> QED BY <1>3, <1>6, <1>9, <3>1
  <2>4. ReceiptsAccounted'
    BY <1>1, <1>2, <1>3, <1>6, <2>1, <2>3 DEF ReceiptsAccounted, RefusedFacts
  <2>5. waiting' => active' # None \/ pending' # <<>> \/ replaying' # <<>>
    BY <1>1, <1>3 DEF MaybeSettle
  <2>6. Admitting'
    BY <1>1, <1>2, <1>3, <1>6, <1>9, <2>3, <2>5 DEF Admitting, Idle, turnVars
  <2> QED BY <1>9, <2>2, <2>4, <2>6 DEF Kept, CutOff, turnVars
<1> QED BY <1>1, <1>8, <1>9

\* A receipt that is given up: its request waits nowhere any more.
LEMMA AbortReceiptKept ==
  ASSUME PromisesInv, NEW r \in Requests, AbortReceipt(r)
  PROVE  Kept
<1>1. /\ replaying = <<>> /\ request[r].receipt = "waiting"
      /\ request' = Reject(AbortRequests(request, {r}), r)
      /\ IF r \in Entries(held)
         THEN /\ \E i \in DOMAIN held : held[i] = r /\ held' = RemoveFrom(held, i)
              /\ MaybeSettle(active, pending, held')
         ELSE UNCHANGED <<held, waiting>>
      /\ UNCHANGED <<turnVars, standalone, replaying, leases, disposing>>
  BY DEF AbortReceipt, Quiet
<1>2. /\ request \in RequestMap /\ standalone \in Queue /\ held \in Seq(Requests)
      /\ Admitting /\ ReceiptsAccounted
  BY InvFacts
<1>3. request[r].state = "pending" /\ request[r].turn = None
  BY <1>1, BlockReady DEF Fits, RecordFits
<1>4. RefusedFacts(r)
  BY <1>1, <1>2, <1>3, RefusalFacts
<1>5. Served' /\ AbortedStays(request', request)
  BY <1>1, <1>3, <1>4, RefusalServes DEF turnVars
<1>6. Live(standalone', request') = Live(standalone, request) \ {r}
  BY <1>1, <1>2, <1>4, RefusalLive
<1>7. Entries(held') = Entries(held) \ {r} /\ (held' # <<>> => held # <<>>)
  <2>1. CASE r \in Entries(held)
    <3>1. PICK i \in DOMAIN held : held[i] = r /\ held' = RemoveFrom(held, i)
      BY <1>1, <2>1
    <3>2. Entries(held') = Entries(held) \ {r}
      BY <1>2, <3>1, RemoveFromLoses DEF PromisesInv, IdsInv, FreshOK
    <3>3. Entries(<<>>) = {}
      BY DEF Entries
    <3> QED BY <2>1, <3>2, <3>3
  <2>2. CASE r \notin Entries(held)
    BY <1>1, <2>2
  <2> QED BY <2>1, <2>2
<1>8. ReceiptsAccounted'
  <2>1. Entries(replaying) = {} /\ replaying' = replaying
    BY <1>1 DEF Entries
  <2> QED BY <1>2, <1>4, <1>6, <1>7, <2>1 DEF ReceiptsAccounted, RefusedFacts
<1>9. waiting' => active # None \/ pending # <<>> \/ held' # <<>>
  <2>1. CASE r \in Entries(held)
    BY <1>1, <2>1 DEF MaybeSettle
  <2>2. CASE r \notin Entries(held)
    BY <1>1, <1>2, <2>2 DEF Admitting, Idle
  <2> QED BY <2>1, <2>2
<1>10. Admitting'
  BY <1>1, <1>2, <1>6, <1>7, <1>9 DEF Admitting, Idle, turnVars
<1> QED BY <1>1, <1>5, <1>8, <1>10 DEF Kept, CutOff, turnVars

\* A step that is cancelled.
LEMMA CancelStepKept ==
  ASSUME PromisesInv, NEW r \in Requests, CancelStep(r)
  PROVE  Kept
<1>1. /\ request' = CancelSteps(request, {r})
      /\ UNCHANGED <<turn, active, pending, run, context, standalone, held, replaying, leases,
                     waiting, disposing>>
  BY DEF CancelStep, turnVars, admissionVars
<1>2. /\ request \in RequestMap /\ turn \in TurnMap /\ run \in Run
      /\ Admitting /\ ReceiptsAccounted
  BY InvFacts
<1>3. /\ Fits(request') /\ Calm(request', request) /\ SameDelivery(request', request)
      /\ \A x \in Requests : Unsettled(request', x) => Unsettled(request, x) /\ x \notin {r}
  BY <1>1, <1>2, BlockReady, CancelStepsServes
<1>4. Belong(turn', request')
  <2>1. \A x \in Turns : turn'[x].queue \in Queue /\ turn' = turn
    BY <1>1, <1>2 DEF TurnMap, Job
  <2> QED BY <1>3, <2>1, BlockReady, BelongKept
<1>5. InContext(request', context')
  BY <1>1, <1>3, BlockReady, InContextKept
<1>6. Unfinished(request', active', pending')
  BY <1>1, <1>3, BlockReady DEF Unfinished, Calm
<1>7. Drives(run', request', active')
  <2>1. run.driver # None => run.driver \in Requests
    BY <1>2 DEF Run
  <2> QED BY <1>1, <1>3, <2>1 DEF PromisesInv, Served, Drives, Calm, SameDelivery
<1>8. Waits(request')
  BY <1>3, BlockReady, CalmWaits
<1>9. ReceiptsAccounted' /\ Admitting'
  BY <1>1, <1>2, <1>8 DEF ReceiptsAccounted, Admitting, Waits, Idle
<1>10. AbortedStays(request', request) /\ CutOff
  BY <1>1, <1>3 DEF Calm, AbortedStays, CutOff
<1> QED BY <1>3, <1>4, <1>5, <1>6, <1>7, <1>9, <1>10 DEF Kept, Served

\* A step in which only jobs change, but not their queues, and which only the
\* turns and the waiting of settled() know of.
LEMMA JobsKept ==
  ASSUME PromisesInv, \A x \in Turns : turn'[x].queue = turn[x].queue,
         UNCHANGED <<request, active, pending, run, context, admissionVars, disposing>>,
         waiting' => waiting \/ ~Idle
  PROVE  Kept
<1>1. turn \in TurnMap /\ Admitting /\ ReceiptsAccounted
  BY InvFacts
<1>2. Belong(turn', request')
  BY BlockReady DEF Belong
<1>3. Served'
  BY <1>2 DEF PromisesInv, Served
<1>4. ReceiptsAccounted' /\ Admitting'
  BY <1>1 DEF ReceiptsAccounted, Admitting, Idle, admissionVars
<1> QED BY <1>3, <1>4 DEF Kept, CutOff, AbortedStays

\* The active turn is told to stop.
LEMMA CancelActiveTurnKept ==
  ASSUME PromisesInv, CancelActiveTurn
  PROVE  Kept
<1>1. /\ active # None
      /\ turn' = [turn EXCEPT ![active].aborted = TRUE]
      /\ UNCHANGED <<request, active, pending, run, context, admissionVars, waiting, disposing>>
  BY DEF CancelActiveTurn
<1>2. turn \in TurnMap /\ active \in Turns
  BY <1>1, InvFacts
<1>3. \A x \in Turns : turn'[x].queue = turn[x].queue
  BY <1>1, <1>2 DEF TurnMap, Job
<1> QED BY <1>1, <1>3, JobsKept

\* Somebody waits for the loop to settle.
LEMMA SettledKept ==
  ASSUME PromisesInv, Settled
  PROVE  Kept
BY JobsKept DEF Settled, turnVars

\* cancelQueuedTurn and dispose leave the queues of the jobs they mark alone.
LEMMA CancelledJobsQueues ==
  ASSUME turn \in TurnMap, NEW ts
  PROVE  \A x \in Turns : CancelledJobs(ts)[x].queue = turn[x].queue
BY DEF CancelledJobs, TurnMap, Job

\* A queued turn leaves the queue with all its steps settled.
LEMMA CancelQueuedTurnKept ==
  ASSUME PromisesInv, NEW i \in DOMAIN pending, CancelQueuedTurn(i)
  PROVE  Kept
<1> DEFINE t == pending[i]
<1>1. /\ replaying = <<>> /\ pending' = RemoveFrom(pending, i)
      /\ request' = CancelSteps(request, StepsOf(request, t))
      /\ turn' = CancelledJobs({t})
      /\ MaybeSettle(active, pending', held)
      /\ UNCHANGED <<active, run, context, standalone, held, replaying, leases, disposing>>
  BY DEF CancelQueuedTurn, Quiet, admissionVars
<1>2. /\ request \in RequestMap /\ turn \in TurnMap /\ run \in Run
      /\ pending \in Seq(Turns) /\ Admitting /\ ReceiptsAccounted
  BY InvFacts
<1>3. /\ Fits(request') /\ Calm(request', request) /\ SameDelivery(request', request)
      /\ \A x \in Requests :
            Unsettled(request', x) => Unsettled(request, x) /\ x \notin StepsOf(request, t)
  BY <1>1, <1>2, BlockReady, CancelStepsServes
<1>4. Entries(pending) \subseteq Entries(pending') \cup {t}
  BY <1>1, <1>2, RemoveFromLoses
<1> HIDE DEF t
<1>5. Belong(turn', request')
  <2>1. \A x \in Turns : turn'[x].queue = turn[x].queue
    BY <1>1, <1>2, CancelledJobsQueues
  <2>2. \A x \in Turns : turn'[x].queue \in Queue
    BY <1>2, <2>1 DEF TurnMap, Job
  <2> QED BY <1>3, <2>1, <2>2, BlockReady, BelongKept
<1>6. InContext(request', context')
  BY <1>1, <1>3, BlockReady, InContextKept
<1>7. Unfinished(request', active', pending')
  <2>1. ASSUME NEW x \in Requests, Unsettled(request', x)
        PROVE  request'[x].turn \in {active} \cup Entries(pending')
    <3>1. request[x].turn \in {active} \cup Entries(pending) /\ request[x].turn # t
      BY <1>3, <2>1, BlockReady DEF Unfinished, StepsOf
    <3> QED BY <1>3, <1>4, <3>1 DEF Calm
  <2> QED BY <1>1, <2>1 DEF Unfinished
<1>8. Drives(run', request', active')
  <2>1. run.driver # None => run.driver \in Requests
    BY <1>2 DEF Run
  <2> QED BY <1>1, <1>3, <2>1 DEF PromisesInv, Served, Drives, Calm, SameDelivery
<1>9. Live(standalone', request') = Live(standalone, request) /\ Waits(request')
  BY <1>1, <1>3, BlockReady, CalmWaits DEF Waits
<1>10. ReceiptsAccounted'
  BY <1>1, <1>2, <1>9 DEF ReceiptsAccounted, Waits
<1>11. active # None /\ (disposing => FALSE)
  <2>1. pending # <<>>
    OBVIOUS
  <2> QED BY <1>2, <2>1 DEF Admitting
<1>12. Admitting'
  BY <1>1, <1>2, <1>9, <1>11 DEF Admitting, Idle
<1>13. AbortedStays(request', request) /\ CutOff
  BY <1>1, <1>3 DEF Calm, AbortedStays, CutOff
<1> QED BY <1>3, <1>5, <1>6, <1>7, <1>8, <1>10, <1>12, <1>13 DEF Kept, Served

\* The disposal settles the steps of the queued turns and answers whoever waits.
LEMMA DisposeKept ==
  ASSUME PromisesInv, Dispose
  PROVE  Kept
<1> DEFINE queued == Entries(pending)
           steps  == {r \in Requests : request[r].turn \in queued}
           rq     == CancelSteps(request, steps)
           jobs   == CancelledJobs(queued)
<1>1. /\ replaying = <<>> /\ pending' = <<>>
      /\ turn' = IF active = None THEN jobs ELSE [jobs EXCEPT ![active].aborted = TRUE]
      /\ request' = [r \in Requests |->
                        IF r \in Homeless
                        THEN [rq[r] EXCEPT !.state = "aborted", !.receipt = "rejected"]
                        ELSE rq[r]]
      /\ standalone' = EmptyQueue /\ held' = <<>>
      /\ MaybeSettle(active, <<>>, <<>>)
      /\ disposing'
      /\ UNCHANGED <<active, run, context, replaying, leases>>
  BY DEF Dispose, Quiet
<1>2. /\ request \in RequestMap /\ turn \in TurnMap /\ run \in Run
      /\ active \in Turns \cup {None} /\ Admitting /\ ReceiptsAccounted
      /\ held \in Seq(Requests) /\ Live(standalone, request) \subseteq Requests
  BY InvFacts
<1>3. /\ rq \in RequestMap
      /\ Fits(rq) /\ Calm(rq, request) /\ SameDelivery(rq, request)
      /\ \A x \in Requests : Unsettled(rq, x) => Unsettled(request, x) /\ x \notin steps
  BY <1>2, BlockReady, CancelStepsServes
<1>4. Homeless \subseteq Requests /\ \A r \in Requests : r \in Homeless <=> request[r].receipt = "waiting"
  <2>1. Entries(replaying) = {} /\ Entries(held) \subseteq Requests
    BY <1>1, <1>2, NoEntries, EntriesType
  <2> QED BY <1>2, <2>1 DEF Homeless, ReceiptsAccounted
<1>5. jobs \in TurnMap /\ \A x \in Turns : jobs[x].queue = turn[x].queue
  BY <1>2, CancelledJobsType, CancelledJobsQueues
<1> HIDE DEF rq, jobs
<1>6. ASSUME NEW r \in Homeless
      PROVE  /\ request'[r].state = "aborted" /\ request'[r].receipt = "rejected"
             /\ request'[r].turn = None /\ request'[r].step = "none" /\ request'[r].result = "none"
             /\ rq[r].state = "pending"
  <2>1. r \in Requests /\ request[r].receipt = "waiting"
    BY <1>4
  <2>2. rq[r] = request[r] /\ request[r].state = "pending" /\ request[r].turn = None
    BY <1>3, <2>1, BlockReady DEF Fits, RecordFits, Calm
  <2>3. rq[r].step = "none" /\ rq[r].result = "none" /\ rq[r] \in RequestRecord
    BY <1>2, <2>1, <2>2, BlockReady DEF Fits, RecordFits, RequestMap
  <2>4. request'[r] = [rq[r] EXCEPT !.state = "aborted", !.receipt = "rejected"]
    BY <1>1, <2>1
  <2>5. /\ request'[r].state = "aborted" /\ request'[r].receipt = "rejected"
        /\ request'[r].turn = rq[r].turn /\ request'[r].step = rq[r].step
        /\ request'[r].result = rq[r].result
    BY <2>3, <2>4 DEF RequestRecord
  <2> QED BY <2>2, <2>3, <2>5
<1>7. \A r \in Requests : r \notin Homeless => request'[r] = rq[r]
  BY <1>1
<1>8. Fits(request')
  <2>1. ASSUME NEW r \in Requests PROVE RecordFits(request'[r])
    <3>1. CASE r \in Homeless
      BY <1>6, <3>1 DEF RecordFits
    <3>2. CASE r \notin Homeless
      BY <1>3, <1>7, <3>2 DEF Fits
    <3> QED BY <3>1, <3>2
  <2> QED BY <2>1 DEF Fits
<1>9. SameDelivery(request', request) /\ AbortedStays(request', request)
  <2>1. SameDelivery(request', rq) /\ AbortedStays(request', rq)
    BY <1>6, <1>7 DEF SameDelivery, AbortedStays
  <2> QED BY <1>3, <2>1 DEF SameDelivery, AbortedStays, Calm
<1>10. Belong(turn', request')
  <2>1. \A x \in Turns : turn'[x].queue = turn[x].queue
    <3>1. CASE active = None
      BY <1>1, <1>5, <3>1
    <3>2. CASE active # None
      BY <1>1, <1>2, <1>5, <3>2 DEF TurnMap, Job
    <3> QED BY <3>1, <3>2
  <2>2. \A x \in Turns : turn[x].queue \in Queue
    BY <1>2 DEF TurnMap, Job
  <2>3. Belong(turn, rq)
    BY <1>3, <2>2, BlockReady, BelongKept
  <2>4. ASSUME NEW x \in Turns, NEW y \in Live(turn[x].queue, request') PROVE request'[y].turn = x
    <3>1. y \in Requests /\ y \in Contents(turn[x].queue) /\ request'[y].state # "aborted"
      BY <2>2, LiveType, <2>4 DEF Live, Contents
    <3>2. request'[y] = rq[y]
      BY <1>6, <1>7, <3>1
    <3>3. y \in Live(turn[x].queue, rq)
      BY <3>1, <3>2 DEF Live, Contents
    <3> QED BY <2>3, <3>2, <3>3 DEF Belong
  <2> QED BY <2>1, <2>4 DEF Belong
<1>11. InContext(request', context')
  BY <1>1, <1>9, BlockReady, InContextKept
<1>12. Unfinished(request', active', pending')
  <2>1. ASSUME NEW x \in Requests, Unsettled(request', x) PROVE request'[x].turn = active
    <3>1. x \notin Homeless /\ request'[x] = rq[x]
      BY <1>6, <1>7, <2>1 DEF Unsettled
    <3>2. Unsettled(request, x) /\ request[x].turn \notin queued
      BY <1>3, <2>1, <3>1 DEF Unsettled
    <3>3. request[x].turn = active
      BY <3>2, BlockReady DEF Unfinished
    <3> QED BY <1>3, <3>1, <3>3 DEF Calm
  <2> QED BY <1>1, <2>1 DEF Unfinished
<1>13. Drives(run', request', active')
  <2>1. run.driver # None => run.driver \in Requests
    BY <1>2 DEF Run
  <2>2. run.driver # None => rq[run.driver].turn = active /\ rq[run.driver].state = "materialized"
    BY <1>3, <2>1 DEF PromisesInv, Served, Drives, Calm, SameDelivery
  <2>3. run.driver # None => run.driver \notin Homeless
    BY <1>6, <2>2
  <2> QED BY <1>1, <1>7, <2>1, <2>2, <2>3 DEF Drives
<1>14. Live(standalone', request') = {} /\ Entries(held') = {} /\ Entries(replaying') = {}
  <2>1. held' = <<>> /\ replaying' = <<>> /\ standalone' = EmptyQueue
    BY <1>1 DEF admissionVars
  <2> QED BY <2>1, EmptyQueueHolds, NoEntries
<1>15. ReceiptsAccounted'
  <2>1. \A r \in Requests : request'[r].receipt # "waiting"
    BY <1>3, <1>4, <1>6, <1>7 DEF Calm
  <2> QED BY <1>14, <2>1 DEF ReceiptsAccounted
<1>16. Admitting'
  <2>1. waiting' => active # None
    BY <1>1 DEF MaybeSettle
  <2> QED BY <1>1, <1>2, <1>14, <2>1 DEF Admitting, Idle
<1>17. CutOff
  BY <1>1 DEF CutOff
<1> QED BY <1>8, <1>9, <1>10, <1>11, <1>12, <1>13, <1>15, <1>16, <1>17 DEF Kept, Served
--------------------------------------------------------------------------------
(***************************************************************************)
(* The theorems.                                                           *)
(***************************************************************************)

\* A new loop has made no promise.
LEMMA InitPromises == Init => PromisesInv
<1> SUFFICES ASSUME Init PROVE PromisesInv
  OBVIOUS
<1>1. IdsInv
  BY InitIds
<1>2. /\ \A r \in Requests :
            /\ request[r].state = "new" /\ request[r].receipt = "none" /\ request[r].turn = None
            /\ request[r].step = "none" /\ request[r].result = "none"
      /\ \A t \in Turns : turn[t].queue = EmptyQueue
      /\ active = None /\ pending = <<>> /\ held = <<>> /\ replaying = <<>> /\ leases = 0
      /\ standalone = EmptyQueue /\ run.driver = None /\ context = <<>>
      /\ waiting = FALSE /\ disposing = FALSE
  BY DEF Init, NoJob, IdleRun
<1>3. Entries(<<>>) = {} /\ \A rq : Live(EmptyQueue, rq) = {}
  BY DEF Live, EmptyQueue, Entries
<1>4. Fits(request)
  BY <1>2 DEF Fits, RecordFits
<1>5. Belong(turn, request) /\ Unfinished(request, active, pending) /\ Drives(run, request, active)
  BY <1>2, <1>3 DEF Belong, Unfinished, Unsettled, Drives
<1>6. InContext(request, context)
  <2>1. \A i, j \in DOMAIN context : i # j => context[i] \cap context[j] = {}
    BY <1>2
  <2>2. UNION Entries(context) = {}
    BY <1>2, <1>3
  <2> QED BY <1>2, <2>1, <2>2 DEF InContext
<1>7. ReceiptsAccounted
  BY <1>2, <1>3 DEF ReceiptsAccounted
<1>8. Admitting
  BY <1>2, <1>3 DEF Admitting
<1> QED BY <1>1, <1>4, <1>5, <1>6, <1>7, <1>8 DEF PromisesInv, Served

\* Whatever a client does, the promises are kept.
LEMMA ClientKept == PromisesInv /\ Client => Kept
<1> SUFFICES ASSUME PromisesInv, Client PROVE Kept
  OBVIOUS
<1>1. CASE \E r \in Requests \ Continuations : Enqueue(r) \/ AbortReceipt(r)
  BY <1>1, EnqueueKept, AbortReceiptKept
<1>2. CASE \E r \in Requests : CancelStep(r)
  BY <1>2, CancelStepKept
<1>3. CASE \E i \in DOMAIN pending : CancelQueuedTurn(i)
  BY <1>3, CancelQueuedTurnKept
<1> QED BY <1>1, <1>2, <1>3, CancelActiveTurnKept, AcquireQuiescenceKept, SettledKept, DisposeKept
        DEF Client

\* So they are in every step of the run.
LEMMA RunStepKept == PromisesInv /\ RunStep => Kept
BY StepRespondsKept, StepFailsKept, StepAbortsKept, BackoffEndsKept, ResumeKept, StepEndsKept,
   ReleaseActiveTurnKept
   DEF RunStep

\* Every step keeps the promises.
LEMMA NextKept == PromisesInv /\ [Next]_vars => PromisesInv' /\ Kept
<1> SUFFICES ASSUME PromisesInv, [Next]_vars PROVE PromisesInv' /\ Kept
  OBVIOUS
<1>1. IdsInv'
  BY NextKeepsIds DEF PromisesInv
<1>2. ASSUME UNCHANGED vars PROVE Kept
  <2>1. UNCHANGED <<request, turn, active, pending, run, context, admissionVars, waiting, disposing>>
    BY <1>2 DEF vars, turnVars
  <2> QED BY <2>1, JobsKept
<1>3. ASSUME Next PROVE Kept
  BY <1>3, ClientKept, RunStepKept, ReleaseQuiescenceKept, ReplayKept DEF Next
<1>4. Kept
  BY <1>2, <1>3
<1> QED BY <1>1, <1>4 DEF PromisesInv, Kept

\* The inductive invariant holds.
LEMMA PromisesInvHolds == Spec => []PromisesInv
<1> QED BY InitPromises, NextKept, PTL DEF Spec

\* What the invariant says of steps.
LEMMA InvUnsettled == PromisesInv => NoStepLeftUnsettled
BY DEF PromisesInv, Served, Fits, RecordFits, Unfinished, Unsettled, NoStepLeftUnsettled

\* What it says of the disposal.
LEMMA InvDisposal == PromisesInv => DisposalSettlesAll
<1> SUFFICES ASSUME PromisesInv, disposing, active = None
             PROVE  /\ pending = <<>> /\ held = <<>>
                    /\ \A r \in Requests : ~Unsettled(request, r) /\ request[r].receipt # "waiting"
  BY DEF DisposalSettlesAll
<1>1. /\ pending = <<>> /\ held = <<>> /\ replaying = <<>> /\ Live(standalone, request) = {}
  BY DEF PromisesInv, Admitting
<1>2. Entries(<<>>) = {}
  BY DEF Entries
<1>3. \A r \in Requests : request[r].receipt # "waiting"
  BY <1>1, <1>2 DEF PromisesInv, ReceiptsAccounted
<1>4. ASSUME NEW r \in Requests, Unsettled(request, r) PROVE FALSE
  <2>1. request[r].turn = None
    BY <1>1, <1>2, <1>4, BlockReady DEF Unfinished
  <2> QED BY <1>4, <2>1, BlockReady DEF Fits, RecordFits, Unsettled
<1> QED BY <1>1, <1>3, <1>4

\* What it says of quiescence, of the standalone queue and of those who wait.
LEMMA InvAdmitting == PromisesInv => QuiescenceIsQuiet /\ NextTurnTakesStandalone /\ NoLostWakeup
BY DEF PromisesInv, Admitting, QuiescenceIsQuiet, NextTurnTakesStandalone, NoLostWakeup

\* What it says of the context.
LEMMA InvDelivered == PromisesInv => DeliveredOnce
BY DEF PromisesInv, Served, InContext, DeliveredOnce, Delivered

\* Whatever ends a turn (finishTurn, cancel, dispose) settles all its steps.
THEOREM StepsSettled == Spec => []NoStepLeftUnsettled
<1> QED BY PromisesInvHolds, InvUnsettled, PTL

\* A receipt is unanswered only while its request still waits somewhere:
\* admission, abort, the end of a quiescence and the disposal all answer it.
THEOREM ReceiptsAnswered == Spec => []ReceiptsAccounted
<1>1. PromisesInv => ReceiptsAccounted
  BY DEF PromisesInv
<1> QED BY <1>1, PromisesInvHolds, PTL

\* Whoever awaits settled() awaits something: settleIfIdle is never missed.
THEOREM WakeupsNotLost == Spec => []NoLostWakeup
<1> QED BY PromisesInvHolds, InvAdmitting, PTL

\* Nothing runs, queues or waits while a lease is out, and nothing stays held
\* without one.  (tryAcquireQuiescence, releaseQuiescence)
THEOREM QuietUnderLeases == Spec => []QuiescenceIsQuiet
<1> QED BY PromisesInvHolds, InvAdmitting, PTL

\* No turn passes by what waits for the next one.  (moveStandaloneStepsTo)
THEOREM StandaloneServed == Spec => []NextTurnTakesStandalone
<1> QED BY PromisesInvHolds, InvAdmitting, PTL

\* A request enters the context in one step only, and when it is materialized:
\* a retried driver is not delivered again.
THEOREM DeliveryOnce == Spec => []DeliveredOnce
<1> QED BY PromisesInvHolds, InvDelivered, PTL

\* After the disposal and the last run nothing is left unanswered.
THEOREM DisposalComplete == Spec => []DisposalSettlesAll
<1> QED BY PromisesInvHolds, InvDisposal, PTL

\* What was cancelled or aborted before its delivery is never delivered: no
\* queue, hook or retry revives it.
THEOREM CancelledStaysOut == Spec => CancelledNeverDelivered
<1>1. ASSUME PromisesInv, PromisesInv', Kept, NEW r \in Requests,
             request[r].state = "aborted" \/ request[r].result = "cancelled", r \notin Delivered
      PROVE  r \notin Delivered'
  <2>1. /\ request[r].state = "materialized" <=> r \in Delivered
        /\ request'[r].state = "materialized" <=> r \in Delivered'
    BY <1>1 DEF PromisesInv, Served, InContext, Delivered
  <2>2. request[r] \in RequestRecord /\ RecordFits(request[r])
    BY <1>1, InvFacts, BlockReady DEF RequestMap, Fits
  <2>3. request[r].state = "aborted"
    BY <1>1, <2>1, <2>2 DEF RequestRecord, RecordFits
  <2> QED BY <1>1, <2>1, <2>3 DEF Kept, AbortedStays
<1>2. PromisesInv /\ [Next]_vars
        => [\A r \in Requests :
              /\ request[r].state = "aborted" \/ request[r].result = "cancelled"
              /\ r \notin Delivered
              => r \notin Delivered']_vars
  BY <1>1, NextKept
<1> QED BY <1>2, PromisesInvHolds, PTL DEF Spec, CancelledNeverDelivered

\* A turn that was told to stop delivers nothing more: beginLoopStep does not
\* begin a step of it.
THEOREM CancelledTurnDeliversNothing == Spec => CancelStopsDelivery
<1>1. PromisesInv /\ [Next]_vars
        => [active # None /\ active' = active /\ turn[active].aborted => context' = context]_vars
  BY NextKept DEF Kept, CutOff
<1> QED BY <1>1, PromisesInvHolds, PTL DEF Spec, CancelStopsDelivery
--------------------------------------------------------------------------------
(***************************************************************************)
(* The turns as TurnQueue sees them.                                       *)
(*                                                                         *)
(* The ids of the queued turns are those the clock and the reservations    *)
(* leave, so a step that touches neither changes nothing TurnQueue sees,   *)
(* and the first of the queue, which starts with the clock's id, has the   *)
(* least of them.                                                          *)
(***************************************************************************)

\* The reserved ids that are ahead of the clock and not cancelled.
FreeIds(c, res) == (c.next .. (res - 1)) \ c.cancelled

\* They are the queued ones.
LEMMA QueuedFree ==
  /\ IdsInv => QueuedIds = FreeIds(clock, reserved)
  /\ IdsInv' => QueuedIds' = FreeIds(clock', reserved')
BY DEF IdsInv, IdsOK, Accounted, IdsOf, QueuedIds, FreeIds

\* A number of a set that none of the others is below is its least one.
LEMMA LeastIs ==
  ASSUME NEW S \in SUBSET Nat, NEW k \in S, \A j \in S : k <= j
  PROVE  Abstract!Least(S) = k
<1>1. \A x \in S : (\A j \in S : x <= j) => x = k
  OBVIOUS
<1> QED BY <1>1 DEF Abstract!Least

\* Turns that leave the queue while the active one stays are withdrawn.
LEMMA WithdrawnStep ==
  ASSUME QueuedIds' \subseteq QueuedIds, StartsRight, UNCHANGED <<active, reserved>>
  PROVE  Abstract!Next
<1> DEFINE gone == QueuedIds \ QueuedIds'
<1>1. gone \in SUBSET QueuedIds /\ QueuedIds' = QueuedIds \ gone
  OBVIOUS
<1>2. Abstract!Withdraw(gone)
  BY <1>1 DEF Abstract!Withdraw, StartsRight
<1> QED BY <1>1, <1>2 DEF Abstract!Next

\* A step that neither starts nor cancels a turn nor reserves an id.
LEMMA UnseenStep ==
  ASSUME IdsInv, IdsInv', StartsRight, UNCHANGED <<active, clock, reserved>>
  PROVE  Abstract!Next
BY QueuedFree, WithdrawnStep

\* What is left of the queue when its first turn starts.
LEMMA TailIds ==
  ASSUME NEW p \in Seq(Turns), p # <<>>, NEW ts \in TurnMap, NEW clk, FiniteClock(clk),
         NEW res \in Nat, Accounted(p, ts, clk, res), ClockFits(clk, res)
  PROVE  /\ FreeIds(PromptTurn(clk), res) = FreeIds(clk, res) \ {clk.next}
         /\ clk.next \in FreeIds(clk, res)
         /\ \A j \in FreeIds(clk, res) : clk.next <= j
<1> DEFINE c == PromptTurn(clk)
<1>1. clk.next \in Nat /\ clk.cancelled \in SUBSET Nat
  BY ClockTypes
<1>2. /\ FiniteClock(c)
      /\ clk.next < c.next
      /\ c.next \notin clk.cancelled
      /\ \A j \in (clk.next + 1) .. (c.next - 1) : j \in clk.cancelled
      /\ c.cancelled = {k \in clk.cancelled : k > c.next}
  BY PromptTurnFacts
<1>3. c.next \in Nat
  BY <1>2, ClockTypes
<1> HIDE DEF c
<1>4. clk.next \in FreeIds(clk, res)
  <2>1. Head(p) = p[1] /\ 1 \in DOMAIN p /\ ts[Head(p)].id = clk.next
    BY PopAccounted
  <2>2. clk.next \in IdsOf(p, ts)
    BY <2>1 DEF IdsOf
  <2> QED BY <2>2 DEF Accounted, FreeIds
<1>5. \A j \in FreeIds(clk, res) : clk.next <= j
  BY <1>1 DEF FreeIds
<1>6. ASSUME NEW x \in FreeIds(c, res) PROVE x \in FreeIds(clk, res) /\ x # clk.next
  <2>1. x \in Int /\ c.next <= x /\ x <= res - 1 /\ x \notin c.cancelled
    BY <1>3 DEF FreeIds
  <2>2. x \notin clk.cancelled
    BY <1>2, <1>3, <2>1
  <2> QED BY <1>1, <1>2, <1>3, <2>1, <2>2 DEF FreeIds
<1>7. ASSUME NEW x \in FreeIds(clk, res), x # clk.next PROVE x \in FreeIds(c, res)
  <2>1. x \in Int /\ clk.next < x /\ x <= res - 1 /\ x \notin clk.cancelled
    BY <1>1, <1>7 DEF FreeIds
  <2>2. ~(x < c.next)
    BY <1>1, <1>2, <1>3, <2>1
  <2> QED BY <1>2, <1>3, <2>1, <2>2 DEF FreeIds
<1> QED BY <1>4, <1>5, <1>6, <1>7 DEF c

\* Without leases and before the disposal the pump serves the queue.
LEMMA PumpStep ==
  ASSUME IdsInv', FiniteClock(clock), reserved' \in Nat,
         NEW p \in Seq(Turns), NEW ts \in TurnMap, NEW rq,
         Accounted(p, ts, clock, reserved'), ClockFits(clock, reserved'),
         leases = 0 /\ ~disposing, PumpTurns(p, ts, rq),
         active' # None => turn'[active'].id = clock.next
  PROVE  Abstract!Serve(FreeIds(clock, reserved'))
<1> DEFINE ids == FreeIds(clock, reserved')
<1>1. ids = IdsOf(p, ts)
  BY DEF Accounted, FreeIds
<1>2. ids \in SUBSET Nat
  BY <1>1, IdTypes DEF IdsOf
<1>3. CASE p = <<>>
  <2>1. ids = {}
    BY <1>1, <1>3 DEF IdsOf
  <2>2. pending' = <<>> /\ active' = None
    BY <1>3 DEF PumpTurns
  <2>3. QueuedIds' = {}
    BY <2>2 DEF QueuedIds
  <2> QED BY <2>1, <2>2, <2>3 DEF Abstract!Serve
<1>4. CASE p # <<>>
  <2>1. clock' = PromptTurn(clock) /\ active' = Head(p)
    BY <1>4 DEF PumpTurns, StartTurn
  <2>2. active' # None
    BY <1>4, <2>1, TurnsAreRequests
  <2>3. /\ FreeIds(clock', reserved') = ids \ {clock.next}
        /\ clock.next \in ids /\ \A j \in ids : clock.next <= j
    BY <1>4, <2>1, TailIds
  <2>4. Abstract!Least(ids) = clock.next /\ ids # {}
    BY <1>2, <2>3, LeastIs
  <2>5. QueuedIds' = ids \ {clock.next}
    BY <2>3, QueuedFree
  <2> HIDE DEF ids
  <2>6. Abstract!Serve(ids)
    BY <2>2, <2>4, <2>5 DEF Abstract!Serve
  <2> QED BY <2>6 DEF ids
<1> QED BY <1>3, <1>4

\* What the loop is while a request is admitted.
Admits == PromisesInv /\ IdsInv' /\ StartsRight /\ leases = 0 /\ ~disposing

\* A turn that is created takes the next id, and runs at once if none does.
LEMMA CreateStep ==
  ASSUME Admits, NEW r \in Turns, NeverCreated(turn, r), NEW rq, CreateAndQueueTurn(r, rq)
  PROVE  Abstract!Next
<1> DEFINE id    == LargerOf(clock.next, reserved)
           own   == EnqueueTail(EmptyQueue, r)
           queue == [drivers |-> own.drivers \o standalone.drivers,
                     merges  |-> own.merges \o standalone.merges]
           job   == [id |-> id, state |-> "queued", aborted |-> FALSE, queue |-> queue]
           ts    == [turn EXCEPT ![r] = job]
           rq1   == AssignSteps(rq, {r} \cup StandaloneMoved(rq), r)
           p     == Append(pending, r)
<1>1. /\ FiniteClock(clock) /\ clock.next \in Nat /\ clock.cancelled \in SUBSET Nat
      /\ reserved \in Nat /\ turn \in TurnMap /\ pending \in Seq(Turns)
      /\ active \in Turns \cup {None} /\ standalone \in Queue
      /\ Accounted(pending, turn, clock, reserved) /\ ClockFits(clock, reserved)
      /\ \A t \in Entries(pending) : ~NeverCreated(turn, t)
      /\ IdsInv
  BY ClockTypes DEF Admits, PromisesInv, IdsInv, IdsOK, TypeInv, TurnsOK, RunOK, AdmissionOK
<1>2. /\ reserved' = id + 1
      /\ IF active = None
         THEN PumpTurns(p, ts, rq1)
         ELSE UNCHANGED <<active, clock>>
  BY DEF CreateAndQueueTurn
<1>3. id = reserved
  BY <1>1 DEF LargerOf, ClockFits
<1>4. own \in Queue
  BY TurnsAreRequests, QueueTypes
<1> HIDE DEF own
<1>5. queue \in Queue
  BY <1>1, <1>4 DEF Queue
<1> HIDE DEF queue
<1>6. job \in Job /\ job.id = LargerOf(clock.next, reserved)
  BY <1>1, <1>3, <1>5 DEF Job
<1> HIDE DEF job, id
<1>7. ts \in TurnMap /\ p \in Seq(Turns)
  BY <1>1, <1>6 DEF TurnMap
<1>8. Accounted(p, ts, clock, reserved') /\ ClockFits(clock, reserved')
  <2>1. job.id = id
    BY <1>6 DEF id
  <2>2. r \notin Entries(pending)
    BY <1>1
  <2>3. Accounted(p, ts, clock, job.id + 1) /\ ClockFits(clock, job.id + 1)
    BY <1>1, <1>6, <2>2, AppendAccounted
  <2> QED BY <1>2, <2>1, <2>3
<1> HIDE DEF ts, p, rq1
<1>9. reserved' = reserved + 1 /\ reserved' \in Nat
  BY <1>1, <1>2, <1>3
<1>10. FreeIds(clock, reserved') = QueuedIds \cup {reserved}
  <2>1. QueuedIds = FreeIds(clock, reserved)
    BY <1>1, QueuedFree
  <2>2. \A x \in clock.cancelled : x <= reserved - 1
    BY <1>1 DEF Accounted
  <2> QED BY <1>1, <1>9, <2>1, <2>2 DEF FreeIds, ClockFits
<1>11. CASE active = None
  <2>1. Abstract!Serve(FreeIds(clock, reserved'))
    BY <1>1, <1>2, <1>7, <1>8, <1>9, <1>11, PumpStep DEF Admits, StartsRight
  <2> QED BY <1>9, <1>10, <1>11, <2>1 DEF Abstract!Next, Abstract!Submit
<1>12. CASE active # None
  <2>1. /\ active' = active /\ clock' = clock /\ turn'[active].id = turn[active].id
        /\ turn[active].id \in Nat
    BY <1>1, <1>2, <1>12, IdTypes DEF Admits, StartsRight
  <2>2. turn[active].id # None
    BY <2>1, RequestsAssumption
  <2>3. QueuedIds' = QueuedIds \cup {reserved}
    BY <1>10, <2>1, QueuedFree DEF Admits
  <2> QED BY <1>9, <1>12, <2>1, <2>2, <2>3 DEF Abstract!Next, Abstract!Submit
<1> QED BY <1>11, <1>12

\* Admission creates a turn or leaves the turns alone.
LEMMA AdmitStep ==
  ASSUME Admits, NEW r \in Requests, r \in Turns => NeverCreated(turn, r), NEW rq, Admit(r, rq)
  PROVE  Abstract!Next
<1>1. CASE r \in Turns /\ CreateAndQueueTurn(r, rq)
  BY <1>1, CreateStep
<1>2. CASE UNCHANGED <<active, clock, reserved>>
  BY <1>2, UnseenStep DEF Admits, PromisesInv
<1> QED BY <1>1, <1>2 DEF Admit, Turns, AssignToActive, EnqueueStandalone, turnVars

\* Every action is a step of TurnQueue.
LEMMA EnqueueStep ==
  ASSUME PromisesInv, IdsInv', StartsRight, NEW r \in Requests, Enqueue(r)
  PROVE  Abstract!Next
<1> DEFINE rq == [request EXCEPT ![r].state = "pending", ![r].receipt = "waiting"]
<1>1. /\ request[r].state = "new" /\ ~disposing
      /\ \/ UNCHANGED turnVars
         \/ leases = 0 /\ Admit(r, rq)
  BY DEF Enqueue
<1>2. r \in Turns => NeverCreated(turn, r)
  BY <1>1 DEF PromisesInv, IdsInv, FreshOK
<1> HIDE DEF rq
<1>3. CASE leases = 0 /\ Admit(r, rq)
  BY <1>1, <1>2, <1>3, AdmitStep DEF Admits
<1>4. CASE UNCHANGED turnVars
  BY <1>4, UnseenStep DEF PromisesInv, turnVars
<1> QED BY <1>1, <1>3, <1>4

\* A held request is replayed only without leases, and never after the disposal.
LEMMA ReplayStep ==
  ASSUME PromisesInv, IdsInv', StartsRight, Replay
  PROVE  Abstract!Next
<1> DEFINE r == Head(replaying)
<1>1. /\ replaying # <<>>
      /\ \/ Admit(r, request)
         \/ UNCHANGED turnVars
  BY DEF Replay
<1>2. leases = 0 /\ ~disposing
  BY <1>1 DEF PromisesInv, Admitting
<1>3. /\ replaying \in Seq(Requests) /\ Entries(replaying) \subseteq Requests
      /\ r \in Entries(replaying)
  BY <1>1, InvFacts, EntriesType, TailEntries
<1>4. r \in Requests /\ (r \in Turns => NeverCreated(turn, r))
  BY <1>3 DEF PromisesInv, IdsInv, FreshOK
<1> HIDE DEF r
<1>5. CASE Admit(r, request)
  BY <1>2, <1>4, <1>5, AdmitStep DEF Admits
<1>6. CASE UNCHANGED turnVars
  BY <1>6, UnseenStep DEF PromisesInv, turnVars
<1> QED BY <1>1, <1>5, <1>6

\* A queued turn that is cancelled leaves, and the ids of the others stay.
LEMMA CancelQueuedTurnStep ==
  ASSUME PromisesInv, StartsRight, NEW i \in DOMAIN pending, CancelQueuedTurn(i)
  PROVE  Abstract!Next
<1>1. /\ pending' = RemoveFrom(pending, i) /\ turn' = CancelledJobs({pending[i]})
      /\ UNCHANGED <<active, reserved>>
  BY DEF CancelQueuedTurn
<1>2. pending \in Seq(Turns) /\ turn \in TurnMap
  BY InvFacts
<1>3. \A k \in DOMAIN pending' : \E j \in DOMAIN pending : pending'[k] = pending[j]
  BY <1>1, <1>2, RemoveFromFacts
<1>4. \A t \in Turns : turn'[t].id = turn[t].id
  BY <1>1, <1>2, CancelledJobsIds
<1>5. \A j \in DOMAIN pending : pending[j] \in Turns
  BY <1>2
<1>6. QueuedIds' \subseteq QueuedIds
  BY <1>3, <1>4, <1>5 DEF QueuedIds
<1> QED BY <1>1, <1>6, WithdrawnStep

\* The disposal withdraws them all.
LEMMA DisposeStep ==
  ASSUME StartsRight, Dispose
  PROVE  Abstract!Next
<1>1. pending' = <<>> /\ UNCHANGED <<active, reserved>>
  BY DEF Dispose
<1>2. QueuedIds' = {}
  BY <1>1 DEF QueuedIds
<1> QED BY <1>1, <1>2, WithdrawnStep

\* The turn.cancel of the active turn names an id the clock has passed.
LEMMA CancelActiveTurnStep ==
  ASSUME PromisesInv, IdsInv', StartsRight, CancelActiveTurn
  PROVE  Abstract!Next
<1>1. active # None /\ clock' = CancelTurn(clock, turn[active].id) /\ UNCHANGED <<active, reserved>>
  BY DEF CancelActiveTurn
<1>2. clock' = clock
  BY <1>1 DEF CancelTurn, PromisesInv, IdsInv, IdsOK
<1> QED BY <1>1, <1>2, UnseenStep DEF PromisesInv

\* The end of the active turn starts the first of the queue: a queue there is
\* only without leases and before the disposal.
LEMMA ReleaseActiveTurnStep ==
  ASSUME PromisesInv, IdsInv', StartsRight, ReleaseActiveTurn
  PROVE  Abstract!Next
<1> DEFINE rq == CancelSteps(request, StepsOf(request, active))
           ts == [turn EXCEPT ![active].state = run.result]
<1>1. active # None /\ PumpTurns(pending, ts, rq) /\ reserved' = reserved
  BY DEF ReleaseActiveTurn, At
<1>2. /\ turn \in TurnMap /\ active \in Turns /\ run \in Run /\ pending \in Seq(Turns)
      /\ Entries(pending) \subseteq Turns /\ Admitting /\ IdsInv
  BY <1>1, InvFacts DEF PromisesInv
<1>3. FiniteClock(clock) /\ reserved \in Nat
  BY <1>2 DEF IdsInv, TypeInv, TurnsOK
<1>4. /\ ts \in TurnMap
      /\ \A t \in Turns : ts[t].id = turn[t].id
  BY <1>2 DEF TurnMap, Job, Run
<1> HIDE DEF rq, ts
<1>5. Accounted(pending, ts, clock, reserved') /\ ClockFits(clock, reserved')
  BY <1>1, <1>2, <1>4, AccountedSame DEF IdsInv, IdsOK
<1>6. active' # None => turn'[active'].id = clock.next
  <2>1. active' # None => pending # <<>> /\ active' = Head(pending)
    BY <1>1 DEF PumpTurns, StartTurn
  <2>2. active' # active
    BY <1>1, <1>2, <2>1, ActiveNotQueued, TailEntries
  <2> QED BY <2>2 DEF StartsRight
<1>7. Abstract!Serve(QueuedIds)
  <2>1. leases = 0
    <3>1. leases \in Nat
      BY <1>2 DEF IdsInv, TypeInv, AdmissionOK
    <3> QED BY <1>1, <1>2, <3>1 DEF Admitting
  <2>2. CASE ~disposing
    <3>1. Abstract!Serve(FreeIds(clock, reserved'))
      BY <1>1, <1>2, <1>3, <1>4, <1>5, <1>6, <2>1, <2>2, PumpStep
    <3> QED BY <1>1, <1>2, <3>1, QueuedFree
  <2>3. CASE disposing
    <3>1. pending = <<>>
      BY <1>2, <2>3 DEF Admitting
    <3>2. pending' = <<>> /\ active' = None
      BY <1>1, <3>1 DEF PumpTurns
    <3>3. QueuedIds = {} /\ QueuedIds' = {}
      BY <3>1, <3>2 DEF QueuedIds
    <3> QED BY <3>2, <3>3 DEF Abstract!Serve
  <2> QED BY <2>2, <2>3
<1>8. turn[active].id # None
  BY <1>2, IdTypes, RequestsAssumption
<1> QED BY <1>1, <1>7, <1>8 DEF Abstract!Next, Abstract!Finish

\* The steps of a run, and what clients do apart from turns, change no turn.
LEMMA NextStep == PromisesInv /\ [Next]_vars => Abstract!Next
<1> SUFFICES ASSUME PromisesInv, [Next]_vars
             PROVE  Abstract!Next
  OBVIOUS
<1>1. IdsInv /\ IdsInv' /\ StartsRight
  BY NextKeepsIds DEF PromisesInv
<1>2. CASE UNCHANGED <<active, clock, reserved>>
  BY <1>1, <1>2, UnseenStep
<1>3. CASE Client
  <2>1. CASE \E r \in Requests \ Continuations : Enqueue(r)
    BY <1>1, <2>1, EnqueueStep
  <2>2. CASE \E i \in DOMAIN pending : CancelQueuedTurn(i)
    BY <1>1, <2>2, CancelQueuedTurnStep
  <2>3. CASE CancelActiveTurn \/ Dispose
    BY <1>1, <2>3, CancelActiveTurnStep, DisposeStep
  <2>4. CASE \/ \E r \in Requests : AbortReceipt(r) \/ CancelStep(r)
             \/ AcquireQuiescence
             \/ Settled
    BY <1>2, <2>4 DEF AbortReceipt, CancelStep, AcquireQuiescence, Settled, turnVars
  <2> QED BY <1>3, <2>1, <2>2, <2>3, <2>4 DEF Client
<1>4. CASE RunStep
  BY <1>1, <1>2, <1>4, ReleaseActiveTurnStep
     DEF RunStep, StepResponds, StepFails, StepAborts, BackoffEnds, Resume, StepEnds, RunOnly
<1>5. CASE ReleaseQuiescence
  BY <1>2, <1>5 DEF ReleaseQuiescence, turnVars
<1>6. CASE Replay
  BY <1>1, <1>6, ReplayStep
<1>7. CASE UNCHANGED vars
  BY <1>2, <1>7 DEF vars, turnVars
<1> QED BY <1>3, <1>4, <1>5, <1>6, <1>7 DEF Next

\* A new loop is a queue of turns without any.
LEMMA InitialQueue == Init => Abstract!Init
BY DEF Init, QueuedIds, Abstract!Init

\* The loop implements TurnQueue: whatever becomes of their steps, through
\* leases, replays, cancellations and the disposal, turns get their ids one
\* after the other and run one at a time, always the waiting one with the
\* smallest id next, and none waits while none runs.  (createAndQueueTurn,
\* pumpTurns, cancelQueuedTurn, releaseActiveTurn, dispose)
THEOREM TurnQueueImplemented == Spec => TurnQueueRefinement
<1>1. PromisesInv /\ [Next]_vars => [Abstract!Next]_(Abstract!vars)
  BY NextStep
<1> QED BY <1>1, InitialQueue, PromisesInvHolds, PTL DEF Spec, TurnQueueRefinement, Abstract!Spec
================================================================================

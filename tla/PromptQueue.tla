------------------------------ MODULE PromptQueue ------------------------------
(***************************************************************************)
(* The prompt scheduler of an agent, AgentPromptService in                 *)
(* packages/agent-core-v2/src/agent/prompt/promptService.ts.               *)
(*                                                                         *)
(* Prompts wait in a queue.  One at a time is launched: the submit hook    *)
(* may block it, the loop gives it a turn, and it is active until the turn *)
(* has a result.  Queued prompts may be steered into the active turn, and  *)
(* nothing is launched between turns while the context is being compacted. *)
(*                                                                         *)
(* The agent loop (module AgentLoop) is seen from here as the queue of its *)
(* turns, the first of them active; while it is held by quiescence it      *)
(* answers late.  fullCompactionService.ts is seen as a compaction that    *)
(* begins and ends at any moment.                                          *)
(***************************************************************************)
EXTENDS Naturals, Sequences, Filters

CONSTANTS
    Prompts,
    None,
    Other,           \* a turn that no prompt has launched: inject, retry, goals
    MaxOthers,       \* bound: such turns
    MaxCompactions   \* bound: compactions

Results == {"completed", "failed", "cancelled"}

\* A prompt in startNext: in the submit hook, waiting for the loop, with its turn.
Launch == [prompt : Prompts, at : {"hook", "assign", "assigned"}]

\* None stands for undefined, which is no prompt, no launch and no result.
ASSUME PromptQueueAssumption ==
    /\ None \notin Prompts \cup Launch \cup Results \cup {"blocked"}
    /\ Other \notin Prompts
    /\ {MaxOthers, MaxCompactions} \subseteq Nat

VARIABLES
    pending,     \* the queue
    launch,      \* the prompt in startNext and where it waits; `launching` is launch # None
    active,      \* the prompt whose turn is taken or under way
    steers,      \* calls of steer that wait for the loop
    steered,     \* prompts that end with the active one
    state,       \* PromptState, "new" before enqueue
    completion,  \* what completionDeferred was resolved with
    adrift,      \* prompts that a failed steer has taken out of the queue
    turns,       \* the loop's turns
    outcome,     \* results of turns
    aborted,     \* prompts whose turn was cancelled
    compacting,  \* fullCompaction.compacting # null
    finishing,   \* a compaction is over, onDidFinishCompaction has not fired yet
    runaway,     \* startNext calls itself until the stack is exhausted
    others, compactions

promptVars == <<pending, launch, active, steers, steered, state, completion, adrift>>
loopVars == <<turns, outcome, aborted, others>>
compactionVars == <<compacting, finishing, compactions>>
vars == <<promptVars, loopVars, compactionVars, runaway>>

\* startNext up to its first await, with the queue q, no prompt active and none
\* in launch.  During a compaction between turns it puts the prompt back and
\* returns; its finally block calls it again, with everything as before.
StartNext(q) ==
    IF q # <<>> /\ compacting /\ turns = <<>>
    THEN runaway' = TRUE /\ pending' = q /\ launch' = None
    ELSE /\ pending' = IF q = <<>> THEN q ELSE Tail(q)
         /\ launch' = IF q = <<>> THEN None ELSE [prompt |-> Head(q), at |-> "hook"]
         /\ UNCHANGED runaway

\* Bug: a prompt in launch does not count.
EnqueueWhileLaunching(p) ==
    /\ state[p] = "new"
    /\ state' = [state EXCEPT ![p] = "pending"]
    /\ IF active = None /\ ~(compacting /\ turns = <<>>)
       THEN StartNext(Append(pending, p))
       ELSE pending' = Append(pending, p) /\ UNCHANGED <<launch, runaway>>
    /\ UNCHANGED <<active, steers, steered, completion, adrift, loopVars, compactionVars>>

Enqueue(p) ==
    /\ state[p] = "new"
    /\ state' = [state EXCEPT ![p] = "pending"]
    /\ IF active = None /\ launch = None /\ ~(compacting /\ turns = <<>>)
       THEN StartNext(Append(pending, p))
       ELSE pending' = Append(pending, p) /\ UNCHANGED <<launch, runaway>>
    /\ UNCHANGED <<active, steers, steered, completion, adrift, loopVars, compactionVars>>

LaunchAt(where) == launch # None /\ launch.at = where

\* The submit hook lets the prompt pass and the loop is asked for a turn.
HookPasses ==
    /\ LaunchAt("hook")
    /\ launch' = [launch EXCEPT !.at = "assign"]
    /\ UNCHANGED <<pending, active, steers, steered, state, completion, adrift, loopVars, compactionVars, runaway>>

\* startNext ends without a turn and goes on with the next prompt: the hook
\* blocked this one, or the hook or the loop threw.
GiveUpLaunch(result) ==
    /\ state' = [state EXCEPT ![launch.prompt] = result]
    /\ completion' = [completion EXCEPT ![launch.prompt] = result]
    /\ StartNext(pending)
    /\ UNCHANGED <<active, steers, steered, adrift, loopVars, compactionVars>>

HookBlocks == LaunchAt("hook") /\ GiveUpLaunch("blocked")

LaunchFails == (LaunchAt("hook") \/ LaunchAt("assign")) /\ GiveUpLaunch("failed")

\* The loop creates the turn of a prompt and resolves the assignment.
TurnAssigned ==
    /\ LaunchAt("assign")
    /\ turns' = Append(turns, launch.prompt)
    /\ launch' = [launch EXCEPT !.at = "assigned"]
    /\ UNCHANGED <<pending, active, steers, steered, state, completion, adrift,
                   outcome, aborted, others, compactionVars, runaway>>

\* startNext goes on: the prompt is active.
Launched ==
    /\ LaunchAt("assigned")
    /\ active' = launch.prompt
    /\ state' = [state EXCEPT ![launch.prompt] = "running"]
    /\ launch' = None
    /\ UNCHANGED <<pending, steers, steered, completion, adrift, loopVars, compactionVars, runaway>>

OtherTurn ==
    /\ others < MaxOthers
    /\ others' = others + 1
    /\ turns' = Append(turns, Other)
    /\ UNCHANGED <<promptVars, outcome, aborted, compactionVars, runaway>>

\* The active turn of the loop ends; a cancelled one ends as cancelled.
TurnEnds(result) ==
    /\ turns # <<>>
    /\ turns[1] \in aborted => result = "cancelled"
    /\ turns' = Tail(turns)
    /\ outcome' = IF turns[1] = Other THEN outcome ELSE [outcome EXCEPT ![turns[1]] = result]
    /\ UNCHANGED <<promptVars, aborted, others, compactionVars, runaway>>

\* Bug: the prompts steered into the turn are forgotten.
SettleAlone(p) ==
    /\ outcome[p] # None /\ state[p] = "running" /\ active = p
    /\ active' = None
    /\ state' = [state EXCEPT ![p] = outcome[p]]
    /\ completion' = [completion EXCEPT ![p] = outcome[p]]
    /\ steered' = [steered EXCEPT ![p] = {}]
    /\ StartNext(pending)
    /\ UNCHANGED <<steers, adrift, loopVars, compactionVars>>

\* Bug: the prompts steered into the turn count as completed.
SettleOthersCompleted(p) ==
    /\ outcome[p] # None /\ state[p] = "running" /\ active = p
    /\ active' = None
    /\ LET Ending(before) == [q \in Prompts |-> CASE q = p          -> outcome[p]
                                                 [] q \in steered[p] -> "completed"
                                                 [] OTHER           -> before[q]]
       IN  state' = Ending(state) /\ completion' = Ending(completion)
    /\ steered' = [steered EXCEPT ![p] = {}]
    /\ StartNext(pending)
    /\ UNCHANGED <<steers, adrift, loopVars, compactionVars>>

\* Bug: a prompt is settled before its turn has a result.
SettleEarly(p) ==
    /\ state[p] = "running" /\ active = p
    /\ active' = None
    /\ LET ending == {p} \cup steered[p]
       IN  /\ state' = [q \in Prompts |-> IF q \in ending THEN outcome[p] ELSE state[q]]
           /\ completion' = [q \in Prompts |-> IF q \in ending THEN outcome[p] ELSE completion[q]]
    /\ steered' = [steered EXCEPT ![p] = {}]
    /\ StartNext(pending)
    /\ UNCHANGED <<steers, adrift, loopVars, compactionVars>>

\* settle, once the result of the turn is known.
Settle(p) ==
    /\ outcome[p] # None /\ state[p] = "running" /\ active = p
    /\ active' = None
    /\ LET ending == {p} \cup steered[p]
       IN  /\ state' = [q \in Prompts |-> IF q \in ending THEN outcome[p] ELSE state[q]]
           /\ completion' = [q \in Prompts |-> IF q \in ending THEN outcome[p] ELSE completion[q]]
    /\ steered' = [steered EXCEPT ![p] = {}]
    /\ StartNext(pending)
    /\ UNCHANGED <<steers, adrift, loopVars, compactionVars>>

\* steer, up to the await: the prompts leave the queue.
Steer(chosen) ==
    /\ active # None
    /\ chosen # {} /\ chosen \subseteq Elements(pending)
    /\ pending' = Without(pending, chosen)
    /\ steers' = steers \cup {[prompts |-> chosen, at |-> "asked"]}
    /\ UNCHANGED <<launch, active, steered, state, completion, adrift, loopVars, compactionVars, runaway>>

\* The loop assigns the steer to its active turn, or rejects it for want of one.
SteerAssigned(s) ==
    /\ s.at = "asked" /\ turns # <<>>
    /\ steers' = (steers \ {s}) \cup {[s EXCEPT !.at = "assigned"]}
    /\ UNCHANGED <<pending, launch, active, steered, state, completion, adrift, loopVars, compactionVars, runaway>>

SteerRejected(s) ==
    /\ s.at = "asked" /\ turns = <<>>
    /\ steers' = steers \ {s}
    /\ adrift' = adrift \cup s.prompts
    /\ UNCHANGED <<pending, launch, active, steered, state, completion, loopVars, compactionVars, runaway>>

\* steer, after the await: the prompts go with whichever prompt is active by
\* then.  If none is, `this.active.id` throws.
SteerEnds(s) ==
    /\ s.at = "assigned"
    /\ steers' = steers \ {s}
    /\ state' = [p \in Prompts |-> IF p \in s.prompts THEN "steered" ELSE state[p]]
    /\ IF active = None
       THEN adrift' = adrift \cup s.prompts /\ UNCHANGED steered
       ELSE steered' = [steered EXCEPT ![active] = @ \cup s.prompts] /\ UNCHANGED adrift
    /\ UNCHANGED <<pending, launch, active, completion, loopVars, compactionVars, runaway>>

\* loop.cancel of the turn of the active prompt: a queued turn is dropped at
\* once, an active one ends as cancelled.
CancelTurnOf(p) ==
    /\ aborted' = aborted \cup {p}
    /\ IF turns # <<>> /\ turns[1] # p /\ p \in Elements(turns)
       THEN /\ turns' = Without(turns, {p})
            /\ outcome' = [outcome EXCEPT ![p] = "cancelled"]
       ELSE UNCHANGED <<turns, outcome>>

Cancelled(ps) ==
    /\ pending' = Without(pending, ps)
    /\ state' = [p \in Prompts |-> IF p \in ps THEN "cancelled" ELSE state[p]]
    /\ completion' = [p \in Prompts |-> IF p \in ps THEN "cancelled" ELSE completion[p]]

\* abort of a prompt that is active, or pending.
AbortActive ==
    /\ active \notin aborted \cup {None}
    /\ CancelTurnOf(active)
    /\ UNCHANGED <<promptVars, others, compactionVars, runaway>>

AbortPending(p) ==
    /\ p \in Elements(pending)
    /\ Cancelled({p})
    /\ UNCHANGED <<launch, active, steers, steered, adrift, loopVars, compactionVars, runaway>>

Clear ==
    /\ pending # <<>>
    /\ Cancelled(Elements(pending))
    /\ IF active = None THEN UNCHANGED <<turns, outcome, aborted>> ELSE CancelTurnOf(active)
    /\ UNCHANGED <<launch, active, steers, steered, adrift, others, compactionVars, runaway>>

CompactionBegins ==
    /\ ~compacting /\ compactions < MaxCompactions
    /\ compacting' = TRUE /\ compactions' = compactions + 1
    /\ UNCHANGED <<promptVars, loopVars, finishing, runaway>>

CompactionEnds ==
    /\ compacting /\ ~finishing
    /\ compacting' = FALSE /\ finishing' = TRUE
    /\ UNCHANGED <<promptVars, loopVars, compactions, runaway>>

\* Bug: whoever waits for the end of the compaction is not told.
DidFinishUnheard ==
    /\ finishing
    /\ finishing' = FALSE
    /\ UNCHANGED <<promptVars, loopVars, compacting, compactions, runaway>>

\* onDidFinishCompaction fires.
DidFinishCompaction ==
    /\ finishing
    /\ finishing' = FALSE
    /\ IF active = None /\ launch = None
       THEN StartNext(pending)
       ELSE UNCHANGED <<pending, launch, runaway>>
    /\ UNCHANGED <<active, steers, steered, state, completion, adrift, loopVars, compacting, compactions>>

Init ==
    /\ pending = <<>> /\ launch = None /\ active = None
    /\ steers = {} /\ steered = [p \in Prompts |-> {}]
    /\ state = [p \in Prompts |-> "new"] /\ completion = [p \in Prompts |-> None]
    /\ adrift = {}
    /\ turns = <<>> /\ outcome = [p \in Prompts |-> None] /\ aborted = {} /\ others = 0
    /\ compacting = FALSE /\ finishing = FALSE /\ compactions = 0
    /\ runaway = FALSE

\* What ends by itself: hooks, the loop's answers and turns, compactions.
Proceed ==
    \/ HookPasses \/ HookBlocks \/ LaunchFails \/ TurnAssigned \/ Launched
    \/ \E result \in Results : TurnEnds(result)
    \/ \E p \in Prompts : Settle(p)
    \/ \E s \in steers : SteerAssigned(s) \/ SteerRejected(s) \/ SteerEnds(s)
    \/ CompactionEnds \/ DidFinishCompaction

\* What an exhausted stack leaves behind is not modelled.
Next ==
    /\ ~runaway
    /\ \/ Proceed
       \/ \E p \in Prompts : Enqueue(p) \/ AbortPending(p)
       \/ \E chosen \in SUBSET Prompts : Steer(chosen)
       \/ AbortActive \/ Clear
       \/ OtherTurn \/ CompactionBegins

Fairness == WF_vars(~runaway /\ Proceed)

Spec == Init /\ [][Next]_vars /\ Fairness
--------------------------------------------------------------------------------
Riding(p) == \E q \in Prompts : p \in steered[q]

Steering(p) == \E s \in steers : p \in s.prompts

\* The places where prompt p is.
Places(p) ==
    {place \in {"queue", "launch", "active", "steer", "company", "adrift"} :
        CASE place = "queue"   -> p \in Elements(pending)
          [] place = "launch"  -> launch # None /\ launch.prompt = p
          [] place = "active"  -> active = p
          [] place = "steer"   -> Steering(p)
          [] place = "company" -> Riding(p)
          [] place = "adrift"  -> p \in adrift}

TypeOK ==
    /\ pending \in Seq(Prompts) /\ Distinct(pending)
    /\ launch \in Launch \cup {None}
    /\ active \in Prompts \cup {None}
    /\ steers \subseteq [prompts : SUBSET Prompts, at : {"asked", "assigned"}]
    /\ steered \in [Prompts -> SUBSET Prompts]
    /\ state \in [Prompts -> Results \cup {"new", "pending", "running", "steered", "blocked"}]
    /\ completion \in [Prompts -> Results \cup {"blocked", None}]
    /\ turns \in Seq(Prompts \cup {Other})
    /\ outcome \in [Prompts -> Results \cup {None}]
    /\ adrift \subseteq Prompts /\ aborted \subseteq Prompts
    /\ {compacting, finishing, runaway} \subseteq BOOLEAN

\* A prompt that was accepted and has no completion yet is in exactly one place
\* from which it can get one: the queue, the launch, the active slot, a steer, or
\* the company of the active prompt.  Only a steer that failed loses prompts.  A
\* prompt with a completion is nowhere.  (enqueue, startNext, steer, settle, abort)
InOnePlace ==
    \A p \in Prompts :
        IF state[p] # "new" /\ completion[p] = None
        THEN \E place \in Places(p) : Places(p) = {place}
        ELSE Places(p) = {}

\* The loop has at most one turn of a prompt, and prompts are handed over one at
\* a time: while one is active, or has its turn and is about to be, no other is
\* being launched.  (enqueue, startNext: active, launching)
OnePromptAtATime ==
    /\ active # None => launch = None
    /\ \A p \in Prompts :
           p \in Elements(turns) => active = p \/ (launch # None /\ launch.prompt = p /\ launch.at = "assigned")
    /\ \A i, j \in DOMAIN turns : turns[i] \in Prompts /\ turns[j] \in Prompts => i = j

\* What a handle reports agrees with its completion, and a prompt that rides with
\* another one ends as it ended, in the same step.  (settle, steer)
SteeredEndTogether ==
    [][\A p, q \in Prompts :
           q \in steered[p] /\ completion'[p] # completion[p]
               => completion'[q] = completion'[p] /\ state'[q] = completion'[p]]_vars

\* Every prompt ends, unless a failed steer has lost it or startNext never
\* returned: no order of turns, hooks, compactions and aborts leaves the queue
\* standing.  (startNext, settle, onDidFinishCompaction)
EveryPromptSettles ==
    \A p \in Prompts :
        state[p] = "pending" ~> (completion[p] # None \/ p \in adrift \/ runaway)

\* promptService.ts:4-6: the service "serializes user prompts through an active
\* slot and FIFO" and "settles lifecycle handles": startNext returns, and leaves a
\* prompt that must wait for a compaction in the queue.
StartNextReturns == ~runaway
================================================================================

-------------------------------- MODULE TurnOps --------------------------------
(***************************************************************************)
(* The turn clock of agent-core-v2: the TurnModel of                       *)
(* packages/agent-core-v2/src/agent/loop/turnOps.ts.                       *)
(*                                                                         *)
(* A clock is [next, cancelled]: the id the next started turn gets, and    *)
(* the ids above it that belong to queued turns cancelled before they      *)
(* could start.  The operations of the model (turn.prompt, turn.cancel)    *)
(* are persisted and replayed, and a turn.prompt record carries no turn    *)
(* id: the id it stands for is whatever the clock says when it is applied. *)
(* The model also advances when it meets a loop event of a turn it does    *)
(* not know (a log written by an older version); no step of the loop       *)
(* modelled here produces one, so that reducer is left out.                *)
(*                                                                         *)
(* A definition under "Bug:" is the next one with a mistake in it.         *)
(***************************************************************************)
EXTENDS Integers, FiniteSets

Clock == [next : Nat, cancelled : SUBSET Nat]

InitClock == [next |-> 0, cancelled |-> {}]

\* advanceTurnClock: move to n, then over every id already cancelled.  The
\* while loop stops at the first id from n on that is not cancelled.
FirstUncancelled(n, cancelled) ==
    CHOOSE k \in n .. (n + Cardinality(cancelled)) :
        k \notin cancelled /\ n .. (k - 1) \subseteq cancelled

AdvanceTurnClock(n, cancelled) ==
    LET next == FirstUncancelled(n, cancelled)
    IN  [next |-> next, cancelled |-> {k \in cancelled : k > next}]

\* Bug: the id is not used up.
PromptTurnInPlace(clock) == AdvanceTurnClock(clock.next, clock.cancelled)

\* turn.prompt: a turn starts and takes the id clock.next.
PromptTurn(clock) == AdvanceTurnClock(clock.next + 1, clock.cancelled)

\* Bug: a cancelled reservation is forgotten.
CancelTurnForgotten(clock, id) == clock

\* turn.cancel with a target: an id the clock has passed (the active turn's,
\* or one skipped already) changes nothing.
CancelTurn(clock, id) ==
    IF id < clock.next THEN clock
    ELSE AdvanceTurnClock(clock.next, clock.cancelled \cup {id})

\* The same for several ids at once, as dispose() does for the whole queue.
CancelTurns(clock, ids) ==
    AdvanceTurnClock(clock.next, clock.cancelled \cup {k \in ids : k >= clock.next})
================================================================================

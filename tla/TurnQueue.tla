------------------------------- MODULE TurnQueue -------------------------------
(***************************************************************************)
(* What the agent loop promises of its turns, whatever becomes of their    *)
(* steps: ids are handed out one after the other, one turn runs at a time, *)
(* the waiting turn with the smallest id is next, a turn that has been     *)
(* withdrawn never runs, and no turn waits while none runs.  AgentLoop     *)
(* implements this specification (AgentLoop!TurnQueueRefinement).          *)
(***************************************************************************)
EXTENDS Naturals

CONSTANT NoTurn

VARIABLES issued, queued, running

vars == <<issued, queued, running>>

Least(ids) == CHOOSE k \in ids : \A j \in ids : k <= j

\* Run the first of ids, if there is one.
Serve(ids) ==
    IF ids = {}
    THEN running' = NoTurn /\ queued' = {}
    ELSE running' = Least(ids) /\ queued' = ids \ {Least(ids)}

Submit ==
    /\ issued' = issued + 1
    /\ IF running = NoTurn
       THEN Serve(queued \cup {issued})
       ELSE queued' = queued \cup {issued} /\ UNCHANGED running

Finish ==
    /\ running # NoTurn
    /\ Serve(queued)
    /\ UNCHANGED issued

Withdraw(ids) ==
    /\ queued' = queued \ ids
    /\ UNCHANGED <<issued, running>>

Init == issued = 0 /\ queued = {} /\ running = NoTurn

Next == Submit \/ Finish \/ \E ids \in SUBSET queued : Withdraw(ids)

Spec == Init /\ [][Next]_vars
================================================================================

-------------------------------- MODULE TurnIds --------------------------------
(***************************************************************************)
(* Turn ids across restarts (loopService.ts, turnOps.ts).                  *)
(*                                                                         *)
(* An agent's turn clock is rebuilt from its wire log when the agent is    *)
(* restored; the ids reserved for queued turns live in memory only, and    *)
(* log records reach the disk some time after they are dispatched.  What a *)
(* crash leaves is the clock as of the last flush.  Steps, requests and    *)
(* quiescence (module AgentLoop) are left out: here a turn is its id.      *)
(***************************************************************************)
EXTENDS Integers, FiniteSets, TurnOps

CONSTANTS
    NoTurn,
    MaxTurnId,   \* bound: ids handed out
    MaxCrashes   \* bound: crashes

ASSUME TurnIdsAssumption ==
    NoTurn \notin Nat /\ MaxTurnId \in Nat /\ MaxCrashes \in Nat

VARIABLES
    clock,      \* the turn model in memory
    reserved,   \* nextReservedTurnId
    queued,     \* ids of pendingTurns, which stand in the order of their ids
    active,     \* id of activeTurnJob
    begun,      \* the ids that turn.prompt records in memory stand for
    durable,    \* [clock, begun] as of the last flush of the wire log
    crashes

vars == <<clock, reserved, queued, active, begun, durable, crashes>>

Least(ids) == CHOOSE k \in ids : \A j \in ids : k <= j

\* pumpTurns and startTurn, with the turns of ids queued and none active.
Pump(ids) ==
    IF ids = {}
    THEN active' = NoTurn /\ queued' = {} /\ UNCHANGED <<clock, begun>>
    ELSE /\ active' = Least(ids)
         /\ queued' = ids \ {Least(ids)}
         /\ clock' = PromptTurn(clock)
         /\ begun' = begun \cup {Least(ids)}

\* Bug: the ids of this process only, whatever the log knows.
NextReservedOnly == reserved

\* Bug: the last id, not the next.
LastTurnId == clock.next - 1

\* reserveTurnId.
NextTurnId == IF clock.next >= reserved THEN clock.next ELSE reserved

CreateTurn ==
    /\ NextTurnId <= MaxTurnId
    /\ reserved' = NextTurnId + 1
    /\ IF active = NoTurn
       THEN Pump(queued \cup {NextTurnId})
       ELSE queued' = queued \cup {NextTurnId} /\ UNCHANGED <<active, clock, begun>>
    /\ UNCHANGED <<durable, crashes>>

EndTurn ==
    /\ active # NoTurn
    /\ Pump(queued)
    /\ UNCHANGED <<reserved, durable, crashes>>

CancelQueuedTurn(id) ==
    /\ id \in queued
    /\ queued' = queued \ {id}
    /\ clock' = CancelTurn(clock, id)
    /\ UNCHANGED <<reserved, active, begun, durable, crashes>>

\* The append log writes out everything dispatched so far.
Flush ==
    /\ durable' = [clock |-> clock, begun |-> begun]
    /\ UNCHANGED <<clock, reserved, queued, active, begun, crashes>>

\* The process dies, and the agent is restored from its wire log.
Crash ==
    /\ crashes < MaxCrashes
    /\ crashes' = crashes + 1
    /\ clock' = durable.clock
    /\ begun' = durable.begun
    /\ reserved' = 0
    /\ queued' = {}
    /\ active' = NoTurn
    /\ UNCHANGED durable

Init ==
    /\ clock = InitClock
    /\ reserved = 0
    /\ queued = {}
    /\ active = NoTurn
    /\ begun = {}
    /\ durable = [clock |-> InitClock, begun |-> {}]
    /\ crashes = 0

Next ==
    \/ CreateTurn
    \/ EndTurn
    \/ \E id \in queued : CancelQueuedTurn(id)
    \/ Flush
    \/ Crash

Spec == Init /\ [][Next]_vars
--------------------------------------------------------------------------------
TypeOK ==
    /\ clock \in Clock /\ IsFiniteSet(clock.cancelled)
    /\ reserved \in Nat
    /\ queued \in SUBSET Nat
    /\ active \in Nat \cup {NoTurn}
    /\ begun \in SUBSET Nat
    /\ durable \in [clock : Clock, begun : SUBSET Nat]
    /\ IsFiniteSet(durable.clock.cancelled)
    /\ crashes \in Nat

\* The clock stays ahead of every id that was ever begun, in memory and on
\* disk, though turn.prompt records carry no id and a restored clock may skip
\* ids that queued turns hold: an id reserved from the clock is new.
\* (promptTurn, cancelTurn, restore)
ClockAhead ==
    /\ \A id \in begun : id < clock.next
    /\ \A id \in durable.begun : id < durable.clock.next

\* The ids in memory fit the clock: those from clock.next on that are reserved
\* belong to queued turns or to cancelled ones, and no queued turn holds the id
\* of one that began.  (reserveTurnId, cancelQueuedTurn, restore)
ReservedIdsAccounted ==
    /\ clock.next .. (reserved - 1) \subseteq queued \cup clock.cancelled
    /\ clock.next \notin clock.cancelled
    /\ queued \cap begun = {}
    /\ \A id \in queued : id < reserved

\* A turn never takes an id of a turn that the log already knows, before or
\* after any number of restarts: transcripts and events keyed by turn id are
\* not mixed up.  (reserveTurnId, startTurn, restore)
StartsAreFresh ==
    [][active' # active /\ active' # NoTurn => active' \notin begun]_vars

\* turnOps.ts:5-6: the model owns "the next available turn id, including
\* cancelled queued reservations": an id that was reserved and cancelled is
\* not reserved again.
CancelledIdsStayReserved ==
    [][((queued' \cup {active'}) \ (queued \cup {active, NoTurn})) \cap clock.cancelled = {}]_vars
================================================================================

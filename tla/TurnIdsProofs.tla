----------------------------- MODULE TurnIdsProofs -----------------------------
(***************************************************************************)
(* Turn ids across any number of crashes: the invariants of TurnIds, and   *)
(* that no turn takes an id of one that began.                             *)
(*                                                                         *)
(* The two invariants are not inductive alone: a crash puts the durable    *)
(* clock in the place of the one in memory, so it must be well formed too. *)
(***************************************************************************)
EXTENDS TurnIds, OperatorTheorems

DurableOK ==
    /\ FiniteClock(durable.clock)
    /\ durable.clock.next \notin durable.clock.cancelled

IInv == TypeOK /\ FiniteClock(clock) /\ DurableOK /\ ClockAhead /\ ReservedIdsAccounted

\* The least id of a non-empty set is in it, and below all the others.
LEMMA LeastFacts ==
  ASSUME NEW ids \in SUBSET Nat, ids # {}
  PROVE  Least(ids) \in ids /\ \A j \in ids : Least(ids) <= j
BY LeastExists DEF Least

\* The invariant holds of a new session.
LEMMA InitHolds == Init => IInv
<1> SUFFICES ASSUME Init PROVE IInv
  OBVIOUS
<1>1. FiniteClock(InitClock) /\ InitClock.next = 0 /\ InitClock.cancelled = {}
  BY FS_EmptySet DEF FiniteClock, Clock, InitClock
<1>2. /\ clock = InitClock /\ reserved = 0 /\ queued = {} /\ active = NoTurn /\ begun = {}
      /\ durable = [clock |-> InitClock, begun |-> {}] /\ crashes = 0
  BY DEF Init
<1>3. TypeOK
  BY <1>1, <1>2 DEF TypeOK, FiniteClock
<1>4. DurableOK /\ ClockAhead /\ ReservedIdsAccounted
  BY <1>1, <1>2 DEF DurableOK, ClockAhead, ReservedIdsAccounted
<1> QED BY <1>1, <1>2, <1>3, <1>4 DEF IInv

\* Pump keeps the invariant, when the ids it chooses from account for what is
\* reserved: the least of them is at most clock.next, so that the clock, one
\* further, is ahead of it.
LEMMA PumpKeeps ==
  ASSUME IInv, NEW ids \in SUBSET Nat, Pump(ids),
         reserved' \in Nat, UNCHANGED <<durable, crashes>>,
         clock.next .. (reserved' - 1) \subseteq ids \cup clock.cancelled,
         ids \cap begun = {},
         \A id \in ids : id < reserved'
  PROVE  IInv'
<1>1. clock.next \in Nat /\ clock.cancelled \in SUBSET Nat /\ begun \in SUBSET Nat
  BY DEF IInv, TypeOK, Clock
<1>2. DurableOK' /\ durable' = durable /\ crashes' = crashes
  BY DEF IInv, DurableOK
<1>3. CASE ids = {}
  <2>1. active' = NoTurn /\ queued' = {} /\ clock' = clock /\ begun' = begun
    BY <1>3 DEF Pump
  <2>2. TypeOK' /\ FiniteClock(clock')
    BY <1>2, <2>1 DEF IInv, TypeOK
  <2>3. ClockAhead'
    BY <1>2, <2>1 DEF IInv, ClockAhead
  <2>4. ReservedIdsAccounted'
    BY <1>3, <2>1 DEF IInv, ReservedIdsAccounted
  <2> QED BY <1>2, <2>2, <2>3, <2>4 DEF IInv
<1>4. CASE ids # {}
  <2> DEFINE k == Least(ids)
             c == PromptTurn(clock)
  <2>1. k \in ids /\ (\A j \in ids : k <= j) /\ k \in Nat
    BY <1>4, LeastFacts
  <2>2. active' = k /\ queued' = ids \ {k} /\ clock' = c /\ begun' = begun \cup {k}
    BY <1>4 DEF Pump
  <2> HIDE DEF k
  <2>3. /\ FiniteClock(c)
        /\ clock.next < c.next
        /\ c.next \notin clock.cancelled
        /\ c.cancelled = {j \in clock.cancelled : j > c.next}
    BY PromptTurnFacts DEF IInv
  <2> HIDE DEF c
  <2>4. c.next \in Nat /\ c.cancelled \in SUBSET Nat /\ IsFiniteSet(c.cancelled) /\ c \in Clock
    BY <2>3 DEF FiniteClock, Clock
  <2>5. k <= clock.next
    <3> SUFFICES ASSUME clock.next < k PROVE FALSE
      BY <1>1, <2>1
    <3>1. k < reserved'
      BY <2>1
    <3>2. clock.next \in clock.next .. (reserved' - 1)
      BY <1>1, <2>1, <3>1
    <3>3. clock.next \notin clock.cancelled
      BY DEF IInv, ReservedIdsAccounted
    <3>4. clock.next \in ids
      BY <3>2, <3>3
    <3> QED BY <1>1, <2>1, <3>4
  <2>6. TypeOK'
    BY <1>2, <2>1, <2>2, <2>4 DEF IInv, TypeOK
  <2>7. ClockAhead'
    <3>1. \A id \in begun : id \in Nat /\ id < clock.next
      BY <1>1 DEF IInv, ClockAhead
    <3>2. \A id \in begun \cup {k} : id < c.next
      BY <1>1, <2>1, <2>3, <2>4, <2>5, <3>1
    <3> QED BY <1>2, <2>2, <3>2 DEF IInv, ClockAhead
  <2>8. ReservedIdsAccounted'
    <3>1. ASSUME NEW j \in c.next .. (reserved' - 1)
          PROVE  j \in (ids \ {k}) \cup c.cancelled
      <4>1. j \in Nat /\ c.next <= j /\ clock.next <= j /\ j # k
        BY <1>1, <2>1, <2>3, <2>4, <2>5
      <4>2. j \in ids \cup clock.cancelled
        BY <1>1, <4>1
      <4>3. CASE j \in clock.cancelled
        BY <2>3, <2>4, <4>1, <4>3
      <4> QED BY <4>1, <4>2, <4>3
    <3>2. c.next \notin c.cancelled
      BY <2>3, <2>4
    <3> QED BY <2>2, <3>1, <3>2 DEF ReservedIdsAccounted
  <2> QED BY <1>2, <2>2, <2>3, <2>6, <2>7, <2>8 DEF IInv
<1> QED BY <1>3, <1>4

\* Every action keeps the invariant.
LEMMA StepKeeps == IInv /\ [Next]_vars => IInv'
<1> SUFFICES ASSUME IInv, [Next]_vars PROVE IInv'
  OBVIOUS
<1>1. /\ clock.next \in Nat /\ clock.cancelled \in SUBSET Nat /\ clock \in Clock
      /\ reserved \in Nat /\ queued \in SUBSET Nat /\ begun \in SUBSET Nat
  BY DEF IInv, TypeOK, Clock
<1>2. CASE CreateTurn
  <2> DEFINE id == NextTurnId
  <2>1. id \in Nat /\ clock.next <= id /\ reserved <= id /\ (id = clock.next \/ id = reserved)
    BY <1>1 DEF NextTurnId
  <2>2. reserved' = id + 1 /\ UNCHANGED <<durable, crashes>>
    BY <1>2 DEF CreateTurn
  <2>3. /\ IF active = NoTurn
           THEN Pump(queued \cup {id})
           ELSE queued' = queued \cup {id} /\ UNCHANGED <<active, clock, begun>>
    BY <1>2 DEF CreateTurn
  <2> HIDE DEF id
  <2>4. clock.next .. (reserved' - 1) \subseteq (queued \cup {id}) \cup clock.cancelled
    <3> SUFFICES ASSUME NEW j \in clock.next .. id, j # id
                 PROVE  j \in queued \cup clock.cancelled
      BY <2>1, <2>2
    <3>1. j \in clock.next .. (reserved - 1)
      BY <1>1, <2>1
    <3> QED BY <3>1 DEF IInv, ReservedIdsAccounted
  <2>5. (queued \cup {id}) \cap begun = {}
    BY <1>1, <2>1 DEF IInv, ReservedIdsAccounted, ClockAhead
  <2>6. \A i \in queued \cup {id} : i < reserved'
    BY <1>1, <2>1, <2>2 DEF IInv, ReservedIdsAccounted
  <2>7. queued \cup {id} \in SUBSET Nat /\ reserved' \in Nat
    BY <1>1, <2>1, <2>2
  <2>8. CASE active = NoTurn
    BY <2>2, <2>3, <2>4, <2>5, <2>6, <2>7, <2>8, PumpKeeps
  <2>9. CASE active # NoTurn
    <3>1. queued' = queued \cup {id} /\ UNCHANGED <<active, clock, begun>>
      BY <2>3, <2>9
    <3>2. TypeOK' /\ FiniteClock(clock')
      BY <2>2, <2>7, <3>1 DEF IInv, TypeOK
    <3>3. DurableOK' /\ ClockAhead'
      BY <2>2, <3>1 DEF IInv, DurableOK, ClockAhead
    <3>4. ReservedIdsAccounted'
      BY <2>4, <2>5, <2>6, <3>1 DEF IInv, ReservedIdsAccounted
    <3> QED BY <3>2, <3>3, <3>4 DEF IInv
  <2> QED BY <2>8, <2>9
<1>3. CASE EndTurn
  <2>1. Pump(queued) /\ reserved' = reserved /\ UNCHANGED <<durable, crashes>>
    BY <1>3 DEF EndTurn
  <2>2. /\ clock.next .. (reserved' - 1) \subseteq queued \cup clock.cancelled
        /\ queued \cap begun = {}
        /\ \A i \in queued : i < reserved'
    BY <2>1 DEF IInv, ReservedIdsAccounted
  <2> QED BY <1>1, <2>1, <2>2, PumpKeeps
<1>4. ASSUME NEW id \in queued, CancelQueuedTurn(id) PROVE IInv'
  <2>1. /\ queued' = queued \ {id} /\ clock' = CancelTurn(clock, id)
        /\ UNCHANGED <<reserved, active, begun, durable, crashes>>
    BY <1>4 DEF CancelQueuedTurn
  <2>2. id \in Nat
    BY <1>1
  <2> DEFINE c == CancelTurn(clock, id)
  <2>3. /\ FiniteClock(c)
        /\ id < clock.next => c = clock
        /\ clock.next <= id =>
              /\ clock.next <= c.next
              /\ c.next \notin clock.cancelled \cup {id}
              /\ c.cancelled = {k \in clock.cancelled \cup {id} : k > c.next}
    BY <2>2, CancelTurnFacts DEF IInv
  <2>4. clock' = c
    BY <2>1
  <2> HIDE DEF c
  <2>5. c \in Clock /\ IsFiniteSet(c.cancelled) /\ c.next \in Nat /\ c.cancelled \in SUBSET Nat
    BY <2>3 DEF FiniteClock, Clock
  <2>6. TypeOK' /\ DurableOK' /\ FiniteClock(clock')
    BY <2>1, <2>3, <2>4, <2>5 DEF IInv, TypeOK, DurableOK
  <2>7. clock.next <= c.next
    BY <1>1, <2>2, <2>3
  <2>8. ClockAhead'
    <3>1. \A i \in begun : i < c.next
      BY <1>1, <2>5, <2>7 DEF IInv, ClockAhead
    <3> QED BY <2>1, <2>4, <3>1 DEF IInv, ClockAhead
  <2>9. ReservedIdsAccounted'
    <3>1. c.next \notin c.cancelled
      <4>1. CASE id < clock.next
        BY <2>3, <4>1 DEF IInv, ReservedIdsAccounted
      <4>2. CASE clock.next <= id
        BY <2>3, <2>5, <4>2
      <4> QED BY <1>1, <2>2, <4>1, <4>2
    <3>2. ASSUME NEW j \in c.next .. (reserved - 1)
          PROVE  j \in (queued \ {id}) \cup c.cancelled
      <4>1. j \in Nat /\ c.next <= j /\ clock.next <= j
        BY <1>1, <2>5, <2>7
      <4>2. j \in queued \cup clock.cancelled
        BY <1>1, <4>1 DEF IInv, ReservedIdsAccounted
      <4>3. CASE id < clock.next
        BY <1>1, <2>2, <2>3, <4>1, <4>2, <4>3
      <4>4. CASE clock.next <= id
        BY <2>3, <2>5, <4>1, <4>2, <4>4
      <4> QED BY <1>1, <2>2, <4>3, <4>4
    <3> QED BY <2>1, <2>4, <3>1, <3>2 DEF IInv, ReservedIdsAccounted
  <2> QED BY <2>6, <2>8, <2>9 DEF IInv
<1>5. CASE Flush
  <2>1. /\ durable' = [clock |-> clock, begun |-> begun]
        /\ UNCHANGED <<clock, reserved, queued, active, begun, crashes>>
    BY <1>5 DEF Flush
  <2>2. durable'.clock = clock /\ durable'.begun = begun
    BY <2>1
  <2>3. TypeOK' /\ FiniteClock(clock')
    BY <1>1, <2>1, <2>2 DEF IInv, TypeOK, FiniteClock
  <2>4. DurableOK' /\ ClockAhead' /\ ReservedIdsAccounted'
    BY <2>1, <2>2 DEF IInv, DurableOK, ClockAhead, ReservedIdsAccounted
  <2> QED BY <2>3, <2>4 DEF IInv
<1>6. CASE Crash
  <2>1. /\ crashes' = crashes + 1 /\ clock' = durable.clock /\ begun' = durable.begun
        /\ reserved' = 0 /\ queued' = {} /\ active' = NoTurn /\ durable' = durable
    BY <1>6 DEF Crash
  <2>2. TypeOK' /\ FiniteClock(clock')
    BY <2>1 DEF IInv, TypeOK, DurableOK, FiniteClock
  <2>3. durable.clock.next \in Nat
    BY DEF IInv, DurableOK, FiniteClock, Clock
  <2>4. DurableOK' /\ ClockAhead' /\ ReservedIdsAccounted'
    BY <2>1, <2>3 DEF IInv, DurableOK, ClockAhead, ReservedIdsAccounted
  <2> QED BY <2>2, <2>4 DEF IInv
<1>7. CASE UNCHANGED vars
  BY <1>7 DEF vars, IInv, TypeOK, DurableOK, ClockAhead, ReservedIdsAccounted
<1> QED BY <1>2, <1>3, <1>4, <1>5, <1>6, <1>7 DEF Next

\* A turn that starts is chosen from ids none of which began.
LEMMA StartsFresh ==
  IInv /\ [Next]_vars => [active' # active /\ active' # NoTurn => active' \notin begun]_vars
<1> SUFFICES ASSUME IInv, Next, active' # active, active' # NoTurn
             PROVE  active' \notin begun
  BY DEF vars
<1>1. /\ clock.next \in Nat /\ reserved \in Nat
      /\ queued \in SUBSET Nat /\ begun \in SUBSET Nat
  BY DEF IInv, TypeOK, Clock
<1>2. ASSUME NEW ids \in SUBSET Nat, Pump(ids), ids \cap begun = {}
      PROVE  active' \notin begun
  BY <1>2, LeastFacts DEF Pump
<1>3. CASE CreateTurn
  <2>1. NextTurnId \in Nat /\ clock.next <= NextTurnId
    BY <1>1 DEF NextTurnId
  <2>2. Pump(queued \cup {NextTurnId})
    BY <1>3 DEF CreateTurn
  <2>3. (queued \cup {NextTurnId}) \cap begun = {}
    BY <1>1, <2>1 DEF IInv, ReservedIdsAccounted, ClockAhead
  <2>4. queued \cup {NextTurnId} \in SUBSET Nat
    BY <1>1, <2>1
  <2> QED BY <1>2, <2>2, <2>3, <2>4
<1>4. CASE EndTurn
  BY <1>1, <1>2, <1>4 DEF EndTurn, IInv, ReservedIdsAccounted
<1>5. CASE (\E id \in queued : CancelQueuedTurn(id)) \/ Flush \/ Crash
  BY <1>5 DEF CancelQueuedTurn, Flush, Crash
<1> QED BY <1>3, <1>4, <1>5 DEF Next

\* The inductive invariant holds.
LEMMA InvariantHolds == Spec => []IInv
<1> QED BY InitHolds, StepKeeps, PTL DEF Spec

\* The variables keep their types, through any number of crashes.
THEOREM TypeCorrect == Spec => []TypeOK
<1>1. IInv => TypeOK
  BY DEF IInv
<1> QED BY <1>1, InvariantHolds, PTL

\* The clock is ahead of every id that began, in memory and on disk.
THEOREM ClockStaysAhead == Spec => []ClockAhead
<1>1. IInv => ClockAhead
  BY DEF IInv
<1> QED BY <1>1, InvariantHolds, PTL

\* The reserved ids fit the clock, also when a restored clock skips some.
THEOREM ReservedIdsFit == Spec => []ReservedIdsAccounted
<1>1. IInv => ReservedIdsAccounted
  BY DEF IInv
<1> QED BY <1>1, InvariantHolds, PTL

\* No turn ever takes an id of a turn that the log knows to have begun.
THEOREM TurnsStartFresh == Spec => StartsAreFresh
<1> QED BY StartsFresh, InvariantHolds, PTL DEF Spec, StartsAreFresh
================================================================================

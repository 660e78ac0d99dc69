------------------------- MODULE ToolExecutorProofs -------------------------
(***************************************************************************)
(* Proofs about module ToolExecutor, for any number of calls and any       *)
(* accesses they declare: the types, that a call waits exactly for those   *)
(* before it that it conflicts with, and that executing tools never        *)
(* collide.                                                                *)
(***************************************************************************)
EXTENDS ToolExecutor, TLAPS

\* Calls that the scheduler holds.
Held == Active \cup Queued

\* While the calls are prepared nothing has been added; while they are added
\* the ones not added yet are the last; afterwards all were added; and in the
\* end none is waiting or executing.
Phases ==
    /\ phase = "preparing" =>
          running = {} /\ \A c \in Calls : at[c] \in {"new", "prepared"}
    /\ phase = "adding" =>
          /\ scan = {}
          /\ \A c, d \in Calls : d < c /\ at[d] = "prepared" => at[c] = "prepared"
    /\ phase = "done" => \A c \in Calls : at[c] \notin {"queued", "active"}

\* An executing tool is that of an active call or was given up, which takes an
\* abort.
Executing ==
    /\ \A c \in running : at[c] = "active" \/ c \in abandoned
    /\ abandoned # {} => signal

\* An active call conflicts with no held call before it; a waiting one that
\* startQueuedTasks has looked at conflicts with one.
Order ==
    /\ \A c \in Active : \A d \in Held : d < c => ~Conflict(c, d)
    /\ \A c \in Queued \ scan : \E d \in Held : d < c /\ Conflict(c, d)

Apart == \A c, d \in running : c # d => ~Conflict(c, d)

IInv == TypeOK /\ Phases /\ Executing /\ Order /\ Apart
-----------------------------------------------------------------------------
\* Conflicts are mutual.
LEMMA ConflictSymmetric ==
  \A c, d : Conflict(c, d) <=> Conflict(d, c)
BY DEF Conflict, Clash

\* Nothing is held at the beginning.
LEMMA InitHolds == Init => IInv
<1> SUFFICES ASSUME Init PROVE IInv
  OBVIOUS
<1>1. TypeOK
  BY DEF Init, TypeOK, Queued
<1>2. Phases /\ Executing /\ Order /\ Apart
  BY DEF Init, Phases, Executing, Order, Apart, Held, Active, Queued
<1> QED BY <1>1, <1>2 DEF IInv

\* The conflicts change only while calls are prepared.
LEMMA ConflictsStay ==
  ASSUME accesses' = accesses
  PROVE  \A c, d : Conflict(c, d)' <=> Conflict(c, d)
BY DEF Conflict

\* A step that moves no call keeps the invariant, if it respects the phases.
LEMMA QuietStep ==
  ASSUME IInv, TypeOK', Phases',
         UNCHANGED <<accesses, at, scan, running, abandoned>>,
         signal => signal'
  PROVE  IInv'
<1>1. Active' = Active /\ Queued' = Queued /\ Held' = Held
  BY DEF Active, Queued, Held
<1>2. \A c, d : Conflict(c, d)' <=> Conflict(c, d)
  BY ConflictsStay
<1>3. Executing'
  BY DEF IInv, Executing
<1>4. Order' /\ Apart'
  BY <1>1, <1>2 DEF IInv, Order, Apart
<1> QED BY <1>3, <1>4 DEF IInv

\* While calls are prepared, the scheduler is empty.
LEMMA PrepareKeeps ==
  ASSUME IInv, NEW c \in Calls, Prepare(c)
  PROVE  IInv'
<1>1. /\ phase = "preparing" /\ phase' = phase
      /\ at' = [at EXCEPT ![c] = "prepared"]
      /\ running = {} /\ running' = {} /\ abandoned' = abandoned /\ signal' = signal
  BY DEF IInv, Phases, Prepare
<1>2. at \in [Calls -> {"new", "prepared"}] /\ at' \in [Calls -> {"new", "prepared"}]
  BY <1>1 DEF IInv, Phases, TypeOK
<1>3. Held = {} /\ Held' = {} /\ Active' = {} /\ Queued = {} /\ Queued' = {}
  BY <1>2 DEF Held, Active, Queued
<1>4. TypeOK'
  <2>1. accesses' \in [Calls -> AccessLists \cup {{}}] /\ stopBatch' \in BOOLEAN /\ resolved' \subseteq Calls
    BY DEF Prepare, IInv, TypeOK
  <2>2. /\ at' \in [Calls -> {"new", "prepared", "queued", "active", "settled", "finished"}]
        /\ scan' \subseteq Queued'
    BY <1>2, <1>3 DEF Prepare, IInv, TypeOK
  <2> QED BY <1>1, <2>1, <2>2 DEF Prepare, IInv, TypeOK
<1>5. Phases' /\ Executing' /\ Order' /\ Apart'
  <2>1. Phases'
    BY <1>1, <1>2 DEF Phases
  <2>2. Executing'
    BY <1>1 DEF IInv, Executing
  <2>3. Order' /\ Apart'
    BY <1>1, <1>3 DEF Order, Apart
  <2> QED BY <2>1, <2>2, <2>3
<1> QED BY <1>4, <1>5 DEF IInv

\* Whatever starts a call that nothing active blocks keeps executing tools apart.
LEMMA StartKeepsApart ==
  ASSUME IInv, NEW c \in Calls, Start(c), at[c] \notin {"active", "settled"},
         UNCHANGED <<accesses, abandoned, signal>>,
         \A d \in Active : ~Conflict(c, d)
  PROVE  Executing' /\ Apart'
<1>1. /\ at \in [Calls -> {"new", "prepared", "queued", "active", "settled", "finished"}]
      /\ running \subseteq Calls
  BY DEF IInv, TypeOK
<1>2. at' = [at EXCEPT ![c] = "active"] /\ running' \subseteq running \cup {c}
  BY DEF Start
<1>3. \A x, y : Conflict(x, y)' <=> Conflict(x, y)
  BY ConflictsStay
<1>4. Executing'
  BY <1>1, <1>2 DEF IInv, Executing
<1>5. Apart'
  <2>1. CASE Executes(c)
    <3>1. \A d \in running : d \in Active
      BY <1>1, <2>1 DEF IInv, Executing, Executes, Active
    <3>2. \A d \in running : ~Conflict(c, d) /\ ~Conflict(d, c)
      BY <3>1, ConflictSymmetric
    <3> QED BY <1>2, <1>3, <3>2 DEF IInv, Apart
  <2>2. CASE ~Executes(c)
    BY <1>3, <2>2 DEF IInv, Apart, Start
  <2> QED BY <2>1, <2>2
<1> QED BY <1>4, <1>5

\* add: the calls held are those before the one that is added.
LEMMA AddKeeps ==
  ASSUME IInv, NEW c \in Calls, Add(c)
  PROVE  IInv'
<1>1. /\ phase = "adding" /\ phase' = "adding" /\ scan = {} /\ scan' = {}
      /\ at[c] = "prepared"
      /\ \A d \in Calls : d < c => at[d] # "prepared"
      /\ UNCHANGED <<accesses, abandoned, signal>>
  BY DEF IInv, Phases, Add
<1>2. /\ at \in [Calls -> {"new", "prepared", "queued", "active", "settled", "finished"}]
      /\ running \subseteq Calls /\ Calls \subseteq Nat
  BY NumCallsAssumption DEF IInv, TypeOK, Calls
<1>3. \A d \in Held : d \in Calls /\ d < c
  <2> SUFFICES ASSUME NEW d \in Calls, ~(d < c) PROVE d \notin Held
    BY DEF Held, Active, Queued
  <2>1. d = c \/ c < d
    BY <1>2
  <2>2. at[d] = "prepared"
    BY <1>1, <2>1 DEF IInv, Phases
  <2> QED BY <2>2 DEF Held, Active, Queued
<1>4. \A x, y : Conflict(x, y)' <=> Conflict(x, y)
  BY <1>1, ConflictsStay
<1>5. CASE IsBlocked(c, Queued)
  <2>1. at' = [at EXCEPT ![c] = "queued"] /\ running' = running
    BY <1>5 DEF Add
  <2>2. Active' = Active /\ Queued' = Queued \cup {c} /\ Held' = Held \cup {c}
    BY <1>1, <1>2, <2>1 DEF Active, Queued, Held
  <2>3. TypeOK'
    BY <1>1, <1>2, <2>1, <2>2 DEF IInv, TypeOK, Add
  <2>4. Phases'
    BY <1>1, <1>2, <2>1 DEF IInv, Phases
  <2>5. Executing' /\ Apart'
    BY <1>1, <1>2, <1>4, <2>1 DEF IInv, Executing, Apart
  <2>6. \E d \in Held : d < c /\ Conflict(c, d)
    BY <1>3, <1>5 DEF IsBlocked, Held
  <2>7. \A d \in Active : d \in Held
    BY DEF Held
  <2>8. Order'
    <3>1. ASSUME NEW a \in Active', NEW d \in Held', d < a PROVE ~Conflict(a, d)'
      <4>1. a \in Active /\ a < c /\ a \in Calls
        BY <1>3, <2>2, <2>7
      <4>2. d # c
        BY <1>2, <3>1, <4>1
      <4> QED BY <1>4, <2>2, <3>1, <4>1, <4>2 DEF IInv, Order
    <3>2. ASSUME NEW q \in Queued' \ scan' PROVE \E d \in Held' : d < q /\ Conflict(q, d)'
      BY <1>1, <1>4, <2>2, <2>6 DEF IInv, Order
    <3> QED BY <3>1, <3>2 DEF Order
  <2> QED BY <2>3, <2>4, <2>5, <2>8 DEF IInv
<1>6. CASE ~IsBlocked(c, Queued)
  <2>1. Start(c)
    BY <1>6 DEF Add
  <2>2. at' = [at EXCEPT ![c] = "active"] /\ running' \subseteq running \cup {c}
    BY <2>1 DEF Start
  <2>3. Active' = Active \cup {c} /\ Queued' = Queued /\ Held' = Held \cup {c}
    BY <1>1, <1>2, <2>2 DEF Active, Queued, Held
  <2>4. TypeOK'
    BY <1>1, <1>2, <2>2, <2>3 DEF IInv, TypeOK, Add
  <2>5. Phases'
    BY <1>1, <1>2, <2>2 DEF IInv, Phases
  <2>6. \A d \in Held : ~Conflict(c, d)
    BY <1>6 DEF IsBlocked, Held
  <2>7. Executing' /\ Apart'
    BY <1>1, <2>1, <2>6, StartKeepsApart DEF Held
  <2>8. Order'
    <3>1. ASSUME NEW a \in Active', NEW d \in Held', d < a PROVE ~Conflict(a, d)'
      <4>1. CASE a = c
        BY <1>2, <1>4, <2>3, <2>6, <3>1, <4>1
      <4>2. CASE a # c
        <5>1. a \in Active /\ a \in Held
          BY <2>3, <4>2 DEF Held
        <5>2. a < c /\ a \in Calls
          BY <1>3, <5>1
        <5>3. d # c
          BY <1>2, <3>1, <5>2
        <5>4. d \in Held
          BY <2>3, <5>3
        <5> QED BY <1>4, <3>1, <5>1, <5>4 DEF IInv, Order
      <4> QED BY <4>1, <4>2
    <3>2. ASSUME NEW q \in Queued' \ scan' PROVE \E d \in Held' : d < q /\ Conflict(q, d)'
      BY <1>1, <1>4, <2>3 DEF IInv, Order
    <3> QED BY <3>1, <3>2 DEF Order
  <2> QED BY <2>4, <2>5, <2>7, <2>8 DEF IInv
<1> QED BY <1>5, <1>6

\* startQueuedTasks: a call that is blocked is blocked by one before it, since
\* no active call conflicts with a held call before it.
LEMMA LookAtKeeps ==
  ASSUME IInv, NEW c \in Calls, LookAt(c)
  PROVE  IInv'
<1>1. /\ c \in scan /\ scan' = scan \ {c}
      /\ UNCHANGED <<accesses, phase, abandoned, signal>>
  BY DEF LookAt
<1>2. /\ at \in [Calls -> {"new", "prepared", "queued", "active", "settled", "finished"}]
      /\ running \subseteq Calls /\ Calls \subseteq Nat /\ scan \subseteq Queued
  BY NumCallsAssumption DEF IInv, TypeOK, Calls
<1>3. at[c] = "queued" /\ c \in Held
  BY <1>1, <1>2 DEF Queued, Held
<1>4. \A x, y : Conflict(x, y)' <=> Conflict(x, y)
  BY <1>1, ConflictsStay
<1>5. phase \notin {"preparing", "adding", "done"}
  BY <1>1, <1>3 DEF IInv, Phases
<1>6. Phases'
  BY <1>1, <1>5 DEF Phases
<1>7. Held \subseteq Calls /\ Active \subseteq Held /\ Queued \subseteq Held
  BY DEF Held, Active, Queued
<1>8. CASE IsBlocked(c, {d \in Queued : d < c})
  <2>1. at' = at /\ running' = running
    BY <1>8 DEF LookAt
  <2>2. Active' = Active /\ Queued' = Queued /\ Held' = Held
    BY <2>1 DEF Active, Queued, Held
  <2>3. TypeOK'
    BY <1>1, <2>1, <2>2 DEF IInv, TypeOK, LookAt
  <2>4. Executing' /\ Apart'
    BY <1>1, <1>4, <2>1 DEF IInv, Executing, Apart
  <2>5. \E d \in Held : d < c /\ Conflict(c, d)
    <3>1. PICK d \in Active \cup {x \in Queued : x < c} : Conflict(c, d)
      BY <1>8 DEF IsBlocked
    <3>2. d < c
      <4>1. CASE d \in Active
        <5>1. at[d] # "queued" /\ d \in Calls
          BY <4>1 DEF Active
        <5>2. ~(c < d)
          BY <1>3, <3>1, <4>1, ConflictSymmetric DEF IInv, Order
        <5> QED BY <1>2, <1>3, <5>1, <5>2
      <4> QED BY <3>1, <4>1
    <3> QED BY <1>7, <3>1, <3>2
  <2>6. Order'
    BY <1>1, <1>4, <2>2, <2>5 DEF IInv, Order
  <2> QED BY <1>6, <2>3, <2>4, <2>6 DEF IInv
<1>9. CASE ~IsBlocked(c, {d \in Queued : d < c})
  <2>1. Start(c)
    BY <1>9 DEF LookAt
  <2>2. at' = [at EXCEPT ![c] = "active"] /\ running' \subseteq running \cup {c}
    BY <2>1 DEF Start
  <2>3. Active' = Active \cup {c} /\ Queued' = Queued \ {c} /\ Held' = Held
    BY <1>2, <1>3, <2>2 DEF Active, Queued, Held
  <2>4. TypeOK'
    BY <1>1, <1>2, <2>2, <2>3 DEF IInv, TypeOK, LookAt
  <2>5. \A d \in Active : ~Conflict(c, d)
    BY <1>9 DEF IsBlocked
  <2>6. \A d \in Held : d < c => ~Conflict(c, d)
    BY <1>9 DEF IsBlocked, Held
  <2>7. Executing' /\ Apart'
    BY <1>1, <1>3, <2>1, <2>5, StartKeepsApart
  <2>8. Order'
    BY <1>1, <1>4, <2>3, <2>6 DEF IInv, Order
  <2> QED BY <1>6, <2>4, <2>7, <2>8 DEF IInv
<1> QED BY <1>8, <1>9

\* The tools' ends and the results: an active call settles, no call comes in.
LEMMA SettlingKeeps ==
  ASSUME IInv, NEW c \in Calls, ReadyResult(c) \/ ToolEnds(c) \/ GraceExpires(c)
  PROVE  IInv'
<1>1. /\ UNCHANGED <<accesses, phase, scan, signal>>
      /\ running' \subseteq running
      /\ at' = at \/ (at[c] = "active" /\ at' = [at EXCEPT ![c] = "settled"])
      /\ abandoned' = abandoned \/ (signal /\ abandoned' = abandoned \cup {c})
      /\ phase # "adding"
  BY DEF ReadyResult, ToolEnds, GraceExpires, Idle
<1>2. at \in [Calls -> {"new", "prepared", "queued", "active", "settled", "finished"}]
  BY DEF IInv, TypeOK
<1>3. Active' = Active /\ Queued' = Queued /\ Held' = Held
  BY <1>1, <1>2 DEF Active, Queued, Held
<1>4. \A x, y : Conflict(x, y)' <=> Conflict(x, y)
  BY <1>1, ConflictsStay
<1>5. TypeOK'
  BY <1>1, <1>2, <1>3 DEF IInv, TypeOK, ReadyResult, ToolEnds, GraceExpires
<1>6. Phases'
  BY <1>1, <1>2 DEF IInv, Phases
<1>7. Executing'
  <2>1. \A d \in running' : d = c => at'[d] = "active" \/ d \in abandoned'
    BY <1>2 DEF IInv, Executing, ReadyResult, ToolEnds, GraceExpires
  <2>2. \A d \in running' : d # c => at'[d] = "active" \/ d \in abandoned'
    BY <1>1, <1>2 DEF IInv, Executing, TypeOK
  <2> QED BY <1>1, <2>1, <2>2 DEF IInv, Executing
<1>8. Order' /\ Apart'
  BY <1>1, <1>3, <1>4 DEF IInv, Order, Apart
<1> QED BY <1>5, <1>6, <1>7, <1>8 DEF IInv

\* finish(): a settled call leaves, and the waiting ones are looked at again.
LEMMA FinishKeeps ==
  ASSUME IInv, NEW c \in Calls, Finish(c)
  PROVE  IInv'
<1>1. /\ UNCHANGED <<accesses, phase, running, abandoned, signal>>
      /\ at[c] = "settled" /\ at' = [at EXCEPT ![c] = "finished"]
      /\ scan' = Queued /\ phase # "adding"
  BY DEF Finish, Idle, RescanAfter
<1>2. at \in [Calls -> {"new", "prepared", "queued", "active", "settled", "finished"}]
  BY DEF IInv, TypeOK
<1>3. Active' = Active \ {c} /\ Queued' = Queued /\ Held' = Held \ {c}
  BY <1>1, <1>2 DEF Active, Queued, Held
<1>4. \A x, y : Conflict(x, y)' <=> Conflict(x, y)
  BY <1>1, ConflictsStay
<1>5. TypeOK'
  BY <1>1, <1>2, <1>3 DEF IInv, TypeOK, Finish
<1>6. Phases'
  BY <1>1, <1>2 DEF IInv, Phases
<1>7. Executing'
  BY <1>1, <1>2 DEF IInv, Executing
<1>8. Order' /\ Apart'
  BY <1>1, <1>3, <1>4 DEF IInv, Order, Apart
<1> QED BY <1>5, <1>6, <1>7, <1>8 DEF IInv

\* The steps of execute() that move no call of the scheduler.
LEMMA DrivingKeeps ==
  ASSUME IInv,
         \/ BeginBatch \/ PrepareThrows \/ AllAdded \/ StopEarly \/ End \/ Abort
         \/ \E c \in Calls : TakeResult(c) \/ Deliver(c)
         \/ UNCHANGED vars
  PROVE  IInv'
<1>1. UNCHANGED <<accesses, at, scan, running, abandoned>> /\ (signal => signal')
  BY DEF BeginBatch, PrepareThrows, AllAdded, StopEarly, End, Abort, TakeResult, Deliver, vars
<1>2. /\ Queued' = Queued /\ Calls \subseteq Nat
      /\ at \in [Calls -> {"new", "prepared", "queued", "active", "settled", "finished"}]
  BY <1>1, NumCallsAssumption DEF Queued, Calls, IInv, TypeOK
<1>3. TypeOK'
  BY <1>1, <1>2 DEF IInv, TypeOK, BeginBatch, PrepareThrows, AllAdded, StopEarly, End, Abort,
                    TakeResult, Deliver, Settled, vars
<1>4. Phases'
  <2>1. CASE BeginBatch
    <3>1. scan = {}
      BY <1>2, <2>1 DEF BeginBatch, IInv, TypeOK, Queued
    <3> QED BY <1>1, <2>1, <3>1 DEF BeginBatch, Phases
  <2>2. CASE PrepareThrows
    BY <1>1, <1>2, <2>2 DEF PrepareThrows, IInv, Phases
  <2>3. CASE AllAdded \/ StopEarly
    BY <1>1, <2>3 DEF AllAdded, StopEarly, Phases
  <2>4. CASE End
    <3>1. \A c \in Calls : at[c] \in {"settled", "finished"}
      BY <2>4 DEF End, AllAwaited, Settled
    <3> QED BY <1>1, <2>4, <3>1 DEF End, Phases
  <2>5. CASE Abort \/ (\E c \in Calls : TakeResult(c) \/ Deliver(c)) \/ UNCHANGED vars
    <3>1. phase' = phase
      BY <2>5 DEF Abort, TakeResult, Deliver, vars
    <3> QED BY <1>1, <3>1 DEF IInv, Phases
  <2> QED BY <2>1, <2>2, <2>3, <2>4, <2>5
<1> QED BY <1>1, <1>3, <1>4, QuietStep

\* Every step keeps the invariant.
LEMMA NextKeeps == IInv /\ [Next]_vars => IInv'
<1> SUFFICES ASSUME IInv, [Next]_vars PROVE IInv'
  OBVIOUS
<1>1. CASE \E c \in Calls : Prepare(c)
  BY <1>1, PrepareKeeps
<1>2. CASE \E c \in Calls : Add(c)
  BY <1>2, AddKeeps
<1>3. CASE \E c \in Calls : LookAt(c)
  BY <1>3, LookAtKeeps
<1>4. CASE \E c \in Calls : ReadyResult(c) \/ ToolEnds(c) \/ GraceExpires(c)
  BY <1>4, SettlingKeeps
<1>5. CASE \E c \in Calls : Finish(c)
  BY <1>5, FinishKeeps
<1>6. CASE \/ BeginBatch \/ PrepareThrows \/ AllAdded \/ StopEarly \/ End \/ Abort
           \/ \E c \in Calls : TakeResult(c) \/ Deliver(c)
           \/ UNCHANGED vars
  BY <1>6, DrivingKeeps
<1> QED BY <1>1, <1>2, <1>3, <1>4, <1>5, <1>6 DEF Next, Proceed

\* The invariant holds always.
LEMMA Invariant == Spec => []IInv
BY InitHolds, NextKeeps, PTL DEF Spec
-----------------------------------------------------------------------------
\* The variables keep their types, and startQueuedTasks looks at waiting calls
\* only, for any number of calls.
THEOREM TypeCorrect == Spec => []TypeOK
<1>1. IInv => TypeOK
  BY DEF IInv
<1> QED BY <1>1, Invariant, PTL

\* toolScheduler.ts:5-6: at rest, a call waits if and only if it conflicts with
\* one before it that the scheduler still holds.
THEOREM NoneOvertakes == Spec => []WaitsOnlyForConflicts
<1>1. IInv => WaitsOnlyForConflicts
  <2> SUFFICES ASSUME IInv, Idle, NEW c \in Held
               PROVE  c \in Queued <=> \E d \in Held : d < c /\ Conflict(c, d)
    BY DEF WaitsOnlyForConflicts, Held
  <2>1. scan = {} /\ (c \in Active \/ c \in Queued) /\ ~(c \in Active /\ c \in Queued)
    BY DEF Idle, Held, Active, Queued
  <2> QED BY <2>1 DEF IInv, Order
<1> QED BY <1>1, Invariant, PTL

\* Tools that execute at the same time never conflict, those given up after an
\* abort included, and only such are left when the batch is over.
THEOREM NeverCollide == Spec => []ToolsNeverCollide
<1>1. IInv => ToolsNeverCollide
  BY DEF IInv, TypeOK, Phases, Executing, Apart, ToolsNeverCollide
<1> QED BY <1>1, Invariant, PTL
=============================================================================

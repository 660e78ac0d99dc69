----------------------------- MODULE MiniDbProofs ------------------------------
(***************************************************************************)
(* Proofs about module MiniDb, for any keys, writers and bounds: the types,*)
(* that a caller is refused only after a failure of the storage, and that an*)
(* acknowledged write survives compactions, failures and crashes.          *)
(***************************************************************************)
EXTENDS MiniDb, WellFoundedInduction, TLAPS


Calls ==
    [at : {"idle", "parked", "gated", "waiting", "sealedOut", "failed", "retrying"},
     key : Keys, del : BOOLEAN, n : Nat, prev : Nat]

WalObjects ==
    [status : {"open", "sealed", "closed"}, size : Nat, queue : Seq(Nat), batch : Seq(Nat)]

Compactions ==
    [at : {"none", "fence", "snapshot", "precopy"} \cup Rotation,
     todo : SUBSET Keys, copied : Nat, appended : BOOLEAN, passes : Nat]

Counts == [calls : Nat, compactions : Nat, failures : Nat, crashes : Nat]

Commits == Seq([key : Keys, del : BOOLEAN])

\* Phases of the rotation in which the log has been drained, and in which it
\* has been closed.
Settled == Rotation \ {"draining"}
Swapping == Settled \ {"drained", "closing"}

\* The frames of the log that are in memory are of commits that were made.
Known == Frames(wal.queue) \cup Frames(wal.batch) \subseteq DOMAIN commits

\* While the rotation lock is set the log takes no frame; once drained it holds
\* none, and once it is closed no callback is left.  The size the log believes
\* it has is that of its file, until the file is replaced.
Phases ==
    /\ rotateLock => wal.status # "open"
    /\ wal.status = "closed" \/ compaction.at \in Settled => Flushed
    /\ compaction.at \in Swapping => ~Microtasks
    /\ compaction.at \notin {"walNamed", "walSynced"} =>
          /\ wal.size <= Len(disk.wal)
          /\ wal.status # "closed" => wal.size = Len(disk.wal)
    /\ compaction.at = "fence" => ~compaction.appended
    /\ compaction.at \in {"snapshot", "precopy"} \cup Rotation => compaction.copied <= wal.size

\* A write that has failed, a caller that was refused, and a log that is shut
\* outside of a rotation: each takes a failure of the storage.
Answers ==
    /\ refused => count.failures > 0
    /\ \A w \in Writers : writer[w].at = "failed" => count.failures > 0
    /\ wal.status # "open" /\ ~rotateLock => count.failures > 0

PhaseInv == TypeOK /\ Known /\ Phases /\ Answers
-----------------------------------------------------------------------------
\* The type invariant in terms of the sets above.
LEMMA TypeParts ==
  TypeOK <=> /\ commits \in Commits
             /\ store \in [Keys -> Nat]
             /\ writer \in [Writers -> Calls]
             /\ wal \in WalObjects
             /\ disk \in Files /\ durable \in Files /\ tmp \in Files
             /\ compaction \in Compactions
             /\ rotateLock = (compaction.at \in Rotation)
             /\ acked \subseteq DOMAIN commits /\ spoiled \subseteq Keys
             /\ refused \in BOOLEAN
             /\ count \in Counts
BY DEF TypeOK, Commits, Calls, WalObjects, Compactions, Counts

\* The empty sequence is a sequence of anything.
LEMMA EmptyIsSeq == \A S : <<>> \in Seq(S)
OBVIOUS

\* An empty log is a log.
LEMMA EmptyLog == <<>> \in Seq(Nat)
OBVIOUS

\* What the fresh objects are.
LEMMA FreshTypes ==
  /\ NoCall \in Calls /\ NoCall.at = "idle"
  /\ NoCompaction \in Compactions /\ NoCompaction.at = "none"
  /\ NoFile \in [Keys -> Nat] /\ Absent \in Nat
  /\ \A log \in Seq(Nat) : OpenWal(log) \in WalObjects
<1>1. (CHOOSE k \in Keys : TRUE) \in Keys
  BY MiniDbAssumption
<1>2. NoCall \in Calls /\ NoCall.at = "idle"
  BY <1>1 DEF NoCall, Calls
<1>3. NoCompaction \in Compactions /\ NoCompaction.at = "none"
  BY DEF NoCompaction, Compactions
<1>4. NoFile \in [Keys -> Nat] /\ Absent \in Nat
  BY DEF NoFile, Absent
<1>5. \A log \in Seq(Nat) : OpenWal(log) \in WalObjects
  BY EmptyIsSeq DEF OpenWal, WalObjects
<1> QED BY <1>2, <1>3, <1>4, <1>5

\* The database begins empty.
LEMMA InitTypes == Init => TypeOK
<1> SUFFICES ASSUME Init PROVE TypeOK
  OBVIOUS
<1>1. commits \in Commits /\ acked \subseteq DOMAIN commits
  BY EmptyIsSeq DEF Init, Commits
<1>2. disk \in Files /\ durable \in Files /\ tmp \in Files /\ store \in [Keys -> Nat]
  BY EmptyIsSeq, FreshTypes DEF Init, Files
<1>3. wal \in WalObjects
  BY EmptyIsSeq, FreshTypes DEF Init
<1>4. compaction \in Compactions
  BY FreshTypes DEF Init
<1>7. rotateLock = (compaction.at \in Rotation)
  <2>1. ~rotateLock /\ rotateLock \in BOOLEAN /\ compaction.at = "none"
    BY DEF Init, NoCompaction
  <2>2. "none" \notin Rotation
    BY DEF Rotation
  <2> QED BY <2>1, <2>2
<1>5. writer \in [Writers -> Calls]
  BY FreshTypes DEF Init
<1>6. spoiled \subseteq Keys /\ refused \in BOOLEAN /\ count \in Counts
  BY DEF Init, Counts
<1> QED BY <1>1, <1>2, <1>3, <1>4, <1>5, <1>6, <1>7, TypeParts

\* And so in the next state.
LEMMA TypePartsNext ==
  TypeOK' <=> /\ commits' \in Commits
              /\ store' \in [Keys -> Nat]
              /\ writer' \in [Writers -> Calls]
              /\ wal' \in WalObjects
              /\ disk' \in Files /\ durable' \in Files /\ tmp' \in Files
              /\ compaction' \in Compactions
              /\ rotateLock' = (compaction'.at \in Rotation)
              /\ acked' \subseteq DOMAIN commits' /\ spoiled' \subseteq Keys
              /\ refused' \in BOOLEAN
              /\ count' \in Counts
BY DEF TypeOK, Commits, Calls, WalObjects, Compactions, Counts

\* A log is a sequence of numbers when it is cut or two are joined.
LEMMA SeqsOfNumbers ==
  ASSUME NEW s \in Seq(Nat), NEW t \in Seq(Nat)
  PROVE  /\ s \o t \in Seq(Nat)
         /\ Len(s \o t) = Len(s) + Len(t)
         /\ \A i \in Nat, j \in Nat : j <= Len(s) => SubSeq(s, i + 1, j) \in Seq(Nat)
<1>1. s \o t \in Seq(Nat) /\ Len(s \o t) = Len(s) + Len(t)
  OBVIOUS
<1>2. \A i \in Nat, j \in Nat : j <= Len(s) => SubSeq(s, i + 1, j) \in Seq(Nat)
  OBVIOUS
<1> QED BY <1>1, <1>2

\* The frames of joined and of cut logs.
LEMMA FramesOf ==
  /\ Frames(<<>>) = {}
  /\ \A s \in Seq(Nat), t \in Seq(Nat) : Frames(s \o t) = Frames(s) \cup Frames(t)
  /\ \A s \in Seq(Nat), n \in Nat : Frames(Append(s, n)) = Frames(s) \cup {n}
  /\ \A s \in Seq(Nat), i \in Nat, j \in Nat :
        j <= Len(s) => Frames(SubSeq(s, i + 1, j)) = {s[x] : x \in (i + 1) .. j}
<1>1. Frames(<<>>) = {}
  BY DEF Frames
<1>2. ASSUME NEW s \in Seq(Nat), NEW t \in Seq(Nat)
      PROVE  Frames(s \o t) = Frames(s) \cup Frames(t)
  <2>1. /\ Len(s) \in Nat /\ Len(t) \in Nat
        /\ DOMAIN s = 1 .. Len(s) /\ DOMAIN t = 1 .. Len(t)
        /\ DOMAIN (s \o t) = 1 .. (Len(s) + Len(t))
        /\ \A x \in 1 .. Len(s) : (s \o t)[x] = s[x]
        /\ \A x \in 1 .. Len(t) : (s \o t)[Len(s) + x] = t[x]
    OBVIOUS
  <2>2. ASSUME NEW x \in DOMAIN (s \o t) PROVE (s \o t)[x] \in Frames(s) \cup Frames(t)
    <3>1. CASE x \in 1 .. Len(s)
      BY <2>1, <3>1 DEF Frames
    <3>2. CASE x \notin 1 .. Len(s)
      <4>1. x - Len(s) \in 1 .. Len(t) /\ Len(s) + (x - Len(s)) = x
        BY <2>1, <3>2
      <4>2. (s \o t)[x] = t[x - Len(s)]
        BY <2>1, <4>1
      <4> QED BY <2>1, <4>1, <4>2 DEF Frames
    <3> QED BY <3>1, <3>2
  <2>3. ASSUME NEW x \in DOMAIN s PROVE s[x] \in Frames(s \o t)
    BY <2>1 DEF Frames
  <2>4. ASSUME NEW x \in DOMAIN t PROVE t[x] \in Frames(s \o t)
    <3>1. Len(s) + x \in DOMAIN (s \o t) /\ (s \o t)[Len(s) + x] = t[x]
      BY <2>1
    <3> QED BY <3>1 DEF Frames
  <2>5. Frames(s \o t) \subseteq Frames(s) \cup Frames(t)
    BY <2>2 DEF Frames
  <2>6. Frames(s) \subseteq Frames(s \o t)
    <3> SUFFICES ASSUME NEW x \in DOMAIN s PROVE s[x] \in Frames(s \o t)
      BY DEF Frames
    <3> QED BY <2>3
  <2>7. Frames(t) \subseteq Frames(s \o t)
    <3> SUFFICES ASSUME NEW x \in DOMAIN t PROVE t[x] \in Frames(s \o t)
      BY DEF Frames
    <3> QED BY <2>4
  <2> QED BY <2>5, <2>6, <2>7
<1>3. ASSUME NEW s \in Seq(Nat), NEW n \in Nat
      PROVE  Frames(Append(s, n)) = Frames(s) \cup {n}
  <2>1. /\ Len(s) \in Nat /\ DOMAIN s = 1 .. Len(s)
        /\ DOMAIN Append(s, n) = 1 .. (Len(s) + 1)
        /\ \A x \in 1 .. Len(s) : Append(s, n)[x] = s[x]
        /\ Append(s, n)[Len(s) + 1] = n
    OBVIOUS
  <2>2. \A x \in DOMAIN Append(s, n) : x \in DOMAIN s \/ x = Len(s) + 1
    BY <2>1
  <2>3. \A x \in DOMAIN s : x \in DOMAIN Append(s, n)
    BY <2>1
  <2>4. Len(s) + 1 \in DOMAIN Append(s, n)
    BY <2>1
  <2> DEFINE a == Append(s, n)
  <2>5. /\ \A x \in DOMAIN a : x \in DOMAIN s \/ x = Len(s) + 1
        /\ \A x \in DOMAIN s : x \in DOMAIN a /\ a[x] = s[x]
        /\ Len(s) + 1 \in DOMAIN a /\ a[Len(s) + 1] = n
    BY <2>1, <2>2, <2>3, <2>4
  <2> HIDE DEF a
  <2>6. Frames(a) = Frames(s) \cup {n}
    BY <2>5 DEF Frames
  <2> QED BY <2>6 DEF a
<1>4. ASSUME NEW s \in Seq(Nat), NEW i \in Nat, NEW j \in Nat, j <= Len(s)
      PROVE  Frames(SubSeq(s, i + 1, j)) = {s[x] : x \in (i + 1) .. j}
  <2> DEFINE c == SubSeq(s, i + 1, j)
  <2>1. CASE i + 1 > j
    <3>1. c = <<>>
      BY <2>1
    <3>2. (i + 1) .. j = {}
      BY <2>1
    <3> QED BY <1>1, <3>1, <3>2
  <2>2. CASE i + 1 <= j
    <3>1. DOMAIN c = 1 .. (j - i) /\ \A x \in 1 .. (j - i) : c[x] = s[i + x]
      BY <2>2
    <3> HIDE DEF c
    <3>2. \A x \in DOMAIN c : i + x \in (i + 1) .. j /\ c[x] = s[i + x]
      BY <3>1
    <3>3. \A x \in (i + 1) .. j : x - i \in DOMAIN c /\ c[x - i] = s[x]
      <4> TAKE x \in (i + 1) .. j
      <4>1. x - i \in 1 .. (j - i) /\ i + (x - i) = x
        OBVIOUS
      <4> QED BY <3>1, <4>1
    <3>4. Frames(c) = {s[x] : x \in (i + 1) .. j}
      BY <3>2, <3>3 DEF Frames
    <3> QED BY <3>4 DEF c
  <2> QED BY <2>1, <2>2
<1> QED BY <1>1, <1>2, <1>3, <1>4

\* What counting does.
LEMMA SpendFacts ==
  ASSUME count \in Counts, NEW what \in {"calls", "compactions", "failures", "crashes"},
         Spend(what)
  PROVE  /\ count' \in Counts
         /\ count'.failures = count.failures + (IF what = "failures" THEN 1 ELSE 0)
BY DEF Spend, Counts

\* The phases before and after a rotation.
LEMMA RotationPhases ==
  /\ \A at \in {"none", "fence", "snapshot", "precopy"} : at \notin Rotation
  /\ Swapping = {"closed", "snapshotNamed", "snapshotSynced", "walNamed", "walSynced"}
  /\ Settled = Swapping \cup {"drained", "closing"}
  /\ Rotation = Settled \cup {"draining"}
BY DEF Rotation, Settled, Swapping
-----------------------------------------------------------------------------
\* A call begins, or leaves its place at the gate.
LEMMA CallKeeps ==
  ASSUME PhaseInv, NEW w \in Writers, NEW k \in Keys, NEW del \in BOOLEAN, Call(w, k, del)
  PROVE  PhaseInv'
<1>1. /\ writer' \in [Writers -> Calls]
      /\ \A v \in Writers : writer'[v] = writer[v] \/ writer'[v].at \in {"parked", "gated"}
      /\ rotateLock => \A v \in Writers : writer'[v] = writer[v] \/ writer'[v].at = "parked"
  BY TypeParts, FreshTypes DEF PhaseInv, Call, Calls
<1>2. count' \in Counts /\ count'.failures = count.failures
  BY TypeParts, SpendFacts DEF PhaseInv, Call, Counts
<1>3. TypeOK'
  BY <1>1, <1>2, TypeParts, TypePartsNext DEF PhaseInv, Call
<1>4. Phases'
  <2>1. compaction.at \in Swapping => rotateLock
    BY RotationPhases DEF PhaseInv, TypeOK
  <2> QED BY <1>1, <2>1 DEF PhaseInv, Phases, Microtasks, Call, Flushed
<1>5. Answers'
  BY <1>1, <1>2 DEF PhaseInv, Answers, Call
<1>6. Known'
  BY DEF PhaseInv, Known, Call
<1> QED BY <1>3, <1>4, <1>5, <1>6 DEF PhaseInv

\* A writer leaves the wait for the rotation.
LEMMA UnparkKeeps ==
  ASSUME PhaseInv, NEW w \in Writers, Unpark(w)
  PROVE  PhaseInv'
<1>1. /\ writer' \in [Writers -> Calls]
      /\ \A v \in Writers : writer'[v] = writer[v] \/ writer'[v].at \in {"idle", "gated"}
  <2>1. writer' = [writer EXCEPT ![w] = NoCall] \/ writer' = [writer EXCEPT ![w].at = "gated"]
    BY DEF Unpark
  <2>2. \A call \in Calls : [call EXCEPT !.at = "gated"] \in Calls
    BY DEF Calls
  <2>3. writer \in [Writers -> Calls]
    BY TypeParts DEF PhaseInv
  <2>4. CASE writer' = [writer EXCEPT ![w] = NoCall]
    BY <2>3, <2>4, FreshTypes
  <2>5. CASE writer' = [writer EXCEPT ![w].at = "gated"]
    BY <2>2, <2>3, <2>5 DEF Calls
  <2> QED BY <2>1, <2>4, <2>5
<1>2. TypeOK'
  BY <1>1, TypeParts, TypePartsNext DEF PhaseInv, Unpark
<1>3. Phases'
  <2>1. compaction.at \notin Swapping
    BY RotationPhases DEF PhaseInv, TypeOK, Unpark
  <2> QED BY <2>1 DEF PhaseInv, Phases, Unpark, Flushed
<1>4. Answers'
  BY <1>1 DEF PhaseInv, Answers, Unpark
<1>5. Known'
  BY DEF PhaseInv, Known, Unpark
<1> QED BY <1>2, <1>3, <1>4, <1>5 DEF PhaseInv

\* A commit is made.
LEMMA CommitKeeps ==
  ASSUME PhaseInv, NEW w \in Writers, Commit(w)
  PROVE  PhaseInv'
<1> DEFINE n == Len(commits) + 1
<1>1. writer[w] \in Calls /\ n \in Nat /\ store[writer[w].key] \in Nat
  BY TypeParts DEF PhaseInv, Calls, Commits
<1>2. commits' \in Commits /\ DOMAIN commits \subseteq DOMAIN commits'
  BY <1>1, TypeParts DEF PhaseInv, Commit, Commits, Calls
<1>3. store' \in [Keys -> Nat]
  BY <1>1, TypeParts DEF PhaseInv, Commit, Absent, Calls
<1>4. wal' \in WalObjects
  <2>1. Append(wal.queue, n) \in Seq(Nat)
    BY <1>1, TypeParts DEF PhaseInv, WalObjects
  <2> QED BY <2>1, TypeParts DEF PhaseInv, Commit, WalObjects
<1>5. /\ writer' \in [Writers -> Calls]
      /\ \A v \in Writers : v # w => writer'[v] = writer[v]
  BY <1>1, TypeParts DEF PhaseInv, Commit, Calls
<1>6. TypeOK'
  BY <1>2, <1>3, <1>4, <1>5, TypeParts, TypePartsNext DEF PhaseInv, Commit
<1>7. Phases'
  <2>1. compaction.at \notin Swapping
    BY RotationPhases DEF PhaseInv, TypeOK, Commit, Phases, Microtasks
  <2>2. /\ wal'.status = wal.status /\ wal'.size = wal.size
        /\ wal.status # "open" => wal' = wal
    BY TypeParts DEF PhaseInv, Commit, WalObjects
  <2>3. wal.status = "closed" \/ compaction.at \in Settled => wal.status # "open"
    BY RotationPhases DEF PhaseInv, Phases, TypeOK
  <2> QED BY <2>1, <2>2, <2>3 DEF PhaseInv, Phases, Commit, Flushed
<1>8. Answers'
  <2>1. wal'.status = wal.status
    BY TypeParts DEF PhaseInv, Commit, WalObjects
  <2>2. writer'[w].at = "failed" => wal.status # "open" /\ ~rotateLock
    BY <1>1, TypeParts DEF PhaseInv, Commit, Retried, Calls
  <2> QED BY <1>5, <2>1, <2>2 DEF PhaseInv, Answers, Commit
<1>9. Known'
  <2>1. n \in DOMAIN commits'
    BY <1>1, TypeParts DEF PhaseInv, Commit, Commits
  <2>2. wal.queue \in Seq(Nat) /\ wal'.batch = wal.batch /\ wal'.queue \in {wal.queue, Append(wal.queue, n)}
    BY TypeParts DEF PhaseInv, Commit, WalObjects
  <2>3. Frames(wal'.queue) \subseteq Frames(wal.queue) \cup {n}
    BY <1>1, <2>2, FramesOf
  <2> QED BY <1>2, <2>1, <2>2, <2>3 DEF PhaseInv, Known
<1> QED BY <1>6, <1>7, <1>8, <1>9 DEF PhaseInv

\* A commit is taken back.
LEMMA TakeBackKeeps ==
  ASSUME PhaseInv, NEW w \in Writers, TakeBack(w)
  PROVE  PhaseInv'
<1>1. writer[w] \in Calls
  BY TypeParts DEF PhaseInv
<1>2. store' \in [Keys -> Nat] /\ spoiled' \subseteq Keys /\ refused' \in BOOLEAN
  BY <1>1, TypeParts DEF PhaseInv, TakeBack, Calls
<1>3. /\ writer' \in [Writers -> Calls]
      /\ \A v \in Writers : writer'[v] = writer[v] \/ writer'[v].at \in {"idle", "retrying"}
  <2>1. writer' = [writer EXCEPT ![w] = NoCall] \/ writer' = [writer EXCEPT ![w].at = "retrying"]
    BY DEF TakeBack
  <2>2. \A call \in Calls : [call EXCEPT !.at = "retrying"] \in Calls
    BY DEF Calls
  <2>3. writer \in [Writers -> Calls]
    BY TypeParts DEF PhaseInv
  <2>4. CASE writer' = [writer EXCEPT ![w] = NoCall]
    BY <2>3, <2>4, FreshTypes
  <2>5. CASE writer' = [writer EXCEPT ![w].at = "retrying"]
    BY <2>2, <2>3, <2>5 DEF Calls
  <2> QED BY <2>1, <2>4, <2>5
<1>4. TypeOK'
  BY <1>2, <1>3, TypeParts, TypePartsNext DEF PhaseInv, TakeBack
<1>5. Phases'
  BY <1>3 DEF PhaseInv, Phases, TakeBack, Microtasks, Flushed
<1>6. Answers'
  BY <1>3 DEF PhaseInv, Answers, TakeBack
<1>7. Known'
  BY DEF PhaseInv, Known, TakeBack
<1> QED BY <1>4, <1>5, <1>6, <1>7 DEF PhaseInv
-----------------------------------------------------------------------------
\* A batch is written.
LEMMA WriteBatchKeeps ==
  ASSUME PhaseInv, WriteBatch
  PROVE  PhaseInv'
<1>1. /\ wal.queue \in Seq(Nat) /\ disk.wal \in Seq(Nat) /\ wal.size \in Nat
      /\ wal.queue # <<>>
  BY TypeParts DEF PhaseInv, WriteBatch, WalObjects, Files
<1>2. /\ disk.wal \o wal.queue \in Seq(Nat)
      /\ Len(disk.wal \o wal.queue) = Len(disk.wal) + Len(wal.queue)
      /\ Len(wal.queue) \in Nat /\ Len(disk.wal) \in Nat
  BY <1>1, SeqsOfNumbers
<1>3. /\ disk' \in Files /\ disk'.wal = disk.wal \o wal.queue
      /\ wal' \in WalObjects /\ wal'.size = wal.size + Len(wal.queue)
      /\ wal'.status = wal.status
  <2>1. disk' \in Files /\ disk'.wal = disk.wal \o wal.queue
    BY <1>1, <1>2, TypeParts DEF PhaseInv, WriteBatch, Files
  <2>2. wal' = [wal EXCEPT !.batch = wal.queue, !.queue = <<>>, !.size = wal.size + Len(wal.queue)]
    BY DEF WriteBatch
  <2>3. wal' \in WalObjects /\ wal'.size = wal.size + Len(wal.queue) /\ wal'.status = wal.status
    <3>1. wal \in WalObjects /\ wal.size + Len(wal.queue) \in Nat
      BY <1>1, <1>2, TypeParts DEF PhaseInv
    <3> QED BY <1>1, <2>2, <3>1, EmptyLog DEF WalObjects
  <2> QED BY <2>1, <2>3
<1>4. TypeOK'
  BY <1>3, TypeParts, TypePartsNext DEF PhaseInv, WriteBatch
<1>5. Phases'
  <2>1. wal.status # "closed" /\ compaction.at \notin Settled
    BY <1>1 DEF PhaseInv, Phases, Flushed
  <2>2. compaction.at \notin {"walNamed", "walSynced"} \cup Swapping
    BY <2>1, RotationPhases
  <2>3. compaction.copied \in Nat
    BY TypeParts DEF PhaseInv, Compactions
  <2>4. UNCHANGED <<writer, compaction, rotateLock>>
    BY DEF WriteBatch
  <2>5. wal'.size = Len(disk'.wal) /\ wal'.size \in Nat /\ wal.size <= wal'.size
    <3>1. wal.size = Len(disk.wal)
      BY <2>1, <2>2 DEF PhaseInv, Phases
    <3>2. Len(disk'.wal) = Len(disk.wal) + Len(wal.queue)
      BY <1>2, <1>3
    <3>3. wal'.size = Len(disk.wal) + Len(wal.queue)
      BY <1>3, <3>1
    <3>4. wal'.size = Len(disk'.wal)
      BY <3>2, <3>3
    <3>5. wal.size \in Nat /\ Len(wal.queue) \in Nat /\ Len(disk.wal) \in Nat
      BY <1>1
    <3>6. wal'.size \in Nat
      BY <1>3 DEF WalObjects
    <3>7. wal'.size = wal.size + Len(wal.queue)
      BY <1>3
    <3>8. wal.size <= wal'.size
      BY <3>5, <3>7
    <3> QED BY <3>4, <3>6, <3>8
  <2>6. compaction.at \in {"snapshot", "precopy"} \cup Rotation => compaction.copied <= wal'.size
    BY <1>1, <1>2, <1>3, <2>3 DEF PhaseInv, Phases
  <2>7. compaction'.at \notin Settled /\ compaction'.at \notin Swapping /\ wal'.status # "closed"
    BY <1>3, <2>1, <2>2, <2>4
  <2>8. (rotateLock' => wal'.status # "open") /\ (compaction'.at = "fence" => ~compaction'.appended)
    BY <1>3, <2>4 DEF PhaseInv, Phases
  <2>9. wal'.size <= Len(disk'.wal)
    BY <2>5
  <2> QED BY <2>4, <2>5, <2>6, <2>7, <2>8, <2>9 DEF Phases
<1>6. Answers'
  BY <1>3 DEF PhaseInv, Answers, WriteBatch
<1>7. Known'
  <2>1. wal'.queue = <<>> /\ wal'.batch = wal.queue /\ commits' = commits
    BY TypeParts DEF PhaseInv, WriteBatch, WalObjects
  <2> QED BY <2>1, FramesOf DEF PhaseInv, Known
<1> QED BY <1>4, <1>5, <1>6, <1>7 DEF PhaseInv

\* A batch is synced and acknowledged.
LEMMA SyncBatchKeeps ==
  ASSUME PhaseInv, SyncBatch
  PROVE  PhaseInv'
<1>1. wal' \in WalObjects /\ wal'.size = wal.size /\ wal'.status = wal.status
      /\ wal'.queue = wal.queue
  BY EmptyIsSeq, TypeParts DEF PhaseInv, SyncBatch, WalObjects
<1>2. durable' \in Files
  BY TypeParts DEF PhaseInv, SyncBatch, Files
<1>3. /\ writer' \in [Writers -> Calls]
      /\ \A v \in Writers : writer'[v] = writer[v] \/ writer'[v].at = "idle"
  BY TypeParts, FreshTypes DEF PhaseInv, SyncBatch
<1>4. TypeOK'
  BY <1>1, <1>2, <1>3, TypeParts, TypePartsNext DEF PhaseInv, Known, SyncBatch
<1>5. Phases'
  <2>1. wal.status # "closed" /\ compaction.at \notin Settled
    BY DEF PhaseInv, Phases, Flushed, SyncBatch
  <2>2. compaction.at \notin Swapping
    BY <2>1, RotationPhases
  <2> QED BY <1>1, <2>1, <2>2 DEF PhaseInv, Phases, SyncBatch
<1>6. Answers'
  BY <1>1, <1>3 DEF PhaseInv, Answers, SyncBatch
<1>7. Known'
  <2>1. wal'.queue = wal.queue /\ wal'.batch = <<>> /\ commits' = commits
    BY TypeParts DEF PhaseInv, SyncBatch, WalObjects
  <2> QED BY <2>1, FramesOf DEF PhaseInv, Known
<1> QED BY <1>4, <1>5, <1>6, <1>7 DEF PhaseInv

\* What rejecting a batch does.
LEMMA RejectedFacts ==
  ASSUME writer \in [Writers -> Calls], NEW batch
  PROVE  /\ Rejected(batch) \in [Writers -> Calls]
         /\ \A w \in Writers : Rejected(batch)[w] = writer[w] \/ Rejected(batch)[w].at = "failed"
BY DEF Rejected, Calls

\* A batch fails.
LEMMA FailBatchKeeps ==
  ASSUME PhaseInv, FailBatch
  PROVE  PhaseInv'
<1>1. /\ wal.queue \in Seq(Nat) /\ disk.wal \in Seq(Nat) /\ wal.size \in Nat
      /\ compaction.copied \in Nat /\ count \in Counts /\ writer \in [Writers -> Calls]
  BY TypeParts DEF PhaseInv, FailBatch, WalObjects, Files, Compactions
<1>2. count' \in Counts /\ count'.failures > 0
  <2>1. Spend("failures")
    BY DEF FailBatch
  <2> QED BY <1>1, <2>1 DEF Spend, Counts
<1>3. writer' \in [Writers -> Calls]
  <2>1. writer' = Rejected(wal.batch) \/ writer' = Rejected(wal.queue)
    BY DEF FailBatch
  <2> QED BY <1>1, <2>1, RejectedFacts
<1>4. wal.status # "closed" /\ compaction.at \notin Settled
  BY DEF PhaseInv, Phases, Flushed, FailBatch
<1>5. compaction.at \notin {"walNamed", "walSynced"} \cup Swapping
  BY <1>4, RotationPhases
<1>6. CASE wal.batch # <<>>
  <2>1. wal' \in WalObjects /\ wal'.size = wal.size /\ wal'.status = wal.status /\ disk' = disk
    BY <1>6, EmptyIsSeq, TypeParts DEF PhaseInv, FailBatch, WalObjects
  <2>2. TypeOK'
    BY <1>2, <1>3, <2>1, TypeParts, TypePartsNext DEF PhaseInv, FailBatch
  <2>3. Phases'
    BY <1>4, <1>5, <2>1 DEF PhaseInv, Phases, FailBatch
  <2>4. Answers'
    BY <1>2 DEF Answers
  <2>5. Known'
    <3>1. wal'.queue = wal.queue /\ wal'.batch = <<>> /\ commits' = commits
      BY <1>6, TypeParts DEF PhaseInv, FailBatch, WalObjects
    <3> QED BY <3>1, FramesOf DEF PhaseInv, Known
  <2> QED BY <2>2, <2>3, <2>4, <2>5 DEF PhaseInv
<1>7. CASE wal.batch = <<>>
  <2>1. PICK landed \in 0 .. Len(wal.queue) :
           /\ disk' = [disk EXCEPT !.wal = disk.wal \o SubSeq(wal.queue, 1, landed)]
           /\ wal' = [wal EXCEPT !.queue = <<>>, !.size = wal.size + landed]
    BY <1>7 DEF FailBatch
  <2> DEFINE part == SubSeq(wal.queue, 1, landed)
  <2>2. part \in Seq(Nat) /\ Len(part) = landed /\ landed \in Nat
    BY <1>1
  <2> HIDE DEF part
  <2>3. /\ disk.wal \o part \in Seq(Nat)
        /\ Len(disk.wal \o part) = Len(disk.wal) + landed /\ Len(disk.wal) \in Nat
    <3>1. Len(disk.wal \o part) = Len(disk.wal) + Len(part) /\ disk.wal \o part \in Seq(Nat)
      BY <1>1, <2>2, SeqsOfNumbers
    <3> QED BY <1>1, <2>2, <3>1
  <2>4. disk' \in Files /\ disk'.wal = disk.wal \o part
    BY <2>1, <2>3, TypeParts DEF PhaseInv, Files, part
  <2>5. wal' \in WalObjects /\ wal'.size = wal.size + landed /\ wal'.status = wal.status
    <3>1. wal \in WalObjects /\ wal.size + landed \in Nat
      BY <1>1, <2>2, TypeParts DEF PhaseInv
    <3> QED BY <2>1, <3>1, EmptyLog DEF WalObjects
  <2>6. TypeOK'
    BY <1>2, <1>3, <2>4, <2>5, TypeParts, TypePartsNext DEF PhaseInv, FailBatch
  <2>7. Phases'
    <3>1. UNCHANGED <<compaction, rotateLock>>
      BY DEF FailBatch
    <3>2. wal.size <= Len(disk.wal) /\ wal.size = Len(disk.wal)
      BY <1>4, <1>5 DEF PhaseInv, Phases
    <3>3. wal'.size <= Len(disk'.wal) /\ wal'.size = Len(disk'.wal) /\ wal.size <= wal'.size
      BY <1>1, <2>2, <2>3, <2>4, <2>5, <3>2
    <3>4. compaction.at \in {"snapshot", "precopy"} \cup Rotation => compaction.copied <= wal'.size
      BY <1>1, <2>2, <2>5, <3>3 DEF PhaseInv, Phases
    <3> QED BY <1>4, <1>5, <2>5, <3>1, <3>3, <3>4 DEF PhaseInv, Phases
  <2>8. Answers'
    BY <1>2 DEF Answers
  <2>9. Known'
    <3>1. wal'.queue = <<>> /\ wal'.batch = <<>> /\ commits' = commits
      BY <1>7, <2>1, TypeParts DEF PhaseInv, FailBatch, WalObjects
    <3> QED BY <3>1, FramesOf DEF Known
  <2> QED BY <2>6, <2>7, <2>8, <2>9 DEF PhaseInv
<1> QED BY <1>6, <1>7
-----------------------------------------------------------------------------
\* What the invariant says of the objects a compaction works on.
LEMMA Objects ==
  ASSUME PhaseInv
  PROVE  /\ wal \in WalObjects /\ compaction \in Compactions /\ count \in Counts
         /\ disk \in Files /\ durable \in Files /\ tmp \in Files
         /\ wal.size \in Nat /\ compaction.copied \in Nat
         /\ wal.queue \in Seq(Nat) /\ wal.batch \in Seq(Nat)
         /\ disk.wal \in Seq(Nat) /\ durable.wal \in Seq(Nat) /\ tmp.wal \in Seq(Nat)
         /\ rotateLock = (compaction.at \in Rotation)
         /\ Copied \in Seq(Nat)
BY TypeParts, EmptyLog DEF PhaseInv, WalObjects, Compactions, Files, Copied

\* A step that leaves the log, its file and the writers alone keeps the
\* invariant, if the compaction goes to a phase that allows it.
LEMMA QuietPhase ==
  ASSUME PhaseInv, compaction' \in Compactions, tmp' \in Files, durable' \in Files,
         count' \in Counts, count'.failures >= count.failures,
         UNCHANGED <<commits, store, writer, wal, disk, rotateLock, acked, spoiled, refused>>,
         rotateLock = (compaction'.at \in Rotation),
         compaction'.at \in Settled => Flushed,
         compaction'.at \in Swapping => ~Microtasks,
         compaction'.at \notin {"walNamed", "walSynced"} =>
            compaction.at \notin {"walNamed", "walSynced"},
         compaction'.at = "fence" => ~compaction'.appended,
         compaction'.at \in {"snapshot", "precopy"} \cup Rotation => compaction'.copied <= wal.size
  PROVE  PhaseInv'
<1>1. TypeOK'
  BY TypeParts, TypePartsNext DEF PhaseInv
<1>2. Known'
  BY DEF PhaseInv, Known
<1>3. Phases'
  BY DEF PhaseInv, Phases, Flushed, Microtasks
<1>4. Answers'
  <2>1. count.failures \in Nat /\ count'.failures \in Nat
    BY TypeParts DEF PhaseInv, Counts
  <2>2. count.failures > 0 => count'.failures > 0
    BY <2>1
  <2> QED BY <2>2 DEF PhaseInv, Answers
<1> QED BY <1>1, <1>2, <1>3, <1>4 DEF PhaseInv

\* A compaction begins, fences the log, dumps a key, or is given up.
LEMMA EarlyKeeps ==
  ASSUME PhaseInv,
         BeginCompaction \/ Fence \/ (\E k \in Keys : SnapshotKey(k)) \/ FailEarly
  PROVE  PhaseInv'
<1>1. CASE BeginCompaction
  <2>1. /\ compaction' = [NoCompaction EXCEPT !.at = "fence"] /\ compaction.at = "none"
        /\ Spend("compactions")
        /\ UNCHANGED <<commits, store, writer, wal, disk, durable, tmp, rotateLock, acked, spoiled, refused>>
    BY <1>1 DEF BeginCompaction
  <2>2. compaction' \in Compactions /\ compaction'.at = "fence" /\ ~compaction'.appended
    BY <2>1 DEF NoCompaction, Compactions
  <2>3. count' \in Counts /\ count'.failures >= count.failures
    BY <2>1, Objects, SpendFacts DEF Counts
  <2>4. compaction.at \notin Rotation /\ compaction'.at \notin Rotation
    BY <2>1, <2>2, RotationPhases
  <2>5. compaction'.at \notin Settled /\ compaction'.at \notin Swapping /\ compaction.at \notin {"walNamed", "walSynced"}
    BY <2>1, <2>2, RotationPhases
  <2>6. compaction'.at \notin {"snapshot", "precopy"}
    BY <2>2
  <2> QED BY <2>1, <2>2, <2>3, <2>4, <2>5, <2>6, Objects, QuietPhase
<1>2. CASE Fence
  <2>1. /\ compaction' = [compaction EXCEPT !.at = "snapshot", !.todo = Keys, !.copied = wal.size]
        /\ compaction.at = "fence"
        /\ UNCHANGED <<commits, store, writer, wal, disk, durable, tmp, rotateLock, acked, spoiled, refused, count>>
    BY <1>2 DEF Fence
  <2>2. compaction' \in Compactions /\ compaction'.at = "snapshot" /\ compaction'.copied = wal.size
    BY <2>1, Objects DEF Compactions
  <2>3. compaction.at \notin Rotation /\ compaction'.at \notin Rotation
    BY <2>1, <2>2, RotationPhases
  <2>4. compaction'.at \notin Settled /\ compaction'.at \notin Swapping /\ compaction.at \notin {"walNamed", "walSynced"}
    BY <2>1, <2>2, RotationPhases
  <2>5. compaction'.copied <= wal.size /\ count.failures >= count.failures
    BY <2>2, Objects DEF Counts
  <2> QED BY <2>1, <2>2, <2>3, <2>4, <2>5, Objects, QuietPhase
<1>3. ASSUME NEW k \in Keys, SnapshotKey(k) PROVE PhaseInv'
  <2>1. /\ compaction' = [compaction EXCEPT !.todo = compaction.todo \ {k},
                              !.at = IF compaction.todo = {k} THEN "precopy" ELSE "snapshot"]
        /\ compaction.at = "snapshot"
        /\ tmp' = [tmp EXCEPT !.snapshot[k] = store[k]]
        /\ UNCHANGED <<commits, store, writer, wal, disk, durable, rotateLock, acked, spoiled, refused, count>>
    BY <1>3 DEF SnapshotKey
  <2>2. /\ compaction' \in Compactions /\ compaction'.at \in {"snapshot", "precopy"}
        /\ compaction'.copied = compaction.copied
    BY <2>1, Objects DEF Compactions
  <2>3. compaction.at \notin Rotation /\ compaction'.at \notin Rotation
    BY <2>1, <2>2, RotationPhases
  <2>4. compaction'.at \notin Settled /\ compaction'.at \notin Swapping /\ compaction.at \notin {"walNamed", "walSynced"}
    BY <2>1, <2>2, RotationPhases
  <2>5. compaction'.copied <= wal.size /\ count.failures >= count.failures
    BY <2>1, <2>2, Objects DEF Counts, PhaseInv, Phases
  <2>6. tmp' \in Files
    BY <2>1, TypeParts DEF PhaseInv, Files
  <2> QED BY <2>1, <2>2, <2>3, <2>4, <2>5, <2>6, Objects, QuietPhase
<1>4. CASE FailEarly
  <2>1. /\ compaction' = NoCompaction /\ compaction.at \in {"snapshot", "precopy"}
        /\ Spend("failures")
        /\ UNCHANGED <<commits, store, writer, wal, disk, durable, tmp, rotateLock, acked, spoiled, refused>>
    BY <1>4 DEF FailEarly
  <2>2. compaction' \in Compactions /\ compaction'.at = "none"
    BY <2>1, FreshTypes
  <2>3. count' \in Counts /\ count'.failures >= count.failures
    BY <2>1, Objects, SpendFacts DEF Counts
  <2>4. compaction.at \notin Rotation /\ compaction'.at \notin Rotation
    BY <2>1, <2>2, RotationPhases
  <2>5. compaction'.at \notin Settled /\ compaction'.at \notin Swapping /\ compaction.at \notin {"walNamed", "walSynced"}
    BY <2>1, <2>2, RotationPhases
  <2>6. compaction'.at \notin {"snapshot", "precopy"} /\ compaction'.at # "fence"
    BY <2>2
  <2> QED BY <2>1, <2>2, <2>3, <2>4, <2>5, <2>6, Objects, QuietPhase
<1> QED BY <1>1, <1>2, <1>3, <1>4

\* What the copy of the rest of the log makes.
LEMMA CopyTailFacts ==
  ASSUME PhaseInv, NEW then, CopyTail(then),
         compaction.at \in {"precopy", "drained"},
         then \in {"precopy", "draining"}
  PROVE  /\ compaction' \in Compactions /\ compaction'.at = then
         /\ compaction'.copied = wal.size /\ compaction'.appended
         /\ tmp' \in Files /\ tmp'.snapshot = tmp.snapshot
         /\ tmp'.wal = Copied \o SubSeq(disk.wal, compaction.copied + 1, wal.size)
<1>1. wal.size <= Len(disk.wal)
  BY DEF PhaseInv, Phases
<1> DEFINE rest == SubSeq(disk.wal, compaction.copied + 1, wal.size)
<1>2. rest \in Seq(Nat)
  BY <1>1, Objects, SeqsOfNumbers
<1> HIDE DEF rest
<1>3. Copied \o rest \in Seq(Nat)
  BY <1>2, Objects, SeqsOfNumbers
<1>4. tmp' = [tmp EXCEPT !.wal = Copied \o rest]
  BY DEF CopyTail, rest
<1>5. tmp' \in Files /\ tmp'.snapshot = tmp.snapshot /\ tmp'.wal = Copied \o rest
  BY <1>3, <1>4, Objects DEF Files
<1>6. /\ compaction' \in Compactions /\ compaction'.at = then
      /\ compaction'.copied = wal.size /\ compaction'.appended
  <2>1. compaction' = [compaction EXCEPT !.copied = wal.size, !.appended = TRUE,
                                         !.passes = compaction.passes + 1, !.at = then]
    BY DEF CopyTail
  <2>2. then \in {"none", "fence", "snapshot", "precopy"} \cup Rotation
    BY DEF Rotation
  <2>3. compaction \in Compactions /\ wal.size \in Nat
    BY Objects
  <2>4. compaction.passes + 1 \in Nat
    BY <2>3 DEF Compactions
  <2> QED BY <2>1, <2>2, <2>3, <2>4 DEF Compactions
<1> QED BY <1>5, <1>6 DEF rest

\* The rest of the log is copied.
LEMMA CopyKeeps ==
  ASSUME PhaseInv, PreCopy \/ DrainCopy
  PROVE  PhaseInv'
<1> DEFINE Copies(then) ==
       /\ CopyTail(then)
       /\ compaction.at = (IF then = "precopy" THEN "precopy" ELSE "drained")
       /\ UNCHANGED <<commits, store, writer, wal, disk, durable, rotateLock, acked, spoiled, refused, count>>
<1>1. PICK then \in {"precopy", "draining"} : Copies(then)
  <2>1. CASE PreCopy
    <3>1. Copies("precopy")
      BY <2>1 DEF PreCopy
    <3> QED BY <3>1
  <2>2. CASE DrainCopy
    <3>1. Copies("draining")
      BY <2>2 DEF DrainCopy
    <3> QED BY <3>1
  <2> QED BY <2>1, <2>2
<1>2. /\ compaction' \in Compactions /\ compaction'.at = then
      /\ compaction'.copied = wal.size /\ tmp' \in Files
  BY <1>1, CopyTailFacts
<1>3. (compaction.at \in Rotation) = (compaction'.at \in Rotation)
  BY <1>1, <1>2 DEF Rotation
<1>4. compaction'.at \notin Settled /\ compaction'.at \notin Swapping /\ compaction.at \notin {"walNamed", "walSynced"}
  BY <1>1, <1>2 DEF Settled, Swapping, Rotation
<1>5. compaction'.copied <= wal.size /\ count.failures >= count.failures
  BY <1>2, Objects DEF Counts
<1>6. compaction'.at # "fence"
  BY <1>2
<1> QED BY <1>1, <1>2, <1>3, <1>4, <1>5, <1>6, Objects, QuietPhase

\* A sealed log is the log with another status.
LEMMA SealFacts ==
  ASSUME PhaseInv
  PROVE  /\ SealedWal \in WalObjects /\ SealedWal.status \in {"sealed", "closed"}
         /\ SealedWal.size = wal.size /\ SealedWal.queue = wal.queue /\ SealedWal.batch = wal.batch
         /\ SealedWal.status = "closed" <=> wal.status = "closed"
BY Objects DEF SealedWal, WalObjects

\* The rotation begins.
LEMMA SealKeeps ==
  ASSUME PhaseInv, Seal
  PROVE  PhaseInv'
<1>1. /\ compaction' = [compaction EXCEPT !.at = "draining"]
      /\ compaction.at = "precopy" /\ Flushed /\ rotateLock' /\ rotateLock' \in BOOLEAN
      /\ wal' = SealedWal
      /\ UNCHANGED <<commits, store, writer, disk, durable, tmp, acked, spoiled, refused, count>>
  BY DEF Seal
<1>2. /\ compaction' \in Compactions /\ compaction'.at = "draining"
      /\ compaction'.copied = compaction.copied
  BY <1>1, Objects DEF Compactions, Rotation
<1>3. /\ compaction'.at \in Rotation
      /\ compaction'.at \notin Settled /\ compaction'.at \notin Swapping
      /\ compaction.at \notin {"walNamed", "walSynced"}
  BY <1>1, <1>2 DEF Rotation, Settled, Swapping
<1>4. TypeOK'
  BY <1>1, <1>2, <1>3, SealFacts, TypeParts, TypePartsNext DEF PhaseInv
<1>5. Known'
  BY <1>1, SealFacts DEF PhaseInv, Known
<1>6. Phases'
  <2>1. wal'.size = wal.size /\ wal'.queue = <<>> /\ wal'.batch = <<>> /\ wal'.status # "open"
    BY <1>1, SealFacts DEF Flushed
  <2>2. Flushed'
    BY <2>1 DEF Flushed
  <2>3. wal.size <= Len(disk.wal) /\ (wal.status # "closed" => wal.size = Len(disk.wal))
    BY <1>3 DEF PhaseInv, Phases
  <2>4. wal'.status = "closed" <=> wal.status = "closed"
    BY <1>1, SealFacts
  <2>5. compaction'.copied <= wal'.size
    BY <1>1, <1>2, <2>1 DEF PhaseInv, Phases
  <2>6. compaction'.at # "fence"
    BY <1>2
  <2> QED BY <1>1, <1>3, <2>1, <2>2, <2>3, <2>4, <2>5, <2>6 DEF Phases
<1>7. Answers'
  BY <1>1 DEF PhaseInv, Answers
<1> QED BY <1>4, <1>5, <1>6, <1>7 DEF PhaseInv

\* The flush of the drain returns, the close of the log, or one of the names.
LEMMA RotationKeeps ==
  ASSUME PhaseInv, DrainFlushed \/ Closed
  PROVE  PhaseInv'
<1>1. CASE DrainFlushed
  <2>1. /\ compaction' = [compaction EXCEPT !.at = "drained"]
        /\ compaction.at = "draining" /\ Flushed
        /\ UNCHANGED <<commits, store, writer, wal, disk, durable, tmp, rotateLock, acked, spoiled, refused, count>>
    BY <1>1 DEF DrainFlushed
  <2>2. compaction' \in Compactions /\ compaction'.at = "drained" /\ compaction'.copied = compaction.copied
    BY <2>1, Objects DEF Compactions, Rotation
  <2>3. compaction.at \in Rotation /\ compaction'.at \in Rotation
        /\ compaction'.at \notin Swapping /\ compaction.at \notin {"walNamed", "walSynced"}
    BY <2>1, <2>2 DEF Rotation, Settled, Swapping
  <2>4. compaction'.copied <= wal.size /\ count.failures >= count.failures /\ compaction'.at # "fence"
    BY <2>1, <2>2, <2>3, Objects DEF Counts, PhaseInv, Phases
  <2> QED BY <2>1, <2>2, <2>3, <2>4, Objects, QuietPhase
<1>2. CASE Closed
  <2>1. /\ compaction' = [compaction EXCEPT !.at = "closed"]
        /\ compaction.at = "closing" /\ Flushed /\ ~Microtasks
        /\ durable' = [durable EXCEPT !.wal = disk.wal]
        /\ UNCHANGED <<commits, store, writer, wal, disk, tmp, rotateLock, acked, spoiled, refused, count>>
    BY <1>2 DEF Closed
  <2>2. compaction' \in Compactions /\ compaction'.at = "closed" /\ compaction'.copied = compaction.copied
    BY <2>1, Objects DEF Compactions, Rotation
  <2>3. compaction.at \in Rotation /\ compaction'.at \in Rotation /\ compaction.at \notin {"walNamed", "walSynced"}
    BY <2>1, <2>2 DEF Rotation
  <2>4. compaction'.copied <= wal.size /\ count.failures >= count.failures /\ compaction'.at # "fence"
    BY <2>1, <2>2, <2>3, Objects DEF Counts, PhaseInv, Phases
  <2>5. durable' \in Files
    BY <2>1, Objects DEF Files
  <2> QED BY <2>1, <2>2, <2>3, <2>4, <2>5, Objects, QuietPhase
<1> QED BY <1>1, <1>2

\* The log is closed.
LEMMA DrainEndsKeeps ==
  ASSUME PhaseInv, DrainEnds
  PROVE  PhaseInv'
<1>1. /\ compaction' = [compaction EXCEPT !.at = "closing"] /\ compaction.at = "drained"
      /\ wal' = [wal EXCEPT !.status = "closed"]
      /\ UNCHANGED <<commits, store, writer, disk, durable, tmp, rotateLock, acked, spoiled, refused, count>>
  BY DEF DrainEnds
<1>2. /\ compaction' \in Compactions /\ compaction'.at = "closing"
      /\ compaction'.copied = compaction.copied
      /\ wal' \in WalObjects /\ wal'.status = "closed" /\ wal'.size = wal.size
      /\ wal'.queue = wal.queue /\ wal'.batch = wal.batch
  BY <1>1, Objects DEF Compactions, Rotation, WalObjects
<1>3. /\ compaction.at \in Rotation /\ compaction'.at \in Rotation
      /\ compaction.at \in Settled /\ compaction'.at \notin Swapping
      /\ compaction.at \notin {"walNamed", "walSynced"}
  BY <1>1, <1>2 DEF Rotation, Settled, Swapping
<1>4. TypeOK'
  BY <1>1, <1>2, <1>3, TypeParts, TypePartsNext DEF PhaseInv
<1>5. Known'
  BY <1>1, <1>2 DEF PhaseInv, Known
<1>6. Phases'
  <2>1. Flushed'
    BY <1>2, <1>3 DEF PhaseInv, Phases, Flushed
  <2>2. wal'.size <= Len(disk'.wal) /\ compaction'.copied <= wal'.size
    BY <1>1, <1>2, <1>3 DEF PhaseInv, Phases
  <2>3. compaction'.at # "fence" /\ wal'.status # "open"
    BY <1>2
  <2> QED BY <1>2, <1>3, <2>1, <2>2, <2>3 DEF Phases
<1>7. Answers'
  <2>1. rotateLock'
    BY <1>1, <1>3, Objects
  <2> QED BY <1>1, <2>1 DEF PhaseInv, Answers
<1> QED BY <1>4, <1>5, <1>6, <1>7 DEF PhaseInv

\* The files are put in place.
LEMMA RenameKeeps ==
  ASSUME PhaseInv, Rename
  PROVE  PhaseInv'
<1>1. /\ compaction.at \in {"closed", "snapshotNamed", "snapshotSynced", "walNamed"}
      /\ \E to \in {"snapshotNamed", "snapshotSynced", "walNamed", "walSynced"} :
            compaction' = [compaction EXCEPT !.at = to]
      /\ disk' \in {NewSnapshot, NewWal, disk} /\ durable' \in {durable, disk}
      /\ UNCHANGED <<commits, store, writer, wal, tmp, rotateLock, acked, spoiled, refused, count>>
  BY DEF Rename, Place
<1>2. /\ compaction' \in Compactions /\ compaction'.copied = compaction.copied
      /\ compaction'.at \in {"snapshotNamed", "snapshotSynced", "walNamed", "walSynced"}
  BY <1>1, Objects DEF Compactions, Rotation
<1>3. /\ compaction.at \in Rotation /\ compaction'.at \in Rotation
      /\ compaction.at \in Swapping /\ compaction.at \in Settled
  BY <1>1, <1>2 DEF Rotation, Settled, Swapping
<1>4. disk' \in Files /\ durable' \in Files
  BY <1>1, Objects DEF Files, NewSnapshot, NewWal
<1>5. compaction'.at \notin {"walNamed", "walSynced"} =>
        compaction.at \notin {"walNamed", "walSynced"} /\ disk'.wal = disk.wal
  <2>1. CASE Place("closed", "snapshotNamed", NewSnapshot, durable)
    BY <2>1, Objects DEF Place, NewSnapshot, Files
  <2>2. CASE Place("snapshotNamed", "snapshotSynced", disk, disk)
    BY <2>2 DEF Place
  <2>3. CASE Place("snapshotSynced", "walNamed", NewWal, durable)
    BY <2>3, Objects DEF Place, Compactions
  <2>4. CASE Place("walNamed", "walSynced", disk, disk)
    BY <2>4, Objects DEF Place, Compactions
  <2> QED BY <2>1, <2>2, <2>3, <2>4 DEF Rename
<1>6. TypeOK'
  BY <1>1, <1>2, <1>3, <1>4, TypeParts, TypePartsNext DEF PhaseInv
<1>7. Known'
  BY <1>1 DEF PhaseInv, Known
<1>8. Phases'
  <2>1. Flushed' /\ ~Microtasks' /\ (rotateLock' => wal'.status # "open")
    BY <1>1, <1>3 DEF PhaseInv, Phases, Flushed, Microtasks
  <2>2. compaction'.at # "fence" /\ compaction'.copied <= wal'.size
    BY <1>1, <1>2, <1>3 DEF PhaseInv, Phases
  <2>3. compaction'.at \notin {"walNamed", "walSynced"} =>
          /\ wal'.size <= Len(disk'.wal)
          /\ wal'.status # "closed" => wal'.size = Len(disk'.wal)
    BY <1>1, <1>5 DEF PhaseInv, Phases
  <2> QED BY <2>1, <2>2, <2>3 DEF Phases
<1>9. Answers'
  BY <1>1 DEF PhaseInv, Answers
<1> QED BY <1>6, <1>7, <1>8, <1>9 DEF PhaseInv

\* What opening a log makes.
LEMMA OpenWalFacts ==
  ASSUME NEW log \in Seq(Nat)
  PROVE  /\ OpenWal(log) \in WalObjects /\ OpenWal(log).status = "open"
         /\ OpenWal(log).size = Len(log)
         /\ OpenWal(log).queue = <<>> /\ OpenWal(log).batch = <<>>
BY EmptyLog DEF OpenWal, WalObjects

\* The log is opened again: the compaction is over, the rotation has failed, or
\* the database recovers.
LEMMA FreshLog ==
  ASSUME PhaseInv, compaction' = NoCompaction, rotateLock' = FALSE,
         wal' \in WalObjects, wal'.queue = <<>>, wal'.batch = <<>>,
         wal'.size <= Len(disk'.wal),
         wal'.status = "open" => wal'.size = Len(disk'.wal),
         wal'.status = "sealed" => FALSE,
         wal'.status # "open" => count'.failures > 0,
         disk' \in Files, durable' \in Files, store' \in [Keys -> Nat],
         count' \in Counts, count'.failures >= count.failures,
         UNCHANGED <<commits, tmp, acked, spoiled, refused>>,
         writer' = writer \/ writer' = [w \in Writers |-> NoCall]
  PROVE  PhaseInv'
<1>1. compaction' \in Compactions /\ compaction'.at = "none" /\ writer' \in [Writers -> Calls]
  BY FreshTypes, TypeParts DEF PhaseInv
<1>2. /\ compaction'.at \notin Rotation /\ compaction'.at \notin Settled
      /\ compaction'.at \notin Swapping /\ ~rotateLock' /\ rotateLock' \in BOOLEAN
  BY <1>1, RotationPhases
<1>3. TypeOK'
  BY <1>1, <1>2, TypeParts, TypePartsNext DEF PhaseInv
<1>4. Known'
  BY FramesOf DEF Known
<1>5. Phases'
  <2>1. Flushed' /\ (wal'.status # "closed" => wal'.size = Len(disk'.wal))
    BY DEF Flushed, WalObjects
  <2> QED BY <1>1, <1>2, <2>1 DEF Phases
<1>6. Answers'
  <2>1. count.failures > 0 => count'.failures > 0
    BY Objects DEF Counts
  <2>2. \A w \in Writers : writer'[w].at = "failed" => writer[w].at = "failed"
    BY FreshTypes
  <2> QED BY <1>2, <2>1, <2>2 DEF PhaseInv, Answers
<1> QED BY <1>3, <1>4, <1>5, <1>6 DEF PhaseInv

\* The fresh log is open, after a compaction that succeeds or fails.
LEMMA ReopenKeeps ==
  ASSUME PhaseInv, Reopen \/ FailRotation
  PROVE  PhaseInv'
<1>1. CASE Reopen
  <2>1. /\ wal' = OpenWal(disk.wal) /\ rotateLock' = FALSE /\ compaction' = NoCompaction
        /\ UNCHANGED <<commits, store, writer, disk, durable, tmp, acked, spoiled, refused, count>>
    BY <1>1 DEF Reopen
  <2>2. /\ wal' \in WalObjects /\ wal'.queue = <<>> /\ wal'.batch = <<>> /\ wal'.status = "open"
        /\ wal'.size = Len(disk'.wal) /\ Len(disk'.wal) \in Nat
    BY <2>1, Objects, OpenWalFacts
  <2>3. wal'.size <= Len(disk'.wal)
    BY <2>2
  <2>4. count'.failures >= count.failures /\ count' \in Counts /\ store' \in [Keys -> Nat]
    BY <2>1, Objects, TypeParts DEF Counts, PhaseInv
  <2> QED BY <2>1, <2>2, <2>3, <2>4, Objects, FreshLog
<1>2. CASE FailRotation
  <2>1. /\ rotateLock' = FALSE /\ compaction' = NoCompaction /\ Spend("failures")
        /\ UNCHANGED <<commits, store, writer, disk, durable, tmp, acked, spoiled, refused>>
        /\ \/ wal' = OpenWal(disk.wal)
           \/ wal' = [OpenWal(disk.wal) EXCEPT !.status = "closed"]
           \/ wal' = [OpenWal(<<>>) EXCEPT !.status = "closed"]
    BY <1>2 DEF FailRotation, LockAfterFailure
  <2>2. /\ wal' \in WalObjects /\ wal'.queue = <<>> /\ wal'.batch = <<>>
        /\ wal'.status \in {"open", "closed"}
        /\ wal'.size = Len(disk.wal) \/ (wal'.size = 0 /\ wal'.status = "closed")
    <3>1. CASE wal' = OpenWal(disk.wal)
      BY <3>1, Objects, OpenWalFacts
    <3>2. CASE wal' = [OpenWal(disk.wal) EXCEPT !.status = "closed"]
      BY <3>2, Objects, OpenWalFacts DEF WalObjects
    <3>3. CASE wal' = [OpenWal(<<>>) EXCEPT !.status = "closed"]
      <4>1. OpenWal(<<>>) \in WalObjects /\ OpenWal(<<>>).size = 0
            /\ OpenWal(<<>>).queue = <<>> /\ OpenWal(<<>>).batch = <<>>
        BY EmptyLog, OpenWalFacts
      <4> QED BY <3>3, <4>1 DEF WalObjects
    <3> QED BY <2>1, <3>1, <3>2, <3>3
  <2>3. Len(disk.wal) \in Nat
    BY Objects
  <2>4. wal'.size <= Len(disk'.wal) /\ (wal'.status = "open" => wal'.size = Len(disk'.wal))
    BY <2>1, <2>2, <2>3
  <2>5. count'.failures >= count.failures /\ count' \in Counts /\ count'.failures > 0
    BY <2>1, Objects, SpendFacts DEF Counts
  <2>6. store' \in [Keys -> Nat]
    BY <2>1, TypeParts DEF PhaseInv
  <2> QED BY <2>1, <2>2, <2>4, <2>5, <2>6, Objects, FreshLog
<1> QED BY <1>1, <1>2

\* Of finitely many places there is a last one.
LEMMA LastFacts ==
  ASSUME NEW n \in Nat, NEW S \in SUBSET (1 .. n), S # {}
  PROVE  Last(S) \in S /\ \A i \in S : i <= Last(S)
<1> DEFINE R == {ss \in Nat \X Nat : ss[1] < ss[2]}
           T == {d \in Nat : n - d \in S}
<1>1. IsWellFoundedOn(R, Nat)
  BY NatLessThanWellFounded DEF OpToRel
<1>2. T \in SUBSET Nat /\ T # {}
  <2>1. PICK i \in S : TRUE
    OBVIOUS
  <2>2. n - i \in Nat /\ n - (n - i) = i
    BY <2>1
  <2> QED BY <2>1, <2>2
<1>3. PICK d \in T : \A e \in T : ~(<<e, d>> \in R)
  BY <1>1, <1>2, WFMin
<1>4. \A i \in S : i <= n - d
  <2> TAKE i \in S
  <2>1. n - i \in Nat /\ n - (n - i) = i
    OBVIOUS
  <2>2. n - i \in T
    BY <2>1
  <2>3. ~(n - i < d)
    BY <1>3, <2>1, <2>2
  <2> QED BY <2>1, <2>3
<1>5. n - d \in S
  OBVIOUS
<1>6. \E i \in S : \A j \in S : j <= i
  BY <1>4, <1>5
<1> QED BY <1>6 DEF Last

\* What a recovery finds are values.
LEMMA RecoverType ==
  ASSUME PhaseInv, NEW S \in [Keys -> Nat], NEW log \in Seq(Nat)
  PROVE  Recover(S, log) \in [Keys -> Nat]
<1> SUFFICES ASSUME NEW k \in Keys,
                    NEW places, places = {i \in DOMAIN log : commits[log[i]].key = k},
                    places # {}
             PROVE  Effect(log[Last(places)]) \in Nat
  BY DEF Recover
<1>1. Len(log) \in Nat /\ places \in SUBSET (1 .. Len(log))
  OBVIOUS
<1>2. Last(places) \in DOMAIN log
  BY <1>1, LastFacts
<1>3. log[Last(places)] \in Nat
  BY <1>2
<1> QED BY <1>3 DEF Effect, Absent

\* The database is opened again after a crash.
LEMMA RestartKeeps ==
  ASSUME PhaseInv, ProcessDies \/ PowerFails
  PROVE  PhaseInv'
<1>1. PICK files \in Files, synced \in Files : Restart(files, synced)
  <2>1. CASE ProcessDies
    BY <2>1, Objects DEF ProcessDies
  <2>2. CASE PowerFails
    BY <2>2, Objects DEF PowerFails, Remains, Files
  <2> QED BY <2>1, <2>2
<1>2. /\ disk' = files /\ durable' = synced /\ store' = Recover(files.snapshot, files.wal)
      /\ wal' = OpenWal(files.wal) /\ writer' = [w \in Writers |-> NoCall]
      /\ compaction' = NoCompaction /\ rotateLock' = FALSE /\ Spend("crashes")
      /\ UNCHANGED <<commits, tmp, acked, spoiled, refused>>
  BY <1>1 DEF Restart
<1>3. files.wal \in Seq(Nat) /\ files.snapshot \in [Keys -> Nat]
  BY DEF Files
<1>4. /\ wal' \in WalObjects /\ wal'.queue = <<>> /\ wal'.batch = <<>>
      /\ wal'.status = "open" /\ wal'.size = Len(disk'.wal) /\ Len(disk'.wal) \in Nat
  BY <1>2, <1>3, OpenWalFacts
<1>5. wal'.size <= Len(disk'.wal)
  BY <1>4
<1>6. count'.failures >= count.failures /\ count' \in Counts
  BY <1>2, Objects, SpendFacts DEF Counts
<1>7. store' \in [Keys -> Nat]
  BY <1>2, <1>3, RecoverType
<1> QED BY <1>2, <1>4, <1>5, <1>6, <1>7, Objects, FreshLog
-----------------------------------------------------------------------------
\* Every step keeps the invariant.
LEMMA StepKeeps ==
  ASSUME PhaseInv, Next
  PROVE  PhaseInv'
<1>1. ASSUME NEW w \in Writers, WriterStep(w) PROVE PhaseInv'
  BY <1>1, UnparkKeeps, CommitKeeps, TakeBackKeeps DEF WriterStep
<1>2. CASE LogStep
  BY <1>2, WriteBatchKeeps, SyncBatchKeeps DEF LogStep
<1>3. CASE CompactionStep
  BY <1>3, EarlyKeeps, CopyKeeps, SealKeeps, RotationKeeps, DrainEndsKeeps,
     RenameKeeps, ReopenKeeps DEF CompactionStep
<1>4. ASSUME NEW w \in Writers, NEW k \in Keys, NEW del \in BOOLEAN, Call(w, k, del)
      PROVE  PhaseInv'
  BY <1>4, CallKeeps
<1>5. CASE FailBatch
  BY <1>5, FailBatchKeeps
<1>6. CASE BeginCompaction \/ FailEarly
  BY <1>6, EarlyKeeps
<1>7. CASE FailRotation
  BY <1>7, ReopenKeeps
<1>8. CASE ProcessDies \/ PowerFails
  BY <1>8, RestartKeeps
<1> QED BY <1>1, <1>2, <1>3, <1>4, <1>5, <1>6, <1>7, <1>8 DEF Next, Proceed

\* The first three parts of the invariant at the beginning.
LEMMA InitPhases == Init => PhaseInv
<1> SUFFICES ASSUME Init PROVE PhaseInv
  OBVIOUS
<1>1. TypeOK
  BY InitTypes
<1>2. /\ wal = OpenWal(<<>>) /\ compaction.at = "none" /\ rotateLock = FALSE
      /\ disk.wal = <<>> /\ refused = FALSE /\ \A w \in Writers : writer[w].at = "idle"
  BY FreshTypes DEF Init
<1>3. wal.status = "open" /\ wal.size = 0 /\ wal.queue = <<>> /\ wal.batch = <<>>
  BY <1>2, EmptyLog, OpenWalFacts
<1>4. Known
  BY <1>3, FramesOf DEF Known
<1>5. Phases
  <2>1. Flushed /\ Len(disk.wal) = 0
    BY <1>2, <1>3 DEF Flushed
  <2>2. compaction.at \notin Rotation /\ compaction.at \notin Swapping
    BY <1>2, RotationPhases
  <2> QED BY <1>2, <1>3, <2>1, <2>2 DEF Phases
<1>6. Answers
  BY <1>2, <1>3 DEF Answers
<1> QED BY <1>1, <1>4, <1>5, <1>6 DEF PhaseInv

\* The invariant holds in every reachable state.
LEMMA PhasesHold == Spec => []PhaseInv
<1>1. PhaseInv /\ UNCHANGED vars => PhaseInv'
  <2> SUFFICES ASSUME PhaseInv, UNCHANGED vars PROVE PhaseInv'
    OBVIOUS
  <2>1. UNCHANGED <<commits, store, writer, wal, disk, durable, tmp, compaction,
                    rotateLock, acked, spoiled, refused, count>>
    BY DEF vars
  <2>2. TypeOK'
    BY <2>1, TypeParts, TypePartsNext DEF PhaseInv
  <2>3. Known' /\ Answers' /\ Phases'
    BY <2>1 DEF PhaseInv, Known, Answers, Phases, Flushed, Microtasks
  <2> QED BY <2>2, <2>3 DEF PhaseInv
<1> QED BY <1>1, InitPhases, StepKeeps, PTL DEF Spec

\* The variables keep their types: set, del, the log, compaction and recovery
\* never take a record, a frame or a phase for another.
THEOREM TypeCorrect == Spec => []TypeOK
BY PhasesHold, PTL DEF PhaseInv

\* A caller of set or del is told that its write has failed only when the
\* storage has failed: a rotation that turns its frame away is never the reason
\* (retryOnWalSeal, the rotation's seal, and the catch block of runCompaction).
THEOREM NoSpuriousRefusal == Spec => []RefusedOnlyOnFailure
<1>1. PhaseInv => RefusedOnlyOnFailure
  BY DEF PhaseInv, Answers, RefusedOnlyOnFailure
<1> QED BY <1>1, PhasesHold, PTL
--------------------------------------------------------------------------------
(***************************************************************************)
(* An acknowledged write survives.                                         *)
(***************************************************************************)


\* Of the commits T, those to key k; c are all commits.
Of(c, k, T) == {n \in T : c[n].key = k}

Value(c, n) == IF c[n].del THEN Absent ELSE n

\* If T has a commit to key k, it has none older than those of A.
Covers(c, A, k, T) ==
    Of(c, k, T) # {} => \A m \in Of(c, k, A) : \E n \in Of(c, k, T) : m <= n

\* Value v of key k is the effect of a commit that is not older than those of A.
Newest(c, A, k, v) ==
    \/ v = Absent /\ Of(c, k, A) = {}
    \/ \E n \in Of(c, k, DOMAIN c) : v = Value(c, n) /\ \A m \in Of(c, k, A) : m <= n

\* A recovery of key k from its value v in a snapshot and a log with the frames
\* T finds one that is not older than A.
Serves(c, A, k, v, T) ==
    /\ Covers(c, A, k, T)
    /\ Of(c, k, T) = {} => Newest(c, A, k, v)

Ascending(log) == \A i, j \in DOMAIN log : i < j => log[i] < log[j]

Below(A, B) == \A m \in A, n \in B : m < n

\* Frames that are queued or being written and synced.
InFlight == Frames(wal.queue) \cup Frames(wal.batch)

\* Frames are of commits that were made.  Logs are in the order of the commits,
\* the frames that are queued come after those in the log, and those in flight
\* after those acknowledged.
Order ==
    /\ Frames(disk.wal) \cup Frames(durable.wal) \subseteq DOMAIN commits
    /\ Ascending(wal.queue) /\ Ascending(disk.wal) /\ Ascending(durable.wal)
    /\ Below(Frames(disk.wal), Frames(wal.queue))
    /\ Frames(wal.batch) \subseteq Frames(disk.wal)
    /\ Below(acked, InFlight)

Outstanding(w) == writer[w].at \in {"waiting", "sealedOut", "failed"}

\* A call knows its own commit.  One that was turned away has not been and will
\* not be acknowledged; during a rotation it is newer than all that have.
Own(w) ==
    LET call == writer[w]
    IN  Outstanding(w) =>
          /\ call.n \in DOMAIN commits
          /\ commits[call.n] = [key |-> call.key, del |-> call.del]
          /\ call.at # "waiting" => call.n \notin acked \cup InFlight
          /\ call.at = "sealedOut" =>
                wal.status # "open" /\ Below(acked \cup InFlight, {call.n})

\* What a call would put back is not older than what had been acknowledged or
\* was in flight when it was made.
PutsBack(w) ==
    LET call == writer[w]
    IN  Outstanding(w) /\ call.key \notin spoiled =>
          Newest(commits, {m \in acked \cup InFlight : m < call.n}, call.key, call.prev)

\* What a reader sees is not older than what has been acknowledged or is in flight.
Reads == \A k \in Keys \ spoiled : Newest(commits, acked \cup InFlight, k, store[k])

\* A recovery from any of the files that may remain.
Recoverable ==
    \A k \in Keys \ spoiled :
        \A S \in {disk.snapshot, durable.snapshot}, log \in {disk.wal, durable.wal} :
            Serves(commits, acked, k, S[k], Frames(log))

Copying == {"snapshot", "precopy", "draining", "drained", "closing", "closed",
            "snapshotNamed", "snapshotSynced"}

\* The new log as it will be: what was copied of the old one and what will be.
Rest == {disk.wal[i] : i \in (compaction.copied + 1) .. wal.size}
NewLog == Frames(Copied) \cup Rest

\* The new files, once they are complete, can be recovered from as well.
NewFiles ==
    compaction.at \in Copying =>
        /\ Frames(wal.batch) \subseteq NewLog
        /\ Ascending(Copied)
        /\ Frames(Copied) \subseteq {disk.wal[i] : i \in 1 .. compaction.copied}
        /\ compaction.at # "snapshot" => compaction.todo = {}
        /\ \A k \in Keys \ spoiled :
              /\ Covers(commits, acked, k, NewLog)
              /\ k \notin compaction.todo =>
                    Serves(commits, acked, k, tmp.snapshot[k], NewLog)

\* What has been put in place is what was written.
Placed ==
    /\ compaction.at \in Settled \ {"drained"} => Drained
    /\ compaction.at \in {"closed", "snapshotNamed", "snapshotSynced"} => durable.wal = disk.wal
    /\ compaction.at \in {"snapshotNamed", "snapshotSynced"} => disk.snapshot = tmp.snapshot
    /\ compaction.at = "snapshotSynced" => durable.snapshot = tmp.snapshot

Calling == \A w \in Writers : Own(w) /\ PutsBack(w)

Survival == Order /\ Calling /\ Reads /\ Recoverable /\ NewFiles /\ Placed
-----------------------------------------------------------------------------
\* A commit more changes nothing for the ones before it.
LEMMA CommitAdded ==
  ASSUME NEW c \in Commits, NEW d \in [key : Keys, del : BOOLEAN],
         NEW A \in SUBSET (DOMAIN c), NEW k
  PROVE  /\ \A v : Newest(c, A, k, v) => Newest(Append(c, d), A, k, v)
         /\ \A T \in SUBSET (DOMAIN c) :
               Covers(c, A, k, T) => Covers(Append(c, d), A, k, T)
         /\ \A v : \A T \in SUBSET (DOMAIN c) :
               Serves(c, A, k, v, T) => Serves(Append(c, d), A, k, v, T)
<1> DEFINE e == Append(c, d)
<1>1. DOMAIN c \subseteq DOMAIN e /\ \A n \in DOMAIN c : e[n] = c[n]
  BY DEF Commits
<1> HIDE DEF e
<1>2. \A T \in SUBSET (DOMAIN c) : Of(e, k, T) = Of(c, k, T)
  BY <1>1 DEF Of
<1>3. \A n \in DOMAIN c : Value(e, n) = Value(c, n)
  BY <1>1 DEF Value
<1>4. Of(c, k, DOMAIN c) \subseteq Of(e, k, DOMAIN e) /\ Of(c, k, DOMAIN c) \subseteq DOMAIN c
  BY <1>1 DEF Of
<1>5. ASSUME NEW v, Newest(c, A, k, v) PROVE Newest(e, A, k, v)
  BY <1>2, <1>3, <1>4, <1>5 DEF Newest
<1>6. ASSUME NEW T \in SUBSET (DOMAIN c), Covers(c, A, k, T) PROVE Covers(e, A, k, T)
  BY <1>2, <1>6 DEF Covers
<1>7. ASSUME NEW v, NEW T \in SUBSET (DOMAIN c), Serves(c, A, k, v, T)
      PROVE  Serves(e, A, k, v, T)
  BY <1>2, <1>5, <1>6, <1>7 DEF Serves
<1> QED BY <1>5, <1>6, <1>7 DEF e

\* Frames that are newer than all that is acknowledged may join a log.
LEMMA LogGrows ==
  ASSUME NEW c, NEW A \in SUBSET Nat, NEW T, NEW B \in SUBSET Nat, Below(A, B), NEW k
  PROVE  /\ Covers(c, A, k, T) => Covers(c, A, k, T \cup B)
         /\ \A v : Serves(c, A, k, v, T) => Serves(c, A, k, v, T \cup B)
<1>1. Of(c, k, T \cup B) = Of(c, k, T) \cup Of(c, k, B)
  BY DEF Of
<1>2. \A m \in Of(c, k, A), n \in Of(c, k, B) : m <= n
  BY DEF Of, Below
<1>3. ASSUME Covers(c, A, k, T) PROVE Covers(c, A, k, T \cup B)
  <2> SUFFICES ASSUME Of(c, k, T) \cup Of(c, k, B) # {}, NEW m \in Of(c, k, A)
               PROVE  \E n \in Of(c, k, T) \cup Of(c, k, B) : m <= n
    BY <1>1 DEF Covers
  <2>1. CASE Of(c, k, B) # {}
    BY <1>2, <2>1
  <2>2. CASE Of(c, k, B) = {}
    BY <1>3, <2>2 DEF Covers
  <2> QED BY <2>1, <2>2
<1>4. ASSUME NEW v, Serves(c, A, k, v, T) PROVE Serves(c, A, k, v, T \cup B)
  BY <1>1, <1>3, <1>4 DEF Serves
<1> QED BY <1>3, <1>4

\* Frames of the log may be acknowledged.
LEMMA MoreAcked ==
  ASSUME NEW c, NEW A, NEW T \in SUBSET Nat, NEW B \in SUBSET T, NEW k
  PROVE  /\ Covers(c, A, k, T) => Covers(c, A \cup B, k, T)
         /\ \A v : Serves(c, A, k, v, T) => Serves(c, A \cup B, k, v, T)
<1>1. Of(c, k, A \cup B) = Of(c, k, A) \cup Of(c, k, B) /\ Of(c, k, B) \subseteq Of(c, k, T)
  BY DEF Of
<1>2. \A m \in Of(c, k, T) : m <= m
  BY DEF Of
<1>3. ASSUME Covers(c, A, k, T) PROVE Covers(c, A \cup B, k, T)
  BY <1>1, <1>2, <1>3 DEF Covers
<1>4. ASSUME NEW v, Serves(c, A, k, v, T) PROVE Serves(c, A \cup B, k, v, T)
  <2>1. Of(c, k, T) = {} => Of(c, k, A \cup B) = Of(c, k, A)
    BY <1>1
  <2> QED BY <1>3, <1>4, <2>1 DEF Serves, Newest
<1> QED BY <1>3, <1>4

\* A snapshot that serves with the end of a log serves with the whole of it.
LEMMA WholeLog ==
  ASSUME NEW c, NEW A, NEW k, NEW u, NEW v, NEW U, NEW T \in SUBSET U,
         Serves(c, A, k, u, U), Serves(c, A, k, v, T)
  PROVE  Serves(c, A, k, v, U)
<1>1. Of(c, k, T) \subseteq Of(c, k, U)
  BY DEF Of
<1> QED BY <1>1 DEF Serves

\* What is newest of many is newest of some.
LEMMA NewestOfSome ==
  ASSUME NEW c, NEW A, NEW B \in SUBSET A, NEW k, NEW v, Newest(c, A, k, v)
  PROVE  Newest(c, B, k, v)
<1>1. Of(c, k, B) \subseteq Of(c, k, A)
  BY DEF Of
<1> QED BY <1>1 DEF Newest

\* The last commit is the newest.
LEMMA LastIsNewest ==
  ASSUME NEW c, NEW n \in DOMAIN c, NEW A, \A m \in A : m <= n
  PROVE  Newest(c, A, c[n].key, Value(c, n))
BY DEF Newest, Of

\* What a recovery finds.
LEMMA RecoverFacts ==
  ASSUME commits \in Commits, NEW S \in [Keys -> Nat], NEW log \in Seq(Nat), Ascending(log),
         Frames(log) \subseteq DOMAIN commits, NEW A, NEW k \in Keys,
         Serves(commits, A, k, S[k], Frames(log)), A \subseteq Nat
  PROVE  Newest(commits, A, k, Recover(S, log)[k])
<1> DEFINE places == {i \in DOMAIN log : commits[log[i]].key = k}
           last == log[Last(places)]
<1>1. Recover(S, log)[k] = IF places = {} THEN S[k] ELSE Effect(last)
  BY DEF Recover
<1>2. CASE places = {}
  <2>1. Of(commits, k, Frames(log)) = {}
    BY <1>2 DEF Of, Frames
  <2> QED BY <1>1, <1>2, <2>1 DEF Serves
<1>3. CASE places # {}
  <2>1. Len(log) \in Nat /\ places \in SUBSET (1 .. Len(log)) /\ DOMAIN log = 1 .. Len(log)
    OBVIOUS
  <2>2. Last(places) \in places /\ \A i \in places : i <= Last(places)
    <3> HIDE DEF places
    <3> QED BY <1>3, <2>1, LastFacts
  <2>3. last \in Frames(log) /\ commits[last].key = k /\ last \in DOMAIN commits
    BY <2>2 DEF Frames
  <2>4. \A n \in Of(commits, k, Frames(log)) : n <= last
    <3> SUFFICES ASSUME NEW i \in DOMAIN log, commits[log[i]].key = k
                 PROVE  log[i] <= last
      BY DEF Of, Frames
    <3>1. i \in places /\ i <= Last(places)
      BY <2>2
    <3>2. log[i] \in Nat /\ last \in Nat /\ i \in Nat /\ Last(places) \in Nat
      BY <2>1, <2>2
    <3>3. CASE i = Last(places)
      BY <3>2, <3>3
    <3>4. CASE i < Last(places)
      <4>1. log[i] < log[Last(places)]
        BY <2>2, <3>4 DEF Ascending
      <4> QED BY <3>2, <4>1
    <3> QED BY <3>1, <3>2, <3>3, <3>4
  <2>5. last \in Of(commits, k, Frames(log)) /\ last \in Of(commits, k, DOMAIN commits)
    BY <2>3 DEF Of
  <2> HIDE DEF places, last
  <2>6. ASSUME NEW m \in Of(commits, k, A) PROVE m <= last
    <3>1. PICK n \in Of(commits, k, Frames(log)) : m <= n
      BY <2>5 DEF Serves, Covers
    <3>2. m \in Nat /\ n \in Nat /\ last \in Nat
      <4>1. Frames(log) \subseteq Nat
        BY DEF Frames
      <4> QED BY <2>5, <4>1 DEF Of
    <3> QED BY <2>4, <3>1, <3>2
  <2>7. Effect(last) = Value(commits, last)
    BY DEF Effect, Value
  <2> QED BY <1>1, <1>3, <2>5, <2>6, <2>7 DEF Newest
<1> QED BY <1>2, <1>3

\* A value is current if it is not older than what has been acknowledged.
LEMMA CurrentFacts ==
  \A k, v : Newest(commits, acked, k, v) => Current(k, v)
BY DEF Newest, Current, Of, Value, Effect
-----------------------------------------------------------------------------
\* Two logs in order, one after the other, and a part of a log in order.
LEMMA AscendingFacts ==
  ASSUME NEW s \in Seq(Nat), Ascending(s)
  PROVE  /\ \A t \in Seq(Nat) : Ascending(t) /\ Below(Frames(s), Frames(t)) => Ascending(s \o t)
         /\ \A i \in Nat, j \in Nat : j <= Len(s) =>
               /\ Ascending(SubSeq(s, i + 1, j))
               /\ Below({s[x] : x \in 1 .. i}, {s[x] : x \in (i + 1) .. j})
<1>1. Len(s) \in Nat /\ DOMAIN s = 1 .. Len(s)
  OBVIOUS
<1>2. ASSUME NEW t \in Seq(Nat), Ascending(t), Below(Frames(s), Frames(t))
      PROVE  Ascending(s \o t)
  <2>1. /\ Len(t) \in Nat /\ DOMAIN t = 1 .. Len(t)
        /\ DOMAIN (s \o t) = 1 .. (Len(s) + Len(t))
        /\ \A x \in 1 .. Len(s) : (s \o t)[x] = s[x]
        /\ \A x \in (Len(s) + 1) .. (Len(s) + Len(t)) :
              (s \o t)[x] = t[x - Len(s)] /\ x - Len(s) \in 1 .. Len(t)
    OBVIOUS
  <2> DEFINE u == s \o t
  <2>2. /\ DOMAIN u = 1 .. (Len(s) + Len(t))
        /\ \A x \in 1 .. Len(s) : u[x] = s[x]
        /\ \A x \in (Len(s) + 1) .. (Len(s) + Len(t)) :
              u[x] = t[x - Len(s)] /\ x - Len(s) \in 1 .. Len(t)
    BY <2>1
  <2> HIDE DEF u
  <2>3. ASSUME NEW x \in DOMAIN u, NEW y \in DOMAIN u, x < y PROVE u[x] < u[y]
    <3> DEFINE a == Len(s)
               b == Len(t)
    <3>4. a \in Nat /\ b \in Nat /\ x \in 1 .. (a + b) /\ y \in 1 .. (a + b)
      BY <1>1, <2>1, <2>2
    <3>5. /\ DOMAIN s = 1 .. a /\ DOMAIN t = 1 .. b
          /\ \A z \in 1 .. a : u[z] = s[z]
          /\ \A z \in (a + 1) .. (a + b) : u[z] = t[z - a]
      BY <1>1, <2>1, <2>2
    <3> HIDE DEF a, b
    <3>1. CASE y <= a
      <4>1. x \in 1 .. a /\ y \in 1 .. a
        BY <2>3, <3>1, <3>4
      <4> QED BY <2>3, <3>5, <4>1 DEF Ascending
    <3>2. CASE x <= a /\ a < y
      <4>1. x \in 1 .. a /\ y \in (a + 1) .. (a + b) /\ y - a \in 1 .. b
        BY <3>2, <3>4
      <4>2. x \in DOMAIN s /\ u[x] = s[x] /\ y - a \in DOMAIN t /\ u[y] = t[y - a]
        BY <3>5, <4>1
      <4>3. u[x] \in Frames(s) /\ u[y] \in Frames(t)
        BY <4>2 DEF Frames
      <4> QED BY <1>2, <4>3 DEF Below
    <3>3. CASE a < x
      <4>1. /\ x \in (a + 1) .. (a + b) /\ y \in (a + 1) .. (a + b)
            /\ x - a \in 1 .. b /\ y - a \in 1 .. b /\ x - a < y - a
        BY <2>3, <3>3, <3>4
      <4>2. x - a \in DOMAIN t /\ y - a \in DOMAIN t /\ u[x] = t[x - a] /\ u[y] = t[y - a]
        BY <3>5, <4>1
      <4>3. t[x - a] < t[y - a]
        BY <1>2, <4>1, <4>2 DEF Ascending
      <4> QED BY <4>2, <4>3
    <3>6. y <= a \/ (x <= a /\ a < y) \/ a < x
      BY <3>4
    <3> QED BY <3>1, <3>2, <3>3, <3>6
  <2>4. Ascending(u)
    BY <2>3 DEF Ascending
  <2> QED BY <2>4 DEF u
<1>3. ASSUME NEW i \in Nat, NEW j \in Nat, j <= Len(s)
      PROVE  Ascending(SubSeq(s, i + 1, j))
  <2> DEFINE c == SubSeq(s, i + 1, j)
  <2>1. CASE i + 1 > j
    <3>1. c = <<>>
      BY <2>1
    <3> HIDE DEF c
    <3>2. Ascending(c)
      <4>1. DOMAIN c = {}
        BY <3>1
      <4> QED BY <4>1 DEF Ascending
    <3> QED BY <3>2 DEF c
  <2>2. CASE i + 1 <= j
    <3>1. DOMAIN c = 1 .. (j - i) /\ \A x \in 1 .. (j - i) : c[x] = s[i + x]
      BY <2>2
    <3> HIDE DEF c
    <3>2. ASSUME NEW x \in DOMAIN c, NEW y \in DOMAIN c, x < y PROVE c[x] < c[y]
      <4>1. i + x \in DOMAIN s /\ i + y \in DOMAIN s /\ i + x < i + y
        BY <1>1, <1>3, <3>1, <3>2
      <4> QED BY <3>1, <4>1 DEF Ascending
    <3>3. Ascending(c)
      BY <3>2 DEF Ascending
    <3> QED BY <3>3 DEF c
  <2> QED BY <2>1, <2>2
<1>4. ASSUME NEW i \in Nat, NEW j \in Nat, j <= Len(s)
      PROVE  Below({s[x] : x \in 1 .. i}, {s[x] : x \in (i + 1) .. j})
  <2> SUFFICES ASSUME NEW x \in 1 .. i, NEW y \in (i + 1) .. j PROVE s[x] < s[y]
    BY DEF Below
  <2>1. x \in DOMAIN s /\ y \in DOMAIN s /\ x < y
    BY <1>1, <1>4
  <2> QED BY <2>1 DEF Ascending
<1> QED BY <1>2, <1>3, <1>4

\* The end of a log that grows.
LEMMA EndGrows ==
  ASSUME NEW s \in Seq(Nat), NEW t \in Seq(Nat), NEW i \in Nat, i <= Len(s)
  PROVE  /\ {(s \o t)[x] : x \in (i + 1) .. (Len(s) + Len(t))}
               = {s[x] : x \in (i + 1) .. Len(s)} \cup Frames(t)
         /\ {(s \o t)[x] : x \in 1 .. i} = {s[x] : x \in 1 .. i}
<1> DEFINE u == s \o t
<1>1. /\ Len(s) \in Nat /\ Len(t) \in Nat /\ DOMAIN t = 1 .. Len(t)
      /\ \A x \in 1 .. Len(s) : u[x] = s[x]
      /\ \A x \in 1 .. Len(t) : u[Len(s) + x] = t[x]
  OBVIOUS
<1> HIDE DEF u
<1>2. \A x \in 1 .. i : u[x] = s[x]
  BY <1>1
<1>3. ASSUME NEW x \in (i + 1) .. (Len(s) + Len(t))
      PROVE  u[x] \in {s[y] : y \in (i + 1) .. Len(s)} \cup Frames(t)
  <2>1. CASE x <= Len(s)
    BY <1>1, <2>1
  <2>2. CASE x > Len(s)
    <3>1. x - Len(s) \in DOMAIN t /\ Len(s) + (x - Len(s)) = x
      BY <1>1, <2>2
    <3>2. u[x] = t[x - Len(s)]
      BY <1>1, <3>1
    <3> QED BY <3>1, <3>2 DEF Frames
  <2> QED BY <1>1, <2>1, <2>2
<1>4. ASSUME NEW x \in (i + 1) .. Len(s)
      PROVE  s[x] \in {u[y] : y \in (i + 1) .. (Len(s) + Len(t))}
  BY <1>1
<1>5. ASSUME NEW x \in DOMAIN t
      PROVE  t[x] \in {u[y] : y \in (i + 1) .. (Len(s) + Len(t))}
  <2>1. Len(s) + x \in (i + 1) .. (Len(s) + Len(t)) /\ u[Len(s) + x] = t[x]
    BY <1>1
  <2> QED BY <2>1
<1>6. Frames(t) \subseteq {u[y] : y \in (i + 1) .. (Len(s) + Len(t))}
  BY <1>5 DEF Frames
<1>7. {u[x] : x \in (i + 1) .. (Len(s) + Len(t))}
        = {s[x] : x \in (i + 1) .. Len(s)} \cup Frames(t)
  BY <1>3, <1>4, <1>6
<1>8. {u[x] : x \in 1 .. i} = {s[x] : x \in 1 .. i}
  BY <1>2
<1> QED BY <1>7, <1>8 DEF u

\* Everything that is logged, in flight or acknowledged is a commit.
LEMMA AllAreCommits ==
  ASSUME PhaseInv, Survival
  PROVE  /\ commits \in Commits /\ DOMAIN commits \subseteq Nat
         /\ acked \subseteq DOMAIN commits /\ InFlight \subseteq DOMAIN commits
         /\ compaction.at \in Copying => NewLog \subseteq DOMAIN commits
<1>1. commits \in Commits /\ acked \subseteq DOMAIN commits /\ InFlight \subseteq DOMAIN commits
  BY TypeParts DEF PhaseInv, Known, InFlight
<1>2. DOMAIN commits \subseteq Nat
  BY <1>1 DEF Commits
<1>3. ASSUME compaction.at \in Copying PROVE NewLog \subseteq DOMAIN commits
  <2>1. /\ compaction.at \notin {"walNamed", "walSynced"}
        /\ compaction.at \in {"snapshot", "precopy"} \cup Rotation
    BY <1>3 DEF Copying, Rotation
  <2>2. wal.size <= Len(disk.wal) /\ compaction.copied <= wal.size
    BY <2>1 DEF PhaseInv, Phases
  <2>3. /\ wal.size \in Nat /\ compaction.copied \in Nat
        /\ DOMAIN disk.wal = 1 .. Len(disk.wal) /\ Len(disk.wal) \in Nat
    BY Objects
  <2>4. /\ 1 .. compaction.copied \subseteq DOMAIN disk.wal
        /\ (compaction.copied + 1) .. wal.size \subseteq DOMAIN disk.wal
    BY <2>2, <2>3
  <2>5. Rest \subseteq Frames(disk.wal) /\ Frames(Copied) \subseteq Frames(disk.wal)
    BY <1>3, <2>4 DEF Rest, Frames, Survival, NewFiles
  <2> QED BY <2>5 DEF NewLog, Survival, Order
<1> QED BY <1>1, <1>2, <1>3
-----------------------------------------------------------------------------
(* Steps of a compaction.                                                  *)

\* A step that leaves the frames in memory, the writers and the store alone.
LEMMA MemoryKept ==
  ASSUME Survival,
         UNCHANGED <<commits, store, writer, acked, spoiled>>,
         wal'.queue = wal.queue, wal'.batch = wal.batch,
         wal'.status = "open" => wal.status = "open"
  PROVE  InFlight' = InFlight /\ Calling' /\ Reads'
<1>1. InFlight' = InFlight
  BY DEF InFlight
<1>2. Reads'
  BY <1>1 DEF Survival, Reads
<1>3. ASSUME NEW w \in Writers PROVE Own(w)' /\ PutsBack(w)'
  BY <1>1 DEF Survival, Calling, Own, PutsBack, Outstanding
<1> QED BY <1>1, <1>2, <1>3 DEF Calling

\* And leaves the files alone.
LEMMA FilesKept ==
  ASSUME Survival,
         UNCHANGED <<commits, store, writer, disk, durable, acked, spoiled>>,
         wal'.queue = wal.queue, wal'.batch = wal.batch,
         wal'.status = "open" => wal.status = "open"
  PROVE  Order' /\ Calling' /\ Reads' /\ Recoverable'
<1>1. InFlight' = InFlight /\ Calling' /\ Reads'
  BY MemoryKept
<1>2. Order'
  BY <1>1 DEF Survival, Order
<1>3. Recoverable'
  BY DEF Survival, Recoverable
<1> QED BY <1>1, <1>2, <1>3

\* The compaction goes on, with the new log as it was.
LEMMA PhaseKept ==
  ASSUME Survival, compaction.at \in Copying, compaction'.at \in Copying,
         UNCHANGED <<commits, disk, tmp, acked, spoiled>>,
         wal'.size = wal.size, wal'.batch = wal.batch,
         compaction'.copied = compaction.copied, compaction'.appended = compaction.appended,
         compaction'.todo = compaction.todo,
         compaction'.at # "snapshot" => compaction.at # "snapshot"
  PROVE  NewFiles'
<1>1. Copied' = Copied /\ Rest' = Rest /\ NewLog' = NewLog
  BY DEF Copied, Rest, NewLog
<1> QED BY <1>1 DEF Survival, NewFiles

\* No compaction is under way.
LEMMA NoNewFiles ==
  ASSUME compaction'.at \in {"none", "fence"}
  PROVE  NewFiles' /\ Placed'
BY DEF NewFiles, Placed, Copying, Settled, Rotation

\* A compaction begins or is given up.
LEMMA BeginSurvives ==
  ASSUME Survival, BeginCompaction \/ FailEarly
  PROVE  Survival'
<1>1. compaction'.at \in {"none", "fence"}
  BY DEF BeginCompaction, FailEarly, NoCompaction
<1>2. UNCHANGED <<commits, store, writer, wal, disk, durable, acked, spoiled>>
  BY DEF BeginCompaction, FailEarly
<1> QED BY <1>1, <1>2, FilesKept, NoNewFiles DEF Survival

\* At the fence the new log is empty.
LEMMA FenceSurvives ==
  ASSUME PhaseInv, Survival, Fence
  PROVE  Survival'
<1>1. /\ compaction' = [compaction EXCEPT !.at = "snapshot", !.todo = Keys, !.copied = wal.size]
      /\ compaction.at = "fence" /\ Flushed
      /\ UNCHANGED <<commits, store, writer, wal, disk, durable, tmp, rotateLock, acked, spoiled, refused, count>>
  BY DEF Fence
<1>2. /\ compaction'.at = "snapshot" /\ compaction'.todo = Keys
      /\ compaction'.copied = wal.size /\ ~compaction'.appended
  BY <1>1, Objects DEF Compactions, PhaseInv, Phases
<1>3. Copied' = <<>> /\ Frames(Copied') = {} /\ Ascending(Copied')
  <2>1. Copied' = <<>>
    BY <1>2 DEF Copied
  <2>2. DOMAIN <<>> = {}
    OBVIOUS
  <2> QED BY <2>1, <2>2, FramesOf DEF Ascending
<1>4. NewLog' = {}
  <2>1. (wal.size + 1) .. wal.size = {}
    BY Objects
  <2>2. Rest' = {}
    BY <1>1, <1>2, <2>1 DEF Rest
  <2> QED BY <1>3, <2>2 DEF NewLog
<1>5. NewFiles'
  <2>1. Frames(wal'.batch) = {}
    BY <1>1, FramesOf DEF Flushed
  <2>2. \A k : Covers(commits', acked', k, {})
    BY DEF Covers, Of
  <2>3. Frames(Copied)' = {} /\ Ascending(Copied)' /\ Frames(wal.batch)' = {}
    BY <1>3, <2>1
  <2>4. \A k \in Keys : k \in compaction'.todo
    BY <1>2
  <2> QED BY <1>2, <1>4, <2>2, <2>3, <2>4 DEF NewFiles
<1>6. Placed'
  BY <1>2 DEF Placed, Settled, Rotation
<1> QED BY <1>1, <1>5, <1>6, FilesKept DEF Survival

\* What is dumped of a key is as new as what has been acknowledged.
LEMMA SnapshotSurvives ==
  ASSUME PhaseInv, Survival, NEW k \in Keys, SnapshotKey(k)
  PROVE  Survival'
<1>1. /\ compaction' = [compaction EXCEPT !.todo = compaction.todo \ {k},
                            !.at = IF compaction.todo = {k} THEN "precopy" ELSE "snapshot"]
      /\ compaction.at = "snapshot" /\ k \in compaction.todo
      /\ tmp' = [tmp EXCEPT !.snapshot[k] = store[k]]
      /\ UNCHANGED <<commits, store, writer, wal, disk, durable, rotateLock, acked, spoiled, refused, count>>
  BY DEF SnapshotKey
<1>2. /\ compaction'.todo = compaction.todo \ {k}
      /\ compaction'.at = (IF compaction.todo = {k} THEN "precopy" ELSE "snapshot")
      /\ compaction'.copied = compaction.copied /\ compaction'.appended = compaction.appended
  BY <1>1, Objects DEF Compactions
<1>3. /\ tmp'.wal = tmp.wal /\ tmp'.snapshot[k] = store[k]
      /\ \A j \in Keys : j # k => tmp'.snapshot[j] = tmp.snapshot[j]
  BY <1>1, Objects DEF Files
<1>4. Copied' = Copied /\ Rest' = Rest /\ NewLog' = NewLog
  BY <1>1, <1>2, <1>3 DEF Copied, Rest, NewLog
<1>5. compaction.at \in Copying
  BY <1>1 DEF Copying
<1>6. ASSUME NEW j \in Keys \ spoiled, j \notin compaction'.todo
      PROVE  Serves(commits, acked, j, tmp'.snapshot[j], NewLog)
  <2>1. CASE j = k
    <3>1. Newest(commits, acked \cup InFlight, k, store[k])
      BY <1>6, <2>1 DEF Survival, Reads
    <3>2. acked \subseteq acked \cup InFlight
      OBVIOUS
    <3>3. Newest(commits, acked, k, store[k])
      BY <3>1, <3>2, NewestOfSome
    <3>4. Covers(commits, acked, k, NewLog)
      BY <1>5, <1>6, <2>1 DEF Survival, NewFiles
    <3> QED BY <1>3, <2>1, <3>3, <3>4 DEF Serves
  <2>2. CASE j # k
    <3>1. j \notin compaction.todo
      BY <1>2, <1>6, <2>2
    <3> QED BY <1>3, <1>5, <1>6, <2>2, <3>1 DEF Survival, NewFiles
  <2> QED BY <2>1, <2>2
<1>7. NewFiles'
  <2>1. compaction'.at # "snapshot" => compaction'.todo = {}
    BY <1>2
  <2> QED BY <1>1, <1>2, <1>4, <1>5, <1>6, <2>1 DEF Survival, NewFiles
<1>8. Placed'
  BY <1>2 DEF Placed, Settled, Rotation
<1> QED BY <1>1, <1>7, <1>8, FilesKept DEF Survival

\* The copy of the rest completes what the new log will be; it does not change it.
LEMMA CopySurvives ==
  ASSUME PhaseInv, Survival, PreCopy \/ DrainCopy
  PROVE  Survival'
<1> DEFINE Copies(then) ==
       /\ CopyTail(then)
       /\ compaction.at = (IF then = "precopy" THEN "precopy" ELSE "drained")
       /\ UNCHANGED <<commits, store, writer, wal, disk, durable, rotateLock, acked, spoiled, refused, count>>
<1>1. PICK then \in {"precopy", "draining"} : Copies(then)
  <2>1. CASE PreCopy
    <3>1. Copies("precopy")
      BY <2>1 DEF PreCopy
    <3> QED BY <3>1
  <2>2. CASE DrainCopy
    <3>1. Copies("draining")
      BY <2>2 DEF DrainCopy
    <3> QED BY <3>1
  <2> QED BY <2>1, <2>2
<1> DEFINE rest == SubSeq(disk.wal, compaction.copied + 1, wal.size)
<1>2. /\ compaction'.at = then /\ compaction'.todo = compaction.todo
      /\ compaction'.copied = wal.size /\ compaction'.appended
      /\ tmp'.snapshot = tmp.snapshot /\ tmp'.wal = Copied \o rest
  <2>1. compaction' = [compaction EXCEPT !.copied = wal.size, !.appended = TRUE,
                                         !.passes = compaction.passes + 1, !.at = then]
    BY <1>1 DEF CopyTail
  <2>2. compaction'.todo = compaction.todo
    BY <2>1, Objects DEF Compactions
  <2> QED BY <1>1, <2>2, CopyTailFacts
<1>3. /\ compaction.at \in Copying /\ compaction'.at \in Copying
      /\ compaction.at # "snapshot" /\ compaction'.at # "snapshot"
      /\ compaction.at \in {"snapshot", "precopy"} \cup Rotation
      /\ compaction.at \notin {"walNamed", "walSynced"}
  BY <1>1, <1>2 DEF Copying, Rotation
<1>4. /\ compaction.copied <= wal.size /\ wal.size <= Len(disk.wal)
      /\ compaction.copied \in Nat /\ wal.size \in Nat
  BY <1>3, Objects DEF PhaseInv, Phases
<1>5. /\ rest \in Seq(Nat) /\ Frames(rest) = Rest
  <2>1. disk.wal \in Seq(Nat)
    BY Objects
  <2>2. rest \in Seq(Nat)
    BY <1>4, <2>1, SeqsOfNumbers
  <2>3. Frames(rest) = {disk.wal[x] : x \in (compaction.copied + 1) .. wal.size}
    BY <1>4, <2>1, FramesOf
  <2> QED BY <2>2, <2>3 DEF Rest
<1>6. Ascending(rest) /\ Below({disk.wal[x] : x \in 1 .. compaction.copied}, Rest)
  <2>1. disk.wal \in Seq(Nat) /\ Ascending(disk.wal)
    BY Objects DEF Survival, Order
  <2>2. \A i \in Nat, j \in Nat : j <= Len(disk.wal) =>
            /\ Ascending(SubSeq(disk.wal, i + 1, j))
            /\ Below({disk.wal[x] : x \in 1 .. i}, {disk.wal[x] : x \in (i + 1) .. j})
    BY <2>1, AscendingFacts
  <2> QED BY <1>4, <2>2 DEF Rest
<1> HIDE DEF rest
<1>7. Copied' = Copied \o rest
  BY <1>2 DEF Copied
<1>8. Frames(Copied') = Frames(Copied) \cup Rest
  BY <1>5, <1>7, Objects, FramesOf
<1>9. Rest' = {}
  <2>1. (wal.size + 1) .. wal.size = {}
    BY <1>4
  <2> QED BY <1>1, <1>2, <2>1 DEF Rest
<1>10. NewLog' = NewLog
  BY <1>8, <1>9 DEF NewLog
<1>11. Frames(Copied) \subseteq {disk.wal[x] : x \in 1 .. compaction.copied} /\ Ascending(Copied)
  BY <1>3 DEF Survival, NewFiles
<1>12. Ascending(Copied')
  <2>1. Below(Frames(Copied), Frames(rest))
    BY <1>5, <1>6, <1>11 DEF Below
  <2> QED BY <1>5, <1>6, <1>7, <1>11, <2>1, Objects, AscendingFacts
<1>13. Frames(Copied') \subseteq {disk.wal[x] : x \in 1 .. wal.size}
  <2>1. 1 .. compaction.copied \subseteq 1 .. wal.size
        /\ (compaction.copied + 1) .. wal.size \subseteq 1 .. wal.size
    BY <1>4
  <2> QED BY <1>8, <1>11, <2>1 DEF Rest
<1>14. NewFiles'
  <2>1. Ascending(Copied)' /\ Frames(Copied)' \subseteq {disk'.wal[x] : x \in 1 .. compaction'.copied}
    BY <1>1, <1>2, <1>12, <1>13
  <2>2. /\ Frames(wal.batch) \subseteq NewLog
        /\ compaction.todo = {}
        /\ \A k \in Keys \ spoiled :
              /\ Covers(commits, acked, k, NewLog)
              /\ k \notin compaction.todo => Serves(commits, acked, k, tmp.snapshot[k], NewLog)
    BY <1>3 DEF Survival, NewFiles
  <2> QED BY <1>1, <1>2, <1>10, <2>1, <2>2 DEF NewFiles
<1>15. Placed'
  BY <1>2 DEF Placed, Settled, Rotation
<1> QED BY <1>1, <1>14, <1>15, FilesKept DEF Survival

\* The log is sealed, drained and closed.
LEMMA DrainSurvives ==
  ASSUME PhaseInv, Survival, Seal \/ DrainFlushed \/ DrainEnds
  PROVE  Survival'
<1>1. CASE Seal
  <2>1. /\ compaction' = [compaction EXCEPT !.at = "draining"] /\ compaction.at = "precopy"
        /\ wal' = SealedWal
        /\ UNCHANGED <<commits, store, writer, disk, durable, tmp, acked, spoiled, refused, count>>
    BY <1>1 DEF Seal
  <2>2. /\ compaction'.at = "draining" /\ compaction'.copied = compaction.copied
        /\ compaction'.appended = compaction.appended /\ compaction'.todo = compaction.todo
    BY <2>1, Objects DEF Compactions
  <2>3. /\ wal'.size = wal.size /\ wal'.queue = wal.queue /\ wal'.batch = wal.batch
        /\ wal'.status # "open"
    BY <2>1, SealFacts
  <2>4. NewFiles'
    BY <2>1, <2>2, <2>3, PhaseKept DEF Copying
  <2>5. Placed'
    BY <2>2 DEF Placed, Settled, Rotation
  <2> QED BY <2>1, <2>3, <2>4, <2>5, FilesKept DEF Survival
<1>2. CASE DrainFlushed
  <2>1. /\ compaction' = [compaction EXCEPT !.at = "drained"] /\ compaction.at = "draining"
        /\ UNCHANGED <<commits, store, writer, wal, disk, durable, tmp, rotateLock, acked, spoiled, refused, count>>
    BY <1>2 DEF DrainFlushed
  <2>2. /\ compaction'.at = "drained" /\ compaction'.copied = compaction.copied
        /\ compaction'.appended = compaction.appended /\ compaction'.todo = compaction.todo
    BY <2>1, Objects DEF Compactions
  <2>3. NewFiles'
    BY <2>1, <2>2, PhaseKept DEF Copying
  <2>4. Placed'
    BY <2>2 DEF Placed, Settled, Rotation
  <2> QED BY <2>1, <2>3, <2>4, FilesKept DEF Survival
<1>3. CASE DrainEnds
  <2>1. /\ compaction' = [compaction EXCEPT !.at = "closing"] /\ compaction.at = "drained" /\ Drained
        /\ wal' = [wal EXCEPT !.status = "closed"]
        /\ UNCHANGED <<commits, store, writer, disk, durable, tmp, rotateLock, acked, spoiled, refused, count>>
    BY <1>3 DEF DrainEnds
  <2>2. /\ compaction'.at = "closing" /\ compaction'.copied = compaction.copied
        /\ compaction'.appended = compaction.appended /\ compaction'.todo = compaction.todo
    BY <2>1, Objects DEF Compactions
  <2>3. /\ wal'.size = wal.size /\ wal'.queue = wal.queue /\ wal'.batch = wal.batch
        /\ wal'.status # "open"
    BY <2>1, Objects DEF WalObjects
  <2>4. NewFiles'
    BY <2>1, <2>2, <2>3, PhaseKept DEF Copying
  <2>5. Placed'
    BY <2>1, <2>2, <2>3 DEF Placed, Settled, Rotation, Drained
  <2> QED BY <2>1, <2>3, <2>4, <2>5, FilesKept DEF Survival
<1> QED BY <1>1, <1>2, <1>3

\* The close of the log syncs it.
LEMMA ClosedSurvives ==
  ASSUME PhaseInv, Survival, Closed
  PROVE  Survival'
<1>1. /\ compaction' = [compaction EXCEPT !.at = "closed"] /\ compaction.at = "closing"
      /\ durable' = [durable EXCEPT !.wal = disk.wal]
      /\ UNCHANGED <<commits, store, writer, wal, disk, tmp, rotateLock, acked, spoiled, refused, count>>
  BY DEF Closed
<1>2. /\ compaction'.at = "closed" /\ compaction'.copied = compaction.copied
      /\ compaction'.appended = compaction.appended /\ compaction'.todo = compaction.todo
      /\ durable'.wal = disk.wal /\ durable'.snapshot = durable.snapshot
  BY <1>1, Objects DEF Compactions, Files
<1>3. InFlight' = InFlight /\ Calling' /\ Reads'
  BY <1>1, MemoryKept
<1>4. Order'
  BY <1>1, <1>2, <1>3 DEF Survival, Order
<1>5. Recoverable'
  BY <1>1, <1>2 DEF Survival, Recoverable
<1>6. NewFiles'
  BY <1>1, <1>2, PhaseKept DEF Copying
<1>7. Placed'
  <2>1. Drained
    BY <1>1 DEF Survival, Placed, Settled, Rotation
  <2> QED BY <1>1, <1>2, <2>1 DEF Placed, Drained
<1> QED BY <1>3, <1>4, <1>5, <1>6, <1>7 DEF Survival

\* At the renames the new log is complete: all of it was copied.
LEMMA NewLogComplete ==
  ASSUME PhaseInv, Survival, compaction.at \in {"closed", "snapshotNamed", "snapshotSynced"}
  PROVE  /\ compaction.appended /\ compaction.copied = wal.size
         /\ NewLog = Frames(tmp.wal) /\ Ascending(tmp.wal)
         /\ Frames(tmp.wal) \subseteq Frames(disk.wal)
         /\ wal.queue = <<>> /\ wal.batch = <<>>
         /\ \A k \in Keys \ spoiled :
               /\ Serves(commits, acked, k, tmp.snapshot[k], Frames(tmp.wal))
               /\ Serves(commits, acked, k, tmp.snapshot[k], Frames(disk.wal))
         /\ durable.wal = disk.wal
<1>1. /\ compaction.at \in Settled /\ compaction.at # "drained" /\ compaction.at \in Copying
      /\ compaction.at \in Rotation /\ compaction.at # "snapshot"
      /\ compaction.at \notin {"walNamed", "walSynced"}
  BY DEF Settled, Rotation, Copying
<1>2. compaction.appended /\ compaction.copied = wal.size /\ durable.wal = disk.wal
  BY <1>1 DEF Survival, Placed, Drained
<1>3. Copied = tmp.wal
  BY <1>2 DEF Copied
<1>4. Rest = {}
  <2>1. (wal.size + 1) .. wal.size = {}
    BY Objects
  <2> QED BY <1>2, <2>1 DEF Rest
<1>5. NewLog = Frames(tmp.wal) /\ Ascending(tmp.wal)
  BY <1>1, <1>3, <1>4 DEF NewLog, Survival, NewFiles
<1>6. Frames(tmp.wal) \subseteq Frames(disk.wal)
  <2>1. wal.size <= Len(disk.wal)
    BY <1>1 DEF PhaseInv, Phases
  <2>2. 1 .. wal.size \subseteq DOMAIN disk.wal
    BY <2>1, Objects
  <2>3. Frames(tmp.wal) \subseteq {disk.wal[x] : x \in 1 .. wal.size}
    BY <1>1, <1>2, <1>3 DEF Survival, NewFiles
  <2> QED BY <2>2, <2>3 DEF Frames
<1>7. wal.queue = <<>> /\ wal.batch = <<>>
  BY <1>1 DEF PhaseInv, Phases, Flushed
<1>8. ASSUME NEW k \in Keys \ spoiled
      PROVE  /\ Serves(commits, acked, k, tmp.snapshot[k], Frames(tmp.wal))
             /\ Serves(commits, acked, k, tmp.snapshot[k], Frames(disk.wal))
  <2>1. Serves(commits, acked, k, tmp.snapshot[k], Frames(tmp.wal))
    BY <1>1, <1>5 DEF Survival, NewFiles
  <2>2. Serves(commits, acked, k, disk.snapshot[k], Frames(disk.wal))
    BY DEF Survival, Recoverable
  <2> QED BY <1>6, <2>1, <2>2, WholeLog
<1> QED BY <1>2, <1>5, <1>6, <1>7, <1>8

\* Between any two of the steps that put the files in place, whatever of them
\* remains can be recovered from.
LEMMA RenameSurvives ==
  ASSUME PhaseInv, Survival, Rename
  PROVE  Survival'
<1>1. UNCHANGED <<commits, store, writer, wal, tmp, acked, spoiled>>
  BY DEF Rename, Place
<1>2. InFlight' = InFlight /\ Calling' /\ Reads'
  BY <1>1, MemoryKept
<1>3. ASSUME NEW from, NEW to, NEW nowDisk, NEW nowDurable, Place(from, to, nowDisk, nowDurable),
             to \in {"snapshotNamed", "snapshotSynced", "walNamed", "walSynced"}
      PROVE  /\ compaction'.at = to /\ compaction'.copied = compaction.copied
             /\ compaction'.appended = compaction.appended /\ compaction'.todo = compaction.todo
             /\ compaction.at = from /\ disk' = nowDisk /\ durable' = nowDurable
  BY <1>3, Objects DEF Place, Compactions
<1>4. CASE Place("closed", "snapshotNamed", NewSnapshot, durable)
  <2>1. /\ compaction'.at = "snapshotNamed" /\ compaction'.copied = compaction.copied
        /\ compaction'.appended = compaction.appended /\ compaction'.todo = compaction.todo
        /\ compaction.at = "closed" /\ disk' = NewSnapshot /\ durable' = durable
    BY <1>3, <1>4
  <2>2. disk'.wal = disk.wal /\ disk'.snapshot = tmp.snapshot
    BY <2>1, Objects DEF NewSnapshot, Files
  <2>3. Order'
    BY <1>1, <1>2, <2>1, <2>2 DEF Survival, Order
  <2>4. Recoverable'
    <3>1. durable.wal = disk.wal
          /\ \A k \in Keys \ spoiled : Serves(commits, acked, k, tmp.snapshot[k], Frames(disk.wal))
      BY <2>1, NewLogComplete
    <3> QED BY <1>1, <2>1, <2>2, <3>1 DEF Survival, Recoverable
  <2>5. NewFiles'
    <3>1. Copied' = Copied /\ Rest' = Rest /\ NewLog' = NewLog
      BY <1>1, <2>1, <2>2 DEF Copied, Rest, NewLog
    <3>2. compaction.at \in Copying /\ compaction.at # "snapshot"
      BY <2>1 DEF Copying
    <3> QED BY <1>1, <2>1, <2>2, <3>1, <3>2 DEF Survival, NewFiles
  <2>6. Placed'
    <3>1. Drained /\ durable.wal = disk.wal
      BY <2>1, NewLogComplete DEF Drained
    <3> QED BY <1>1, <2>1, <2>2, <3>1 DEF Placed, Drained
  <2> QED BY <1>2, <2>3, <2>4, <2>5, <2>6 DEF Survival
<1>5. CASE Place("snapshotNamed", "snapshotSynced", disk, disk)
  <2>1. /\ compaction'.at = "snapshotSynced" /\ compaction'.copied = compaction.copied
        /\ compaction'.appended = compaction.appended /\ compaction'.todo = compaction.todo
        /\ compaction.at = "snapshotNamed" /\ disk' = disk /\ durable' = disk
    BY <1>3, <1>5
  <2>2. Order'
    BY <1>1, <1>2, <2>1 DEF Survival, Order
  <2>3. Recoverable'
    BY <1>1, <2>1 DEF Survival, Recoverable
  <2>4. NewFiles'
    BY <1>1, <2>1, PhaseKept DEF Copying
  <2>5. Placed'
    <3>1. Drained /\ disk.snapshot = tmp.snapshot
      BY <2>1, NewLogComplete DEF Drained, Survival, Placed
    <3> QED BY <1>1, <2>1, <3>1 DEF Placed, Drained
  <2> QED BY <1>2, <2>2, <2>3, <2>4, <2>5 DEF Survival
<1>6. CASE Place("snapshotSynced", "walNamed", NewWal, durable)
  <2>1. /\ compaction'.at = "walNamed" /\ compaction'.copied = compaction.copied
        /\ compaction'.appended = compaction.appended
        /\ compaction.at = "snapshotSynced" /\ disk' = NewWal /\ durable' = durable
    BY <1>3, <1>6
  <2>2. disk'.wal = tmp.wal /\ disk'.snapshot = disk.snapshot
    BY <2>1, Objects DEF NewWal, Files
  <2>3. /\ Ascending(tmp.wal) /\ Frames(tmp.wal) \subseteq Frames(disk.wal)
        /\ wal.queue = <<>> /\ wal.batch = <<>> /\ Drained
        /\ \A k \in Keys \ spoiled : Serves(commits, acked, k, tmp.snapshot[k], Frames(tmp.wal))
    BY <2>1, NewLogComplete DEF Drained
  <2>4. disk.snapshot = tmp.snapshot /\ durable.snapshot = tmp.snapshot
    BY <2>1 DEF Survival, Placed
  <2>5. Order'
    BY <1>1, <1>2, <2>1, <2>2, <2>3, FramesOf DEF Survival, Order, Below
  <2>6. Recoverable'
    BY <1>1, <2>1, <2>2, <2>3, <2>4 DEF Survival, Recoverable
  <2>7. NewFiles' /\ Placed'
    BY <1>1, <2>1, <2>3 DEF NewFiles, Copying, Placed, Drained
  <2> QED BY <1>2, <2>5, <2>6, <2>7 DEF Survival
<1>7. CASE Place("walNamed", "walSynced", disk, disk)
  <2>1. /\ compaction'.at = "walSynced" /\ compaction'.copied = compaction.copied
        /\ compaction'.appended = compaction.appended
        /\ compaction.at = "walNamed" /\ disk' = disk /\ durable' = disk
    BY <1>3, <1>7
  <2>2. Order'
    BY <1>1, <1>2, <2>1 DEF Survival, Order
  <2>3. Recoverable'
    BY <1>1, <2>1 DEF Survival, Recoverable
  <2>4. NewFiles' /\ Placed'
    <3>1. Drained
      BY <2>1 DEF Survival, Placed, Settled, Rotation
    <3> QED BY <1>1, <2>1, <3>1 DEF NewFiles, Copying, Placed, Drained
  <2> QED BY <1>2, <2>2, <2>3, <2>4 DEF Survival
<1> QED BY <1>4, <1>5, <1>6, <1>7 DEF Rename

\* The log is open again: nothing was in flight and no call turned away.
LEMMA ReopenSurvives ==
  ASSUME PhaseInv, Survival, Reopen \/ FailRotation
  PROVE  Survival'
<1>1. /\ UNCHANGED <<commits, store, writer, disk, durable, tmp, acked, spoiled>>
      /\ compaction' = NoCompaction
  BY DEF Reopen, FailRotation
<1>2. wal'.queue = <<>> /\ wal'.batch = <<>>
  <2>1. \/ wal' = OpenWal(disk.wal)
        \/ wal' = [OpenWal(disk.wal) EXCEPT !.status = "closed"]
        \/ wal' = [OpenWal(<<>>) EXCEPT !.status = "closed"]
    BY DEF Reopen, FailRotation
  <2> QED BY <2>1 DEF OpenWal
<1>3. ~Microtasks /\ compaction.at \in Settled
  <2>1. /\ compaction.at \in {"drained", "closing", "closed", "snapshotSynced", "walSynced"}
        /\ compaction.at \in {"drained", "closing"} => ~Microtasks
    BY DEF Reopen, FailRotation
  <2>2. compaction.at \in Settled /\ (compaction.at \in {"drained", "closing"} \/ compaction.at \in Swapping)
    BY <2>1 DEF Settled, Swapping, Rotation
  <2> QED BY <2>1, <2>2 DEF PhaseInv, Phases
<1>4. wal.queue = <<>> /\ wal.batch = <<>>
  BY <1>3 DEF PhaseInv, Phases, Flushed
<1>5. InFlight' = InFlight
  BY <1>2, <1>4 DEF InFlight
<1>6. Order'
  BY <1>1, <1>2, <1>4, <1>5 DEF Survival, Order
<1>7. Calling'
  <2> SUFFICES ASSUME NEW w \in Writers PROVE Own(w)' /\ PutsBack(w)'
    BY DEF Calling
  <2>1. writer[w].at # "sealedOut"
    BY <1>3 DEF Microtasks
  <2> QED BY <1>1, <1>5, <2>1 DEF Survival, Calling, Own, PutsBack, Outstanding
<1>8. Reads' /\ Recoverable'
  BY <1>1, <1>5 DEF Survival, Reads, Recoverable
<1>9. NewFiles' /\ Placed'
  BY <1>1, FreshTypes, NoNewFiles
<1> QED BY <1>6, <1>7, <1>8, <1>9 DEF Survival
-----------------------------------------------------------------------------
(* Steps of the writers.                                                   *)

\* A step that leaves the commits, the log and the compaction alone.
LEMMA LogsKept ==
  ASSUME Survival,
         UNCHANGED <<commits, wal, disk, durable, tmp, compaction, acked>>,
         spoiled \subseteq spoiled'
  PROVE  InFlight' = InFlight /\ Order' /\ Recoverable' /\ NewFiles' /\ Placed'
<1>1. InFlight' = InFlight /\ Copied' = Copied /\ NewLog' = NewLog
  BY DEF InFlight, Copied, Rest, NewLog
<1>2. Order'
  BY <1>1 DEF Survival, Order
<1>3. Recoverable'
  BY DEF Survival, Recoverable
<1>4. NewFiles'
  BY <1>1 DEF Survival, NewFiles
<1>5. Placed'
  BY DEF Survival, Placed, Drained
<1> QED BY <1>1, <1>2, <1>3, <1>4, <1>5

\* A call begins, or leaves its place at the gate.
LEMMA CallSurvives ==
  ASSUME PhaseInv, Survival, NEW w \in Writers,
         Unpark(w) \/ \E k \in Keys, del \in BOOLEAN : Call(w, k, del)
  PROVE  Survival'
<1>1. UNCHANGED <<commits, store, wal, disk, durable, tmp, compaction, acked, spoiled>>
  BY DEF Unpark, Call
<1>2. InFlight' = InFlight /\ Order' /\ Recoverable' /\ NewFiles' /\ Placed'
  BY <1>1, LogsKept
<1>3. Reads'
  BY <1>1, <1>2 DEF Survival, Reads
<1>4. \A v \in Writers : writer'[v] = writer[v] \/ writer'[v].at \in {"idle", "parked", "gated"}
  <2>1. writer \in [Writers -> Calls]
    BY TypeParts DEF PhaseInv
  <2>2. CASE Unpark(w)
    <3>1. writer' = [writer EXCEPT ![w] = NoCall] \/ writer' = [writer EXCEPT ![w].at = "gated"]
      BY <2>2 DEF Unpark
    <3>2. CASE writer' = [writer EXCEPT ![w] = NoCall]
      BY <2>1, <3>2, FreshTypes
    <3>3. CASE writer' = [writer EXCEPT ![w].at = "gated"]
      BY <2>1, <3>3 DEF Calls
    <3> QED BY <3>1, <3>2, <3>3
  <2>3. ASSUME NEW k \in Keys, NEW del \in BOOLEAN, Call(w, k, del)
        PROVE  \A v \in Writers : writer'[v] = writer[v] \/ writer'[v].at \in {"parked", "gated"}
    BY <2>1, <2>3, FreshTypes DEF Call, Calls
  <2> QED BY <2>2, <2>3
<1>5. Calling'
  <2> SUFFICES ASSUME NEW v \in Writers, Outstanding(v)' PROVE Own(v)' /\ PutsBack(v)'
    BY DEF Calling, Own, PutsBack
  <2>1. writer'[v] = writer[v]
    BY <1>4 DEF Outstanding
  <2> QED BY <1>1, <1>2, <2>1 DEF Survival, Calling, Own, PutsBack, Outstanding
<1> QED BY <1>2, <1>3, <1>5 DEF Survival

\* A commit that is taken back while the key has its value was the newest, so
\* what it had replaced is as new as what has been acknowledged.
LEMMA TakeBackSurvives ==
  ASSUME PhaseInv, Survival, NEW w \in Writers, TakeBack(w)
  PROVE  Survival'
<1> DEFINE call == writer[w]
<1>1. /\ UNCHANGED <<commits, wal, disk, durable, tmp, compaction, acked>>
      /\ call.at \in {"sealedOut", "failed"}
      /\ spoiled' = IF call.at = "failed" /\ call.del THEN spoiled \cup {call.key} ELSE spoiled
      /\ store' = IF store[call.key] = Effect(call.n)
                  THEN [store EXCEPT ![call.key] = call.prev] ELSE store
      /\ writer' = [writer EXCEPT ![w].at = "retrying"] \/ writer' = [writer EXCEPT ![w] = NoCall]
  BY DEF TakeBack
<1>2. InFlight' = InFlight /\ Order' /\ Recoverable' /\ NewFiles' /\ Placed'
  BY <1>1, LogsKept
<1>3. writer \in [Writers -> Calls] /\ call \in Calls /\ store \in [Keys -> Nat]
  BY TypeParts DEF PhaseInv
<1>4. Calling'
  <2> SUFFICES ASSUME NEW v \in Writers, Outstanding(v)' PROVE Own(v)' /\ PutsBack(v)'
    BY DEF Calling, Own, PutsBack
  <2>1. v # w
    <3>1. CASE writer' = [writer EXCEPT ![w].at = "retrying"]
      BY <1>3, <3>1 DEF Outstanding, Calls
    <3>2. CASE writer' = [writer EXCEPT ![w] = NoCall]
      BY <1>3, <3>2, FreshTypes DEF Outstanding
    <3> QED BY <1>1, <3>1, <3>2
  <2>2. writer'[v] = writer[v]
    BY <1>1, <1>3, <2>1
  <2> QED BY <1>1, <1>2, <2>2 DEF Survival, Calling, Own, PutsBack, Outstanding
<1>5. Reads'
  <2> SUFFICES ASSUME NEW k \in Keys \ spoiled'
               PROVE  Newest(commits, acked \cup InFlight, k, store'[k])
    BY <1>1, <1>2 DEF Reads
  <2>1. k \notin spoiled /\ Newest(commits, acked \cup InFlight, k, store[k])
    BY <1>1 DEF Survival, Reads
  <2>2. CASE store'[k] = store[k]
    BY <2>1, <2>2
  <2>3. CASE store'[k] # store[k]
    <3>1. k = call.key /\ store'[k] = call.prev /\ store[k] = Effect(call.n)
      BY <1>1, <1>3, <2>3 DEF Calls
    <3> DEFINE older == {m \in acked \cup InFlight : m < call.n}
    <3>2. /\ Newest(commits, older, k, call.prev)
          /\ call.n \in DOMAIN commits /\ commits[call.n] = [key |-> call.key, del |-> call.del]
          /\ call.n \notin acked \cup InFlight
          /\ call.at = "sealedOut" => Below(acked \cup InFlight, {call.n})
      BY <1>1, <2>1, <3>1 DEF Survival, Calling, Own, PutsBack, Outstanding
    <3>3. Of(commits, k, acked \cup InFlight) = Of(commits, k, older)
      <4>1. CASE call.at = "sealedOut"
        BY <3>2, <4>1 DEF Below, Of
      <4>2. CASE call.at = "failed"
        <5>1. call.del = FALSE
          BY <1>1, <1>3, <3>1, <4>2 DEF Calls
        <5>2. Effect(call.n) = call.n /\ call.n # Absent
          BY <3>2, <5>1, AllAreCommits DEF Effect, Absent, Commits
        <5>3. \A m \in Of(commits, k, acked \cup InFlight) : m <= call.n
          BY <2>1, <3>1, <5>2 DEF Newest, Value
        <5>4. acked \cup InFlight \subseteq Nat /\ call.n \in Nat
          BY <3>2, AllAreCommits
        <5>5. \A m \in Of(commits, k, acked \cup InFlight) : m < call.n
          BY <3>2, <5>3, <5>4 DEF Of
        <5> QED BY <5>5 DEF Of
      <4> QED BY <1>1, <4>1, <4>2
    <3> QED BY <3>1, <3>2, <3>3 DEF Newest
  <2> QED BY <2>2, <2>3
<1> QED BY <1>2, <1>4, <1>5 DEF Survival

\* A log in order stays so when a later frame is appended.
LEMMA AscendingAppend ==
  ASSUME NEW s \in Seq(Nat), NEW n \in Nat, Ascending(s), Below(Frames(s), {n})
  PROVE  Ascending(Append(s, n))
<1> DEFINE a == Append(s, n)
<1>1. /\ Len(s) \in Nat /\ DOMAIN s = 1 .. Len(s) /\ DOMAIN a = 1 .. (Len(s) + 1)
      /\ \A x \in 1 .. Len(s) : a[x] = s[x]
      /\ a[Len(s) + 1] = n
  OBVIOUS
<1> HIDE DEF a
<1>2. ASSUME NEW x \in DOMAIN a, NEW y \in DOMAIN a, x < y PROVE a[x] < a[y]
  <2>1. x \in DOMAIN s /\ a[x] = s[x]
    BY <1>1, <1>2
  <2>2. CASE y \in DOMAIN s
    <3>1. a[y] = s[y]
      BY <1>1, <2>2
    <3> QED BY <1>2, <2>1, <2>2, <3>1 DEF Ascending
  <2>3. CASE y \notin DOMAIN s
    <3>1. y = Len(s) + 1
      BY <1>1, <2>3
    <3>2. a[y] = n /\ a[x] \in Frames(s)
      BY <1>1, <2>1, <3>1 DEF Frames
    <3> QED BY <3>2 DEF Below
  <2> QED BY <2>2, <2>3
<1>3. Ascending(a)
  BY <1>2 DEF Ascending
<1> QED BY <1>3 DEF a

\* What a commit makes: it is the last, and in flight unless it is turned away.
LEMMA CommitFacts ==
  ASSUME PhaseInv, Survival, NEW w \in Writers, Commit(w)
  PROVE  LET n == Len(commits) + 1
             call == writer[w]
         IN  /\ n \in Nat /\ n \notin DOMAIN commits /\ \A m \in DOMAIN commits : m < n
             /\ call \in Calls
             /\ commits' = Append(commits, [key |-> call.key, del |-> call.del])
             /\ commits' \in Commits
             /\ DOMAIN commits' = DOMAIN commits \cup {n}
             /\ \A m \in DOMAIN commits : commits'[m] = commits[m]
             /\ commits'[n] = [key |-> call.key, del |-> call.del]
             /\ InFlight' \subseteq InFlight \cup {n}
             /\ wal.status # "open" => wal' = wal
             /\ wal.status = "open" => wal'.queue = Append(wal.queue, n)
             /\ wal'.batch = wal.batch /\ wal'.size = wal.size /\ wal'.status = wal.status
<1> DEFINE n == Len(commits) + 1
           call == writer[w]
<1>1. commits \in Commits /\ call \in Calls /\ wal.queue \in Seq(Nat)
  BY TypeParts, Objects DEF PhaseInv
<1>2. /\ n \in Nat /\ n \notin DOMAIN commits /\ \A m \in DOMAIN commits : m < n
  BY <1>1 DEF Commits
<1>3. [key |-> call.key, del |-> call.del] \in [key : Keys, del : BOOLEAN]
  BY <1>1 DEF Calls
<1>4. /\ commits' = Append(commits, [key |-> call.key, del |-> call.del])
      /\ wal' = IF wal.status = "open" THEN [wal EXCEPT !.queue = Append(wal.queue, n)] ELSE wal
  BY DEF Commit
<1>5. /\ commits' \in Commits
      /\ DOMAIN commits' = DOMAIN commits \cup {n}
      /\ \A m \in DOMAIN commits : commits'[m] = commits[m]
      /\ commits'[n] = [key |-> call.key, del |-> call.del]
  <2> DEFINE d == [key |-> call.key, del |-> call.del]
  <2>1. d \in [key : Keys, del : BOOLEAN] /\ commits' = Append(commits, d)
    BY <1>3, <1>4
  <2> HIDE DEF d
  <2>2. /\ commits' \in Commits
        /\ DOMAIN commits' = 1 .. (Len(commits) + 1) /\ DOMAIN commits = 1 .. Len(commits)
        /\ Len(commits) \in Nat
        /\ \A m \in DOMAIN commits : commits'[m] = commits[m]
        /\ commits'[n] = d
    BY <1>1, <2>1 DEF Commits
  <2>3. DOMAIN commits' = DOMAIN commits \cup {n}
    BY <2>2
  <2> QED BY <2>2, <2>3 DEF d
<1>6. /\ wal.status # "open" => wal' = wal
      /\ wal.status = "open" => wal'.queue = Append(wal.queue, n)
      /\ wal'.batch = wal.batch /\ wal'.size = wal.size /\ wal'.status = wal.status
  BY <1>4, Objects DEF WalObjects
<1> HIDE DEF n
<1>7. InFlight' \subseteq InFlight \cup {n}
  <2>1. Frames(Append(wal.queue, n)) = Frames(wal.queue) \cup {n}
    BY <1>1, <1>2, FramesOf
  <2> QED BY <1>6, <2>1 DEF InFlight
<1> QED BY <1>1, <1>2, <1>4, <1>5, <1>6, <1>7 DEF n

\* A commit is made.
LEMMA CommitSurvives ==
  ASSUME PhaseInv, Survival, NEW w \in Writers, Commit(w)
  PROVE  Survival'
<1> DEFINE n == Len(commits) + 1
           call == writer[w]
           d == [key |-> call.key, del |-> call.del]
           A == acked \cup InFlight
           B == acked \cup InFlight'
<1>1. /\ n \in Nat /\ n \notin DOMAIN commits /\ \A m \in DOMAIN commits : m < n
      /\ call \in Calls
      /\ commits' = Append(commits, d)
      /\ DOMAIN commits' = DOMAIN commits \cup {n}
      /\ \A m \in DOMAIN commits : commits'[m] = commits[m]
      /\ commits'[n] = d
      /\ InFlight' \subseteq InFlight \cup {n}
      /\ wal.status # "open" => wal' = wal
      /\ wal.status = "open" => wal'.queue = Append(wal.queue, n)
      /\ wal'.batch = wal.batch /\ wal'.size = wal.size /\ wal'.status = wal.status
  BY CommitFacts
<1>2. /\ UNCHANGED <<disk, durable, tmp, compaction, acked, spoiled>>
      /\ store' = [store EXCEPT ![call.key] = IF call.del THEN Absent ELSE n]
      /\ writer' = [writer EXCEPT ![w] =
            [call EXCEPT !.n = n, !.prev = store[call.key],
                         !.at = IF wal.status = "open" THEN "waiting"
                                ELSE IF Retried(call) THEN "sealedOut" ELSE "failed"]]
  BY DEF Commit
<1>3. d \in [key : Keys, del : BOOLEAN] /\ call.key \in Keys
  BY <1>1 DEF Calls
<1>4. /\ commits \in Commits /\ DOMAIN commits \subseteq Nat
      /\ acked \subseteq DOMAIN commits /\ InFlight \subseteq DOMAIN commits
      /\ compaction.at \in Copying => NewLog \subseteq DOMAIN commits
  BY AllAreCommits
<1>5. writer \in [Writers -> Calls] /\ store \in [Keys -> Nat]
  BY TypeParts DEF PhaseInv
<1>6. wal.status # "open" => InFlight' = InFlight
  BY <1>1 DEF InFlight
<1> HIDE DEF n, call, d
<1>7. Order'
  <2>1. /\ Frames(disk.wal) \subseteq DOMAIN commits /\ Frames(durable.wal) \subseteq DOMAIN commits
        /\ Ascending(wal.queue) /\ Frames(wal.queue) \subseteq DOMAIN commits
        /\ wal.queue \in Seq(Nat)
    BY <1>4, Objects DEF Survival, Order, InFlight
  <2>2. Ascending(wal'.queue) /\ Frames(wal'.queue) \subseteq Frames(wal.queue) \cup {n}
    <3>1. CASE wal.status = "open"
      <4>1. Below(Frames(wal.queue), {n})
        BY <1>1, <2>1 DEF Below
      <4>2. n \in Nat /\ wal'.queue = Append(wal.queue, n)
        BY <1>1, <3>1
      <4>3. Ascending(Append(wal.queue, n))
        BY <2>1, <4>1, <4>2, AscendingAppend
      <4>4. Frames(Append(wal.queue, n)) = Frames(wal.queue) \cup {n}
        BY <2>1, <4>2, FramesOf
      <4> QED BY <4>2, <4>3, <4>4
    <3>2. CASE wal.status # "open"
      BY <1>1, <2>1, <3>2
    <3> QED BY <3>1, <3>2
  <2>3. Below(Frames(disk.wal), Frames(wal'.queue))
    BY <1>1, <2>1, <2>2 DEF Survival, Order, Below
  <2>4. Below(acked, InFlight')
    BY <1>1, <1>4 DEF Survival, Order, Below
  <2> QED BY <1>1, <1>2, <2>1, <2>2, <2>3, <2>4 DEF Survival, Order
<1>8. ASSUME NEW v \in Writers, v # w PROVE Own(v)' /\ PutsBack(v)'
  <2>1. writer'[v] = writer[v]
    BY <1>2, <1>5, <1>8
  <2> SUFFICES ASSUME Outstanding(v)
               PROVE  Own(v)' /\ PutsBack(v)'
    BY <2>1 DEF Own, PutsBack, Outstanding
  <2> DEFINE his == writer[v]
  <2>2. /\ his.n \in DOMAIN commits /\ commits[his.n] = [key |-> his.key, del |-> his.del]
        /\ his.at # "waiting" => his.n \notin acked \cup InFlight
        /\ his.at = "sealedOut" => wal.status # "open" /\ Below(acked \cup InFlight, {his.n})
    BY DEF Survival, Calling, Own
  <2>3. Own(v)'
    <3>1. /\ his.n \in DOMAIN commits' /\ commits'[his.n] = [key |-> his.key, del |-> his.del]
          /\ his.n # n
      BY <1>1, <2>2
    <3>2. his.at # "waiting" => his.n \notin acked \cup InFlight'
      BY <1>1, <2>2, <3>1
    <3>3. his.at = "sealedOut" => wal'.status # "open" /\ Below(acked \cup InFlight', {his.n})
      BY <1>1, <1>6, <2>2
    <3> QED BY <1>2, <2>1, <3>1, <3>2, <3>3 DEF Own
  <2>4. ASSUME his.key \notin spoiled
        PROVE  Newest(commits', {m \in B : m < his.n}, his.key, his.prev)
    <3> DEFINE older == {m \in A : m < his.n}
               olderNow == {m \in B : m < his.n}
    <3>1. Newest(commits, older, his.key, his.prev)
      BY <2>4 DEF Survival, Calling, PutsBack
    <3>2. older \subseteq DOMAIN commits
      BY <1>4
    <3>3. olderNow \subseteq older
      <4>1. ~(n < his.n)
        <5>1. his.n \in Nat /\ his.n < n
          BY <1>1, <1>4, <2>2
        <5> QED BY <1>1, <5>1
      <4> QED BY <1>1, <4>1
    <3> HIDE DEF older, olderNow
    <3>4. Newest(commits', older, his.key, his.prev)
      BY <1>1, <1>3, <1>4, <3>1, <3>2, CommitAdded
    <3>5. Newest(commits', olderNow, his.key, his.prev)
      BY <3>3, <3>4, NewestOfSome
    <3> QED BY <3>5 DEF olderNow
  <2>5. PutsBack(v)'
    <3>1. acked' = acked /\ spoiled' = spoiled
      BY <1>2
    <3>2. his.key \notin spoiled' =>
            Newest(commits', {m \in acked' \cup InFlight' : m < his.n}, his.key, his.prev)
      BY <2>4, <3>1
    <3> QED BY <2>1, <3>2 DEF PutsBack
  <2> QED BY <2>3, <2>5
<1>9. Own(w)' /\ PutsBack(w)'
  <2> DEFINE now == writer'[w]
  <2>1. /\ now.n = n /\ now.prev = store[call.key] /\ now.key = call.key /\ now.del = call.del
        /\ now.at = (IF wal.status = "open" THEN "waiting"
                     ELSE IF Retried(call) THEN "sealedOut" ELSE "failed")
    BY <1>1, <1>2, <1>5 DEF Calls
  <2>2. n \notin A /\ \A m \in A : m < n
    BY <1>1, <1>4
  <2>3. now.at # "waiting" => B = A /\ wal'.status # "open"
    BY <1>1, <1>6, <2>1
  <2>4. Own(w)'
    <3>1. now.n \in DOMAIN commits' /\ commits'[now.n] = [key |-> now.key, del |-> now.del]
      BY <1>1, <2>1 DEF d
    <3>2. now.at # "waiting" => now.n \notin B
      BY <2>1, <2>2, <2>3
    <3>3. now.at = "sealedOut" => wal'.status # "open" /\ Below(B, {now.n})
      BY <2>1, <2>2, <2>3 DEF Below
    <3> QED BY <1>2, <3>1, <3>2, <3>3 DEF Own
  <2>5. ASSUME call.key \notin spoiled
        PROVE  Newest(commits', {m \in B : m < n}, call.key, store[call.key])
    <3> DEFINE older == {m \in B : m < n}
    <3>1. Newest(commits, A, call.key, store[call.key])
      BY <1>3, <2>5 DEF Survival, Reads
    <3>2. A \subseteq DOMAIN commits
      BY <1>4
    <3>3. older \subseteq A
      BY <1>1
    <3> HIDE DEF older, A
    <3>4. Newest(commits', A, call.key, store[call.key])
      BY <1>1, <1>3, <1>4, <3>1, <3>2, CommitAdded
    <3>5. Newest(commits', older, call.key, store[call.key])
      BY <3>3, <3>4, NewestOfSome
    <3> QED BY <3>5 DEF older
  <2>6. PutsBack(w)'
    BY <1>2, <2>1, <2>5 DEF PutsBack
  <2> QED BY <2>4, <2>6
<1>10. Calling'
  BY <1>8, <1>9 DEF Calling
<1>11. Reads'
  <2> SUFFICES ASSUME NEW k \in Keys \ spoiled
               PROVE  Newest(commits', B, k, store'[k])
    BY <1>2 DEF Reads
  <2>1. CASE k = call.key
    <3>1. store'[k] = Value(commits', n) /\ commits'[n].key = k
      BY <1>1, <1>2, <1>3, <1>5, <2>1 DEF Value, d
    <3>2. n \in DOMAIN commits' /\ \A m \in B : m <= n
      <4>1. \A m \in DOMAIN commits \cup {n} : m <= n
        BY <1>1, <1>4
      <4> QED BY <1>1, <1>4, <4>1
    <3> QED BY <3>1, <3>2, LastIsNewest
  <2>2. CASE k # call.key
    <3>1. store'[k] = store[k] /\ Newest(commits, A, k, store[k]) /\ A \subseteq DOMAIN commits
      BY <1>2, <1>4, <1>5, <2>2 DEF Survival, Reads
    <3> HIDE DEF A
    <3>2. Newest(commits', A, k, store[k])
      BY <1>1, <1>3, <1>4, <3>1, CommitAdded
    <3>3. Of(commits', k, B) \subseteq Of(commits', k, A)
      <4>1. commits'[n].key # k
        BY <1>1, <2>2 DEF d
      <4>2. B \subseteq A \cup {n}
        BY <1>1 DEF A
      <4> HIDE DEF B
      <4> QED BY <4>1, <4>2 DEF Of
    <3> QED BY <3>1, <3>2, <3>3 DEF Newest
  <2> QED BY <2>1, <2>2
<1>12. Recoverable'
  <2> SUFFICES ASSUME NEW k \in Keys \ spoiled, NEW S \in {disk.snapshot, durable.snapshot},
                      NEW log \in {disk.wal, durable.wal}
               PROVE  Serves(commits', acked, k, S[k], Frames(log))
    BY <1>2 DEF Recoverable
  <2>1. Serves(commits, acked, k, S[k], Frames(log)) /\ Frames(log) \subseteq DOMAIN commits
    BY DEF Survival, Recoverable, Order
  <2> QED BY <1>1, <1>3, <1>4, <2>1, CommitAdded
<1>13. NewFiles'
  <2>1. Copied' = Copied /\ NewLog' = NewLog
    BY <1>1, <1>2 DEF Copied, NewLog, Rest
  <2>2. ASSUME compaction.at \in Copying, NEW k \in Keys \ spoiled
        PROVE  /\ Covers(commits', acked, k, NewLog)
               /\ k \notin compaction.todo =>
                     Serves(commits', acked, k, tmp.snapshot[k], NewLog)
    <3>1. /\ Covers(commits, acked, k, NewLog)
          /\ k \notin compaction.todo => Serves(commits, acked, k, tmp.snapshot[k], NewLog)
      BY <2>2 DEF Survival, NewFiles
    <3> QED BY <1>1, <1>3, <1>4, <2>2, <3>1, CommitAdded
  <2> QED BY <1>1, <1>2, <2>1, <2>2 DEF Survival, NewFiles
<1>14. Placed'
  BY <1>1, <1>2 DEF Survival, Placed, Drained
<1> QED BY <1>7, <1>10, <1>11, <1>12, <1>13, <1>14 DEF Survival
-----------------------------------------------------------------------------
(* Steps of the log.                                                       *)

\* Queued frames reach the file: what could be recovered from the files, or
\* will be from the new ones, still can.
LEMMA Lands ==
  ASSUME PhaseInv, Survival, NEW part \in Seq(Nat), Ascending(part), wal.queue # <<>>,
         Frames(part) \subseteq Frames(wal.queue),
         disk' = [disk EXCEPT !.wal = disk.wal \o part],
         wal'.size = wal.size + Len(part), Frames(wal'.batch) \subseteq Frames(part),
         UNCHANGED <<commits, durable, tmp, compaction, acked, spoiled>>
  PROVE  /\ Frames(disk'.wal) = Frames(disk.wal) \cup Frames(part)
         /\ Frames(disk'.wal) \subseteq DOMAIN commits
         /\ Ascending(disk'.wal)
         /\ Recoverable' /\ NewFiles' /\ Placed'
<1>1. /\ wal.status # "closed" /\ compaction.at \notin Settled
      /\ compaction.at \notin {"walNamed", "walSynced"}
  <2>1. wal.status # "closed" /\ compaction.at \notin Settled
    BY DEF PhaseInv, Phases, Flushed
  <2> QED BY <2>1, RotationPhases
<1>2. /\ disk'.wal = disk.wal \o part /\ disk'.snapshot = disk.snapshot
      /\ disk.wal \in Seq(Nat)
  BY Objects DEF Files
<1>3. Frames(disk'.wal) = Frames(disk.wal) \cup Frames(part)
  BY <1>2, FramesOf
<1>4. /\ acked \subseteq DOMAIN commits /\ InFlight \subseteq DOMAIN commits
      /\ DOMAIN commits \subseteq Nat
  BY AllAreCommits
<1>5. /\ Frames(part) \subseteq DOMAIN commits /\ Frames(disk.wal) \subseteq DOMAIN commits
      /\ acked \in SUBSET Nat /\ Frames(part) \in SUBSET Nat
      /\ Below(acked, Frames(part))
      /\ Below(Frames(disk.wal), Frames(part))
  <2>1. Frames(part) \subseteq InFlight
    BY DEF InFlight
  <2> QED BY <1>4, <2>1 DEF Survival, Order, Below
<1>6. Ascending(disk'.wal)
  BY <1>2, <1>5, AscendingFacts DEF Survival, Order
<1>7. Recoverable'
  <2> SUFFICES ASSUME NEW k \in Keys \ spoiled, NEW S \in {disk.snapshot, durable.snapshot}
               PROVE  /\ Serves(commits, acked, k, S[k], Frames(disk'.wal))
                      /\ Serves(commits, acked, k, S[k], Frames(durable.wal))
    BY <1>2 DEF Recoverable
  <2>1. /\ Serves(commits, acked, k, S[k], Frames(disk.wal))
        /\ Serves(commits, acked, k, S[k], Frames(durable.wal))
    BY DEF Survival, Recoverable
  <2>2. Serves(commits, acked, k, S[k], Frames(disk.wal) \cup Frames(part))
    BY <1>5, <2>1, LogGrows
  <2> QED BY <1>3, <2>1, <2>2
<1>8. NewFiles'
  <2> SUFFICES ASSUME compaction.at \in Copying PROVE NewFiles'
    BY DEF NewFiles
  <2>1. compaction.at \in {"snapshot", "precopy"} \cup Rotation
    BY DEF Copying, Rotation
  <2>2. /\ wal.size = Len(disk.wal) /\ compaction.copied <= Len(disk.wal)
        /\ compaction.copied \in Nat
    BY <1>1, <2>1, Objects DEF PhaseInv, Phases
  <2>3. Copied' = Copied
    BY DEF Copied
  <2>4. Rest' = Rest \cup Frames(part)
        /\ {disk'.wal[x] : x \in 1 .. compaction.copied} = {disk.wal[x] : x \in 1 .. compaction.copied}
    <3>1. /\ {(disk.wal \o part)[x] : x \in (compaction.copied + 1) .. (Len(disk.wal) + Len(part))}
                = {disk.wal[x] : x \in (compaction.copied + 1) .. Len(disk.wal)} \cup Frames(part)
          /\ {(disk.wal \o part)[x] : x \in 1 .. compaction.copied}
                = {disk.wal[x] : x \in 1 .. compaction.copied}
      BY <1>2, <2>2, EndGrows
    <3>2. wal'.size = Len(disk.wal) + Len(part)
      BY <2>2
    <3>3. Rest' = {(disk.wal \o part)[x] : x \in (compaction.copied + 1) .. (Len(disk.wal) + Len(part))}
      BY <1>2, <3>2 DEF Rest
    <3>4. Rest = {disk.wal[x] : x \in (compaction.copied + 1) .. Len(disk.wal)}
      BY <2>2 DEF Rest
    <3>5. Rest' = Rest \cup Frames(part)
      BY <3>1, <3>3, <3>4
    <3>6. {disk'.wal[x] : x \in 1 .. compaction.copied} = {(disk.wal \o part)[x] : x \in 1 .. compaction.copied}
      BY <1>2
    <3> QED BY <3>1, <3>5, <3>6
  <2>5. NewLog' = NewLog \cup Frames(part)
    BY <2>3, <2>4 DEF NewLog
  <2>6. ASSUME NEW k \in Keys \ spoiled
        PROVE  /\ Covers(commits, acked, k, NewLog')
               /\ k \notin compaction.todo =>
                     Serves(commits, acked, k, tmp.snapshot[k], NewLog')
    <3>1. /\ Covers(commits, acked, k, NewLog)
          /\ k \notin compaction.todo => Serves(commits, acked, k, tmp.snapshot[k], NewLog)
      BY DEF Survival, NewFiles
    <3> QED BY <1>5, <2>5, <3>1, LogGrows
  <2>7. Frames(wal'.batch) \subseteq NewLog'
    BY <2>5
  <2>8. /\ Ascending(Copied) /\ (compaction.at # "snapshot" => compaction.todo = {})
        /\ Frames(Copied) \subseteq {disk.wal[x] : x \in 1 .. compaction.copied}
    BY DEF Survival, NewFiles
  <2> QED BY <2>3, <2>4, <2>6, <2>7, <2>8 DEF NewFiles
<1>9. Placed'
  <2>1. compaction.at \notin {"closed", "snapshotNamed", "snapshotSynced"}
    BY <1>1, RotationPhases
  <2> QED BY <1>1, <2>1 DEF Placed
<1> QED BY <1>3, <1>5, <1>6, <1>7, <1>8, <1>9

\* A batch is written.
LEMMA WriteBatchSurvives ==
  ASSUME PhaseInv, Survival, WriteBatch
  PROVE  Survival'
<1>1. /\ disk' = [disk EXCEPT !.wal = disk.wal \o wal.queue]
      /\ wal' = [wal EXCEPT !.batch = wal.queue, !.queue = <<>>, !.size = wal.size + Len(wal.queue)]
      /\ wal.batch = <<>> /\ wal.queue # <<>>
      /\ UNCHANGED <<commits, store, writer, durable, tmp, compaction, rotateLock, acked, spoiled>>
  BY DEF WriteBatch
<1>2. /\ wal'.batch = wal.queue /\ wal'.queue = <<>> /\ wal'.size = wal.size + Len(wal.queue)
      /\ wal'.status = wal.status /\ wal.queue \in Seq(Nat) /\ Ascending(wal.queue)
  BY <1>1, Objects DEF WalObjects, Survival, Order
<1>3. /\ Frames(disk'.wal) = Frames(disk.wal) \cup Frames(wal.queue)
      /\ Frames(disk'.wal) \subseteq DOMAIN commits
      /\ Ascending(disk'.wal)
      /\ Recoverable' /\ NewFiles' /\ Placed'
  BY <1>1, <1>2, Lands
<1>4. InFlight' = InFlight /\ Frames(wal'.queue) = {} /\ Frames(wal'.batch) = Frames(wal.queue)
  BY <1>1, <1>2, FramesOf DEF InFlight
<1>5. Order'
  <2>1. Ascending(wal'.queue)
    <3>1. DOMAIN wal'.queue = {}
      BY <1>2
    <3> QED BY <3>1 DEF Ascending
  <2> QED BY <1>1, <1>3, <1>4, <2>1 DEF Survival, Order, Below
<1>6. Calling'
  <2> SUFFICES ASSUME NEW w \in Writers PROVE Own(w)' /\ PutsBack(w)'
    BY DEF Calling
  <2> QED BY <1>1, <1>2, <1>4 DEF Survival, Calling, Own, PutsBack, Outstanding
<1>7. Reads'
  BY <1>1, <1>4 DEF Survival, Reads
<1> QED BY <1>3, <1>5, <1>6, <1>7 DEF Survival

\* A batch is acknowledged: its frames are in the file and in the new log.
LEMMA SyncBatchSurvives ==
  ASSUME PhaseInv, Survival, SyncBatch
  PROVE  Survival'
<1> DEFINE B == Frames(wal.batch)
<1>1. /\ durable' = [durable EXCEPT !.wal = disk.wal]
      /\ acked' = acked \cup B
      /\ wal' = [wal EXCEPT !.batch = <<>>] /\ wal.batch # <<>>
      /\ writer' = [w \in Writers |-> IF AwaitsOneOf(w, wal.batch) THEN NoCall ELSE writer[w]]
      /\ UNCHANGED <<commits, store, disk, tmp, compaction, rotateLock, spoiled>>
  BY DEF SyncBatch
<1>2. /\ wal'.batch = <<>> /\ wal'.queue = wal.queue /\ wal'.size = wal.size
      /\ wal'.status = wal.status
      /\ durable'.wal = disk.wal /\ durable'.snapshot = durable.snapshot
  BY <1>1, Objects DEF WalObjects, Files
<1>3. InFlight' = Frames(wal.queue) /\ Frames(wal'.batch) = {} /\ acked' \cup InFlight' = acked \cup InFlight
  BY <1>1, <1>2, FramesOf DEF InFlight
<1>4. /\ B \subseteq Frames(disk.wal) /\ Frames(disk.wal) \subseteq DOMAIN commits
      /\ DOMAIN commits \subseteq Nat
  BY AllAreCommits DEF Survival, Order
<1>5. compaction.at \notin Settled
  BY <1>1 DEF PhaseInv, Phases, Flushed
<1> HIDE DEF B
<1>6. Order'
  <2>1. Below(acked', InFlight')
    BY <1>1, <1>3, <1>4 DEF Survival, Order, Below, InFlight
  <2> QED BY <1>1, <1>2, <1>3, <2>1 DEF Survival, Order
<1>7. Calling'
  <2> SUFFICES ASSUME NEW w \in Writers, Outstanding(w)' PROVE Own(w)' /\ PutsBack(w)'
    BY DEF Calling, Own, PutsBack
  <2>1. writer'[w] = writer[w]
    BY <1>1, FreshTypes DEF Outstanding
  <2>2. Own(w)'
    BY <1>1, <1>2, <1>3, <2>1 DEF Survival, Calling, Own, Outstanding
  <2>3. PutsBack(w)'
    BY <1>1, <1>3, <2>1 DEF Survival, Calling, PutsBack, Outstanding
  <2> QED BY <2>2, <2>3
<1>8. Reads'
  BY <1>1, <1>3 DEF Survival, Reads
<1>9. Recoverable'
  <2> SUFFICES ASSUME NEW k \in Keys \ spoiled, NEW S \in {disk.snapshot, durable.snapshot}
               PROVE  Serves(commits, acked', k, S[k], Frames(disk.wal))
    BY <1>1, <1>2 DEF Recoverable
  <2>1. Serves(commits, acked, k, S[k], Frames(disk.wal))
    BY DEF Survival, Recoverable
  <2>2. Frames(disk.wal) \in SUBSET Nat
    BY <1>4
  <2> QED BY <1>1, <1>4, <2>1, <2>2, MoreAcked
<1>10. NewFiles'
  <2>1. Copied' = Copied /\ NewLog' = NewLog
    BY <1>1, <1>2 DEF Copied, NewLog, Rest
  <2>2. ASSUME compaction.at \in Copying, NEW k \in Keys \ spoiled
        PROVE  /\ Covers(commits, acked', k, NewLog)
               /\ k \notin compaction.todo =>
                     Serves(commits, acked', k, tmp.snapshot[k], NewLog)
    <3>1. /\ Covers(commits, acked, k, NewLog)
          /\ k \notin compaction.todo => Serves(commits, acked, k, tmp.snapshot[k], NewLog)
      BY <2>2 DEF Survival, NewFiles
    <3>2. NewLog \in SUBSET Nat /\ B \in SUBSET NewLog
      BY <1>4, <2>2, AllAreCommits DEF Survival, NewFiles, B
    <3> QED BY <1>1, <3>1, <3>2, MoreAcked
  <2> QED BY <1>1, <1>2, <1>3, <2>1, <2>2 DEF Survival, NewFiles
<1>11. Placed'
  <2>1. compaction.at \notin {"closed", "snapshotNamed", "snapshotSynced"}
    BY <1>5, RotationPhases
  <2> QED BY <1>1, <1>5, <2>1 DEF Placed
<1> QED BY <1>6, <1>7, <1>8, <1>9, <1>10, <1>11 DEF Survival

\* The frames of a batch that fails are in flight no more, and not acknowledged.
LEMMA RejectedCalls ==
  ASSUME PhaseInv, Survival, NEW batch, Frames(batch) \subseteq InFlight,
         InFlight' \subseteq InFlight \ Frames(batch),
         writer' = Rejected(batch), wal'.status = wal.status,
         UNCHANGED <<commits, store, acked, spoiled>>
  PROVE  Calling' /\ Reads' /\ Below(acked', InFlight')
<1>1. Below(acked, InFlight) /\ acked \subseteq Nat
  BY AllAreCommits DEF Survival, Order
<1>2. Below(acked', InFlight')
  BY <1>1 DEF Below
<1>3. Reads'
  <2>1. acked' \cup InFlight' \subseteq acked \cup InFlight
    OBVIOUS
  <2> SUFFICES ASSUME NEW k \in Keys \ spoiled
               PROVE  Newest(commits, acked' \cup InFlight', k, store[k])
    BY DEF Reads
  <2>2. Newest(commits, acked \cup InFlight, k, store[k])
    BY DEF Survival, Reads
  <2> QED BY <2>1, <2>2, NewestOfSome
<1>4. ASSUME NEW w \in Writers, Outstanding(w)' PROVE Own(w)' /\ PutsBack(w)'
  <2>1. writer \in [Writers -> Calls]
    BY TypeParts DEF PhaseInv
  <2>2. /\ writer'[w].n = writer[w].n /\ writer'[w].key = writer[w].key
        /\ writer'[w].del = writer[w].del /\ writer'[w].prev = writer[w].prev
        /\ \/ writer'[w] = writer[w]
           \/ /\ writer[w].at = "waiting" /\ writer[w].n \in Frames(batch)
              /\ writer'[w].at = "failed"
    BY <2>1 DEF Rejected, AwaitsOneOf, Calls
  <2>3. Outstanding(w)
    BY <1>4, <2>2 DEF Outstanding
  <2> DEFINE n == writer[w].n
  <2>4. /\ n \in DOMAIN commits
        /\ commits[n] = [key |-> writer[w].key, del |-> writer[w].del]
        /\ writer[w].at # "waiting" => n \notin acked \cup InFlight
        /\ writer[w].at = "sealedOut" => wal.status # "open" /\ Below(acked \cup InFlight, {n})
        /\ writer[w].key \notin spoiled =>
              Newest(commits, {m \in acked \cup InFlight : m < n}, writer[w].key, writer[w].prev)
    BY <2>3 DEF Survival, Calling, Own, PutsBack
  <2>5. writer'[w].at # "waiting" => n \notin acked \cup InFlight'
    <3>1. CASE writer'[w] = writer[w]
      BY <2>4, <3>1
    <3>2. CASE n \in Frames(batch)
      <4>1. n \notin InFlight' /\ n \in InFlight
        BY <3>2
      <4>2. n \notin acked
        <5>1. \A m \in acked : m < n
          BY <1>1, <4>1 DEF Below
        <5>2. \A m \in acked : m # n
          BY <1>1, <5>1
        <5> QED BY <5>2
      <4> QED BY <4>1, <4>2
    <3> QED BY <2>2, <3>1, <3>2
  <2>6. writer'[w].at = "sealedOut" => wal'.status # "open" /\ Below(acked \cup InFlight', {n})
    BY <2>2, <2>4 DEF Below
  <2>7. Own(w)'
    BY <2>2, <2>4, <2>5, <2>6 DEF Own
  <2>8. PutsBack(w)'
    <3> DEFINE older == {m \in acked \cup InFlight : m < n}
               olderNow == {m \in acked' \cup InFlight' : m < n}
    <3>1. olderNow \subseteq older
      OBVIOUS
    <3>2. writer[w].key \notin spoiled => Newest(commits, older, writer[w].key, writer[w].prev)
      BY <2>4
    <3> HIDE DEF older, olderNow
    <3>3. writer[w].key \notin spoiled => Newest(commits, olderNow, writer[w].key, writer[w].prev)
      BY <3>1, <3>2, NewestOfSome
    <3> USE DEF olderNow
    <3>4. writer'[w].key \notin spoiled' =>
            Newest(commits', {m \in acked' \cup InFlight' : m < writer'[w].n}, writer'[w].key, writer'[w].prev)
      BY <2>2, <3>3
    <3> QED BY <3>4 DEF PutsBack
  <2> QED BY <2>7, <2>8
<1>5. Calling'
  BY <1>4 DEF Calling, Own, PutsBack
<1> QED BY <1>2, <1>3, <1>5

\* A batch fails.
LEMMA FailBatchSurvives ==
  ASSUME PhaseInv, Survival, FailBatch
  PROVE  Survival'
<1>1. UNCHANGED <<commits, store, durable, tmp, compaction, acked, spoiled>>
  BY DEF FailBatch
<1>2. CASE wal.batch # <<>>
  <2>1. wal' = [wal EXCEPT !.batch = <<>>] /\ writer' = Rejected(wal.batch) /\ disk' = disk
    BY <1>2 DEF FailBatch
  <2>2. /\ wal'.batch = <<>> /\ wal'.queue = wal.queue /\ wal'.size = wal.size
        /\ wal'.status = wal.status
    BY <2>1, Objects DEF WalObjects
  <2>3. InFlight' = Frames(wal.queue) /\ Frames(wal'.batch) = {}
    BY <2>2, FramesOf DEF InFlight
  <2>4. Frames(wal.batch) \subseteq InFlight /\ InFlight' \subseteq InFlight \ Frames(wal.batch)
    <3>1. /\ Below(Frames(disk.wal), Frames(wal.queue)) /\ Frames(wal.batch) \subseteq Frames(disk.wal)
          /\ Frames(disk.wal) \subseteq Nat
      BY AllAreCommits DEF Survival, Order
    <3>2. \A m \in Frames(wal.batch), n \in Frames(wal.queue) : m < n /\ m \in Nat
      BY <3>1 DEF Below
    <3>3. \A m \in Frames(wal.batch), n \in Frames(wal.queue) : m # n
      BY <3>2
    <3> QED BY <2>3, <3>3 DEF InFlight
  <2>5. Calling' /\ Reads' /\ Below(acked', InFlight')
    BY <1>1, <2>1, <2>2, <2>4, RejectedCalls
  <2>6. Order'
    BY <1>1, <2>1, <2>2, <2>3, <2>5 DEF Survival, Order
  <2>7. Recoverable'
    BY <1>1, <2>1 DEF Survival, Recoverable
  <2>8. NewFiles' /\ Placed'
    <3>1. Copied' = Copied /\ NewLog' = NewLog
      BY <1>1, <2>1, <2>2 DEF Copied, NewLog, Rest
    <3> QED BY <1>1, <2>1, <2>2, <2>3, <3>1 DEF Survival, NewFiles, Placed, Drained
  <2> QED BY <2>5, <2>6, <2>7, <2>8 DEF Survival
<1>3. CASE wal.batch = <<>>
  <2>1. PICK landed \in 0 .. Len(wal.queue) :
           /\ disk' = [disk EXCEPT !.wal = disk.wal \o SubSeq(wal.queue, 1, landed)]
           /\ wal' = [wal EXCEPT !.queue = <<>>, !.size = wal.size + landed]
    BY <1>3 DEF FailBatch
  <2>2. wal.queue # <<>> /\ writer' = Rejected(wal.queue)
    BY <1>3 DEF FailBatch
  <2> DEFINE part == SubSeq(wal.queue, 1, landed)
  <2>3. wal.queue \in Seq(Nat) /\ Ascending(wal.queue) /\ landed \in Nat /\ landed <= Len(wal.queue)
    BY Objects DEF Survival, Order
  <2>4. part \in Seq(Nat) /\ Len(part) = landed
    BY <2>3
  <2>5. Ascending(part)
    <3>1. Ascending(SubSeq(wal.queue, 0 + 1, landed))
      BY <2>3, AscendingFacts
    <3> QED BY <3>1
  <2>6. Frames(part) \subseteq Frames(wal.queue)
    <3>1. Frames(SubSeq(wal.queue, 0 + 1, landed)) = {wal.queue[x] : x \in (0 + 1) .. landed}
      BY <2>3, FramesOf
    <3>2. (0 + 1) .. landed \subseteq DOMAIN wal.queue
      BY <2>3
    <3> QED BY <3>1, <3>2 DEF Frames
  <2>7. disk' = [disk EXCEPT !.wal = disk.wal \o part]
    BY <2>1
  <2> HIDE DEF part
  <2>8. /\ wal'.batch = <<>> /\ wal'.queue = <<>> /\ wal'.size = wal.size + Len(part)
        /\ wal'.status = wal.status
    BY <1>3, <2>1, <2>4, Objects DEF WalObjects
  <2>9. InFlight' = {} /\ Frames(wal'.batch) = {} /\ Frames(wal'.queue) = {}
    BY <2>8, FramesOf DEF InFlight
  <2>10. /\ Frames(disk'.wal) \subseteq DOMAIN commits /\ Ascending(disk'.wal)
         /\ Recoverable' /\ NewFiles' /\ Placed'
    BY <1>1, <2>2, <2>4, <2>5, <2>6, <2>7, <2>8, <2>9, Lands
  <2>11. Frames(wal.queue) \subseteq InFlight
    BY DEF InFlight
  <2>12. Calling' /\ Reads' /\ Below(acked', InFlight')
    BY <1>1, <2>2, <2>8, <2>9, <2>11, RejectedCalls
  <2>13. Order'
    <3>1. Ascending(wal'.queue)
      <4>1. DOMAIN wal'.queue = {}
        BY <2>8
      <4> QED BY <4>1 DEF Ascending
    <3> QED BY <1>1, <2>9, <2>10, <2>12, <3>1 DEF Survival, Order, Below
  <2> QED BY <2>10, <2>12, <2>13 DEF Survival
<1> QED BY <1>2, <1>3
-----------------------------------------------------------------------------
\* The database is opened again: it finds what it serves to the readers.
LEMMA RestartSurvives ==
  ASSUME PhaseInv, Survival, ProcessDies \/ PowerFails
  PROVE  Survival'
<1>1. PICK S \in {disk.snapshot, durable.snapshot}, log \in {disk.wal, durable.wal} :
        /\ disk'.snapshot = S /\ disk'.wal = log
        /\ durable'.snapshot \in {disk.snapshot, durable.snapshot}
        /\ durable'.wal \in {disk.wal, durable.wal}
        /\ store' = Recover(S, log) /\ wal' = OpenWal(log)
        /\ writer' = [w \in Writers |-> NoCall] /\ compaction' = NoCompaction
        /\ UNCHANGED <<commits, acked, spoiled>>
  <2>1. CASE ProcessDies
    BY <2>1 DEF ProcessDies, Restart
  <2>2. CASE PowerFails
    <3>1. PICK files \in Remains : Restart(files, files)
      BY <2>2 DEF PowerFails
    <3>2. files.snapshot \in {disk.snapshot, durable.snapshot} /\ files.wal \in {disk.wal, durable.wal}
      BY DEF Remains
    <3> QED BY <3>1, <3>2 DEF Restart
  <2> QED BY <2>1, <2>2
<1>2. log \in Seq(Nat) /\ S \in [Keys -> Nat]
  BY Objects DEF Files
<1>3. wal'.queue = <<>> /\ wal'.batch = <<>>
  BY <1>1, <1>2, OpenWalFacts
<1>4. InFlight' = {} /\ Frames(wal'.queue) = {} /\ Frames(wal'.batch) = {}
  BY <1>3, FramesOf DEF InFlight
<1>5. Order'
  <2>1. Ascending(wal'.queue)
    <3>1. DOMAIN wal'.queue = {}
      BY <1>3
    <3> QED BY <3>1 DEF Ascending
  <2>2. /\ Ascending(disk'.wal) /\ Ascending(durable'.wal)
        /\ Frames(disk'.wal) \cup Frames(durable'.wal) \subseteq DOMAIN commits
    BY <1>1 DEF Survival, Order
  <2> QED BY <1>1, <1>4, <2>1, <2>2 DEF Order, Below
<1>6. Calling'
  BY <1>1, FreshTypes DEF Calling, Own, PutsBack, Outstanding
<1>7. Reads'
  <2> SUFFICES ASSUME NEW k \in Keys \ spoiled
               PROVE  Newest(commits, acked, k, Recover(S, log)[k])
    BY <1>1, <1>4 DEF Reads
  <2>1. Serves(commits, acked, k, S[k], Frames(log))
    BY DEF Survival, Recoverable
  <2>2. Ascending(log) /\ Frames(log) \subseteq DOMAIN commits
    BY DEF Survival, Order
  <2>3. commits \in Commits /\ acked \subseteq Nat
    BY AllAreCommits
  <2> QED BY <1>2, <2>1, <2>2, <2>3, RecoverFacts
<1>8. Recoverable'
  BY <1>1 DEF Survival, Recoverable
<1>9. NewFiles' /\ Placed'
  BY <1>1, FreshTypes, NoNewFiles
<1> QED BY <1>5, <1>6, <1>7, <1>8, <1>9 DEF Survival

\* Every step keeps the invariant.
LEMMA StepSurvives ==
  ASSUME PhaseInv, Survival, Next
  PROVE  Survival'
<1>1. ASSUME NEW w \in Writers, WriterStep(w) PROVE Survival'
  BY <1>1, CallSurvives, CommitSurvives, TakeBackSurvives DEF WriterStep
<1>2. CASE LogStep
  BY <1>2, WriteBatchSurvives, SyncBatchSurvives DEF LogStep
<1>3. CASE CompactionStep
  BY <1>3, FenceSurvives, SnapshotSurvives, CopySurvives, DrainSurvives, ClosedSurvives,
     RenameSurvives, ReopenSurvives DEF CompactionStep
<1>4. ASSUME NEW w \in Writers, NEW k \in Keys, NEW del \in BOOLEAN, Call(w, k, del)
      PROVE  Survival'
  BY <1>4, CallSurvives
<1>5. CASE FailBatch
  BY <1>5, FailBatchSurvives
<1>6. CASE BeginCompaction \/ FailEarly
  BY <1>6, BeginSurvives
<1>7. CASE FailRotation
  BY <1>7, ReopenSurvives
<1>8. CASE ProcessDies \/ PowerFails
  BY <1>8, RestartSurvives
<1> QED BY <1>1, <1>2, <1>3, <1>4, <1>5, <1>6, <1>7, <1>8 DEF Next, Proceed

\* It holds at the beginning.
LEMMA InitSurvives == Init => Survival
<1> SUFFICES ASSUME Init PROVE Survival
  OBVIOUS
<1>1. /\ commits = <<>> /\ acked = {} /\ wal = OpenWal(<<>>) /\ disk.wal = <<>>
      /\ durable = disk /\ disk.snapshot = NoFile /\ store = NoFile
      /\ compaction = NoCompaction /\ writer = [w \in Writers |-> NoCall]
  BY DEF Init
<1>2. wal.queue = <<>> /\ wal.batch = <<>>
  BY <1>1, EmptyLog, OpenWalFacts
<1>3. InFlight = {} /\ Frames(<<>>) = {} /\ Ascending(<<>>)
  <2>1. DOMAIN <<>> = {}
    OBVIOUS
  <2> QED BY <1>2, <2>1, FramesOf DEF InFlight, Ascending
<1>4. Order
  BY <1>1, <1>2, <1>3 DEF Order, Below
<1>5. Calling
  BY <1>1, FreshTypes DEF Calling, Own, PutsBack, Outstanding
<1>6. \A k \in Keys : Newest(commits, {}, k, NoFile[k])
  BY DEF Newest, Of, NoFile
<1>7. Reads
  BY <1>1, <1>3, <1>6 DEF Reads
<1>8. Recoverable
  <2>1. \A k \in Keys : Serves(commits, {}, k, NoFile[k], {})
    BY <1>6 DEF Serves, Covers, Of
  <2> QED BY <1>1, <1>3, <2>1 DEF Recoverable
<1>9. NewFiles /\ Placed
  BY <1>1, FreshTypes DEF NewFiles, Placed, Copying, Settled, Rotation
<1> QED BY <1>4, <1>5, <1>7, <1>8, <1>9 DEF Survival

\* What the invariant means for readers and for recovery.
LEMMA SurvivalSuffices ==
  ASSUME PhaseInv, Survival
  PROVE  AckedSurvives
<1> SUFFICES ASSUME NEW k \in Keys \ spoiled
             PROVE  /\ Current(k, store[k])
                    /\ \A files \in Remains : Current(k, Recover(files.snapshot, files.wal)[k])
  BY DEF AckedSurvives
<1>1. Current(k, store[k])
  <2>1. Newest(commits, acked \cup InFlight, k, store[k])
    BY DEF Survival, Reads
  <2>2. Newest(commits, acked, k, store[k])
    BY <2>1, NewestOfSome
  <2> QED BY <2>2, CurrentFacts
<1>2. ASSUME NEW files \in Remains
      PROVE  Current(k, Recover(files.snapshot, files.wal)[k])
  <2>1. /\ files.snapshot \in {disk.snapshot, durable.snapshot}
        /\ files.wal \in {disk.wal, durable.wal}
    BY DEF Remains
  <2>2. files.wal \in Seq(Nat) /\ files.snapshot \in [Keys -> Nat]
    BY <2>1, Objects DEF Files
  <2>3. Serves(commits, acked, k, files.snapshot[k], Frames(files.wal))
    BY <2>1 DEF Survival, Recoverable
  <2>4. Ascending(files.wal) /\ Frames(files.wal) \subseteq DOMAIN commits
    BY <2>1 DEF Survival, Order
  <2>5. commits \in Commits /\ acked \subseteq Nat
    BY AllAreCommits
  <2>6. Newest(commits, acked, k, Recover(files.snapshot, files.wal)[k])
    BY <2>2, <2>3, <2>4, <2>5, RecoverFacts
  <2> QED BY <2>6, CurrentFacts
<1> QED BY <1>1, <1>2

\* A write that set or del has acknowledged is never undone, for any number of
\* keys, writers, compactions, failures and crashes: a reader, and a recovery
\* after the death of the process or of the machine at any moment, finds it or
\* a later one.  Keys of which a delete has failed are excepted.
THEOREM AcknowledgedWritesSurvive == Spec => []AckedSurvives
<1>1. PhaseInv /\ Survival /\ UNCHANGED vars => Survival'
  <2> SUFFICES ASSUME PhaseInv, Survival, UNCHANGED vars PROVE Survival'
    OBVIOUS
  <2>1. UNCHANGED <<commits, store, writer, wal, disk, durable, tmp, compaction, acked, spoiled>>
    BY DEF vars
  <2>2. Order' /\ Recoverable' /\ NewFiles' /\ Placed'
    BY <2>1, LogsKept
  <2>3. Calling' /\ Reads'
    BY <2>1, MemoryKept
  <2> QED BY <2>2, <2>3 DEF Survival
<1>2. PhaseInv /\ Survival => AckedSurvives
  BY SurvivalSuffices
<1> QED BY <1>1, <1>2, PhasesHold, InitSurvives, StepSurvives, PTL DEF Spec
================================================================================

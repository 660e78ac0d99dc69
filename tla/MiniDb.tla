------------------------------- MODULE MiniDb -------------------------------
(***************************************************************************)
(* A MiniDb database under concurrent writes and compaction: the write     *)
(* path of packages/minidb/src/index.ts (set, del), its log wal.ts, the    *)
(* compaction of compaction.ts and the recovery of recovery.ts.            *)
(*                                                                         *)
(* A write changes the store at once and its frame joins the log's queue;  *)
(* it is acknowledged when the frame is written and synced (fsyncPolicy    *)
(* 'always').  Beside the writers a compaction dumps the store key by key  *)
(* into a new snapshot, copies the part of the log written since its fence *)
(* and, with the writers shut out, puts the two files in place.            *)
(*                                                                         *)
(* Commits are numbered; a value is the number of the commit that set it,  *)
(* a log is the sequence of its commits.  Values are held in memory        *)
(* (valueMode 'memory', as the query store opens it); expiry, eviction,    *)
(* batches and derived indexes are left out.                               *)
(***************************************************************************)
EXTENDS Naturals, Sequences

CONSTANTS
    Keys,
    Writers,         \* callers of set and del, each with one call at a time
    MaxCalls,        \* bound: calls
    MaxPasses,       \* MAX_PRECOPY_PASSES
    MaxCompactions,  \* bound: compactions begun
    MaxFaults        \* bound: failures of the storage and crashes

ASSUME MiniDbAssumption ==
    /\ Keys # {}
    /\ {MaxCalls, MaxPasses, MaxCompactions, MaxFaults} \subseteq Nat

VARIABLES
    commits,     \* every commit begun, with its key and whether it deletes
    store,       \* the commit whose value a key has, 0 for none
    writer,      \* the writers' calls
    wal,         \* db.wal
    disk,        \* db.snapshot and db.wal as the file system shows them
    durable,     \* what of them a power failure leaves
    tmp,         \* db.snapshot.tmp and db.wal.tmp
    compaction,  \* runCompaction
    rotateLock,  \* _rotateLock is set
    acked,       \* acknowledged commits
    spoiled,     \* keys of which a delete has failed
    refused,     \* a caller was told that its write failed
    count        \* of calls, compactions, failures and crashes

vars == <<commits, store, writer, wal, disk, durable, tmp, compaction,
          rotateLock, acked, spoiled, refused, count>>

Absent == 0
NoFile == [k \in Keys |-> Absent]

-----------------------------------------------------------------------------
\* What a key has after a commit (applyOp, applyFrames).
Effect(n) == IF commits[n].del THEN Absent ELSE n

Frames(log) == {log[i] : i \in DOMAIN log}

Last(places) == CHOOSE i \in places : \A j \in places : j <= i

\* recover(): every frame of the log is applied to the snapshot in turn, so that
\* the last one of a key wins.
Recover(snapshot, log) ==
    [k \in Keys |->
        LET places == {i \in DOMAIN log : commits[log[i]].key = k}
        IN  IF places = {} THEN snapshot[k] ELSE Effect(log[Last(places)])]

\* wal.flush() has returned: nothing is queued or being written.
Flushed == wal.queue = <<>> /\ wal.batch = <<>>

\* A fresh WAL object, opened on the log that is there.
OpenWal(log) ==
    [status |-> "open", size |-> Len(log), queue |-> <<>>, batch |-> <<>>]

Budget(what, max) == count[what] < max
MayFail == count.failures + count.crashes < MaxFaults
Spend(what) == count' = [count EXCEPT ![what] = @ + 1]

NoCompaction == [at |-> "none", todo |-> {}, copied |-> 0, appended |-> FALSE, passes |-> 0]
NoCall == [at |-> "idle", key |-> CHOOSE k \in Keys : TRUE, del |-> FALSE, n |-> 0, prev |-> 0]

\* Callbacks that run before any I/O completes: a writer past the gate appends,
\* and one that was turned away takes its change back.
Microtasks == \E w \in Writers : writer[w].at \in {"gated", "sealedOut", "failed"}

Init ==
    /\ commits = <<>>
    /\ store = NoFile
    /\ writer = [w \in Writers |-> NoCall]
    /\ wal = OpenWal(<<>>)
    /\ disk = [snapshot |-> NoFile, wal |-> <<>>]
    /\ durable = disk
    /\ tmp = disk
    /\ compaction = NoCompaction
    /\ rotateLock = FALSE
    /\ acked = {}
    /\ spoiled = {}
    /\ refused = FALSE
    /\ count = [calls |-> 0, compactions |-> 0, failures |-> 0, crashes |-> 0]

-----------------------------------------------------------------------------
(* Writers: set and del.                                                   *)

\* A call waits for a rotation under way.  A delete of a key that is not there
\* does nothing.
Call(w, k, del) ==
    /\ writer[w].at = "idle"
    /\ Budget("calls", MaxCalls)
    /\ del /\ ~rotateLock => store[k] # Absent
    /\ writer' = [writer EXCEPT ![w] =
          [NoCall EXCEPT !.at = IF rotateLock THEN "parked" ELSE "gated",
                         !.key = k, !.del = del]]
    /\ Spend("calls")
    /\ UNCHANGED <<commits, store, wal, disk, durable, tmp, compaction,
                   rotateLock, acked, spoiled, refused>>

Unpark(w) ==
    /\ writer[w].at = "parked"
    /\ ~rotateLock
    /\ IF writer[w].del /\ store[writer[w].key] = Absent
       THEN writer' = [writer EXCEPT ![w] = NoCall]
       ELSE writer' = [writer EXCEPT ![w].at = "gated"]
    /\ UNCHANGED <<commits, store, wal, disk, durable, tmp, compaction,
                   rotateLock, acked, spoiled, refused, count>>

\* As it would be without the retry.
NeverRetried(call) == FALSE

\* retryOnWalSeal: an append that a rotation has turned away is retried, once.
Retried(call) == call.at = "gated" /\ (wal.status = "sealed" \/ rotateLock)

\* commit(): the frame is appended to the log's queue, or turned away, and the
\* store changed in the same breath.  A retry waits for the end of the rotation.
Commit(w) ==
    LET call == writer[w]
        n == Len(commits) + 1
    IN  /\ call.at = "gated" \/ (call.at = "retrying" /\ ~rotateLock)
        /\ commits' = Append(commits, [key |-> call.key, del |-> call.del])
        /\ store' = [store EXCEPT ![call.key] = IF call.del THEN Absent ELSE n]
        /\ wal' = IF wal.status = "open" THEN [wal EXCEPT !.queue = Append(@, n)] ELSE wal
        /\ writer' = [writer EXCEPT ![w] =
              [call EXCEPT !.n = n, !.prev = store[call.key],
                           !.at = IF wal.status = "open" THEN "waiting"
                                  ELSE IF Retried(call) THEN "sealedOut" ELSE "failed"]]
        /\ UNCHANGED <<disk, durable, tmp, compaction, rotateLock, acked,
                       spoiled, refused, count>>

\* The commit failed: restoreKey puts the former record back, unless the key
\* has changed since, and the call is retried or rejected.  Commits that fail
\* together are taken back in the order they were made.
TakeBack(w) ==
    LET call == writer[w]
        mine == store[call.key] = Effect(call.n)
    IN  /\ call.at \in {"sealedOut", "failed"}
        /\ \A v \in Writers :
              writer[v].at \in {"sealedOut", "failed"} => call.n <= writer[v].n
        /\ store' = IF mine THEN [store EXCEPT ![call.key] = call.prev] ELSE store
        /\ IF call.at = "sealedOut"
           THEN /\ writer' = [writer EXCEPT ![w].at = "retrying"]
                /\ UNCHANGED <<spoiled, refused>>
           ELSE /\ writer' = [writer EXCEPT ![w] = NoCall]
                /\ spoiled' = IF call.del THEN spoiled \cup {call.key} ELSE spoiled
                /\ refused' = TRUE
        /\ UNCHANGED <<commits, wal, disk, durable, tmp, compaction, rotateLock,
                       acked, count>>

-----------------------------------------------------------------------------
(* The log: flushBatch with fsyncPolicy 'always'.                          *)

\* The queue becomes a batch, and the batch is in the file.
WriteBatch ==
    /\ wal.batch = <<>>
    /\ wal.queue # <<>>
    /\ disk' = [disk EXCEPT !.wal = @ \o wal.queue]
    /\ wal' = [wal EXCEPT !.batch = wal.queue, !.queue = <<>>, !.size = @ + Len(wal.queue)]
    /\ UNCHANGED <<commits, store, writer, durable, tmp, compaction, rotateLock,
                   acked, spoiled, refused, count>>

\* A writer waits for one of these frames.
AwaitsOneOf(w, frames) == writer[w].at = "waiting" /\ writer[w].n \in Frames(frames)

\* The batch is synced and its writes acknowledged.
SyncBatch ==
    /\ wal.batch # <<>>
    /\ durable' = [durable EXCEPT !.wal = disk.wal]
    /\ acked' = acked \cup Frames(wal.batch)
    /\ wal' = [wal EXCEPT !.batch = <<>>]
    /\ writer' = [w \in Writers |-> IF AwaitsOneOf(w, wal.batch) THEN NoCall ELSE writer[w]]
    /\ UNCHANGED <<commits, store, disk, tmp, compaction, rotateLock, spoiled,
                   refused, count>>

Rejected(batch) ==
    [w \in Writers |->
        IF AwaitsOneOf(w, batch) THEN [writer[w] EXCEPT !.at = "failed"] ELSE writer[w]]

\* The sync of a batch fails, or its write does with a part of it in the file:
\* the whole batch is rejected.
FailBatch ==
    /\ MayFail
    /\ \/ /\ wal.batch # <<>>
          /\ wal' = [wal EXCEPT !.batch = <<>>]
          /\ writer' = Rejected(wal.batch)
          /\ UNCHANGED disk
       \/ /\ wal.batch = <<>> /\ wal.queue # <<>>
          /\ \E landed \in 0..Len(wal.queue) :
                /\ disk' = [disk EXCEPT !.wal = @ \o SubSeq(wal.queue, 1, landed)]
                /\ wal' = [wal EXCEPT !.queue = <<>>, !.size = @ + landed]
          /\ writer' = Rejected(wal.queue)
    /\ Spend("failures")
    /\ UNCHANGED <<commits, store, durable, tmp, compaction, rotateLock, acked,
                   spoiled, refused>>

-----------------------------------------------------------------------------
(* Compaction.                                                             *)

BeginCompaction ==
    /\ compaction.at = "none"
    /\ Budget("compactions", MaxCompactions)
    /\ compaction' = [NoCompaction EXCEPT !.at = "fence"]
    /\ Spend("compactions")
    /\ UNCHANGED <<commits, store, writer, wal, disk, durable, tmp, rotateLock,
                   acked, spoiled, refused>>

\* Phase 1: everything in the log up to here is in the store.
Fence ==
    /\ compaction.at = "fence"
    /\ Flushed
    /\ compaction' = [compaction EXCEPT !.at = "snapshot", !.todo = Keys, !.copied = wal.size]
    /\ UNCHANGED <<commits, store, writer, wal, disk, durable, tmp, rotateLock,
                   acked, spoiled, refused, count>>

\* Phase 2: writeSnapshot comes to a key and dumps what the store has for it
\* then.  Each key has one such moment, in any order.
SnapshotKey(k) ==
    /\ compaction.at = "snapshot"
    /\ k \in compaction.todo
    /\ tmp' = [tmp EXCEPT !.snapshot[k] = store[k]]
    /\ compaction' = [compaction EXCEPT !.todo = @ \ {k},
                          !.at = IF compaction.todo = {k} THEN "precopy" ELSE "snapshot"]
    /\ UNCHANGED <<commits, store, writer, wal, disk, durable, rotateLock,
                   acked, spoiled, refused, count>>

\* copyFileRange from the log to db.wal.tmp, up to the log's size.
Copied == IF compaction.appended THEN tmp.wal ELSE <<>>

CopyTail(then) ==
    /\ tmp' = [tmp EXCEPT !.wal = Copied \o SubSeq(disk.wal, compaction.copied + 1, wal.size)]
    /\ compaction' = [compaction EXCEPT !.copied = wal.size, !.appended = TRUE,
                                        !.passes = @ + 1, !.at = then]

\* Phase 2.5: a pass that copies what was written since the last one.
PreCopy ==
    /\ compaction.at = "precopy"
    /\ Flushed
    /\ compaction.passes < MaxPasses
    /\ compaction.copied < wal.size
    /\ CopyTail("precopy")
    /\ UNCHANGED <<commits, store, writer, wal, disk, durable, rotateLock, acked,
                   spoiled, refused, count>>

\* As it would be without seal().
Unsealed == wal

SealedWal == IF wal.status = "open" THEN [wal EXCEPT !.status = "sealed"] ELSE wal

\* Phase 3 begins, when the rest is small or the passes do not converge: later
\* calls park and later appends are turned away.
Seal ==
    /\ compaction.at = "precopy"
    /\ Flushed
    /\ rotateLock' = TRUE
    /\ wal' = SealedWal
    /\ compaction' = [compaction EXCEPT !.at = "draining"]
    /\ UNCHANGED <<commits, store, writer, disk, durable, tmp, acked, spoiled,
                   refused, count>>

\* The flush of the drain loop returns.
DrainFlushed ==
    /\ compaction.at = "draining"
    /\ Flushed
    /\ compaction' = [compaction EXCEPT !.at = "drained"]
    /\ UNCHANGED <<commits, store, writer, wal, disk, durable, tmp, rotateLock,
                   acked, spoiled, refused, count>>

Drained == compaction.copied = wal.size /\ compaction.appended

\* Then the rest is copied, and the loop flushes again.
DrainCopy ==
    /\ compaction.at = "drained"
    /\ ~Drained
    /\ CopyTail("draining")
    /\ UNCHANGED <<commits, store, writer, wal, disk, durable, rotateLock, acked,
                   spoiled, refused, count>>

\* Or nothing is left, and the log is closed.
DrainEnds ==
    /\ compaction.at = "drained"
    /\ Drained
    /\ wal' = [wal EXCEPT !.status = "closed"]
    /\ compaction' = [compaction EXCEPT !.at = "closing"]
    /\ UNCHANGED <<commits, store, writer, disk, durable, tmp, rotateLock, acked,
                   spoiled, refused, count>>

\* close() has flushed and synced.
Closed ==
    /\ compaction.at = "closing"
    /\ Flushed
    /\ ~Microtasks
    /\ durable' = [durable EXCEPT !.wal = disk.wal]
    /\ compaction' = [compaction EXCEPT !.at = "closed"]
    /\ UNCHANGED <<commits, store, writer, wal, disk, tmp, rotateLock, acked,
                   spoiled, refused, count>>

\* One of the four steps that put the new files in place.
Place(from, to, nowDisk, nowDurable) ==
    /\ compaction.at = from
    /\ disk' = nowDisk
    /\ durable' = nowDurable
    /\ compaction' = [compaction EXCEPT !.at = to]
    /\ UNCHANGED <<commits, store, writer, wal, tmp, rotateLock, acked, spoiled,
                   refused, count>>

NewSnapshot == [disk EXCEPT !.snapshot = tmp.snapshot]
NewWal == [disk EXCEPT !.wal = tmp.wal]

\* As it would be with the two renames in the other order.
LogFirst ==
    \/ Place("closed", "snapshotNamed", NewWal, durable)
    \/ Place("snapshotNamed", "snapshotSynced", disk, disk)
    \/ Place("snapshotSynced", "walNamed", NewSnapshot, durable)
    \/ Place("walNamed", "walSynced", disk, disk)

\* The new snapshot is renamed first and its name made durable, then the log.
Rename ==
    \/ Place("closed", "snapshotNamed", NewSnapshot, durable)
    \/ Place("snapshotNamed", "snapshotSynced", disk, disk)
    \/ Place("snapshotSynced", "walNamed", NewWal, durable)
    \/ Place("walNamed", "walSynced", disk, disk)

\* The fresh log is open: the compaction is done and the writers go on.
Reopen ==
    /\ compaction.at = "walSynced"
    /\ wal' = OpenWal(disk.wal)
    /\ rotateLock' = FALSE
    /\ compaction' = NoCompaction
    /\ UNCHANGED <<commits, store, writer, disk, durable, tmp, acked, spoiled,
                   refused, count>>

\* I/O fails before the rotation: the compaction is given up.
FailEarly ==
    /\ MayFail
    /\ compaction.at \in {"snapshot", "precopy"}
    /\ compaction' = NoCompaction
    /\ Spend("failures")
    /\ UNCHANGED <<commits, store, writer, wal, disk, durable, tmp, rotateLock,
                   acked, spoiled, refused>>

\* As it would be if a failed rotation kept its lock.
StillLocked == rotateLock

LockAfterFailure == FALSE

\* A copy, the sync of close(), a rename or the opening of the fresh log fails:
\* the catch block opens another one on whatever file db.wal is now.  When that
\* fails too the database is not writable any more; the WAL object left behind
\* is the old one, closed, or the fresh one that never opened.
FailRotation ==
    /\ MayFail
    /\ compaction.at \in {"drained", "closing", "closed", "snapshotSynced", "walSynced"}
    /\ compaction.at = "drained" => ~Drained
    /\ compaction.at \in {"drained", "closing"} => Flushed /\ ~Microtasks
    /\ \/ wal' = OpenWal(disk.wal)
       \/ wal' = [OpenWal(IF compaction.at = "walSynced" THEN <<>> ELSE disk.wal)
                     EXCEPT !.status = "closed"]
    /\ rotateLock' = LockAfterFailure
    /\ compaction' = NoCompaction
    /\ Spend("failures")
    /\ UNCHANGED <<commits, store, writer, disk, durable, tmp, acked, spoiled, refused>>

-----------------------------------------------------------------------------
(* Crashes and recovery.                                                   *)

\* The database is opened again on what is there.
Restart(files, synced) ==
    /\ MayFail
    /\ disk' = files
    /\ durable' = synced
    /\ store' = Recover(files.snapshot, files.wal)
    /\ wal' = OpenWal(files.wal)
    /\ writer' = [w \in Writers |-> NoCall]
    /\ compaction' = NoCompaction
    /\ rotateLock' = FALSE
    /\ Spend("crashes")
    /\ UNCHANGED <<commits, tmp, acked, spoiled, refused>>

\* What a power failure may leave: each file as it is, or as it was synced.
Remains == [snapshot : {disk.snapshot, durable.snapshot}, wal : {disk.wal, durable.wal}]

ProcessDies == Restart(disk, durable)
PowerFails == \E files \in Remains : Restart(files, files)

-----------------------------------------------------------------------------
WriterStep(w) == Unpark(w) \/ Commit(w) \/ TakeBack(w)

LogStep == WriteBatch \/ SyncBatch

CompactionStep ==
    \/ Fence
    \/ \E k \in Keys : SnapshotKey(k)
    \/ PreCopy
    \/ Seal
    \/ DrainFlushed
    \/ DrainCopy
    \/ DrainEnds
    \/ Closed
    \/ Rename
    \/ Reopen

Proceed ==
    \/ \E w \in Writers : WriterStep(w)
    \/ LogStep
    \/ CompactionStep

Next ==
    \/ Proceed
    \/ \E w \in Writers, k \in Keys, del \in BOOLEAN : Call(w, k, del)
    \/ FailBatch
    \/ BeginCompaction
    \/ FailEarly
    \/ FailRotation
    \/ ProcessDies
    \/ PowerFails

\* The process runs its callbacks and its I/O completes, well or badly.
Spec == Init /\ [][Next]_vars /\ WF_vars(Proceed)

-----------------------------------------------------------------------------
Rotation == {"draining", "drained", "closing", "closed", "snapshotNamed",
             "snapshotSynced", "walNamed", "walSynced"}

Files == [snapshot : [Keys -> Nat], wal : Seq(Nat)]

TypeOK ==
    /\ commits \in Seq([key : Keys, del : BOOLEAN])
    /\ store \in [Keys -> Nat]
    /\ writer \in [Writers ->
          [at : {"idle", "parked", "gated", "waiting", "sealedOut", "failed", "retrying"},
           key : Keys, del : BOOLEAN, n : Nat, prev : Nat]]
    /\ wal \in [status : {"open", "sealed", "closed"}, size : Nat,
                queue : Seq(Nat), batch : Seq(Nat)]
    /\ disk \in Files /\ durable \in Files /\ tmp \in Files
    /\ compaction \in [at : {"none", "fence", "snapshot", "precopy"} \cup Rotation,
                       todo : SUBSET Keys, copied : Nat, appended : BOOLEAN, passes : Nat]
    /\ rotateLock = (compaction.at \in Rotation)
    /\ acked \subseteq DOMAIN commits /\ spoiled \subseteq Keys /\ refused \in BOOLEAN
    /\ count \in [calls : Nat, compactions : Nat, failures : Nat, crashes : Nat]

\* Key k may have value v: it is the effect of a commit to k that is not older
\* than any acknowledged one.
Current(k, v) ==
    \/ v = Absent /\ \A m \in acked : commits[m].key # k
    \/ \E n \in DOMAIN commits :
          /\ commits[n].key = k /\ v = Effect(n)
          /\ \A m \in acked : commits[m].key = k => m <= n

\* An acknowledged write is never undone: whatever a reader sees now, and
\* whatever a recovery would find if the process died or the power failed at
\* this moment, is the last acknowledged write of the key or a later one (that
\* has perhaps not been acknowledged, or has failed).  Fence, fuzzy snapshot,
\* tail copy, seal and the order of the renames are all needed for it.  Keys
\* whose delete has failed are excepted: for them it does not hold.
AckedSurvives ==
    \A k \in Keys \ spoiled :
        /\ Current(k, store[k])
        /\ \A files \in Remains : Current(k, Recover(files.snapshot, files.wal)[k])

\* index.ts:562-573: a write that races a rotation is retried; a caller is told
\* of a failure only when the storage has failed.
RefusedOnlyOnFailure == refused => count.failures > 0

\* Every write is answered: no rotation, and no failure of one, leaves a writer
\* parked for ever.
EveryWriteSettles == \A w \in Writers : writer[w].at # "idle" ~> writer[w].at = "idle"
=============================================================================

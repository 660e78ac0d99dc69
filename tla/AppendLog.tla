------------------------------- MODULE AppendLog -------------------------------
(***************************************************************************)
(* The append-log store of agent-core-v2 for one key, AppendLogStore in    *)
(* packages/agent-core-v2/src/persistence/backends/node-fs/                *)
(* appendLogStore.ts, over the file that fileStorageService.ts keeps.      *)
(*                                                                         *)
(* Appends gather in a buffer (a LogState) and are drained to the file in  *)
(* batches.  A rewrite replaces the file and takes the flush over from the *)
(* drain in flight.  The last release of a buffer retires it, and the      *)
(* buffer that replaces it starts its storage calls when the old one has   *)
(* settled.  Storage calls may fail without telling how much they wrote,   *)
(* and the process may die at any moment.                                  *)
(*                                                                         *)
(* Records are numbered in the order in which they are appended.  A line   *)
(* cut short by a failure is Torn; a line that was appended to a torn one  *)
(* is Corrupt.  The flushes of a buffer that have not settled stand in the *)
(* order of their creation: the last one is flushPromise, and each rewrite *)
(* waits for the one before it.                                            *)
(***************************************************************************)
EXTENDS Naturals, Sequences, Filters

CONSTANTS
    Torn, Corrupt,   \* lines that are no records
    MaxRecords,      \* bound: records appended
    MaxRewrites,     \* bound: rewrites
    MaxBuffers,      \* bound: buffers, one after the other, between two crashes
    MaxRefs,         \* bound: handles held at once
    MaxCrashes       \* bound: crashes

ASSUME AppendLogAssumption ==
    /\ Torn \notin Nat /\ Corrupt \notin Nat /\ Torn # Corrupt
    /\ {MaxRecords, MaxRewrites, MaxBuffers, MaxRefs, MaxCrashes} \subseteq Nat

VARIABLES
    file,       \* the lines of the file
    buffers,    \* the buffers since the last restart; `logs` holds the last
    appended,   \* records appended so far: 1 .. appended
    lost,       \* records dropped with a buffer
    promised,   \* records that a flush has reported durable
    rewrites, crashes

vars == <<file, buffers, appended, lost, promised, rewrites, crashes>>

\* A LogState.  ready, the retirement it waits for, is that of the buffer before
\* it; a buffer is `gone` when its own retirement has settled.
NewBuffer ==
    [pending |-> <<>>, flights |-> <<>>, scheduled |-> FALSE, failed |-> FALSE,
     epoch |-> 0, refs |-> 0, retired |-> FALSE, gone |-> FALSE]

\* drain(), from its call until the await of ready.
Drain(epoch) ==
    [at |-> "ready", epoch |-> epoch, lines |-> <<>>, failed |-> FALSE]

\* The operation of rewrite(), waiting for the flush before it and then writing.
Replacement(lines) ==
    [at |-> "write", epoch |-> 0, lines |-> lines, failed |-> FALSE]

\* Bug: a retired buffer is used until its retirement has settled.
OpenedUntilGone ==
    IF buffers = <<>> \/ buffers[Len(buffers)].gone
    THEN Append(buffers, NewBuffer)
    ELSE buffers

\* state(): the buffer in the map, a new one if there is none or it is retired.
Opened ==
    IF buffers = <<>> \/ buffers[Len(buffers)].retired
    THEN Append(buffers, NewBuffer)
    ELSE buffers

\* Bug: a new buffer does not wait for the old one.
ReadyAtOnce(b) == TRUE

\* The await of ready.
Ready(b) == b > 1 => buffers[b - 1].gone

\* Bug: a failed batch is tried again.
FlushStateRetries(bs, b) ==
    IF bs[b].flights # <<>>
    THEN bs
    ELSE [bs EXCEPT ![b].flights = <<Drain(bs[b].epoch)>>]

\* flushState: joins the flush there is, is refused after a storage failure, or
\* starts a drain.
FlushState(bs, b) ==
    IF bs[b].flights # <<>> \/ bs[b].failed
    THEN bs
    ELSE [bs EXCEPT ![b].flights = <<Drain(bs[b].epoch)>>]

\* append: the record is buffered and a flush scheduled unless one is under way.
AppendRecord ==
    /\ appended < MaxRecords
    /\ Len(Opened) <= MaxBuffers
    /\ appended' = appended + 1
    /\ LET b == Len(Opened)
       IN  buffers' = [Opened EXCEPT
                ![b].pending = Append(@, appended + 1),
                ![b].scheduled = @ \/ Opened[b].flights = <<>>]
    /\ UNCHANGED <<file, lost, promised, rewrites, crashes>>

\* The microtask of scheduleFlush.
ScheduledFlush(b) ==
    /\ buffers[b].scheduled
    /\ buffers' = FlushState([buffers EXCEPT ![b].scheduled = FALSE], b)
    /\ UNCHANGED <<file, appended, lost, promised, rewrites, crashes>>

\* flush and close, for this key.  A retired buffer whose flush has settled has
\* nothing left that a flush could write.
Settled(b) == buffers[b].retired /\ buffers[b].flights = <<>>

Flush ==
    /\ buffers # <<>> /\ ~Settled(Len(buffers))
    /\ buffers' = FlushState(buffers, Len(buffers))
    /\ UNCHANGED <<file, appended, lost, promised, rewrites, crashes>>

\* read: flushLog, which opens a buffer; what is read then changes nothing.
Read ==
    /\ Len(Opened) <= MaxBuffers
    /\ buffers' = FlushState(Opened, Len(Opened))
    /\ UNCHANGED <<file, appended, lost, promised, rewrites, crashes>>

Acquire ==
    /\ Len(Opened) <= MaxBuffers
    /\ Opened[Len(Opened)].refs < MaxRefs
    /\ buffers' = [Opened EXCEPT ![Len(Opened)].refs = @ + 1]
    /\ UNCHANGED <<file, appended, lost, promised, rewrites, crashes>>

\* release; the last one retires the buffer and flushes it (settleRetiredState).
Release(b) ==
    /\ buffers[b].refs > 0
    /\ LET released == [buffers EXCEPT ![b].refs = @ - 1, ![b].retired = buffers[b].refs = 1]
       IN  buffers' = IF released[b].retired THEN FlushState(released, b) ELSE released
    /\ UNCHANGED <<file, appended, lost, promised, rewrites, crashes>>

\* The retirement settles and the buffer leaves the map, with what it could not
\* write.
Retire(b) ==
    /\ Settled(b) /\ ~buffers[b].gone
    /\ buffers' = [buffers EXCEPT ![b].gone = TRUE, ![b].pending = <<>>]
    /\ lost' = lost \cup (Elements(buffers[b].pending) \ Elements(file))
    /\ UNCHANGED <<file, appended, promised, rewrites, crashes>>

IsRecord(line) == line \notin {Torn, Corrupt}

\* What a caller may pass to rewrite: the history it has read, without the
\* appends that are still outstanding in the buffer.
History(b) == Without(file, {Torn, Corrupt} \cup Elements(Opened[b].pending))

\* Bug: the drain in flight does not learn of the rewrite.
RewriteSameEpoch ==
    /\ rewrites < MaxRewrites
    /\ Len(Opened) <= MaxBuffers
    /\ Ready(Len(Opened))
    /\ Corrupt \notin Elements(file)
    /\ LET b == Len(Opened)
       IN  buffers' = [Opened EXCEPT ![b].flights = Append(@, Replacement(History(b)))]
    /\ rewrites' = rewrites + 1
    /\ UNCHANGED <<file, appended, lost, promised, crashes>>

\* rewrite, called as restore and fork call it: after a read, which has waited
\* for the buffer before and would have thrown on a corrupt line.
Rewrite ==
    /\ rewrites < MaxRewrites
    /\ Len(Opened) <= MaxBuffers
    /\ Ready(Len(Opened))
    /\ Corrupt \notin Elements(file)
    /\ LET b == Len(Opened)
       IN  buffers' = [Opened EXCEPT
                ![b].epoch = @ + 1,
                ![b].flights = Append(@, Replacement(History(b)))]
    /\ rewrites' = rewrites + 1
    /\ UNCHANGED <<file, appended, lost, promised, crashes>>
--------------------------------------------------------------------------------
\* The file after `batch` was appended to it: behind a torn line, which has no
\* newline, the first line of the batch is glued to it.
Extended(batch) ==
    IF batch # <<>> /\ file # <<>> /\ file[Len(file)] = Torn
    THEN [file EXCEPT ![Len(file)] = IF batch[1] = Torn THEN Torn ELSE Corrupt] \o Tail(batch)
    ELSE file \o batch

\* What an append that failed or was cut off may leave: some of the lines, the
\* next one perhaps torn.
Interrupted(batch) ==
    LET Written(n) == Extended(SubSeq(batch, 1, n))
        AndTorn(n) == IF n < Len(batch)
                      THEN {Extended(Append(SubSeq(batch, 1, n), Torn))}
                      ELSE {}
    IN  UNION {{Written(n)} \cup AndTorn(n) : n \in 0 .. Len(batch)}

\* The flush of buffer b whose turn it is.
At(b, where) ==
    /\ buffers[b].flights # <<>>
    /\ buffers[b].flights[1].at = where

Current(b) == buffers[b].flights[1].epoch = buffers[b].epoch

\* The loop head of drain: the next batch, or back to finishOwnedFlush.
NextBatch(bs, b) ==
    [bs EXCEPT ![b].flights[1] =
        [@ EXCEPT !.lines = bs[b].pending,
                  !.at    = IF bs[b].pending = <<>> THEN "finish" ELSE "append"]]

\* drain, after the await of ready.
DrainReady(b) ==
    /\ At(b, "ready") /\ Ready(b)
    /\ buffers' = IF Current(b)
                  THEN NextBatch(buffers, b)
                  ELSE [buffers EXCEPT ![b].flights[1].at = "finish"]
    /\ UNCHANGED <<file, appended, lost, promised, rewrites, crashes>>

\* drain, when storage.append has resolved: unless a rewrite has taken over, the
\* batch leaves the buffer.
Appended(b) ==
    /\ At(b, "append")
    /\ LET batch == buffers[b].flights[1].lines
       IN  /\ file' = Extended(batch)
           /\ buffers' = IF Current(b)
                         THEN NextBatch([buffers EXCEPT ![b].pending =
                                            SubSeq(@, Len(batch) + 1, Len(@))], b)
                         ELSE [buffers EXCEPT ![b].flights[1].at = "finish"]
    /\ UNCHANGED <<appended, lost, promised, rewrites, crashes>>

\* Bug: the failure is reported and forgotten.
FailingOnce(b) ==
    [buffers EXCEPT ![b].flights[1] = [@ EXCEPT !.failed = TRUE, !.at = "finish"]]

Failing(b) ==
    [buffers EXCEPT ![b].failed = TRUE,
                    ![b].flights[1] = [@ EXCEPT !.failed = TRUE, !.at = "finish"]]

AppendFails(b) ==
    /\ At(b, "append")
    /\ file' \in Interrupted(buffers[b].flights[1].lines)
    /\ buffers' = Failing(b)
    /\ UNCHANGED <<appended, lost, promised, rewrites, crashes>>

Writing(b) == At(b, "write") /\ Ready(b)

\* The atomic replacement; it clears a failure.
Written(b) ==
    /\ Writing(b)
    /\ file' = buffers[b].flights[1].lines
    /\ buffers' = [buffers EXCEPT ![b].failed = FALSE, ![b].flights[1].at = "finish"]
    /\ UNCHANGED <<appended, lost, promised, rewrites, crashes>>

WriteFails(b) ==
    /\ Writing(b)
    /\ file' \in {file, buffers[b].flights[1].lines}
    /\ buffers' = Failing(b)
    /\ UNCHANGED <<appended, lost, promised, rewrites, crashes>>

\* Whoever waits for the flush of b is told that what b and the buffers before
\* it were given is durable.
Reported(b) ==
    1 .. appended \ (lost \cup UNION {Elements(buffers[c].pending) : c \in b + 1 .. Len(buffers)})

\* Bug: what came during the operation is left to the next flush.
FinishAtOnce(b) ==
    /\ At(b, "finish")
    /\ LET flight == buffers[b].flights[1]
           owner  == Len(buffers[b].flights) = 1
       IN  /\ buffers' = [buffers EXCEPT ![b].flights = Tail(@)]
           /\ promised' = IF owner /\ ~flight.failed THEN Reported(b) ELSE promised
    /\ UNCHANGED <<file, appended, lost, rewrites, crashes>>

\* Bug: flushPromise is cleared on success only.
FinishUnlessFailed(b) ==
    /\ At(b, "finish")
    /\ LET flight == buffers[b].flights[1]
           owner  == Len(buffers[b].flights) = 1
       IN  IF owner /\ ~flight.failed /\ buffers[b].pending # <<>>
           THEN /\ buffers' = [buffers EXCEPT ![b].flights[1] = Drain(buffers[b].epoch)]
                /\ UNCHANGED promised
           ELSE /\ ~(owner /\ flight.failed)
                /\ buffers' = [buffers EXCEPT ![b].flights = Tail(@)]
                /\ promised' = IF owner THEN Reported(b) ELSE promised
    /\ UNCHANGED <<file, appended, lost, rewrites, crashes>>

\* finishOwnedFlush: the owner drains what came meanwhile; then the promise
\* settles.
Finish(b) ==
    /\ At(b, "finish")
    /\ LET flight == buffers[b].flights[1]
           owner  == Len(buffers[b].flights) = 1
       IN  IF owner /\ ~flight.failed /\ buffers[b].pending # <<>>
           THEN /\ buffers' = [buffers EXCEPT ![b].flights[1] = Drain(buffers[b].epoch)]
                /\ UNCHANGED promised
           ELSE /\ buffers' = [buffers EXCEPT ![b].flights = Tail(@)]
                /\ promised' = IF owner /\ ~flight.failed THEN Reported(b) ELSE promised
    /\ UNCHANGED <<file, appended, lost, rewrites, crashes>>

Pending == UNION {Elements(buffers[b].pending) : b \in DOMAIN buffers}

\* The file as a crash leaves it: a storage call under way may have done its
\* work, or part of it.
CrashFiles ==
    {file}
    \cup {buffers[b].flights[1].lines : b \in {c \in DOMAIN buffers : Writing(c)}}
    \cup UNION {Interrupted(buffers[b].flights[1].lines) :
                    b \in {c \in DOMAIN buffers : At(c, "append")}}

Crash ==
    /\ crashes < MaxCrashes
    /\ crashes' = crashes + 1
    /\ buffers' = <<>>
    /\ file' \in CrashFiles
    /\ lost' = lost \cup (Pending \ Elements(file'))
    /\ UNCHANGED <<appended, promised, rewrites>>

Init ==
    /\ file = <<>> /\ buffers = <<>>
    /\ appended = 0 /\ lost = {} /\ promised = {}
    /\ rewrites = 0 /\ crashes = 0

\* What goes on by itself: microtasks, storage calls and their continuations.
Proceed(b) ==
    \/ ScheduledFlush(b)
    \/ Retire(b)
    \/ DrainReady(b)
    \/ Appended(b)
    \/ AppendFails(b)
    \/ Written(b)
    \/ WriteFails(b)
    \/ Finish(b)

Next ==
    \/ AppendRecord
    \/ Flush
    \/ Read
    \/ Acquire
    \/ \E b \in DOMAIN buffers : Release(b) \/ Proceed(b)
    \/ Rewrite
    \/ Crash

Fairness == \A b \in 1 .. MaxBuffers : WF_vars(b \in DOMAIN buffers /\ Proceed(b))

Spec == Init /\ [][Next]_vars /\ Fairness
--------------------------------------------------------------------------------
Lines == Nat \cup {Torn, Corrupt}

FlightRecord ==
    [at : {"ready", "append", "write", "finish"}, epoch : Nat, lines : Seq(Nat), failed : BOOLEAN]

BufferRecord ==
    [pending : Seq(Nat), flights : Seq(FlightRecord), scheduled : BOOLEAN, failed : BOOLEAN,
     epoch : Nat, refs : Nat, retired : BOOLEAN, gone : BOOLEAN]

TypeOK ==
    /\ file \in Seq(Lines)
    /\ buffers \in Seq(BufferRecord)
    /\ appended \in Nat /\ rewrites \in Nat /\ crashes \in Nat
    /\ lost \subseteq 1 .. appended
    /\ promised \subseteq 1 .. appended
    /\ \A b \in DOMAIN buffers :
           /\ b < Len(buffers) => buffers[b].retired
           /\ buffers[b].gone => buffers[b].retired
           /\ buffers[b].retired => buffers[b].refs = 0

\* The records in the file stand in the order in which they were appended, each
\* once: whatever failed without telling how much it wrote, and whichever
\* rewrites and new buffers came in between, nothing was written twice or out of
\* turn.  (flushState, drain, rewrite, state)
InOrder ==
    \A i, j \in DOMAIN file :
        i < j /\ IsRecord(file[i]) /\ IsRecord(file[j]) => file[i] < file[j]

Readable == Corrupt \notin Elements(file)

\* Every record is in the file, in a buffer, or was dropped with its buffer.
Complete ==
    1 .. appended \subseteq
        Elements(file) \cup lost \cup Pending

\* No record slips between the file and the buffers: an append that a rewrite
\* overtakes in flight, one that comes during a rewrite, one whose buffer is
\* retired.  Only a crash or the retirement of a failed buffer drops records.
\* (rewrite, drain, release)
NoneMissing == Readable => Complete

\* What a flush has reported durable stays in the file, through rewrites,
\* failures and crashes.  (finishOwnedFlush)
PromisedIsDurable == Readable => promised \subseteq Elements(file)

\* appendLogStore.ts:7-8, crash-tolerant decoding: a crash in the middle of an
\* append leaves a torn final line, which is dropped; the log stays readable.
TornTailIsDropped == Readable

\* What is appended is drained, unless its buffer fails or the process dies.
\* (scheduleFlush, finishOwnedFlush, state)
BufferDrains ==
    \A b \in 1 .. MaxBuffers :
        (b \in DOMAIN buffers /\ buffers[b].pending # <<>>)
            ~> (b \notin DOMAIN buffers \/ buffers[b].pending = <<>> \/ buffers[b].failed)

\* A buffer that was released makes way for the next one, failed or not.
\* (release, settleRetiredState)
RetirementSettles ==
    \A b \in 1 .. MaxBuffers :
        (b \in DOMAIN buffers /\ buffers[b].retired)
            ~> (b \notin DOMAIN buffers \/ buffers[b].gone)

\* What a reader would find, less what is still to be written.
Found ==
    IF Complete THEN Without(file, {Torn, Corrupt} \cup Pending) ELSE <<>>

\* What is still to be written.
Outstanding ==
    IF Complete THEN Joined([b \in DOMAIN buffers |-> buffers[b].pending]) ELSE <<>>

\* The log its callers see.
Durable == INSTANCE DurableLog WITH
    Records <- 1 .. MaxRecords, log <- Found, tail <- Outstanding, intact <- Complete

\* The store implements the durable log: records move from the tail into the log
\* in order, and a rewrite does not show.  (appendLogStore.ts as a whole)
DurableLogRefinement == Durable!Spec
================================================================================

---------------------------- MODULE AppendLogProofs ----------------------------
(***************************************************************************)
(* The append-log store keeps its records: theorems about AppendLog for    *)
(* every number of records, rewrites, buffers, handles and crashes.        *)
(*                                                                         *)
(* The invariant has four parts.  Buffers: one buffer at a time has        *)
(* started, every other one is gone or waits, and what a flush of it is    *)
(* about to do fits what its buffer holds.  Order: the file and the        *)
(* buffers hold growing numbers, one behind the other, but for a buffer    *)
(* whose batch may have reached the file.  Writes: a replacement that is   *)
(* still to be written is the log a reader would find.  Accounts: a record *)
(* that is in no buffer and was not dropped is in the file.                *)
(*                                                                         *)
(* Every step takes a record (Taken) or lets records leave the front of    *)
(* what the buffers hold (Moved); both are steps of the durable log,       *)
(* because its log and its tail rise, and so are determined by the records *)
(* that they hold.                                                         *)
(***************************************************************************)
EXTENDS AppendLog, OperatorTheorems

\* What buffer b waits for, in a sequence bs of buffers.
ReadyIn(bs, b) == b > 1 => bs[b - 1].gone

\* A buffer that has used the file, or that is done with it.
Busy(buf) == buf.failed \/ buf.gone \/ \E i \in DOMAIN buf.flights : buf.flights[i].at # "ready"

Started(buf) == Busy(buf) \/ (buf.retired /\ buf.flights = <<>>)

\* The first flight fits its buffer: a drain belongs to the epoch unless a rewrite
\* waits behind it, and its batch is the front of the buffer.
FirstSound(buf) ==
    LET first == buf.flights[1]
    IN  /\ first.at \in {"ready", "append"} =>
               /\ ~buf.failed /\ first.epoch <= buf.epoch
               /\ first.epoch = buf.epoch <=> Len(buf.flights) = 1
        /\ first.at = "append" =>
               /\ first.lines # <<>> /\ Len(first.lines) <= Len(buf.pending)
               /\ first.lines = SubSeq(buf.pending, 1, Len(first.lines))
        /\ first.at = "finish" => first.failed = buf.failed

Sound(buf) ==
    /\ \A i \in DOMAIN buf.flights :
           /\ i > 1 => buf.flights[i].at = "write"
           /\ buf.flights[i].at # "finish" => ~buf.flights[i].failed
    /\ buf.flights # <<>> => FirstSound(buf)
    /\ buf.retired => buf.refs = 0
    /\ buf.gone => /\ buf.retired /\ buf.pending = <<>>
                   /\ \A i \in DOMAIN buf.flights : buf.flights[i].at \in {"ready", "finish"}

BuffersOK(bs) ==
    /\ bs \in Seq(BufferRecord)
    /\ \A b \in DOMAIN bs : /\ Sound(bs[b])
                            /\ Started(bs[b]) => ReadyIn(bs, b)
                            /\ b < Len(bs) => bs[b].retired

\* What a buffer holds, what all of them hold, and what the file holds.
Unwritten(buf) == Elements(buf.pending)

AllUnwritten(bs) == UNION {Unwritten(bs[b]) : b \in DOMAIN bs}

Recorded(f) == Elements(f) \ {Torn, Corrupt}

\* No batch of the buffer can have reached the file: there was no failure and no
\* rewrite since the last one that left the buffer, or none has begun.
Fresh(buf) ==
    \/ ~buf.failed /\ \A i \in DOMAIN buf.flights : buf.flights[i].at # "write"
    \/ buf.flights # <<>> /\ buf.flights[1].at \in {"ready", "append"}

Ordered(f) == \A i, j \in DOMAIN f : i < j /\ IsRecord(f[i]) /\ IsRecord(f[j]) => f[i] < f[j]

OrderOK(f, bs, n) ==
    /\ f \in Seq(Lines) /\ Ordered(f) /\ Recorded(f) \subseteq 1 .. n
    /\ \A b \in DOMAIN bs :
           /\ Rising(bs[b].pending) /\ Unwritten(bs[b]) \subseteq 1 .. n
           /\ Below(Recorded(f) \ Unwritten(bs[b]), Unwritten(bs[b]))
           /\ Fresh(bs[b]) => Below(Recorded(f), Unwritten(bs[b]))
    /\ \A b, c \in DOMAIN bs : b < c => Below(Unwritten(bs[b]), Unwritten(bs[c]))

\* The records that a reader should find, of n with those in l dropped.
KeptOf(bs, n, l) == 1 .. n \ (l \cup AllUnwritten(bs))

\* A replacement is the log that a reader should find.
WriteOK(lines, bs, n, l) ==
    /\ Rising(lines) /\ Elements(lines) \subseteq 1 .. n \ l
    /\ KeptOf(bs, n, l) \subseteq Elements(lines)
    /\ Below(Elements(lines), AllUnwritten(bs))

WritesOK(f, bs, n, l) ==
    \A b \in DOMAIN bs : \A i \in DOMAIN bs[b].flights :
        bs[b].flights[i].at = "write"
            => WriteOK(bs[b].flights[i].lines, bs, n, l) /\ KeptOf(bs, n, l) \subseteq Elements(f)

AccountsOK(f, bs, n, l, p) ==
    /\ Corrupt \notin Elements(f) => KeptOf(bs, n, l) \subseteq Elements(f)
    /\ p \subseteq KeptOf(bs, n, l)
    /\ l \subseteq 1 .. n /\ l \cap (Elements(f) \cup AllUnwritten(bs)) = {}

StateOK(f, bs, n, l, p) ==
    /\ n \in Nat
    /\ BuffersOK(bs)
    /\ OrderOK(f, bs, n)
    /\ WritesOK(f, bs, n, l)
    /\ AccountsOK(f, bs, n, l, p)

LogInv == StateOK(file, buffers, appended, lost, promised) /\ rewrites \in Nat /\ crashes \in Nat

\* A step that moves no record.
Still == AllUnwritten(buffers') = AllUnwritten(buffers) /\ UNCHANGED <<file, appended, lost>>

\* A step that takes a new record.
Taken ==
    /\ appended' = appended + 1 /\ UNCHANGED <<file, lost>>
    /\ AllUnwritten(buffers') = AllUnwritten(buffers) \cup {appended + 1}

\* A step that takes records from the front of what the buffers hold: each is then
\* in the log that a reader would find, or dropped.
Moved ==
    /\ appended' = appended /\ lost \subseteq lost'
    /\ AllUnwritten(buffers') \subseteq AllUnwritten(buffers)
    /\ Below(AllUnwritten(buffers) \ AllUnwritten(buffers'), AllUnwritten(buffers'))
    /\ lost' \cup AllUnwritten(buffers') \subseteq lost \cup AllUnwritten(buffers)
    /\ ~Complete => ~Complete'
    /\ Complete /\ AllUnwritten(buffers') = AllUnwritten(buffers) => Complete' /\ lost' = lost
--------------------------------------------------------------------------------
\* The invariant says what the run checks.
LEMMA LogInvImplies == LogInv => TypeOK /\ InOrder /\ NoneMissing /\ PromisedIsDurable
<1> SUFFICES ASSUME LogInv PROVE TypeOK /\ InOrder /\ NoneMissing /\ PromisedIsDurable
  OBVIOUS
<1>1. /\ appended \in Nat /\ BuffersOK(buffers) /\ OrderOK(file, buffers, appended)
      /\ AccountsOK(file, buffers, appended, lost, promised)
      /\ rewrites \in Nat /\ crashes \in Nat
  BY DEF LogInv, StateOK
<1>2. Pending = AllUnwritten(buffers) /\ KeptOf(buffers, appended, lost) \subseteq 1 .. appended
  BY DEF Pending, AllUnwritten, Unwritten, KeptOf
<1>3. TypeOK
  BY <1>1, <1>2 DEF TypeOK, BuffersOK, OrderOK, AccountsOK, Sound
<1>4. InOrder
  BY <1>1 DEF InOrder, OrderOK, Ordered
<1>5. NoneMissing
  BY <1>1, <1>2 DEF NoneMissing, Readable, Complete, AccountsOK, KeptOf
<1>6. PromisedIsDurable
  BY <1>1 DEF PromisedIsDurable, Readable, AccountsOK
<1> QED BY <1>3, <1>4, <1>5, <1>6

\* The log is complete when the file holds what a reader should find.
LEMMA CompleteIs ==
  /\ Complete <=> KeptOf(buffers, appended, lost) \subseteq Elements(file)
  /\ Complete' <=> KeptOf(buffers', appended', lost') \subseteq Elements(file')
<1>1. Pending = AllUnwritten(buffers) /\ Pending' = AllUnwritten(buffers')
  BY DEF Pending, AllUnwritten, Unwritten
<1> QED BY <1>1 DEF Complete, KeptOf

\* A step that moves no record takes none from the buffers.
LEMMA StillMoves == Still => Moved
<1> SUFFICES ASSUME Still PROVE Moved
  OBVIOUS
<1>1. AllUnwritten(buffers') = AllUnwritten(buffers) /\ UNCHANGED <<file, appended, lost>>
  BY DEF Still
<1>2. KeptOf(buffers', appended', lost') = KeptOf(buffers, appended, lost)
  BY <1>1 DEF KeptOf
<1>3. Complete' <=> Complete
  BY <1>1, <1>2, CompleteIs
<1>4. \A A : Below(A \ A, A)
  BY DEF Below
<1> QED BY <1>1, <1>3, <1>4 DEF Moved

\* A buffer that waits for nobody comes behind buffers that are all gone.
LEMMA GoneBelow ==
  ASSUME NEW bs, BuffersOK(bs), NEW b \in DOMAIN bs, ReadyIn(bs, b), NEW c \in DOMAIN bs, c < b
  PROVE  bs[c].gone
<1>1. bs \in Seq(BufferRecord) /\ DOMAIN bs = 1 .. Len(bs) /\ Len(bs) \in Nat
  BY DEF BuffersOK
<1> DEFINE Left == {n \in 1 .. b : n < b /\ ~bs[b - n].gone}
<1>2. ASSUME Left # {} PROVE FALSE
  <2>1. PICK n \in Left : \A k \in Left : n <= k
    <3>1. Left \in SUBSET Nat
      BY <1>1
    <3> HIDE DEF Left
    <3> QED BY <1>2, <3>1, LeastExists
  <2>2. n \in 1 .. b /\ n < b /\ ~bs[b - n].gone /\ b \in Nat
    BY <1>1
  <2>3. b - n \in DOMAIN bs /\ b - n + 1 \in DOMAIN bs /\ (b - n + 1) - 1 = b - n /\ b - n + 1 > 1
    BY <1>1, <2>2
  <2>4. CASE n = 1
    BY <1>1, <2>2, <2>4 DEF ReadyIn
  <2>5. CASE n # 1
    <3>1. n - 1 \in 1 .. b /\ n - 1 < b /\ ~(n <= n - 1) /\ b - (n - 1) = b - n + 1
      BY <2>2, <2>5
    <3>2. bs[b - n + 1].gone
      BY <2>1, <3>1
    <3>3. ReadyIn(bs, b - n + 1)
      BY <2>3, <3>2 DEF BuffersOK, Started, Busy
    <3> QED BY <2>2, <2>3, <3>3 DEF ReadyIn
  <2> QED BY <2>4, <2>5
<1>3. b - c \in 1 .. b /\ b - c < b /\ b - (b - c) = c
  BY <1>1
<1> QED BY <1>2, <1>3

\* One buffer at a time is started and not gone.
LEMMA OneAtWork ==
  ASSUME NEW bs, BuffersOK(bs), NEW b \in DOMAIN bs, NEW c \in DOMAIN bs,
         Started(bs[b]), Started(bs[c]), ~bs[b].gone, ~bs[c].gone
  PROVE  b = c
<1>1. ReadyIn(bs, b) /\ ReadyIn(bs, c)
  BY DEF BuffersOK
<1>2. ~(b < c) /\ ~(c < b)
  BY <1>1, GoneBelow
<1>3. b \in Nat /\ c \in Nat
  BY DEF BuffersOK
<1> QED BY <1>2, <1>3

\* A buffer with an append or a replacement to do is at work.
LEMMA Works ==
  ASSUME NEW buf, Sound(buf), NEW i \in DOMAIN buf.flights, buf.flights[i].at \in {"append", "write"}
  PROVE  Started(buf) /\ ~buf.gone
BY DEF Sound, Started, Busy

\* Buffer b is replaced by what may follow it.
LEMMA BufferChange ==
  ASSUME NEW bs, BuffersOK(bs), NEW b \in DOMAIN bs, NEW buf \in BufferRecord, Sound(buf),
         Started(buf) => ReadyIn(bs, b), bs[b].gone => buf.gone, bs[b].retired => buf.retired
  PROVE  LET cs == [bs EXCEPT ![b] = buf]
         IN  /\ BuffersOK(cs) /\ DOMAIN cs = DOMAIN bs
             /\ cs[b] = buf /\ \A c \in DOMAIN bs : c # b => cs[c] = bs[c]
<1> DEFINE cs == [bs EXCEPT ![b] = buf]
<1>1. bs \in Seq(BufferRecord) /\ b \in 1 .. Len(bs) /\ DOMAIN bs = 1 .. Len(bs) /\ Len(bs) \in Nat
  BY DEF BuffersOK
<1>2. /\ cs \in Seq(BufferRecord) /\ Len(cs) = Len(bs) /\ DOMAIN cs = DOMAIN bs
      /\ cs[b] = buf /\ \A c \in DOMAIN bs : c # b => cs[c] = bs[c]
  BY <1>1, ExceptSeq
<1> HIDE DEF cs
<1>3. ASSUME NEW c \in DOMAIN bs, ReadyIn(bs, c) PROVE ReadyIn(cs, c)
  <2>1. c > 1 => c - 1 \in DOMAIN bs
    BY <1>1
  <2> QED BY <1>2, <1>3, <2>1 DEF ReadyIn
<1>4. ASSUME NEW c \in DOMAIN bs
      PROVE Sound(cs[c]) /\ (Started(cs[c]) => ReadyIn(cs, c)) /\ (c < Len(cs) => cs[c].retired)
  <2>1. Sound(bs[c]) /\ (Started(bs[c]) => ReadyIn(bs, c)) /\ (c < Len(bs) => bs[c].retired)
    BY DEF BuffersOK
  <2> QED BY <1>2, <1>3, <2>1
<1>5. BuffersOK(cs)
  BY <1>2, <1>4 DEF BuffersOK
<1> QED BY <1>2, <1>5 DEF cs

--------------------------------------------------------------------------------
\* What may become of a buffer without a word about the file or its records.
QuietBuf(buf, next) ==
    /\ next \in BufferRecord /\ Sound(next)
    /\ next.pending = buf.pending
    /\ buf.gone => next.gone
    /\ buf.retired => next.retired
    /\ Fresh(next) => Fresh(buf)

\* It has no replacement to write that it did not have.
SameWrites(buf, next) ==
    \A i \in DOMAIN next.flights :
        next.flights[i].at = "write" => \E j \in DOMAIN buf.flights : buf.flights[j] = next.flights[i]

\* The buffers hold what they held, and none claims more of the file.
LEMMA SamePending ==
  ASSUME NEW bs, NEW cs, DOMAIN cs = DOMAIN bs,
         \A b \in DOMAIN bs : cs[b].pending = bs[b].pending /\ (Fresh(cs[b]) => Fresh(bs[b]))
  PROVE  /\ AllUnwritten(cs) = AllUnwritten(bs)
         /\ \A n, l : KeptOf(cs, n, l) = KeptOf(bs, n, l)
         /\ \A f, n : OrderOK(f, bs, n) => OrderOK(f, cs, n)
         /\ \A f, n, l, p : AccountsOK(f, bs, n, l, p) => AccountsOK(f, cs, n, l, p)
         /\ \A lines, n, l : WriteOK(lines, bs, n, l) => WriteOK(lines, cs, n, l)
<1>1. \A b \in DOMAIN bs : Unwritten(cs[b]) = Unwritten(bs[b])
  BY DEF Unwritten
<1>2. AllUnwritten(cs) = AllUnwritten(bs)
  BY <1>1 DEF AllUnwritten
<1>3. \A n, l : KeptOf(cs, n, l) = KeptOf(bs, n, l)
  BY <1>2 DEF KeptOf
<1>4. ASSUME NEW f, NEW n, OrderOK(f, bs, n) PROVE OrderOK(f, cs, n)
  BY <1>1, <1>4 DEF OrderOK
<1>5. \A f, n, l, p : AccountsOK(f, bs, n, l, p) => AccountsOK(f, cs, n, l, p)
  BY <1>2, <1>3 DEF AccountsOK
<1>6. \A lines, n, l : WriteOK(lines, bs, n, l) => WriteOK(lines, cs, n, l)
  BY <1>2, <1>3 DEF WriteOK
<1> QED BY <1>2, <1>3, <1>4, <1>5, <1>6

\* A quiet change of buffer b, with no replacement that is not a good one.
LEMMA QuietChange ==
  ASSUME NEW f, NEW bs, NEW n, NEW l, NEW p, StateOK(f, bs, n, l, p),
         NEW b \in DOMAIN bs, NEW buf, QuietBuf(bs[b], buf), Started(buf) => ReadyIn(bs, b),
         \A i \in DOMAIN buf.flights :
             buf.flights[i].at = "write" =>
                 \/ \E j \in DOMAIN bs[b].flights : bs[b].flights[j] = buf.flights[i]
                 \/ /\ WriteOK(buf.flights[i].lines, bs, n, l)
                    /\ KeptOf(bs, n, l) \subseteq Elements(f)
  PROVE  /\ StateOK(f, [bs EXCEPT ![b] = buf], n, l, p)
         /\ AllUnwritten([bs EXCEPT ![b] = buf]) = AllUnwritten(bs)
<1> DEFINE cs == [bs EXCEPT ![b] = buf]
<1>1. BuffersOK(bs) /\ buf \in BufferRecord /\ Sound(buf) /\ buf.pending = bs[b].pending
  BY DEF StateOK, QuietBuf
<1>2. /\ BuffersOK(cs) /\ DOMAIN cs = DOMAIN bs
      /\ cs[b] = buf /\ \A c \in DOMAIN bs : c # b => cs[c] = bs[c]
  BY <1>1, BufferChange DEF QuietBuf
<1> HIDE DEF cs
<1>3. \A c \in DOMAIN bs : cs[c].pending = bs[c].pending /\ (Fresh(cs[c]) => Fresh(bs[c]))
  BY <1>1, <1>2 DEF QuietBuf
<1>4. /\ KeptOf(cs, n, l) = KeptOf(bs, n, l) /\ AllUnwritten(cs) = AllUnwritten(bs)
      /\ OrderOK(f, cs, n) /\ AccountsOK(f, cs, n, l, p)
      /\ \A lines : WriteOK(lines, bs, n, l) => WriteOK(lines, cs, n, l)
  BY <1>2, <1>3, SamePending DEF StateOK
<1>5. WritesOK(f, cs, n, l)
  <2> SUFFICES ASSUME NEW c \in DOMAIN cs, NEW i \in DOMAIN cs[c].flights, cs[c].flights[i].at = "write"
               PROVE  WriteOK(cs[c].flights[i].lines, cs, n, l) /\ KeptOf(cs, n, l) \subseteq Elements(f)
    BY DEF WritesOK
  <2>1. ASSUME NEW d \in DOMAIN bs, NEW j \in DOMAIN bs[d].flights, bs[d].flights[j].at = "write"
        PROVE  WriteOK(bs[d].flights[j].lines, bs, n, l) /\ KeptOf(bs, n, l) \subseteq Elements(f)
    BY <2>1 DEF StateOK, WritesOK
  <2>2. CASE c = b
    BY <1>2, <1>4, <2>1, <2>2
  <2>3. CASE c # b
    BY <1>2, <1>4, <2>1, <2>3
  <2> QED BY <2>2, <2>3
<1> QED BY <1>2, <1>4, <1>5 DEF StateOK, cs

\* A quiet change without a new replacement.
LEMMA QuietKeeps ==
  ASSUME NEW f, NEW bs, NEW n, NEW l, NEW p, StateOK(f, bs, n, l, p),
         NEW b \in DOMAIN bs, NEW buf, QuietBuf(bs[b], buf), SameWrites(bs[b], buf),
         Started(buf) => ReadyIn(bs, b)
  PROVE  /\ StateOK(f, [bs EXCEPT ![b] = buf], n, l, p)
         /\ AllUnwritten([bs EXCEPT ![b] = buf]) = AllUnwritten(bs)
<1>1. \A i \in DOMAIN buf.flights :
          buf.flights[i].at = "write" =>
              \/ \E j \in DOMAIN bs[b].flights : bs[b].flights[j] = buf.flights[i]
              \/ /\ WriteOK(buf.flights[i].lines, bs, n, l)
                 /\ KeptOf(bs, n, l) \subseteq Elements(f)
  BY DEF SameWrites
<1> QED BY <1>1, QuietChange

\* The fields of a buffer and of its flights.
LEMMA BufferTypes ==
  ASSUME NEW buf \in BufferRecord
  PROVE  /\ buf.pending \in Seq(Nat) /\ buf.flights \in Seq(FlightRecord)
         /\ buf.scheduled \in BOOLEAN /\ buf.failed \in BOOLEAN
         /\ buf.retired \in BOOLEAN /\ buf.gone \in BOOLEAN
         /\ buf.epoch \in Nat /\ buf.refs \in Nat
         /\ Len(buf.flights) \in Nat /\ DOMAIN buf.flights = 1 .. Len(buf.flights)
         /\ \A i \in DOMAIN buf.flights :
                /\ buf.flights[i] \in FlightRecord
                /\ buf.flights[i].at \in {"ready", "append", "write", "finish"}
                /\ buf.flights[i].epoch \in Nat /\ buf.flights[i].lines \in Seq(Nat)
                /\ buf.flights[i].failed \in BOOLEAN
<1>1. buf.flights \in Seq(FlightRecord)
  BY DEF BufferRecord
<1>2. \A i \in DOMAIN buf.flights : buf.flights[i] \in FlightRecord
  BY <1>1
<1> QED BY <1>1, <1>2 DEF BufferRecord, FlightRecord

\* flushState, for one buffer.
Flushing(buf) ==
    IF buf.flights # <<>> \/ buf.failed THEN buf
    ELSE [buf EXCEPT !.flights = <<Drain(buf.epoch)>>]

\* What flushState does to its buffer.
LEMMA FlushStateIs ==
  ASSUME NEW bs \in Seq(BufferRecord), NEW b \in DOMAIN bs
  PROVE  FlushState(bs, b) = [bs EXCEPT ![b] = Flushing(bs[b])]
<1>1. bs[b] \in BufferRecord /\ bs = [bs EXCEPT ![b] = bs[b]]
  OBVIOUS
<1>2. CASE bs[b].flights # <<>> \/ bs[b].failed
  BY <1>1, <1>2 DEF FlushState, Flushing
<1>3. CASE ~(bs[b].flights # <<>> \/ bs[b].failed)
  BY <1>1, <1>3 DEF FlushState, Flushing
<1> QED BY <1>2, <1>3

\* The drain that a flush starts waits, and claims nothing.
LEMMA FlushingFacts ==
  ASSUME NEW buf \in BufferRecord, Sound(buf)
  PROVE  /\ QuietBuf(buf, Flushing(buf))
         /\ Started(Flushing(buf)) => Started(buf)
         /\ buf.retired => (Started(Flushing(buf)) => Busy(buf))
         /\ SameWrites(buf, Flushing(buf))
<1> DEFINE next == [buf EXCEPT !.flights = <<Drain(buf.epoch)>>]
<1>1. CASE buf.flights # <<>> \/ buf.failed
  BY <1>1 DEF Flushing, QuietBuf, SameWrites, Started, Busy
<1>2. CASE ~(buf.flights # <<>> \/ buf.failed)
  <2>1. Drain(buf.epoch) \in FlightRecord /\ <<Drain(buf.epoch)>> \in Seq(FlightRecord)
    <3>1. Drain(buf.epoch) \in FlightRecord
      BY BufferTypes DEF Drain, FlightRecord
    <3> QED BY <3>1
  <2>2. /\ next \in BufferRecord /\ next.flights = <<Drain(buf.epoch)>>
        /\ next.pending = buf.pending /\ next.gone = buf.gone /\ next.retired = buf.retired
        /\ next.failed = buf.failed /\ next.epoch = buf.epoch /\ next.refs = buf.refs
        /\ Flushing(buf) = next
    BY <1>2, <2>1 DEF BufferRecord, Flushing
  <2> HIDE DEF next
  <2>3. /\ Len(next.flights) = 1 /\ DOMAIN next.flights = {1} /\ next.flights # <<>>
        /\ next.flights[1] = Drain(buf.epoch) /\ next.flights[1].at = "ready"
        /\ next.flights[1].epoch = buf.epoch /\ ~next.flights[1].failed
    BY <2>2 DEF Drain
  <2>4. FirstSound(next)
    BY <1>2, <2>2, <2>3, BufferTypes DEF FirstSound
  <2>5. Sound(next)
    BY <2>2, <2>3, <2>4 DEF Sound
  <2>6. Fresh(buf)
    BY <1>2 DEF Fresh
  <2>7. Started(next) => Busy(buf)
    BY <2>2, <2>3 DEF Started, Busy
  <2> QED BY <2>2, <2>3, <2>5, <2>6, <2>7 DEF QuietBuf, SameWrites, Started
<1> QED BY <1>1, <1>2

\* flushState keeps everything.
LEMMA FlushStateKeeps ==
  ASSUME NEW f, NEW bs, NEW n, NEW l, NEW p, StateOK(f, bs, n, l, p), NEW b \in DOMAIN bs
  PROVE  /\ StateOK(f, FlushState(bs, b), n, l, p)
         /\ AllUnwritten(FlushState(bs, b)) = AllUnwritten(bs)
<1>1. /\ bs \in Seq(BufferRecord) /\ bs[b] \in BufferRecord /\ Sound(bs[b])
      /\ Started(bs[b]) => ReadyIn(bs, b)
  BY DEF StateOK, BuffersOK
<1>2. FlushState(bs, b) = [bs EXCEPT ![b] = Flushing(bs[b])]
  BY <1>1, FlushStateIs
<1> DEFINE next == Flushing(bs[b])
<1>3. /\ QuietBuf(bs[b], next) /\ SameWrites(bs[b], next)
      /\ Started(next) => ReadyIn(bs, b)
  BY <1>1, FlushingFacts
<1> HIDE DEF next
<1>4. /\ StateOK(f, [bs EXCEPT ![b] = next], n, l, p)
      /\ AllUnwritten([bs EXCEPT ![b] = next]) = AllUnwritten(bs)
  BY <1>3, QuietKeeps
<1> QED BY <1>2, <1>4 DEF next

\* A new buffer behind those there are holds nothing and waits.
LEMMA NewBufferKeeps ==
  ASSUME NEW f, NEW bs, NEW n, NEW l, NEW p, StateOK(f, bs, n, l, p),
         bs = <<>> \/ bs[Len(bs)].retired
  PROVE  /\ StateOK(f, Append(bs, NewBuffer), n, l, p)
         /\ AllUnwritten(Append(bs, NewBuffer)) = AllUnwritten(bs)
         /\ ~NewBuffer.retired /\ NewBuffer.flights = <<>> /\ NewBuffer.pending = <<>>
<1> DEFINE cs == Append(bs, NewBuffer)
           k == Len(bs) + 1
<1>1. /\ NewBuffer \in BufferRecord /\ NewBuffer.flights = <<>> /\ NewBuffer.pending = <<>>
      /\ ~NewBuffer.retired /\ ~NewBuffer.gone /\ ~NewBuffer.failed
  BY DEF NewBuffer, BufferRecord
<1>2. Sound(NewBuffer) /\ ~Started(NewBuffer) /\ Unwritten(NewBuffer) = {} /\ Rising(NewBuffer.pending)
  BY <1>1 DEF Sound, Started, Busy, Unwritten, Elements, Rising
<1>3. bs \in Seq(BufferRecord) /\ DOMAIN bs = 1 .. Len(bs) /\ Len(bs) \in Nat
  BY DEF StateOK, BuffersOK
<1>4. /\ cs \in Seq(BufferRecord) /\ Len(cs) = k /\ DOMAIN cs = DOMAIN bs \cup {k} /\ k \notin DOMAIN bs
      /\ cs[k] = NewBuffer /\ \A c \in DOMAIN bs : cs[c] = bs[c]
  BY <1>1, <1>3
<1> HIDE DEF cs
<1>5. BuffersOK(cs)
  <2>1. ASSUME NEW c \in DOMAIN bs
        PROVE Sound(cs[c]) /\ (Started(cs[c]) => ReadyIn(cs, c)) /\ cs[c].retired
    <3>1. Sound(bs[c]) /\ (Started(bs[c]) => ReadyIn(bs, c)) /\ bs[c].retired
      BY <1>3 DEF StateOK, BuffersOK
    <3>2. c > 1 => c - 1 \in DOMAIN bs
      BY <1>3
    <3> QED BY <1>4, <3>1, <3>2 DEF ReadyIn
  <2> QED BY <1>2, <1>3, <1>4, <2>1 DEF BuffersOK
<1>6. AllUnwritten(cs) = AllUnwritten(bs)
  BY <1>2, <1>4 DEF AllUnwritten
<1>7. KeptOf(cs, n, l) = KeptOf(bs, n, l) /\ AccountsOK(f, cs, n, l, p)
  BY <1>6 DEF KeptOf, AccountsOK, StateOK
<1>8. OrderOK(f, cs, n)
  <2>1. OrderOK(f, bs, n)
    BY DEF StateOK
  <2> HIDE DEF k
  <2>2. /\ Rising(cs[k].pending) /\ Unwritten(cs[k]) \subseteq 1 .. n
        /\ Below(Recorded(f) \ Unwritten(cs[k]), Unwritten(cs[k]))
        /\ Below(Recorded(f), Unwritten(cs[k]))
        /\ \A A : Below(A, Unwritten(cs[k])) /\ Below(Unwritten(cs[k]), A)
    BY <1>2, <1>4 DEF Below
  <2>3. \A b, c \in DOMAIN cs : b < c => Below(Unwritten(cs[b]), Unwritten(cs[c]))
    <3> TAKE b, c \in DOMAIN cs
    <3>1. CASE b = k \/ c = k
      BY <3>1, <2>2
    <3>2. CASE b # k /\ c # k
      BY <1>4, <2>1, <3>2 DEF OrderOK
    <3> QED BY <3>1, <3>2
  <2> QED BY <1>4, <2>1, <2>2, <2>3 DEF OrderOK
<1>9. WritesOK(f, cs, n, l)
  <2> SUFFICES ASSUME NEW c \in DOMAIN cs, NEW i \in DOMAIN cs[c].flights, cs[c].flights[i].at = "write"
               PROVE  WriteOK(cs[c].flights[i].lines, cs, n, l) /\ KeptOf(cs, n, l) \subseteq Elements(f)
    BY DEF WritesOK
  <2>1. c \in DOMAIN bs /\ cs[c] = bs[c]
    BY <1>1, <1>4
  <2>2. WriteOK(cs[c].flights[i].lines, bs, n, l) /\ KeptOf(bs, n, l) \subseteq Elements(f)
    BY <2>1 DEF StateOK, WritesOK
  <2> QED BY <1>6, <1>7, <2>2 DEF WriteOK
<1>10. n \in Nat
  BY DEF StateOK
<1> QED BY <1>1, <1>5, <1>6, <1>7, <1>8, <1>9, <1>10 DEF StateOK, cs

\* state() keeps everything, and the buffer that it returns takes records.
LEMMA OpenedKeeps ==
  ASSUME NEW n, NEW l, NEW p, StateOK(file, buffers, n, l, p)
  PROVE  /\ StateOK(file, Opened, n, l, p) /\ AllUnwritten(Opened) = AllUnwritten(buffers)
         /\ Opened \in Seq(BufferRecord) /\ Len(Opened) \in DOMAIN Opened
         /\ Opened[Len(Opened)] \in BufferRecord /\ Sound(Opened[Len(Opened)])
         /\ ~Opened[Len(Opened)].retired /\ ~Opened[Len(Opened)].gone
         /\ Started(Opened[Len(Opened)]) => ReadyIn(Opened, Len(Opened))
         /\ Ready(Len(Opened)) => ReadyIn(Opened, Len(Opened))
<1>1. buffers \in Seq(BufferRecord) /\ Len(buffers) \in Nat /\ DOMAIN buffers = 1 .. Len(buffers)
  BY DEF StateOK, BuffersOK
<1>2. /\ StateOK(file, Opened, n, l, p) /\ Len(Opened) \in DOMAIN Opened /\ ~Opened[Len(Opened)].retired
      /\ AllUnwritten(Opened) = AllUnwritten(buffers)
      /\ (Ready(Len(Opened)) => ReadyIn(Opened, Len(Opened)))
  <2>1. CASE buffers = <<>> \/ buffers[Len(buffers)].retired
    <3>1. /\ StateOK(file, Append(buffers, NewBuffer), n, l, p) /\ ~NewBuffer.retired
          /\ AllUnwritten(Append(buffers, NewBuffer)) = AllUnwritten(buffers)
      BY <2>1, NewBufferKeeps
    <3>2. Opened = Append(buffers, NewBuffer) /\ NewBuffer \in BufferRecord
      BY <2>1 DEF Opened, NewBuffer, BufferRecord
    <3>3. /\ Len(Opened) = Len(buffers) + 1 /\ Len(Opened) \in DOMAIN Opened
          /\ Opened[Len(Opened)] = NewBuffer
          /\ \A c \in DOMAIN buffers : Opened[c] = buffers[c]
      BY <1>1, <3>2
    <3>4. Len(Opened) > 1 => Len(Opened) - 1 \in DOMAIN buffers
      BY <1>1, <3>3
    <3>5. Ready(Len(Opened)) => ReadyIn(Opened, Len(Opened))
      BY <3>3, <3>4 DEF Ready, ReadyIn
    <3> QED BY <3>1, <3>2, <3>3, <3>5
  <2>2. CASE ~(buffers = <<>> \/ buffers[Len(buffers)].retired)
    <3>1. Opened = buffers /\ Len(buffers) \in DOMAIN buffers
      BY <1>1, <2>2 DEF Opened
    <3> QED BY <2>2, <3>1 DEF Ready, ReadyIn
  <2> QED BY <2>1, <2>2
<1>3. /\ Opened \in Seq(BufferRecord) /\ Sound(Opened[Len(Opened)])
      /\ Started(Opened[Len(Opened)]) => ReadyIn(Opened, Len(Opened))
  BY <1>2 DEF StateOK, BuffersOK
<1>4. Opened[Len(Opened)] \in BufferRecord /\ ~Opened[Len(Opened)].gone
  BY <1>2, <1>3 DEF Sound
<1> QED BY <1>2, <1>3, <1>4

--------------------------------------------------------------------------------
\* flush and close.
LEMMA FlushKeeps == LogInv /\ Flush => LogInv' /\ Still
<1> SUFFICES ASSUME LogInv, Flush PROVE LogInv' /\ Still
  OBVIOUS
<1>1. /\ buffers # <<>> /\ buffers' = FlushState(buffers, Len(buffers))
      /\ UNCHANGED <<file, appended, lost, promised, rewrites, crashes>>
  BY DEF Flush
<1>2. Len(buffers) \in DOMAIN buffers
  BY <1>1 DEF LogInv, StateOK, BuffersOK
<1>3. /\ StateOK(file, FlushState(buffers, Len(buffers)), appended, lost, promised)
      /\ AllUnwritten(FlushState(buffers, Len(buffers))) = AllUnwritten(buffers)
  BY <1>2, FlushStateKeeps DEF LogInv
<1> QED BY <1>1, <1>3 DEF LogInv, Still

\* read
LEMMA ReadKeeps == LogInv /\ Read => LogInv' /\ Still
<1> SUFFICES ASSUME LogInv, Read PROVE LogInv' /\ Still
  OBVIOUS
<1>1. /\ buffers' = FlushState(Opened, Len(Opened))
      /\ UNCHANGED <<file, appended, lost, promised, rewrites, crashes>>
  BY DEF Read
<1>2. /\ StateOK(file, Opened, appended, lost, promised) /\ Len(Opened) \in DOMAIN Opened
      /\ AllUnwritten(Opened) = AllUnwritten(buffers)
  BY OpenedKeeps DEF LogInv
<1>3. /\ StateOK(file, FlushState(Opened, Len(Opened)), appended, lost, promised)
      /\ AllUnwritten(FlushState(Opened, Len(Opened))) = AllUnwritten(Opened)
  BY <1>2, FlushStateKeeps
<1> QED BY <1>1, <1>2, <1>3 DEF LogInv, Still

\* acquire
LEMMA AcquireKeeps == LogInv /\ Acquire => LogInv' /\ Still
<1> SUFFICES ASSUME LogInv, Acquire PROVE LogInv' /\ Still
  OBVIOUS
<1> DEFINE k == Len(Opened)
           buf == Opened[k]
           next == [buf EXCEPT !.refs = @ + 1]
<1>1. /\ buffers' = [Opened EXCEPT ![k].refs = @ + 1]
      /\ UNCHANGED <<file, appended, lost, promised, rewrites, crashes>>
  BY DEF Acquire
<1>2. /\ StateOK(file, Opened, appended, lost, promised) /\ k \in DOMAIN Opened
      /\ AllUnwritten(Opened) = AllUnwritten(buffers)
      /\ buf \in BufferRecord /\ Sound(buf) /\ ~buf.retired /\ ~buf.gone
      /\ Started(buf) => ReadyIn(Opened, k)
  BY OpenedKeeps DEF LogInv
<1>3. buffers' = [Opened EXCEPT ![k] = next]
  BY <1>1
<1> HIDE DEF k
<1>4. /\ next \in BufferRecord /\ next.pending = buf.pending /\ next.flights = buf.flights
      /\ next.retired = buf.retired /\ next.gone = buf.gone /\ next.failed = buf.failed
      /\ next.epoch = buf.epoch
  BY <1>2 DEF BufferRecord
<1> HIDE DEF next
<1>5. QuietBuf(buf, next) /\ SameWrites(buf, next) /\ (Started(next) => Started(buf))
  BY <1>2, <1>4 DEF QuietBuf, SameWrites, Sound, FirstSound, Fresh, Started, Busy
<1>6. /\ StateOK(file, [Opened EXCEPT ![k] = next], appended, lost, promised)
      /\ AllUnwritten([Opened EXCEPT ![k] = next]) = AllUnwritten(Opened)
  BY <1>2, <1>5, QuietKeeps
<1> QED BY <1>1, <1>2, <1>3, <1>6 DEF LogInv, Still

\* The microtask of scheduleFlush.
LEMMA ScheduledFlushKeeps ==
  ASSUME LogInv, NEW b \in DOMAIN buffers, ScheduledFlush(b)
  PROVE  LogInv' /\ Still
<1> DEFINE buf == buffers[b]
           next == [buf EXCEPT !.scheduled = FALSE]
           bs == [buffers EXCEPT ![b] = next]
<1>1. /\ buffers' = FlushState(bs, b)
      /\ UNCHANGED <<file, appended, lost, promised, rewrites, crashes>>
  BY DEF ScheduledFlush
<1>2. /\ StateOK(file, buffers, appended, lost, promised) /\ buffers \in Seq(BufferRecord)
      /\ buf \in BufferRecord /\ Sound(buf) /\ (Started(buf) => ReadyIn(buffers, b))
  BY DEF LogInv, StateOK, BuffersOK
<1>3. /\ next \in BufferRecord /\ next.pending = buf.pending /\ next.flights = buf.flights
      /\ next.retired = buf.retired /\ next.gone = buf.gone /\ next.failed = buf.failed
      /\ next.epoch = buf.epoch /\ next.refs = buf.refs
  BY <1>2 DEF BufferRecord
<1>4. b \in DOMAIN bs
  BY <1>2
<1> HIDE DEF next
<1>5. QuietBuf(buf, next) /\ SameWrites(buf, next) /\ (Started(next) => Started(buf))
  BY <1>2, <1>3 DEF QuietBuf, SameWrites, Sound, FirstSound, Fresh, Started, Busy
<1>6. StateOK(file, bs, appended, lost, promised) /\ AllUnwritten(bs) = AllUnwritten(buffers)
  BY <1>2, <1>5, QuietKeeps
<1> HIDE DEF bs
<1>7. /\ StateOK(file, FlushState(bs, b), appended, lost, promised)
      /\ AllUnwritten(FlushState(bs, b)) = AllUnwritten(bs)
  BY <1>4, <1>6, FlushStateKeeps
<1> QED BY <1>1, <1>6, <1>7 DEF LogInv, Still

\* release: the last one retires the buffer, and starts its last flush unless one
\* is under way or the buffer has failed.
LEMMA ReleaseKeeps ==
  ASSUME LogInv, NEW b \in DOMAIN buffers, Release(b)
  PROVE  LogInv' /\ Still
<1> DEFINE buf == buffers[b]
           kept == [buf EXCEPT !.refs = @ - 1, !.retired = buf.refs = 1]
           next == IF kept.retired THEN Flushing(kept) ELSE kept
           bs == [buffers EXCEPT ![b] = kept]
<1>1. /\ buf.refs > 0
      /\ buffers' = IF bs[b].retired THEN FlushState(bs, b) ELSE bs
      /\ UNCHANGED <<file, appended, lost, promised, rewrites, crashes>>
  BY DEF Release
<1>2. /\ StateOK(file, buffers, appended, lost, promised) /\ buffers \in Seq(BufferRecord)
      /\ buf \in BufferRecord /\ Sound(buf) /\ (Started(buf) => ReadyIn(buffers, b))
  BY DEF LogInv, StateOK, BuffersOK
<1>3. ~buf.retired /\ ~buf.gone /\ buf.refs \in Nat
  BY <1>1, <1>2, BufferTypes DEF Sound
<1>4. /\ kept \in BufferRecord /\ kept.pending = buf.pending /\ kept.flights = buf.flights
      /\ kept.retired <=> buf.refs = 1
      /\ kept.gone = buf.gone /\ kept.failed = buf.failed
      /\ kept.epoch = buf.epoch /\ kept.refs = buf.refs - 1
  <2>1. buf.refs - 1 \in Nat /\ (buf.refs = 1) \in BOOLEAN
    BY <1>1, <1>3
  <2> HIDE DEF buf
  <2> QED BY <1>2, <2>1 DEF BufferRecord
<1>5. bs \in Seq(BufferRecord) /\ b \in DOMAIN bs /\ bs[b] = kept
  BY <1>2, <1>4
<1> HIDE DEF kept
<1>6. QuietBuf(buf, kept) /\ SameWrites(buf, kept) /\ (Busy(kept) => Busy(buf))
  <2> HIDE DEF buf
  <2>1. FirstSound(buf) => FirstSound(kept)
    BY <1>4 DEF FirstSound
  <2>2. kept.retired => kept.refs = 0
    BY <1>3, <1>4
  <2>3. Sound(kept)
    BY <1>2, <1>3, <1>4, <2>1, <2>2 DEF Sound
  <2>4. (Fresh(kept) => Fresh(buf)) /\ (Busy(kept) => Busy(buf)) /\ SameWrites(buf, kept)
    BY <1>4 DEF Fresh, Busy, SameWrites
  <2> QED BY <1>3, <1>4, <2>3, <2>4 DEF QuietBuf
<1>7. buffers' = [buffers EXCEPT ![b] = next]
  <2>1. CASE kept.retired
    <3>1. buffers' = [bs EXCEPT ![b] = Flushing(kept)]
      BY <1>1, <1>5, <2>1, FlushStateIs
    <3>2. [bs EXCEPT ![b] = Flushing(kept)] = [buffers EXCEPT ![b] = Flushing(kept)]
      BY <1>2
    <3> QED BY <2>1, <3>1, <3>2
  <2>2. CASE ~kept.retired
    BY <1>1, <1>5, <2>2
  <2> QED BY <2>1, <2>2
<1> HIDE DEF bs
<1>8. QuietBuf(buf, next) /\ SameWrites(buf, next) /\ (Started(next) => Started(buf))
  <2>1. CASE kept.retired
    <3>1. /\ QuietBuf(kept, Flushing(kept)) /\ SameWrites(kept, Flushing(kept))
          /\ Started(Flushing(kept)) => Busy(kept)
      BY <1>4, <1>6, <2>1, FlushingFacts DEF QuietBuf
    <3>2. next = Flushing(kept)
      BY <2>1
    <3> QED BY <1>6, <3>1, <3>2 DEF QuietBuf, SameWrites, Started
  <2>2. CASE ~kept.retired
    BY <1>6, <2>2 DEF Started
  <2> QED BY <2>1, <2>2
<1> HIDE DEF next
<1>9. /\ StateOK(file, [buffers EXCEPT ![b] = next], appended, lost, promised)
      /\ AllUnwritten([buffers EXCEPT ![b] = next]) = AllUnwritten(buffers)
  BY <1>2, <1>8, QuietKeeps
<1> QED BY <1>1, <1>7, <1>9 DEF LogInv, Still

\* A buffer whose first flight goes on.
WithFirst(buf, flight) == [buf EXCEPT !.flights = [@ EXCEPT ![1] = flight]]

\* The rest of such a buffer stays as it is.
LEMMA WithFirstFacts ==
  ASSUME NEW buf \in BufferRecord, buf.flights # <<>>, NEW flight \in FlightRecord
  PROVE  LET next == WithFirst(buf, flight)
         IN  /\ next \in BufferRecord
             /\ next.pending = buf.pending /\ next.retired = buf.retired /\ next.gone = buf.gone
             /\ next.failed = buf.failed /\ next.epoch = buf.epoch /\ next.refs = buf.refs
             /\ Len(next.flights) = Len(buf.flights) /\ DOMAIN next.flights = DOMAIN buf.flights
             /\ next.flights # <<>> /\ next.flights[1] = flight
             /\ \A i \in DOMAIN buf.flights : i # 1 => next.flights[i] = buf.flights[i]
<1> DEFINE next == WithFirst(buf, flight)
           flights == [buf.flights EXCEPT ![1] = flight]
<1>1. buf.flights \in Seq(FlightRecord) /\ 1 \in DOMAIN buf.flights
  BY BufferTypes
<1>2. /\ flights \in Seq(FlightRecord) /\ Len(flights) = Len(buf.flights)
      /\ \A i \in 1 .. Len(buf.flights) : flights[i] = IF i = 1 THEN flight ELSE buf.flights[i]
  BY <1>1, ExceptSeq
<1>3. DOMAIN flights = DOMAIN buf.flights /\ DOMAIN buf.flights = 1 .. Len(buf.flights) /\ flights # <<>>
  BY <1>1, <1>2
<1>4. next = [buf EXCEPT !.flights = flights]
  BY DEF WithFirst
<1> HIDE DEF flights
<1>5. /\ next \in BufferRecord /\ next.flights = flights
      /\ next.pending = buf.pending /\ next.retired = buf.retired /\ next.gone = buf.gone
      /\ next.failed = buf.failed /\ next.epoch = buf.epoch /\ next.refs = buf.refs
  BY <1>2, <1>4 DEF BufferRecord
<1> HIDE DEF next
<1>6. next.flights[1] = flight /\ \A i \in DOMAIN buf.flights : i # 1 => next.flights[i] = buf.flights[i]
  BY <1>1, <1>2, <1>3, <1>5
<1> QED BY <1>2, <1>3, <1>5, <1>6 DEF next

\* A buffer that differs from another one in nothing but what it holds.
Apart(was, buf) ==
    /\ buf.flights = was.flights /\ buf.failed = was.failed /\ buf.epoch = was.epoch
    /\ buf.refs = was.refs /\ buf.retired = was.retired /\ buf.gone = was.gone
    /\ was.gone => buf.pending = <<>>

\* The first flight of a buffer that was sound goes on in a way that fits.
LEMMA FirstGoesOn ==
  ASSUME NEW was \in BufferRecord, Sound(was), NEW buf \in BufferRecord, Apart(was, buf), buf.flights # <<>>, NEW flight \in FlightRecord,
         flight.at \in {"ready", "append", "finish"},
         flight.at # "finish" => ~flight.failed,
         buf.gone => flight.at # "append",
         FirstSound(WithFirst(buf, flight))
  PROVE  Sound(WithFirst(buf, flight)) /\ SameWrites(buf, WithFirst(buf, flight))
<1> DEFINE next == WithFirst(buf, flight)
<1>1. /\ next \in BufferRecord
      /\ next.pending = buf.pending /\ next.retired = buf.retired /\ next.gone = buf.gone
      /\ next.failed = buf.failed /\ next.epoch = buf.epoch /\ next.refs = buf.refs
      /\ Len(next.flights) = Len(buf.flights) /\ DOMAIN next.flights = DOMAIN buf.flights
      /\ next.flights # <<>> /\ next.flights[1] = flight
      /\ \A i \in DOMAIN buf.flights : i # 1 => next.flights[i] = buf.flights[i]
  BY WithFirstFacts
<1> HIDE DEF next
<1>2. ASSUME NEW i \in DOMAIN next.flights
      PROVE  /\ i > 1 => next.flights[i].at = "write"
             /\ next.flights[i].at # "finish" => ~next.flights[i].failed
             /\ next.gone => next.flights[i].at \in {"ready", "finish"}
             /\ next.flights[i].at = "write" => next.flights[i] = buf.flights[i]
  <2>1. CASE i = 1
    BY <1>1, <2>1
  <2>2. CASE i # 1
    BY <1>1, <2>2 DEF Sound, Apart
  <2> QED BY <2>1, <2>2
<1>3. Sound(next)
  BY <1>1, <1>2 DEF Sound, Apart, next
<1>4. SameWrites(buf, next)
  BY <1>1, <1>2 DEF SameWrites
<1> QED BY <1>3, <1>4 DEF next

\* What At tells of the first flight.
LEMMA AtFacts ==
  ASSUME LogInv, NEW b \in DOMAIN buffers, NEW where, At(b, where)
  PROVE  /\ StateOK(file, buffers, appended, lost, promised) /\ buffers \in Seq(BufferRecord)
         /\ buffers[b] \in BufferRecord /\ Sound(buffers[b]) /\ FirstSound(buffers[b])
         /\ Started(buffers[b]) => ReadyIn(buffers, b)
         /\ buffers[b].flights # <<>> /\ 1 \in DOMAIN buffers[b].flights
         /\ buffers[b].flights[1].at = where /\ buffers[b].flights[1] \in FlightRecord
         /\ where # "ready" => Started(buffers[b])
<1>1. /\ StateOK(file, buffers, appended, lost, promised) /\ buffers \in Seq(BufferRecord)
      /\ buffers[b] \in BufferRecord /\ Sound(buffers[b])
      /\ Started(buffers[b]) => ReadyIn(buffers, b)
  BY DEF LogInv, StateOK, BuffersOK
<1>2. buffers[b].flights # <<>> /\ buffers[b].flights[1].at = where
  BY DEF At
<1>3. buffers[b].flights \in Seq(FlightRecord)
  BY <1>1, BufferTypes
<1>4. 1 \in DOMAIN buffers[b].flights /\ buffers[b].flights[1] \in FlightRecord
  BY <1>2, <1>3
<1> QED BY <1>1, <1>2, <1>4 DEF Sound, Started, Busy

\* The loop head of drain, as a flight.
Batch(buf) ==
    [buf.flights[1] EXCEPT !.lines = buf.pending,
                           !.at    = IF buf.pending = <<>> THEN "finish" ELSE "append"]

\* The loop head of drain leaves a sound buffer, which holds what it held.
LEMMA NextBatchFacts ==
  ASSUME NEW bs \in Seq(BufferRecord), NEW b \in DOMAIN bs,
         NEW was \in BufferRecord, Sound(was), Apart(was, bs[b]), bs[b].flights # <<>>,
         bs[b].flights[1].at \in {"ready", "append"}, bs[b].flights[1].epoch = bs[b].epoch
  PROVE  LET next == WithFirst(bs[b], Batch(bs[b]))
         IN  /\ NextBatch(bs, b) = [bs EXCEPT ![b] = next]
             /\ next \in BufferRecord /\ Sound(next) /\ SameWrites(bs[b], next)
             /\ next.pending = bs[b].pending /\ next.gone = bs[b].gone /\ next.retired = bs[b].retired
<1> DEFINE buf == bs[b]
           flight == Batch(buf)
           next == WithFirst(buf, flight)
<1>1. buf \in BufferRecord
  OBVIOUS
<1>2. NextBatch(bs, b) = [bs EXCEPT ![b] = next]
  BY DEF NextBatch, WithFirst, Batch
<1> HIDE DEF buf
<1>3. buf.flights[1] \in FlightRecord /\ buf.pending \in Seq(Nat) /\ FirstSound(was)
      /\ 1 \in DOMAIN buf.flights /\ ~buf.flights[1].failed
      /\ buf.flights[1].failed \in BOOLEAN /\ buf.failed \in BOOLEAN
  BY <1>1, BufferTypes DEF Sound, Apart, FirstSound, buf
<1>4. /\ flight \in FlightRecord /\ flight.lines = buf.pending
      /\ flight.at = IF buf.pending = <<>> THEN "finish" ELSE "append"
      /\ flight.epoch = buf.flights[1].epoch /\ flight.failed = buf.flights[1].failed
  BY <1>3 DEF Batch, FlightRecord
<1> HIDE DEF flight
<1>5. /\ next \in BufferRecord
      /\ next.pending = buf.pending /\ next.retired = buf.retired /\ next.gone = buf.gone
      /\ next.failed = buf.failed /\ next.epoch = buf.epoch
      /\ Len(next.flights) = Len(buf.flights) /\ next.flights[1] = flight
  BY <1>1, <1>4, WithFirstFacts DEF buf
<1>6. SubSeq(buf.pending, 1, Len(buf.pending)) = buf.pending
  BY <1>3, SubSeqFull
<1>7. ~buf.failed /\ buf.flights[1].epoch <= buf.epoch
      /\ (buf.flights[1].epoch = buf.epoch <=> Len(buf.flights) = 1)
  BY <1>3 DEF FirstSound, Apart, buf
<1>8. FirstSound(next)
  <2> HIDE DEF next
  <2>1. Len(buf.pending) \in Nat
    BY <1>3
  <2>2. next.flights[1].failed = next.failed /\ ~next.failed
    <3>1. flight.failed = buf.failed
      BY <1>3, <1>4, <1>7
    <3> QED BY <1>5, <1>7, <3>1
  <2>3. /\ next.flights[1].epoch <= next.epoch
        /\ next.flights[1].epoch = next.epoch <=> Len(next.flights) = 1
    BY <1>4, <1>5, <1>7
  <2>4. next.flights[1].at = "append" =>
            /\ next.flights[1].lines # <<>> /\ next.flights[1].lines = next.pending
            /\ Len(next.flights[1].lines) <= Len(next.pending)
    BY <1>4, <1>5, <2>1
  <2> QED BY <1>4, <1>5, <1>6, <2>2, <2>3, <2>4 DEF FirstSound
<1>9. flight.at # "write" /\ (buf.gone => flight.at # "append")
  BY <1>4 DEF Sound, Apart, buf
<1>10. Sound(next) /\ SameWrites(buf, next)
  <2>1. Sound(was) /\ Apart(was, buf) /\ buf.flights # <<>> /\ flight.at \in {"ready", "append", "finish"} /\ ~flight.failed
    BY <1>3, <1>4 DEF buf
  <2> HIDE DEF next
  <2> QED BY <1>1, <1>4, <1>8, <1>9, <2>1, FirstGoesOn DEF next
<1> QED BY <1>2, <1>5, <1>10 DEF buf, flight

\* A drain that a rewrite has overtaken ends; it claims nothing of the file.
LEMMA OvertakenFacts ==
  ASSUME NEW bs \in Seq(BufferRecord), NEW b \in DOMAIN bs, Sound(bs[b]), bs[b].flights # <<>>,
         bs[b].flights[1].at \in {"ready", "append"}, bs[b].flights[1].epoch # bs[b].epoch
  PROVE  LET next == WithFirst(bs[b], [bs[b].flights[1] EXCEPT !.at = "finish"])
         IN  /\ [bs EXCEPT ![b].flights[1].at = "finish"] = [bs EXCEPT ![b] = next]
             /\ QuietBuf(bs[b], next) /\ SameWrites(bs[b], next) /\ ~Fresh(next)
<1> DEFINE buf == bs[b]
           flight == [buf.flights[1] EXCEPT !.at = "finish"]
           next == WithFirst(buf, flight)
<1>1. buf \in BufferRecord
  OBVIOUS
<1>2. [bs EXCEPT ![b].flights[1].at = "finish"] = [bs EXCEPT ![b] = next]
  BY DEF WithFirst
<1> HIDE DEF buf
<1>3. /\ buf.flights[1] \in FlightRecord /\ FirstSound(buf) /\ DOMAIN buf.flights = 1 .. Len(buf.flights)
      /\ 1 \in DOMAIN buf.flights /\ ~buf.flights[1].failed /\ Len(buf.flights) \in Nat
      /\ buf.flights[1].failed \in BOOLEAN /\ buf.failed \in BOOLEAN
  BY <1>1, BufferTypes DEF Sound, buf
<1>4. flight \in FlightRecord /\ flight.at = "finish" /\ flight.failed = buf.flights[1].failed
  BY <1>3 DEF FlightRecord
<1> HIDE DEF flight
<1>5. /\ next \in BufferRecord
      /\ next.pending = buf.pending /\ next.retired = buf.retired /\ next.gone = buf.gone
      /\ next.failed = buf.failed /\ DOMAIN next.flights = DOMAIN buf.flights
      /\ next.flights[1] = flight
      /\ \A i \in DOMAIN buf.flights : i # 1 => next.flights[i] = buf.flights[i]
  BY <1>1, <1>4, WithFirstFacts DEF buf
<1>6. ~buf.failed /\ Len(buf.flights) # 1
  BY <1>3 DEF FirstSound, buf
<1>7. FirstSound(next)
  <2> HIDE DEF next
  <2>1. flight.failed = buf.failed
    BY <1>3, <1>4, <1>6
  <2> QED BY <1>4, <1>5, <2>1 DEF FirstSound
<1>8. Sound(next) /\ SameWrites(buf, next)
  <2>1. Sound(buf) /\ Apart(buf, buf) /\ buf.flights # <<>>
    BY DEF Sound, Apart, buf
  <2> HIDE DEF next
  <2> QED BY <1>1, <1>4, <1>7, <2>1, FirstGoesOn DEF next
<1> HIDE DEF next
<1>9. 2 \in DOMAIN buf.flights /\ next.flights[2].at = "write"
  <2>1. Len(buf.flights) >= 1
    BY <1>3
  <2>2. Len(buf.flights) >= 2
    <3>1. \A m \in Nat : m >= 1 /\ m # 1 => m >= 2
      OBVIOUS
    <3> QED BY <1>3, <1>6, <2>1, <3>1
  <2>3. 2 \in DOMAIN buf.flights
    BY <1>3, <2>2
  <2> QED BY <1>5, <2>3 DEF Sound, buf
<1>10. ~Fresh(next)
  BY <1>4, <1>5, <1>9 DEF Fresh
<1> QED BY <1>2, <1>5, <1>8, <1>10 DEF QuietBuf, buf, flight, next

\* drain, after the await of ready.
LEMMA DrainReadyKeeps ==
  ASSUME LogInv, NEW b \in DOMAIN buffers, DrainReady(b)
  PROVE  LogInv' /\ Still
<1> DEFINE buf == buffers[b]
<1>1. /\ At(b, "ready") /\ Ready(b)
      /\ buffers' = IF buf.flights[1].epoch = buf.epoch
                    THEN NextBatch(buffers, b)
                    ELSE [buffers EXCEPT ![b].flights[1].at = "finish"]
      /\ UNCHANGED <<file, appended, lost, promised, rewrites, crashes>>
  BY DEF DrainReady, Current
<1>2. /\ StateOK(file, buffers, appended, lost, promised) /\ buffers \in Seq(BufferRecord)
      /\ Sound(buf) /\ buf.flights # <<>> /\ buf.flights[1].at = "ready"
      /\ ReadyIn(buffers, b)
  BY <1>1, AtFacts DEF Ready, ReadyIn
<1>3. PICK next : buffers' = [buffers EXCEPT ![b] = next] /\ QuietBuf(buf, next) /\ SameWrites(buf, next)
  <2>1. CASE buf.flights[1].epoch = buf.epoch
    <3> DEFINE next == WithFirst(buf, Batch(buf))
    <3>1. /\ NextBatch(buffers, b) = [buffers EXCEPT ![b] = next]
          /\ next \in BufferRecord /\ Sound(next) /\ SameWrites(buf, next)
          /\ next.pending = buf.pending /\ next.gone = buf.gone /\ next.retired = buf.retired
      BY <1>2, <2>1, NextBatchFacts DEF Apart, Sound
    <3>2. Fresh(buf)
      BY <1>2 DEF Fresh
    <3> HIDE DEF next
    <3>3. QuietBuf(buf, next)
      BY <3>1, <3>2 DEF QuietBuf
    <3> QED BY <1>1, <2>1, <3>1, <3>3
  <2>2. CASE buf.flights[1].epoch # buf.epoch
    <3> DEFINE next == WithFirst(buf, [buf.flights[1] EXCEPT !.at = "finish"])
    <3>1. /\ [buffers EXCEPT ![b].flights[1].at = "finish"] = [buffers EXCEPT ![b] = next]
          /\ QuietBuf(buf, next) /\ SameWrites(buf, next)
      BY <1>2, <2>2, OvertakenFacts
    <3> HIDE DEF next
    <3> QED BY <1>1, <2>2, <3>1
  <2> QED BY <2>1, <2>2
<1>4. /\ StateOK(file, [buffers EXCEPT ![b] = next], appended, lost, promised)
      /\ AllUnwritten([buffers EXCEPT ![b] = next]) = AllUnwritten(buffers)
  <2>1. QuietBuf(buffers[b], next) /\ SameWrites(buffers[b], next) /\ ReadyIn(buffers, b)
    BY <1>2, <1>3
  <2>2. StateOK(file, buffers, appended, lost, promised)
    BY <1>2
  <2> QED BY <2>1, <2>2, QuietKeeps
<1> QED BY <1>1, <1>3, <1>4 DEF LogInv, Still

\* What a flush reports is what a reader should find.
LEMMA ReportedFacts ==
  ASSUME NEW b \in DOMAIN buffers, BuffersOK(buffers), ReadyIn(buffers, b), buffers[b].pending = <<>>
  PROVE  Reported(b) = KeptOf(buffers, appended, lost)
<1>1. DOMAIN buffers = 1 .. Len(buffers) /\ Len(buffers) \in Nat
  BY DEF BuffersOK
<1>2. ASSUME NEW c \in DOMAIN buffers, c \notin b + 1 .. Len(buffers) PROVE Unwritten(buffers[c]) = {}
  <2>1. CASE c = b
    BY <2>1 DEF Unwritten, Elements
  <2>2. CASE c # b
    <3>1. c < b
      BY <1>1, <1>2, <2>2
    <3>2. buffers[c].gone
      BY <3>1, GoneBelow
    <3> QED BY <3>2 DEF BuffersOK, Sound, Unwritten, Elements
  <2> QED BY <2>1, <2>2
<1>3. b + 1 .. Len(buffers) \subseteq DOMAIN buffers
  BY <1>1
<1>4. UNION {Elements(buffers[c].pending) : c \in b + 1 .. Len(buffers)} = AllUnwritten(buffers)
  BY <1>2, <1>3 DEF AllUnwritten, Unwritten
<1> QED BY <1>4 DEF Reported, KeptOf

\* A flight that is done makes way for the next one.
LEMMA PopFacts ==
  ASSUME NEW buf \in BufferRecord, Sound(buf), buf.flights # <<>>, buf.flights[1].at = "finish"
  PROVE  LET next == [buf EXCEPT !.flights = Tail(@)]
         IN  QuietBuf(buf, next) /\ SameWrites(buf, next)
<1> DEFINE next == [buf EXCEPT !.flights = Tail(@)]
<1>1. /\ buf.flights \in Seq(FlightRecord) /\ DOMAIN buf.flights = 1 .. Len(buf.flights)
      /\ Len(buf.flights) \in Nat /\ buf.failed \in BOOLEAN
  BY BufferTypes
<1>2. /\ Tail(buf.flights) \in Seq(FlightRecord) /\ Len(Tail(buf.flights)) = Len(buf.flights) - 1
      /\ \A i \in 1 .. Len(Tail(buf.flights)) : Tail(buf.flights)[i] = buf.flights[i + 1]
  BY <1>1, HeadTailProperties
<1>3. /\ next \in BufferRecord /\ next.flights = Tail(buf.flights)
      /\ next.pending = buf.pending /\ next.retired = buf.retired /\ next.gone = buf.gone
      /\ next.failed = buf.failed /\ next.epoch = buf.epoch /\ next.refs = buf.refs
  BY <1>2 DEF BufferRecord
<1> HIDE DEF next
<1>4. \A i \in DOMAIN next.flights : i + 1 \in DOMAIN buf.flights /\ i + 1 > 1 /\ next.flights[i] = buf.flights[i + 1]
  BY <1>1, <1>2, <1>3
<1>5. \A i \in DOMAIN next.flights : next.flights[i].at = "write" /\ ~next.flights[i].failed
  BY <1>4 DEF Sound
<1>6. next.flights # <<>> => 1 \in DOMAIN next.flights
  BY <1>2, <1>3
<1>7. Sound(next)
  <2>1. next.flights # <<>> => FirstSound(next)
    BY <1>5, <1>6 DEF FirstSound
  <2>2. ~buf.gone \/ DOMAIN next.flights = {}
    BY <1>4 DEF Sound
  <2> QED BY <1>3, <1>5, <2>1, <2>2 DEF Sound
<1>8. Fresh(next) => Fresh(buf)
  <2> SUFFICES ASSUME Fresh(next) PROVE Fresh(buf)
    OBVIOUS
  <2>1. ~next.failed /\ DOMAIN next.flights = {}
    BY <1>5, <1>6 DEF Fresh
  <2>2. DOMAIN buf.flights = {1}
    <3>1. Len(buf.flights) >= 1 /\ DOMAIN next.flights = 1 .. Len(buf.flights) - 1
      BY <1>1, <1>2, <1>3
    <3>2. Len(buf.flights) = 1
      <4>1. \A m \in Nat : m >= 1 /\ 1 .. m - 1 = {} => m = 1
        OBVIOUS
      <4> QED BY <1>1, <2>1, <3>1, <4>1
    <3> QED BY <1>1, <3>2
  <2> QED BY <1>3, <2>1, <2>2 DEF Fresh
<1>9. SameWrites(buf, next)
  BY <1>4 DEF SameWrites
<1> QED BY <1>3, <1>7, <1>8, <1>9 DEF QuietBuf, next

\* finishOwnedFlush
LEMMA FinishKeeps ==
  ASSUME LogInv, NEW b \in DOMAIN buffers, Finish(b)
  PROVE  LogInv' /\ Still
<1> DEFINE buf == buffers[b]
           flight == buf.flights[1]
           owner == Len(buf.flights) = 1
           again == owner /\ ~flight.failed /\ buf.pending # <<>>
<1>1. /\ At(b, "finish")
      /\ IF again
         THEN buffers' = [buffers EXCEPT ![b].flights[1] = Drain(buf.epoch)] /\ UNCHANGED promised
         ELSE /\ buffers' = [buffers EXCEPT ![b].flights = Tail(@)]
              /\ promised' = IF owner /\ ~flight.failed THEN Reported(b) ELSE promised
      /\ UNCHANGED <<file, appended, lost, rewrites, crashes>>
  BY DEF Finish
<1>2. /\ StateOK(file, buffers, appended, lost, promised) /\ buffers \in Seq(BufferRecord)
      /\ buf \in BufferRecord /\ Sound(buf) /\ FirstSound(buf)
      /\ buf.flights # <<>> /\ flight.at = "finish" /\ flight \in FlightRecord
      /\ Started(buf) /\ ReadyIn(buffers, b)
  BY <1>1, AtFacts
<1>3. PICK next : buffers' = [buffers EXCEPT ![b] = next] /\ QuietBuf(buf, next) /\ SameWrites(buf, next)
  <2>1. CASE again
    <3> DEFINE next == WithFirst(buf, Drain(buf.epoch))
    <3>1. buffers' = [buffers EXCEPT ![b] = next]
      BY <1>1, <2>1 DEF WithFirst
    <3>2. /\ Drain(buf.epoch) \in FlightRecord /\ Drain(buf.epoch).at = "ready"
          /\ Drain(buf.epoch).epoch = buf.epoch /\ ~Drain(buf.epoch).failed
          /\ buf.epoch \in Nat
      BY <1>2, BufferTypes DEF Drain, FlightRecord
    <3>3. /\ next \in BufferRecord
          /\ next.pending = buf.pending /\ next.retired = buf.retired /\ next.gone = buf.gone
          /\ next.failed = buf.failed /\ next.epoch = buf.epoch
          /\ Len(next.flights) = Len(buf.flights) /\ next.flights[1] = Drain(buf.epoch)
      BY <1>2, <3>2, WithFirstFacts
    <3>4. ~buf.failed
      BY <1>2, <2>1 DEF FirstSound
    <3>5. FirstSound(next)
      <4> HIDE DEF next
      <4> QED BY <2>1, <3>2, <3>3, <3>4 DEF FirstSound
    <3>6. Sound(next) /\ SameWrites(buf, next)
      <4>1. Apart(buf, buf)
        BY <1>2 DEF Apart, Sound
      <4> HIDE DEF buf
      <4> QED BY <1>2, <3>2, <3>5, <4>1, FirstGoesOn
    <3>7. Fresh(buf)
      <4>1. DOMAIN buf.flights = {1}
        BY <1>2, <2>1, BufferTypes
      <4> QED BY <1>2, <3>4, <4>1 DEF Fresh
    <3> HIDE DEF next
    <3> QED BY <3>1, <3>3, <3>6, <3>7 DEF QuietBuf
  <2>2. CASE ~again
    <3> DEFINE next == [buf EXCEPT !.flights = Tail(@)]
    <3>1. buffers' = [buffers EXCEPT ![b] = next]
      BY <1>1, <2>2
    <3>2. QuietBuf(buf, next) /\ SameWrites(buf, next)
      BY <1>2, PopFacts
    <3> HIDE DEF next
    <3> QED BY <3>1, <3>2
  <2> QED BY <2>1, <2>2
<1>4. /\ StateOK(file, [buffers EXCEPT ![b] = next], appended, lost, promised)
      /\ AllUnwritten([buffers EXCEPT ![b] = next]) = AllUnwritten(buffers)
  <2>1. QuietBuf(buffers[b], next) /\ SameWrites(buffers[b], next) /\ ReadyIn(buffers, b)
    BY <1>2, <1>3
  <2>2. StateOK(file, buffers, appended, lost, promised)
    BY <1>2
  <2> QED BY <2>1, <2>2, QuietKeeps
<1>5. promised' \subseteq KeptOf([buffers EXCEPT ![b] = next], appended, lost)
  <2>1. promised \subseteq KeptOf([buffers EXCEPT ![b] = next], appended, lost)
    BY <1>4 DEF StateOK, AccountsOK
  <2>2. CASE promised' = promised
    BY <2>1, <2>2
  <2>3. CASE promised' # promised
    <3>1. promised' = Reported(b) /\ buf.pending = <<>>
      BY <1>1, <2>3
    <3>2. promised' = KeptOf(buffers, appended, lost)
      BY <1>2, <3>1, ReportedFacts DEF StateOK
    <3> QED BY <1>4, <3>2 DEF KeptOf
  <2> QED BY <2>2, <2>3
<1>6. StateOK(file, [buffers EXCEPT ![b] = next], appended, lost, promised')
  BY <1>4, <1>5 DEF StateOK, AccountsOK
<1> QED BY <1>1, <1>3, <1>4, <1>6 DEF LogInv, Still

--------------------------------------------------------------------------------
\* What a caller may pass to rewrite is the log that a reader would find.
LEMMA HistoryFacts ==
  ASSUME NEW n, NEW l, NEW p, StateOK(file, buffers, n, l, p),
         Ready(Len(Opened)), Corrupt \notin Elements(file)
  PROVE  /\ History(Len(Opened)) \in Seq(Nat)
         /\ WriteOK(History(Len(Opened)), Opened, n, l)
         /\ KeptOf(Opened, n, l) \subseteq Elements(file)
<1> DEFINE k == Len(Opened)
           buf == Opened[k]
           bs == Opened
           gone == {Torn, Corrupt} \cup Unwritten(buf)
           lines == Without(file, gone)
<1>1. /\ StateOK(file, bs, n, l, p) /\ k \in DOMAIN bs /\ ReadyIn(bs, k)
      /\ bs \in Seq(BufferRecord)
  BY OpenedKeeps
<1>2. History(k) = lines
  BY DEF History, Unwritten
<1> HIDE DEF bs
<1>3. /\ BuffersOK(bs) /\ OrderOK(file, bs, n) /\ AccountsOK(file, bs, n, l, p)
      /\ DOMAIN bs = 1 .. k /\ n \in Nat
  BY <1>1 DEF StateOK, bs
<1> HIDE DEF k
<1>4. AllUnwritten(bs) = Unwritten(bs[k])
  <2>1. ASSUME NEW c \in DOMAIN bs, c # k PROVE Unwritten(bs[c]) = {}
    <3>1. c < k
      BY <1>1, <1>3, <2>1
    <3>2. bs[c].gone
      BY <1>1, <1>3, <3>1, GoneBelow
    <3> QED BY <1>3, <3>2 DEF BuffersOK, Sound, Unwritten, Elements
  <2> QED BY <1>1, <2>1 DEF AllUnwritten
<1>5. /\ file \in Seq(Lines) /\ Ordered(file) /\ Recorded(file) \subseteq 1 .. n
      /\ Below(Recorded(file) \ Unwritten(bs[k]), Unwritten(bs[k]))
  BY <1>1, <1>3 DEF OrderOK
<1>6. /\ lines \in Seq(Nat) /\ Rising(lines)
      /\ Elements(lines) = Recorded(file) \ Unwritten(bs[k])
  <2>1. Lines \ gone \subseteq Nat
    BY DEF Lines
  <2>2. \A i, j \in DOMAIN file : i < j /\ file[i] \notin gone /\ file[j] \notin gone => file[i] < file[j]
    BY <1>5 DEF Ordered, IsRecord
  <2>3. Elements(file) \ gone = Recorded(file) \ Unwritten(bs[k])
    BY DEF Recorded, bs
  <2> HIDE DEF gone
  <2> QED BY <1>5, <2>1, <2>2, <2>3, RisingWithout
<1> HIDE DEF lines
<1>7. Elements(lines) \subseteq 1 .. n \ l
  BY <1>3, <1>5, <1>6 DEF AccountsOK, Recorded
<1>8. KeptOf(bs, n, l) \subseteq Elements(file)
  BY <1>3 DEF AccountsOK
<1>9. KeptOf(bs, n, l) \subseteq Elements(lines)
  <2>1. \A r \in KeptOf(bs, n, l) : r # Torn /\ r # Corrupt /\ r \notin Unwritten(bs[k])
    BY <1>4, AppendLogAssumption DEF KeptOf
  <2> QED BY <1>6, <1>8, <2>1 DEF Recorded
<1>10. Below(Elements(lines), AllUnwritten(bs))
  BY <1>4, <1>5, <1>6
<1> QED BY <1>2, <1>6, <1>7, <1>8, <1>9, <1>10 DEF WriteOK, bs, k

\* A replacement that queues behind the flights there are.
LEMMA ReplacementFacts ==
  ASSUME NEW buf \in BufferRecord, Sound(buf), ~buf.gone, NEW lines \in Seq(Nat)
  PROVE  LET next == [buf EXCEPT !.epoch = @ + 1, !.flights = Append(@, Replacement(lines))]
         IN  /\ QuietBuf(buf, next)
             /\ \A i \in DOMAIN next.flights :
                    \/ \E j \in DOMAIN buf.flights : buf.flights[j] = next.flights[i]
                    \/ next.flights[i].lines = lines
<1> DEFINE next == [buf EXCEPT !.epoch = @ + 1, !.flights = Append(@, Replacement(lines))]
           last == Replacement(lines)
           m == Len(buf.flights) + 1
<1>1. /\ buf.flights \in Seq(FlightRecord) /\ DOMAIN buf.flights = 1 .. Len(buf.flights)
      /\ Len(buf.flights) \in Nat /\ buf.epoch \in Nat
      /\ \A i \in DOMAIN buf.flights : buf.flights[i].epoch \in Nat
  BY BufferTypes
<1>2. last \in FlightRecord /\ last.at = "write" /\ last.lines = lines /\ ~last.failed
  BY DEF Replacement, FlightRecord
<1> HIDE DEF last
<1>3. /\ Append(buf.flights, last) \in Seq(FlightRecord) /\ Len(Append(buf.flights, last)) = m
      /\ \A i \in 1 .. Len(buf.flights) : Append(buf.flights, last)[i] = buf.flights[i]
      /\ Append(buf.flights, last)[m] = last
  BY <1>1, <1>2
<1>4. next = [buf EXCEPT !.epoch = @ + 1, !.flights = Append(@, last)]
  BY DEF last
<1>5. /\ next \in BufferRecord /\ next.flights = Append(buf.flights, last)
      /\ next.pending = buf.pending /\ next.retired = buf.retired /\ next.gone = buf.gone
      /\ next.failed = buf.failed /\ next.epoch = buf.epoch + 1 /\ next.refs = buf.refs
  <2> HIDE DEF next
  <2>1. buf.epoch + 1 \in Nat
    BY <1>1
  <2> QED BY <1>3, <1>4, <2>1 DEF BufferRecord
<1> HIDE DEF next
<1>6. /\ DOMAIN next.flights = 1 .. m /\ m \in Nat /\ m \in DOMAIN next.flights /\ next.flights[m] = last
      /\ next.flights # <<>>
      /\ \A i \in DOMAIN next.flights : i = m \/ (i \in DOMAIN buf.flights /\ next.flights[i] = buf.flights[i])
  <2>1. DOMAIN next.flights = 1 .. m /\ m \in Nat /\ m \in 1 .. m
    <3>1. m \in Nat /\ m \in 1 .. m
      BY <1>1
    <3> QED BY <1>3, <1>5, <3>1
  <2>2. next.flights[m] = last /\ next.flights # <<>>
    BY <1>3, <1>5, <2>1
  <2>3. ASSUME NEW i \in 1 .. m PROVE i = m \/ i \in 1 .. Len(buf.flights)
    BY <1>1
  <2> QED BY <1>1, <1>3, <1>5, <2>1, <2>2, <2>3
<1>7. buf.flights # <<>> => 1 \in DOMAIN buf.flights /\ m > 1 /\ next.flights[1] = buf.flights[1]
  <2>1. buf.flights # <<>> => 1 \in DOMAIN buf.flights
    BY <1>1
  <2> QED BY <1>1, <1>3, <1>5, <2>1
<1>8. buf.flights = <<>> => next.flights[1] = last
  <2>1. buf.flights = <<>> => m = 1
    OBVIOUS
  <2> QED BY <1>6, <2>1
<1>9. FirstSound(next)
  <2>1. CASE buf.flights = <<>>
    BY <1>2, <1>8, <2>1 DEF FirstSound
  <2>2. CASE buf.flights # <<>>
    <3>1. FirstSound(buf) /\ Len(next.flights) = m /\ m # 1
      BY <1>1, <1>3, <1>5, <1>7, <2>2 DEF Sound
    <3>2. buf.flights[1].epoch \in Nat
      BY <1>1, <1>7, <2>2
    <3>3. buf.flights[1].epoch <= buf.epoch
            => buf.flights[1].epoch <= buf.epoch + 1 /\ buf.flights[1].epoch # buf.epoch + 1
      BY <1>1, <3>2
    <3>4. next.flights[1] = buf.flights[1]
      BY <1>7, <2>2
    <3> HIDE DEF m
    <3> QED BY <1>5, <3>1, <3>3, <3>4 DEF FirstSound
  <2> QED BY <2>1, <2>2
<1>10. Sound(next)
  <2>1. ASSUME NEW i \in DOMAIN next.flights
        PROVE  /\ i > 1 => next.flights[i].at = "write"
               /\ next.flights[i].at # "finish" => ~next.flights[i].failed
    BY <1>2, <1>6 DEF Sound
  <2> QED BY <1>5, <1>9, <2>1 DEF Sound
<1>11. Fresh(next) => Fresh(buf)
  BY <1>2, <1>6, <1>7, <1>8 DEF Fresh
<1>12. \A i \in DOMAIN next.flights :
           \/ \E j \in DOMAIN buf.flights : buf.flights[j] = next.flights[i]
           \/ next.flights[i].lines = lines
  BY <1>2, <1>6
<1> QED BY <1>5, <1>10, <1>11, <1>12 DEF QuietBuf, next

\* rewrite
LEMMA RewriteKeeps == LogInv /\ Rewrite => LogInv' /\ Still
<1> SUFFICES ASSUME LogInv, Rewrite PROVE LogInv' /\ Still
  OBVIOUS
<1> DEFINE k == Len(Opened)
           buf == Opened[k]
           lines == History(k)
           next == [buf EXCEPT !.epoch = @ + 1, !.flights = Append(@, Replacement(lines))]
<1>1. /\ buffers' = [Opened EXCEPT ![k].epoch = @ + 1, ![k].flights = Append(@, Replacement(lines))]
      /\ Ready(k) /\ Corrupt \notin Elements(file)
      /\ rewrites' = rewrites + 1
      /\ UNCHANGED <<file, appended, lost, promised, crashes>>
  BY DEF Rewrite
<1>2. /\ StateOK(file, buffers, appended, lost, promised)
      /\ StateOK(file, Opened, appended, lost, promised) /\ k \in DOMAIN Opened
      /\ AllUnwritten(Opened) = AllUnwritten(buffers)
      /\ buf \in BufferRecord /\ Sound(buf) /\ ~buf.gone /\ ReadyIn(Opened, k)
      /\ Opened \in Seq(BufferRecord)
  BY <1>1, OpenedKeeps DEF LogInv
<1>3. /\ lines \in Seq(Nat) /\ WriteOK(lines, Opened, appended, lost)
      /\ KeptOf(Opened, appended, lost) \subseteq Elements(file)
  BY <1>1, <1>2, HistoryFacts
<1>4. buffers' = [Opened EXCEPT ![k] = next]
  <2> HIDE DEF k, lines
  <2> QED BY <1>1, <1>2
<1> HIDE DEF lines, buf
<1>5. /\ QuietBuf(buf, next)
      /\ \A i \in DOMAIN next.flights :
             \/ \E j \in DOMAIN buf.flights : buf.flights[j] = next.flights[i]
             \/ next.flights[i].lines = lines
  BY <1>2, <1>3, ReplacementFacts
<1> HIDE DEF next, k
<1>6. \A i \in DOMAIN next.flights :
          next.flights[i].at = "write" =>
              \/ \E j \in DOMAIN Opened[k].flights : Opened[k].flights[j] = next.flights[i]
              \/ /\ WriteOK(next.flights[i].lines, Opened, appended, lost)
                 /\ KeptOf(Opened, appended, lost) \subseteq Elements(file)
  BY <1>3, <1>5 DEF buf
<1>7. /\ StateOK(file, [Opened EXCEPT ![k] = next], appended, lost, promised)
      /\ AllUnwritten([Opened EXCEPT ![k] = next]) = AllUnwritten(Opened)
  BY <1>2, <1>5, <1>6, QuietChange DEF buf
<1>8. rewrites' \in Nat
  BY <1>1 DEF LogInv
<1> QED BY <1>1, <1>2, <1>4, <1>7, <1>8 DEF LogInv, Still
--------------------------------------------------------------------------------
\* A buffer that takes one more record, the largest so far.
TakesRecord(buf, next, r) ==
    /\ next \in BufferRecord /\ Sound(next)
    /\ Rising(next.pending) /\ Unwritten(next) = Unwritten(buf) \cup {r}
    /\ next.flights = buf.flights /\ next.retired = buf.retired /\ next.gone = buf.gone
    /\ next.failed = buf.failed

\* Appending the next record to a sound buffer that is in the map does that.
LEMMA TakesRecordFacts ==
  ASSUME NEW buf \in BufferRecord, Sound(buf), ~buf.gone, Rising(buf.pending),
         NEW n \in Nat, Unwritten(buf) \subseteq 1 .. n, NEW scheduled \in BOOLEAN
  PROVE  TakesRecord(buf, [buf EXCEPT !.pending = Append(@, n + 1), !.scheduled = scheduled], n + 1)
<1> DEFINE next == [buf EXCEPT !.pending = Append(@, n + 1), !.scheduled = scheduled]
           s == buf.pending
           t == Append(s, n + 1)
<1>1. s \in Seq(Nat) /\ Len(s) \in Nat /\ DOMAIN s = 1 .. Len(s)
  BY BufferTypes
<1>2. /\ t \in Seq(Nat) /\ Len(t) = Len(s) + 1 /\ DOMAIN t = 1 .. Len(s) + 1
      /\ \A i \in 1 .. Len(s) : t[i] = s[i]
      /\ t[Len(s) + 1] = n + 1
  BY <1>1
<1>3. /\ next \in BufferRecord /\ next.pending = t
      /\ next.flights = buf.flights /\ next.retired = buf.retired /\ next.gone = buf.gone
      /\ next.failed = buf.failed /\ next.epoch = buf.epoch /\ next.refs = buf.refs
  BY <1>2 DEF BufferRecord
<1> HIDE DEF next, t, s
<1>4. \A i \in DOMAIN s : s[i] \in 1 .. n
  BY DEF Unwritten, Elements, s
<1>5. Rising(t)
  <2> SUFFICES ASSUME NEW i \in DOMAIN t, NEW j \in DOMAIN t, i < j PROVE t[i] < t[j]
    BY DEF Rising
  <2>1. i \in DOMAIN s /\ t[i] = s[i]
    BY <1>1, <1>2
  <2>2. CASE j \in DOMAIN s
    BY <1>1, <1>2, <2>1, <2>2 DEF Rising, s
  <2>3. CASE j \notin DOMAIN s
    <3>1. j = Len(s) + 1
      BY <1>1, <1>2, <2>3
    <3> QED BY <1>2, <1>4, <2>1, <3>1
  <2> QED BY <2>2, <2>3
<1>6. Elements(t) = Elements(s) \cup {n + 1}
  <2>1. DOMAIN t = DOMAIN s \cup {Len(s) + 1} /\ \A i \in DOMAIN s : t[i] = s[i]
    BY <1>1, <1>2
  <2> QED BY <1>2, <2>1 DEF Elements
<1>7. Unwritten(next) = Unwritten(buf) \cup {n + 1}
  BY <1>3, <1>6 DEF Unwritten, s
<1>8. Sound(next)
  <2>1. ASSUME buf.flights # <<>> PROVE FirstSound(next)
    <3> DEFINE first == buf.flights[1]
               m == Len(first.lines)
    <3>1. FirstSound(buf) /\ m \in Nat
      <4>1. 1 \in DOMAIN buf.flights
        BY <2>1, BufferTypes
      <4>2. first.lines \in Seq(Nat)
        BY <4>1, BufferTypes
      <4> QED BY <2>1, <4>2 DEF Sound
    <3>2. ASSUME first.at = "append" PROVE m <= Len(t) /\ first.lines = SubSeq(t, 1, m)
      <4>1. m <= Len(s) /\ first.lines = SubSeq(s, 1, m)
        BY <3>1, <3>2 DEF FirstSound, s
      <4> HIDE DEF m
      <4>2. m \in 0 .. Len(s) /\ m \in 0 .. Len(t) /\ m <= Len(t)
        BY <1>1, <1>2, <3>1, <4>1
      <4>3. \A i \in 1 .. m : i \in 1 .. Len(s) /\ t[i] = s[i]
        BY <1>1, <1>2, <4>2
      <4>4. SubSeq(s, 1, m) = SubSeq(t, 1, m)
        BY <1>1, <1>2, <4>2, <4>3
      <4> QED BY <4>1, <4>2, <4>4
    <3> QED BY <1>3, <3>1, <3>2 DEF FirstSound
  <2> QED BY <1>3, <2>1 DEF Sound
<1> QED BY <1>3, <1>5, <1>7, <1>8 DEF TakesRecord, next, s, t

\* append
LEMMA AppendRecordKeeps == LogInv /\ AppendRecord => LogInv' /\ Taken
<1> SUFFICES ASSUME LogInv, AppendRecord PROVE LogInv' /\ Taken
  OBVIOUS
<1> DEFINE k == Len(Opened)
           bs == Opened
           n == appended
           m == appended + 1
           scheduled == bs[k].scheduled \/ bs[k].flights = <<>>
           next == [bs[k] EXCEPT !.pending = Append(@, m), !.scheduled = scheduled]
           cs == [bs EXCEPT ![k] = next]
<1>1. /\ buffers' = [bs EXCEPT ![k].pending = Append(@, m),
                               ![k].scheduled = @ \/ bs[k].flights = <<>>]
      /\ appended' = m
      /\ UNCHANGED <<file, lost, promised, rewrites, crashes>>
  BY DEF AppendRecord
<1>2. /\ AllUnwritten(bs) = AllUnwritten(buffers)
      /\ StateOK(file, bs, n, lost, promised) /\ k \in DOMAIN bs /\ bs \in Seq(BufferRecord)
      /\ bs[k] \in BufferRecord /\ Sound(bs[k]) /\ ~bs[k].gone
      /\ Started(bs[k]) => ReadyIn(bs, k)
  BY OpenedKeeps DEF LogInv
<1>3. buffers' = cs
  <2> HIDE DEF k, bs, m
  <2> QED BY <1>1, <1>2
<1> HIDE DEF k, bs
<1>4. /\ n \in Nat /\ BuffersOK(bs) /\ OrderOK(file, bs, n)
      /\ WritesOK(file, bs, n, lost) /\ AccountsOK(file, bs, n, lost, promised)
      /\ DOMAIN bs = 1 .. k
  BY <1>2 DEF StateOK, k, bs
<1>5. TakesRecord(bs[k], next, m)
  <2>1. scheduled \in BOOLEAN
    BY <1>2, BufferTypes
  <2>2. Rising(bs[k].pending) /\ Unwritten(bs[k]) \subseteq 1 .. n
    BY <1>2, <1>4 DEF OrderOK
  <2> HIDE DEF scheduled
  <2> QED BY <1>2, <1>4, <2>1, <2>2, TakesRecordFacts
<1> HIDE DEF next
<1>6. /\ BuffersOK(cs) /\ DOMAIN cs = DOMAIN bs
      /\ cs[k] = next /\ \A c \in DOMAIN bs : c # k => cs[c] = bs[c]
  <2>1. Started(next) => Started(bs[k])
    BY <1>5 DEF TakesRecord, Started, Busy
  <2> QED BY <1>2, <1>4, <1>5, <2>1, BufferChange DEF TakesRecord
<1> HIDE DEF cs
<1>7. /\ Unwritten(cs[k]) = Unwritten(bs[k]) \cup {m}
      /\ \A c \in DOMAIN bs : c # k => Unwritten(cs[c]) = Unwritten(bs[c])
      /\ \A c \in DOMAIN bs : cs[c].flights = bs[c].flights /\ (Fresh(cs[c]) => Fresh(bs[c]))
  <2>1. Fresh(next) => Fresh(bs[k])
    BY <1>5 DEF TakesRecord, Fresh
  <2> QED BY <1>5, <1>6, <2>1 DEF TakesRecord
<1>8. AllUnwritten(cs) = AllUnwritten(bs) \cup {m}
  BY <1>2, <1>6, <1>7 DEF AllUnwritten
<1>9. 1 .. m = 1 .. n \cup {m} /\ m \notin 1 .. n /\ \A i \in 1 .. n : i < m
  BY <1>4
<1>10. m \in Nat
  BY <1>4
<1> HIDE DEF m
<1>11. /\ KeptOf(cs, m, lost) = KeptOf(bs, n, lost)
  BY <1>8, <1>9 DEF KeptOf
<1>12. OrderOK(file, cs, m)
  <2>1. /\ file \in Seq(Lines) /\ Ordered(file) /\ Recorded(file) \subseteq 1 .. n
    BY <1>4 DEF OrderOK
  <2>2. ASSUME NEW c \in DOMAIN cs
        PROVE  /\ Rising(cs[c].pending) /\ Unwritten(cs[c]) \subseteq 1 .. m
               /\ Below(Recorded(file) \ Unwritten(cs[c]), Unwritten(cs[c]))
               /\ Fresh(cs[c]) => Below(Recorded(file), Unwritten(cs[c]))
    <3>1. /\ Rising(bs[c].pending) /\ Unwritten(bs[c]) \subseteq 1 .. n
          /\ Below(Recorded(file) \ Unwritten(bs[c]), Unwritten(bs[c]))
          /\ Fresh(bs[c]) => Below(Recorded(file), Unwritten(bs[c]))
      BY <1>4, <1>6 DEF OrderOK
    <3>2. CASE c = k
      <4>1. \A x \in Recorded(file) : x < m
        BY <1>9, <2>1
      <4>2. \A x \in Recorded(file) \ Unwritten(cs[c]) : x \in Recorded(file) \ Unwritten(bs[c])
        BY <1>7, <3>2
      <4>3. Below(Recorded(file) \ Unwritten(cs[c]), Unwritten(cs[c]))
        BY <1>7, <3>1, <3>2, <4>1, <4>2 DEF Below
      <4>4. Fresh(cs[c]) => Below(Recorded(file), Unwritten(cs[c]))
        BY <1>6, <1>7, <3>1, <3>2, <4>1 DEF Below
      <4>5. Rising(cs[c].pending) /\ Unwritten(cs[c]) \subseteq 1 .. m
        BY <1>5, <1>6, <1>7, <1>9, <3>1, <3>2 DEF TakesRecord
      <4> QED BY <4>3, <4>4, <4>5
    <3>3. CASE c # k
      BY <1>6, <1>9, <3>1, <3>3
    <3> QED BY <3>2, <3>3
  <2>3. ASSUME NEW b \in DOMAIN cs, NEW c \in DOMAIN cs, b < c
        PROVE Below(Unwritten(cs[b]), Unwritten(cs[c]))
    <3>1. Below(Unwritten(bs[b]), Unwritten(bs[c])) /\ Unwritten(bs[b]) \subseteq 1 .. n
      BY <1>4, <1>6, <2>3 DEF OrderOK
    <3>2. b # k
      BY <1>2, <1>4, <1>6, <2>3
    <3>3. CASE c = k
      BY <1>6, <1>7, <1>9, <3>1, <3>2, <3>3 DEF Below
    <3>4. CASE c # k
      BY <1>6, <1>7, <3>1, <3>2, <3>4
    <3> QED BY <3>3, <3>4
  <2> QED BY <1>9, <2>1, <2>2, <2>3 DEF OrderOK
<1>13. WritesOK(file, cs, m, lost)
  <2> SUFFICES ASSUME NEW c \in DOMAIN cs, NEW i \in DOMAIN cs[c].flights, cs[c].flights[i].at = "write"
               PROVE  WriteOK(cs[c].flights[i].lines, cs, m, lost) /\ KeptOf(cs, m, lost) \subseteq Elements(file)
    BY DEF WritesOK
  <2>1. WriteOK(cs[c].flights[i].lines, bs, n, lost) /\ KeptOf(bs, n, lost) \subseteq Elements(file)
    BY <1>4, <1>6, <1>7 DEF WritesOK
  <2>2. Below(Elements(cs[c].flights[i].lines), AllUnwritten(cs))
    BY <1>8, <1>9, <2>1 DEF WriteOK, Below
  <2> QED BY <1>9, <1>11, <2>1, <2>2 DEF WriteOK
<1>14. AccountsOK(file, cs, m, lost, promised)
  BY <1>4, <1>8, <1>9, <1>11, AppendLogAssumption DEF AccountsOK, OrderOK, Recorded
<1>15. StateOK(file, cs, m, lost, promised)
  BY <1>6, <1>10, <1>12, <1>13, <1>14 DEF StateOK
<1> QED BY <1>1, <1>2, <1>3, <1>8, <1>15 DEF LogInv, Taken, m
--------------------------------------------------------------------------------
\* Lines that hold larger records may follow ordered lines.
LEMMA OrderedConcat ==
  ASSUME NEW s \in Seq(Lines), NEW t \in Seq(Lines), Ordered(s), Ordered(t),
         Below(Recorded(s), Recorded(t))
  PROVE  s \o t \in Seq(Lines) /\ Ordered(s \o t) /\ Elements(s \o t) = Elements(s) \cup Elements(t)
<1> DEFINE u == s \o t
<1>1. /\ u \in Seq(Lines) /\ Len(u) = Len(s) + Len(t)
      /\ \A i \in 1 .. Len(s) + Len(t) : u[i] = IF i <= Len(s) THEN s[i] ELSE t[i - Len(s)]
  BY ConcatProperties
<1>2. /\ Len(s) \in Nat /\ Len(t) \in Nat /\ DOMAIN u = 1 .. Len(s) + Len(t)
      /\ DOMAIN s = 1 .. Len(s) /\ DOMAIN t = 1 .. Len(t)
  BY <1>1
<1> HIDE DEF u
<1>3. \A i \in DOMAIN u : \/ i \in DOMAIN s /\ u[i] = s[i]
                          \/ i > Len(s) /\ i - Len(s) \in DOMAIN t /\ u[i] = t[i - Len(s)]
  BY <1>1, <1>2
<1>4. /\ \A i \in DOMAIN s : i \in DOMAIN u /\ u[i] = s[i]
      /\ \A i \in DOMAIN t : i + Len(s) \in DOMAIN u /\ u[i + Len(s)] = t[i]
  BY <1>1, <1>2
<1>5. Elements(u) = Elements(s) \cup Elements(t)
  BY <1>3, <1>4 DEF Elements
<1>6. Ordered(u)
  <2> SUFFICES ASSUME NEW i \in DOMAIN u, NEW j \in DOMAIN u, i < j, IsRecord(u[i]), IsRecord(u[j])
               PROVE u[i] < u[j]
    BY DEF Ordered
  <2>1. i \in Nat /\ j \in Nat
    BY <1>2
  <2>2. CASE j \in DOMAIN s
    <3>1. i \in DOMAIN s
      BY <1>2, <2>1, <2>2
    <3> QED BY <1>4, <2>2, <3>1 DEF Ordered
  <2>3. CASE j \notin DOMAIN s
    <3>1. j > Len(s) /\ j - Len(s) \in DOMAIN t /\ u[j] = t[j - Len(s)]
      BY <1>3, <2>3
    <3>2. CASE i \in DOMAIN s
      <4>1. u[i] \in Recorded(s) /\ u[j] \in Recorded(t)
        BY <1>4, <3>1, <3>2 DEF Recorded, Elements, IsRecord
      <4> QED BY <4>1 DEF Below
    <3>3. CASE i \notin DOMAIN s
      <4>1. i - Len(s) \in DOMAIN t /\ u[i] = t[i - Len(s)] /\ i - Len(s) < j - Len(s)
        BY <1>2, <1>3, <2>1, <3>3
      <4> QED BY <3>1, <4>1 DEF Ordered
    <3> QED BY <3>2, <3>3
  <2> QED BY <2>2, <2>3
<1> QED BY <1>1, <1>5, <1>6 DEF u

\* A file that an append has turned into g: it grew by lines with records of A.
Grown(f, g, A) ==
    /\ g \in Seq(Lines) /\ Ordered(g)
    /\ Recorded(f) \subseteq Recorded(g) /\ Recorded(g) \subseteq Recorded(f) \cup A
    /\ Corrupt \in Elements(f) => Corrupt \in Elements(g)

\* What storage.append does: every record of the batch arrives, unless a torn
\* line swallows the first one, and a reader sees that.
LEMMA ExtendedFacts ==
  ASSUME file \in Seq(Lines), Ordered(file), NEW batch \in Seq(Lines), Ordered(batch),
         Below(Recorded(file), Recorded(batch))
  PROVE  /\ Grown(file, Extended(batch), Recorded(batch))
         /\ \/ Recorded(batch) \subseteq Recorded(Extended(batch))
            \/ /\ Corrupt \in Elements(Extended(batch)) /\ batch # <<>>
               /\ \A r \in Elements(Extended(batch)) :
                      r \in Elements(file) \cup {Corrupt} \/ \E i \in 2 .. Len(batch) : r = batch[i]
<1>1. Len(file) \in Nat /\ DOMAIN file = 1 .. Len(file) /\ Len(batch) \in Nat /\ DOMAIN batch = 1 .. Len(batch)
  OBVIOUS
<1>2. CASE ~(batch # <<>> /\ file # <<>> /\ file[Len(file)] = Torn)
  <2>1. Extended(batch) = file \o batch
    BY <1>2 DEF Extended
  <2>2. /\ file \o batch \in Seq(Lines) /\ Ordered(file \o batch)
        /\ Elements(file \o batch) = Elements(file) \cup Elements(batch)
    BY OrderedConcat
  <2> QED BY <2>1, <2>2 DEF Grown, Recorded
<1>3. CASE batch # <<>> /\ file # <<>> /\ file[Len(file)] = Torn
  <2> DEFINE x == IF batch[1] = Torn THEN Torn ELSE Corrupt
             head == [file EXCEPT ![Len(file)] = x]
             tail == Tail(batch)
  <2>1. Extended(batch) = head \o tail
    BY <1>3 DEF Extended
  <2>2. x \in Lines /\ x \in {Torn, Corrupt}
    BY DEF Lines
  <2>3. Len(file) \in DOMAIN file /\ 1 \in DOMAIN batch
    BY <1>1, <1>3
  <2>4. /\ head \in Seq(Lines) /\ DOMAIN head = DOMAIN file
        /\ head[Len(file)] = x /\ \A i \in DOMAIN file : i # Len(file) => head[i] = file[i]
    <3> HIDE DEF x
    <3> QED BY <1>1, <2>2, <2>3, ExceptSeq
  <2>5. /\ tail \in Seq(Lines) /\ Len(tail) = Len(batch) - 1 /\ DOMAIN tail = 1 .. Len(batch) - 1
        /\ \A i \in 1 .. Len(batch) - 1 : tail[i] = batch[i + 1]
    BY <1>1, <1>3, HeadTailProperties
  <2> HIDE DEF head, tail
  <2>6. Ordered(head)
    <3>1. \A i \in DOMAIN head : IsRecord(head[i]) => i \in DOMAIN file /\ head[i] = file[i]
      BY <2>2, <2>4 DEF IsRecord
    <3> QED BY <3>1 DEF Ordered
  <2>7. Ordered(tail)
    <3>1. \A i \in DOMAIN tail : i + 1 \in DOMAIN batch /\ tail[i] = batch[i + 1]
      BY <1>1, <2>5
    <3>2. \A i, j \in DOMAIN tail : i < j => i + 1 < j + 1
      BY <2>5
    <3> QED BY <3>1, <3>2 DEF Ordered
  <2>8. Recorded(head) = Recorded(file)
    <3>1. \A i \in DOMAIN file : \/ head[i] = file[i]
                                 \/ head[i] \in {Torn, Corrupt} /\ file[i] \in {Torn, Corrupt}
      BY <1>3, <2>2, <2>4
    <3> QED BY <2>4, <3>1 DEF Recorded, Elements
  <2>9. \A r \in Elements(tail) : \E i \in 2 .. Len(batch) : r = batch[i]
    <3> SUFFICES ASSUME NEW j \in DOMAIN tail PROVE \E i \in 2 .. Len(batch) : tail[j] = batch[i]
      BY DEF Elements
    <3>1. j + 1 \in 2 .. Len(batch) /\ tail[j] = batch[j + 1]
      BY <1>1, <2>5
    <3> QED BY <3>1
  <2>10. Recorded(tail) \subseteq Recorded(batch)
    <3>1. \A i \in 2 .. Len(batch) : i \in DOMAIN batch
      BY <1>1
    <3> QED BY <2>9, <3>1 DEF Recorded, Elements
  <2>11. /\ head \o tail \in Seq(Lines) /\ Ordered(head \o tail)
         /\ Elements(head \o tail) = Elements(head) \cup Elements(tail)
    <3>1. Below(Recorded(head), Recorded(tail))
      BY <2>8, <2>10 DEF Below
    <3> QED BY <2>4, <2>5, <2>6, <2>7, <3>1, OrderedConcat
  <2>12. Corrupt \in Elements(file) => Corrupt \in Elements(head)
    <3> SUFFICES ASSUME NEW i \in DOMAIN file, file[i] = Corrupt PROVE Corrupt \in Elements(head)
      BY DEF Elements
    <3>1. i # Len(file)
      BY <1>3, AppendLogAssumption
    <3> QED BY <2>4, <3>1 DEF Elements
  <2>13. Grown(file, head \o tail, Recorded(batch))
    <3>1. Recorded(head \o tail) = Recorded(head) \cup Recorded(tail)
      BY <2>11 DEF Recorded
    <3> QED BY <2>8, <2>10, <2>11, <2>12, <3>1 DEF Grown
  <2>14. CASE batch[1] = Torn
    <3>1. \A i \in DOMAIN batch : i = 1 \/ (i - 1 \in DOMAIN tail /\ tail[i - 1] = batch[i])
      <4> TAKE i \in DOMAIN batch
      <4>1. CASE i # 1
        <5>1. i - 1 \in 1 .. Len(batch) - 1 /\ (i - 1) + 1 = i
          BY <1>1, <4>1
        <5> QED BY <2>5, <5>1
      <4> QED BY <4>1
    <3>2. Recorded(batch) \subseteq Recorded(tail)
      BY <2>14, <3>1 DEF Recorded, Elements
    <3> QED BY <2>1, <2>11, <2>13, <3>2 DEF Recorded
  <2>15. CASE batch[1] # Torn
    <3>1. head[Len(file)] = Corrupt
      BY <2>4, <2>15
    <3>2. Corrupt \in Elements(head)
      BY <2>3, <2>4, <3>1 DEF Elements
    <3>3. \A r \in Elements(head) : r \in Elements(file) \cup {Corrupt}
      BY <2>4, <3>1 DEF Elements
    <3> QED BY <1>3, <2>1, <2>9, <2>11, <2>13, <3>2, <3>3
  <2> QED BY <2>14, <2>15
<1> QED BY <1>2, <1>3

\* A batch of records is a sequence of ordered lines; so is a part of it with a
\* line cut short behind it.
LEMMA BatchLines ==
  ASSUME NEW batch \in Seq(Nat), Rising(batch), NEW n \in 0 .. Len(batch)
  PROVE  LET part == SubSeq(batch, 1, n)
             torn == Append(part, Torn)
         IN  /\ part \in Seq(Lines) /\ Ordered(part) /\ Recorded(part) \subseteq Elements(batch)
             /\ torn \in Seq(Lines) /\ Ordered(torn) /\ Recorded(torn) \subseteq Elements(batch)
             /\ batch \in Seq(Lines) /\ Ordered(batch) /\ Recorded(batch) = Elements(batch)
<1> DEFINE part == SubSeq(batch, 1, n)
           torn == Append(part, Torn)
<1>1. Len(batch) \in Nat /\ 1 \in 1 .. Len(batch) + 1 /\ DOMAIN batch = 1 .. Len(batch) /\ n \in Nat
  OBVIOUS
<1>2. part \in Seq(Nat) /\ Rising(part) /\ Elements(part) = {batch[i] : i \in 1 .. n}
  <2> HIDE DEF part
  <2>1. LET p == SubSeq(batch, 1, n)
        IN  p \in Seq(Nat) /\ Rising(p) /\ Elements(p) = {batch[i] : i \in 1 .. n}
    BY <1>1, RisingPart
  <2> QED BY <2>1 DEF part
<1> HIDE DEF part
<1>3. \A i \in 1 .. n : i \in DOMAIN batch
  BY <1>1
<1>4. Elements(part) \subseteq Elements(batch)
  BY <1>2, <1>3 DEF Elements
<1>5. Torn \in Lines /\ Nat \subseteq Lines
  BY DEF Lines
<1>6. /\ part \in Seq(Lines) /\ batch \in Seq(Lines)
      /\ \A i \in DOMAIN part : part[i] \in Nat
      /\ \A i \in DOMAIN batch : batch[i] \in Nat
  BY <1>2, <1>5
<1>7. Ordered(part) /\ Ordered(batch)
  BY <1>2 DEF Ordered, Rising
<1>8. Recorded(batch) = Elements(batch) /\ Recorded(part) \subseteq Elements(batch)
  BY <1>4, <1>6, AppendLogAssumption DEF Recorded, Elements
<1>9. /\ torn \in Seq(Lines) /\ DOMAIN part = 1 .. Len(part) /\ Len(part) \in Nat
      /\ DOMAIN torn = 1 .. Len(part) + 1 /\ torn[Len(part) + 1] = Torn
      /\ \A i \in DOMAIN part : torn[i] = part[i]
  BY <1>2, <1>5, <1>6
<1> HIDE DEF torn
<1>10. \A i \in DOMAIN torn : torn[i] # Torn => i \in DOMAIN part /\ torn[i] = part[i]
  BY <1>9
<1>11. Ordered(torn) /\ Recorded(torn) \subseteq Elements(batch)
  BY <1>4, <1>7, <1>10 DEF Ordered, IsRecord, Recorded, Elements
<1> QED BY <1>6, <1>7, <1>8, <1>9, <1>11 DEF part, torn

\* What an append that failed or was cut off may leave.
LEMMA InterruptedFacts ==
  ASSUME file \in Seq(Lines), Ordered(file), NEW batch \in Seq(Nat), Rising(batch),
         Below(Recorded(file), Elements(batch)), NEW g \in Interrupted(batch)
  PROVE  Grown(file, g, Elements(batch))
<1>1. PICK n \in 0 .. Len(batch) :
          g = Extended(SubSeq(batch, 1, n)) \/ g = Extended(Append(SubSeq(batch, 1, n), Torn))
  BY DEF Interrupted
<1>2. /\ SubSeq(batch, 1, n) \in Seq(Lines) /\ Ordered(SubSeq(batch, 1, n))
      /\ Recorded(SubSeq(batch, 1, n)) \subseteq Elements(batch)
      /\ Append(SubSeq(batch, 1, n), Torn) \in Seq(Lines) /\ Ordered(Append(SubSeq(batch, 1, n), Torn))
      /\ Recorded(Append(SubSeq(batch, 1, n), Torn)) \subseteq Elements(batch)
  BY BatchLines
<1>3. ASSUME NEW part \in Seq(Lines), Ordered(part), Recorded(part) \subseteq Elements(batch)
      PROVE  Grown(file, Extended(part), Elements(batch))
  <2>1. Below(Recorded(file), Recorded(part))
    BY <1>3 DEF Below
  <2>2. Grown(file, Extended(part), Recorded(part))
    BY <1>3, <2>1, ExtendedFacts
  <2> QED BY <1>3, <2>2 DEF Grown
<1> QED BY <1>1, <1>2, <1>3
--------------------------------------------------------------------------------
\* What the invariant tells of a buffer whose batch is on its way.
LEMMA AppendingFacts ==
  ASSUME LogInv, NEW b \in DOMAIN buffers, At(b, "append")
  PROVE  LET buf == buffers[b]
             batch == buf.flights[1].lines
         IN  /\ batch \in Seq(Nat) /\ Rising(batch) /\ batch # <<>>
             /\ Len(batch) \in 1 .. Len(buf.pending) /\ Len(buf.pending) \in Nat
             /\ batch = SubSeq(buf.pending, 1, Len(batch))
             /\ Elements(batch) \subseteq Unwritten(buf)
             /\ file \in Seq(Lines) /\ Ordered(file)
             /\ Below(Recorded(file), Unwritten(buf))
             /\ ~buf.failed /\ ~buf.gone /\ ReadyIn(buffers, b)
             /\ buf.pending \in Seq(Nat) /\ Rising(buf.pending)
<1> DEFINE buf == buffers[b]
           batch == buf.flights[1].lines
<1>1. /\ StateOK(file, buffers, appended, lost, promised) /\ buffers \in Seq(BufferRecord)
      /\ buf \in BufferRecord /\ Sound(buf) /\ FirstSound(buf)
      /\ 1 \in DOMAIN buf.flights /\ buf.flights[1].at = "append" /\ Started(buf) /\ ReadyIn(buffers, b)
      /\ buf.flights # <<>>
  BY AtFacts
<1>2. batch \in Seq(Nat) /\ buf.pending \in Seq(Nat) /\ Len(batch) \in Nat /\ Len(buf.pending) \in Nat
  <2>1. batch \in Seq(Nat) /\ buf.pending \in Seq(Nat)
    BY <1>1, BufferTypes
  <2> QED BY <2>1
<1>3. batch # <<>> /\ Len(batch) <= Len(buf.pending) /\ batch = SubSeq(buf.pending, 1, Len(batch))
  BY <1>1 DEF FirstSound
<1>4. ~buf.failed /\ ~buf.gone
  BY <1>1 DEF FirstSound, Sound
<1>5. /\ file \in Seq(Lines) /\ Ordered(file) /\ Rising(buf.pending)
      /\ Fresh(buf) => Below(Recorded(file), Unwritten(buf))
  BY <1>1 DEF StateOK, OrderOK
<1>6. Fresh(buf)
  BY <1>1 DEF Fresh
<1> HIDE DEF batch, buf
<1>7. Len(batch) \in 1 .. Len(buf.pending) /\ Len(batch) \in 0 .. Len(buf.pending)
  <2>1. Len(batch) # 0
    BY <1>2, <1>3
  <2> QED BY <1>2, <1>3, <2>1
<1>8. Rising(batch) /\ Elements(batch) \subseteq Unwritten(buf)
  <2> DEFINE m == Len(batch)
  <2>1. LET p == SubSeq(buf.pending, 1, m) IN Rising(p) /\ Elements(p) = {buf.pending[i] : i \in 1 .. m}
    <3>1. 1 \in 1 .. Len(buf.pending) + 1
      BY <1>2
    <3> HIDE DEF m
    <3> QED BY <1>2, <1>5, <1>7, <3>1, RisingPart DEF m
  <2>2. 1 .. m \subseteq DOMAIN buf.pending
    BY <1>2, <1>7
  <2> QED BY <1>3, <2>1, <2>2 DEF Unwritten, Elements
<1> QED BY <1>1, <1>2, <1>3, <1>4, <1>5, <1>6, <1>7, <1>8 DEF batch, buf

\* A buffer after an append that turned the file into g.
AfterAppend(g, buf, next) ==
    /\ next \in BufferRecord /\ Sound(next) /\ SameWrites(buf, next)
    /\ (buf.gone => next.gone) /\ (buf.retired => next.retired)
    /\ Rising(next.pending) /\ Unwritten(next) \subseteq Unwritten(buf)
    /\ Below(Unwritten(buf) \ Unwritten(next), Unwritten(next))
    /\ Below(Recorded(g) \ Unwritten(next), Unwritten(next))
    /\ Fresh(next) => Below(Recorded(g), Unwritten(next))
    /\ \/ Unwritten(next) = Unwritten(buf)
       \/ /\ \A i \in DOMAIN next.flights : next.flights[i].at # "write"
          /\ Corrupt \notin Elements(g) => Unwritten(buf) \ Unwritten(next) \subseteq Elements(g)

\* An append of the buffer at work keeps everything.
LEMMA AppendKeeps ==
  ASSUME LogInv, NEW b \in DOMAIN buffers, At(b, "append"),
         Grown(file, file', Elements(buffers[b].flights[1].lines)),
         NEW next, AfterAppend(file', buffers[b], next), buffers' = [buffers EXCEPT ![b] = next],
         UNCHANGED <<appended, lost, promised, rewrites, crashes>>
  PROVE  LogInv' /\ Moved
<1> DEFINE buf == buffers[b]
           A == Elements(buf.flights[1].lines)
           cs == [buffers EXCEPT ![b] = next]
           n == appended
           g == file'
<1>1. /\ n \in Nat /\ BuffersOK(buffers) /\ OrderOK(file, buffers, n)
      /\ WritesOK(file, buffers, n, lost) /\ AccountsOK(file, buffers, n, lost, promised)
  BY DEF LogInv, StateOK
<1>2. /\ A \subseteq Unwritten(buf) /\ Below(Recorded(file), Unwritten(buf))
      /\ ~buf.gone /\ ReadyIn(buffers, b)
  BY AppendingFacts
<1>3. Started(buf)
  BY AtFacts
<1> HIDE DEF A
<1>4. /\ BuffersOK(cs) /\ DOMAIN cs = DOMAIN buffers
      /\ cs[b] = next /\ \A c \in DOMAIN buffers : c # b => cs[c] = buffers[c]
  BY <1>1, <1>2, BufferChange DEF AfterAppend
<1> HIDE DEF cs, g
<1>5. /\ g \in Seq(Lines) /\ Ordered(g)
      /\ Recorded(file) \subseteq Recorded(g) /\ Recorded(g) \subseteq Recorded(file) \cup A
      /\ Corrupt \in Elements(file) => Corrupt \in Elements(g)
  BY DEF Grown, A, g
<1>6. /\ Unwritten(next) \subseteq Unwritten(buf) /\ SameWrites(buf, next)
      /\ AfterAppend(g, buf, next)
  BY DEF AfterAppend, g
<1> HIDE DEF buf
<1>7. DOMAIN buffers \subseteq Nat
  BY <1>1 DEF BuffersOK
<1>8. OrderOK(g, cs, n)
  <2>1. Recorded(file) \subseteq 1 .. n /\ Unwritten(buf) \subseteq 1 .. n
    BY <1>1 DEF OrderOK, buf
  <2>2. ASSUME NEW c \in DOMAIN buffers, c # b
        PROVE  /\ Rising(cs[c].pending) /\ Unwritten(cs[c]) \subseteq 1 .. n
               /\ Below(Recorded(g) \ Unwritten(cs[c]), Unwritten(cs[c]))
               /\ Fresh(cs[c]) => Below(Recorded(g), Unwritten(cs[c]))
    <3>1. /\ Rising(cs[c].pending) /\ Unwritten(cs[c]) \subseteq 1 .. n
          /\ Below(Recorded(file) \ Unwritten(cs[c]), Unwritten(cs[c]))
          /\ Fresh(cs[c]) => Below(Recorded(file), Unwritten(cs[c]))
      BY <1>1, <1>4, <2>2 DEF OrderOK
    <3>2. CASE c < b
      <4>1. buffers[c].gone
        BY <1>1, <1>2, <3>2, GoneBelow
      <4>2. Unwritten(cs[c]) = {}
        BY <1>1, <1>4, <2>2, <4>1 DEF BuffersOK, Sound, Unwritten, Elements
      <4> QED BY <3>1, <4>2 DEF Below
    <3>3. CASE ~(c < b)
      <4>1. b < c
        BY <1>7, <2>2, <3>3
      <4>2. Below(A, Unwritten(cs[c]))
        BY <1>1, <1>2, <1>4, <2>2, <4>1 DEF OrderOK, Below, buf
      <4>3. Below(Recorded(g) \ Unwritten(cs[c]), Unwritten(cs[c]))
        BY <1>5, <3>1, <4>2 DEF Below
      <4>4. Fresh(cs[c]) => Below(Recorded(g), Unwritten(cs[c]))
        BY <1>5, <3>1, <4>2 DEF Below
      <4> QED BY <3>1, <4>3, <4>4
    <3> QED BY <3>2, <3>3
  <2>3. /\ Rising(cs[b].pending) /\ Unwritten(cs[b]) \subseteq 1 .. n
        /\ Below(Recorded(g) \ Unwritten(cs[b]), Unwritten(cs[b]))
        /\ Fresh(cs[b]) => Below(Recorded(g), Unwritten(cs[b]))
    BY <1>4, <1>6, <2>1 DEF AfterAppend
  <2>4. ASSUME NEW c \in DOMAIN cs, NEW d \in DOMAIN cs, c < d
        PROVE  Below(Unwritten(cs[c]), Unwritten(cs[d]))
    <3>1. Below(Unwritten(buffers[c]), Unwritten(buffers[d]))
      BY <1>1, <1>4, <2>4 DEF OrderOK
    <3>2. Unwritten(cs[c]) \subseteq Unwritten(buffers[c]) /\ Unwritten(cs[d]) \subseteq Unwritten(buffers[d])
      BY <1>4, <1>6 DEF buf
    <3> QED BY <3>1, <3>2 DEF Below
  <2>5. Recorded(g) \subseteq 1 .. n
    BY <1>2, <1>5, <2>1
  <2> QED BY <1>4, <1>5, <2>2, <2>3, <2>4, <2>5 DEF OrderOK
<1>9. /\ AllUnwritten(cs) \subseteq AllUnwritten(buffers)
      /\ AllUnwritten(buffers) \subseteq AllUnwritten(cs) \cup (Unwritten(buf) \ Unwritten(next))
      /\ Unwritten(buf) \subseteq AllUnwritten(buffers)
  BY <1>4, <1>6 DEF AllUnwritten, buf
<1>10. Unwritten(next) = Unwritten(buf) => AllUnwritten(cs) = AllUnwritten(buffers)
  BY <1>9
<1>11. ASSUME NEW r \in 1 .. n, r \in Elements(file) PROVE r \in Elements(g)
  BY <1>5, <1>11, AppendLogAssumption DEF Recorded
<1>12. WritesOK(g, cs, n, lost)
  <2> SUFFICES ASSUME NEW c \in DOMAIN cs, NEW i \in DOMAIN cs[c].flights, cs[c].flights[i].at = "write"
               PROVE  WriteOK(cs[c].flights[i].lines, cs, n, lost) /\ KeptOf(cs, n, lost) \subseteq Elements(g)
    BY DEF WritesOK
  <2>1. c = b
    <3>1. ASSUME c # b PROVE FALSE
      <4>1. cs[c] = buffers[c] /\ Sound(buffers[c])
        BY <1>1, <1>4, <3>1 DEF BuffersOK
      <4>2. Started(buffers[c]) /\ ~buffers[c].gone
        BY <4>1, Works
      <4> QED BY <1>1, <1>2, <1>3, <1>4, <3>1, <4>2, OneAtWork DEF buf
    <3> QED BY <3>1
  <2>2. Unwritten(next) = Unwritten(buf)
    BY <1>4, <1>6, <2>1 DEF AfterAppend
  <2>3. PICK j \in DOMAIN buf.flights : buf.flights[j] = cs[c].flights[i]
    BY <1>4, <1>6, <2>1 DEF SameWrites
  <2>4. WriteOK(cs[c].flights[i].lines, buffers, n, lost) /\ KeptOf(buffers, n, lost) \subseteq Elements(file)
    BY <1>1, <2>3 DEF WritesOK, buf
  <2>5. KeptOf(cs, n, lost) = KeptOf(buffers, n, lost) /\ KeptOf(cs, n, lost) \subseteq 1 .. n
    BY <1>10, <2>2 DEF KeptOf
  <2> QED BY <1>10, <1>11, <2>2, <2>4, <2>5 DEF WriteOK
<1>13. AccountsOK(g, cs, n, lost, promised)
  <2>1. KeptOf(buffers, n, lost) \subseteq KeptOf(cs, n, lost)
    BY <1>9 DEF KeptOf
  <2>2. ASSUME Corrupt \notin Elements(g), NEW r \in KeptOf(cs, n, lost) PROVE r \in Elements(g)
    <3>1. r \in 1 .. n /\ r \notin lost /\ r \notin AllUnwritten(cs)
      BY DEF KeptOf
    <3>2. CASE r \in AllUnwritten(buffers)
      <4>1. r \in Unwritten(buf) \ Unwritten(next)
        BY <1>9, <3>1, <3>2
      <4> QED BY <1>6, <2>2, <4>1 DEF AfterAppend
    <3>3. CASE r \notin AllUnwritten(buffers)
      <4>1. r \in KeptOf(buffers, n, lost)
        BY <3>1, <3>3 DEF KeptOf
      <4>2. r \in Elements(file)
        BY <1>1, <1>5, <2>2, <4>1 DEF AccountsOK
      <4> QED BY <1>11, <3>1, <4>2
    <3> QED BY <3>2, <3>3
  <2>3. /\ lost \subseteq 1 .. n /\ lost \cap (Elements(file) \cup AllUnwritten(buffers)) = {}
        /\ promised \subseteq KeptOf(buffers, n, lost)
    BY <1>1 DEF AccountsOK
  <2>4. ASSUME NEW r \in lost, r \in Elements(g) PROVE FALSE
    <3>1. r \in Recorded(g)
      BY <2>3, <2>4, AppendLogAssumption DEF Recorded
    <3>2. r \in Recorded(file) \/ r \in AllUnwritten(buffers)
      BY <1>2, <1>5, <1>9, <3>1
    <3> QED BY <2>3, <3>2 DEF Recorded
  <2> QED BY <1>9, <2>1, <2>2, <2>3, <2>4 DEF AccountsOK
<1>14. LogInv'
  <2>1. StateOK(g, cs, n, lost, promised)
    BY <1>1, <1>4, <1>8, <1>12, <1>13 DEF StateOK
  <2> QED BY <2>1 DEF LogInv, cs, g
<1>15. Below(AllUnwritten(buffers) \ AllUnwritten(cs), AllUnwritten(cs))
  <2> SUFFICES ASSUME NEW r \in AllUnwritten(buffers) \ AllUnwritten(cs), NEW s \in AllUnwritten(cs)
               PROVE  r < s
    BY DEF Below
  <2>1. r \in Unwritten(buf) \ Unwritten(next)
    BY <1>9
  <2>2. PICK c \in DOMAIN buffers : s \in Unwritten(cs[c])
    BY <1>4 DEF AllUnwritten
  <2>3. CASE c = b
    BY <1>4, <1>6, <2>1, <2>2, <2>3 DEF AfterAppend, Below
  <2>4. CASE c # b
    <3>1. s \in Unwritten(buffers[c])
      BY <1>4, <2>2, <2>4
    <3>2. ~buffers[c].gone
      BY <1>1, <3>1 DEF BuffersOK, Sound, Unwritten, Elements
    <3>3. ~(c < b)
      BY <1>1, <1>2, <3>2, GoneBelow
    <3>4. b < c
      BY <1>7, <2>4, <3>3
    <3> QED BY <1>1, <2>1, <3>1, <3>4 DEF OrderOK, Below, buf
  <2> QED BY <2>3, <2>4
<1>16. ASSUME KeptOf(cs, n, lost) \subseteq Elements(g) PROVE KeptOf(buffers, n, lost) \subseteq Elements(file)
  <2> SUFFICES ASSUME NEW r \in KeptOf(buffers, n, lost) PROVE r \in Elements(file)
    OBVIOUS
  <2>1. r \in Elements(g) /\ r \in 1 .. n /\ r \notin AllUnwritten(buffers)
    BY <1>9, <1>16 DEF KeptOf
  <2>2. r \in Recorded(g)
    BY <2>1, AppendLogAssumption DEF Recorded
  <2> QED BY <1>2, <1>5, <1>9, <2>1, <2>2 DEF Recorded
<1>17. ASSUME AllUnwritten(cs) = AllUnwritten(buffers), KeptOf(buffers, n, lost) \subseteq Elements(file)
       PROVE  KeptOf(cs, n, lost) \subseteq Elements(g)
  BY <1>11, <1>17 DEF KeptOf
<1>18. Moved
  <2>1. /\ Complete <=> KeptOf(buffers, n, lost) \subseteq Elements(file)
        /\ Complete' <=> KeptOf(cs, n, lost) \subseteq Elements(g)
    BY CompleteIs DEF cs, g
  <2>2. buffers' = cs
    BY DEF cs
  <2> QED BY <1>9, <1>15, <1>16, <1>17, <2>1, <2>2 DEF Moved
<1> QED BY <1>14, <1>18
--------------------------------------------------------------------------------
\* storage.append has resolved: what it turns the file into.
LEMMA ArrivedFacts ==
  ASSUME LogInv, NEW b \in DOMAIN buffers, At(b, "append")
  PROVE  LET batch == buffers[b].flights[1].lines
             g == Extended(batch)
         IN  /\ Grown(file, g, Elements(batch))
             /\ Corrupt \notin Elements(g) => Elements(batch) \subseteq Elements(g)
<1> DEFINE batch == buffers[b].flights[1].lines
<1>1. /\ batch \in Seq(Nat) /\ Rising(batch) /\ Elements(batch) \subseteq Unwritten(buffers[b])
      /\ file \in Seq(Lines) /\ Ordered(file) /\ Below(Recorded(file), Unwritten(buffers[b]))
  BY AppendingFacts
<1> HIDE DEF batch
<1>2. batch \in Seq(Lines) /\ Ordered(batch) /\ Recorded(batch) = Elements(batch)
  <2>1. 0 \in 0 .. Len(batch)
    BY <1>1
  <2> QED BY <1>1, <2>1, BatchLines
<1>3. Below(Recorded(file), Recorded(batch))
  BY <1>1, <1>2 DEF Below
<1>4. /\ Grown(file, Extended(batch), Recorded(batch))
      /\ Recorded(batch) \subseteq Recorded(Extended(batch)) \/ Corrupt \in Elements(Extended(batch))
  BY <1>1, <1>2, <1>3, ExtendedFacts
<1> QED BY <1>2, <1>4 DEF Recorded, batch

\* The batch leaves the buffer and the next one is taken.
LEMMA DroppedFacts ==
  ASSUME LogInv, NEW b \in DOMAIN buffers, At(b, "append"), Current(b)
  PROVE  LET buf == buffers[b]
             batch == buf.flights[1].lines
             rest == SubSeq(buf.pending, Len(batch) + 1, Len(buf.pending))
         IN  \E next :
                 /\ NextBatch([buffers EXCEPT ![b].pending = rest], b) = [buffers EXCEPT ![b] = next]
                 /\ AfterAppend(Extended(batch), buf, next)
                 /\ next.pending = rest
<1> DEFINE buf == buffers[b]
           batch == buf.flights[1].lines
           m == Len(batch)
           rest == SubSeq(buf.pending, m + 1, Len(buf.pending))
           dropped == [buf EXCEPT !.pending = rest]
           bs == [buffers EXCEPT ![b] = dropped]
           g == Extended(batch)
<1>1. /\ batch \in Seq(Nat) /\ batch # <<>>
      /\ m \in 1 .. Len(buf.pending) /\ Len(buf.pending) \in Nat
      /\ batch = SubSeq(buf.pending, 1, m)
      /\ Elements(batch) \subseteq Unwritten(buf)
      /\ Below(Recorded(file), Unwritten(buf)) /\ ~buf.gone
      /\ buf.pending \in Seq(Nat) /\ Rising(buf.pending)
  BY AppendingFacts
<1>2. /\ buffers \in Seq(BufferRecord) /\ buf \in BufferRecord /\ Sound(buf) /\ FirstSound(buf)
      /\ buf.flights # <<>> /\ buf.flights[1].at = "append" /\ DOMAIN buf.flights = 1 .. Len(buf.flights)
  BY AtFacts, BufferTypes
<1>3. buf.flights[1].epoch = buf.epoch
  BY DEF Current
<1>4. Grown(file, g, Elements(batch)) /\ (Corrupt \notin Elements(g) => Elements(batch) \subseteq Elements(g))
  BY ArrivedFacts
<1> HIDE DEF buf, batch, g
<1>5. /\ rest \in Seq(Nat) /\ Rising(rest)
      /\ Elements(rest) = {buf.pending[i] : i \in m + 1 .. Len(buf.pending)}
      /\ Elements(batch) = {buf.pending[i] : i \in 1 .. m}
  <2> HIDE DEF m, rest
  <2>1. m + 1 \in 1 .. Len(buf.pending) + 1 /\ Len(buf.pending) \in 0 .. Len(buf.pending)
        /\ m \in 0 .. Len(buf.pending) /\ 1 \in 1 .. Len(buf.pending) + 1
    BY <1>1
  <2>2. LET p == SubSeq(buf.pending, m + 1, Len(buf.pending))
        IN  p \in Seq(Nat) /\ Rising(p) /\ Elements(p) = {buf.pending[i] : i \in m + 1 .. Len(buf.pending)}
    BY <1>1, <2>1, RisingPart
  <2>3. LET p == SubSeq(buf.pending, 1, m) IN Elements(p) = {buf.pending[i] : i \in 1 .. m}
    BY <1>1, <2>1, RisingPart
  <2> QED BY <1>1, <2>2, <2>3 DEF rest
<1>6. /\ Elements(rest) \subseteq Unwritten(buf) /\ Unwritten(buf) \ Elements(rest) \subseteq Elements(batch)
      /\ Below(Elements(batch), Elements(rest))
  <2>1. \A i \in DOMAIN buf.pending : i \in 1 .. m \/ i \in m + 1 .. Len(buf.pending)
    BY <1>1
  <2>2. 1 .. m \subseteq DOMAIN buf.pending /\ m + 1 .. Len(buf.pending) \subseteq DOMAIN buf.pending
    BY <1>1
  <2>3. \A i \in 1 .. m, j \in m + 1 .. Len(buf.pending) : i < j
    BY <1>1
  <2> HIDE DEF m, rest
  <2>4. Unwritten(buf) = {buf.pending[i] : i \in DOMAIN buf.pending}
    BY DEF Unwritten, Elements
  <2>5. Elements(rest) \subseteq Unwritten(buf) /\ Unwritten(buf) \ Elements(rest) \subseteq Elements(batch)
    BY <1>5, <2>1, <2>2, <2>4
  <2>6. \A i \in 1 .. m, j \in m + 1 .. Len(buf.pending) : buf.pending[i] < buf.pending[j]
    BY <1>1, <2>2, <2>3 DEF Rising
  <2>7. Below(Elements(batch), Elements(rest))
    BY <1>5, <2>6 DEF Below
  <2> QED BY <2>5, <2>7
<1> HIDE DEF rest
<1>7. /\ dropped \in BufferRecord /\ dropped.pending = rest /\ dropped.flights = buf.flights
      /\ Apart(buf, dropped)
  <2>1. /\ dropped \in BufferRecord /\ dropped.pending = rest /\ dropped.flights = buf.flights
        /\ dropped.failed = buf.failed /\ dropped.epoch = buf.epoch
        /\ dropped.refs = buf.refs /\ dropped.retired = buf.retired /\ dropped.gone = buf.gone
    BY <1>2, <1>5 DEF BufferRecord
  <2> HIDE DEF dropped
  <2> QED BY <1>1, <2>1 DEF Apart
<1>8. [buffers EXCEPT ![b].pending = rest] = bs
  BY <1>2 DEF buf
<1> HIDE DEF dropped
<1>9. bs \in Seq(BufferRecord) /\ b \in DOMAIN bs /\ bs[b] = dropped
  BY <1>2, <1>7
<1> DEFINE next == WithFirst(bs[b], Batch(bs[b]))
<1>10. /\ NextBatch(bs, b) = [bs EXCEPT ![b] = next]
       /\ next \in BufferRecord /\ Sound(next) /\ SameWrites(dropped, next)
       /\ next.pending = rest /\ next.gone = buf.gone /\ next.retired = buf.retired
  <2> HIDE DEF bs
  <2>1. Apart(buf, bs[b]) /\ bs[b].flights # <<>> /\ bs[b].flights[1].at \in {"ready", "append"}
        /\ bs[b].flights[1].epoch = bs[b].epoch
    BY <1>2, <1>3, <1>7, <1>9 DEF Apart
  <2>2. /\ NextBatch(bs, b) = [bs EXCEPT ![b] = next]
        /\ next \in BufferRecord /\ Sound(next) /\ SameWrites(bs[b], next)
        /\ next.pending = bs[b].pending /\ next.gone = bs[b].gone /\ next.retired = bs[b].retired
    BY <1>2, <1>9, <2>1, NextBatchFacts
  <2> HIDE DEF next
  <2> QED BY <1>7, <1>9, <2>2 DEF Apart
<1> HIDE DEF next
<1>11. [bs EXCEPT ![b] = next] = [buffers EXCEPT ![b] = next]
  BY <1>2
<1>12. Unwritten(next) = Elements(rest)
  BY <1>10 DEF Unwritten
<1>13. SameWrites(buf, next)
  BY <1>7, <1>10 DEF SameWrites
<1>14. \A i \in DOMAIN next.flights : next.flights[i].at # "write"
  <2>1. Len(buf.flights) = 1
    BY <1>2, <1>3 DEF FirstSound
  <2>2. \A j \in DOMAIN buf.flights : buf.flights[j].at # "write"
    BY <1>2, <2>1
  <2> QED BY <1>13, <2>2 DEF SameWrites
<1>15. Below(Recorded(g), Unwritten(next))
  BY <1>1, <1>4, <1>6, <1>12 DEF Below, Grown
<1>16. AfterAppend(g, buf, next)
  BY <1>4, <1>5, <1>6, <1>10, <1>12, <1>13, <1>14, <1>15 DEF AfterAppend, Below
<1>17. NextBatch([buffers EXCEPT ![b].pending = rest], b) = [buffers EXCEPT ![b] = next]
  BY <1>8, <1>10, <1>11
<1> QED BY <1>10, <1>16, <1>17 DEF buf, batch, rest, g

\* drain, when storage.append has resolved.
LEMMA AppendedKeeps ==
  ASSUME LogInv, NEW b \in DOMAIN buffers, Appended(b)
  PROVE  LogInv' /\ Moved
<1> DEFINE buf == buffers[b]
           batch == buf.flights[1].lines
           rest == SubSeq(buf.pending, Len(batch) + 1, Len(buf.pending))
<1>1. /\ At(b, "append")
      /\ file' = Extended(batch)
      /\ buffers' = IF Current(b)
                    THEN NextBatch([buffers EXCEPT ![b].pending = rest], b)
                    ELSE [buffers EXCEPT ![b].flights[1].at = "finish"]
      /\ UNCHANGED <<appended, lost, promised, rewrites, crashes>>
  BY DEF Appended
<1>2. Grown(file, file', Elements(batch))
  BY <1>1, ArrivedFacts
<1>3. PICK next : buffers' = [buffers EXCEPT ![b] = next] /\ AfterAppend(file', buf, next)
  <2>1. CASE Current(b)
    BY <1>1, <2>1, DroppedFacts
  <2>2. CASE ~Current(b)
    <3> DEFINE next == WithFirst(buf, [buf.flights[1] EXCEPT !.at = "finish"])
    <3>1. /\ [buffers EXCEPT ![b].flights[1].at = "finish"] = [buffers EXCEPT ![b] = next]
          /\ QuietBuf(buf, next) /\ SameWrites(buf, next) /\ ~Fresh(next)
      <4>1. /\ buffers \in Seq(BufferRecord) /\ Sound(buf) /\ buf.flights # <<>>
            /\ buf.flights[1].at = "append"
        BY <1>1, AtFacts
      <4> QED BY <2>2, <4>1, OvertakenFacts DEF Current
    <3> HIDE DEF next
    <3>2. /\ Elements(batch) \subseteq Unwritten(buf) /\ Below(Recorded(file), Unwritten(buf))
          /\ Rising(buf.pending)
      BY <1>1, AppendingFacts
    <3>3. Unwritten(next) = Unwritten(buf) /\ Rising(next.pending)
      BY <3>1, <3>2 DEF QuietBuf, Unwritten
    <3> HIDE DEF batch, buf
    <3>4. /\ Below(Recorded(file') \ Unwritten(next), Unwritten(next))
          /\ Below(Unwritten(buf) \ Unwritten(next), Unwritten(next))
      BY <1>2, <3>2, <3>3 DEF Grown, Below
    <3>5. AfterAppend(file', buf, next)
      BY <3>1, <3>3, <3>4 DEF AfterAppend, QuietBuf
    <3> QED BY <1>1, <2>2, <3>1, <3>5
  <2> QED BY <2>1, <2>2
<1> QED BY <1>1, <1>2, <1>3, AppendKeeps

\* A storage call has settled: its flight is about to finish.
LEMMA SettledFacts ==
  ASSUME NEW buf \in BufferRecord, Sound(buf), buf.flights # <<>>,
         buf.flights[1].at \in {"append", "write"}, NEW failed \in BOOLEAN
  PROVE  LET next == [WithFirst(buf, [buf.flights[1] EXCEPT !.failed = failed, !.at = "finish"])
                         EXCEPT !.failed = failed]
         IN  /\ next \in BufferRecord /\ Sound(next) /\ SameWrites(buf, next)
             /\ next.pending = buf.pending /\ next.gone = buf.gone /\ next.retired = buf.retired
             /\ failed => ~Fresh(next)
<1> DEFINE flight == [buf.flights[1] EXCEPT !.failed = failed, !.at = "finish"]
           done == WithFirst(buf, flight)
           next == [done EXCEPT !.failed = failed]
<1>1. /\ buf.flights[1] \in FlightRecord /\ 1 \in DOMAIN buf.flights
  BY BufferTypes
<1>2. flight \in FlightRecord /\ flight.at = "finish" /\ (flight.failed <=> failed)
      /\ flight.failed \in BOOLEAN
  BY <1>1 DEF FlightRecord
<1> HIDE DEF flight
<1>3. /\ done \in BufferRecord
      /\ done.pending = buf.pending /\ done.retired = buf.retired /\ done.gone = buf.gone
      /\ done.refs = buf.refs
      /\ DOMAIN done.flights = DOMAIN buf.flights
      /\ done.flights # <<>> /\ done.flights[1] = flight
      /\ \A i \in DOMAIN buf.flights : i # 1 => done.flights[i] = buf.flights[i]
  BY <1>2, WithFirstFacts
<1> HIDE DEF done
<1>4. /\ next \in BufferRecord /\ (next.failed <=> failed) /\ next.failed \in BOOLEAN
      /\ next.pending = buf.pending /\ next.retired = buf.retired /\ next.gone = buf.gone
      /\ next.refs = buf.refs /\ next.flights = done.flights
  BY <1>3 DEF BufferRecord
<1> HIDE DEF next
<1>5. FirstSound(next)
  <2>1. next.flights[1].failed = next.failed
    <3>1. next.flights[1] = flight
      BY <1>3, <1>4
    <3> QED BY <1>2, <1>4, <3>1
  <2> QED BY <1>2, <1>3, <1>4, <2>1 DEF FirstSound
<1>6. ASSUME NEW i \in DOMAIN next.flights
      PROVE  /\ i > 1 => next.flights[i].at = "write"
             /\ next.flights[i].at # "finish" => ~next.flights[i].failed
             /\ next.gone => next.flights[i].at \in {"ready", "finish"}
             /\ next.flights[i].at = "write" => next.flights[i] = buf.flights[i]
  <2>1. CASE i = 1
    BY <1>2, <1>3, <1>4, <2>1
  <2>2. CASE i # 1
    BY <1>3, <1>4, <2>2 DEF Sound
  <2> QED BY <2>1, <2>2
<1>7. Sound(next)
  BY <1>4, <1>5, <1>6 DEF Sound
<1>8. SameWrites(buf, next)
  BY <1>3, <1>4, <1>6 DEF SameWrites
<1>9. failed => ~Fresh(next)
  BY <1>2, <1>3, <1>4 DEF Fresh
<1> QED BY <1>4, <1>7, <1>8, <1>9 DEF next, done, flight

\* A storage call has failed.
LEMMA FailingFacts ==
  ASSUME LogInv, NEW b \in DOMAIN buffers, NEW where \in {"append", "write"}, At(b, where)
  PROVE  \E next :
             /\ Failing(b) = [buffers EXCEPT ![b] = next]
             /\ QuietBuf(buffers[b], next) /\ SameWrites(buffers[b], next) /\ ~Fresh(next)
<1> DEFINE buf == buffers[b]
           next == [WithFirst(buf, [buf.flights[1] EXCEPT !.failed = TRUE, !.at = "finish"])
                       EXCEPT !.failed = TRUE]
<1>1. /\ buf \in BufferRecord /\ Sound(buf) /\ buf.flights # <<>>
      /\ buf.flights[1].at \in {"append", "write"} /\ buffers \in Seq(BufferRecord)
  BY AtFacts
<1>2. Failing(b) = [buffers EXCEPT ![b] = next]
  BY <1>1 DEF Failing, WithFirst
<1> HIDE DEF buf
<1>3. /\ next \in BufferRecord /\ Sound(next) /\ SameWrites(buf, next)
      /\ next.pending = buf.pending /\ next.gone = buf.gone /\ next.retired = buf.retired
      /\ ~Fresh(next)
  BY <1>1, SettledFacts
<1> HIDE DEF next
<1> QED BY <1>2, <1>3 DEF QuietBuf, buf

\* drain, when storage.append has failed.
LEMMA AppendFailsKeeps ==
  ASSUME LogInv, NEW b \in DOMAIN buffers, AppendFails(b)
  PROVE  LogInv' /\ Moved
<1> DEFINE buf == buffers[b]
           batch == buf.flights[1].lines
<1>1. /\ At(b, "append") /\ file' \in Interrupted(batch) /\ buffers' = Failing(b)
      /\ UNCHANGED <<appended, lost, promised, rewrites, crashes>>
  BY DEF AppendFails
<1>2. /\ batch \in Seq(Nat) /\ Rising(batch) /\ Elements(batch) \subseteq Unwritten(buf)
      /\ file \in Seq(Lines) /\ Ordered(file) /\ Below(Recorded(file), Unwritten(buf))
      /\ Rising(buf.pending)
  BY <1>1, AppendingFacts
<1>3. PICK next : /\ Failing(b) = [buffers EXCEPT ![b] = next]
                  /\ QuietBuf(buf, next) /\ SameWrites(buf, next) /\ ~Fresh(next)
  BY <1>1, FailingFacts
<1> HIDE DEF batch, buf
<1>4. Grown(file, file', Elements(batch))
  <2>1. Below(Recorded(file), Elements(batch))
    BY <1>2 DEF Below
  <2> QED BY <1>1, <1>2, <2>1, InterruptedFacts
<1>5. Unwritten(next) = Unwritten(buf) /\ Rising(next.pending)
  BY <1>2, <1>3 DEF QuietBuf, Unwritten
<1>6. /\ Below(Recorded(file') \ Unwritten(next), Unwritten(next))
      /\ Below(Unwritten(buf) \ Unwritten(next), Unwritten(next))
  BY <1>2, <1>4, <1>5 DEF Grown, Below
<1>7. AfterAppend(file', buf, next)
  BY <1>3, <1>5, <1>6 DEF AfterAppend, QuietBuf
<1> QED BY <1>1, <1>3, <1>4, <1>7, AppendKeeps DEF buf, batch

\* A good replacement of the file keeps everything, whatever the buffer makes of it.
LEMMA ReplacedKeeps ==
  ASSUME LogInv, NEW b \in DOMAIN buffers, Writing(b), NEW next \in BufferRecord,
         Sound(next), SameWrites(buffers[b], next), next.pending = buffers[b].pending,
         next.gone = buffers[b].gone, next.retired = buffers[b].retired,
         file' = buffers[b].flights[1].lines, buffers' = [buffers EXCEPT ![b] = next],
         UNCHANGED <<appended, lost, promised, rewrites, crashes>>
  PROVE  LogInv' /\ Moved
<1> DEFINE buf == buffers[b]
           g == buf.flights[1].lines
           cs == [buffers EXCEPT ![b] = next]
           n == appended
<1>1. /\ buf \in BufferRecord /\ 1 \in DOMAIN buf.flights /\ buf.flights[1].at = "write"
      /\ Started(buf) /\ ReadyIn(buffers, b)
  BY AtFacts DEF Writing
<1>2. /\ n \in Nat /\ BuffersOK(buffers) /\ OrderOK(file, buffers, n)
      /\ WritesOK(file, buffers, n, lost) /\ AccountsOK(file, buffers, n, lost, promised)
  BY DEF LogInv, StateOK
<1>3. WriteOK(g, buffers, n, lost) /\ KeptOf(buffers, n, lost) \subseteq Elements(file)
  BY <1>1, <1>2 DEF WritesOK
<1>4. g \in Seq(Nat)
  BY <1>1, BufferTypes
<1> HIDE DEF g
<1>5. /\ BuffersOK(cs) /\ DOMAIN cs = DOMAIN buffers
      /\ cs[b] = next /\ \A c \in DOMAIN buffers : c # b => cs[c] = buffers[c]
  BY <1>1, <1>2, BufferChange
<1> HIDE DEF cs
<1>6. \A c \in DOMAIN buffers : Unwritten(cs[c]) = Unwritten(buffers[c]) /\ cs[c].pending = buffers[c].pending
  BY <1>5 DEF Unwritten
<1>7. AllUnwritten(cs) = AllUnwritten(buffers)
  BY <1>5, <1>6 DEF AllUnwritten
<1>8. KeptOf(cs, n, lost) = KeptOf(buffers, n, lost)
  BY <1>7 DEF KeptOf
<1>9. /\ Rising(g) /\ Elements(g) \subseteq 1 .. n \ lost
      /\ KeptOf(cs, n, lost) \subseteq Elements(g)
      /\ \A c \in DOMAIN buffers : Below(Elements(g), Unwritten(cs[c]))
  BY <1>3, <1>6, <1>8 DEF WriteOK, AllUnwritten, Below
<1>10. OrderOK(g, cs, n)
  <2>1. g \in Seq(Lines) /\ Ordered(g) /\ Recorded(g) \subseteq Elements(g)
    <3>1. Nat \subseteq Lines
      BY DEF Lines
    <3>2. g \in Seq(Lines)
      BY <1>4, <3>1
    <3> QED BY <1>9, <3>2 DEF Ordered, Rising, Recorded
  <2>2. ASSUME NEW c \in DOMAIN buffers
        PROVE  /\ Below(Recorded(g) \ Unwritten(cs[c]), Unwritten(cs[c]))
               /\ Below(Recorded(g), Unwritten(cs[c]))
    BY <1>9, <2>1 DEF Below
  <2> QED BY <1>2, <1>5, <1>6, <1>9, <2>1, <2>2 DEF OrderOK
<1>11. WritesOK(g, cs, n, lost)
  <2> SUFFICES ASSUME NEW c \in DOMAIN cs, NEW i \in DOMAIN cs[c].flights, cs[c].flights[i].at = "write"
               PROVE  WriteOK(cs[c].flights[i].lines, cs, n, lost) /\ KeptOf(cs, n, lost) \subseteq Elements(g)
    BY DEF WritesOK
  <2>1. \E d \in DOMAIN buffers : \E j \in DOMAIN buffers[d].flights :
            buffers[d].flights[j] = cs[c].flights[i]
    <3>1. CASE c = b
      BY <1>5, <3>1 DEF SameWrites
    <3>2. CASE c # b
      BY <1>5, <3>2
    <3> QED BY <3>1, <3>2
  <2>2. WriteOK(cs[c].flights[i].lines, buffers, n, lost)
    BY <1>2, <2>1 DEF WritesOK
  <2> QED BY <1>7, <1>8, <1>9, <2>2 DEF WriteOK
<1>12. AccountsOK(g, cs, n, lost, promised)
  BY <1>2, <1>7, <1>8, <1>9 DEF AccountsOK
<1>13. LogInv'
  <2>1. StateOK(g, cs, n, lost, promised)
    BY <1>2, <1>5, <1>10, <1>11, <1>12 DEF StateOK
  <2> QED BY <2>1 DEF LogInv, g, cs
<1>14. Moved
  <2>1. Complete /\ Complete'
    BY <1>3, <1>9, CompleteIs DEF g, cs
  <2>2. buffers' = cs
    BY DEF cs
  <2> QED BY <1>7, <2>1, <2>2 DEF Moved, Below
<1> QED BY <1>13, <1>14

\* rewrite, when storage.write has resolved.
LEMMA WrittenKeeps ==
  ASSUME LogInv, NEW b \in DOMAIN buffers, Written(b)
  PROVE  LogInv' /\ Moved
<1> DEFINE buf == buffers[b]
           next == [WithFirst(buf, [buf.flights[1] EXCEPT !.failed = FALSE, !.at = "finish"])
                       EXCEPT !.failed = FALSE]
<1>1. /\ Writing(b) /\ file' = buf.flights[1].lines
      /\ buffers' = [buffers EXCEPT ![b].failed = FALSE, ![b].flights[1].at = "finish"]
      /\ UNCHANGED <<appended, lost, promised, rewrites, crashes>>
  BY DEF Written
<1>2. /\ buf \in BufferRecord /\ Sound(buf) /\ buf.flights # <<>>
      /\ buf.flights[1].at = "write" /\ buffers \in Seq(BufferRecord)
      /\ 1 \in DOMAIN buf.flights /\ buf.flights[1] \in FlightRecord
  BY <1>1, AtFacts DEF Writing
<1>3. buf.flights[1] = [buf.flights[1] EXCEPT !.failed = FALSE]
  <2>1. buf.flights[1].failed = FALSE
    BY <1>2, BufferTypes DEF Sound
  <2> QED BY <1>2, <2>1 DEF FlightRecord
<1>4. buffers' = [buffers EXCEPT ![b] = next]
  <2>1. [buf.flights[1] EXCEPT !.failed = FALSE, !.at = "finish"] = [buf.flights[1] EXCEPT !.at = "finish"]
    BY <1>3
  <2>2. buffers' = [buffers EXCEPT ![b] = [WithFirst(buf, [buf.flights[1] EXCEPT !.at = "finish"])
                                              EXCEPT !.failed = FALSE]]
    BY <1>1, <1>2 DEF WithFirst
  <2> QED BY <2>1, <2>2
<1> HIDE DEF buf
<1>5. /\ next \in BufferRecord /\ Sound(next) /\ SameWrites(buf, next)
      /\ next.pending = buf.pending /\ next.gone = buf.gone /\ next.retired = buf.retired
  BY <1>2, SettledFacts
<1> HIDE DEF next
<1> QED BY <1>1, <1>4, <1>5, ReplacedKeeps DEF buf

\* rewrite, when storage.write has failed.
LEMMA WriteFailsKeeps ==
  ASSUME LogInv, NEW b \in DOMAIN buffers, WriteFails(b)
  PROVE  LogInv' /\ Moved
<1> DEFINE buf == buffers[b]
           next == [WithFirst(buf, [buf.flights[1] EXCEPT !.failed = TRUE, !.at = "finish"])
                       EXCEPT !.failed = TRUE]
<1>1. /\ Writing(b) /\ file' \in {file, buf.flights[1].lines}
      /\ buffers' = Failing(b)
      /\ UNCHANGED <<appended, lost, promised, rewrites, crashes>>
  BY DEF WriteFails
<1>2. /\ buf \in BufferRecord /\ Sound(buf) /\ buf.flights # <<>>
      /\ buf.flights[1].at = "write" /\ buffers \in Seq(BufferRecord)
      /\ Started(buf) => ReadyIn(buffers, b)
      /\ Started(buf)
      /\ StateOK(file, buffers, appended, lost, promised)
  BY <1>1, AtFacts DEF Writing
<1>3. buffers' = [buffers EXCEPT ![b] = next]
  BY <1>1, <1>2 DEF Failing, WithFirst
<1> HIDE DEF buf
<1>4. /\ next \in BufferRecord /\ Sound(next) /\ SameWrites(buf, next)
      /\ next.pending = buf.pending /\ next.gone = buf.gone /\ next.retired = buf.retired
      /\ ~Fresh(next)
  BY <1>2, SettledFacts
<1> HIDE DEF next
<1>5. CASE file' = file
  <2>1. QuietBuf(buf, next)
    BY <1>4 DEF QuietBuf
  <2>2. /\ StateOK(file, [buffers EXCEPT ![b] = next], appended, lost, promised)
        /\ AllUnwritten([buffers EXCEPT ![b] = next]) = AllUnwritten(buffers)
    BY <1>2, <1>4, <2>1, QuietKeeps DEF buf
  <2>3. LogInv' /\ Still
    BY <1>1, <1>3, <1>5, <2>2 DEF LogInv, Still
  <2> QED BY <2>3, StillMoves
<1>6. CASE file' = buf.flights[1].lines
  BY <1>1, <1>3, <1>4, <1>6, ReplacedKeeps DEF buf
<1> QED BY <1>1, <1>5, <1>6 DEF buf

--------------------------------------------------------------------------------
\* A buffer leaves the map with what it could not write.
LEMMA RetireKeeps ==
  ASSUME LogInv, NEW b \in DOMAIN buffers, Retire(b)
  PROVE  LogInv' /\ Moved
<1> DEFINE buf == buffers[b]
           next == [buf EXCEPT !.gone = TRUE, !.pending = <<>>]
           cs == [buffers EXCEPT ![b] = next]
           n == appended
           l == lost \cup (Unwritten(buf) \ Elements(file))
<1>1. /\ buf.retired /\ buf.flights = <<>> /\ ~buf.gone
      /\ buffers' = [buffers EXCEPT ![b].gone = TRUE, ![b].pending = <<>>]
      /\ lost' = l
      /\ UNCHANGED <<file, appended, promised, rewrites, crashes>>
  BY DEF Retire, Settled, Unwritten
<1>2. /\ n \in Nat /\ BuffersOK(buffers) /\ OrderOK(file, buffers, n)
      /\ WritesOK(file, buffers, n, lost) /\ AccountsOK(file, buffers, n, lost, promised)
      /\ buffers \in Seq(BufferRecord) /\ buf \in BufferRecord /\ Sound(buf)
      /\ Started(buf) => ReadyIn(buffers, b)
  BY DEF LogInv, StateOK, BuffersOK
<1>3. Started(buf) /\ ReadyIn(buffers, b)
  BY <1>1, <1>2 DEF Started
<1>4. buffers' = cs
  BY <1>1, <1>2
<1>5. /\ next \in BufferRecord /\ next.gone /\ next.pending = <<>> /\ next.flights = <<>>
      /\ next.retired = buf.retired /\ next.refs = buf.refs
  <2> HIDE DEF buf
  <2>1. <<>> \in Seq(Nat) /\ buf \in BufferRecord /\ buf.flights = <<>>
    BY <1>1, <1>2
  <2>2. next \in BufferRecord
    BY <2>1 DEF BufferRecord
  <2>3. /\ next.gone = TRUE /\ next.pending = <<>> /\ next.flights = buf.flights
        /\ next.retired = buf.retired /\ next.refs = buf.refs
    BY <2>1 DEF BufferRecord
  <2> QED BY <2>1, <2>2, <2>3
<1> HIDE DEF next
<1>6. Sound(next) /\ Unwritten(next) = {} /\ Rising(next.pending)
  <2>1. DOMAIN next.flights = {} /\ DOMAIN next.pending = {}
    BY <1>5
  <2> QED BY <1>1, <1>2, <1>5, <2>1 DEF Sound, Unwritten, Elements, Rising
<1>7. /\ BuffersOK(cs) /\ DOMAIN cs = DOMAIN buffers
      /\ cs[b] = next /\ \A c \in DOMAIN buffers : c # b => cs[c] = buffers[c]
  BY <1>1, <1>2, <1>3, <1>5, <1>6, BufferChange
<1> HIDE DEF cs
<1>8. \A c \in DOMAIN buffers : \A i \in DOMAIN cs[c].flights : cs[c].flights[i].at # "write"
  <2> SUFFICES ASSUME NEW c \in DOMAIN buffers, NEW i \in DOMAIN cs[c].flights, cs[c].flights[i].at = "write"
               PROVE FALSE
    OBVIOUS
  <2>1. c # b
    BY <1>5, <1>7
  <2>2. Sound(buffers[c]) /\ cs[c] = buffers[c]
    BY <1>2, <1>7, <2>1 DEF BuffersOK
  <2>3. Started(buffers[c]) /\ ~buffers[c].gone
    BY <2>2, Works
  <2> QED BY <1>1, <1>2, <1>3, <2>1, <2>3, OneAtWork
<1> HIDE DEF buf
<1>9. /\ AllUnwritten(cs) \subseteq AllUnwritten(buffers)
      /\ AllUnwritten(buffers) = AllUnwritten(cs) \cup Unwritten(buf)
  BY <1>6, <1>7 DEF AllUnwritten, buf
<1>10. AllUnwritten(cs) \cap Unwritten(buf) = {}
  <2> SUFFICES ASSUME NEW r \in AllUnwritten(cs), r \in Unwritten(buf) PROVE FALSE
    OBVIOUS
  <2>1. PICK c \in DOMAIN buffers : r \in Unwritten(cs[c])
    BY <1>7 DEF AllUnwritten
  <2>2. c # b /\ r \in Unwritten(buffers[c])
    BY <1>6, <1>7, <2>1
  <2>3. c < b \/ b < c
    BY <1>2, <2>2 DEF BuffersOK
  <2>4. r < r /\ r \in 1 .. n
    BY <1>2, <2>2, <2>3 DEF OrderOK, Below, buf
  <2> QED BY <1>2, <2>4
<1>11. OrderOK(file, cs, n)
  <2>1. OrderOK(file, buffers, n)
    BY <1>2
  <2>2. ASSUME NEW c \in DOMAIN cs
        PROVE  /\ Rising(cs[c].pending) /\ Unwritten(cs[c]) \subseteq 1 .. n
               /\ Below(Recorded(file) \ Unwritten(cs[c]), Unwritten(cs[c]))
               /\ Fresh(cs[c]) => Below(Recorded(file), Unwritten(cs[c]))
    <3>1. CASE c = b
      BY <1>6, <1>7, <3>1 DEF Below
    <3>2. CASE c # b
      BY <1>7, <2>1, <3>2 DEF OrderOK
    <3> QED BY <3>1, <3>2
  <2>3. ASSUME NEW c \in DOMAIN cs, NEW d \in DOMAIN cs, c < d
        PROVE  Below(Unwritten(cs[c]), Unwritten(cs[d]))
    <3>1. CASE c = b \/ d = b
      BY <1>6, <1>7, <3>1 DEF Below
    <3>2. CASE c # b /\ d # b
      BY <1>7, <2>1, <2>3, <3>2 DEF OrderOK
    <3> QED BY <3>1, <3>2
  <2> QED BY <2>1, <2>2, <2>3 DEF OrderOK
<1>12. WritesOK(file, cs, n, l)
  BY <1>7, <1>8 DEF WritesOK
<1>13. Unwritten(buf) \subseteq 1 .. n
  BY <1>2 DEF OrderOK, buf
<1>14. AccountsOK(file, cs, n, l, promised)
  <2>1. KeptOf(buffers, n, lost) \subseteq KeptOf(cs, n, l)
    BY <1>9 DEF KeptOf
  <2>2. KeptOf(cs, n, l) \subseteq KeptOf(buffers, n, lost) \cup Elements(file)
    BY <1>9 DEF KeptOf
  <2>3. l \subseteq 1 .. n /\ l \cap (Elements(file) \cup AllUnwritten(cs)) = {}
    BY <1>2, <1>9, <1>10, <1>13 DEF AccountsOK
  <2> HIDE DEF l
  <2> QED BY <1>2, <2>1, <2>2, <2>3 DEF AccountsOK
<1>15. StateOK(file, cs, n, l, promised)
  BY <1>2, <1>7, <1>11, <1>12, <1>14 DEF StateOK
<1>16. Below(AllUnwritten(buffers) \ AllUnwritten(cs), AllUnwritten(cs))
  <2> SUFFICES ASSUME NEW r \in AllUnwritten(buffers) \ AllUnwritten(cs), NEW s \in AllUnwritten(cs)
               PROVE  r < s
    BY DEF Below
  <2>1. r \in Unwritten(buf)
    BY <1>9
  <2>2. PICK c \in DOMAIN buffers : s \in Unwritten(cs[c])
    BY <1>7 DEF AllUnwritten
  <2>3. c # b /\ s \in Unwritten(buffers[c])
    BY <1>6, <1>7, <2>2
  <2>4. ~buffers[c].gone
    BY <1>2, <2>3 DEF BuffersOK, Sound, Unwritten, Elements
  <2>5. ~(c < b)
    BY <1>2, <1>3, <2>4, GoneBelow
  <2>6. b < c
    BY <1>2, <2>3, <2>5 DEF BuffersOK
  <2> QED BY <1>2, <2>1, <2>3, <2>6 DEF OrderOK, Below, buf
<1>17. Moved
  <2>1. lost \subseteq l /\ l \cup AllUnwritten(cs) \subseteq lost \cup AllUnwritten(buffers)
    BY <1>9
  <2>2. KeptOf(cs, n, l) \subseteq Elements(file) <=> KeptOf(buffers, n, lost) \subseteq Elements(file)
    BY <1>9 DEF KeptOf
  <2>3. AllUnwritten(cs) = AllUnwritten(buffers) => l = lost
    BY <1>9, <1>10
  <2>4. /\ Complete <=> KeptOf(buffers, n, lost) \subseteq Elements(file)
        /\ Complete' <=> KeptOf(cs, n, l) \subseteq Elements(file)
    BY <1>1, <1>4, CompleteIs
  <2> HIDE DEF l
  <2> QED BY <1>1, <1>4, <1>9, <1>16, <2>1, <2>2, <2>3, <2>4 DEF Moved
<1> QED BY <1>1, <1>4, <1>15, <1>17 DEF LogInv

\* What a crash leaves of the file: it may have grown by records that were pending,
\* or have been replaced by the log that a reader would find.
LEMMA CrashFileFacts ==
  ASSUME LogInv, NEW g \in CrashFiles
  PROVE  /\ g \in Seq(Lines) /\ Ordered(g) /\ Recorded(g) \subseteq 1 .. appended \ lost
         /\ Corrupt \notin Elements(g) => KeptOf(buffers, appended, lost) \subseteq Elements(g)
         /\ KeptOf(buffers, appended, lost) \subseteq Elements(file)
                <=> KeptOf(buffers, appended, lost) \subseteq Elements(g)
<1> DEFINE n == appended
<1>1. /\ n \in Nat /\ OrderOK(file, buffers, n) /\ BuffersOK(buffers)
      /\ WritesOK(file, buffers, n, lost) /\ AccountsOK(file, buffers, n, lost, promised)
  BY DEF LogInv, StateOK
<1>2. /\ file \in Seq(Lines) /\ Ordered(file) /\ Recorded(file) \subseteq 1 .. n
      /\ lost \subseteq 1 .. n /\ lost \cap (Elements(file) \cup AllUnwritten(buffers)) = {}
      /\ \A b \in DOMAIN buffers : Unwritten(buffers[b]) \subseteq 1 .. n
  BY <1>1 DEF OrderOK, AccountsOK
<1>3. Recorded(file) \subseteq 1 .. n \ lost
  BY <1>2 DEF Recorded
<1>4. CASE g = file
  BY <1>1, <1>2, <1>3, <1>4 DEF AccountsOK
<1>5. ASSUME NEW b \in DOMAIN buffers, At(b, "append"), g \in Interrupted(buffers[b].flights[1].lines)
      PROVE  /\ g \in Seq(Lines) /\ Ordered(g) /\ Recorded(g) \subseteq 1 .. n \ lost
             /\ Corrupt \notin Elements(g) => KeptOf(buffers, n, lost) \subseteq Elements(g)
             /\ KeptOf(buffers, n, lost) \subseteq Elements(file)
                    <=> KeptOf(buffers, n, lost) \subseteq Elements(g)
  <2> DEFINE batch == buffers[b].flights[1].lines
  <2>1. /\ batch \in Seq(Nat) /\ Rising(batch) /\ Elements(batch) \subseteq Unwritten(buffers[b])
        /\ Below(Recorded(file), Unwritten(buffers[b]))
    BY <1>5, AppendingFacts
  <2> HIDE DEF batch
  <2>2. Grown(file, g, Elements(batch))
    <3>1. Below(Recorded(file), Elements(batch))
      BY <2>1 DEF Below
    <3> QED BY <1>2, <1>5, <2>1, <3>1, InterruptedFacts DEF batch
  <2>3. Elements(batch) \subseteq 1 .. n \ lost
    <3>1. Unwritten(buffers[b]) \subseteq AllUnwritten(buffers)
      BY DEF AllUnwritten
    <3> QED BY <1>2, <2>1, <3>1
  <2>4. ASSUME NEW r \in KeptOf(buffers, n, lost) PROVE r \in Elements(file) <=> r \in Elements(g)
    <3>1. r \in 1 .. n /\ r \notin Elements(batch)
      BY <2>1 DEF KeptOf, AllUnwritten
    <3>2. (r \in Elements(file) <=> r \in Recorded(file)) /\ (r \in Elements(g) <=> r \in Recorded(g))
      BY <3>1, AppendLogAssumption DEF Recorded
    <3> QED BY <2>2, <3>1, <3>2 DEF Grown
  <2>5. Corrupt \notin Elements(g) => KeptOf(buffers, n, lost) \subseteq Elements(g)
    BY <1>1, <2>2, <2>4 DEF AccountsOK, Grown
  <2> QED BY <1>3, <2>2, <2>3, <2>4, <2>5 DEF Grown
<1>6. ASSUME NEW b \in DOMAIN buffers, Writing(b), g = buffers[b].flights[1].lines
      PROVE  /\ g \in Seq(Lines) /\ Ordered(g) /\ Recorded(g) \subseteq 1 .. n \ lost
             /\ KeptOf(buffers, n, lost) \subseteq Elements(g)
             /\ KeptOf(buffers, n, lost) \subseteq Elements(file)
  <2>1. /\ buffers[b] \in BufferRecord /\ 1 \in DOMAIN buffers[b].flights
        /\ buffers[b].flights[1].at = "write"
    BY <1>6, AtFacts DEF Writing
  <2>2. /\ g \in Seq(Nat) /\ WriteOK(g, buffers, n, lost)
        /\ KeptOf(buffers, n, lost) \subseteq Elements(file)
    BY <1>1, <1>6, <2>1, BufferTypes DEF WritesOK
  <2>3. Nat \subseteq Lines
    BY DEF Lines
  <2>4. g \in Seq(Lines)
    BY <2>2, <2>3
  <2> QED BY <2>2, <2>4 DEF WriteOK, Ordered, Rising, Recorded
<1> QED BY <1>4, <1>5, <1>6 DEF CrashFiles

\* A crash drops the buffers, with what has not reached the file.
LEMMA CrashKeeps == LogInv /\ Crash => LogInv' /\ Moved
<1> SUFFICES ASSUME LogInv, Crash PROVE LogInv' /\ Moved
  OBVIOUS
<1> DEFINE n == appended
           l == lost \cup (AllUnwritten(buffers) \ Elements(file'))
<1>1. /\ buffers' = <<>> /\ file' \in CrashFiles /\ crashes' = crashes + 1
      /\ UNCHANGED <<appended, promised, rewrites>>
  BY DEF Crash
<1>2. lost' = l
  BY DEF Crash, Pending, AllUnwritten, Unwritten
<1>3. /\ n \in Nat /\ OrderOK(file, buffers, n) /\ AccountsOK(file, buffers, n, lost, promised)
      /\ crashes \in Nat /\ rewrites \in Nat
  BY DEF LogInv, StateOK
<1>4. /\ file' \in Seq(Lines) /\ Ordered(file') /\ Recorded(file') \subseteq 1 .. n \ lost
      /\ Corrupt \notin Elements(file') => KeptOf(buffers, n, lost) \subseteq Elements(file')
      /\ KeptOf(buffers, n, lost) \subseteq Elements(file)
             <=> KeptOf(buffers, n, lost) \subseteq Elements(file')
  BY <1>1, CrashFileFacts
<1>5. AllUnwritten(buffers) \subseteq 1 .. n
  BY <1>3 DEF OrderOK, AllUnwritten
<1>6. DOMAIN buffers' = {} /\ buffers' \in Seq(BufferRecord)
  BY <1>1
<1>7. AllUnwritten(buffers') = {}
  BY <1>6 DEF AllUnwritten
<1>8. BuffersOK(buffers') /\ OrderOK(file', buffers', n) /\ WritesOK(file', buffers', n, l)
  BY <1>4, <1>6 DEF BuffersOK, OrderOK, WritesOK
<1>9. KeptOf(buffers', n, l) \subseteq KeptOf(buffers, n, lost) \cup Elements(file')
  BY <1>7 DEF KeptOf
<1>10. ASSUME NEW r \in promised PROVE r \in KeptOf(buffers', n, l)
  BY <1>3, <1>7 DEF AccountsOK, KeptOf
<1>11. l \subseteq 1 .. n /\ l \cap Elements(file') = {}
  <2>1. lost \subseteq 1 .. n
    BY <1>3 DEF AccountsOK
  <2>2. ASSUME NEW r \in lost, r \in Elements(file') PROVE FALSE
    <3>1. r \in Recorded(file')
      BY <2>1, <2>2, AppendLogAssumption DEF Recorded
    <3> QED BY <1>4, <3>1
  <2> QED BY <1>5, <2>1, <2>2
<1>12. AccountsOK(file', buffers', n, l, promised)
  <2> HIDE DEF l
  <2> QED BY <1>4, <1>7, <1>9, <1>10, <1>11 DEF AccountsOK
<1>13. StateOK(file', buffers', n, l, promised)
  BY <1>3, <1>8, <1>12 DEF StateOK
<1>14. Moved
  <2>1. /\ Complete <=> KeptOf(buffers, n, lost) \subseteq Elements(file)
        /\ Complete' <=> KeptOf(buffers', n, l) \subseteq Elements(file')
    BY <1>1, <1>2, CompleteIs
  <2>2. KeptOf(buffers', n, l) \subseteq Elements(file') <=> KeptOf(buffers, n, lost) \subseteq Elements(file')
    BY <1>7 DEF KeptOf
  <2>3. /\ lost \subseteq l /\ l \subseteq lost \cup AllUnwritten(buffers)
        /\ AllUnwritten(buffers) = {} => l = lost
    OBVIOUS
  <2> HIDE DEF l
  <2> QED BY <1>1, <1>2, <1>4, <1>7, <2>1, <2>2, <2>3 DEF Moved, Below
<1> QED BY <1>1, <1>2, <1>3, <1>13, <1>14 DEF LogInv

--------------------------------------------------------------------------------
\* The invariant holds at the start.
LEMMA LogInit == Init => LogInv
<1> SUFFICES ASSUME Init PROVE LogInv
  OBVIOUS
<1>1. /\ file = <<>> /\ buffers = <<>> /\ appended = 0 /\ lost = {} /\ promised = {}
      /\ rewrites = 0 /\ crashes = 0
  BY DEF Init
<1>2. /\ DOMAIN file = {} /\ DOMAIN buffers = {} /\ file \in Seq(Lines) /\ buffers \in Seq(BufferRecord)
      /\ Elements(file) = {} /\ 1 .. 0 = {}
  BY <1>1 DEF Elements
<1>3. AllUnwritten(buffers) = {} /\ KeptOf(buffers, appended, lost) = {}
  BY <1>1, <1>2 DEF AllUnwritten, KeptOf
<1>4. BuffersOK(buffers) /\ WritesOK(file, buffers, appended, lost)
  BY <1>2 DEF BuffersOK, WritesOK
<1>5. OrderOK(file, buffers, appended)
  BY <1>1, <1>2 DEF OrderOK, Ordered, Recorded
<1>6. AccountsOK(file, buffers, appended, lost, promised)
  BY <1>1, <1>2, <1>3 DEF AccountsOK
<1> QED BY <1>1, <1>4, <1>5, <1>6 DEF LogInv, StateOK

\* Every step keeps it, and either takes a record or moves records out of the
\* buffers.
LEMMA LogStep == LogInv /\ [Next]_vars => LogInv' /\ (Taken \/ Moved)
<1> SUFFICES ASSUME LogInv, [Next]_vars PROVE LogInv' /\ (Taken \/ Moved)
  OBVIOUS
<1>1. CASE AppendRecord
  BY <1>1, AppendRecordKeeps
<1>2. CASE Flush
  BY <1>2, FlushKeeps, StillMoves
<1>3. CASE Read
  BY <1>3, ReadKeeps, StillMoves
<1>4. CASE Acquire
  BY <1>4, AcquireKeeps, StillMoves
<1>5. ASSUME NEW b \in DOMAIN buffers, Release(b) PROVE LogInv' /\ Moved
  BY <1>5, ReleaseKeeps, StillMoves
<1>6. ASSUME NEW b \in DOMAIN buffers, Proceed(b) PROVE LogInv' /\ Moved
  <2>1. CASE ScheduledFlush(b)
    BY <2>1, ScheduledFlushKeeps, StillMoves
  <2>2. CASE Retire(b)
    BY <2>2, RetireKeeps
  <2>3. CASE DrainReady(b)
    BY <2>3, DrainReadyKeeps, StillMoves
  <2>4. CASE Appended(b)
    BY <2>4, AppendedKeeps
  <2>5. CASE AppendFails(b)
    BY <2>5, AppendFailsKeeps
  <2>6. CASE Written(b)
    BY <2>6, WrittenKeeps
  <2>7. CASE WriteFails(b)
    BY <2>7, WriteFailsKeeps
  <2>8. CASE Finish(b)
    BY <2>8, FinishKeeps, StillMoves
  <2> QED BY <1>6, <2>1, <2>2, <2>3, <2>4, <2>5, <2>6, <2>7, <2>8 DEF Proceed
<1>7. CASE Rewrite
  BY <1>7, RewriteKeeps, StillMoves
<1>8. CASE Crash
  BY <1>8, CrashKeeps
<1>9. CASE UNCHANGED vars
  <2>1. LogInv'
    BY <1>9 DEF vars, LogInv
  <2>2. Still
    BY <1>9 DEF vars, Still
  <2> QED BY <2>1, <2>2, StillMoves
<1> QED BY <1>1, <1>2, <1>3, <1>4, <1>5, <1>6, <1>7, <1>8, <1>9 DEF Next

\* The invariant holds throughout.
LEMMA LogInvariant == Spec => []LogInv
<1>1. Init => LogInv
  BY LogInit
<1>2. LogInv /\ [Next]_vars => LogInv'
  BY LogStep
<1> QED BY <1>1, <1>2, PTL DEF Spec

\* The types hold, and only the last buffer takes records: state() retires one
\* before it opens the next.
THEOREM TypeCorrect == Spec => []TypeOK
<1>1. LogInv => TypeOK
  BY LogInvImplies
<1> QED BY <1>1, LogInvariant, PTL

\* The records in the file stand in order, each once: through failed batches,
\* rewrites, retired buffers and crashes nothing is written twice or out of turn.
\* (flushState, drain, rewrite, state)
THEOREM RecordsInOrder == Spec => []InOrder
<1>1. LogInv => InOrder
  BY LogInvImplies
<1> QED BY <1>1, LogInvariant, PTL

\* While the log can be read, every record is in the file, in a buffer, or was
\* dropped with its buffer.  (rewrite, drain, release)
THEOREM NoRecordMissing == Spec => []NoneMissing
<1>1. LogInv => NoneMissing
  BY LogInvImplies
<1> QED BY <1>1, LogInvariant, PTL

\* While the log can be read, it holds what a flush has reported durable.
\* (finishOwnedFlush)
THEOREM PromisesKept == Spec => []PromisedIsDurable
<1>1. LogInv => PromisedIsDurable
  BY LogInvImplies
<1> QED BY <1>1, LogInvariant, PTL

--------------------------------------------------------------------------------
\* The bound on the records.
Bounded == appended <= MaxRecords

\* The sequences that stand for the abstract log and its tail are determined by the
\* records that they hold.
Mapped ==
    /\ Found \in Seq(Nat) /\ Rising(Found)
    /\ Outstanding \in Seq(Nat) /\ Rising(Outstanding)
    /\ Complete => /\ Elements(Found) = KeptOf(buffers, appended, lost)
                   /\ Elements(Outstanding) = AllUnwritten(buffers)
                   /\ Below(Elements(Found), Elements(Outstanding))
    /\ ~Complete => Found = <<>> /\ Outstanding = <<>>
    /\ Elements(Found) \cup Elements(Outstanding) \subseteq 1 .. MaxRecords

\* The invariant determines them.
LEMMA MappedFacts == LogInv /\ Bounded => Mapped
<1> SUFFICES ASSUME LogInv, Bounded PROVE Mapped
  OBVIOUS
<1> DEFINE n == appended
           gone == {Torn, Corrupt} \cup AllUnwritten(buffers)
           ss == [b \in DOMAIN buffers |-> buffers[b].pending]
<1>1. /\ n \in Nat /\ BuffersOK(buffers) /\ OrderOK(file, buffers, n)
      /\ AccountsOK(file, buffers, n, lost, promised)
  BY DEF LogInv, StateOK
<1>2. 1 .. n \subseteq 1 .. MaxRecords
  BY <1>1, AppendLogAssumption DEF Bounded
<1>3. <<>> \in Seq(Nat) /\ Rising(<<>>) /\ Elements(<<>>) = {}
  BY DEF Rising, Elements
<1>4. CASE ~Complete
  <2>1. Found = <<>> /\ Outstanding = <<>>
    BY <1>4 DEF Found, Outstanding
  <2> QED BY <1>3, <1>4, <2>1 DEF Mapped
<1>5. CASE Complete
  <2>1. Pending = AllUnwritten(buffers)
    BY DEF Pending, AllUnwritten, Unwritten
  <2>2. Found = Without(file, gone) /\ Outstanding = Joined(ss)
    BY <1>5, <2>1 DEF Found, Outstanding
  <2>3. /\ file \in Seq(Lines) /\ Ordered(file) /\ Recorded(file) \subseteq 1 .. n
        /\ \A b \in DOMAIN buffers :
               /\ Rising(buffers[b].pending) /\ Unwritten(buffers[b]) \subseteq 1 .. n
               /\ Below(Recorded(file) \ Unwritten(buffers[b]), Unwritten(buffers[b]))
        /\ \A b, c \in DOMAIN buffers : b < c => Below(Unwritten(buffers[b]), Unwritten(buffers[c]))
    BY <1>1 DEF OrderOK
  <2>4. /\ Found \in Seq(Nat) /\ Rising(Found) /\ Elements(Found) = Elements(file) \ gone
    <3>1. Lines \ gone \subseteq Nat
      BY DEF Lines
    <3>2. \A i, j \in DOMAIN file : i < j /\ file[i] \notin gone /\ file[j] \notin gone => file[i] < file[j]
      BY <2>3 DEF Ordered, IsRecord
    <3> HIDE DEF gone
    <3> QED BY <2>2, <2>3, <3>1, <3>2, RisingWithout
  <2>5. Elements(Found) = KeptOf(buffers, n, lost)
    <3>1. Elements(Found) = Recorded(file) \ AllUnwritten(buffers)
      BY <2>4 DEF Recorded
    <3>2. KeptOf(buffers, n, lost) \subseteq Elements(file)
      BY <1>5, CompleteIs
    <3>3. \A r \in 1 .. n : r # Torn /\ r # Corrupt
      BY AppendLogAssumption
    <3>4. lost \cap Elements(file) = {}
      BY <1>1 DEF AccountsOK
    <3> QED BY <2>3, <3>1, <3>2, <3>3, <3>4 DEF KeptOf, Recorded
  <2>6. /\ Outstanding \in Seq(Nat) /\ Rising(Outstanding)
        /\ Elements(Outstanding) = AllUnwritten(buffers)
    <3>1. buffers \in Seq(BufferRecord)
      BY <1>1 DEF BuffersOK
    <3>2. \A b \in DOMAIN buffers : buffers[b].pending \in Seq(Nat)
      <4>1. \A b \in DOMAIN buffers : buffers[b] \in BufferRecord
        BY <3>1
      <4> QED BY <4>1, BufferTypes
    <3>3. /\ ss \in Seq(Seq(Nat)) /\ DOMAIN ss = DOMAIN buffers
          /\ \A b \in DOMAIN ss : ss[b] = buffers[b].pending
      BY <3>1, <3>2
    <3> HIDE DEF ss
    <3>4. /\ \A b \in DOMAIN ss : Rising(ss[b])
          /\ \A b, c \in DOMAIN ss : b < c => Below(Elements(ss[b]), Elements(ss[c]))
      BY <2>3, <3>3 DEF Unwritten
    <3>5. /\ Joined(ss) \in Seq(Nat) /\ Rising(Joined(ss))
          /\ Elements(Joined(ss)) = UNION {Elements(ss[b]) : b \in DOMAIN ss}
      BY <3>3, <3>4, RisingJoined
    <3>6. UNION {Elements(ss[b]) : b \in DOMAIN ss} = AllUnwritten(buffers)
      BY <3>3 DEF AllUnwritten, Unwritten
    <3> QED BY <2>2, <3>5, <3>6
  <2>7. Below(Elements(Found), Elements(Outstanding))
    <3> SUFFICES ASSUME NEW r \in Elements(Found), NEW s \in AllUnwritten(buffers) PROVE r < s
      BY <2>6 DEF Below
    <3>1. PICK b \in DOMAIN buffers : s \in Unwritten(buffers[b])
      BY DEF AllUnwritten
    <3>2. r \in Recorded(file) \ Unwritten(buffers[b])
      BY <2>4 DEF Recorded, AllUnwritten
    <3> QED BY <2>3, <3>1, <3>2 DEF Below
  <2>8. Elements(Found) \cup Elements(Outstanding) \subseteq 1 .. MaxRecords
    <3>1. AllUnwritten(buffers) \subseteq 1 .. n
      BY <2>3 DEF AllUnwritten
    <3> QED BY <1>2, <2>5, <2>6, <3>1 DEF KeptOf
  <2> QED BY <1>5, <2>4, <2>5, <2>6, <2>7, <2>8 DEF Mapped
<1> QED BY <1>4, <1>5

\* What is left of a rising sequence rises.
LEMMA RisingLeft ==
  ASSUME NEW s \in Seq(Nat), Rising(s), NEW gone
  PROVE  /\ Without(s, gone) \in Seq(Nat) /\ Rising(Without(s, gone))
         /\ Elements(Without(s, gone)) = Elements(s) \ gone
<1> DEFINE S == Nat
<1>1. s \in Seq(S) /\ S \ gone \subseteq Nat
  OBVIOUS
<1>2. \A i, j \in DOMAIN s : i < j /\ s[i] \notin gone /\ s[j] \notin gone => s[i] < s[j]
  BY DEF Rising
<1> HIDE DEF S
<1> QED BY <1>1, <1>2, RisingWithout

\* The front of the tail goes to the log, less what is dropped of it.
MovedTo(log, log2, tail, tail2, R) ==
    \E n \in 1 .. Len(tail) : \E kept \in SUBSET R :
        /\ log2 = log \o Without(SubSeq(tail, 1, n), R \ kept)
        /\ tail2 = SubSeq(tail, n + 1, Len(tail))

\* Rising sequences that differ as if records left the front of the tail, some of
\* them for the log.
MayMove(log, log2, tail, tail2, R) ==
    /\ log \in Seq(Nat) /\ log2 \in Seq(Nat) /\ tail \in Seq(Nat) /\ tail2 \in Seq(Nat)
    /\ Rising(log) /\ Rising(log2) /\ Rising(tail) /\ Rising(tail2)
    /\ Below(Elements(log), Elements(tail))
    /\ Elements(tail2) \subseteq Elements(tail) /\ Elements(tail2) # Elements(tail)
    /\ Below(Elements(tail) \ Elements(tail2), Elements(tail2))
    /\ Elements(log) \subseteq Elements(log2)
    /\ Elements(log2) \subseteq Elements(log) \cup (Elements(tail) \ Elements(tail2))
    /\ Elements(log) \cup Elements(tail) \subseteq R

\* Such sequences are those of a move.
LEMMA MoveFacts ==
  ASSUME NEW log, NEW log2, NEW tail, NEW tail2, NEW Records,
         MayMove(log, log2, tail, tail2, Records)
  PROVE  MovedTo(log, log2, tail, tail2, Records)
<1>0. /\ log \in Seq(Nat) /\ log2 \in Seq(Nat) /\ tail \in Seq(Nat) /\ tail2 \in Seq(Nat)
      /\ Rising(log) /\ Rising(log2) /\ Rising(tail) /\ Rising(tail2)
      /\ Below(Elements(log), Elements(tail))
      /\ Elements(tail2) \subseteq Elements(tail) /\ Elements(tail2) # Elements(tail)
      /\ Below(Elements(tail) \ Elements(tail2), Elements(tail2))
      /\ Elements(log) \subseteq Elements(log2)
      /\ Elements(log2) \subseteq Elements(log) \cup (Elements(tail) \ Elements(tail2))
      /\ Elements(log) \cup Elements(tail) \subseteq Records
  BY DEF MayMove
<1> DEFINE A == Elements(tail) \ Elements(tail2)
           kept == Elements(log2)
           gone == Records \ kept
<1>1. A \in SUBSET Elements(tail) /\ A # {} /\ Elements(tail) \ A = Elements(tail2) /\ Below(A, Elements(tail) \ A)
  BY <1>0
<1>2. kept \in SUBSET Records
  BY <1>0
<1> HIDE DEF A
<1>3. PICK n \in 1 .. Len(tail) : \A i \in 1 .. Len(tail) : tail[i] \in A <=> i <= n
  BY <1>0, <1>1, RisingSplit
<1>4. Len(tail) \in Nat /\ DOMAIN tail = 1 .. Len(tail) /\ n \in Nat
  BY <1>0
<1> DEFINE front == SubSeq(tail, 1, n)
           rest == SubSeq(tail, n + 1, Len(tail))
<1>5. /\ front \in Seq(Nat) /\ Rising(front) /\ Elements(front) = {tail[i] : i \in 1 .. n}
      /\ rest \in Seq(Nat) /\ Rising(rest) /\ Elements(rest) = {tail[i] : i \in n + 1 .. Len(tail)}
  <2>1. 1 \in 1 .. Len(tail) + 1 /\ n \in 0 .. Len(tail) /\ n + 1 \in 1 .. Len(tail) + 1
        /\ Len(tail) \in 0 .. Len(tail)
    BY <1>4
  <2>2. LET p == SubSeq(tail, 1, n) IN p \in Seq(Nat) /\ Rising(p) /\ Elements(p) = {tail[i] : i \in 1 .. n}
    BY <1>0, <2>1, RisingPart
  <2>3. LET p == SubSeq(tail, n + 1, Len(tail))
        IN  p \in Seq(Nat) /\ Rising(p) /\ Elements(p) = {tail[i] : i \in n + 1 .. Len(tail)}
    BY <1>0, <2>1, RisingPart
  <2> QED BY <2>2, <2>3
<1> HIDE DEF front, rest
<1>6. Elements(front) = A /\ Elements(rest) = Elements(tail2)
  <2>1. \A i \in DOMAIN tail : (i \in 1 .. n <=> tail[i] \in A) /\ (i \in n + 1 .. Len(tail) <=> tail[i] \notin A)
    BY <1>3, <1>4
  <2>2. 1 .. n \subseteq DOMAIN tail /\ n + 1 .. Len(tail) \subseteq DOMAIN tail
    BY <1>4
  <2>3. Elements(tail) = {tail[i] : i \in DOMAIN tail}
    BY DEF Elements
  <2>4. Elements(front) = A
    BY <1>1, <1>5, <2>1, <2>2, <2>3
  <2>5. Elements(rest) = Elements(tail) \ A
    BY <1>5, <2>1, <2>2, <2>3
  <2> QED BY <1>1, <2>4, <2>5
<1>7. tail2 = rest
  BY <1>0, <1>5, <1>6, RisingUnique
<1> DEFINE added == Without(front, gone)
<1>8. added \in Seq(Nat) /\ Rising(added) /\ Elements(added) = A \cap kept
  <2>3. A \subseteq Records
    BY <1>0, <1>1
  <2>4. Elements(front) \ gone = A \cap kept
    BY <1>6, <2>3
  <2> HIDE DEF gone, kept
  <2>5. /\ Without(front, gone) \in Seq(Nat) /\ Rising(Without(front, gone))
        /\ Elements(Without(front, gone)) = Elements(front) \ gone
    BY <1>5, RisingLeft
  <2> QED BY <2>4, <2>5
<1> HIDE DEF added, gone, kept
<1>9. /\ log \o added \in Seq(Nat) /\ Rising(log \o added)
      /\ Elements(log \o added) = Elements(log) \cup (A \cap kept)
  <2>1. Below(Elements(log), Elements(added))
    BY <1>0, <1>1, <1>8 DEF Below
  <2>2. /\ log \o added \in Seq(Nat) /\ Rising(log \o added)
        /\ Elements(log \o added) = Elements(log) \cup Elements(added)
    BY <1>0, <1>8, <2>1, RisingConcat
  <2> QED BY <1>8, <2>2
<1>10. Elements(log) \cup (A \cap kept) = Elements(log2)
  BY <1>0 DEF A, kept
<1>11. log2 = log \o added
  BY <1>0, <1>9, <1>10, RisingUnique
<1> QED BY <1>2, <1>7, <1>11 DEF added, front, rest, gone, MovedTo

\* Records that leave the buffers leave the tail of the durable log.
LEMMA MovedImplements ==
  ASSUME LogInv, Bounded, LogInv', Bounded', Moved
  PROVE  [Durable!Next]_(Durable!vars)
<1>1. Mapped /\ Mapped'
  <2>1. Mapped
    BY MappedFacts
  <2>2. Mapped'
    BY MappedFacts, PTL
  <2> QED BY <2>1, <2>2
<1> DEFINE U == AllUnwritten(buffers)
           V == AllUnwritten(buffers')
           K == KeptOf(buffers, appended, lost)
           L == KeptOf(buffers', appended', lost')
<1>2. /\ lost \subseteq lost' /\ V \subseteq U /\ Below(U \ V, V) /\ lost' \cup V \subseteq lost \cup U
      /\ ~Complete => ~Complete'
      /\ Complete /\ V = U => Complete' /\ lost' = lost
      /\ appended' = appended
  BY DEF Moved
<1>3. K \subseteq L /\ L \subseteq K \cup (U \ V) /\ (lost' = lost /\ V = U => L = K)
  BY <1>2 DEF KeptOf
<1>4. /\ Found \in Seq(Nat) /\ Rising(Found) /\ Outstanding \in Seq(Nat) /\ Rising(Outstanding)
      /\ Complete => Elements(Found) = K /\ Elements(Outstanding) = U /\ Below(K, U)
      /\ ~Complete => Found = <<>> /\ Outstanding = <<>>
      /\ Elements(Found) \cup Elements(Outstanding) \subseteq 1 .. MaxRecords
  BY <1>1 DEF Mapped
<1>5. /\ Found' \in Seq(Nat) /\ Rising(Found') /\ Outstanding' \in Seq(Nat) /\ Rising(Outstanding')
      /\ Complete' => Elements(Found') = L /\ Elements(Outstanding') = V
      /\ ~Complete' => Found' = <<>> /\ Outstanding' = <<>>
  BY <1>1 DEF Mapped
<1> HIDE DEF U, V, K, L
<1>6. CASE ~Complete
  <2>1. Found' = Found /\ Outstanding' = Outstanding /\ ~Complete'
    BY <1>2, <1>4, <1>5, <1>6
  <2>2. Complete' = Complete
    BY <1>6, <2>1 DEF Complete
  <2> QED BY <2>1, <2>2 DEF Durable!vars
<1>7. CASE Complete /\ ~Complete'
  <2>1. U # {}
    BY <1>2, <1>7
  <2>2. Outstanding # <<>>
    <3>1. Elements(<<>>) = {}
      BY DEF Elements
    <3> QED BY <1>4, <1>7, <2>1, <3>1
  <2>3. Complete' = FALSE
    BY <1>7 DEF Complete
  <2> QED BY <1>5, <1>7, <2>2, <2>3 DEF Durable!Next, Durable!Break
<1>8. CASE Complete /\ Complete' /\ V = U
  <2>1. Found' = Found /\ Outstanding' = Outstanding
    BY <1>2, <1>3, <1>4, <1>5, <1>8, RisingUnique
  <2>2. Complete' = Complete
    BY <1>8 DEF Complete
  <2> QED BY <2>1, <2>2 DEF Durable!vars
<1>9. CASE Complete /\ Complete' /\ V # U
  <2>1. \E n \in 1 .. Len(Outstanding) : \E kept \in SUBSET (1 .. MaxRecords) :
            /\ Found' = Found \o Without(SubSeq(Outstanding, 1, n), 1 .. MaxRecords \ kept)
            /\ Outstanding' = SubSeq(Outstanding, n + 1, Len(Outstanding))
    <3> DEFINE R == 1 .. MaxRecords
    <3>1. Elements(Found) \cup Elements(Outstanding) \subseteq R
      BY <1>4
    <3> HIDE DEF R
    <3>2. /\ Elements(Found) = K /\ Elements(Outstanding) = U /\ Below(K, U)
          /\ Elements(Found') = L /\ Elements(Outstanding') = V
      BY <1>4, <1>5, <1>9
    <3>3. MayMove(Found, Found', Outstanding, Outstanding', R)
      BY <1>2, <1>3, <1>4, <1>5, <1>9, <3>1, <3>2 DEF MayMove
    <3>4. MovedTo(Found, Found', Outstanding, Outstanding', R)
      BY <3>3, MoveFacts
    <3> QED BY <3>4 DEF R, MovedTo
  <2>2. Complete' = Complete
    BY <1>9 DEF Complete
  <2>3. Durable!GiveUp
    <3>1. \A s, gone : Durable!Without(s, gone) = Without(s, gone)
      BY DEF Durable!Without, Without
    <3> QED BY <2>1, <2>2, <3>1 DEF Durable!GiveUp, Durable!Move
  <2> QED BY <1>9, <2>3 DEF Durable!Next
<1> QED BY <1>6, <1>7, <1>8, <1>9

\* A record that a buffer takes is accepted.
LEMMA TakenImplements ==
  ASSUME LogInv, Bounded, LogInv', Bounded', Taken
  PROVE  [Durable!Next]_(Durable!vars)
<1>1. Mapped /\ Mapped'
  <2>1. Mapped
    BY MappedFacts
  <2>2. Mapped'
    BY MappedFacts, PTL
  <2> QED BY <2>1, <2>2
<1> DEFINE U == AllUnwritten(buffers)
           V == AllUnwritten(buffers')
           K == KeptOf(buffers, appended, lost)
           L == KeptOf(buffers', appended', lost')
           m == appended + 1
<1>2. /\ appended' = m /\ file' = file /\ lost' = lost /\ V = U \cup {m}
  BY DEF Taken
<1>3. /\ appended \in Nat /\ OrderOK(file, buffers, appended)
  BY DEF LogInv, StateOK
<1>4. U \subseteq 1 .. appended
  BY <1>3 DEF OrderOK, AllUnwritten
<1>5. 1 .. m = 1 .. appended \cup {m} /\ m \notin 1 .. appended /\ m \in Nat
      /\ \A i \in 1 .. appended : i < m
  BY <1>3
<1>6. m \in 1 .. MaxRecords
  BY <1>2, <1>3, AppendLogAssumption DEF Bounded
<1>7. L = K
  BY <1>2, <1>5 DEF KeptOf
<1>8. Complete' = Complete
  <2>1. Complete' <=> Complete
    BY <1>2, <1>7, CompleteIs
  <2> QED BY <2>1 DEF Complete
<1>9. /\ Found \in Seq(Nat) /\ Rising(Found) /\ Outstanding \in Seq(Nat) /\ Rising(Outstanding)
      /\ Complete => Elements(Found) = K /\ Elements(Outstanding) = U
      /\ ~Complete => Found = <<>> /\ Outstanding = <<>>
  BY <1>1 DEF Mapped
<1>10. /\ Found' \in Seq(Nat) /\ Rising(Found') /\ Outstanding' \in Seq(Nat) /\ Rising(Outstanding')
       /\ Complete' => Elements(Found') = L /\ Elements(Outstanding') = V
       /\ ~Complete' => Found' = <<>> /\ Outstanding' = <<>>
  BY <1>1 DEF Mapped
<1> HIDE DEF U, V, K, L, m
<1>11. CASE ~Complete
  BY <1>8, <1>9, <1>10, <1>11 DEF Durable!vars
<1>12. CASE Complete
  <2>1. Found' = Found
    BY <1>7, <1>8, <1>9, <1>10, <1>12, RisingUnique
  <2>2. Outstanding' = Append(Outstanding, m)
    <3>1. /\ <<m>> \in Seq(Nat) /\ Rising(<<m>>) /\ Elements(<<m>>) = {m}
      BY <1>5 DEF Rising, Elements
    <3>2. Below(Elements(Outstanding), Elements(<<m>>))
      BY <1>4, <1>5, <1>9, <1>12, <3>1 DEF Below
    <3>3. /\ Outstanding \o <<m>> \in Seq(Nat) /\ Rising(Outstanding \o <<m>>)
          /\ Elements(Outstanding \o <<m>>) = U \cup {m}
      BY <1>9, <1>12, <3>1, <3>2, RisingConcat
    <3>4. Outstanding' = Outstanding \o <<m>>
      BY <1>2, <1>8, <1>10, <1>12, <3>3, RisingUnique
    <3>5. Outstanding \o <<m>> = Append(Outstanding, m)
      BY <1>5, <1>9
    <3> QED BY <3>4, <3>5
  <2>3. Durable!Accept
    BY <1>6, <1>8, <2>1, <2>2 DEF Durable!Accept
  <2> QED BY <1>12, <2>3 DEF Durable!Next
<1> QED BY <1>11, <1>12

\* AppendRecord keeps its bound, and no other action appends.
LEMMA BoundKept ==
  ASSUME LogInv, Bounded, [Next]_vars
  PROVE  Bounded'
<1>1. appended \in Nat /\ MaxRecords \in Nat
  BY AppendLogAssumption DEF LogInv, StateOK
<1>2. CASE AppendRecord
  <2>1. appended < MaxRecords /\ appended' = appended + 1
    BY <1>2 DEF AppendRecord
  <2> QED BY <1>1, <2>1 DEF Bounded
<1>3. CASE appended' = appended
  BY <1>3 DEF Bounded
<1>4. ASSUME NEW b \in DOMAIN buffers, Release(b) \/ Proceed(b) PROVE appended' = appended
  BY <1>4 DEF Release, Proceed, ScheduledFlush, Retire, DrainReady, Appended, AppendFails,
              Written, WriteFails, Finish
<1>5. CASE Flush \/ Read \/ Acquire \/ Rewrite \/ Crash \/ UNCHANGED vars
  <2>1. appended' = appended
    BY <1>5 DEF Flush, Read, Acquire, Rewrite, Crash, vars
  <2> QED BY <2>1, <1>3
<1> QED BY <1>2, <1>3, <1>4, <1>5 DEF Next

\* Nothing was appended, so the durable log is empty.
LEMMA StartsEmpty == Init => Bounded /\ Durable!Init
<1> SUFFICES ASSUME Init PROVE Bounded /\ Durable!Init
  OBVIOUS
<1>1. file = <<>> /\ buffers = <<>> /\ appended = 0
  BY DEF Init
<1>2. Bounded
  BY <1>1, AppendLogAssumption DEF Bounded
<1>3. LogInv /\ Mapped
  BY <1>2, LogInit, MappedFacts
<1>4. Complete
  BY <1>1 DEF Complete
<1>5. AllUnwritten(buffers) = {} /\ KeptOf(buffers, appended, lost) = {}
  BY <1>1 DEF AllUnwritten, KeptOf
<1>6. <<>> \in Seq(Nat) /\ Rising(<<>>) /\ Elements(<<>>) = {}
  BY DEF Rising, Elements
<1>7. /\ Found \in Seq(Nat) /\ Rising(Found) /\ Elements(Found) = {}
      /\ Outstanding \in Seq(Nat) /\ Rising(Outstanding) /\ Elements(Outstanding) = {}
  BY <1>3, <1>4, <1>5 DEF Mapped
<1>8. Found = <<>> /\ Outstanding = <<>>
  BY <1>6, <1>7, RisingUnique
<1>9. Complete = TRUE
  BY <1>4 DEF Complete
<1> QED BY <1>2, <1>8, <1>9 DEF Durable!Init

\* The store implements the durable log: a record is accepted, or records leave the
\* front of the tail, some for the log, or a torn line swallows them, or nothing
\* shows.  (appendLogStore.ts as a whole)
THEOREM DurableLogImplemented == Spec => DurableLogRefinement
<1>1. Init => LogInv /\ Bounded /\ Durable!Init
  BY LogInit, StartsEmpty
<1>2. LogInv /\ Bounded /\ [Next]_vars =>
          LogInv' /\ Bounded' /\ [Durable!Next]_(Durable!vars)
  <2> SUFFICES ASSUME LogInv, Bounded, [Next]_vars
               PROVE  LogInv' /\ Bounded' /\ [Durable!Next]_(Durable!vars)
    OBVIOUS
  <2>1. LogInv' /\ Bounded' /\ (Taken \/ Moved)
    BY LogStep, BoundKept
  <2> QED BY <2>1, TakenImplements, MovedImplements
<1> QED BY <1>1, <1>2, PTL DEF Spec, DurableLogRefinement, Durable!Spec
================================================================================

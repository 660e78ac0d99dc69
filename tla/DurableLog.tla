------------------------------ MODULE DurableLog -------------------------------
(***************************************************************************)
(* What the append-log store promises for one key: records are accepted    *)
(* into a tail and become durable from its front, in order, each once.  A  *)
(* whole-log rewrite does not show.  The end of a buffer (its process      *)
(* crashes, or its last owner releases it after a storage failure) may     *)
(* drop what is still in its tail, and nothing else.  Module AppendLog     *)
(* implements this one.                                                    *)
(***************************************************************************)
EXTENDS Naturals, Sequences, Filters

CONSTANT Records

VARIABLES
    log,        \* the records a reader would find
    tail,       \* accepted, not known to be durable
    intact      \* no record was swallowed by a torn line

vars == <<log, tail, intact>>

Init == log = <<>> /\ tail = <<>> /\ intact = TRUE

Accept ==
    /\ \E r \in Records : tail' = Append(tail, r)
    /\ UNCHANGED <<log, intact>>

\* The first n records of the tail leave it; those in `kept` are durable.
Move(n, kept) ==
    /\ log' = log \o Without(SubSeq(tail, 1, n), Records \ kept)
    /\ tail' = SubSeq(tail, n + 1, Len(tail))
    /\ UNCHANGED intact

Persist == \E n \in 1 .. Len(tail) : Move(n, Records)

GiveUp == \E n \in 1 .. Len(tail) : \E kept \in SUBSET Records : Move(n, kept)

\* An append behind a torn line swallows a record, and readers throw from then on.
Break ==
    /\ tail # <<>>
    /\ log' = <<>> /\ tail' = <<>> /\ intact' = FALSE

Next == intact /\ (Accept \/ Persist \/ GiveUp \/ Break)

Spec == Init /\ [][Next]_vars
================================================================================

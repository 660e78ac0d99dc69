-------------------------------- MODULE Filters --------------------------------
(***************************************************************************)
(* What splice, filter and concat make of arrays, as the prompt queue and  *)
(* the append-log store use them.  The definitions say what SelectSeq and  *)
(* FlattenSeq of the libraries say, as recursive functions, which can be   *)
(* reasoned about.                                                         *)
(***************************************************************************)
EXTENDS Naturals, Sequences

Elements(s) == {s[i] : i \in DOMAIN s}

\* No entry stands twice in s.
Distinct(s) == \A i, j \in DOMAIN s : s[i] = s[j] => i = j

\* The entries of s that are not in gone, in their order.
Without(s, gone) ==
    LET kept[n \in 0 .. Len(s)] ==
            IF n = 0 THEN <<>>
            ELSE IF s[n] \in gone THEN kept[n - 1] ELSE Append(kept[n - 1], s[n])
    IN  kept[Len(s)]

\* The sequences of ss, one after the other.
Joined(ss) ==
    LET upTo[n \in 0 .. Len(ss)] == IF n = 0 THEN <<>> ELSE upTo[n - 1] \o ss[n]
    IN  upTo[Len(ss)]
================================================================================

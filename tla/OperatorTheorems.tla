--------------------------- MODULE OperatorTheorems ----------------------------
(***************************************************************************)
(* What the operators that the models are built from do: the turn clock    *)
(* (TurnOps), for every clock with finitely many cancelled ids, and what   *)
(* splice, filter and concat leave (Filters), for every sequence.  A       *)
(* sequence of numbers that rises is determined by the set of its entries: *)
(* so are the logs of record numbers that AppendLog is about.              *)
(***************************************************************************)
EXTENDS TurnOps, Filters, FiniteSetTheorems, SequenceTheorems, WellFoundedInduction, TLAPS

\* A non-empty set of numbers has a least element.  (The turns of a queue
\* start in the order of their ids; the clock moves to the first free id.)
LEMMA LeastExists ==
  ASSUME NEW S \in SUBSET Nat, S # {}
  PROVE  \E m \in S : \A k \in S : m <= k
<1> DEFINE R == {ss \in Nat \X Nat : ss[1] < ss[2]}
<1>1. IsWellFoundedOn(R, Nat)
  BY NatLessThanWellFounded DEF OpToRel
<1>2. PICK m \in S : \A k \in S : ~(<<k, m>> \in R)
  BY <1>1, WFMin
<1>3. \A k \in S : m <= k
  <2> TAKE k \in S
  <2>1. k \in Nat /\ m \in Nat
    OBVIOUS
  <2>2. ~(k < m)
    BY <1>2, <2>1
  <2> QED BY <2>1, <2>2
<1> QED BY <1>3

\* The search of advanceTurnClock succeeds: among the ids from n on, one more
\* than there are cancelled ones contains a free one, and the first such is
\* what FirstUncancelled is.
LEMMA FirstUncancelledFacts ==
  ASSUME NEW n \in Nat, NEW C \in SUBSET Nat, IsFiniteSet(C)
  PROVE  LET k == FirstUncancelled(n, C)
         IN  /\ k \in Nat
             /\ n <= k
             /\ k \notin C
             /\ \A j \in n .. (k - 1) : j \in C
<1> DEFINE c == Cardinality(C)
           Free == {j \in n .. (n + c) : j \notin C}
<1>1. c \in Nat
  BY FS_CardinalityType
<1> HIDE DEF c
<1>2. Free # {}
  <2> SUFFICES ASSUME n .. (n + c) \subseteq C PROVE FALSE
    OBVIOUS
  <2>1. Cardinality(n .. (n + c)) <= Cardinality(C)
    BY FS_Subset
  <2>2. Cardinality(n .. (n + c)) = c + 1
    BY <1>1, FS_Interval
  <2> QED BY <1>1, <2>1, <2>2 DEF c
<1>3. PICK m \in Free : \A j \in Free : m <= j
  <2>1. Free \in SUBSET Nat
    BY <1>1
  <2> HIDE DEF Free
  <2> QED BY <1>2, <2>1, LeastExists
<1>4. n .. (m - 1) \subseteq C
  <2> SUFFICES ASSUME NEW j \in n .. (m - 1), j \notin C PROVE FALSE
    OBVIOUS
  <2>1. m \in Int /\ n <= m /\ m <= n + c
    BY <1>1
  <2>2. j \in Free /\ j < m
    BY <1>1, <2>1
  <2> QED BY <1>3, <2>1, <2>2
<1> DEFINE First(k) == k \notin C /\ n .. (k - 1) \subseteq C
<1>5. \E k \in n .. (n + c) : First(k)
  BY <1>4
<1>6. FirstUncancelled(n, C) = CHOOSE k \in n .. (n + c) : First(k)
  BY DEF FirstUncancelled, c
<1>7. FirstUncancelled(n, C) \in n .. (n + c) /\ First(FirstUncancelled(n, C))
  <2> HIDE DEF First
  <2> QED BY <1>5, <1>6
<1> QED BY <1>1, <1>7

\* A clock as the operators leave it and take it.
FiniteClock(c) == c \in Clock /\ IsFiniteSet(c.cancelled)

\* advanceTurnClock moves from n over cancelled ids only, to an id that is not
\* cancelled, and keeps the cancelled ids above it.
LEMMA AdvanceTurnClockFacts ==
  ASSUME NEW n \in Nat, NEW C \in SUBSET Nat, IsFiniteSet(C)
  PROVE  LET c == AdvanceTurnClock(n, C)
         IN  /\ FiniteClock(c)
             /\ n <= c.next
             /\ c.next \notin C
             /\ \A j \in n .. (c.next - 1) : j \in C
             /\ c.cancelled = {k \in C : k > c.next}
<1> DEFINE next == FirstUncancelled(n, C)
           above == {k \in C : k > next}
<1>1. /\ next \in Nat
      /\ n <= next
      /\ next \notin C
      /\ \A j \in n .. (next - 1) : j \in C
  BY FirstUncancelledFacts
<1>2. above \in SUBSET Nat /\ IsFiniteSet(above)
  BY FS_Subset
<1>3. AdvanceTurnClock(n, C) = [next |-> next, cancelled |-> above]
  BY DEF AdvanceTurnClock
<1> HIDE DEF next, above
<1>4. /\ FiniteClock(AdvanceTurnClock(n, C))
      /\ AdvanceTurnClock(n, C).next = next
      /\ AdvanceTurnClock(n, C).cancelled = above
  BY <1>1, <1>2, <1>3 DEF FiniteClock, Clock
<1> QED BY <1>1, <1>4 DEF above

\* turn.prompt uses up the clock's id, and skips cancelled ones only.
LEMMA PromptTurnFacts ==
  ASSUME NEW clock, FiniteClock(clock)
  PROVE  LET c == PromptTurn(clock)
         IN  /\ FiniteClock(c)
             /\ clock.next < c.next
             /\ c.next \notin clock.cancelled
             /\ \A j \in (clock.next + 1) .. (c.next - 1) : j \in clock.cancelled
             /\ c.cancelled = {k \in clock.cancelled : k > c.next}
<1>1. clock.next + 1 \in Nat /\ clock.cancelled \in SUBSET Nat /\ clock.next \in Nat
  BY DEF FiniteClock, Clock
<1>2. IsFiniteSet(clock.cancelled)
  BY DEF FiniteClock
<1> DEFINE c == AdvanceTurnClock(clock.next + 1, clock.cancelled)
<1>3. /\ FiniteClock(c)
      /\ clock.next + 1 <= c.next
      /\ c.next \notin clock.cancelled
      /\ \A j \in (clock.next + 1) .. (c.next - 1) : j \in clock.cancelled
      /\ c.cancelled = {k \in clock.cancelled : k > c.next}
  BY <1>1, <1>2, AdvanceTurnClockFacts
<1>4. c.next \in Nat
  BY <1>3 DEF FiniteClock, Clock
<1>5. PromptTurn(clock) = c
  BY DEF PromptTurn
<1> HIDE DEF c
<1> QED BY <1>1, <1>3, <1>4, <1>5

\* turn.cancel with the ids of several queued turns.  No id above the clock
\* is lost: it stays cancelled, or the clock has passed it.
LEMMA CancelTurnsFacts ==
  ASSUME NEW clock, FiniteClock(clock), NEW ids \in SUBSET Nat, IsFiniteSet(ids)
  PROVE  LET c == CancelTurns(clock, ids)
             gone == clock.cancelled \cup {k \in ids : k >= clock.next}
         IN  /\ FiniteClock(c)
             /\ clock.next <= c.next
             /\ c.next \notin gone
             /\ \A j \in clock.next .. (c.next - 1) : j \in gone
             /\ c.cancelled = {k \in gone : k > c.next}
<1> DEFINE gone == clock.cancelled \cup {k \in ids : k >= clock.next}
<1>1. clock.next \in Nat /\ gone \in SUBSET Nat
  BY DEF FiniteClock, Clock
<1>2. IsFiniteSet(gone)
  <2>1. IsFiniteSet({k \in ids : k >= clock.next})
    BY FS_Subset
  <2> QED BY <2>1, FS_Union DEF FiniteClock
<1>3. CancelTurns(clock, ids) = AdvanceTurnClock(clock.next, gone)
  BY DEF CancelTurns
<1> HIDE DEF gone
<1>4. LET c == AdvanceTurnClock(clock.next, gone)
      IN  /\ FiniteClock(c)
          /\ clock.next <= c.next
          /\ c.next \notin gone
          /\ \A j \in clock.next .. (c.next - 1) : j \in gone
          /\ c.cancelled = {k \in gone : k > c.next}
  BY <1>1, <1>2, AdvanceTurnClockFacts
<1> QED BY <1>3, <1>4 DEF gone

\* turn.cancel with one id: nothing for an id the clock has passed.
LEMMA CancelTurnFacts ==
  ASSUME NEW clock, FiniteClock(clock), NEW id \in Nat
  PROVE  LET c == CancelTurn(clock, id)
         IN  /\ FiniteClock(c)
             /\ id < clock.next => c = clock
             /\ clock.next <= id =>
                   /\ clock.next <= c.next
                   /\ c.next \notin clock.cancelled \cup {id}
                   /\ \A j \in clock.next .. (c.next - 1) : j \in clock.cancelled \cup {id}
                   /\ c.cancelled = {k \in clock.cancelled \cup {id} : k > c.next}
<1>1. clock.next \in Nat /\ clock.cancelled \in SUBSET Nat /\ IsFiniteSet(clock.cancelled)
  BY DEF FiniteClock, Clock
<1>2. CASE id < clock.next
  BY <1>1, <1>2 DEF CancelTurn
<1>3. CASE clock.next <= id
  <2> DEFINE gone == clock.cancelled \cup {id}
  <2>1. gone \in SUBSET Nat /\ IsFiniteSet(gone)
    BY <1>1, FS_AddElement
  <2>2. CancelTurn(clock, id) = AdvanceTurnClock(clock.next, gone)
    BY <1>1, <1>3 DEF CancelTurn
  <2> HIDE DEF gone
  <2>3. LET c == AdvanceTurnClock(clock.next, gone)
        IN  /\ FiniteClock(c)
            /\ clock.next <= c.next
            /\ c.next \notin gone
            /\ \A j \in clock.next .. (c.next - 1) : j \in gone
            /\ c.cancelled = {k \in gone : k > c.next}
    BY <1>1, <2>1, AdvanceTurnClockFacts
  <2>4. ~(id < clock.next)
    BY <1>1, <1>3
  <2> QED BY <2>2, <2>3, <2>4 DEF gone
<1> QED BY <1>1, <1>2, <1>3
--------------------------------------------------------------------------------
(***************************************************************************)
(* Filters.  Without is a recursive function: that there is one, and what it*)
(* holds at each place, is shown by the least place where it would fail.   *)
(***************************************************************************)

\* f filters s, place by place.
IsFilter(f, s, gone) ==
    f = [n \in 0 .. Len(s) |->
            IF n = 0 THEN <<>>
            ELSE IF s[n] \in gone THEN f[n - 1] ELSE Append(f[n - 1], s[n])]

\* The filter of a prefix can be extended by one place: so there is one of the
\* whole sequence.
LEMMA FilterExists ==
  ASSUME NEW S, NEW s \in Seq(S), NEW gone
  PROVE  \E f : IsFilter(f, s, gone)
<1> DEFINE Step(f, n) == IF n = 0 THEN <<>>
                         ELSE IF s[n] \in gone THEN f[n - 1] ELSE Append(f[n - 1], s[n])
           Good(m) == \E f : f = [n \in 0 .. m |-> Step(f, n)]
           Bad == {m \in 0 .. Len(s) : ~Good(m)}
<1>1. SUFFICES ASSUME Bad # {} PROVE FALSE
  <2>1. Len(s) \in 0 .. Len(s)
    OBVIOUS
  <2>2. Bad = {} => Good(Len(s))
    BY <2>1
  <2> QED BY <2>2 DEF IsFilter
<1>2. PICK m \in Bad : \A k \in Bad : m <= k
  <2>1. Bad \in SUBSET Nat
    OBVIOUS
  <2> HIDE DEF Bad
  <2> QED BY <1>1, <2>1, LeastExists
<1>3. m \in 0 .. Len(s) /\ ~Good(m)
  OBVIOUS
<1>4. CASE m = 0
  <2> DEFINE g == [n \in 0 .. 0 |-> <<>>]
  <2>1. g = [n \in 0 .. 0 |-> Step(g, n)]
    OBVIOUS
  <2>2. Good(0)
    BY <2>1
  <2> QED BY <1>3, <1>4, <2>2
<1>5. CASE m # 0
  <2>1. m - 1 \in 0 .. Len(s) /\ m \in Nat /\ ~(m <= m - 1)
    BY <1>3, <1>5
  <2>2. Good(m - 1)
    BY <1>2, <2>1
  <2>3. PICK f : f = [n \in 0 .. (m - 1) |-> Step(f, n)]
    BY <2>2
  <2> DEFINE g == [n \in 0 .. m |-> IF n = m THEN Step(f, m) ELSE f[n]]
  <2>4. ASSUME NEW n \in 0 .. m PROVE g[n] = Step(g, n)
    <3>1. CASE n = m
      <4>1. m - 1 \in 0 .. m /\ m - 1 # m /\ g[m - 1] = f[m - 1]
        BY <2>1
      <4> QED BY <3>1, <4>1, <1>5
    <3>2. CASE n # m
      <4>1. n \in 0 .. (m - 1) /\ g[n] = f[n]
        BY <3>2, <2>1
      <4>2. f[n] = Step(f, n)
        BY <4>1, <2>3
      <4>3. n # 0 => n - 1 \in 0 .. m /\ n - 1 # m /\ g[n - 1] = f[n - 1]
        BY <4>1, <2>1
      <4> QED BY <4>1, <4>2, <4>3
    <3> QED BY <3>1, <3>2
  <2>5. g = [n \in 0 .. m |-> Step(g, n)]
    BY <2>4
  <2>6. Good(m)
    BY <2>5
  <2> QED BY <1>3, <2>6
<1> QED BY <1>4, <1>5

\* What a place of the filter holds: entries of s up to that place that are not
\* gone, all of them, in their order.
FilterPart(w, s, gone, n) ==
    /\ \A i \in DOMAIN w : w[i] \notin gone
    /\ \A k \in 1 .. n : s[k] \in gone \/ \E i \in DOMAIN w : w[i] = s[k]
    /\ \E at \in [DOMAIN w -> 1 .. n] :
           /\ \A i \in DOMAIN w : w[i] = s[at[i]]
           /\ \A i, j \in DOMAIN w : i < j => at[i] < at[j]

\* One more entry is looked at.
LEMMA FilterStep ==
  ASSUME NEW S, NEW s \in Seq(S), NEW gone, NEW n \in 1 .. Len(s), NEW w \in Seq(S),
         FilterPart(w, s, gone, n - 1)
  PROVE  IF s[n] \in gone THEN FilterPart(w, s, gone, n)
         ELSE Append(w, s[n]) \in Seq(S) /\ FilterPart(Append(w, s[n]), s, gone, n)
<1>1. PICK at \in [DOMAIN w -> 1 .. (n - 1)] :
           /\ \A i \in DOMAIN w : w[i] = s[at[i]]
           /\ \A i, j \in DOMAIN w : i < j => at[i] < at[j]
  BY DEF FilterPart
<1>2. /\ \A i \in DOMAIN w : w[i] \notin gone
      /\ \A k \in 1 .. (n - 1) : s[k] \in gone \/ \E i \in DOMAIN w : w[i] = s[k]
  BY DEF FilterPart
<1>3. n \in Nat /\ n >= 1 /\ \A k \in 1 .. n : k = n \/ k \in 1 .. (n - 1)
  OBVIOUS
<1>4. CASE s[n] \in gone
  <2>1. at \in [DOMAIN w -> 1 .. n]
    BY <1>3
  <2>2. \A k \in 1 .. n : s[k] \in gone \/ \E i \in DOMAIN w : w[i] = s[k]
    BY <1>2, <1>3, <1>4
  <2> QED BY <1>1, <1>2, <1>4, <2>1, <2>2 DEF FilterPart
<1>5. CASE s[n] \notin gone
  <2> DEFINE v == Append(w, s[n])
             bt == [i \in DOMAIN v |-> IF i = Len(v) THEN n ELSE at[i]]
  <2>1. /\ s[n] \in S /\ v \in Seq(S) /\ Len(v) = Len(w) + 1 /\ DOMAIN v = 1 .. Len(v)
        /\ DOMAIN w = 1 .. Len(w) /\ Len(w) \in Nat
        /\ v[Len(v)] = s[n]
        /\ \A i \in DOMAIN w : i \in DOMAIN v /\ i # Len(v) /\ v[i] = w[i]
        /\ \A i \in DOMAIN v : i = Len(v) \/ i \in DOMAIN w
    OBVIOUS
  <2> HIDE DEF v
  <2>2. \A i \in DOMAIN v : v[i] \notin gone
    BY <1>2, <1>5, <2>1
  <2>3. \A k \in 1 .. n : s[k] \in gone \/ \E i \in DOMAIN v : v[i] = s[k]
    <3> TAKE k \in 1 .. n
    <3>1. CASE k = n
      <4>1. Len(v) \in DOMAIN v
        BY <2>1
      <4> QED BY <3>1, <4>1, <2>1
    <3>2. CASE k # n
      BY <3>2, <1>2, <1>3, <2>1
    <3> QED BY <3>1, <3>2
  <2>4. bt \in [DOMAIN v -> 1 .. n]
    BY <1>3, <2>1
  <2>5. \A i \in DOMAIN v : v[i] = s[bt[i]]
    BY <1>1, <2>1
  <2>6. \A i, j \in DOMAIN v : i < j => bt[i] < bt[j]
    <3> TAKE i, j \in DOMAIN v
    <3> HAVE i < j
    <3>1. i \in DOMAIN w /\ bt[i] = at[i] /\ at[i] \in 1 .. (n - 1)
      BY <1>1, <2>1
    <3>2. CASE j = Len(v)
      <4>1. bt[j] = n
        BY <3>2
      <4> QED BY <3>1, <4>1, <1>3
    <3>3. CASE j # Len(v)
      <4>1. j \in DOMAIN w /\ bt[j] = at[j]
        BY <3>3, <2>1
      <4> QED BY <3>1, <4>1, <1>1
    <3> QED BY <3>2, <3>3
  <2>7. FilterPart(v, s, gone, n)
    <3> HIDE DEF bt
    <3> QED BY <2>2, <2>3, <2>4, <2>5, <2>6 DEF FilterPart
  <2> QED BY <1>5, <2>1, <2>7 DEF v
<1> QED BY <1>4, <1>5

\* Without keeps the entries it is to keep, in their order.
LEMMA FilterFacts ==
  ASSUME NEW S, NEW s \in Seq(S), NEW gone
  PROVE  /\ Without(s, gone) \in Seq(S)
         /\ FilterPart(Without(s, gone), s, gone, Len(s))
<1> DEFINE f == CHOOSE g : IsFilter(g, s, gone)
<1>1. IsFilter(f, s, gone)
  BY FilterExists
<1>2. Without(s, gone) = f[Len(s)]
  BY DEF Without, IsFilter
<1> HIDE DEF f
<1>3. /\ f[0] = <<>>
      /\ \A n \in 1 .. Len(s) : f[n] = IF s[n] \in gone THEN f[n - 1] ELSE Append(f[n - 1], s[n])
  <2>1. ASSUME NEW n \in 0 .. Len(s)
        PROVE  f[n] = IF n = 0 THEN <<>>
                      ELSE IF s[n] \in gone THEN f[n - 1] ELSE Append(f[n - 1], s[n])
    BY <1>1 DEF IsFilter
  <2>2. 0 \in 0 .. Len(s) /\ \A n \in 1 .. Len(s) : n \in 0 .. Len(s) /\ n # 0
    OBVIOUS
  <2>3. f[0] = <<>>
    BY <2>1, <2>2
  <2>4. ASSUME NEW n \in 1 .. Len(s)
        PROVE  f[n] = IF s[n] \in gone THEN f[n - 1] ELSE Append(f[n - 1], s[n])
    <3>1. n \in 0 .. Len(s) /\ n # 0
      BY <2>2
    <3> QED BY <2>1, <3>1
  <2> QED BY <2>3, <2>4
<1> DEFINE Good(n) == f[n] \in Seq(S) /\ FilterPart(f[n], s, gone, n)
           Bad == {n \in 0 .. Len(s) : ~Good(n)}
<1>4. SUFFICES ASSUME Bad # {} PROVE FALSE
  <2>1. Len(s) \in 0 .. Len(s)
    OBVIOUS
  <2>2. Bad = {} => Good(Len(s))
    BY <2>1
  <2> QED BY <1>2, <2>2
<1>5. PICK m \in Bad : \A k \in Bad : m <= k
  <2>1. Bad \in SUBSET Nat
    OBVIOUS
  <2> HIDE DEF Bad
  <2> QED BY <1>4, <2>1, LeastExists
<1>6. m \in 0 .. Len(s) /\ ~Good(m)
  OBVIOUS
<1>7. CASE m = 0
  <2>1. <<>> \in Seq(S) /\ DOMAIN <<>> = {} /\ 1 .. 0 = {}
    OBVIOUS
  <2>2. [DOMAIN <<>> -> 1 .. 0] # {}
    <3>1. [i \in DOMAIN <<>> |-> 0] \in [DOMAIN <<>> -> 1 .. 0]
      BY <2>1
    <3> QED BY <3>1
  <2>3. FilterPart(<<>>, s, gone, 0)
    BY <2>1, <2>2 DEF FilterPart
  <2> QED BY <1>3, <1>6, <1>7, <2>1, <2>3
<1>8. CASE m # 0
  <2>1. m \in 1 .. Len(s) /\ m - 1 \in 0 .. Len(s) /\ ~(m <= m - 1)
    BY <1>6, <1>8
  <2>2. Good(m - 1)
    BY <1>5, <2>1
  <2>3. Good(m)
    <3>1. f[m] = IF s[m] \in gone THEN f[m - 1] ELSE Append(f[m - 1], s[m])
      BY <1>3, <2>1
    <3> HIDE DEF Bad
    <3> QED BY <3>1, <2>1, <2>2, FilterStep
  <2> QED BY <1>6, <2>3
<1> QED BY <1>7, <1>8

\* Without takes out what is gone and nothing else.
LEMMA WithoutElements ==
  ASSUME NEW S, NEW s \in Seq(S), NEW gone
  PROVE  /\ Without(s, gone) \in Seq(S)
         /\ Elements(Without(s, gone)) = Elements(s) \ gone
<1> DEFINE w == Without(s, gone)
<1>1. w \in Seq(S) /\ FilterPart(w, s, gone, Len(s))
  BY FilterFacts
<1> HIDE DEF w
<1>2. PICK at \in [DOMAIN w -> 1 .. Len(s)] : \A i \in DOMAIN w : w[i] = s[at[i]]
  BY <1>1 DEF FilterPart
<1>3. Elements(w) \subseteq Elements(s) \ gone
  <2>1. ASSUME NEW i \in DOMAIN w PROVE w[i] \in Elements(s) \ gone
    <3>1. at[i] \in DOMAIN s /\ w[i] = s[at[i]] /\ w[i] \notin gone
      BY <1>1, <1>2 DEF FilterPart
    <3> QED BY <3>1 DEF Elements
  <2> QED BY <2>1 DEF Elements
<1>4. Elements(s) \ gone \subseteq Elements(w)
  BY <1>1 DEF FilterPart, Elements
<1> QED BY <1>1, <1>3, <1>4 DEF w

\* What is left stands in the order in which it stood.
LEMMA WithoutOrder ==
  ASSUME NEW S, NEW s \in Seq(S), NEW gone,
         NEW i \in DOMAIN Without(s, gone), NEW j \in DOMAIN Without(s, gone), i < j
  PROVE  \E k, l \in DOMAIN s : /\ k < l
                                /\ Without(s, gone)[i] = s[k]
                                /\ Without(s, gone)[j] = s[l]
<1> DEFINE w == Without(s, gone)
<1>1. w \in Seq(S) /\ FilterPart(w, s, gone, Len(s))
  BY FilterFacts
<1>2. i \in DOMAIN w /\ j \in DOMAIN w
  OBVIOUS
<1> HIDE DEF w
<1>3. PICK at \in [DOMAIN w -> 1 .. Len(s)] :
           /\ \A x \in DOMAIN w : w[x] = s[at[x]]
           /\ \A x, y \in DOMAIN w : x < y => at[x] < at[y]
  BY <1>1 DEF FilterPart
<1>4. at[i] \in DOMAIN s /\ at[j] \in DOMAIN s /\ at[i] < at[j] /\ w[i] = s[at[i]] /\ w[j] = s[at[j]]
  BY <1>2, <1>3
<1> QED BY <1>4 DEF w

\* What was there once is there at most once.
LEMMA WithoutDistinct ==
  ASSUME NEW S, NEW s \in Seq(S), NEW gone, Distinct(s)
  PROVE  Distinct(Without(s, gone))
<1>1. Without(s, gone) \in Seq(S)
  BY FilterFacts
<1>2. ASSUME NEW i \in DOMAIN Without(s, gone), NEW j \in DOMAIN Without(s, gone), i < j,
             Without(s, gone)[i] = Without(s, gone)[j]
      PROVE  FALSE
  <2>1. PICK k, l \in DOMAIN s : /\ k < l
                                /\ Without(s, gone)[i] = s[k]
                                /\ Without(s, gone)[j] = s[l]
    BY <1>2, WithoutOrder
  <2>2. k = l
    BY <1>2, <2>1 DEF Distinct
  <2> QED BY <2>1, <2>2
<1>3. \A i, j \in DOMAIN Without(s, gone) : i = j \/ i < j \/ j < i
  BY <1>1
<1> QED BY <1>2, <1>3 DEF Distinct

\* Every number of A is smaller than every number of B.
Below(A, B) == \A x \in A, y \in B : x < y

\* The numbers of s grow.
Rising(s) == \A i, j \in DOMAIN s : i < j => s[i] < s[j]

\* Rising sequences with the same numbers agree as far as both go.
LEMMA RisingAgree ==
  ASSUME NEW s \in Seq(Nat), NEW t \in Seq(Nat), Rising(s), Rising(t), Elements(s) = Elements(t),
         NEW i \in DOMAIN s
  PROVE  i \in DOMAIN t /\ s[i] = t[i]
<1>1. /\ Len(s) \in Nat /\ Len(t) \in Nat /\ DOMAIN s = 1 .. Len(s) /\ DOMAIN t = 1 .. Len(t)
      /\ \A k \in DOMAIN s : s[k] \in Nat
      /\ \A k \in DOMAIN t : t[k] \in Nat
  OBVIOUS
<1> DEFINE Same(k) == k \in DOMAIN t /\ s[k] = t[k]
           Odd == {k \in DOMAIN s : ~Same(k)}
<1>2. ASSUME Odd # {} PROVE FALSE
  <2>1. PICK m \in Odd : \A k \in Odd : m <= k
    <3>1. Odd \in SUBSET Nat
      BY <1>1
    <3> HIDE DEF Odd
    <3> QED BY <1>2, <3>1, LeastExists
  <2>2. m \in DOMAIN s /\ m \in Nat /\ ~Same(m)
    BY <1>1
  <2>3. ASSUME NEW k \in DOMAIN s, k < m PROVE Same(k)
    BY <1>1, <2>1, <2>2, <2>3
  <2>4. PICK j \in DOMAIN t : t[j] = s[m]
    BY <2>2 DEF Elements
  <2> HIDE DEF Odd
  <2>5. ~(j < m)
    <3> SUFFICES ASSUME j < m PROVE FALSE
      OBVIOUS
    <3>1. j \in DOMAIN s
      BY <1>1, <2>2, <2>4
    <3>2. s[j] = t[j] /\ s[j] < s[m] /\ s[m] \in Nat
      BY <1>1, <2>2, <2>3, <3>1 DEF Rising
    <3> QED BY <2>4, <3>2
  <2>6. m < j /\ m \in DOMAIN t
    BY <1>1, <2>2, <2>4, <2>5
  <2>7. t[m] < s[m] /\ t[m] \in Nat /\ s[m] \in Nat
    BY <1>1, <2>2, <2>4, <2>6 DEF Rising
  <2>8. PICK k \in DOMAIN s : s[k] = t[m]
    BY <2>6 DEF Elements
  <2>9. CASE k < m
    <3>1. k \in DOMAIN t /\ t[k] = t[m]
      BY <2>3, <2>8, <2>9
    <3>2. t[k] < t[m]
      BY <2>6, <2>9, <3>1 DEF Rising
    <3> QED BY <2>7, <3>1, <3>2
  <2>10. CASE ~(k < m)
    <3>1. k # m /\ m < k
      BY <1>1, <2>2, <2>7, <2>8, <2>10
    <3>2. s[m] < s[k]
      BY <2>2, <3>1 DEF Rising
    <3> QED BY <2>7, <2>8, <3>2
  <2> QED BY <2>9, <2>10
<1> QED BY <1>2

\* There is one way to arrange numbers in a rising sequence.
LEMMA RisingUnique ==
  ASSUME NEW s \in Seq(Nat), NEW t \in Seq(Nat), Rising(s), Rising(t), Elements(s) = Elements(t)
  PROVE  s = t
<1>1. /\ \A i \in DOMAIN s : i \in DOMAIN t /\ s[i] = t[i]
      /\ \A i \in DOMAIN t : i \in DOMAIN s
  BY RisingAgree
<1>2. /\ Len(s) \in Nat /\ Len(t) \in Nat /\ DOMAIN s = 1 .. Len(s) /\ DOMAIN t = 1 .. Len(t)
  OBVIOUS
<1>3. Len(s) = Len(t)
  <2>1. Len(s) <= Len(t)
    BY <1>1, <1>2
  <2>2. Len(t) <= Len(s)
    BY <1>1, <1>2
  <2>3. Len(s) \in Int /\ Len(t) \in Int
    BY <1>2
  <2> QED BY <2>1, <2>2, <2>3
<1> QED BY <1>1, <1>2, <1>3, SeqEqual

\* Larger numbers may follow a rising sequence.
LEMMA RisingConcat ==
  ASSUME NEW s \in Seq(Nat), NEW t \in Seq(Nat), Rising(s), Rising(t), Below(Elements(s), Elements(t))
  PROVE  s \o t \in Seq(Nat) /\ Rising(s \o t) /\ Elements(s \o t) = Elements(s) \cup Elements(t)
<1> DEFINE u == s \o t
<1>1. /\ u \in Seq(Nat) /\ Len(u) = Len(s) + Len(t)
      /\ \A i \in 1 .. Len(s) + Len(t) : u[i] = IF i <= Len(s) THEN s[i] ELSE t[i - Len(s)]
  BY ConcatProperties
<1>2. /\ Len(s) \in Nat /\ Len(t) \in Nat /\ DOMAIN u = 1 .. Len(u)
      /\ DOMAIN s = 1 .. Len(s) /\ DOMAIN t = 1 .. Len(t)
  BY <1>1
<1> HIDE DEF u
<1>3. \A i \in DOMAIN u : \/ i \in DOMAIN s /\ u[i] = s[i]
                          \/ i > Len(s) /\ i - Len(s) \in DOMAIN t /\ u[i] = t[i - Len(s)]
  BY <1>1, <1>2
<1>4. /\ \A i \in DOMAIN s : i \in DOMAIN u /\ u[i] = s[i]
      /\ \A i \in DOMAIN t : i + Len(s) \in DOMAIN u /\ u[i + Len(s)] = t[i]
  <2>1. ASSUME NEW i \in DOMAIN s PROVE i \in DOMAIN u /\ u[i] = s[i]
    <3>1. i \in 1 .. Len(s) + Len(t) /\ i <= Len(s)
      BY <1>2
    <3> QED BY <1>1, <1>2, <3>1
  <2>2. ASSUME NEW i \in DOMAIN t PROVE i + Len(s) \in DOMAIN u /\ u[i + Len(s)] = t[i]
    <3>1. i \in 1 .. Len(t)
      BY <1>2
    <3>2. /\ i + Len(s) \in 1 .. Len(s) + Len(t)
          /\ ~(i + Len(s) <= Len(s)) /\ (i + Len(s)) - Len(s) = i
      BY <1>2, <3>1
    <3> QED BY <1>1, <1>2, <3>2
  <2> QED BY <2>1, <2>2
<1>5. Elements(u) = Elements(s) \cup Elements(t)
  BY <1>3, <1>4 DEF Elements
<1>6. Rising(u)
  <2> SUFFICES ASSUME NEW i \in DOMAIN u, NEW j \in DOMAIN u, i < j PROVE u[i] < u[j]
    BY DEF Rising
  <2>1. i \in Nat /\ j \in Nat
    BY <1>2
  <2>2. CASE j \in DOMAIN s /\ u[j] = s[j]
    <3>1. i \in DOMAIN s /\ u[i] = s[i]
      BY <1>2, <1>4, <2>1, <2>2
    <3> QED BY <2>2, <3>1 DEF Rising
  <2>3. CASE j > Len(s) /\ j - Len(s) \in DOMAIN t /\ u[j] = t[j - Len(s)]
    <3>1. CASE i \in DOMAIN s /\ u[i] = s[i]
      BY <2>3, <3>1 DEF Below, Elements
    <3>2. CASE i > Len(s) /\ i - Len(s) \in DOMAIN t /\ u[i] = t[i - Len(s)]
      BY <1>2, <2>1, <2>3, <3>2 DEF Rising
    <3> QED BY <1>3, <3>1, <3>2
  <2> QED BY <1>3, <2>2, <2>3
<1> QED BY <1>1, <1>5, <1>6 DEF u

\* The smallest numbers of a rising sequence stand at its front.
LEMMA RisingSplit ==
  ASSUME NEW s \in Seq(Nat), Rising(s), NEW A \in SUBSET Elements(s), Below(A, Elements(s) \ A)
  PROVE  \E n \in 0 .. Len(s) :
             /\ \A i \in 1 .. Len(s) : s[i] \in A <=> i <= n
             /\ A # {} => n \in 1 .. Len(s)
<1>1. Len(s) \in Nat /\ DOMAIN s = 1 .. Len(s) /\ \A i \in DOMAIN s : s[i] \in Nat
  OBVIOUS
<1> DEFINE Out == {i \in 1 .. Len(s) + 1 : i = Len(s) + 1 \/ s[i] \notin A}
<1>2. PICK m \in Out : \A k \in Out : m <= k
  <2>1. Out \in SUBSET Nat /\ Len(s) + 1 \in Out
    BY <1>1
  <2>2. Out # {}
    BY <2>1
  <2> HIDE DEF Out
  <2> QED BY <2>1, <2>2, LeastExists
<1>3. ASSUME NEW i \in 1 .. Len(s) PROVE s[i] \in A <=> i <= m - 1
  <2>1. m \in 1 .. Len(s) + 1 /\ m \in Nat
    BY <1>1, <1>2
  <2>2. CASE i <= m - 1
    <3>1. i \in 1 .. Len(s) + 1 /\ ~(m <= i) /\ i # Len(s) + 1
      BY <1>1, <2>1, <2>2
    <3> QED BY <1>2, <2>2, <3>1
  <2>3. CASE i = m
    BY <1>1, <1>2, <2>3
  <2>4. CASE i > m
    <3>1. m \in DOMAIN s /\ s[m] \in Elements(s) \ A /\ s[m] < s[i] /\ s[i] \in Nat /\ s[m] \in Nat
      BY <1>1, <1>2, <2>1, <2>4 DEF Rising, Elements
    <3>2. ~(s[i] < s[m])
      BY <3>1
    <3> QED BY <2>1, <2>4, <3>1, <3>2 DEF Below
  <2> QED BY <1>1, <2>1, <2>2, <2>3, <2>4
<1>4. m - 1 \in 0 .. Len(s)
  BY <1>1, <1>2
<1>5. A # {} => m - 1 # 0
  BY <1>1, <1>3 DEF Elements
<1>6. m - 1 \in Nat /\ (A # {} => m - 1 \in 1 .. Len(s))
  BY <1>1, <1>4, <1>5
<1> HIDE DEF Out
<1> QED BY <1>3, <1>4, <1>6

\* A part of a rising sequence rises.
LEMMA RisingPart ==
  ASSUME NEW s \in Seq(Nat), Rising(s), NEW m \in 1 .. Len(s) + 1, NEW n \in 0 .. Len(s)
  PROVE  LET p == SubSeq(s, m, n)
         IN  /\ p \in Seq(Nat) /\ Rising(p)
             /\ Elements(p) = {s[i] : i \in m .. n}
<1> DEFINE p == SubSeq(s, m, n)
<1>1. Len(s) \in Nat /\ DOMAIN s = 1 .. Len(s) /\ \A i \in DOMAIN s : s[i] \in Nat
  OBVIOUS
<1>2. /\ p \in Seq(Nat) /\ Len(p) = IF m <= n THEN n - m + 1 ELSE 0
      /\ \A i \in 1 .. n - m + 1 : p[i] = s[m + i - 1]
  BY <1>1, SubSeqProperties
<1> HIDE DEF p
<1>3. \A i \in DOMAIN p : m + i - 1 \in m .. n /\ m + i - 1 \in DOMAIN s /\ p[i] = s[m + i - 1]
  BY <1>1, <1>2
<1>4. \A k \in m .. n : k - m + 1 \in DOMAIN p /\ p[k - m + 1] = s[k]
  BY <1>1, <1>2
<1>5. Elements(p) = {s[i] : i \in m .. n}
  BY <1>3, <1>4 DEF Elements
<1>6. Rising(p)
  <2> SUFFICES ASSUME NEW i \in DOMAIN p, NEW j \in DOMAIN p, i < j PROVE p[i] < p[j]
    BY DEF Rising
  <2>1. m + i - 1 < m + j - 1
    BY <1>2
  <2> QED BY <1>3, <2>1 DEF Rising
<1> QED BY <1>2, <1>5, <1>6 DEF p

\* So does what is left of one.
LEMMA RisingWithout ==
  ASSUME NEW S, NEW s \in Seq(S), NEW gone, S \ gone \subseteq Nat,
         \A i, j \in DOMAIN s : i < j /\ s[i] \notin gone /\ s[j] \notin gone => s[i] < s[j]
  PROVE  /\ Without(s, gone) \in Seq(Nat) /\ Rising(Without(s, gone))
         /\ Elements(Without(s, gone)) = Elements(s) \ gone
<1> DEFINE w == Without(s, gone)
<1>1. w \in Seq(S) /\ Elements(w) = Elements(s) \ gone
  BY WithoutElements
<1>2. ASSUME NEW i \in DOMAIN w PROVE w[i] \in Nat /\ w[i] \notin gone
  BY <1>1 DEF Elements
<1>3. w \in Seq(Nat)
  BY <1>1, <1>2
<1>4. ASSUME NEW i \in DOMAIN w, NEW j \in DOMAIN w, i < j PROVE w[i] < w[j]
  <2>1. PICK k, l \in DOMAIN s : k < l /\ w[i] = s[k] /\ w[j] = s[l]
    BY <1>4, WithoutOrder
  <2> QED BY <1>2, <2>1
<1> HIDE DEF w
<1>5. Rising(w)
  BY <1>4 DEF Rising
<1> QED BY <1>1, <1>3, <1>5 DEF w

\* f is the function that Joined chooses.
IsJoin(f, ss) == f = [n \in 0 .. Len(ss) |-> IF n = 0 THEN <<>> ELSE f[n - 1] \o ss[n]]

\* The recursive definition of Joined defines a function.
LEMMA JoinExists ==
  ASSUME NEW S, NEW ss \in Seq(S)
  PROVE  \E f : IsJoin(f, ss)
<1> DEFINE Step(f, n) == IF n = 0 THEN <<>> ELSE f[n - 1] \o ss[n]
           Good(m) == \E f : f = [n \in 0 .. m |-> Step(f, n)]
           Bad == {m \in 0 .. Len(ss) : ~Good(m)}
<1>1. SUFFICES ASSUME Bad # {} PROVE FALSE
  <2>1. Len(ss) \in 0 .. Len(ss)
    OBVIOUS
  <2>2. Bad = {} => Good(Len(ss))
    BY <2>1
  <2> QED BY <2>2 DEF IsJoin
<1>2. PICK m \in Bad : \A k \in Bad : m <= k
  <2>1. Bad \in SUBSET Nat
    <3>1. Bad \subseteq 0 .. Len(ss)
      OBVIOUS
    <3> HIDE DEF Bad
    <3> QED BY <3>1
  <2> HIDE DEF Bad
  <2> QED BY <1>1, <2>1, LeastExists
<1>3. m \in 0 .. Len(ss) /\ ~Good(m)
  OBVIOUS
<1>4. CASE m = 0
  <2> DEFINE g == [n \in 0 .. 0 |-> <<>>]
  <2>1. g = [n \in 0 .. 0 |-> Step(g, n)]
    OBVIOUS
  <2>2. Good(0)
    BY <2>1
  <2> QED BY <1>3, <1>4, <2>2
<1>5. CASE m # 0
  <2>1. m - 1 \in 0 .. Len(ss) /\ m \in Nat /\ ~(m <= m - 1)
    BY <1>3, <1>5
  <2>2. Good(m - 1)
    BY <1>2, <2>1
  <2>3. PICK f : f = [n \in 0 .. (m - 1) |-> Step(f, n)]
    BY <2>2
  <2> DEFINE g == [n \in 0 .. m |-> IF n = m THEN Step(f, m) ELSE f[n]]
  <2>4. ASSUME NEW n \in 0 .. m PROVE g[n] = Step(g, n)
    <3>1. CASE n = m
      <4>1. m - 1 \in 0 .. m /\ m - 1 # m /\ g[m - 1] = f[m - 1]
        BY <2>1
      <4> QED BY <3>1, <4>1, <1>5
    <3>2. CASE n # m
      <4>1. n \in 0 .. (m - 1) /\ g[n] = f[n]
        BY <3>2, <2>1
      <4>2. f[n] = Step(f, n)
        BY <4>1, <2>3
      <4>3. n # 0 => n - 1 \in 0 .. m /\ n - 1 # m /\ g[n - 1] = f[n - 1]
        BY <4>1, <2>1
      <4> QED BY <4>1, <4>2, <4>3
    <3> QED BY <3>1, <3>2
  <2>5. g = [n \in 0 .. m |-> Step(g, n)]
    BY <2>4
  <2>6. Good(m)
    BY <2>5
  <2> QED BY <1>3, <2>6
<1> QED BY <1>4, <1>5

\* Rising sequences one above the other join into one that rises.
LEMMA RisingJoined ==
  ASSUME NEW ss \in Seq(Seq(Nat)), \A b \in DOMAIN ss : Rising(ss[b]),
         \A b, c \in DOMAIN ss : b < c => Below(Elements(ss[b]), Elements(ss[c]))
  PROVE  /\ Joined(ss) \in Seq(Nat) /\ Rising(Joined(ss))
         /\ Elements(Joined(ss)) = UNION {Elements(ss[b]) : b \in DOMAIN ss}
<1> DEFINE f == CHOOSE g : IsJoin(g, ss)
           Upto(n) == UNION {Elements(ss[b]) : b \in 1 .. n}
           Good(n) == f[n] \in Seq(Nat) /\ Rising(f[n]) /\ Elements(f[n]) = Upto(n)
           Bad == {n \in 0 .. Len(ss) : ~Good(n)}
<1>1. IsJoin(f, ss)
  BY JoinExists
<1>2. Joined(ss) = f[Len(ss)]
  BY DEF Joined, IsJoin
<1>3. Len(ss) \in Nat /\ DOMAIN ss = 1 .. Len(ss) /\ \A b \in DOMAIN ss : ss[b] \in Seq(Nat)
  OBVIOUS
<1> HIDE DEF f
<1>4. f[0] = <<>> /\ \A n \in 1 .. Len(ss) : f[n] = f[n - 1] \o ss[n]
  <2>1. \A n \in 0 .. Len(ss) : f[n] = IF n = 0 THEN <<>> ELSE f[n - 1] \o ss[n]
    BY <1>1 DEF IsJoin
  <2>2. 0 \in 0 .. Len(ss) /\ \A n \in 1 .. Len(ss) : n \in 0 .. Len(ss) /\ n # 0
    BY <1>3
  <2> QED BY <2>1, <2>2
<1>5. Good(0)
  <2>1. <<>> \in Seq(Nat) /\ Rising(<<>>) /\ Elements(<<>>) = {}
    BY DEF Rising, Elements
  <2>2. Upto(0) = {}
    OBVIOUS
  <2> QED BY <1>4, <2>1, <2>2
<1>6. ASSUME NEW m \in 1 .. Len(ss), Good(m - 1) PROVE Good(m)
  <2>1. m \in DOMAIN ss /\ f[m] = f[m - 1] \o ss[m] /\ ss[m] \in Seq(Nat) /\ Rising(ss[m])
    BY <1>3, <1>4
  <2>2. \A b \in 1 .. (m - 1) : b \in DOMAIN ss /\ b < m
    BY <1>3
  <2>3. Below(Upto(m - 1), Elements(ss[m]))
    BY <2>1, <2>2 DEF Below
  <2>4. f[m] \in Seq(Nat) /\ Rising(f[m]) /\ Elements(f[m]) = Upto(m - 1) \cup Elements(ss[m])
    BY <1>6, <2>1, <2>3, RisingConcat
  <2>5. \A b : b \in 1 .. m <=> b \in 1 .. (m - 1) \/ b = m
    BY <1>3
  <2>6. Upto(m) = Upto(m - 1) \cup Elements(ss[m])
    BY <2>5
  <2> QED BY <2>4, <2>6
<1> HIDE DEF Good
<1>7. Bad = {}
  <2> SUFFICES ASSUME Bad # {} PROVE FALSE
    OBVIOUS
  <2>1. PICK m \in Bad : \A k \in Bad : m <= k
    <3>1. Bad \in SUBSET Nat
      OBVIOUS
    <3> HIDE DEF Bad
    <3> QED BY <3>1, LeastExists
  <2>2. m \in 1 .. Len(ss) /\ m - 1 \in 0 .. Len(ss) /\ ~(m <= m - 1)
    BY <1>3, <1>5, <2>1
  <2>3. Good(m - 1)
    BY <2>1, <2>2
  <2> QED BY <1>6, <2>1, <2>2, <2>3
<1>8. Good(Len(ss))
  BY <1>3, <1>7
<1> QED BY <1>2, <1>3, <1>8 DEF Good
================================================================================

--------------------------- MODULE PromptQueueProofs ---------------------------
(***************************************************************************)
(* The prompt scheduler, for any prompts, turns and compactions: every     *)
(* prompt is in one place until it ends, one prompt is handed over at a    *)
(* time, and those that ride with a prompt end with it.                    *)
(*                                                                         *)
(* InOnePlace is not inductive alone.  A prompt may lose its place only to *)
(* a result, so the invariant also says whom a result may be of (Outcomes) *)
(* and that only the active prompt has company.                            *)
(***************************************************************************)
EXTENDS PromptQueue, OperatorTheorems

\* A prompt that has been accepted and has no completion.
Open(p) == state[p] # "new" /\ completion[p] = None

Queued(p) == p \in Elements(pending)

Launching(p) == launch # None /\ launch.prompt = p

\* InOnePlace, place by place: a prompt that is in one is open and in none of
\* those that follow.
Exclusive(p) ==
    /\ Open(p) => \/ Queued(p) \/ Launching(p) \/ active = p
                  \/ Steering(p) \/ Riding(p) \/ p \in adrift
    /\ Queued(p) => Open(p) /\ ~Launching(p) /\ active # p /\ ~Steering(p) /\ ~Riding(p) /\ p \notin adrift
    /\ Launching(p) => Open(p) /\ active # p /\ ~Steering(p) /\ ~Riding(p) /\ p \notin adrift
    /\ active = p => Open(p) /\ ~Steering(p) /\ ~Riding(p) /\ p \notin adrift
    /\ Steering(p) => Open(p) /\ ~Riding(p) /\ p \notin adrift
    /\ Riding(p) => Open(p) /\ p \notin adrift
    /\ p \in adrift => Open(p)

\* The prompt has its turn, or had it.
Assigned(p) == active = p \/ (Launching(p) /\ launch.at = "assigned")

\* Only the active prompt has company, no two calls of steer share a prompt, a
\* new prompt has not ended, and a result is of a turn that is over, whose prompt
\* is still in its place or has ended.
Company == \A p, q \in Prompts : q \in steered[p] => active = p

SteersApart == \A s, t \in steers : s # t => s.prompts \cap t.prompts = {}

Untouched == \A p \in Prompts : state[p] = "new" => completion[p] = None

Outcomes ==
    \A p \in Prompts :
        outcome[p] # None => p \notin Elements(turns) /\ (completion[p] # None \/ Assigned(p))

PromptInv ==
    /\ TypeOK
    /\ \A p \in Prompts : Exclusive(p)
    /\ OnePromptAtATime
    /\ Company /\ SteersApart /\ Untouched /\ Outcomes

\* The invariant says where each prompt is.
LEMMA PlacesKnown ==
  ASSUME PromptInv
  PROVE  InOnePlace
<1> SUFFICES ASSUME NEW p \in Prompts
             PROVE  IF Open(p) THEN \E place \in Places(p) : Places(p) = {place}
                    ELSE Places(p) = {}
  BY DEF InOnePlace, Open
<1>1. Exclusive(p)
  BY DEF PromptInv
<1>2. \A place : place \in Places(p) <=>
          \/ place = "queue" /\ Queued(p)
          \/ place = "launch" /\ Launching(p)
          \/ place = "active" /\ active = p
          \/ place = "steer" /\ Steering(p)
          \/ place = "company" /\ Riding(p)
          \/ place = "adrift" /\ p \in adrift
  BY DEF Places, Queued, Launching
<1>3. CASE Open(p)
  <2>1. \E place : \A x : x \in Places(p) <=> x = place
    <3>1. CASE Queued(p)
      BY <1>1, <1>2, <3>1 DEF Exclusive
    <3>2. CASE Launching(p)
      <4>1. \A x : x \in Places(p) <=> x = "launch"
        BY <1>1, <1>2, <3>2 DEF Exclusive
      <4> QED BY <4>1
    <3>3. CASE active = p
      <4>1. \A x : x \in Places(p) <=> x = "active"
        BY <1>1, <1>2, <3>3 DEF Exclusive
      <4> QED BY <4>1
    <3>4. CASE Steering(p)
      <4>1. \A x : x \in Places(p) <=> x = "steer"
        BY <1>1, <1>2, <3>4 DEF Exclusive
      <4> QED BY <4>1
    <3>5. CASE Riding(p)
      <4>1. \A x : x \in Places(p) <=> x = "company"
        BY <1>1, <1>2, <3>5 DEF Exclusive
      <4> QED BY <4>1
    <3>6. CASE p \in adrift
      <4>1. \A x : x \in Places(p) <=> x = "adrift"
        BY <1>1, <1>2, <3>6 DEF Exclusive
      <4> QED BY <4>1
    <3> QED BY <1>1, <1>3, <3>1, <3>2, <3>3, <3>4, <3>5, <3>6 DEF Exclusive
  <2> QED BY <1>3, <2>1
<1>4. CASE ~Open(p)
  <2>1. \A x : x \notin Places(p)
    BY <1>1, <1>2, <1>4 DEF Exclusive
  <2> QED BY <1>4, <2>1
<1> QED BY <1>3, <1>4

\* The first of a sequence without repetitions leaves it for good.
LEMMA TailFacts ==
  ASSUME NEW S, NEW q \in Seq(S), q # <<>>
  PROVE  /\ Tail(q) \in Seq(S) /\ Head(q) \in Elements(q)
         /\ Elements(q) \subseteq S
         /\ Elements(q) = Elements(Tail(q)) \cup {Head(q)}
         /\ Distinct(q) => Head(q) \notin Elements(Tail(q)) /\ Distinct(Tail(q))
<1>1. /\ Len(q) \in Nat /\ Len(q) > 0 /\ DOMAIN q = 1 .. Len(q)
      /\ Tail(q) \in Seq(S) /\ DOMAIN Tail(q) = 1 .. (Len(q) - 1)
      /\ Head(q) = q[1] /\ \A i \in 1 .. (Len(q) - 1) : Tail(q)[i] = q[i + 1]
  OBVIOUS
<1>2. \A i \in DOMAIN q : i = 1 \/ (i - 1 \in DOMAIN Tail(q) /\ Tail(q)[i - 1] = q[i])
  BY <1>1
<1>3. \A i \in DOMAIN Tail(q) : i + 1 \in DOMAIN q /\ i + 1 # 1
  BY <1>1
<1>4. Elements(q) \subseteq S /\ Head(q) \in Elements(q)
  BY <1>1 DEF Elements
<1>5. Elements(q) = Elements(Tail(q)) \cup {Head(q)}
  <2>1. \A i \in DOMAIN q : q[i] \in Elements(Tail(q)) \cup {Head(q)}
    BY <1>1, <1>2 DEF Elements
  <2>2. \A i \in DOMAIN Tail(q) : Tail(q)[i] = q[i + 1] /\ i + 1 \in DOMAIN q
    BY <1>1, <1>3
  <2>3. Elements(Tail(q)) \subseteq Elements(q)
    BY <2>2 DEF Elements
  <2> QED BY <1>4, <2>1, <2>3 DEF Elements
<1>6. ASSUME Distinct(q) PROVE Head(q) \notin Elements(Tail(q)) /\ Distinct(Tail(q))
  <2>1. Head(q) \notin Elements(Tail(q))
    BY <1>1, <1>3, <1>6 DEF Elements, Distinct
  <2>2. Distinct(Tail(q))
    BY <1>1, <1>3, <1>6 DEF Distinct
  <2> QED BY <2>1, <2>2
<1> QED BY <1>1, <1>4, <1>5, <1>6

\* An entry at the end.
LEMMA AppendFacts ==
  ASSUME NEW S, NEW q \in Seq(S), NEW e \in S
  PROVE  /\ Append(q, e) \in Seq(S)
         /\ Elements(Append(q, e)) = Elements(q) \cup {e}
         /\ Distinct(q) /\ e \notin Elements(q) => Distinct(Append(q, e))
<1> DEFINE a == Append(q, e)
<1>1. /\ a \in Seq(S) /\ Len(a) = Len(q) + 1 /\ DOMAIN a = 1 .. Len(a) /\ DOMAIN q = 1 .. Len(q)
      /\ Len(q) \in Nat /\ a[Len(a)] = e
      /\ \A i \in DOMAIN q : i \in DOMAIN a /\ a[i] = q[i]
      /\ \A i \in DOMAIN a : i = Len(a) \/ i \in DOMAIN q
  OBVIOUS
<1> HIDE DEF a
<1>2. Len(a) \in DOMAIN a
  BY <1>1
<1>3. Elements(a) = Elements(q) \cup {e}
  BY <1>1, <1>2 DEF Elements
<1>4. ASSUME Distinct(q), e \notin Elements(q) PROVE Distinct(a)
  BY <1>1, <1>4 DEF Distinct, Elements
<1> QED BY <1>1, <1>3, <1>4 DEF a

\* startNext moves the first of the queue, if any, into the launch.
LEMMA StartNextFacts ==
  ASSUME NEW q \in Seq(Prompts), Distinct(q), StartNext(q), runaway \in BOOLEAN
  PROVE  /\ pending' \in Seq(Prompts) /\ Distinct(pending')
         /\ launch' \in Launch \cup {None}
         /\ runaway' \in BOOLEAN
         /\ launch' # None => launch'.at = "hook"
         /\ \A p \in Prompts : p \in Elements(q) <=> Queued(p)' \/ Launching(p)'
         /\ \A p \in Prompts : ~(Queued(p)' /\ Launching(p)')
<1>1. CASE q = <<>>
  BY <1>1 DEF StartNext, Queued, Launching
<1>2. CASE q # <<>>
  <2>1. /\ Tail(q) \in Seq(Prompts) /\ Head(q) \in Elements(q)
        /\ Elements(q) \subseteq Prompts
        /\ Elements(q) = Elements(Tail(q)) \cup {Head(q)}
        /\ Head(q) \notin Elements(Tail(q)) /\ Distinct(Tail(q))
    BY <1>2, TailFacts
  <2>2. CASE compacting /\ turns = <<>>
    BY <1>2, <2>2 DEF StartNext, Queued, Launching
  <2>3. CASE ~(compacting /\ turns = <<>>)
    <3>1. pending' = Tail(q) /\ launch' = [prompt |-> Head(q), at |-> "hook"] /\ runaway' = runaway
      BY <1>2, <2>3 DEF StartNext
    <3>2. launch' \in Launch
      BY <2>1, <3>1 DEF Launch
    <3> QED BY <2>1, <3>1, <3>2, PromptQueueAssumption DEF Queued, Launching
  <2> QED BY <2>2, <2>3
<1> QED BY <1>1, <1>2

\* Initially there is nothing anywhere.
LEMMA InitPromptInv == Init => PromptInv
<1> SUFFICES ASSUME Init PROVE PromptInv
  OBVIOUS
<1>1. Elements(pending) = {} /\ Elements(turns) = {} /\ Distinct(pending)
  BY DEF Init, Elements, Distinct
<1>2. TypeOK
  <2>1. <<>> \in Seq(Prompts) /\ <<>> \in Seq(Prompts \cup {Other})
    OBVIOUS
  <2>2. /\ steered \in [Prompts -> SUBSET Prompts]
        /\ state \in [Prompts -> Results \cup {"new", "pending", "running", "steered", "blocked"}]
        /\ completion \in [Prompts -> Results \cup {"blocked", None}]
        /\ outcome \in [Prompts -> Results \cup {None}]
    BY DEF Init
  <2>3. {compacting, finishing, runaway} \subseteq BOOLEAN
    BY DEF Init
  <2> QED BY <1>1, <2>1, <2>2, <2>3 DEF Init, TypeOK
<1>3. ASSUME NEW p \in Prompts PROVE Exclusive(p)
  BY <1>1, PromptQueueAssumption DEF Init, Exclusive, Open, Queued, Launching, Steering, Riding
<1>4. OnePromptAtATime
  BY <1>1 DEF Init, OnePromptAtATime
<1>5. Company /\ SteersApart /\ Untouched /\ Outcomes
  BY DEF Init, Company, SteersApart, Untouched, Outcomes
<1> QED BY <1>2, <1>3, <1>4, <1>5 DEF PromptInv

\* What startNext may be called with: everything else is as the invariant wants
\* it, and the queue q holds the prompts that are open and nowhere else.
StartKeeps(q) ==
    /\ StartNext(q) /\ q \in Seq(Prompts) /\ Distinct(q)
    /\ active' = None
    /\ steers' \subseteq [prompts : SUBSET Prompts, at : {"asked", "assigned"}]
    /\ steered' \in [Prompts -> SUBSET Prompts]
    /\ state' \in [Prompts -> Results \cup {"new", "pending", "running", "steered", "blocked"}]
    /\ completion' \in [Prompts -> Results \cup {"blocked", None}]
    /\ UNCHANGED <<adrift, turns, outcome, aborted, compacting>> /\ finishing' \in BOOLEAN
    /\ \A p \in Prompts :
           /\ p \notin Elements(turns) /\ ~Riding(p)'
           /\ Open(p)' => p \in Elements(q) \/ Steering(p)' \/ p \in adrift
           /\ p \in Elements(q) => Open(p)' /\ ~Steering(p)' /\ p \notin adrift
           /\ Steering(p)' => Open(p)' /\ p \notin adrift
           /\ p \in adrift => Open(p)'
           /\ outcome[p] # None => completion'[p] # None
    /\ SteersApart' /\ Untouched'

\* Whoever calls startNext so keeps the invariant.
LEMMA StartNextKeeps ==
  ASSUME PromptInv, NEW q, StartKeeps(q)
  PROVE  PromptInv'
<1>1. /\ pending' \in Seq(Prompts) /\ Distinct(pending')
      /\ launch' \in Launch \cup {None}
      /\ runaway' \in BOOLEAN
      /\ launch' # None => launch'.at = "hook"
      /\ \A p \in Prompts : p \in Elements(q) <=> Queued(p)' \/ Launching(p)'
      /\ \A p \in Prompts : ~(Queued(p)' /\ Launching(p)')
  <2>1. runaway \in BOOLEAN /\ q \in Seq(Prompts) /\ Distinct(q) /\ StartNext(q)
    BY DEF PromptInv, TypeOK, StartKeeps
  <2> QED BY <2>1, StartNextFacts
<1>2. TypeOK'
  BY <1>1 DEF PromptInv, TypeOK, StartKeeps
<1>3. ASSUME NEW p \in Prompts PROVE Exclusive(p)'
  <2>1. p \in Elements(q) <=> Queued(p)' \/ Launching(p)'
    BY <1>1
  <2>2. ~(Queued(p)' /\ Launching(p)')
    BY <1>1
  <2>3. active' # p /\ ~Riding(p)' /\ adrift' = adrift
    BY PromptQueueAssumption DEF StartKeeps
  <2>4. /\ Open(p)' => p \in Elements(q) \/ Steering(p)' \/ p \in adrift
        /\ p \in Elements(q) => Open(p)' /\ ~Steering(p)' /\ p \notin adrift
        /\ Steering(p)' => Open(p)' /\ p \notin adrift
        /\ p \in adrift => Open(p)'
    BY DEF StartKeeps
  <2> QED BY <2>1, <2>2, <2>3, <2>4 DEF Exclusive
<1>4. OnePromptAtATime'
  <2>1. \A p \in Prompts : p \notin Elements(turns')
    BY DEF StartKeeps
  <2>2. \A i \in DOMAIN turns' : turns'[i] \notin Prompts
    BY <2>1 DEF Elements
  <2> QED BY <2>1, <2>2 DEF OnePromptAtATime, StartKeeps
<1>5. Company'
  BY DEF StartKeeps, Riding, Company
<1>6. Outcomes'
  BY DEF StartKeeps, Outcomes
<1> QED BY <1>2, <1>3, <1>4, <1>5, <1>6 DEF PromptInv, StartKeeps

\* What the invariant says of prompts and turns.
LEMMA PromptFacts ==
  ASSUME PromptInv
  PROVE  /\ TypeOK
         /\ Elements(pending) \subseteq Prompts
         /\ launch # None => launch \in Launch /\ launch.prompt \in Prompts /\ active = None
         /\ \A p \in Prompts : p \in Elements(turns) => Assigned(p)
         /\ \A i, j \in DOMAIN turns : turns[i] \in Prompts /\ turns[j] \in Prompts => i = j
<1>1. TypeOK
  BY DEF PromptInv
<1>2. Elements(pending) \subseteq Prompts
  BY <1>1 DEF TypeOK, Elements
<1>3. launch # None => launch \in Launch /\ launch.prompt \in Prompts /\ active = None
  BY <1>1 DEF TypeOK, Launch, PromptInv, OnePromptAtATime
<1> QED BY <1>1, <1>2, <1>3 DEF PromptInv, OnePromptAtATime, Assigned, Launching

\* enqueue
LEMMA EnqueueKeeps ==
  ASSUME PromptInv, NEW p \in Prompts, Enqueue(p)
  PROVE  PromptInv'
<1>1. /\ state[p] = "new" /\ state' = [state EXCEPT ![p] = "pending"]
      /\ UNCHANGED <<active, steers, steered, completion, adrift, loopVars, compactionVars>>
  BY DEF Enqueue
<1>2. TypeOK /\ Elements(pending) \subseteq Prompts
  BY PromptFacts
<1>3. Exclusive(p) /\ ~Open(p) /\ completion[p] = None
  BY <1>1 DEF PromptInv, Untouched, Open
<1>4. ~Queued(p) /\ ~Launching(p) /\ active # p /\ ~Steering(p) /\ ~Riding(p) /\ p \notin adrift
  BY <1>3 DEF Exclusive
<1> DEFINE q == Append(pending, p)
<1>5. q \in Seq(Prompts) /\ Elements(q) = Elements(pending) \cup {p} /\ Distinct(q)
  BY <1>2, <1>4, AppendFacts DEF TypeOK, Queued
<1>6. /\ Open(p)'
      /\ \A r \in Prompts \ {p} : Open(r)' <=> Open(r)
      /\ \A r \in Prompts : (Steering(r)' <=> Steering(r)) /\ (Riding(r)' <=> Riding(r))
  BY <1>1, <1>2, <1>3 DEF Open, Steering, Riding, TypeOK
<1>7. /\ Untouched' /\ SteersApart' /\ Company'
      /\ state' \in [Prompts -> Results \cup {"new", "pending", "running", "steered", "blocked"}]
  BY <1>1, <1>2, <1>3 DEF PromptInv, Untouched, SteersApart, Company, TypeOK
<1>8. CASE active = None /\ launch = None /\ ~(compacting /\ turns = <<>>)
  <2>1. StartNext(q)
    BY <1>8 DEF Enqueue
  <2>2. ASSUME NEW r \in Prompts
        PROVE  /\ r \notin Elements(turns) /\ ~Riding(r)'
               /\ Open(r)' => r \in Elements(q) \/ Steering(r)' \/ r \in adrift
               /\ r \in Elements(q) => Open(r)' /\ ~Steering(r)' /\ r \notin adrift
               /\ Steering(r)' => Open(r)' /\ r \notin adrift
               /\ r \in adrift => Open(r)'
               /\ outcome[r] # None => completion'[r] # None
    <3>1. Exclusive(r) /\ ~Launching(r) /\ active # r /\ ~Assigned(r)
      BY <1>8, PromptQueueAssumption DEF PromptInv, Launching, Assigned
    <3>2. r \notin Elements(turns) /\ (outcome[r] # None => completion[r] # None)
      BY <3>1, PromptFacts DEF PromptInv, Outcomes
    <3>3. ~Riding(r)
      BY <1>8, PromptQueueAssumption DEF PromptInv, Company, Riding
    <3>4. r \in Elements(q) <=> Queued(r) \/ r = p
      BY <1>5 DEF Queued
    <3> HIDE DEF q
    <3>5. CASE r = p
      BY <1>1, <1>4, <1>6, <3>2, <3>3, <3>4, <3>5
    <3>6. CASE r # p
      BY <1>1, <1>6, <3>1, <3>2, <3>3, <3>4, <3>6 DEF Exclusive
    <3> QED BY <3>5, <3>6
  <2> HIDE DEF q
  <2>3. StartKeeps(q)
    BY <1>1, <1>2, <1>5, <1>7, <1>8, <2>1, <2>2 DEF StartKeeps, TypeOK, loopVars, compactionVars
  <2> QED BY <2>3, StartNextKeeps
<1>9. CASE ~(active = None /\ launch = None /\ ~(compacting /\ turns = <<>>))
  <2>1. pending' = q /\ UNCHANGED <<launch, runaway>>
    BY <1>9 DEF Enqueue
  <2> HIDE DEF q
  <2>2. TypeOK'
    BY <1>1, <1>2, <1>5, <1>7, <2>1 DEF TypeOK, loopVars, compactionVars
  <2>3. ASSUME NEW r \in Prompts PROVE Exclusive(r)'
    <3>1. (Queued(r)' <=> Queued(r) \/ r = p) /\ (Launching(r)' <=> Launching(r))
      BY <1>5, <2>1 DEF Queued, Launching
    <3>2. CASE r = p
      BY <1>1, <1>4, <1>6, <3>1, <3>2 DEF Exclusive
    <3>3. CASE r # p
      <4>1. Exclusive(r)
        BY DEF PromptInv
      <4> QED BY <1>1, <1>6, <3>1, <3>3, <4>1 DEF Exclusive
    <3> QED BY <3>2, <3>3
  <2>4. OnePromptAtATime' /\ Outcomes'
    BY <1>1, <2>1 DEF PromptInv, OnePromptAtATime, Outcomes, Assigned, Launching, loopVars
  <2> QED BY <1>7, <2>2, <2>3, <2>4 DEF PromptInv
<1> QED BY <1>8, <1>9

\* Between two turns there is no company, no turn of a prompt, and whoever has a
\* result has ended.
LEMMA BetweenPrompts ==
  ASSUME PromptInv, active = None, launch # None => launch.at # "assigned", NEW r \in Prompts
  PROVE  /\ ~Riding(r) /\ r \notin Elements(turns)
         /\ outcome[r] # None => completion[r] # None
<1>1. ~Assigned(r)
  BY PromptQueueAssumption DEF Assigned, Launching
<1>2. r \notin Elements(turns) /\ (outcome[r] # None => completion[r] # None)
  BY <1>1, PromptFacts DEF PromptInv, Outcomes
<1>3. ~Riding(r)
  BY PromptQueueAssumption DEF PromptInv, Company, Riding
<1> QED BY <1>2, <1>3

\* The hook lets the prompt pass, or the loop gives it a turn.
LEMMA HookPassesKeeps == PromptInv /\ HookPasses => PromptInv'
<1> SUFFICES ASSUME PromptInv, HookPasses PROVE PromptInv'
  OBVIOUS
<1>1. /\ launch # None /\ launch.at = "hook" /\ launch' = [launch EXCEPT !.at = "assign"]
      /\ UNCHANGED <<pending, active, steers, steered, state, completion, adrift, loopVars, compactionVars, runaway>>
  BY DEF HookPasses, LaunchAt
<1>2. TypeOK /\ launch \in Launch /\ active = None
  BY <1>1, PromptFacts
<1>3. launch' \in Launch /\ launch' # None /\ launch'.prompt = launch.prompt /\ launch'.at = "assign"
  BY <1>1, <1>2, PromptQueueAssumption DEF Launch
<1>4. TypeOK'
  BY <1>1, <1>2, <1>3 DEF TypeOK, loopVars, compactionVars
<1>5. ASSUME NEW r \in Prompts PROVE Exclusive(r)'
  <2>1. Exclusive(r)
    BY DEF PromptInv
  <2>2. Launching(r)' <=> Launching(r)
    BY <1>1, <1>3 DEF Launching
  <2>3. /\ Open(r)' <=> Open(r)
        /\ Queued(r)' <=> Queued(r)
        /\ Steering(r)' <=> Steering(r)
        /\ Riding(r)' <=> Riding(r)
    BY <1>1 DEF Open, Queued, Steering, Riding
  <2> QED BY <1>1, <2>1, <2>2, <2>3 DEF Exclusive
<1>6. \A r \in Prompts : ~Assigned(r)
  BY <1>1, <1>2, PromptQueueAssumption DEF Assigned, Launching
<1>7. \A r \in Prompts : r \notin Elements(turns)
  BY <1>6, PromptFacts
<1>8. OnePromptAtATime' /\ Outcomes'
  BY <1>1, <1>2, <1>6, <1>7 DEF OnePromptAtATime, Outcomes, PromptInv, loopVars
<1>9. Company' /\ SteersApart' /\ Untouched'
  BY <1>1 DEF PromptInv, Company, SteersApart, Untouched
<1> QED BY <1>4, <1>5, <1>8, <1>9 DEF PromptInv

\* The loop makes a turn for the prompt in launch, which had none.
LEMMA TurnAssignedKeeps == PromptInv /\ TurnAssigned => PromptInv'
<1> SUFFICES ASSUME PromptInv, TurnAssigned PROVE PromptInv'
  OBVIOUS
<1>1. /\ launch # None /\ launch.at = "assign" /\ launch' = [launch EXCEPT !.at = "assigned"]
      /\ turns' = Append(turns, launch.prompt)
      /\ UNCHANGED <<pending, active, steers, steered, state, completion, adrift,
                     outcome, aborted, others, compactionVars, runaway>>
  BY DEF TurnAssigned, LaunchAt
<1>2. TypeOK /\ launch \in Launch /\ active = None /\ launch.prompt \in Prompts
  BY <1>1, PromptFacts
<1>3. launch' \in Launch /\ launch' # None /\ launch'.prompt = launch.prompt /\ launch'.at = "assigned"
  BY <1>1, <1>2, PromptQueueAssumption DEF Launch
<1>4. turns' \in Seq(Prompts \cup {Other}) /\ Elements(turns') = Elements(turns) \cup {launch.prompt}
  <2>1. turns \in Seq(Prompts \cup {Other}) /\ launch.prompt \in Prompts \cup {Other}
    BY <1>2 DEF TypeOK
  <2> QED BY <1>1, <2>1, AppendFacts
<1>5. TypeOK'
  BY <1>1, <1>2, <1>3, <1>4 DEF TypeOK, compactionVars
<1>6. ASSUME NEW r \in Prompts PROVE Exclusive(r)'
  <2>1. Exclusive(r)
    BY DEF PromptInv
  <2>2. Launching(r)' <=> Launching(r)
    BY <1>1, <1>3 DEF Launching
  <2>3. /\ Open(r)' <=> Open(r)
        /\ Queued(r)' <=> Queued(r)
        /\ Steering(r)' <=> Steering(r)
        /\ Riding(r)' <=> Riding(r)
    BY <1>1 DEF Open, Queued, Steering, Riding
  <2> QED BY <1>1, <2>1, <2>2, <2>3 DEF Exclusive
<1>7. \A r \in Prompts : ~Assigned(r) /\ r \notin Elements(turns) /\ (outcome[r] # None => completion[r] # None)
  <2>1. \A r \in Prompts : ~Assigned(r)
    BY <1>1, <1>2, PromptQueueAssumption DEF Assigned, Launching
  <2> QED BY <1>1, <1>2, <2>1, BetweenPrompts
<1>8. Launching(launch.prompt) /\ completion[launch.prompt] = None
  <2>1. Launching(launch.prompt)
    BY <1>1 DEF Launching
  <2> QED BY <1>2, <2>1 DEF PromptInv, Exclusive, Open
<1>9. OnePromptAtATime'
  <2>1. active' = None
    BY <1>1, <1>2
  <2>2. \A r \in Prompts : r \in Elements(turns') => launch' # None /\ launch'.prompt = r /\ launch'.at = "assigned"
    BY <1>3, <1>4, <1>7
  <2>3. \A i \in DOMAIN turns' : turns'[i] \in Prompts => i = Len(turns')
    <3>1. \A i \in DOMAIN turns' : i = Len(turns') \/ (i \in DOMAIN turns /\ turns'[i] = turns[i])
      BY <1>1, <1>2 DEF TypeOK
    <3> QED BY <1>7, <3>1 DEF Elements
  <2> QED BY <2>1, <2>2, <2>3 DEF OnePromptAtATime
<1>10. Outcomes'
  <2> SUFFICES ASSUME NEW r \in Prompts, outcome'[r] # None
               PROVE  r \notin Elements(turns') /\ completion'[r] # None
    BY DEF Outcomes
  <2> QED BY <1>1, <1>4, <1>7, <1>8
<1>11. Company' /\ SteersApart' /\ Untouched'
  BY <1>1 DEF PromptInv, Company, SteersApart, Untouched
<1> QED BY <1>5, <1>6, <1>9, <1>10, <1>11 DEF PromptInv

\* The prompt becomes the active one.
LEMMA LaunchedKeeps == PromptInv /\ Launched => PromptInv'
<1> SUFFICES ASSUME PromptInv, Launched PROVE PromptInv'
  OBVIOUS
<1>1. /\ launch # None /\ launch.at = "assigned" /\ launch' = None /\ active' = launch.prompt
      /\ state' = [state EXCEPT ![launch.prompt] = "running"]
      /\ UNCHANGED <<pending, steers, steered, completion, adrift, loopVars, compactionVars, runaway>>
  BY DEF Launched, LaunchAt
<1>2. TypeOK /\ launch \in Launch /\ active = None /\ launch.prompt \in Prompts
  BY <1>1, PromptFacts
<1>3. TypeOK'
  BY <1>1, <1>2 DEF TypeOK, loopVars, compactionVars
<1>4. \A r \in Prompts : (Launching(r) <=> active' = r) /\ ~Launching(r)' /\ active # r
  BY <1>1, <1>2, PromptQueueAssumption DEF Launching
<1>5. Open(launch.prompt) /\ Launching(launch.prompt)
  <2>1. Launching(launch.prompt)
    BY <1>1 DEF Launching
  <2> QED BY <1>2, <2>1 DEF PromptInv, Exclusive
<1>6. ASSUME NEW r \in Prompts PROVE Exclusive(r)'
  <2>1. Exclusive(r)
    BY DEF PromptInv
  <2>2. Open(r)' <=> Open(r)
    BY <1>1, <1>2, <1>5 DEF Open, TypeOK
  <2>3. /\ Queued(r)' <=> Queued(r)
        /\ Steering(r)' <=> Steering(r)
        /\ Riding(r)' <=> Riding(r)
    BY <1>1 DEF Queued, Steering, Riding
  <2>4. (Launching(r) <=> active' = r) /\ ~Launching(r)' /\ active # r
    BY <1>4
  <2> QED BY <1>1, <2>1, <2>2, <2>3, <2>4 DEF Exclusive
<1>7. \A r \in Prompts : Assigned(r) => Assigned(r)'
  BY <1>4 DEF Assigned
<1>8. OnePromptAtATime'
  <2>1. \A r \in Prompts : r \in Elements(turns') => active' = r
    <3>1. \A r \in Prompts : r \in Elements(turns) => Launching(r)
      BY <1>4, PromptFacts DEF Assigned
    <3> QED BY <1>1, <1>4, <3>1 DEF loopVars
  <2>2. \A i, j \in DOMAIN turns' : turns'[i] \in Prompts /\ turns'[j] \in Prompts => i = j
    BY <1>1, PromptFacts DEF loopVars
  <2> QED BY <1>1, <2>1, <2>2 DEF OnePromptAtATime
<1>9. Outcomes'
  BY <1>1, <1>7 DEF PromptInv, Outcomes, loopVars
<1>10. Company' /\ SteersApart' /\ Untouched'
  <2>1. Company'
    BY <1>1, <1>2, PromptQueueAssumption DEF PromptInv, Company
  <2> QED BY <1>1, <1>2, <2>1 DEF PromptInv, SteersApart, Untouched, TypeOK
<1> QED BY <1>3, <1>6, <1>8, <1>9, <1>10 DEF PromptInv

\* startNext ends without a turn.
LEMMA GiveUpLaunchKeeps ==
  ASSUME PromptInv, LaunchAt("hook") \/ LaunchAt("assign"),
         NEW result \in {"blocked", "failed"}, GiveUpLaunch(result)
  PROVE  PromptInv'
<1> DEFINE p == launch.prompt
<1>1. /\ launch # None /\ launch.at # "assigned"
      /\ state' = [state EXCEPT ![p] = result]
      /\ completion' = [completion EXCEPT ![p] = result]
      /\ StartNext(pending)
      /\ UNCHANGED <<active, steers, steered, adrift, loopVars, compactionVars>>
  BY DEF LaunchAt, GiveUpLaunch
<1>2. TypeOK /\ active = None /\ p \in Prompts /\ Launching(p)
  BY <1>1, PromptFacts DEF Launching
<1>3. result # None /\ result \in Results \cup {"blocked"} /\ result # "new"
  BY PromptQueueAssumption DEF Results
<1> HIDE DEF p
<1>4. ASSUME NEW r \in Prompts
      PROVE  /\ r \notin Elements(turns) /\ ~Riding(r)'
             /\ Open(r)' => r \in Elements(pending) \/ Steering(r)' \/ r \in adrift
             /\ r \in Elements(pending) => Open(r)' /\ ~Steering(r)' /\ r \notin adrift
             /\ Steering(r)' => Open(r)' /\ r \notin adrift
             /\ r \in adrift => Open(r)'
             /\ outcome[r] # None => completion'[r] # None
  <2>1. Exclusive(r) /\ active # r
    BY <1>2, PromptQueueAssumption DEF PromptInv
  <2>2. ~Riding(r) /\ r \notin Elements(turns) /\ (outcome[r] # None => completion[r] # None)
    BY <1>1, <1>2, BetweenPrompts
  <2>3. (Steering(r)' <=> Steering(r)) /\ (Riding(r)' <=> Riding(r)) /\ (Queued(r) <=> r \in Elements(pending))
    BY <1>1 DEF Steering, Riding, Queued
  <2>4. Launching(r) <=> r = p
    BY <1>1 DEF Launching, p
  <2>5. Open(r)' <=> Open(r) /\ r # p
    BY <1>1, <1>2, <1>3 DEF Open, TypeOK
  <2>6. completion'[r] = IF r = p THEN result ELSE completion[r]
    BY <1>1, <1>2 DEF TypeOK
  <2> QED BY <1>3, <2>1, <2>2, <2>3, <2>4, <2>5, <2>6 DEF Exclusive
<1>5. /\ state' \in [Prompts -> Results \cup {"new", "pending", "running", "steered", "blocked"}]
      /\ completion' \in [Prompts -> Results \cup {"blocked", None}]
  BY <1>1, <1>2, <1>3 DEF TypeOK
<1>6. SteersApart' /\ Untouched'
  BY <1>1, <1>2, <1>3 DEF PromptInv, SteersApart, Untouched, TypeOK
<1>7. StartKeeps(pending)
  BY <1>1, <1>2, <1>4, <1>5, <1>6 DEF StartKeeps, TypeOK, loopVars, compactionVars
<1> QED BY <1>7, StartNextKeeps

\* The loop's own turn.
LEMMA OtherTurnKeeps == PromptInv /\ OtherTurn => PromptInv'
<1> SUFFICES ASSUME PromptInv, OtherTurn PROVE PromptInv'
  OBVIOUS
<1>1. /\ turns' = Append(turns, Other)
      /\ UNCHANGED <<promptVars, outcome, aborted, compactionVars, runaway>>
  BY DEF OtherTurn
<1>2. TypeOK
  BY PromptFacts
<1>3. turns' \in Seq(Prompts \cup {Other}) /\ Elements(turns') = Elements(turns) \cup {Other}
  <2>1. turns \in Seq(Prompts \cup {Other}) /\ Other \in Prompts \cup {Other}
    BY <1>2 DEF TypeOK
  <2> QED BY <1>1, <2>1, AppendFacts
<1>4. \A r \in Prompts : r \in Elements(turns') <=> r \in Elements(turns)
  BY <1>3, PromptQueueAssumption
<1>5. \A i \in DOMAIN turns' : turns'[i] \in Prompts => i \in DOMAIN turns /\ turns'[i] = turns[i]
  BY <1>1, <1>2, PromptQueueAssumption DEF TypeOK
<1>6. TypeOK'
  BY <1>1, <1>2, <1>3 DEF TypeOK, promptVars, compactionVars
<1>7. \A r \in Prompts : Exclusive(r)'
  BY <1>1 DEF PromptInv, Exclusive, Open, Queued, Launching, Steering, Riding, promptVars
<1>8. OnePromptAtATime'
  BY <1>1, <1>4, <1>5 DEF PromptInv, OnePromptAtATime, promptVars
<1>9. Outcomes'
  BY <1>1, <1>4 DEF PromptInv, Outcomes, Assigned, Launching, promptVars
<1>10. Company' /\ SteersApart' /\ Untouched'
  BY <1>1 DEF PromptInv, Company, SteersApart, Untouched, promptVars
<1> QED BY <1>6, <1>7, <1>8, <1>9, <1>10 DEF PromptInv

\* What every step of the loop leaves true, but for the prompts' own variables.
LoopKept ==
    /\ OnePromptAtATime' /\ Company' /\ SteersApart'
    /\ turns' \in Seq(Prompts \cup {Other}) /\ aborted' \subseteq Prompts
    /\ outcome' \in [Prompts -> Results \cup {None}]
    /\ \A r \in Prompts :
           outcome'[r] # None
               => r \notin Elements(turns') /\ (completion[r] # None \/ Assigned(r)')

\* A turn leaves the loop, p's own one perhaps: which is the only one of a prompt.
LEMMA TurnLeaves ==
  ASSUME PromptInv, NEW t, NEW result \in Results,
         turns' \in Seq(Prompts \cup {Other}),
         Elements(turns') \subseteq Elements(turns) \ (IF t = Other THEN {} ELSE {t}),
         \A i, j \in DOMAIN turns' : turns'[i] \in Prompts /\ turns'[j] \in Prompts => i = j,
         t = Other \/ (t \in Prompts /\ Assigned(t)),
         outcome' = IF t = Other THEN outcome ELSE [outcome EXCEPT ![t] = result],
         aborted' \subseteq Prompts,
         UNCHANGED <<launch, active, steers, steered, adrift>>
  PROVE  LoopKept
<1>1. TypeOK
  BY PromptFacts
<1>2. \A r \in Prompts : Assigned(r)' <=> Assigned(r)
  BY DEF Assigned, Launching
<1>3. OnePromptAtATime'
  <2>1. \A r \in Prompts : r \in Elements(turns') => Assigned(r)
    BY PromptFacts
  <2>2. (active # None => launch = None) /\ UNCHANGED <<active, launch>>
    BY DEF PromptInv, OnePromptAtATime
  <2> QED BY <2>1, <2>2 DEF OnePromptAtATime, Assigned, Launching
<1>4. outcome' \in [Prompts -> Results \cup {None}]
  BY <1>1 DEF TypeOK
<1>5. ASSUME NEW r \in Prompts, outcome'[r] # None
      PROVE  r \notin Elements(turns') /\ (completion[r] # None \/ Assigned(r)')
  <2>1. CASE t # Other /\ r = t
    BY <1>2, <2>1
  <2>2. CASE ~(t # Other /\ r = t)
    <3>1. outcome[r] # None
      BY <1>1, <1>5, <2>2 DEF TypeOK
    <3> QED BY <1>2, <3>1 DEF PromptInv, Outcomes
  <2> QED BY <2>1, <2>2
<1> QED BY <1>3, <1>4, <1>5 DEF PromptInv, Company, SteersApart, LoopKept

\* A turn ends: its prompt has a result from now on, and waits for settle.
LEMMA TurnEndsKeeps ==
  ASSUME PromptInv, NEW result \in Results, TurnEnds(result)
  PROVE  PromptInv'
<1> DEFINE t == turns[1]
<1>1. /\ turns # <<>> /\ turns' = Tail(turns)
      /\ outcome' = IF t = Other THEN outcome ELSE [outcome EXCEPT ![t] = result]
      /\ UNCHANGED <<promptVars, aborted, others, compactionVars, runaway>>
  BY DEF TurnEnds
<1>2. TypeOK /\ turns \in Seq(Prompts \cup {Other})
  BY PromptFacts DEF TypeOK
<1>3. /\ Tail(turns) \in Seq(Prompts \cup {Other}) /\ t \in Elements(turns)
      /\ Elements(turns) \subseteq Prompts \cup {Other}
      /\ Elements(turns) = Elements(Tail(turns)) \cup {t}
  <2>1. Head(turns) = t
    BY <1>1, <1>2
  <2> QED BY <1>1, <1>2, <2>1, TailFacts
<1>4. /\ 1 \in DOMAIN turns
      /\ \A i \in DOMAIN Tail(turns) : i + 1 \in DOMAIN turns /\ i + 1 # 1 /\ Tail(turns)[i] = turns[i + 1]
      /\ \A i, j \in DOMAIN Tail(turns) : i + 1 = j + 1 => i = j
  BY <1>1, <1>2
<1>5. \A i, j \in DOMAIN turns' : turns'[i] \in Prompts /\ turns'[j] \in Prompts => i = j
  BY <1>1, <1>4, PromptFacts
<1>6. t \in Prompts => t \notin Elements(turns')
  <2> SUFFICES ASSUME t \in Prompts, NEW i \in DOMAIN turns', turns'[i] = t PROVE FALSE
    BY DEF Elements
  <2>1. turns[i + 1] = t /\ i + 1 \in DOMAIN turns /\ i + 1 # 1
    BY <1>1, <1>4
  <2> QED BY <1>4, <2>1, PromptFacts
<1>7. t = Other \/ (t \in Prompts /\ Assigned(t))
  BY <1>3, PromptFacts
<1>8. LoopKept
  <2>1. Elements(turns') \subseteq Elements(turns) \ (IF t = Other THEN {} ELSE {t})
    BY <1>1, <1>3, <1>6
  <2>2. aborted' \subseteq Prompts /\ UNCHANGED <<launch, active, steers, steered, adrift>>
    BY <1>1, <1>2 DEF TypeOK, promptVars
  <2> HIDE DEF t
  <2> QED BY <1>1, <1>3, <1>5, <1>7, <2>1, <2>2, TurnLeaves
<1> HIDE DEF t
<1>9. TypeOK'
  BY <1>1, <1>2, <1>3, <1>8 DEF LoopKept, TypeOK, promptVars, compactionVars
<1>10. \A r \in Prompts : Exclusive(r)'
  BY <1>1 DEF PromptInv, Exclusive, Open, Queued, Launching, Steering, Riding, promptVars
<1>11. Untouched' /\ Outcomes'
  BY <1>1, <1>8 DEF LoopKept, PromptInv, Untouched, Outcomes, promptVars
<1> QED BY <1>8, <1>9, <1>10, <1>11 DEF PromptInv, LoopKept

\* settle
LEMMA SettleKeeps ==
  ASSUME PromptInv, NEW p \in Prompts, Settle(p)
  PROVE  PromptInv'
<1> DEFINE ending == {p} \cup steered[p]
<1>1. /\ outcome[p] # None /\ active = p /\ active' = None
      /\ state' = [r \in Prompts |-> IF r \in ending THEN outcome[p] ELSE state[r]]
      /\ completion' = [r \in Prompts |-> IF r \in ending THEN outcome[p] ELSE completion[r]]
      /\ steered' = [steered EXCEPT ![p] = {}]
      /\ StartNext(pending)
      /\ UNCHANGED <<steers, adrift, loopVars, compactionVars>>
  BY DEF Settle
<1>2. TypeOK /\ active # None /\ outcome[p] \in Results /\ outcome[p] # "new"
  BY <1>1, PromptFacts, PromptQueueAssumption DEF TypeOK, Results
<1>3. \A r \in Prompts : r \in ending <=> r = p \/ Riding(r)
  BY <1>1 DEF PromptInv, Company, Riding
<1>4. ending \subseteq Prompts
  BY <1>2 DEF TypeOK
<1> HIDE DEF ending
<1>5. ASSUME NEW r \in Prompts
      PROVE  /\ r \notin Elements(turns) /\ ~Riding(r)'
             /\ Open(r)' => r \in Elements(pending) \/ Steering(r)' \/ r \in adrift
             /\ r \in Elements(pending) => Open(r)' /\ ~Steering(r)' /\ r \notin adrift
             /\ Steering(r)' => Open(r)' /\ r \notin adrift
             /\ r \in adrift => Open(r)'
             /\ outcome[r] # None => completion'[r] # None
  <2>1. Exclusive(r) /\ ~Launching(r)
    BY <1>1, <1>2, PromptFacts DEF PromptInv, Launching
  <2>2. r \notin Elements(turns)
    <3>1. r # p => ~Assigned(r)
      BY <1>1, <2>1 DEF Assigned
    <3>2. p \notin Elements(turns)
      BY <1>1 DEF PromptInv, Outcomes
    <3> QED BY <3>1, <3>2, PromptFacts
  <2>3. outcome[r] # None => completion'[r] # None
    <3>1. r # p => ~Assigned(r)
      BY <1>1, <2>1 DEF Assigned
    <3>2. outcome[r] # None => completion[r] # None \/ r = p
      BY <3>1 DEF PromptInv, Outcomes
    <3> QED BY <1>1, <1>3, <3>2
  <2>4. ~Riding(r)'
    <3> SUFFICES ASSUME NEW x \in Prompts, r \in steered'[x] PROVE FALSE
      BY DEF Riding
    <3>1. x # p /\ r \in steered[x]
      BY <1>1, <1>2 DEF TypeOK
    <3> QED BY <1>1, <3>1 DEF PromptInv, Company
  <2>5. Open(r)' <=> Open(r) /\ r \notin ending
    BY <1>1, <1>2 DEF Open
  <2>6. (Steering(r)' <=> Steering(r)) /\ (Queued(r) <=> r \in Elements(pending))
    BY <1>1 DEF Steering, Queued
  <2>7. r \in ending <=> active = r \/ Riding(r)
    BY <1>1, <1>3
  <2> QED BY <1>1, <2>1, <2>2, <2>3, <2>4, <2>5, <2>6, <2>7 DEF Exclusive
<1>6. /\ state' \in [Prompts -> Results \cup {"new", "pending", "running", "steered", "blocked"}]
      /\ completion' \in [Prompts -> Results \cup {"blocked", None}]
      /\ steered' \in [Prompts -> SUBSET Prompts]
  BY <1>1, <1>2 DEF TypeOK
<1>7. SteersApart' /\ Untouched'
  BY <1>1, <1>2 DEF PromptInv, SteersApart, Untouched
<1>8. StartKeeps(pending)
  BY <1>1, <1>2, <1>5, <1>6, <1>7 DEF StartKeeps, TypeOK, loopVars, compactionVars
<1> QED BY <1>8, StartNextKeeps

\* What a filter leaves of the queue.
LEMMA QueueWithout ==
  ASSUME TypeOK, NEW gone
  PROVE  /\ Without(pending, gone) \in Seq(Prompts)
         /\ Distinct(Without(pending, gone))
         /\ Elements(Without(pending, gone)) = Elements(pending) \ gone
<1>1. pending \in Seq(Prompts) /\ Distinct(pending)
  BY DEF TypeOK
<1> QED BY <1>1, WithoutElements, WithoutDistinct

\* A step that leaves the active prompt, the launch, the company, the loop and
\* what has ended alone.
LEMMA SteeringKeeps ==
  ASSUME PromptInv, UNCHANGED <<launch, active, steered, completion, loopVars>>
  PROVE  OnePromptAtATime' /\ Company' /\ Outcomes'
BY DEF PromptInv, OnePromptAtATime, Company, Outcomes, Assigned, Launching, loopVars

\* steer takes prompts out of the queue.
LEMMA SteerKeeps ==
  ASSUME PromptInv, NEW chosen \in SUBSET Prompts, Steer(chosen)
  PROVE  PromptInv'
<1> DEFINE call == [prompts |-> chosen, at |-> "asked"]
<1>1. /\ chosen \subseteq Elements(pending)
      /\ pending' = Without(pending, chosen)
      /\ steers' = steers \cup {call}
      /\ UNCHANGED <<launch, active, steered, state, completion, adrift, loopVars, compactionVars, runaway>>
  BY DEF Steer
<1>2. TypeOK
  BY PromptFacts
<1>3. pending' \in Seq(Prompts) /\ Distinct(pending') /\ Elements(pending') = Elements(pending) \ chosen
  BY <1>1, <1>2, QueueWithout
<1>4. call \in [prompts : SUBSET Prompts, at : {"asked", "assigned"}] /\ call.prompts = chosen
  OBVIOUS
<1> HIDE DEF call
<1>5. TypeOK'
  BY <1>1, <1>2, <1>3, <1>4 DEF TypeOK, loopVars, compactionVars
<1>6. \A r \in Prompts : Steering(r)' <=> Steering(r) \/ r \in chosen
  BY <1>1, <1>4 DEF Steering
<1>7. ASSUME NEW r \in Prompts PROVE Exclusive(r)'
  <2>1. Exclusive(r)
    BY DEF PromptInv
  <2>2. /\ Open(r)' <=> Open(r)
        /\ Launching(r)' <=> Launching(r)
        /\ Riding(r)' <=> Riding(r)
        /\ Queued(r)' <=> Queued(r) /\ r \notin chosen
        /\ r \in chosen => Queued(r)
    BY <1>1, <1>3 DEF Open, Launching, Riding, Queued
  <2> QED BY <1>1, <1>6, <2>1, <2>2 DEF Exclusive
<1>8. SteersApart'
  <2>1. \A s \in steers : s.prompts \cap chosen = {}
    <3> SUFFICES ASSUME NEW s \in steers, NEW r \in s.prompts \cap chosen PROVE FALSE
      OBVIOUS
    <3>1. r \in Prompts /\ Steering(r) /\ Queued(r)
      BY <1>1 DEF Steering, Queued
    <3> QED BY <3>1 DEF PromptInv, Exclusive
  <2> QED BY <1>1, <1>4, <2>1 DEF PromptInv, SteersApart
<1>9. Untouched'
  BY <1>1 DEF PromptInv, Untouched
<1> QED BY <1>1, <1>5, <1>7, <1>8, <1>9, SteeringKeeps DEF PromptInv

\* The loop answers a steer.
LEMMA SteerAssignedKeeps ==
  ASSUME PromptInv, NEW s \in steers, SteerAssigned(s)
  PROVE  PromptInv'
<1> DEFINE answered == [s EXCEPT !.at = "assigned"]
<1>1. /\ steers' = (steers \ {s}) \cup {answered}
      /\ UNCHANGED <<pending, launch, active, steered, state, completion, adrift, loopVars, compactionVars, runaway>>
  BY DEF SteerAssigned
<1>2. TypeOK
  BY PromptFacts
<1>3. answered \in [prompts : SUBSET Prompts, at : {"asked", "assigned"}] /\ answered.prompts = s.prompts
  <2>1. s \in [prompts : SUBSET Prompts, at : {"asked", "assigned"}]
    BY <1>2 DEF TypeOK
  <2> QED BY <2>1
<1> HIDE DEF answered
<1>4. TypeOK'
  BY <1>1, <1>2, <1>3 DEF TypeOK, loopVars, compactionVars
<1>5. \A r : Steering(r)' <=> Steering(r)
  BY <1>1, <1>3 DEF Steering
<1>6. \A r \in Prompts : Exclusive(r)'
  <2> TAKE r \in Prompts
  <2>1. Exclusive(r)
    BY DEF PromptInv
  <2>2. /\ Open(r)' <=> Open(r)
        /\ Launching(r)' <=> Launching(r)
        /\ Riding(r)' <=> Riding(r)
        /\ Queued(r)' <=> Queued(r)
    BY <1>1 DEF Open, Launching, Riding, Queued
  <2> QED BY <1>1, <1>5, <2>1, <2>2 DEF Exclusive
<1>7. SteersApart' /\ Untouched'
  BY <1>1, <1>3 DEF PromptInv, SteersApart, Untouched
<1> QED BY <1>1, <1>4, <1>6, <1>7, SteeringKeeps DEF PromptInv

\* Without s nobody steers its prompts, and everybody else's as before.
LEMMA SteerGone ==
  ASSUME PromptInv, NEW s \in steers, steers' = steers \ {s}
  PROVE  /\ s.prompts \subseteq Prompts
         /\ SteersApart'
         /\ \A r : r \in s.prompts => Steering(r)
         /\ \A r : Steering(r)' <=> Steering(r) /\ r \notin s.prompts
<1>1. s.prompts \subseteq Prompts
  BY DEF PromptInv, TypeOK
<1>2. SteersApart' /\ \A r : r \in s.prompts => Steering(r)
  BY DEF PromptInv, SteersApart, Steering
<1>3. ASSUME NEW r PROVE Steering(r)' <=> Steering(r) /\ r \notin s.prompts
  <2>1. \A x \in steers : x # s => ~(r \in x.prompts /\ r \in s.prompts)
    BY DEF PromptInv, SteersApart
  <2> QED BY <2>1 DEF Steering
<1> QED BY <1>1, <1>2, <1>3

\* The prompts of a steer that the loop rejects are adrift.
LEMMA SteerRejectedKeeps ==
  ASSUME PromptInv, NEW s \in steers, SteerRejected(s)
  PROVE  PromptInv'
<1>1. /\ steers' = steers \ {s} /\ adrift' = adrift \cup s.prompts
      /\ UNCHANGED <<pending, launch, active, steered, state, completion, loopVars, compactionVars, runaway>>
  BY DEF SteerRejected
<1>2. /\ s.prompts \subseteq Prompts
      /\ SteersApart'
      /\ \A r : r \in s.prompts => Steering(r)
      /\ \A r : Steering(r)' <=> Steering(r) /\ r \notin s.prompts
  BY <1>1, SteerGone
<1>3. TypeOK'
  BY <1>1, <1>2, PromptFacts DEF TypeOK, loopVars, compactionVars
<1>4. \A r \in Prompts : Exclusive(r)'
  <2> TAKE r \in Prompts
  <2>1. Exclusive(r)
    BY DEF PromptInv
  <2>2. /\ Open(r)' <=> Open(r)
        /\ Launching(r)' <=> Launching(r)
        /\ Riding(r)' <=> Riding(r)
        /\ Queued(r)' <=> Queued(r)
        /\ r \in adrift' <=> r \in adrift \/ r \in s.prompts
    BY <1>1 DEF Open, Launching, Riding, Queued
  <2>3. (r \in s.prompts => Steering(r)) /\ (Steering(r)' <=> Steering(r) /\ r \notin s.prompts)
    BY <1>2
  <2> QED BY <1>1, <2>1, <2>2, <2>3 DEF Exclusive
<1>5. Untouched'
  BY <1>1 DEF PromptInv, Untouched
<1> QED BY <1>1, <1>2, <1>3, <1>4, <1>5, SteeringKeeps DEF PromptInv

\* The steer is over: its prompts go with the active one, or nowhere.
LEMMA SteerEndsKeeps ==
  ASSUME PromptInv, NEW s \in steers, SteerEnds(s)
  PROVE  PromptInv'
<1>1. /\ steers' = steers \ {s}
      /\ state' = [p \in Prompts |-> IF p \in s.prompts THEN "steered" ELSE state[p]]
      /\ IF active = None
         THEN adrift' = adrift \cup s.prompts /\ UNCHANGED steered
         ELSE steered' = [steered EXCEPT ![active] = steered[active] \cup s.prompts] /\ UNCHANGED adrift
      /\ UNCHANGED <<pending, launch, active, completion, loopVars, compactionVars, runaway>>
  BY DEF SteerEnds
<1>2. /\ s.prompts \subseteq Prompts
      /\ SteersApart'
      /\ \A r : r \in s.prompts => Steering(r)
      /\ \A r : Steering(r)' <=> Steering(r) /\ r \notin s.prompts
  BY <1>1, SteerGone
<1>3. TypeOK /\ (active # None => active \in Prompts)
  BY PromptFacts DEF TypeOK
<1>4. state' \in [Prompts -> Results \cup {"new", "pending", "running", "steered", "blocked"}]
  BY <1>1, <1>3 DEF TypeOK
<1>5. steered' \in [Prompts -> SUBSET Prompts] /\ adrift' \subseteq Prompts
  BY <1>1, <1>2, <1>3 DEF TypeOK
<1>6. TypeOK'
  BY <1>1, <1>3, <1>4, <1>5 DEF TypeOK, loopVars, compactionVars
<1>7. ASSUME NEW r \in Prompts
      PROVE  IF active = None
             THEN (Riding(r)' <=> Riding(r)) /\ (r \in adrift' <=> r \in adrift \/ r \in s.prompts)
             ELSE (Riding(r)' <=> Riding(r) \/ r \in s.prompts) /\ adrift' = adrift
  <2>1. CASE active = None
    BY <1>1, <2>1 DEF Riding
  <2>2. CASE active # None
    <3>1. \A q \in Prompts : steered'[q] = IF q = active THEN steered[q] \cup s.prompts ELSE steered[q]
      BY <1>1, <1>3, <2>2 DEF TypeOK
    <3> QED BY <1>1, <1>3, <2>2, <3>1 DEF Riding
  <2> QED BY <2>1, <2>2
<1>8. ASSUME NEW r \in Prompts PROVE Exclusive(r)'
  <2>1. Exclusive(r)
    BY DEF PromptInv
  <2>2. /\ Launching(r)' <=> Launching(r)
        /\ Queued(r)' <=> Queued(r)
    BY <1>1 DEF Launching, Queued
  <2>3. (r \in s.prompts => Steering(r)) /\ (Steering(r)' <=> Steering(r) /\ r \notin s.prompts)
    BY <1>2
  <2>4. Open(r)' <=> Open(r)
    <3>1. r \in s.prompts => Open(r)
      BY <2>1, <2>3 DEF Exclusive
    <3> QED BY <1>1, <3>1 DEF Open
  <2> QED BY <1>1, <1>7, <2>1, <2>2, <2>3, <2>4 DEF Exclusive
<1>9. Company'
  <2> SUFFICES ASSUME NEW p \in Prompts, NEW q \in Prompts, q \in steered'[p] PROVE active' = p
    BY DEF Company
  <2>1. CASE active # None /\ p = active
    BY <1>1, <2>1
  <2>2. CASE ~(active # None /\ p = active)
    <3>1. q \in steered[p]
      BY <1>1, <1>3, <2>2 DEF TypeOK
    <3> QED BY <1>1, <3>1 DEF PromptInv, Company
  <2> QED BY <2>1, <2>2
<1>10. OnePromptAtATime' /\ Outcomes'
  BY <1>1 DEF PromptInv, OnePromptAtATime, Outcomes, Assigned, Launching, loopVars
<1>11. Untouched'
  BY <1>1 DEF PromptInv, Untouched
<1> QED BY <1>2, <1>6, <1>8, <1>9, <1>10, <1>11 DEF PromptInv

\* Cancelling the turn of the active prompt.
LEMMA CancelTurnOfFacts ==
  ASSUME PromptInv, active \in Prompts, CancelTurnOf(active),
         UNCHANGED <<launch, active, steers, steered, adrift>>
  PROVE  LoopKept
<1>1. TypeOK /\ turns \in Seq(Prompts \cup {Other}) /\ aborted' \subseteq Prompts
  BY PromptFacts DEF TypeOK, CancelTurnOf
<1>2. CASE turns # <<>> /\ turns[1] # active /\ active \in Elements(turns)
  <2>1. turns' = Without(turns, {active}) /\ outcome' = [outcome EXCEPT ![active] = "cancelled"]
    BY <1>2 DEF CancelTurnOf
  <2>2. turns' \in Seq(Prompts \cup {Other}) /\ Elements(turns') = Elements(turns) \ {active}
    BY <1>1, <2>1, WithoutElements
  <2>3. \A i, j \in DOMAIN turns' : turns'[i] \in Prompts /\ turns'[j] \in Prompts => i = j
    <3> SUFFICES ASSUME NEW i \in DOMAIN turns', turns'[i] \in Prompts PROVE FALSE
      OBVIOUS
    <3>1. turns'[i] \in Elements(turns) /\ turns'[i] # active
      BY <2>2 DEF Elements
    <3>2. PICK k \in DOMAIN turns : turns[k] = turns'[i]
      BY <3>1 DEF Elements
    <3>3. PICK l \in DOMAIN turns : turns[l] = active
      BY <1>2 DEF Elements
    <3> QED BY <3>1, <3>2, <3>3, PromptFacts
  <2>4. active # Other /\ Assigned(active) /\ "cancelled" \in Results
    BY PromptQueueAssumption DEF Assigned, Results
  <2> QED BY <1>1, <2>1, <2>2, <2>3, <2>4, TurnLeaves
<1>3. CASE ~(turns # <<>> /\ turns[1] # active /\ active \in Elements(turns))
  <2>1. UNCHANGED <<turns, outcome>>
    BY <1>3 DEF CancelTurnOf
  <2> QED BY <1>1, <2>1 DEF PromptInv, TypeOK, OnePromptAtATime, Company, SteersApart, Outcomes, Assigned, Launching, LoopKept
<1> QED BY <1>2, <1>3

\* The active prompt keeps its place until its turn has ended.
LEMMA AbortActiveKeeps == PromptInv /\ AbortActive => PromptInv'
<1> SUFFICES ASSUME PromptInv, AbortActive PROVE PromptInv'
  OBVIOUS
<1>1. /\ active # None /\ CancelTurnOf(active)
      /\ UNCHANGED <<promptVars, others, compactionVars, runaway>>
  BY DEF AbortActive
<1>2. TypeOK /\ active \in Prompts
  BY <1>1, PromptFacts DEF TypeOK
<1>3. LoopKept
  BY <1>1, <1>2, CancelTurnOfFacts DEF promptVars
<1>4. TypeOK'
  BY <1>1, <1>2, <1>3 DEF LoopKept, TypeOK, promptVars, compactionVars
<1>5. \A r \in Prompts : Exclusive(r)'
  BY <1>1 DEF PromptInv, Exclusive, Open, Queued, Launching, Steering, Riding, promptVars
<1>6. Untouched' /\ Outcomes'
  BY <1>1, <1>3 DEF LoopKept, PromptInv, Untouched, Outcomes, promptVars
<1> QED BY <1>3, <1>4, <1>5, <1>6 DEF PromptInv, LoopKept

\* Queued prompts are cancelled.
LEMMA CancelledKeeps ==
  ASSUME PromptInv, NEW ps, ps \subseteq Elements(pending), Cancelled(ps),
         UNCHANGED <<launch, active, steers, steered, adrift>>
  PROVE  /\ \A r \in Prompts : Exclusive(r)'
         /\ Untouched'
         /\ pending' \in Seq(Prompts) /\ Distinct(pending')
         /\ state' \in [Prompts -> Results \cup {"new", "pending", "running", "steered", "blocked"}]
         /\ completion' \in [Prompts -> Results \cup {"blocked", None}]
         /\ \A r \in Prompts : completion[r] # None => completion'[r] # None
<1>1. /\ pending' = Without(pending, ps)
      /\ state' = [p \in Prompts |-> IF p \in ps THEN "cancelled" ELSE state[p]]
      /\ completion' = [p \in Prompts |-> IF p \in ps THEN "cancelled" ELSE completion[p]]
  BY DEF Cancelled
<1>2. TypeOK /\ "cancelled" # None
  BY PromptFacts, PromptQueueAssumption DEF Results
<1>3. pending' \in Seq(Prompts) /\ Distinct(pending') /\ Elements(pending') = Elements(pending) \ ps
  BY <1>1, <1>2, QueueWithout
<1>4. /\ state' \in [Prompts -> Results \cup {"new", "pending", "running", "steered", "blocked"}]
      /\ completion' \in [Prompts -> Results \cup {"blocked", None}]
  BY <1>1, <1>2 DEF TypeOK, Results
<1>5. ASSUME NEW r \in Prompts PROVE Exclusive(r)'
  <2>1. Exclusive(r)
    BY DEF PromptInv
  <2>2. /\ Launching(r)' <=> Launching(r)
        /\ Steering(r)' <=> Steering(r)
        /\ Riding(r)' <=> Riding(r)
        /\ Queued(r)' <=> Queued(r) /\ r \notin ps
        /\ r \in ps => Queued(r)
    BY <1>3 DEF Launching, Queued, Steering, Riding
  <2>3. Open(r)' <=> Open(r) /\ r \notin ps
    BY <1>1, <1>2 DEF Open
  <2> QED BY <2>1, <2>2, <2>3 DEF Exclusive
<1>6. Untouched' /\ \A r \in Prompts : completion[r] # None => completion'[r] # None
  BY <1>1, <1>2 DEF PromptInv, Untouched
<1> QED BY <1>3, <1>4, <1>5, <1>6

\* abort and clear
LEMMA AbortPendingKeeps ==
  ASSUME PromptInv, NEW p \in Prompts, AbortPending(p)
  PROVE  PromptInv'
<1>1. /\ {p} \subseteq Elements(pending) /\ Cancelled({p})
      /\ UNCHANGED <<launch, active, steers, steered, adrift, loopVars, compactionVars, runaway>>
  BY DEF AbortPending
<1>2. /\ \A r \in Prompts : Exclusive(r)'
      /\ Untouched'
      /\ pending' \in Seq(Prompts) /\ Distinct(pending')
      /\ state' \in [Prompts -> Results \cup {"new", "pending", "running", "steered", "blocked"}]
      /\ completion' \in [Prompts -> Results \cup {"blocked", None}]
      /\ \A r \in Prompts : completion[r] # None => completion'[r] # None
  BY <1>1, CancelledKeeps
<1>3. TypeOK'
  BY <1>1, <1>2, PromptFacts DEF TypeOK, loopVars, compactionVars
<1>4. Outcomes'
  BY <1>1, <1>2 DEF PromptInv, Outcomes, Assigned, Launching, loopVars
<1>5. OnePromptAtATime' /\ Company' /\ SteersApart'
  BY <1>1 DEF PromptInv, OnePromptAtATime, Company, SteersApart, loopVars
<1> QED BY <1>2, <1>3, <1>4, <1>5 DEF PromptInv

\* Everything in the queue is cancelled, and the turn of the active prompt.
LEMMA ClearKeeps == PromptInv /\ Clear => PromptInv'
<1> SUFFICES ASSUME PromptInv, Clear PROVE PromptInv'
  OBVIOUS
<1> DEFINE ps == Elements(pending)
<1>1. /\ Cancelled(ps)
      /\ IF active = None THEN UNCHANGED <<turns, outcome, aborted>> ELSE CancelTurnOf(active)
      /\ UNCHANGED <<launch, active, steers, steered, adrift, others, compactionVars, runaway>>
  BY DEF Clear
<1>2. /\ \A r \in Prompts : Exclusive(r)'
      /\ Untouched'
      /\ pending' \in Seq(Prompts) /\ Distinct(pending')
      /\ state' \in [Prompts -> Results \cup {"new", "pending", "running", "steered", "blocked"}]
      /\ completion' \in [Prompts -> Results \cup {"blocked", None}]
      /\ \A r \in Prompts : completion[r] # None => completion'[r] # None
  BY <1>1, CancelledKeeps
<1>3. LoopKept
  <2>1. CASE active = None
    BY <1>1, <2>1, PromptFacts
       DEF PromptInv, TypeOK, OnePromptAtATime, Company, SteersApart, Outcomes, Assigned, Launching, LoopKept
  <2>2. CASE active # None
    <3>1. active \in Prompts
      BY <2>2, PromptFacts DEF TypeOK
    <3> QED BY <1>1, <2>2, <3>1, CancelTurnOfFacts
  <2> QED BY <2>1, <2>2
<1>4. TypeOK'
  BY <1>1, <1>2, <1>3, PromptFacts DEF TypeOK, LoopKept, compactionVars
<1>5. Outcomes'
  BY <1>2, <1>3 DEF Outcomes, LoopKept
<1> QED BY <1>2, <1>3, <1>4, <1>5 DEF PromptInv, LoopKept

\* A compaction begins or ends.
LEMMA CompactionKeeps ==
  ASSUME PromptInv, UNCHANGED <<promptVars, loopVars, runaway>>,
         compacting' \in BOOLEAN, finishing' \in BOOLEAN
  PROVE  PromptInv'
<1>1. TypeOK'
  BY PromptFacts DEF TypeOK, promptVars, loopVars
<1>2. \A r \in Prompts : Exclusive(r)'
  BY DEF PromptInv, Exclusive, Open, Queued, Launching, Steering, Riding, promptVars
<1>3. OnePromptAtATime' /\ Company' /\ SteersApart' /\ Untouched' /\ Outcomes'
  BY DEF PromptInv, OnePromptAtATime, Company, SteersApart, Untouched, Outcomes, Assigned, Launching,
         promptVars, loopVars
<1> QED BY <1>1, <1>2, <1>3 DEF PromptInv

\* The end of a compaction starts the next prompt if none is active or in launch.
LEMMA DidFinishKeeps == PromptInv /\ DidFinishCompaction => PromptInv'
<1> SUFFICES ASSUME PromptInv, DidFinishCompaction PROVE PromptInv'
  OBVIOUS
<1>1. /\ finishing' = FALSE
      /\ UNCHANGED <<active, steers, steered, state, completion, adrift, loopVars, compacting, compactions>>
  BY DEF DidFinishCompaction
<1>2. CASE active = None /\ launch = None
  <2>1. StartNext(pending)
    BY <1>2 DEF DidFinishCompaction
  <2>2. ASSUME NEW r \in Prompts
        PROVE  /\ r \notin Elements(turns) /\ ~Riding(r)'
               /\ Open(r)' => r \in Elements(pending) \/ Steering(r)' \/ r \in adrift
               /\ r \in Elements(pending) => Open(r)' /\ ~Steering(r)' /\ r \notin adrift
               /\ Steering(r)' => Open(r)' /\ r \notin adrift
               /\ r \in adrift => Open(r)'
               /\ outcome[r] # None => completion'[r] # None
    <3>1. Exclusive(r) /\ ~Launching(r) /\ active # r
      BY <1>2, PromptQueueAssumption DEF PromptInv, Launching
    <3>2. ~Riding(r) /\ r \notin Elements(turns) /\ (outcome[r] # None => completion[r] # None)
      BY <1>2, BetweenPrompts
    <3>3. /\ Open(r)' <=> Open(r)
          /\ Steering(r)' <=> Steering(r)
          /\ Riding(r)' <=> Riding(r)
          /\ Queued(r) <=> r \in Elements(pending)
      BY <1>1 DEF Open, Steering, Riding, Queued
    <3> QED BY <1>1, <3>1, <3>2, <3>3 DEF Exclusive
  <2>3. SteersApart' /\ Untouched'
    BY <1>1 DEF PromptInv, SteersApart, Untouched
  <2>4. StartKeeps(pending)
    BY <1>1, <1>2, <2>1, <2>2, <2>3, PromptFacts DEF StartKeeps, TypeOK, loopVars
  <2> QED BY <2>4, StartNextKeeps
<1>3. CASE ~(active = None /\ launch = None)
  <2>1. UNCHANGED <<pending, launch, runaway>> /\ compacting \in BOOLEAN
    BY <1>3, PromptFacts DEF DidFinishCompaction, TypeOK
  <2> QED BY <1>1, <2>1, CompactionKeeps DEF promptVars
<1> QED BY <1>2, <1>3

\* Every step keeps the invariant.
LEMMA NextKeepsPromptInv == PromptInv /\ [Next]_vars => PromptInv'
<1> SUFFICES ASSUME PromptInv, [Next]_vars PROVE PromptInv'
  OBVIOUS
<1>1. CASE UNCHANGED vars
  <2>1. UNCHANGED <<promptVars, loopVars, runaway>> /\ compacting' \in BOOLEAN /\ finishing' \in BOOLEAN
    BY <1>1, PromptFacts DEF vars, compactionVars, TypeOK
  <2> QED BY <2>1, CompactionKeeps
<1>2. CASE HookPasses \/ TurnAssigned \/ Launched
  BY <1>2, HookPassesKeeps, TurnAssignedKeeps, LaunchedKeeps
<1>3. CASE HookBlocks \/ LaunchFails
  BY <1>3, GiveUpLaunchKeeps DEF HookBlocks, LaunchFails
<1>4. CASE (\E result \in Results : TurnEnds(result)) \/ (\E p \in Prompts : Settle(p))
  BY <1>4, TurnEndsKeeps, SettleKeeps
<1>5. CASE \E s \in steers : SteerAssigned(s) \/ SteerRejected(s) \/ SteerEnds(s)
  BY <1>5, SteerAssignedKeeps, SteerRejectedKeeps, SteerEndsKeeps
<1>6. CASE CompactionBegins \/ CompactionEnds \/ DidFinishCompaction
  <2>1. CASE DidFinishCompaction
    BY <2>1, DidFinishKeeps
  <2>2. CASE CompactionBegins \/ CompactionEnds
    <3>1. /\ UNCHANGED <<promptVars, loopVars, runaway>>
          /\ compacting' \in BOOLEAN /\ finishing' \in BOOLEAN
      BY <2>2, PromptFacts DEF CompactionBegins, CompactionEnds, TypeOK
    <3> QED BY <3>1, CompactionKeeps
  <2> QED BY <1>6, <2>1, <2>2
<1>7. CASE \E p \in Prompts : Enqueue(p) \/ AbortPending(p)
  BY <1>7, EnqueueKeeps, AbortPendingKeeps
<1>8. CASE \E chosen \in SUBSET Prompts : Steer(chosen)
  BY <1>8, SteerKeeps
<1>9. CASE AbortActive \/ Clear \/ OtherTurn
  BY <1>9, AbortActiveKeeps, ClearKeeps, OtherTurnKeeps
<1> QED BY <1>1, <1>2, <1>3, <1>4, <1>5, <1>6, <1>7, <1>8, <1>9 DEF Next, Proceed

\* The inductive invariant holds.
LEMMA PromptInvHolds == Spec => []PromptInv
<1> QED BY InitPromptInv, NextKeepsPromptInv, PTL DEF Spec

\* The scheduler's variables keep their types; no prompt stands twice in the
\* queue.  (AgentPromptService)
THEOREM TypeCorrect == Spec => []TypeOK
<1>1. PromptInv => TypeOK
  BY DEF PromptInv
<1> QED BY <1>1, PromptInvHolds, PTL

\* A prompt without a completion is in exactly one place from which it can get
\* one, and one with a completion is nowhere.  (enqueue, startNext, steer,
\* settle, abort, clear)
THEOREM PromptsInOnePlace == Spec => []InOnePlace
<1>1. PromptInv => InOnePlace
  BY PlacesKnown
<1> QED BY <1>1, PromptInvHolds, PTL

\* One prompt is handed over at a time: active and launching exclude each other,
\* and the loop has at most one turn of a prompt.  (enqueue, startNext)
THEOREM PromptsOneAtATime == Spec => []OnePromptAtATime
<1>1. PromptInv => OnePromptAtATime
  BY DEF PromptInv
<1> QED BY <1>1, PromptInvHolds, PTL

\* Who gets a completion while another rides with him: only the active prompt,
\* and by settle.
LEMMA CompanionsEnd ==
  ASSUME PromptInv, [Next]_vars, NEW p \in Prompts, NEW q \in Prompts,
         q \in steered[p], completion'[p] # completion[p]
  PROVE  completion'[q] = completion'[p] /\ state'[q] = completion'[p]
<1>1. active = p /\ launch = None /\ ~Queued(p) /\ ~Riding(p)
  <2>1. active = p
    BY DEF PromptInv, Company
  <2>2. active # None
    BY <2>1, PromptQueueAssumption
  <2> QED BY <2>1, <2>2, PromptFacts DEF PromptInv, Exclusive
<1>2. CASE \E r \in Prompts : Settle(r)
  <2>1. PICK r \in Prompts : Settle(r)
    BY <1>2
  <2>2. r = p
    BY <1>1, <2>1 DEF Settle
  <2>3. completion'[q] = outcome[p] /\ completion'[p] = outcome[p] /\ state'[q] = outcome[p]
    BY <2>1, <2>2 DEF Settle
  <2> QED BY <2>3
<1>3. CASE HookBlocks \/ LaunchFails
  BY <1>1, <1>3 DEF HookBlocks, LaunchFails, LaunchAt
<1>4. ASSUME NEW ps \in SUBSET Elements(pending), Cancelled(ps) PROVE FALSE
  <2>1. p \notin ps
    BY <1>1 DEF Queued
  <2> QED BY <1>4, <2>1 DEF Cancelled
<1>5. CASE Clear \/ \E r \in Prompts : AbortPending(r)
  BY <1>4, <1>5 DEF Clear, AbortPending
<1>6. CASE UNCHANGED completion
  BY <1>6
<1>7. \/ UNCHANGED completion
      \/ \E r \in Prompts : Settle(r)
      \/ HookBlocks \/ LaunchFails
      \/ Clear \/ \E r \in Prompts : AbortPending(r)
  BY DEF Next, Proceed, vars, promptVars, HookPasses, TurnAssigned, Launched, TurnEnds,
         SteerAssigned, SteerRejected, SteerEnds, CompactionEnds, DidFinishCompaction,
         Enqueue, Steer, AbortActive, OtherTurn, CompactionBegins
<1> QED BY <1>2, <1>3, <1>5, <1>6, <1>7

\* Prompts steered into a turn get its result, in the step that settles it.
\* (settle, steer)
THEOREM CompanionsEndTogether == Spec => SteeredEndTogether
<1>1. PromptInv /\ [Next]_vars
        => [\A p, q \in Prompts :
              q \in steered[p] /\ completion'[p] # completion[p]
                => completion'[q] = completion'[p] /\ state'[q] = completion'[p]]_vars
  BY CompanionsEnd
<1> QED BY <1>1, PromptInvHolds, PTL DEF Spec, SteeredEndTogether
================================================================================

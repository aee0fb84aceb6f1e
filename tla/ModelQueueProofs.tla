--------------------------- MODULE ModelQueueProofs ---------------------------
(***************************************************************************)
(* The capacity of a model is never oversubscribed and its queue is served *)
(* in its order, for all scopes, limits, candidates, operations, windows   *)
(* and orders.                                                             *)
(*                                                                         *)
(* Slots: an admission counts in the scopes of one candidate that fits all *)
(* of them, and a release takes back exactly what the lease names.         *)
(*                                                                         *)
(* Rates: the events a scope keeps may be older than the window, for they  *)
(* are pruned only when an admission looks at the scope; what pruning      *)
(* would leave of them is the window of the clock at every instant         *)
(* (WindowParts), and a limit is compared with that.                       *)
(*                                                                         *)
(* Order: tenants have different ranks (RankIs), so that of the tenants    *)
(* queued the one served last has the last turn (LastTurn).                *)
(***************************************************************************)
EXTENDS ModelQueue, FiniteSets, Functions, FiniteSetTheorems, SequenceTheorems,
        WellFoundedInduction, TLAPS

\* The leases are finitely many, over configured scopes, and a count is a number.
LeasesTyped ==
  /\ IsFiniteSet(DOMAIN leases)
  /\ \A i \in DOMAIN leases : leases[i] \subseteq Scopes
  /\ active \in [Scopes -> Nat]

CapacityInv == LeasesTyped /\ ActiveIsLeased

\* Cardinality, as the instance of ModelCapacity names it.
LEMMA SameCardinality ==
  ASSUME NEW S PROVE Capacity!Cardinality(S) = Cardinality(S)
BY DEF Capacity!Cardinality, Cardinality

\* The holders of a scope are a finite set.
LEMMA HoldersFinite ==
  ASSUME LeasesTyped, NEW s \in Scopes
  PROVE  IsFiniteSet(Capacity!Holders(s)) /\ Cardinality(Capacity!Holders(s)) \in Nat
<1>1. Capacity!Holders(s) \subseteq DOMAIN leases
  BY DEF Capacity!Holders
<1> QED
  BY <1>1, FS_Subset, FS_CardinalityType DEF LeasesTyped

\* acquire_first counts the operation in every scope of its lease, where it fits.
LEMMA AcquireKeeps ==
  ASSUME CapacityInv, NEW op, NEW ordered, NEW touched,
         Capacity!Acquire(op, ordered, touched)
  PROVE  CapacityInv'
<1> DEFINE granted == Capacity!Granted(op, ordered)
<1>1. op.id \notin DOMAIN leases
  BY DEF Capacity!Acquire, Capacity!Admissible
<1>2. /\ active' = [s \in Scopes |-> IF s \in granted THEN active[s] + 1 ELSE active[s]]
      /\ leases' = [i \in DOMAIN leases \cup {op.id} |->
                      IF i = op.id THEN granted ELSE leases[i]]
  BY DEF Capacity!Acquire
<1>3. granted \subseteq Scopes
  BY DEF Capacity!Granted, Capacity!ScopesFor
<1>4. ASSUME NEW s \in granted
      PROVE  Capacity!Within(active[s] + 1, Limits[s].concurrency)
  <2>1. PICK i \in Capacity!Fitting(op, ordered) : s \in Capacity!ScopesFor(op, ordered[i])
    BY <1>4 DEF Capacity!Granted
  <2>2. Capacity!Fits(op, ordered[i])
    BY <2>1 DEF Capacity!Fitting
  <2> QED
    BY <2>1, <2>2 DEF Capacity!Fits, Capacity!FitsScope
<1> HIDE DEF granted
<1>5. LeasesTyped'
  <2>1. IsFiniteSet(DOMAIN leases')
    BY <1>2, FS_AddElement DEF CapacityInv, LeasesTyped
  <2> QED
    BY <1>2, <1>3, <2>1 DEF CapacityInv, LeasesTyped
<1>6. ASSUME NEW s \in Scopes
      PROVE  /\ active'[s] = Cardinality(Capacity!Holders(s)')
             /\ Capacity!Within(active'[s], Limits[s].concurrency)
  <2>1. /\ active[s] = Cardinality(Capacity!Holders(s)) /\ active[s] \in Nat
        /\ Capacity!Within(active[s], Limits[s].concurrency)
    BY SameCardinality DEF CapacityInv, LeasesTyped, ActiveIsLeased, Capacity!ActiveIsLeased
  <2>2. IsFiniteSet(Capacity!Holders(s)) /\ op.id \notin Capacity!Holders(s)
    BY <1>1, HoldersFinite DEF CapacityInv, Capacity!Holders
  <2>3. CASE s \in granted
    <3>1. Capacity!Holders(s)' = Capacity!Holders(s) \cup {op.id}
      BY <1>1, <1>2, <2>3 DEF Capacity!Holders
    <3>2. Cardinality(Capacity!Holders(s)') = Cardinality(Capacity!Holders(s)) + 1
      BY <2>2, <3>1, FS_AddElement
    <3> QED
      BY <1>2, <1>4, <2>1, <2>3, <3>2
  <2>4. CASE s \notin granted
    <3>1. Capacity!Holders(s)' = Capacity!Holders(s)
      BY <1>1, <1>2, <2>4 DEF Capacity!Holders
    <3> QED
      BY <1>2, <2>1, <2>4, <3>1
  <2> QED
    BY <2>3, <2>4
<1> QED
  BY <1>5, <1>6, SameCardinality
  DEF CapacityInv, ActiveIsLeased, Capacity!ActiveIsLeased, Capacity!Holders

\* release takes the operation out of every scope of its lease.
LEMMA ReleaseKeeps ==
  ASSUME CapacityInv, NEW id, Capacity!Release(id)
  PROVE  CapacityInv'
<1>1. id \in DOMAIN leases
  BY DEF Capacity!Release
<1>2. /\ active' = [s \in Scopes |-> IF s \in leases[id] THEN active[s] - 1 ELSE active[s]]
      /\ leases' = [i \in DOMAIN leases \ {id} |-> leases[i]]
  BY DEF Capacity!Release, Capacity!Restrict
<1>3. ASSUME NEW s \in Scopes
      PROVE  /\ active'[s] = Cardinality(Capacity!Holders(s)') /\ active'[s] \in Nat
             /\ Capacity!Within(active'[s], Limits[s].concurrency)
  <2>1. /\ active[s] = Cardinality(Capacity!Holders(s)) /\ active[s] \in Nat
        /\ Capacity!Within(active[s], Limits[s].concurrency)
    BY SameCardinality DEF CapacityInv, LeasesTyped, ActiveIsLeased, Capacity!ActiveIsLeased
  <2>2. IsFiniteSet(Capacity!Holders(s))
    BY HoldersFinite DEF CapacityInv
  <2>3. Capacity!Holders(s)' = Capacity!Holders(s) \ {id}
    BY <1>2 DEF Capacity!Holders
  <2>4. IsFiniteSet(Capacity!Holders(s)') /\ Cardinality(Capacity!Holders(s)') \in Nat
    <3>1. IsFiniteSet(Capacity!Holders(s) \ {id})
      BY <2>2, FS_RemoveElement
    <3>2. Cardinality(Capacity!Holders(s) \ {id}) \in Nat
      BY <3>1, FS_CardinalityType
    <3> QED
      BY <2>3, <3>1, <3>2
  <2>5. CASE s \in leases[id]
    <3>1. id \in Capacity!Holders(s)
      BY <1>1, <2>5 DEF Capacity!Holders
    <3>2. Cardinality(Capacity!Holders(s)') = active[s] - 1
      BY <2>1, <2>2, <2>3, <3>1, FS_RemoveElement
    <3>3. active'[s] = active[s] - 1
      BY <1>2, <2>5
    <3>4. Limits[s].concurrency \in Nat \cup {Unlimited}
      BY QueueAssumption DEF Capacity!CapacityConstants, Capacity!Bound
    <3>5. Capacity!Within(active'[s], Limits[s].concurrency)
      BY <2>1, <3>3, <3>4 DEF Capacity!Within
    <3> QED
      BY <2>4, <3>2, <3>3, <3>5
  <2>6. CASE s \notin leases[id]
    <3>1. Capacity!Holders(s)' = Capacity!Holders(s)
      BY <2>3, <2>6 DEF Capacity!Holders
    <3> QED
      BY <1>2, <2>1, <2>6, <3>1
  <2> QED
    BY <2>5, <2>6
<1>4. LeasesTyped'
  <2>1. IsFiniteSet(DOMAIN leases')
    BY <1>2, FS_RemoveElement DEF CapacityInv, LeasesTyped
  <2>2. active' \in [Scopes -> Nat]
    BY <1>2, <1>3
  <2> QED
    BY <1>2, <2>1, <2>2 DEF CapacityInv, LeasesTyped
<1> QED
  BY <1>3, <1>4, SameCardinality DEF CapacityInv, ActiveIsLeased, Capacity!ActiveIsLeased

LEMMA CapacityInit == Init => CapacityInv
<1> SUFFICES ASSUME Init PROVE CapacityInv
  OBVIOUS
<1>1. leases = <<>> /\ active = [s \in Scopes |-> 0]
  BY DEF Init, Capacity!Init
<1>2. DOMAIN leases = {}
  BY <1>1
<1>3. \A s \in Scopes : Capacity!Holders(s) = {}
  BY <1>2 DEF Capacity!Holders
<1>4. \A s \in Scopes : Capacity!Within(0, Limits[s].concurrency)
  BY QueueAssumption DEF Capacity!CapacityConstants, Capacity!Bound, Capacity!Within
<1> QED
  BY <1>1, <1>2, <1>3, <1>4, FS_EmptySet, SameCardinality
  DEF CapacityInv, LeasesTyped, ActiveIsLeased, Capacity!ActiveIsLeased

LEMMA CapacityStep == CapacityInv /\ [Next]_vars => CapacityInv'
<1> SUFFICES ASSUME CapacityInv, [Next]_vars PROVE CapacityInv'
  OBVIOUS
<1>1. ASSUME UNCHANGED <<active, leases>> PROVE CapacityInv'
  BY <1>1 DEF CapacityInv, LeasesTyped, ActiveIsLeased, Capacity!ActiveIsLeased,
    Capacity!Holders
<1>2. ASSUME NEW o \in Operations, Admit(o) PROVE CapacityInv'
  BY <1>1, <1>2, AcquireKeeps DEF Admit, Capacity!Refuse
<1>3. ASSUME NEW i \in 1 .. Len(queue), ScheduleNext(i) PROVE CapacityInv'
  BY <1>3, AcquireKeeps DEF ScheduleNext
<1>4. ASSUME NEW id \in OperationIds, Complete(id) PROVE CapacityInv'
  BY <1>4, ReleaseKeeps DEF Complete
<1>5. CASE ScheduleNone \/ Tick \/ UNCHANGED vars
  BY <1>1, <1>5 DEF ScheduleNone, Capacity!Refuse, Tick, Capacity!Age, vars, capacityVars
<1>6. ASSUME NEW o \in Operations, Enqueue(o) \/ \E es \in Eligibility : Reevaluate(o, es)
      PROVE  CapacityInv'
  BY <1>1, <1>6 DEF Enqueue, Reevaluate, capacityVars
<1> QED
  BY <1>2, <1>3, <1>4, <1>5, <1>6 DEF Next

\* ActiveIsLeased (acquire_first, release): in every scope the slots taken are the
\* leases that name it, and never more than its concurrency limit.
THEOREM SlotsAreLeases == Spec => []ActiveIsLeased
BY CapacityInit, CapacityStep, PTL DEF Spec, CapacityInv

--------------------------------------------------------------------------------
(* Induction over numbers, in the form of a least counterexample *)

Below == {p \in Nat \X Nat : p[1] < p[2]}

LEMMA BelowIsWellFounded == IsWellFoundedOn(Below, Nat)
<1>1. Below = OpToRel(<, Nat)
  BY DEF Below, OpToRel
<1> QED
  BY <1>1, NatLessThanWellFounded

LEMMA SmallestNumber ==
  ASSUME NEW T \in SUBSET Nat, T # {}
  PROVE \E n \in T : \A m \in T : n <= m
<1>1. PICK n \in T : \A m \in T : <<m, n>> \notin Below
  BY WFMin, BelowIsWellFounded
<1>2. ASSUME NEW m \in T PROVE n <= m
  <2>1. <<m, n>> \in Nat \X Nat /\ <<m, n>>[1] = m /\ <<m, n>>[2] = n
    OBVIOUS
  <2>2. ~ (m < n)
    BY <1>1, <2>1 DEF Below
  <2> QED BY <2>1, <2>2
<1> QED
  BY <1>2

--------------------------------------------------------------------------------
(* Rolling windows *)

Event == [age: Nat, tokens: Nat]

\* The first k of the events are old, the next one is not.
Old(es, k) ==
  /\ k \in 0 .. Len(es)
  /\ \A i \in 1 .. k : es[i].age >= Window
  /\ k < Len(es) => es[k + 1].age < Window

LEMMA WindowType == Window \in Nat \ {0}
BY QueueAssumption DEF Capacity!CapacityConstants

\* The events that leave are the old ones at the left end.
LEMMA YoungerIs ==
  ASSUME NEW es \in Seq(Event), NEW k, Old(es, k)
  PROVE  Capacity!Younger(es, Window) = SubSeq(es, k + 1, Len(es))
<1> DEFINE old == {i \in DOMAIN es : \A j \in 1 .. i : es[j].age >= Window}
<1>1. old = 1 .. k
  <2>1. ASSUME NEW i \in old PROVE i \in 1 .. k
    <3>1. i \in 1 .. Len(es)
      OBVIOUS
    <3>2. CASE i > k
      <4>1. k + 1 \in 1 .. i /\ k < Len(es)
        BY <3>1, <3>2 DEF Old
      <4>2. es[k + 1].age >= Window /\ es[k + 1].age < Window
        BY <4>1, <2>1 DEF Old
      <4>3. es[k + 1] \in Event
        BY <4>1, <3>1 DEF Old
      <4> QED BY <4>2, <4>3, WindowType DEF Event
    <3> QED BY <3>1, <3>2 DEF Old
  <2>2. ASSUME NEW i \in 1 .. k PROVE i \in old
    BY DEF Old
  <2> QED BY <2>1, <2>2
<1>2. Capacity!Cardinality(old) = k
  <2>1. Cardinality(1 .. k) = k
    BY FS_Interval DEF Old
  <2> QED BY <1>1, <2>1 DEF Capacity!Cardinality, Cardinality
<1> QED
  BY <1>2 DEF Capacity!Younger

LEMMA OldExists ==
  ASSUME NEW es \in Seq(Event)
  PROVE  \E k : Old(es, k)
<1> DEFINE T == {i \in 0 .. Len(es) : i = Len(es) \/ es[i + 1].age < Window}
<1>1. T \in SUBSET Nat /\ T # {}
  OBVIOUS
<1>2. PICK k \in T : \A m \in T : k <= m
  <2> HIDE DEF T
  <2> QED BY <1>1, SmallestNumber
<1>3. ASSUME NEW i \in 1 .. k PROVE es[i].age >= Window
  <2>0. i - 1 \in 0 .. Len(es) /\ i - 1 < k
    BY <1>2
  <2>1. i - 1 \notin T
    <3>1. ~ (k <= i - 1)
      BY <2>0, <1>2
    <3> HIDE DEF T
    <3> QED BY <3>1, <1>2
  <2>2. es[i] \in Event /\ ~ (es[i].age < Window)
    BY <2>0, <2>1
  <2> QED BY <2>2, WindowType DEF Event
<1> QED
  BY <1>2, <1>3 DEF Old

\* The sums of the first tokens, for each number of events.
Sums(es, G) ==
  /\ G \in [0 .. Len(es) -> Nat]
  /\ G[0] = 0
  /\ \A n \in 1 .. Len(es) : G[n] = G[n - 1] + es[n].tokens

LEMMA SumsExist ==
  ASSUME NEW es \in Seq(Event)
  PROVE  \E G : Sums(es, G)
<1> DEFINE Part(n, G) == /\ G \in [0 .. n -> Nat] /\ G[0] = 0
                         /\ \A m \in 1 .. n : G[m] = G[m - 1] + es[m].tokens
           B == {n \in 0 .. Len(es) : ~ \E G : Part(n, G)}
<1>1. B = {}
  <2> SUFFICES ASSUME B # {} PROVE FALSE
    OBVIOUS
  <2>1. PICK n \in B : \A m \in B : n <= m
    <3>1. B \in SUBSET Nat
      OBVIOUS
    <3> HIDE DEF B
    <3> QED BY <3>1, SmallestNumber
  <2>2. n # 0
    <3>1. Part(0, [m \in 0 .. 0 |-> 0])
      OBVIOUS
    <3> QED BY <2>1, <3>1
  <2>3. n \in 1 .. Len(es) /\ n - 1 \in 0 .. Len(es) /\ ~ (n <= n - 1)
    BY <2>1, <2>2
  <2>7. n - 1 \notin B
    <3> HIDE DEF B
    <3> QED BY <2>1, <2>3
  <2>4. PICK G : Part(n - 1, G)
    BY <2>3, <2>7
  <2>5. es[n].tokens \in Nat
    <3>1. es[n] \in Event
      BY <2>3
    <3> QED BY <3>1 DEF Event
  <2>6. Part(n, [m \in 0 .. n |-> IF m = n THEN G[n - 1] + es[n].tokens ELSE G[m]])
    BY <2>3, <2>4, <2>5
  <2> QED BY <2>1, <2>6
<1>2. Len(es) \in 0 .. Len(es)
  OBVIOUS
<1> QED
  BY <1>1, <1>2 DEF Sums

\* They solve the recursion, which has one solution.
LEMMA SumIs ==
  ASSUME NEW es \in Seq(Event), NEW G, Sums(es, G)
  PROVE  Capacity!SumOfTokens(es) = G[Len(es)]
<1> DEFINE Solves(g) == g = [n \in 0 .. Len(es) |-> IF n = 0 THEN 0 ELSE g[n - 1] + es[n].tokens]
           R == CHOOSE g : Solves(g)
<1>1. Solves(G)
  BY DEF Sums
<1>2. Solves(R)
  <2> HIDE DEF Solves
  <2> QED BY <1>1
<1>3. Capacity!SumOfTokens(es) = R[Len(es)]
  BY DEF Capacity!SumOfTokens
<1> HIDE DEF R
<1> DEFINE B == {n \in 0 .. Len(es) : R[n] # G[n]}
<1>4. B = {}
  <2> SUFFICES ASSUME B # {} PROVE FALSE
    OBVIOUS
  <2>1. PICK n \in B : \A m \in B : n <= m
    <3>1. B \in SUBSET Nat
      OBVIOUS
    <3> HIDE DEF B
    <3> QED BY <3>1, SmallestNumber
  <2>2. R[n] = IF n = 0 THEN 0 ELSE R[n - 1] + es[n].tokens
    BY <1>2, <2>1
  <2>3. G[n] = IF n = 0 THEN 0 ELSE G[n - 1] + es[n].tokens
    BY <1>1, <2>1
  <2>4. n # 0 => R[n - 1] = G[n - 1]
    BY <2>1
  <2> QED BY <2>1, <2>2, <2>3, <2>4
<1>5. Len(es) \in 0 .. Len(es)
  OBVIOUS
<1> QED
  BY <1>3, <1>4, <1>5

LEMMA YoungerParts ==
  ASSUME NEW es \in Seq(Event), NEW k, Old(es, k)
  PROVE  LET w == Capacity!Younger(es, Window)
         IN /\ w \in Seq(Event) /\ Len(w) = Len(es) - k /\ k \in 0 .. Len(es)
            /\ \A i \in 1 .. Len(es) - k : w[i] = es[k + i]
            /\ w = SubSeq(es, k + 1, Len(es))
<1>1. k \in 0 .. Len(es) /\ Len(es) \in Nat
  BY DEF Old
<1>2. \A i \in k + 1 .. Len(es) : es[i] \in Event
  BY <1>1
<1>3. SubSeq(es, k + 1, Len(es)) \in Seq(Event)
  BY <1>1, <1>2, SubSeqProperties
<1>4. Len(SubSeq(es, k + 1, Len(es))) = Len(es) - k
      /\ \A i \in 1 .. Len(es) - k : SubSeq(es, k + 1, Len(es))[i] = es[k + i]
  BY <1>1
<1> QED
  BY <1>1, <1>3, <1>4, YoungerIs

\* What is young already stays whole.
LEMMA YoungStays ==
  ASSUME NEW es \in Seq(Event), Old(es, 0)
  PROVE  Capacity!Younger(es, Window) = es
<1> DEFINE w == Capacity!Younger(es, Window)
<1>1. w \in Seq(Event) /\ Len(w) = Len(es) /\ \A i \in 1 .. Len(es) : w[i] = es[i]
  BY YoungerParts
<1> HIDE DEF w
<1>2. w = es
  BY <1>1, SeqEqual
<1> QED
  BY <1>2 DEF w

\* Pruning twice is pruning once.
LEMMA YoungerIsYoung ==
  ASSUME NEW es \in Seq(Event)
  PROVE  LET w == Capacity!Younger(es, Window)
         IN w \in Seq(Event) /\ Old(w, 0) /\ Capacity!Younger(w, Window) = w
<1> DEFINE w == Capacity!Younger(es, Window)
<1>1. PICK k : Old(es, k)
  BY OldExists
<1>2. w \in Seq(Event) /\ Len(w) = Len(es) - k /\ k \in 0 .. Len(es)
      /\ \A i \in 1 .. Len(es) - k : w[i] = es[k + i]
  BY <1>1, YoungerParts
<1>3. Old(w, 0)
  <2> HIDE DEF w
  <2> QED BY <1>1, <1>2 DEF Old
<1>4. Capacity!Younger(w, Window) = w
  <2> HIDE DEF w
  <2> QED BY <1>2, <1>3, YoungStays
<1> QED
  BY <1>2, <1>3, <1>4

LEMMA YoungerAppend ==
  ASSUME NEW es \in Seq(Event), Old(es, 0), NEW e \in Event, e.age < Window
  PROVE  Append(es, e) \in Seq(Event) /\ Capacity!Younger(Append(es, e), Window) = Append(es, e)
<1>1. Append(es, e) \in Seq(Event)
  OBVIOUS
<1>2. Old(Append(es, e), 0)
  <2>1. Append(es, e)[1] = IF Len(es) = 0 THEN e ELSE es[1]
    OBVIOUS
  <2> QED BY <2>1, <1>1 DEF Old
<1> QED
  BY <1>1, <1>2, YoungStays

LEMMA OlderParts ==
  ASSUME NEW e \in Event
  PROVE  /\ Capacity!Older(e) \in Event /\ Capacity!Older(e).tokens = e.tokens
         /\ e.age >= Window => Capacity!Older(e).age >= Window
BY WindowType DEF Event, Capacity!Older

LEMMA AgedParts ==
  ASSUME NEW es \in Seq(Event)
  PROVE  /\ Capacity!Aged(es) \in Seq(Event)
         /\ Len(Capacity!Aged(es)) = Len(es)
         /\ \A i \in 1 .. Len(es) : Capacity!Aged(es)[i] = Capacity!Older(es[i])
<1>1. \A e \in Event : Capacity!Older(e) \in Event
  BY OlderParts
<1>2. \A i \in 1 .. Len(es) : es[i] \in Event
  OBVIOUS
<1>3. Capacity!Aged(es) = [i \in 1 .. Len(es) |-> Capacity!Older(es[i])]
  BY DEF Capacity!Aged
<1>4. Capacity!Aged(es) \in Seq(Event) /\ Len(Capacity!Aged(es)) = Len(es)
  BY <1>1, <1>2, <1>3
<1> QED
  BY <1>1, <1>2, <1>3, <1>4

\* What was old is older: a tick leaves of all events what it leaves of the young ones.
LEMMA YoungerAged ==
  ASSUME NEW es \in Seq(Event)
  PROVE  Capacity!Younger(Capacity!Aged(es), Window)
           = Capacity!Younger(Capacity!Aged(Capacity!Younger(es, Window)), Window)
<1> DEFINE w == Capacity!Younger(es, Window)
           ae == Capacity!Aged(es)
           aw == Capacity!Aged(w)
           x == Capacity!Younger(ae, Window)
           y == Capacity!Younger(aw, Window)
<1>1. PICK k : Old(es, k)
  BY OldExists
<1>2. w \in Seq(Event) /\ Len(w) = Len(es) - k /\ k \in 0 .. Len(es)
      /\ \A i \in 1 .. Len(es) - k : w[i] = es[k + i]
  BY <1>1, YoungerParts
<1>3. ae \in Seq(Event) /\ Len(ae) = Len(es)
      /\ \A i \in 1 .. Len(es) : ae[i] = Capacity!Older(es[i])
  BY AgedParts
<1>4. aw \in Seq(Event) /\ Len(aw) = Len(w)
      /\ \A i \in 1 .. Len(w) : aw[i] = Capacity!Older(w[i])
  <2> HIDE DEF w
  <2> QED BY <1>2, AgedParts
<1> HIDE DEF w, ae, aw
<1>5. PICK m : Old(aw, m)
  BY <1>4, OldExists
<1>6. ASSUME NEW i \in 1 .. Len(es) - k PROVE ae[k + i] = aw[i]
  <2>1. k + i \in 1 .. Len(es) /\ i \in 1 .. Len(w)
    BY <1>2
  <2> QED BY <1>2, <1>3, <1>4, <2>1
<1>7. Old(ae, k + m)
  <2>1. m \in 0 .. Len(es) - k /\ Len(aw) = Len(es) - k /\ k \in 0 .. Len(es) /\ Len(es) \in Nat
    BY <1>2, <1>4, <1>5 DEF Old
  <2>2. ASSUME NEW i \in 1 .. k + m PROVE ae[i].age >= Window
    <3>1. CASE i <= k
      <4>1. i \in 1 .. k /\ i \in 1 .. Len(es)
        BY <3>1, <2>1
      <4>2. es[i] \in Event /\ es[i].age >= Window /\ ae[i] = Capacity!Older(es[i])
        BY <4>1, <1>1, <1>3 DEF Old
      <4> QED BY <4>2, OlderParts
    <3>2. CASE i > k
      <4>1. i - k \in 1 .. m /\ ae[k + (i - k)] = aw[i - k] /\ k + (i - k) = i
        BY <3>2, <2>1, <1>6
      <4> QED BY <4>1, <1>5 DEF Old
    <3> QED BY <3>1, <3>2, <2>1
  <2>3. ASSUME k + m < Len(ae) PROVE ae[k + m + 1].age < Window
    <3>1. m + 1 \in 1 .. Len(es) - k /\ m < Len(aw) /\ k + (m + 1) = k + m + 1
      BY <2>3, <2>1, <1>3
    <3> QED BY <3>1, <1>5, <1>6 DEF Old
  <2> QED BY <2>1, <2>2, <2>3, <1>3 DEF Old
<1>8. x \in Seq(Event) /\ Len(x) = Len(es) - (k + m)
      /\ \A i \in 1 .. Len(es) - (k + m) : x[i] = ae[k + m + i]
  BY <1>3, <1>7, YoungerParts
<1>9. y \in Seq(Event) /\ Len(y) = Len(es) - k - m /\ m \in 0 .. Len(es) - k
      /\ \A i \in 1 .. Len(es) - k - m : y[i] = aw[m + i]
  BY <1>2, <1>4, <1>5, YoungerParts
<1>10. x = y
  <2> HIDE DEF x, y
  <2>1. Len(x) = Len(y)
    BY <1>2, <1>8, <1>9
  <2>2. ASSUME NEW i \in 1 .. Len(x) PROVE x[i] = y[i]
    <3>1. i \in 1 .. Len(es) - (k + m) /\ i \in 1 .. Len(es) - k - m /\ m + i \in 1 .. Len(es) - k
          /\ k + (m + i) = k + m + i
      BY <1>2, <1>8, <1>9
    <3> QED BY <3>1, <1>6, <1>8, <1>9
  <2> QED BY <1>8, <1>9, <2>1, <2>2, SeqEqual
<1> QED
  BY <1>10 DEF w, ae, aw

LEMMA SumOfAged ==
  ASSUME NEW es \in Seq(Event)
  PROVE  Capacity!SumOfTokens(Capacity!Aged(es)) = Capacity!SumOfTokens(es)
<1>1. PICK G : Sums(es, G)
  BY SumsExist
<1>2. Capacity!Aged(es) \in Seq(Event) /\ Len(Capacity!Aged(es)) = Len(es)
  BY AgedParts
<1>3. ASSUME NEW i \in 1 .. Len(es) PROVE Capacity!Aged(es)[i].tokens = es[i].tokens
  <2>1. es[i] \in Event
    OBVIOUS
  <2> QED BY <2>1, AgedParts, OlderParts
<1>4. Sums(Capacity!Aged(es), G)
  BY <1>1, <1>2, <1>3 DEF Sums
<1> QED
  BY <1>1, <1>2, <1>4, SumIs

LEMMA SumOfAppend ==
  ASSUME NEW es \in Seq(Event), NEW e \in Event
  PROVE  /\ Capacity!SumOfTokens(Append(es, e)) = Capacity!SumOfTokens(es) + e.tokens
         /\ Capacity!SumOfTokens(es) \in Nat
<1> DEFINE more == Append(es, e)
<1>1. more \in Seq(Event) /\ Len(more) = Len(es) + 1 /\ more[Len(es) + 1] = e
      /\ \A i \in 1 .. Len(es) : more[i] = es[i]
  OBVIOUS
<1> HIDE DEF more
<1>2. PICK G : Sums(more, G)
  BY <1>1, SumsExist
<1> DEFINE H == [n \in 0 .. Len(es) |-> G[n]]
<1>3. Sums(es, H)
  BY <1>1, <1>2 DEF Sums
<1>4. G[Len(es) + 1] = G[Len(es)] + e.tokens
  BY <1>1, <1>2 DEF Sums
<1>5. H[Len(es)] = G[Len(es)] /\ G[Len(es)] \in Nat
  BY <1>1, <1>2 DEF Sums
<1>6. Capacity!SumOfTokens(more) = G[Len(es) + 1] /\ Capacity!SumOfTokens(es) = H[Len(es)]
  <2> HIDE DEF H
  <2> QED BY <1>1, <1>2, <1>3, SumIs
<1> HIDE DEF H
<1> QED
  BY <1>4, <1>5, <1>6 DEF more

\* Pruning takes tokens away, at most all.
LEMMA SumOfYounger ==
  ASSUME NEW es \in Seq(Event)
  PROVE  LET w == Capacity!Younger(es, Window)
         IN Len(w) <= Len(es) /\ Capacity!SumOfTokens(w) <= Capacity!SumOfTokens(es)
            /\ Capacity!SumOfTokens(w) \in Nat /\ Capacity!SumOfTokens(es) \in Nat
<1> DEFINE w == Capacity!Younger(es, Window)
<1>1. PICK k : Old(es, k)
  BY OldExists
<1>2. w \in Seq(Event) /\ Len(w) = Len(es) - k /\ k \in 0 .. Len(es)
      /\ \A i \in 1 .. Len(es) - k : w[i] = es[k + i]
  BY <1>1, YoungerParts
<1> HIDE DEF w
<1>3. PICK G : Sums(es, G)
  BY SumsExist
<1>4. PICK H : Sums(w, H)
  BY <1>2, SumsExist
<1> DEFINE B == {n \in 0 .. Len(w) : G[k + n] # G[k] + H[n]}
<1>5. B = {}
  <2> SUFFICES ASSUME B # {} PROVE FALSE
    OBVIOUS
  <2>1. PICK n \in B : \A m \in B : n <= m
    <3>1. B \in SUBSET Nat
      OBVIOUS
    <3> HIDE DEF B
    <3> QED BY <3>1, SmallestNumber
  <2>2. G[k] \in Nat /\ H[0] = 0
    BY <1>2, <1>3, <1>4 DEF Sums
  <2>3. n # 0 /\ n \in 0 .. Len(w)
    BY <2>1, <2>2, <1>2
  <2>4. n \in 1 .. Len(w) /\ n - 1 \in 0 .. Len(w) /\ ~ (n <= n - 1)
    BY <2>3
  <2>5. n - 1 \notin B
    <3> HIDE DEF B
    <3> QED BY <2>1, <2>4
  <2>6. G[k + (n - 1)] = G[k] + H[n - 1]
    BY <2>4, <2>5
  <2>7. k + n \in 1 .. Len(es) /\ (k + n) - 1 = k + (n - 1) /\ w[n] = es[k + n]
    BY <1>2, <2>4
  <2>8. G[k + n] = G[k + (n - 1)] + es[k + n].tokens
    <3>1. \A m \in 1 .. Len(es) : G[m] = G[m - 1] + es[m].tokens
      BY <1>3 DEF Sums
    <3> HIDE DEF B
    <3>2. G[k + n] = G[(k + n) - 1] + es[k + n].tokens
      BY <3>1, <2>7, Zenon
    <3> QED BY <3>2, <2>7, Zenon
  <2>11. H[n] = H[n - 1] + es[k + n].tokens
    BY <1>4, <2>4, <2>7 DEF Sums
  <2>9. H[n - 1] \in Nat /\ es[k + n].tokens \in Nat
    <3>1. es[k + n] \in Event
      BY <2>7
    <3> QED BY <3>1, <1>4, <2>4 DEF Sums, Event
  <2>10. G[k + n] = G[k] + H[n]
    BY <2>2, <2>6, <2>7, <2>8, <2>9, <2>11
  <2> QED BY <2>1, <2>10
<1>6. G[k + Len(w)] = G[k] + H[Len(w)] /\ k + Len(w) = Len(es)
  <2>1. Len(w) \in 0 .. Len(w)
    BY <1>2
  <2> QED BY <1>2, <1>5, <2>1
<1>7. G[k] \in Nat /\ H[Len(w)] \in Nat /\ G[Len(es)] \in Nat
  <2>1. k \in 0 .. Len(es) /\ Len(es) \in 0 .. Len(es) /\ Len(w) \in 0 .. Len(w)
    BY <1>2
  <2>2. G \in [0 .. Len(es) -> Nat] /\ H \in [0 .. Len(w) -> Nat]
    BY <1>3, <1>4 DEF Sums
  <2> QED BY <2>1, <2>2
<1>8. Capacity!SumOfTokens(w) = H[Len(w)] /\ Capacity!SumOfTokens(es) = G[Len(es)]
  BY <1>2, <1>3, <1>4, SumIs
<1>9. Len(w) <= Len(es)
  BY <1>2
<1>10. Capacity!SumOfTokens(w) <= Capacity!SumOfTokens(es) /\ Capacity!SumOfTokens(w) \in Nat
       /\ Capacity!SumOfTokens(es) \in Nat
  BY <1>6, <1>7, <1>8
<1> QED
  BY <1>9, <1>10 DEF w

--------------------------------------------------------------------------------
(* Rates *)

\* The clock's window is what pruning would leave of the events of the scope, whenever
\* they were pruned last, and it is within the limits.
WindowParts(s) ==
  /\ events[s] \in Seq(Event)
  /\ window[s] = Capacity!Younger(events[s], Window)
  /\ Capacity!Within(Len(window[s]), Limits[s].requests)
  /\ Capacity!Within(Capacity!SumOfTokens(window[s]), Limits[s].tokens)

RateInv ==
  /\ queue \in Seq(Operations)
  /\ DOMAIN events = Scopes /\ DOMAIN window = Scopes
  /\ \A s \in Scopes : WindowParts(s)

LEMMA LimitTypes ==
  ASSUME NEW s \in Scopes
  PROVE  /\ Limits[s].requests \in Nat \cup {Unlimited} /\ Limits[s].tokens \in Nat \cup {Unlimited}
         /\ Unlimited \notin Nat
BY QueueAssumption DEF Capacity!CapacityConstants, Capacity!Bound

LEMMA WithinLess ==
  ASSUME NEW m \in Nat, NEW n \in Nat, m <= n, NEW limit \in Nat \cup {Unlimited},
         Capacity!Within(n, limit)
  PROVE  Capacity!Within(m, limit)
BY DEF Capacity!Within

\* A scope that a call prunes or leaves alone.
LEMMA PrunedScope ==
  ASSUME NEW s \in Scopes, WindowParts(s), window'[s] = window[s],
         events'[s] \in {events[s], Capacity!Pruned(s)}
  PROVE  WindowParts(s)'
<1>1. events'[s] \in Seq(Event) /\ window'[s] = Capacity!Younger(events'[s], Window)
  BY YoungerIsYoung DEF WindowParts, Capacity!Pruned
<1> QED
  BY <1>1 DEF WindowParts

\* A scope that counts an operation has room for it in its window.
LEMMA GrantedScope ==
  ASSUME NEW s \in Scopes, WindowParts(s), NEW tokens \in Nat,
         Capacity!FitsScope(s, tokens),
         events'[s] = Append(Capacity!Pruned(s), [age |-> 0, tokens |-> tokens]),
         window'[s] = Append(window[s], [age |-> 0, tokens |-> tokens])
  PROVE  WindowParts(s)'
<1> DEFINE w == window[s]
           e == [age |-> 0, tokens |-> tokens]
<1>1. w \in Seq(Event) /\ Old(w, 0) /\ w = Capacity!Pruned(s)
  BY YoungerIsYoung DEF WindowParts, Capacity!Pruned
<1>2. e \in Event /\ e.age < Window /\ e.tokens = tokens
  BY WindowType DEF Event
<1>3. /\ Capacity!Within(Len(w) + 1, Limits[s].requests)
      /\ Capacity!Within(Capacity!SumOfTokens(w) + tokens, Limits[s].tokens)
  BY <1>1 DEF Capacity!FitsScope
<1>4. events'[s] = Append(w, e) /\ window'[s] = Append(w, e)
  BY <1>1
<1> HIDE DEF w, e
<1>5. Append(w, e) \in Seq(Event) /\ Capacity!Younger(Append(w, e), Window) = Append(w, e)
  BY <1>1, <1>2, YoungerAppend
<1>6. Len(Append(w, e)) = Len(w) + 1
      /\ Capacity!SumOfTokens(Append(w, e)) = Capacity!SumOfTokens(w) + tokens
  BY <1>1, <1>2, SumOfAppend
<1> QED
  BY <1>3, <1>4, <1>5, <1>6 DEF WindowParts

\* A tick only takes from a window.
LEMMA AgedScope ==
  ASSUME NEW s \in Scopes, WindowParts(s), events'[s] = Capacity!Aged(events[s]),
         window'[s] = Capacity!Younger(Capacity!Aged(window[s]), Window)
  PROVE  WindowParts(s)'
<1> DEFINE w == window[s]
           a == Capacity!Aged(w)
<1>1. w \in Seq(Event) /\ events[s] \in Seq(Event)
  BY YoungerIsYoung DEF WindowParts
<1>2. events'[s] \in Seq(Event) /\ window'[s] = Capacity!Younger(events'[s], Window)
  BY <1>1, AgedParts, YoungerAged DEF WindowParts
<1>3. a \in Seq(Event) /\ Len(a) = Len(w) /\ Capacity!SumOfTokens(a) = Capacity!SumOfTokens(w)
  BY <1>1, AgedParts, SumOfAged
<1>4. /\ Len(window'[s]) <= Len(w) /\ Capacity!SumOfTokens(window'[s]) <= Capacity!SumOfTokens(w)
      /\ Capacity!SumOfTokens(window'[s]) \in Nat /\ Capacity!SumOfTokens(w) \in Nat
      /\ Len(window'[s]) \in Nat /\ Len(w) \in Nat
  <2> HIDE DEF a, w
  <2>1. Capacity!Younger(a, Window) \in Seq(Event)
    BY <1>3, YoungerIsYoung
  <2>2. window'[s] = Capacity!Younger(a, Window)
    BY DEF a, w
  <2> QED BY <1>1, <1>3, <2>1, <2>2, SumOfYounger
<1>5. /\ Capacity!Within(Len(window'[s]), Limits[s].requests)
      /\ Capacity!Within(Capacity!SumOfTokens(window'[s]), Limits[s].tokens)
  <2>1. /\ Capacity!Within(Len(w), Limits[s].requests)
        /\ Capacity!Within(Capacity!SumOfTokens(w), Limits[s].tokens)
    BY DEF WindowParts
  <2> HIDE DEF w
  <2> QED BY <1>4, <2>1, LimitTypes, WithinLess
<1> QED
  BY <1>2, <1>5 DEF WindowParts

\* acquire_first prunes every scope it counts in, and all of those have room.
LEMMA AcquireInRate ==
  ASSUME RateInv, NEW op, op.tokens \in Nat, NEW ordered, NEW touched,
         Capacity!Acquire(op, ordered, touched), queue' \in Seq(Operations)
  PROVE  RateInv'
<1> DEFINE granted == Capacity!Granted(op, ordered)
           reached == touched \cup Capacity!Touched(op, ordered)
           e == [age |-> 0, tokens |-> op.tokens]
<1>1. op.id \notin DOMAIN leases
  BY DEF Capacity!Acquire, Capacity!Admissible
<1>2. granted \subseteq reached
  BY <1>1 DEF Capacity!Granted, Capacity!Touched, Capacity!Fitting
<1>3. /\ events' = [s \in Scopes |->
           LET kept == IF s \in reached THEN Capacity!Pruned(s) ELSE events[s]
           IN IF s \in granted THEN Append(kept, e) ELSE kept]
      /\ window' = [s \in Scopes |-> IF s \in granted THEN Append(window[s], e) ELSE window[s]]
  BY DEF Capacity!Acquire, Capacity!Recorded, Capacity!Counted
<1>4. ASSUME NEW s \in Scopes PROVE WindowParts(s)'
  <2>1. WindowParts(s)
    BY DEF RateInv
  <2>2. CASE s \in granted
    <3>1. PICK i \in Capacity!Fitting(op, ordered) : s \in Capacity!ScopesFor(op, ordered[i])
      BY <2>2 DEF Capacity!Granted
    <3>2. Capacity!FitsScope(s, op.tokens)
      BY <3>1 DEF Capacity!Fitting, Capacity!Fits
    <3> HIDE DEF granted, reached
    <3>3. events'[s] = Append(Capacity!Pruned(s), e) /\ window'[s] = Append(window[s], e)
      BY <1>2, <1>3, <2>2
    <3> QED BY <2>1, <3>2, <3>3, GrantedScope
  <2>3. CASE s \notin granted
    <3> HIDE DEF granted, reached
    <3>1. events'[s] \in {events[s], Capacity!Pruned(s)} /\ window'[s] = window[s]
      BY <1>3, <2>3
    <3> QED BY <2>1, <3>1, PrunedScope
  <2> QED BY <2>2, <2>3
<1>5. DOMAIN events' = Scopes /\ DOMAIN window' = Scopes
  BY <1>3
<1> QED
  BY <1>4, <1>5 DEF RateInv

LEMMA RefuseInRate ==
  ASSUME RateInv, NEW touched, Capacity!Refuse(touched), queue' \in Seq(Operations)
  PROVE  RateInv'
<1>1. /\ events' = [s \in Scopes |-> IF s \in touched THEN Capacity!Pruned(s) ELSE events[s]]
      /\ window' = window
  BY DEF Capacity!Refuse, Capacity!Recorded
<1>2. ASSUME NEW s \in Scopes PROVE WindowParts(s)'
  BY <1>1, PrunedScope DEF RateInv
<1> QED
  BY <1>1, <1>2 DEF RateInv

LEMMA RateStep == RateInv /\ [Next]_vars => RateInv'
<1> SUFFICES ASSUME RateInv, [Next]_vars PROVE RateInv'
  OBVIOUS
<1>1. \A o \in Operations : o.tokens \in Nat
  BY QueueAssumption
<1>2. queue \in Seq(Operations)
  BY DEF RateInv
<1>3. ASSUME UNCHANGED <<events, window>>, queue' \in Seq(Operations) PROVE RateInv'
  BY <1>3 DEF RateInv, WindowParts
<1>4. ASSUME NEW o \in Operations, Admit(o) PROVE RateInv'
  BY <1>1, <1>2, <1>4, AcquireInRate, RefuseInRate DEF Admit
<1>5. ASSUME NEW i \in 1 .. Len(queue), ScheduleNext(i) PROVE RateInv'
  <2>1. queue[i] \in Operations
    BY <1>2
  <2>2. queue' = SubSeq(queue, 1, i - 1) \o SubSeq(queue, i + 1, Len(queue))
    BY <1>5 DEF ScheduleNext, RemoveAt
  <2>3. SubSeq(queue, 1, i - 1) \in Seq(Operations) /\ SubSeq(queue, i + 1, Len(queue)) \in Seq(Operations)
    BY <1>2, SubSeqProperties
  <2>4. queue' \in Seq(Operations)
    BY <2>2, <2>3
  <2>5. queue[i].tokens \in Nat
    BY <1>1, <2>1
  <2> QED BY <1>5, <2>4, <2>5, AcquireInRate DEF ScheduleNext
<1>6. CASE ScheduleNone
  BY <1>2, <1>6, RefuseInRate DEF ScheduleNone
<1>7. CASE Tick
  <2>1. /\ events' = [s \in Scopes |-> Capacity!Aged(events[s])] /\ queue' = queue
        /\ window' = [s \in Scopes |-> Capacity!Younger(Capacity!Aged(window[s]), Window)]
    BY <1>7 DEF Tick, Capacity!Age
  <2>2. ASSUME NEW s \in Scopes PROVE WindowParts(s)'
    BY <2>1, AgedScope DEF RateInv
  <2> QED BY <2>1, <2>2, <1>2 DEF RateInv
<1>8. ASSUME NEW id \in OperationIds, Complete(id) PROVE RateInv'
  BY <1>2, <1>3, <1>8 DEF Complete, Capacity!Release
<1>9. ASSUME NEW o \in Operations, Enqueue(o) \/ \E es \in Eligibility : Reevaluate(o, es)
      PROVE  RateInv'
  <2>1. queue' \in Seq(Operations)
    BY <1>2, <1>9 DEF Enqueue, Reevaluate
  <2> QED BY <2>1, <1>3, <1>9 DEF Enqueue, Reevaluate, capacityVars
<1>10. CASE UNCHANGED vars
  BY <1>2, <1>3, <1>10 DEF vars, capacityVars
<1> QED
  BY <1>4, <1>5, <1>6, <1>7, <1>8, <1>9, <1>10 DEF Next

LEMMA RateInit == Init => RateInv
<1> SUFFICES ASSUME Init PROVE RateInv
  OBVIOUS
<1>1. events = [s \in Scopes |-> <<>>] /\ window = [s \in Scopes |-> <<>>] /\ queue = <<>>
  BY DEF Init, Capacity!Init
<1>2. <<>> \in Seq(Event) /\ Old(<<>>, 0) /\ Len(<<>>) = 0 /\ <<>> \in Seq(Operations)
  BY DEF Old
<1>3. Capacity!Younger(<<>>, Window) = <<>>
  BY <1>2, YoungStays
<1>4. Capacity!SumOfTokens(<<>>) = 0
  <2>1. PICK G : Sums(<<>>, G)
    BY <1>2, SumsExist
  <2> QED BY <1>2, <2>1, SumIs DEF Sums
<1>5. ASSUME NEW s \in Scopes PROVE WindowParts(s)
  BY <1>1, <1>2, <1>3, <1>4, LimitTypes DEF WindowParts, Capacity!Within
<1> QED
  BY <1>1, <1>2, <1>5 DEF RateInv

\* RateWithinWindow (_prune, _fits): at no instant the requests or the tokens admitted in
\* the window before it exceed the limits of any scope, whatever is admitted, refused,
\* pruned in passing, completed or cancelled, in whatever order.
THEOREM RatesHold == Spec => []RateWithinWindow
<1>1. RateInv => RateWithinWindow
  BY DEF RateInv, WindowParts, RateWithinWindow, Capacity!RateWithinWindow
<1> QED
  BY <1>1, RateInit, RateStep, PTL DEF Spec

--------------------------------------------------------------------------------
(* The queue *)

\* An identifier is queued once, so that a step tells which operation was taken.
QueueInv ==
  /\ queue \in Seq(Operations)
  /\ \A i, j \in 1 .. Len(queue) : queue[i].id = queue[j].id => i = j

\* RemoveAt, element by element.
LEMMA RemovedParts ==
  ASSUME NEW S, NEW q \in Seq(S), NEW k \in 1 .. Len(q)
  PROVE  /\ RemoveAt(q, k) \in Seq(S) /\ Len(RemoveAt(q, k)) = Len(q) - 1
         /\ \A m \in 1 .. Len(q) - 1 : RemoveAt(q, k)[m] = IF m < k THEN q[m] ELSE q[m + 1]
<1> DEFINE a == SubSeq(q, 1, k - 1)
           b == SubSeq(q, k + 1, Len(q))
<1>1. RemoveAt(q, k) = a \o b
  BY DEF RemoveAt
<1>2. a \in Seq(S) /\ b \in Seq(S) /\ Len(a) = k - 1 /\ Len(b) = Len(q) - k
      /\ (\A x \in 1 .. k - 1 : a[x] = q[x])
      /\ \A x \in 1 .. Len(q) - k : b[x] = q[k + x]
  BY SubSeqProperties
<1> HIDE DEF a, b
<1>3. a \o b \in Seq(S) /\ Len(a \o b) = Len(q) - 1
      /\ \A m \in 1 .. Len(a) + Len(b) : (a \o b)[m] = IF m <= Len(a) THEN a[m] ELSE b[m - Len(a)]
  <2>1. a \o b \in Seq(S) /\ Len(a \o b) = Len(a) + Len(b)
    BY <1>2, ConcatProperties
  <2>2. \A m \in 1 .. Len(a) + Len(b) : (a \o b)[m] = IF m <= Len(a) THEN a[m] ELSE b[m - Len(a)]
    BY <1>2
  <2>3. Len(a) + Len(b) = Len(q) - 1
    BY <1>2
  <2> QED
    BY <2>1, <2>2, <2>3
<1>4. ASSUME NEW m \in 1 .. Len(q) - 1
      PROVE  (a \o b)[m] = IF m < k THEN q[m] ELSE q[m + 1]
  <2>1. m \in 1 .. Len(a) + Len(b)
    BY <1>2
  <2>2. m < k => m <= Len(a) /\ a[m] = q[m]
    BY <1>2
  <2>3. ~ (m < k) => /\ ~ (m <= Len(a)) /\ m - Len(a) \in 1 .. Len(q) - k
                     /\ k + (m - Len(a)) = m + 1
    BY <1>2
  <2>4. ~ (m < k) => b[m - Len(a)] = q[m + 1]
    BY <1>2, <2>3
  <2> QED
    BY <1>3, <2>1, <2>2, <2>3, <2>4
<1> QED
  BY <1>1, <1>3, <1>4

\* Two positions whose removal leaves the same hold the same.
LEMMA RemovedOnce ==
  ASSUME NEW S, NEW q \in Seq(S), NEW i \in 1 .. Len(q), NEW j \in 1 .. Len(q),
         i < j, RemoveAt(q, i) = RemoveAt(q, j)
  PROVE  q[i + 1] = q[i]
<1>1. i \in 1 .. Len(q) - 1
  OBVIOUS
<1>2. RemoveAt(q, i)[i] = q[i + 1]
  BY <1>1, RemovedParts
<1>3. RemoveAt(q, j)[i] = q[i]
  BY <1>1, RemovedParts
<1> QED
  BY <1>2, <1>3

--------------------------------------------------------------------------------
(* The rotation of the tenants *)

LEMMA FirstIs ==
  ASSUME queue \in Seq(Operations), NEW t \in QueuedTenants
  PROVE  /\ FirstOf(t) \in 1 .. Len(queue) /\ queue[FirstOf(t)].tenant = t
         /\ \A j \in 1 .. FirstOf(t) - 1 : queue[j].tenant # t
<1> DEFINE T == {i \in 1 .. Len(queue) : queue[i].tenant = t}
<1>1. T \in SUBSET Nat /\ T # {}
  BY DEF QueuedTenants
<1>2. PICK i \in T : \A m \in T : i <= m
  <2> HIDE DEF T
  <2> QED BY <1>1, SmallestNumber
<1>3. i \in 1 .. Len(queue) /\ queue[i].tenant = t /\ \A j \in 1 .. i - 1 : queue[j].tenant # t
  <2>1. ASSUME NEW j \in 1 .. i - 1 PROVE queue[j].tenant # t
    <3>1. ~ (i <= j) /\ j \in 1 .. Len(queue)
      BY <1>2
    <3>2. j \notin T
      <4> HIDE DEF T
      <4> QED BY <1>2, <3>1
    <3> QED BY <3>1, <3>2
  <2> QED BY <1>2, <2>1
<1> QED BY <1>3 DEF FirstOf

LEMMA TenantsFinite ==
  ASSUME queue \in Seq(Operations)
  PROVE  IsFiniteSet(QueuedTenants) /\ Cardinality(QueuedTenants) \in Nat
<1> DEFINE f == [i \in 1 .. Len(queue) |-> queue[i].tenant]
<1>1. f \in Surjection(1 .. Len(queue), QueuedTenants)
  BY DEF Surjection, QueuedTenants
<1>2. IsFiniteSet(1 .. Len(queue))
  BY FS_Interval
<1>3. IsFiniteSet(QueuedTenants)
  <2> HIDE DEF f
  <2> QED BY <1>1, <1>2, FS_Surjection
<1> QED BY <1>3, FS_CardinalityType

\* The ranks of the tenants in the queue are different numbers below their number.
Ahead(t) == {u \in QueuedTenants : FirstOf(u) < FirstOf(t)}

LEMMA RankIs ==
  ASSUME queue \in Seq(Operations), NEW t \in QueuedTenants, NEW u \in QueuedTenants, t # u
  PROVE  Rank(t) \in 0 .. Cardinality(QueuedTenants) - 1 /\ Rank(t) # Rank(u)
<1>1. IsFiniteSet(QueuedTenants) /\ Cardinality(QueuedTenants) \in Nat
  BY TenantsFinite
<1>2. Rank(t) = Cardinality(Ahead(t)) /\ Rank(u) = Cardinality(Ahead(u))
  BY DEF Rank, Ahead
<1>3. ASSUME NEW v \in QueuedTenants
      PROVE  IsFiniteSet(Ahead(v)) /\ Cardinality(Ahead(v)) \in 0 .. Cardinality(QueuedTenants) - 1
  <2>1. FirstOf(v) \in Nat
    BY FirstIs
  <2>2. Ahead(v) \in SUBSET QueuedTenants /\ v \notin Ahead(v)
    BY <2>1 DEF Ahead
  <2>3. IsFiniteSet(Ahead(v)) /\ Cardinality(Ahead(v)) <= Cardinality(QueuedTenants)
        /\ Cardinality(Ahead(v)) # Cardinality(QueuedTenants) /\ Cardinality(Ahead(v)) \in Nat
    BY <1>1, <2>2, FS_Subset, FS_CardinalityType
  <2> QED BY <1>1, <2>3
<1>4. ASSUME NEW v \in QueuedTenants, NEW w \in QueuedTenants, FirstOf(v) < FirstOf(w)
      PROVE  Cardinality(Ahead(v)) # Cardinality(Ahead(w))
  <2>1. FirstOf(v) \in Nat /\ FirstOf(w) \in Nat /\ \A x \in QueuedTenants : FirstOf(x) \in Nat
    BY FirstIs
  <2>2. Ahead(v) \in SUBSET Ahead(w) /\ v \in Ahead(w) /\ v \notin Ahead(v)
    BY <1>4, <2>1 DEF Ahead
  <2> QED BY <1>3, <2>2, FS_Subset
<1>5. FirstOf(t) # FirstOf(u) /\ FirstOf(t) \in Nat /\ FirstOf(u) \in Nat
  BY FirstIs
<1>6. FirstOf(t) < FirstOf(u) \/ FirstOf(u) < FirstOf(t)
  BY <1>5
<1> QED BY <1>2, <1>3, <1>4, <1>6

LEMMA ModAbove ==
  ASSUME NEW n \in Nat \ {0}, NEW x \in 0 .. 2 * n - 1
  PROVE  x % n = IF x < n THEN x ELSE x - n
OBVIOUS

\* The tenant that had the last turn has the next turn last.
LEMMA LastTurn ==
  ASSUME queue \in Seq(Operations), lastTenant \in QueuedTenants,
         NEW t \in QueuedTenants, t # lastTenant
  PROVE  Turn(t) < Turn(lastTenant)
<1> DEFINE n == Cardinality(QueuedTenants)
           d == Rank(t) - Rank(lastTenant) - 1 + n
           z == Rank(lastTenant) - Rank(lastTenant) - 1 + n
<1>1. n \in Nat /\ Rank(t) \in 0 .. n - 1 /\ Rank(lastTenant) \in 0 .. n - 1
      /\ Rank(t) # Rank(lastTenant)
  BY TenantsFinite, RankIs
<1>2. Turn(t) = d % n /\ Turn(lastTenant) = z % n
  BY DEF Turn
<1> HIDE DEF n
<1>3. n \in Nat \ {0} /\ d \in 0 .. 2 * n - 1 /\ z \in 0 .. 2 * n - 1 /\ z = n - 1 /\ d # n - 1
      /\ d < 2 * n - 1
  BY <1>1
<1>4. d % n = (IF d < n THEN d ELSE d - n) /\ z % n = n - 1
  <2> HIDE DEF d, z
  <2>1. d % n = IF d < n THEN d ELSE d - n
    BY <1>3, ModAbove
  <2>2. z % n = IF z < n THEN z ELSE z - n
    BY <1>3, ModAbove
  <2> QED BY <1>3, <2>1, <2>2
<1> HIDE DEF d, z
<1> QED BY <1>2, <1>3, <1>4

--------------------------------------------------------------------------------
(* The order of service *)

LEMMA QueueStep == QueueInv /\ [Next]_vars => QueueInv'
<1> SUFFICES ASSUME QueueInv, [Next]_vars PROVE QueueInv'
  OBVIOUS
<1>1. CASE UNCHANGED queue
  BY <1>1 DEF QueueInv
<1>2. ASSUME NEW o \in Operations, Enqueue(o) PROVE QueueInv'
  <2>1. queue' = Append(queue, o) /\ queue \in Seq(Operations)
        /\ \A i \in 1 .. Len(queue) : queue[i].id # o.id
    BY <1>2 DEF Enqueue, QueueInv
  <2> QED
    BY <2>1 DEF QueueInv
<1>3. ASSUME NEW i \in 1 .. Len(queue), ScheduleNext(i) PROVE QueueInv'
  <2>1. queue \in Seq(Operations) /\ queue' = RemoveAt(queue, i)
        /\ \A j, k \in 1 .. Len(queue) : queue[j].id = queue[k].id => j = k
    BY <1>3 DEF ScheduleNext, QueueInv
  <2>2. queue' \in Seq(Operations) /\ Len(queue') = Len(queue) - 1
    BY <2>1, RemovedParts
  <2>3. ASSUME NEW k \in 1 .. Len(queue')
        PROVE  queue'[k] = IF k < i THEN queue[k] ELSE queue[k + 1]
    <3>1. k \in 1 .. Len(queue) - 1
      BY <2>2
    <3> QED
      BY <2>1, <3>1, RemovedParts
  <2>4. ASSUME NEW j \in 1 .. Len(queue'), NEW k \in 1 .. Len(queue'), queue'[j].id = queue'[k].id
        PROVE  j = k
    <3> DEFINE x == IF j < i THEN j ELSE j + 1
               y == IF k < i THEN k ELSE k + 1
    <3>1. x \in 1 .. Len(queue) /\ y \in 1 .. Len(queue) /\ queue'[j] = queue[x] /\ queue'[k] = queue[y]
      BY <2>1, <2>2, <2>3
    <3>2. x = y
      <4> HIDE DEF x, y
      <4> QED
        BY <2>1, <2>4, <3>1
    <3> QED
      BY <3>2, <2>2
  <2> QED
    BY <2>2, <2>4 DEF QueueInv
<1> QED
  <2>1. ASSUME NEW o \in Operations, Admit(o) PROVE UNCHANGED queue
    BY <2>1 DEF Admit
  <2>2. ASSUME NEW o \in Operations, NEW es \in Eligibility, Reevaluate(o, es) PROVE UNCHANGED queue
    BY <2>2 DEF Reevaluate
  <2>3. ASSUME NEW id \in OperationIds, Complete(id) PROVE UNCHANGED queue
    BY <2>3 DEF Complete
  <2>4. CASE ScheduleNone \/ Tick \/ UNCHANGED vars
    BY <2>4, <1>1 DEF ScheduleNone, Tick, vars
  <2> QED
    BY <1>1, <1>2, <1>3, <2>1, <2>2, <2>3, <2>4 DEF Next

\* More of its tenant are queued before the later one.
LEMMA RoundGrows ==
  ASSUME queue \in Seq(Operations), NEW i \in 1 .. Len(queue), NEW j \in 1 .. Len(queue),
         j < i, queue[j].tenant = queue[i].tenant
  PROVE  Round(j) < Round(i)
<1> DEFINE R(x) == {k \in 1 .. x - 1 : queue[k].tenant = queue[x].tenant}
<1>1. R(j) \in SUBSET R(i) /\ j \in R(i) /\ j \notin R(j) /\ R(i) \in SUBSET (1 .. i - 1)
  OBVIOUS
<1>2. IsFiniteSet(R(i)) /\ IsFiniteSet(R(j))
  <2>1. IsFiniteSet(1 .. i - 1)
    BY FS_Interval
  <2> HIDE DEF R
  <2> QED
    BY <1>1, <2>1, FS_Subset
<1>3. Cardinality(R(j)) < Cardinality(R(i))
  <2> HIDE DEF R
  <2>1. Cardinality(R(j)) \in Nat /\ Cardinality(R(i)) \in Nat /\ Cardinality(R(j)) <= Cardinality(R(i))
    BY <1>1, <1>2, FS_Subset, FS_CardinalityType
  <2>2. Cardinality(R(j)) # Cardinality(R(i))
    BY <1>1, <1>2, FS_Subset
  <2> QED
    BY <2>1, <2>2
<1> QED
  BY <1>3 DEF Round

LEMMA RoundIs ==
  ASSUME queue \in Seq(Operations), NEW i \in 1 .. Len(queue)
  PROVE  /\ Round(i) \in Nat
         /\ (\A k \in 1 .. i - 1 : queue[k].tenant # queue[i].tenant) => Round(i) = 0
<1> DEFINE R == {k \in 1 .. i - 1 : queue[k].tenant = queue[i].tenant}
<1>1. IsFiniteSet(R)
  <2>1. R \in SUBSET (1 .. i - 1) /\ IsFiniteSet(1 .. i - 1)
    BY FS_Interval
  <2> HIDE DEF R
  <2> QED
    BY <2>1, FS_Subset
<1>2. Cardinality(R) \in Nat /\ (R = {} => Cardinality(R) = 0)
  <2> HIDE DEF R
  <2> QED
    BY <1>1, FS_CardinalityType, FS_EmptySet
<1>3. (\A k \in 1 .. i - 1 : queue[k].tenant # queue[i].tenant) => R = {}
  OBVIOUS
<1> QED
  BY <1>2, <1>3 DEF Round

\* What an order promises, it tries first.
LEMMA PromisedFirst ==
  ASSUME QueueInv, order \in {"fifo", "interactive_first", "tenant_round_robin"},
         NEW i \in 1 .. Len(queue), NEW j \in Overtaken(i)
  PROVE  CanAdmit(queue[j]) /\ Before(j, i) /\ j \in 1 .. Len(queue)
<1>1. queue \in Seq(Operations) /\ j \in 1 .. Len(queue) /\ CanAdmit(queue[j])
  BY DEF QueueInv, Overtaken
<1>2. CASE order = "fifo"
  BY <1>1, <1>2 DEF Overtaken, Before
<1>3. CASE order = "interactive_first"
  BY <1>1, <1>3 DEF Overtaken, Before
<1>4. CASE order = "tenant_round_robin"
  <2> SUFFICES Round(j) < Round(i) \/ (Round(i) = Round(j) /\ Turn(queue[j].tenant) < Turn(queue[i].tenant))
    BY <1>1, <1>4 DEF Before
  <2>1. \/ queue[j].tenant = queue[i].tenant /\ j < i
        \/ /\ queue[i].tenant = lastTenant /\ queue[j].tenant # lastTenant
           /\ j = FirstOf(queue[j].tenant)
    BY <1>4 DEF Overtaken
  <2>2. CASE queue[j].tenant = queue[i].tenant /\ j < i
    BY <1>1, <2>2, RoundGrows
  <2>3. CASE /\ queue[i].tenant = lastTenant /\ queue[j].tenant # lastTenant
             /\ j = FirstOf(queue[j].tenant)
    <3>1. queue[j].tenant \in QueuedTenants /\ lastTenant \in QueuedTenants
      BY <1>1, <2>3 DEF QueuedTenants
    <3>2. Turn(queue[j].tenant) < Turn(queue[i].tenant)
      BY <1>1, <2>3, <3>1, LastTurn
    <3>3. \A k \in 1 .. j - 1 : queue[k].tenant # queue[j].tenant
      BY <1>1, <2>3, <3>1, FirstIs
    <3>4. Round(j) = 0 /\ Round(i) \in Nat
      BY <1>1, <3>3, RoundIs
    <3> QED
      BY <3>2, <3>4
  <2> QED
    BY <2>1, <2>2, <2>3
<1> QED
  BY <1>1, <1>2, <1>3, <1>4

\* The operation a step takes is the one schedule_next chose, and it passed over those
\* before it because it could admit none of them.
LEMMA ServedStep ==
  ASSUME QueueInv, order \in {"fifo", "interactive_first", "tenant_round_robin"}, [Next]_vars,
         NEW i \in 1 .. Len(queue), queue' = RemoveAt(queue, i)
  PROVE  Overtaken(i) = {}
<1>1. queue \in Seq(Operations) /\ \A j, k \in 1 .. Len(queue) : queue[j].id = queue[k].id => j = k
  BY DEF QueueInv
<1>2. Len(queue') = Len(queue) - 1 /\ Len(queue) \in Nat
  BY <1>1, RemovedParts
<1>3. PICK k \in 1 .. Len(queue) : ScheduleNext(k)
  <2>1. queue' # queue /\ \A o \in Operations : queue' # Append(queue, o)
    BY <1>1, <1>2
  <2> QED
    BY <2>1 DEF Next, vars, Enqueue, Admit, ScheduleNone, Complete, Reevaluate, Tick
<1>4. k = i
  <2>1. RemoveAt(queue, k) = RemoveAt(queue, i)
    BY <1>3 DEF ScheduleNext
  <2>2. ASSUME NEW x \in 1 .. Len(queue), NEW y \in 1 .. Len(queue), x < y,
               RemoveAt(queue, x) = RemoveAt(queue, y)
        PROVE  FALSE
    <3>1. queue[x + 1] = queue[x] /\ x + 1 \in 1 .. Len(queue)
      BY <1>1, <2>2, RemovedOnce
    <3> QED
      BY <1>1, <3>1
  <2> QED
    BY <1>1, <2>1, <2>2
<1>5. \A j \in 1 .. Len(queue) : Before(j, i) => ~ CanAdmit(queue[j])
  BY <1>3, <1>4 DEF ScheduleNext
<1> QED
  BY <1>5, PromisedFirst

\* ServedInOrder (schedule_next, _ordered_queue): under each order, an operation leaves
\* the queue only when none it must not overtake could be admitted, though the rotation
\* is computed afresh from whatever is queued.
THEOREM QueueServedInOrder == Spec => ServedInOrder
<1> DEFINE Inv == QueueInv /\ order \in {"fifo", "interactive_first", "tenant_round_robin"}
           Fair == \A i \in 1 .. Len(queue) : queue' = RemoveAt(queue, i) => Overtaken(i) = {}
<1>1. Init => Inv
  BY QueueAssumption DEF Init, QueueInv
<1>2. Inv /\ [Next]_vars => Inv'
  <2>1. [Next]_vars => order' = order
    BY DEF Next, vars, Enqueue, Admit, ScheduleNone, ScheduleNext, Complete, Reevaluate, Tick
  <2> QED
    BY <2>1, QueueStep
<1>3. Inv /\ [Next]_vars => [Fair]_vars
  BY ServedStep
<1> QED
  BY <1>1, <1>2, <1>3, PTL DEF Spec, ServedInOrder
================================================================================

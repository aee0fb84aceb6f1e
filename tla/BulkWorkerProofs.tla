--------------------------- MODULE BulkWorkerProofs ----------------------------
(***************************************************************************)
(* The promises of the worker, for every set of workers, items and         *)
(* settings: a worker records only for the attempt it claimed; where       *)
(* stages fit their lease no two workers process one item; nothing         *)
(* completes without an effect on record that the target holds; and where  *)
(* stages fit their lease a key is submitted to the target once, never     *)
(* again once it is settled, and does not fail after its commit, as far as *)
(* crashes let a mutation be traced.                                       *)
(*                                                                         *)
(* The actions fall into few kinds by what they do to the item a worker    *)
(* claimed: most only move the worker (MovesOn), some end its call         *)
(* (Leaves), and those that record give the item back (Records).           *)
(***************************************************************************)
EXTENDS BulkWorker, SequenceTheorems, TLAPS

Pcs == {"idle", "claim", "process", "work", "checkpoint", "authorize", "lookup",
        "pending", "verify", "execute", "save", "restore", "complete", "reconcile", "capture",
        "terminalize", "deadletter"}

Endings == {"none", "succeeded", "validation-failed", "policy-rejected",
            "budget-exhausted", "retry-exhausted", "write-back-failed"}

WorkerState ==
  [pc: Pcs, key: Keys \cup {NoRef}, attempt: Nat, now: Nat,
   stage: 0 .. 5, end: Endings, record: Int]

StoreType ==
  /\ items \in [Keys -> Store!WorkItem]
  /\ checkpoints \in [Keys -> Seq(Store!CheckpointRecord)]
  /\ DOMAIN terminal = Keys
  /\ clock \in Nat

WorkerType ==
  /\ worker \in [Workers -> WorkerState]
  /\ \A w \in Workers : ~ At(w, "idle") => KeyOf(w) \in Keys /\ w \in setting.workers

TypeInv ==
  /\ setting \in Setting
  /\ StoreType
  /\ WorkerType

--------------------------------------------------------------------------------
(* How a worker moves *)

\* Only worker w moves, and keeps its claim.
KeepsClaim(w) ==
  /\ worker' \in [Workers -> WorkerState]
  /\ \A v \in Workers : v # w => worker'[v] = worker[v]
  /\ worker'[w].key = worker[w].key
  /\ worker'[w].attempt = worker[w].attempt
  /\ worker'[w].now \in {worker[w].now, clock}

LEMMA GotoMoves ==
  ASSUME worker \in [Workers -> WorkerState], NEW w \in Workers, NEW p \in Pcs, Goto(w, p)
  PROVE  /\ KeepsClaim(w) /\ worker'[w].pc = p
         /\ worker'[w].stage = worker[w].stage /\ worker'[w].record = worker[w].record
<1>1. PICK new : new = [worker[w] EXCEPT !.pc = p]
  OBVIOUS
<1>2. /\ new \in WorkerState /\ new.pc = p /\ new.key = worker[w].key
      /\ new.attempt = worker[w].attempt /\ new.now = worker[w].now /\ new.stage = worker[w].stage
      /\ new.record = worker[w].record
  BY <1>1 DEF WorkerState
<1>3. worker' = [worker EXCEPT ![w] = new]
  BY <1>1 DEF Goto
<1> QED
  BY <1>2, <1>3 DEF KeepsClaim

LEMMA EndMoves ==
  ASSUME worker \in [Workers -> WorkerState], NEW w \in Workers, NEW st \in Endings,
         EndWith(w, st)
  PROVE  KeepsClaim(w) /\ worker'[w].pc = "capture" /\ worker'[w].end = st
<1>1. PICK new : new = [worker[w] EXCEPT !.pc = "capture", !.end = st]
  OBVIOUS
<1>2. /\ new \in WorkerState /\ new.pc = "capture" /\ new.key = worker[w].key
      /\ new.attempt = worker[w].attempt /\ new.end = st /\ new.now = worker[w].now
  BY <1>1 DEF WorkerState, Pcs
<1>3. worker' = [worker EXCEPT ![w] = new]
  BY <1>1 DEF EndWith
<1> QED
  BY <1>2, <1>3 DEF KeepsClaim

LEMMA CommitMoves ==
  ASSUME worker \in [Workers -> WorkerState], NEW w \in Workers, NEW t \in Int,
         Committed(w, t)
  PROVE  KeepsClaim(w) /\ worker'[w].pc = "save" /\ worker'[w].record = t
<1>1. PICK new : new = [worker[w] EXCEPT !.pc = "save", !.record = t]
  OBVIOUS
<1>2. /\ new \in WorkerState /\ new.pc = "save" /\ new.key = worker[w].key
      /\ new.attempt = worker[w].attempt /\ new.record = t /\ new.now = worker[w].now
  BY <1>1 DEF WorkerState, Pcs
<1>3. worker' = [worker EXCEPT ![w] = new]
  BY <1>1 DEF Committed
<1> QED
  BY <1>2, <1>3 DEF KeepsClaim

LEMMA StopMoves ==
  ASSUME worker \in [Workers -> WorkerState], NEW w \in Workers, Stop(w)
  PROVE  /\ worker' \in [Workers -> WorkerState] /\ worker'[w].pc = "idle"
         /\ \A v \in Workers : v # w => worker'[v] = worker[v]
<1>1. IdleWorker \in WorkerState /\ IdleWorker.pc = "idle"
  BY DEF IdleWorker, WorkerState, Pcs, Endings
<1>2. worker' = [worker EXCEPT ![w] = IdleWorker]
  BY DEF Stop
<1> QED
  BY <1>1, <1>2

--------------------------------------------------------------------------------
(* The kinds of steps *)

Frame == UNCHANGED <<setting, clock>>

\* The worker goes on with its claim, inside the call, and the store stays.
MovesOn(w) ==
  /\ Frame /\ UNCHANGED <<items, checkpoints, terminal>>
  /\ Processing(w) /\ KeepsClaim(w) /\ Processing(w)'

\* The worker's call is over, or nothing is left of it but a dead letter.
Leaves(w) ==
  /\ Frame /\ UNCHANGED <<items, checkpoints, terminal>>
  /\ ~ At(w, "idle")
  /\ worker' \in [Workers -> WorkerState]
  /\ \A v \in Workers : v # w => worker'[v] = worker[v]
  /\ \/ worker'[w].pc = "idle"
     \/ worker'[w].pc = "deadletter" /\ worker'[w].key = worker[w].key

\* The worker records under its lease and gives the item back.
Records(w) ==
  /\ Frame /\ Processing(w)
  /\ \E t \in Nat : Holds(w, t)
  /\ worker' \in [Workers -> WorkerState]
  /\ \A v \in Workers : v # w => worker'[v] = worker[v]
  /\ \/ worker'[w].pc = "idle"
     \/ worker'[w].pc = "deadletter" /\ worker'[w].key = worker[w].key
  /\ items' \in [Keys -> Store!WorkItem]
  /\ checkpoints' \in [Keys -> Seq(Store!CheckpointRecord)]
  /\ DOMAIN terminal' = Keys
  /\ items'[KeyOf(w)].state # "in_progress"
  /\ \A k \in Keys : k # KeyOf(w) =>
       /\ items'[k] = items[k] /\ checkpoints'[k] = checkpoints[k]
       /\ terminal'[k] = terminal[k]

--------------------------------------------------------------------------------
(* Leases and attempts *)

\* The clock reading a worker goes by is not from the future, and where stages fit
\* their lease the one a claim is made with is recent.
Claiming ==
  \A w \in Workers :
    /\ At(w, "claim") \/ Processing(w) => worker[w].now <= clock
    /\ At(w, "claim") /\ setting.fitsLease => clock < worker[w].now + Lease

\* Under its own name, a worker finds the attempt it claimed or none.
OwnAttempt ==
  DistinctNames =>
    \A w \in Workers :
      /\ Processing(w)
      /\ items[KeyOf(w)].state = "in_progress" /\ items[KeyOf(w)].owner = Name(w)
      => items[KeyOf(w)].attempt = worker[w].attempt

LeaseInv == TypeInv /\ Claiming /\ ExclusiveProcessing /\ OwnAttempt

\* The time of the store, as numbers.
LEMMA Numbers ==
  ASSUME TypeInv
  PROVE  /\ clock \in Nat /\ Lease \in Nat \ {0}
         /\ \A k \in Keys : items[k].expires \in Nat /\ items[k].attempt \in Nat
         /\ \A w \in Workers : worker[w].now \in Nat
BY WorkerAssumption
DEF WorkerAssumption, TypeInv, StoreType, WorkerType, WorkerState, Store!WorkItem

LEMMA MovesOnKeeps ==
  ASSUME LeaseInv, NEW w \in Workers, MovesOn(w)
  PROVE  LeaseInv'
<1>1. /\ items' = items /\ checkpoints' = checkpoints /\ terminal' = terminal
      /\ clock' = clock /\ setting' = setting
      /\ worker' \in [Workers -> WorkerState]
      /\ \A v \in Workers : v # w => worker'[v] = worker[v]
      /\ worker'[w].key = worker[w].key /\ worker'[w].attempt = worker[w].attempt
      /\ worker'[w].now \in {worker[w].now, clock}
      /\ Processing(w) /\ Processing(w)'
  BY DEF MovesOn, Frame, KeepsClaim
<1>2. TypeInv'
  BY <1>1 DEF LeaseInv, TypeInv, StoreType, WorkerType, At, KeyOf, Processing
<1>3. \A v \in Workers : (Processing(v)' <=> Processing(v)) /\ KeyOf(v)' = KeyOf(v)
                         /\ worker'[v].attempt = worker[v].attempt /\ Name(v)' = Name(v)
  BY <1>1 DEF Processing, KeyOf, Name
<1>4. Claiming'
  <2>1. clock <= clock
    BY Numbers DEF LeaseInv
  <2> QED
    BY <1>1, <2>1 DEF LeaseInv, Claiming, At, Processing
<1>5. ExclusiveProcessing'
  BY <1>1, <1>3 DEF LeaseInv, ExclusiveProcessing, Holds, Store!Owned
<1>6. OwnAttempt'
  BY <1>1, <1>3 DEF LeaseInv, OwnAttempt, DistinctNames, Name
<1> QED
  BY <1>2, <1>4, <1>5, <1>6 DEF LeaseInv

LEMMA LeavesKeeps ==
  ASSUME LeaseInv, NEW w \in Workers, Leaves(w)
  PROVE  LeaseInv'
<1>1. /\ items' = items /\ checkpoints' = checkpoints /\ terminal' = terminal
      /\ clock' = clock /\ setting' = setting
      /\ worker' \in [Workers -> WorkerState]
      /\ \A v \in Workers : v # w => worker'[v] = worker[v]
      /\ \/ worker'[w].pc = "idle"
         \/ worker'[w].pc = "deadletter" /\ worker'[w].key = worker[w].key
      /\ ~ At(w, "idle")
  BY DEF Leaves, Frame
<1>2. TypeInv'
  BY <1>1 DEF LeaseInv, TypeInv, StoreType, WorkerType, At, KeyOf
<1>3. /\ ~ Processing(w)' /\ ~ At(w, "claim")'
      /\ \A v \in Workers : v # w =>
           /\ (Processing(v)' <=> Processing(v)) /\ KeyOf(v)' = KeyOf(v)
           /\ worker'[v] = worker[v]
      /\ \A v \in Workers : Name(v)' = Name(v)
  BY <1>1 DEF Processing, KeyOf, At, Name
<1>4. Claiming'
  BY <1>1, <1>3 DEF LeaseInv, Claiming, At, Processing
<1>5. ExclusiveProcessing'
  BY <1>1, <1>3 DEF LeaseInv, ExclusiveProcessing, Holds, Store!Owned
<1>6. OwnAttempt'
  BY <1>1, <1>3 DEF LeaseInv, OwnAttempt, DistinctNames, Name
<1> QED
  BY <1>2, <1>4, <1>5, <1>6 DEF LeaseInv

LEMMA RecordsKeeps ==
  ASSUME LeaseInv, NEW w \in Workers, Records(w)
  PROVE  LeaseInv'
<1>1. /\ clock' = clock /\ setting' = setting /\ Processing(w)
      /\ worker' \in [Workers -> WorkerState]
      /\ \A v \in Workers : v # w => worker'[v] = worker[v]
      /\ \/ worker'[w].pc = "idle"
         \/ worker'[w].pc = "deadletter" /\ worker'[w].key = worker[w].key
      /\ items' \in [Keys -> Store!WorkItem]
      /\ checkpoints' \in [Keys -> Seq(Store!CheckpointRecord)] /\ DOMAIN terminal' = Keys
      /\ items'[KeyOf(w)].state # "in_progress"
      /\ \A k \in Keys : k # KeyOf(w) => items'[k] = items[k]
  BY DEF Records, Frame
<1>2. TypeInv'
  BY <1>1 DEF LeaseInv, TypeInv, StoreType, WorkerType, At, KeyOf, Processing
<1>3. /\ ~ Processing(w)' /\ ~ At(w, "claim")'
      /\ \A v \in Workers : v # w =>
           /\ (Processing(v)' <=> Processing(v)) /\ KeyOf(v)' = KeyOf(v)
           /\ worker'[v] = worker[v]
      /\ \A v \in Workers : Name(v)' = Name(v)
      /\ \A v \in Workers : Processing(v) => KeyOf(v) \in Keys
  BY <1>1 DEF Processing, KeyOf, At, Name, LeaseInv, TypeInv, WorkerType
<1>4. Claiming'
  BY <1>1, <1>3 DEF LeaseInv, Claiming, At, Processing
<1>5. ExclusiveProcessing'
  <2> SUFFICES ASSUME setting.fitsLease, NEW v \in Workers, Processing(v)'
               PROVE  /\ Holds(v, clock)'
                      /\ items'[KeyOf(v)'].attempt = worker'[v].attempt
                      /\ \A u \in Workers : Processing(u)' /\ KeyOf(u)' = KeyOf(v)' => u = v
    BY <1>1 DEF ExclusiveProcessing
  <2>1. v # w /\ Processing(v)
    BY <1>3
  <2>2. KeyOf(v) # KeyOf(w)
    BY <1>1, <2>1 DEF LeaseInv, ExclusiveProcessing
  <2>3. items'[KeyOf(v)] = items[KeyOf(v)]
    BY <1>1, <1>3, <2>1, <2>2
  <2>4. /\ Holds(v, clock) /\ items[KeyOf(v)].attempt = worker[v].attempt
        /\ \A u \in Workers : Processing(u) /\ KeyOf(u) = KeyOf(v) => u = v
    BY <2>1 DEF LeaseInv, ExclusiveProcessing
  <2>5. Holds(v, clock)'
    BY <1>1, <1>3, <2>1, <2>3, <2>4 DEF Holds, Store!Owned
  <2>6. \A u \in Workers : Processing(u)' /\ KeyOf(u)' = KeyOf(v)' => u = v
    BY <1>3, <2>1, <2>4
  <2> QED
    BY <1>3, <2>1, <2>3, <2>4, <2>5, <2>6
<1>6. OwnAttempt'
  <2> SUFFICES ASSUME DistinctNames, NEW v \in Workers, Processing(v)',
                      items'[KeyOf(v)'].state = "in_progress",
                      items'[KeyOf(v)'].owner = Name(v)'
               PROVE  items'[KeyOf(v)'].attempt = worker'[v].attempt
    BY <1>1 DEF OwnAttempt, DistinctNames, Name
  <2>1. v # w /\ Processing(v) /\ KeyOf(v) # KeyOf(w)
    BY <1>1, <1>3
  <2>2. items'[KeyOf(v)] = items[KeyOf(v)]
    BY <1>1, <1>3, <2>1
  <2> QED
    BY <1>3, <2>1, <2>2 DEF LeaseInv, OwnAttempt
<1> QED
  BY <1>2, <1>4, <1>5, <1>6 DEF LeaseInv

LEMMA ReadProgressKeeps ==
  ASSUME LeaseInv, NEW w \in Workers, NEW k \in Keys, ReadProgress(w, k)
  PROVE  LeaseInv'
<1>1. PICK new : new = [IdleWorker EXCEPT !.pc = "claim", !.key = k, !.now = clock]
  OBVIOUS
<1>2. /\ new \in WorkerState /\ new.pc = "claim" /\ new.key = k /\ new.now = clock
  <2>1. clock \in Nat
    BY Numbers DEF LeaseInv
  <2>2. new = [pc |-> "claim", key |-> k, attempt |-> 0, now |-> clock,
               stage |-> 0, end |-> "none", record |-> 0]
    BY <1>1 DEF IdleWorker
  <2> QED
    BY <2>1, <2>2 DEF WorkerState, Pcs, Endings
<1>3. /\ items' = items /\ checkpoints' = checkpoints /\ terminal' = terminal
      /\ clock' = clock /\ setting' = setting
      /\ worker' = [worker EXCEPT ![w] = new] /\ At(w, "idle") /\ w \in setting.workers
  BY <1>1 DEF ReadProgress, storeVars, worldVars
<1>4. /\ worker' \in [Workers -> WorkerState] /\ worker'[w] = new
      /\ \A v \in Workers : v # w => worker'[v] = worker[v]
  BY <1>2, <1>3 DEF LeaseInv, TypeInv, WorkerType
<1>5. TypeInv'
  BY <1>2, <1>3, <1>4 DEF LeaseInv, TypeInv, StoreType, WorkerType, At, KeyOf
<1>6. /\ ~ Processing(w)'
      /\ \A v \in Workers : v # w =>
           /\ (Processing(v)' <=> Processing(v)) /\ KeyOf(v)' = KeyOf(v)
           /\ worker'[v] = worker[v]
      /\ \A v \in Workers : Name(v)' = Name(v)
  BY <1>2, <1>3, <1>4 DEF Processing, KeyOf, Name
<1>7. Claiming'
  <2>1. clock <= clock /\ clock < clock + Lease
    BY Numbers DEF LeaseInv
  <2> QED
    BY <1>2, <1>3, <1>4, <1>6, <2>1 DEF LeaseInv, Claiming, At
<1>8. ExclusiveProcessing'
  BY <1>3, <1>6 DEF LeaseInv, ExclusiveProcessing, Holds, Store!Owned
<1>9. OwnAttempt'
  BY <1>3, <1>6 DEF LeaseInv, OwnAttempt, DistinctNames, Name
<1> QED
  BY <1>5, <1>7, <1>8, <1>9 DEF LeaseInv

\* An acquired claim: nobody processes the item, or Claimable would have refused.
LEMMA ClaimKeeps ==
  ASSUME LeaseInv, NEW w \in Workers, ClaimWork(w),
         Store!Claimable(KeyOf(w), worker[w].now)
  PROVE  LeaseInv'
<1>1. PICK k, t : k = KeyOf(w) /\ t = worker[w].now
  OBVIOUS
<1>2. /\ At(w, "claim") /\ Store!Claimable(k, t) /\ Store!Claim(k, Name(w), t)
      /\ worker' = [worker EXCEPT ![w].pc = "process", ![w].attempt = items[k].attempt + 1]
      /\ setting' = setting
  BY <1>1 DEF ClaimWork, worldVars
<1>3. /\ k \in Keys /\ w \in setting.workers
      /\ worker[w] \in WorkerState /\ items[k] \in Store!WorkItem
      /\ t \in Nat /\ clock \in Nat /\ Lease \in Nat \ {0} /\ items[k].attempt \in Nat
      /\ Name(w) \in Owners
  BY <1>1, <1>2, Numbers
  DEF LeaseInv, TypeInv, StoreType, WorkerType, WorkerState, Setting, Name, At
<1>4. PICK n \in Nat, x \in Nat : n = items[k].attempt + 1 /\ x = t + Lease
  BY <1>3
<1>5. PICK item : item = [items[k] EXCEPT !.state = "in_progress", !.attempt = n,
                                          !.owner = Name(w), !.expires = x]
  OBVIOUS
<1>6. /\ item \in Store!WorkItem /\ item.state = "in_progress" /\ item.attempt = n
      /\ item.owner = Name(w) /\ item.expires = x
  BY <1>3, <1>5 DEF Store!WorkItem, Store!WorkStates
<1>7. /\ items' = [items EXCEPT ![k] = item] /\ checkpoints' = checkpoints
      /\ terminal' = terminal /\ clock' = clock
  BY <1>2, <1>4, <1>5 DEF Store!Claim
<1>8. /\ items' \in [Keys -> Store!WorkItem] /\ items'[k] = item
      /\ \A j \in Keys : j # k => items'[j] = items[j]
  BY <1>3, <1>6, <1>7 DEF LeaseInv, TypeInv, StoreType
<1>9. PICK new : new = [worker[w] EXCEPT !.pc = "process", !.attempt = n]
  OBVIOUS
<1>10. /\ new \in WorkerState /\ new.pc = "process" /\ new.attempt = n /\ new.key = k
       /\ new.now = t
  BY <1>1, <1>3, <1>9 DEF WorkerState, Pcs, KeyOf
<1>11. worker' = [worker EXCEPT ![w] = new]
  BY <1>2, <1>4, <1>9 DEF LeaseInv, TypeInv, WorkerType
<1>12. /\ worker' \in [Workers -> WorkerState] /\ worker'[w] = new
       /\ \A v \in Workers : v # w => worker'[v] = worker[v]
  BY <1>10, <1>11 DEF LeaseInv, TypeInv, WorkerType
<1>13. TypeInv'
  BY <1>2, <1>3, <1>7, <1>8, <1>10, <1>12
  DEF LeaseInv, TypeInv, StoreType, WorkerType, At, KeyOf
<1>14. /\ Processing(w)' /\ KeyOf(w)' = k
       /\ \A v \in Workers : v # w =>
            /\ (Processing(v)' <=> Processing(v)) /\ KeyOf(v)' = KeyOf(v)
            /\ worker'[v] = worker[v]
       /\ \A v \in Workers : Name(v)' = Name(v)
       /\ \A v \in Workers : Processing(v) => KeyOf(v) \in Keys /\ v \in setting.workers
  BY <1>2, <1>10, <1>12 DEF Processing, KeyOf, Name, LeaseInv, TypeInv, WorkerType, At
<1>15. Claiming'
  BY <1>1, <1>2, <1>7, <1>10, <1>12, <1>14 DEF LeaseInv, Claiming, At
<1>16. ExclusiveProcessing'
  <2> SUFFICES ASSUME setting.fitsLease PROVE ExclusiveProcessing'
    BY <1>2 DEF ExclusiveProcessing
  <2>1. t <= clock /\ clock < x
    BY <1>1, <1>2, <1>4 DEF LeaseInv, Claiming
  <2>2. ASSUME NEW v \in Workers, Processing(v) PROVE KeyOf(v) # k
    <3>1. Holds(v, clock)
      BY <2>2 DEF LeaseInv, ExclusiveProcessing
    <3>2. SUFFICES ASSUME KeyOf(v) = k PROVE FALSE
      OBVIOUS
    <3>3. items[k].state = "in_progress" /\ items[k].expires > clock
      BY <3>1, <3>2 DEF Holds, Store!Owned
    <3>4. items[k].expires \in Nat
      BY <1>3, Numbers DEF LeaseInv
    <3> QED
      BY <1>2, <1>3, <2>1, <3>3, <3>4 DEF Store!Claimable
  <2>3. ASSUME NEW v \in Workers, Processing(v)'
        PROVE  /\ Holds(v, clock)'
               /\ items'[KeyOf(v)'].attempt = worker'[v].attempt
               /\ \A u \in Workers : Processing(u)' /\ KeyOf(u)' = KeyOf(v)' => u = v
    <3>1. CASE v = w
      <4>1. Holds(w, clock)'
        BY <1>6, <1>7, <1>8, <1>14, <2>1, <1>3, <1>4 DEF Holds, Store!Owned
      <4>2. \A u \in Workers : Processing(u)' /\ KeyOf(u)' = k => u = w
        BY <1>14, <2>2
      <4> QED
        BY <1>6, <1>8, <1>10, <1>12, <1>14, <3>1, <4>1, <4>2
    <3>2. CASE v # w
      <4>1. Processing(v) /\ KeyOf(v) # k /\ KeyOf(v) \in Keys
        BY <1>14, <2>2, <2>3, <3>2
      <4>2. items'[KeyOf(v)] = items[KeyOf(v)]
        BY <1>8, <4>1
      <4>3. /\ Holds(v, clock) /\ items[KeyOf(v)].attempt = worker[v].attempt
            /\ \A u \in Workers : Processing(u) /\ KeyOf(u) = KeyOf(v) => u = v
        BY <4>1 DEF LeaseInv, ExclusiveProcessing
      <4>4. Holds(v, clock)'
        BY <1>7, <1>14, <3>2, <4>2, <4>3 DEF Holds, Store!Owned
      <4>5. \A u \in Workers : Processing(u)' /\ KeyOf(u)' = KeyOf(v)' => u = v
        BY <1>14, <3>2, <4>1, <4>3
      <4> QED
        BY <1>14, <3>2, <4>2, <4>3, <4>4, <4>5
    <3> QED
      BY <3>1, <3>2
  <2> QED
    BY <2>3 DEF ExclusiveProcessing
<1>17. OwnAttempt'
  <2> SUFFICES ASSUME DistinctNames, NEW v \in Workers, Processing(v)',
                      items'[KeyOf(v)'].state = "in_progress",
                      items'[KeyOf(v)'].owner = Name(v)'
               PROVE  items'[KeyOf(v)'].attempt = worker'[v].attempt
    BY <1>2 DEF OwnAttempt, DistinctNames, Name
  <2>1. CASE v = w
    BY <1>6, <1>8, <1>10, <1>12, <1>14, <2>1
  <2>2. CASE v # w
    <3>1. Processing(v) /\ KeyOf(v) \in Keys /\ v \in setting.workers
      BY <1>14, <2>2
    <3>2. CASE KeyOf(v) = k
      <4>1. Name(v) = Name(w)
        BY <1>6, <1>8, <1>14, <2>2, <3>2
      <4> QED
        BY <1>3, <2>2, <3>1, <4>1 DEF DistinctNames
    <3>3. CASE KeyOf(v) # k
      <4>1. items'[KeyOf(v)] = items[KeyOf(v)]
        BY <1>8, <3>1, <3>3
      <4> QED
        BY <1>14, <2>2, <3>1, <4>1 DEF LeaseInv, OwnAttempt
    <3> QED
      BY <3>2, <3>3
  <2> QED
    BY <2>1, <2>2
<1> QED
  BY <1>13, <1>15, <1>16, <1>17 DEF LeaseInv

LEMMA TickKeeps ==
  ASSUME LeaseInv, Tick
  PROVE  LeaseInv'
<1>1. /\ clock' = clock + 1 /\ items' = items /\ checkpoints' = checkpoints
      /\ terminal' = terminal
      /\ worker' = worker /\ setting' = setting
      /\ setting.fitsLease => \A w \in Workers : FitsLease(w)
  BY DEF Tick, Store!Tick, worldVars
<1>2. clock \in Nat /\ \A w \in Workers : worker[w].now \in Nat
  BY Numbers DEF LeaseInv
<1>3. TypeInv'
  BY <1>1, <1>2 DEF LeaseInv, TypeInv, StoreType, WorkerType, At, KeyOf
<1>4. Claiming'
  <2> SUFFICES ASSUME NEW w \in Workers, At(w, "claim") \/ Processing(w)
               PROVE  /\ worker[w].now <= clock + 1
                      /\ At(w, "claim") /\ setting.fitsLease => clock + 1 < worker[w].now + Lease
    BY <1>1 DEF Claiming, At, Processing
  <2>1. worker[w].now <= clock
    BY DEF LeaseInv, Claiming
  <2> QED
    BY <1>1, <1>2, <2>1 DEF FitsLease
<1>5. ExclusiveProcessing'
  <2> SUFFICES ASSUME setting.fitsLease, NEW w \in Workers, Processing(w)
               PROVE  items[KeyOf(w)].expires > clock + 1
    BY <1>1 DEF LeaseInv, ExclusiveProcessing, Holds, Store!Owned, Processing, KeyOf, Name
  <2>1. KeyOf(w) \in Keys
    BY DEF LeaseInv, TypeInv, WorkerType, At, Processing
  <2>2. items[KeyOf(w)].expires \in Nat
    BY <2>1, Numbers DEF LeaseInv
  <2> QED
    BY <1>1, <1>2, <2>2 DEF FitsLease
<1>6. OwnAttempt'
  BY <1>1 DEF LeaseInv, OwnAttempt, DistinctNames, Name, KeyOf, Processing
<1> QED
  BY <1>3, <1>4, <1>5, <1>6 DEF LeaseInv

LEMMA StillKeeps ==
  ASSUME LeaseInv, UNCHANGED <<items, checkpoints, terminal, clock, worker, setting>>
  PROVE  LeaseInv'
BY DEF LeaseInv, TypeInv, StoreType, WorkerType, At, KeyOf, Claiming, ExclusiveProcessing,
       Holds, Store!Owned, Processing, Name, OwnAttempt, DistinctNames

--------------------------------------------------------------------------------
(* Every action is of one kind *)

\* An item given back by checkpoint or terminalize.
LEMMA ReleasedType ==
  ASSUME StoreType, NEW k \in Keys, NEW st \in Store!WorkStates, NEW ref \in Refs \cup {NoRef}
  PROVE  Store!Released(k, st, ref) \in Store!WorkItem /\ Store!Released(k, st, ref).state = st
<1>1. items[k] \in Store!WorkItem
  BY DEF StoreType
<1> QED
  BY <1>1 DEF Store!Released, Store!WorkItem

LEMMA CheckpointRecords ==
  ASSUME TypeInv, NEW w \in Workers, Processing(w), Stop(w), UNCHANGED setting,
         NEW s \in 1 .. 5, NEW ref \in Refs \cup {NoRef},
         Store!Checkpoint(KeyOf(w), Name(w), s, ref, clock)
  PROVE  Records(w) /\ \A k : k = KeyOf(w) => Store!LatestStage(k)' = s
<1>1. PICK k : k = KeyOf(w)
  OBVIOUS
<1>2. k \in Keys
  BY <1>1 DEF TypeInv, WorkerType, Processing, At
<1>3. PICK st \in {"completed", "checkpointed"} :
        st = IF s = Store!Completed THEN "completed" ELSE "checkpointed"
  OBVIOUS
<1>4. PICK item : item = Store!Released(k, st, ref)
  OBVIOUS
<1>5. PICK r : r = [stage |-> s, attempt |-> items[k].attempt, ref |-> ref]
  OBVIOUS
<1>6. /\ Holds(w, clock) /\ clock' = clock /\ terminal' = terminal
      /\ items' = [items EXCEPT ![k] = item]
      /\ checkpoints' = [checkpoints EXCEPT ![k] = Append(checkpoints[k], r)]
  BY <1>1, <1>3, <1>4, <1>5 DEF Store!Checkpoint, Holds
<1>7. item \in Store!WorkItem /\ item.state # "in_progress"
  BY <1>2, <1>3, <1>4, ReleasedType DEF TypeInv, Store!WorkStates
<1>8. items[k].attempt \in Nat /\ clock \in Nat
  BY <1>2, Numbers
<1>9. r \in Store!CheckpointRecord /\ r.stage = s
  BY <1>5, <1>8 DEF Store!CheckpointRecord, Store!Stages, Store!Accepted, Store!Completed
<1>10. /\ items' \in [Keys -> Store!WorkItem] /\ items'[k] = item
       /\ \A j \in Keys : j # k => items'[j] = items[j]
  BY <1>2, <1>6, <1>7 DEF TypeInv, StoreType
<1>11. checkpoints[k] \in Seq(Store!CheckpointRecord)
  BY <1>2 DEF TypeInv, StoreType
<1>12. PICK h \in Seq(Store!CheckpointRecord) :
         h = Append(checkpoints[k], r) /\ h # <<>> /\ h[Len(h)] = r
  <2>1. /\ Append(checkpoints[k], r) \in Seq(Store!CheckpointRecord)
        /\ Len(checkpoints[k]) \in Nat
        /\ Len(Append(checkpoints[k], r)) = Len(checkpoints[k]) + 1
        /\ Append(checkpoints[k], r)[Len(checkpoints[k]) + 1] = r
    BY <1>9, <1>11
  <2>2. Append(checkpoints[k], r) # <<>>
    BY <2>1
  <2> QED
    BY <2>1, <2>2
<1>13. /\ checkpoints' \in [Keys -> Seq(Store!CheckpointRecord)] /\ checkpoints'[k] = h
       /\ \A j \in Keys : j # k => checkpoints'[j] = checkpoints[j]
  BY <1>2, <1>6, <1>12 DEF TypeInv, StoreType
<1>14. Store!LatestStage(k)' = s
  BY <1>9, <1>12, <1>13 DEF Store!LatestStage
<1>15. /\ worker' \in [Workers -> WorkerState] /\ worker'[w].pc = "idle"
       /\ \A v \in Workers : v # w => worker'[v] = worker[v]
  BY StopMoves DEF TypeInv, WorkerType
<1>16. Records(w)
  BY <1>1, <1>6, <1>7, <1>8, <1>10, <1>13, <1>15 DEF Records, Frame, TypeInv, StoreType
<1> QED
  BY <1>1, <1>14, <1>16

\* The stages on record are stages.
LEMMA LatestType ==
  ASSUME TypeInv, NEW k \in Keys
  PROVE  Store!LatestStage(k) \in 0 .. 5
<1>1. checkpoints[k] \in Seq(Store!CheckpointRecord)
  BY DEF TypeInv, StoreType
<1>2. CASE checkpoints[k] = <<>>
  BY <1>2 DEF Store!LatestStage
<1>3. CASE checkpoints[k] # <<>>
  <2>1. Len(checkpoints[k]) \in 1 .. Len(checkpoints[k])
    BY <1>1, <1>3, EmptySeq
  <2>2. checkpoints[k][Len(checkpoints[k])] \in Store!CheckpointRecord
    BY <1>1, <2>1, ElementOfSeq
  <2> QED
    BY <1>3, <2>2 DEF Store!LatestStage, Store!CheckpointRecord, Store!Stages,
                      Store!Accepted, Store!Completed
<1> QED
  BY <1>2, <1>3

\* What the target and the effect records hold are times.
EffectType ==
  /\ effects \in [Keys -> Int]
  /\ target \in [Keys -> Seq(Nat)]

\* A submission adds to what the target holds of the key, at the time it is made,
\* or finds it there.
LEMMA MutatedGrows ==
  ASSUME TypeInv, EffectType, NEW k \in Keys
  PROVE  /\ Mutated(k) \in [Keys -> Seq(Nat)]
         /\ Mutated(k)[k] # <<>>
         /\ \A j \in Keys : target[j] # <<>> => Mutated(k)[j] # <<>>
         /\ Mutated(k)[k][Len(Mutated(k)[k])] \in Nat
<1>1. clock \in Nat /\ target[k] \in Seq(Nat) /\ target \in [Keys -> Seq(Nat)]
  BY Numbers DEF EffectType
<1>2. CASE setting.uniqueKey /\ target[k] # <<>>
  <2>1. Mutated(k) = target
    BY <1>2 DEF Mutated
  <2>2. Len(target[k]) \in 1 .. Len(target[k])
    BY <1>1, <1>2, EmptySeq
  <2>3. target[k][Len(target[k])] \in Nat
    BY <1>1, <2>2, ElementOfSeq
  <2> QED
    BY <1>1, <1>2, <2>1, <2>3
<1>3. CASE ~ (setting.uniqueKey /\ target[k] # <<>>)
  <2>1. Mutated(k) = [target EXCEPT ![k] = Append(target[k], clock)]
    BY <1>3 DEF Mutated
  <2>2. PICK h : h = Append(target[k], clock)
    OBVIOUS
  <2>3. h \in Seq(Nat) /\ Len(h) = Len(target[k]) + 1 /\ h[Len(target[k]) + 1] = clock
        /\ Len(target[k]) \in Nat
    BY <1>1, <2>2
  <2>4. h # <<>> /\ h[Len(h)] \in Nat
    BY <1>1, <2>3
  <2>5. Mutated(k) = [target EXCEPT ![k] = h]
    BY <2>1, <2>2
  <2>6. Mutated(k)[k] = h /\ \A j \in Keys : j # k => Mutated(k)[j] = target[j]
    BY <1>1, <2>5
  <2>7. Mutated(k) \in [Keys -> Seq(Nat)]
    BY <1>1, <2>3, <2>5
  <2> QED
    BY <2>4, <2>6, <2>7
<1> QED
  BY <1>2, <1>3

StoreSame == UNCHANGED storeVars /\ UNCHANGED setting

LEMMA MovesBy ==
  ASSUME TypeInv, NEW w \in Workers, Processing(w), StoreSame, KeepsClaim(w),
         worker'[w].pc \notin {"idle", "claim", "deadletter"}
  PROVE  MovesOn(w)
BY DEF MovesOn, Frame, StoreSame, storeVars, Processing

LEMMA LeavesBy ==
  ASSUME TypeInv, NEW w \in Workers, ~ At(w, "idle"), StoreSame, Stop(w)
  PROVE  Leaves(w)
BY StopMoves DEF Leaves, Frame, StoreSame, storeVars, TypeInv, WorkerType

Kinds(w) == MovesOn(w) \/ Leaves(w) \/ Records(w)

LEMMA StageKinds ==
  ASSUME TypeInv, NEW w \in Workers,
         ReadStage(w) \/ WorkSucceeds(w) \/ WorkFails(w) \/ RecordStage(w)
  PROVE  Kinds(w)
<1>1. worker \in [Workers -> WorkerState]
  BY DEF TypeInv, WorkerType
<1>2. Processing(w) /\ KeyOf(w) \in Keys /\ ~ At(w, "idle")
  BY DEF ReadStage, WorkSucceeds, WorkFails, RecordStage, At, Processing, TypeInv, WorkerType
<1>3. ASSUME NEW st \in Endings, StoreSame, EndWith(w, st) PROVE MovesOn(w)
  BY <1>1, <1>2, <1>3, EndMoves, MovesBy
<1>4. ASSUME NEW p \in Pcs, p \notin {"idle", "claim", "deadletter"}, StoreSame, Goto(w, p)
      PROVE  MovesOn(w)
  BY <1>1, <1>2, <1>4, GotoMoves, MovesBy
<1>5. CASE ReadStage(w)
  <2>1. StoreSame
    BY <1>5 DEF ReadStage, StoreSame, worldVars
  <2>2. CASE EndWith(w, "retry-exhausted")
    BY <1>3, <2>1, <2>2 DEF Endings, Kinds
  <2>3. CASE ~ EndWith(w, "retry-exhausted")
    <3>1. PICK s \in 0 .. 5 : worker' = [worker EXCEPT ![w].pc = "work", ![w].stage = s]
      <4>1. PICK s : /\ s = Store!NextStage(KeyOf(w)) /\ s <= Store!Completed
                     /\ worker' = [worker EXCEPT ![w].pc = "work", ![w].stage = s]
        BY <1>5, <2>3 DEF ReadStage
      <4>2. s \in 0 .. 5
        BY <1>2, <4>1, LatestType DEF Store!NextStage, Store!Completed
      <4> QED
        BY <4>1, <4>2
    <3>2. PICK new : new = [worker[w] EXCEPT !.pc = "work", !.stage = s]
      OBVIOUS
    <3>3. /\ new \in WorkerState /\ new.pc = "work" /\ new.key = worker[w].key
          /\ new.attempt = worker[w].attempt /\ new.now = worker[w].now
      BY <1>1, <3>2 DEF WorkerState, Pcs
    <3>4. worker' = [worker EXCEPT ![w] = new]
      BY <1>1, <3>1, <3>2
    <3>5. KeepsClaim(w) /\ worker'[w].pc = "work"
      BY <1>1, <3>3, <3>4 DEF KeepsClaim
    <3> QED
      BY <1>2, <2>1, <3>5, MovesBy DEF Kinds
  <2> QED
    BY <2>2, <2>3 DEF Kinds
<1>6. CASE WorkSucceeds(w)
  <2>1. StoreSame
    BY <1>6 DEF WorkSucceeds, StoreSame, worldVars
  <2>2. Goto(w, "checkpoint") \/ Goto(w, "authorize")
    BY <1>6 DEF WorkSucceeds
  <2>3. \E p \in Pcs \ {"idle", "claim", "deadletter"} : Goto(w, p)
    BY <2>2 DEF Pcs
  <2> QED
    BY <1>4, <2>1, <2>3 DEF Kinds
<1>7. CASE WorkFails(w)
  BY <1>3, <1>7 DEF WorkFails, StoreSame, worldVars, Endings, Kinds
<1>8. CASE RecordStage(w)
  <2>1. /\ UNCHANGED setting
        /\ \/ \E ref \in Refs : Store!Checkpoint(KeyOf(w), Name(w), worker[w].stage, ref, clock)
              /\ Stop(w)
           \/ StoreSame /\ Stop(w)
           \/ StoreSame /\ EndWith(w, "retry-exhausted")
    BY <1>8 DEF RecordStage, StoreSame, worldVars
  <2>2. ASSUME NEW ref \in Refs, Stop(w),
               Store!Checkpoint(KeyOf(w), Name(w), worker[w].stage, ref, clock)
        PROVE  Records(w)
    <3>1. worker[w].stage > Store!LatestStage(KeyOf(w))
      BY <2>2 DEF Store!Checkpoint
    <3>2. worker[w].stage \in 1 .. 5
      BY <1>1, <1>2, <3>1, LatestType DEF WorkerState
    <3> QED
      BY <1>2, <2>1, <2>2, <3>2, CheckpointRecords
  <2> QED
    BY <1>2, <1>3, <2>1, <2>2, LeavesBy DEF Kinds, Endings
<1> QED
  BY <1>5, <1>6, <1>7, <1>8

LEMMA WriteBackKinds ==
  ASSUME TypeInv, EffectType, NEW w \in Workers, WriteBackStep(w)
  PROVE  Kinds(w)
<1>1. worker \in [Workers -> WorkerState]
  BY DEF TypeInv, WorkerType
<1>2. Processing(w) /\ KeyOf(w) \in Keys /\ ~ At(w, "idle")
  BY DEF WriteBackStep, Authorize, LookupEffect, LookupReconciliation, Submit,
         VerifyEffect, ExecuteEffect, SaveEffect,
         ReadCompleted, RestoreCheckpoint, SaveReconciliation, At, Processing, TypeInv, WorkerType
<1>3. ASSUME NEW st \in Endings, StoreSame, EndWith(w, st) PROVE Kinds(w)
  BY <1>1, <1>2, <1>3, EndMoves, MovesBy DEF Kinds
<1>4. ASSUME NEW p \in Pcs \ {"idle", "claim", "deadletter"}, StoreSame, Goto(w, p)
      PROVE  Kinds(w)
  BY <1>1, <1>2, <1>4, GotoMoves, MovesBy DEF Kinds
<1>5. ASSUME NEW t \in Int, StoreSame, Committed(w, t) PROVE Kinds(w)
  BY <1>1, <1>2, <1>5, CommitMoves, MovesBy DEF Kinds
<1>6. CASE RestoreCheckpoint(w)
  <2>1. /\ UNCHANGED setting
        /\ \/ Store!Checkpoint(KeyOf(w), Name(w), Store!Completed, NoRef, clock) /\ Stop(w)
           \/ StoreSame /\ EndWith(w, "write-back-failed")
    BY <1>6 DEF RestoreCheckpoint, StoreSame, worldVars
  <2>2. CASE Store!Checkpoint(KeyOf(w), Name(w), Store!Completed, NoRef, clock) /\ Stop(w)
    <3>1. Store!Completed \in 1 .. 5
      BY DEF Store!Completed
    <3> QED
      BY <1>2, <2>1, <2>2, <3>1, CheckpointRecords DEF Kinds
  <2> QED
    BY <1>3, <2>1, <2>2 DEF Endings
<1>7. CASE ~ RestoreCheckpoint(w)
  <2>1. StoreSame
    BY <1>7 DEF WriteBackStep, Authorize, LookupEffect, LookupReconciliation, Submit,
         VerifyEffect, ExecuteEffect, SaveEffect,
      ReadCompleted, SaveReconciliation, StoreSame, worldVars, effectVars
  <2>2. CASE Authorize(w)
    BY <1>3, <1>4, <2>1, <2>2 DEF Authorize, Pcs, Endings
  <2>3. CASE LookupEffect(w) \/ LookupReconciliation(w)
    <3>1. \/ Goto(w, "restore") \/ EndWith(w, "write-back-failed")
          \/ Goto(w, "pending") \/ Goto(w, "execute") \/ Goto(w, "verify")
      BY <2>3 DEF LookupEffect, LookupReconciliation, Submit
    <3> QED
      BY <1>3, <1>4, <2>1, <3>1 DEF Pcs, Endings
  <2>4. CASE VerifyEffect(w)
    <3>1. CASE target[KeyOf(w)] # <<>> /\ Committed(w, Head(target[KeyOf(w)]))
      <4>1. Head(target[KeyOf(w)]) \in Nat
        BY <1>2, <3>1, HeadTailProperties DEF EffectType
      <4> QED
        BY <1>5, <2>1, <3>1, <4>1
    <3> QED
      BY <1>3, <1>4, <2>1, <2>4, <3>1 DEF VerifyEffect, Pcs, Endings
  <2>5. CASE ExecuteEffect(w)
    <3>1. PICK k : k = KeyOf(w)
      OBVIOUS
    <3>2. \/ /\ target' = Mutated(k)
             /\ Committed(w, IF setting.boundary = "shared"
                             THEN target'[k][Len(target'[k])] ELSE clock)
          \/ Goto(w, "reconcile")
          \/ EndWith(w, "write-back-failed")
      BY <2>5, <3>1 DEF ExecuteEffect
    <3>3. CASE /\ target' = Mutated(k)
               /\ Committed(w, IF setting.boundary = "shared"
                               THEN target'[k][Len(target'[k])] ELSE clock)
      <4>1. PICK t : t = IF setting.boundary = "shared"
                         THEN target'[k][Len(target'[k])] ELSE clock
        OBVIOUS
      <4>2. t \in Nat
        BY <1>2, <3>1, <3>3, <4>1, MutatedGrows, Numbers
      <4> QED
        BY <1>5, <2>1, <3>3, <4>1, <4>2
    <3> QED
      BY <1>3, <1>4, <2>1, <3>2, <3>3 DEF Pcs, Endings
  <2>6. CASE SaveEffect(w)
    BY <1>3, <1>4, <2>1, <2>6 DEF SaveEffect, Pcs, Endings
  <2>7. CASE ReadCompleted(w)
    BY <1>2, <1>4, <2>1, <2>7, LeavesBy DEF ReadCompleted, Pcs, Kinds
  <2>8. CASE SaveReconciliation(w)
    BY <1>3, <2>1, <2>8 DEF SaveReconciliation, Endings
  <2> QED
    BY <1>7, <2>2, <2>3, <2>4, <2>5, <2>6, <2>7, <2>8 DEF WriteBackStep
<1> QED
  BY <1>6, <1>7

LEMMA TerminalKinds ==
  ASSUME TypeInv, NEW w \in Workers, TerminalStep(w)
  PROVE  Kinds(w)
<1>1. worker \in [Workers -> WorkerState]
  BY DEF TypeInv, WorkerType
<1>2. KeyOf(w) \in Keys /\ ~ At(w, "idle")
  BY DEF TerminalStep, CaptureTime, EndWork, PersistDeadLetter, At, TypeInv, WorkerType
<1>3. CASE CaptureTime(w)
  <2>1. Processing(w) /\ StoreSame
    BY <1>3 DEF CaptureTime, Processing, At, StoreSame, worldVars
  <2>2. PICK new : new = [worker[w] EXCEPT !.pc = "terminalize", !.now = clock]
    OBVIOUS
  <2>3. /\ new \in WorkerState /\ new.pc = "terminalize" /\ new.key = worker[w].key
        /\ new.attempt = worker[w].attempt /\ new.now = clock
    BY <1>1, <2>2, Numbers DEF WorkerState, Pcs
  <2>4. worker' = [worker EXCEPT ![w] = new]
    BY <1>1, <1>3, <2>2 DEF CaptureTime
  <2>5. KeepsClaim(w) /\ worker'[w].pc = "terminalize"
    BY <1>1, <2>3, <2>4 DEF KeepsClaim
  <2> QED
    BY <2>1, <2>5, MovesBy DEF Kinds
<1>4. CASE EndWork(w)
  <2>1. PICK k, e : k = KeyOf(w) /\ e = worker[w].end
    OBVIOUS
  <2>2. /\ UNCHANGED setting /\ Processing(w)
        /\ \/ /\ \E ref \in (IF e = "succeeded" THEN Refs ELSE {NoRef}) :
                   Store!Terminalize(k, Name(w), e, ref, worker[w].now)
              /\ Recorded(w)
           \/ StoreSame /\ Recorded(w)
           \/ StoreSame /\ (Stop(w) \/ EndWith(w, "retry-exhausted"))
    BY <1>4, <2>1 DEF EndWork, EndingRefused, StoreSame, worldVars, At, Processing
  <2>3. ASSUME Recorded(w)
        PROVE  /\ worker' \in [Workers -> WorkerState]
               /\ \A v \in Workers : v # w => worker'[v] = worker[v]
               /\ \/ worker'[w].pc = "idle"
                  \/ worker'[w].pc = "deadletter" /\ worker'[w].key = worker[w].key
    <3>1. Goto(w, "deadletter") \/ Stop(w)
      BY <2>3 DEF Recorded
    <3> QED
      BY <1>1, <3>1, GotoMoves, StopMoves DEF Pcs, KeepsClaim
  <2>4. CASE StoreSame /\ Recorded(w)
    BY <1>2, <2>3, <2>4 DEF Kinds, Leaves, Frame, StoreSame, storeVars
  <2>5. ASSUME Recorded(w), NEW ref \in Refs \cup {NoRef},
               Store!Terminalize(k, Name(w), e, ref, worker[w].now)
        PROVE  Records(w)
    <3>1. PICK item : item = Store!Released(k, "completed", ref)
      OBVIOUS
    <3>2. item \in Store!WorkItem /\ item.state # "in_progress"
      BY <1>2, <2>1, <3>1, ReleasedType DEF TypeInv, Store!WorkStates
    <3>3. PICK x : x = [state |-> e, attempt |-> items[k].attempt,
                        ref |-> IF ref = NoRef THEN items[k].result ELSE ref]
      OBVIOUS
    <3>4. /\ Holds(w, worker[w].now) /\ clock' = clock /\ checkpoints' = checkpoints
          /\ items' = [items EXCEPT ![k] = item]
          /\ terminal' = [terminal EXCEPT ![k] = x]
      BY <2>1, <2>5, <3>1, <3>3 DEF Store!Terminalize, Holds
    <3>5. /\ items' \in [Keys -> Store!WorkItem] /\ items'[k] = item
          /\ \A j \in Keys : j # k => items'[j] = items[j]
      BY <1>2, <2>1, <3>2, <3>4 DEF TypeInv, StoreType
    <3>6. \A j \in Keys : j # k => terminal'[j] = terminal[j]
      BY <3>4 DEF TypeInv, StoreType
    <3> QED
      BY <1>2, <2>1, <2>2, <2>3, <2>5, <3>2, <3>4, <3>5, <3>6, Numbers
      DEF Records, Frame, TypeInv, StoreType
  <2>6. CASE StoreSame /\ EndWith(w, "retry-exhausted")
    BY <1>1, <2>2, <2>6, EndMoves, MovesBy DEF Kinds, Endings
  <2> QED
    BY <1>2, <2>2, <2>4, <2>5, <2>6, LeavesBy DEF Kinds
<1>5. CASE PersistDeadLetter(w)
  BY <1>2, <1>5, LeavesBy DEF PersistDeadLetter, StoreSame, worldVars, Kinds
<1> QED
  BY <1>3, <1>4, <1>5 DEF TerminalStep

LEMMA WorkerKinds ==
  ASSUME TypeInv, EffectType, NEW w \in Workers, WorkerStep(w) \/ Crash(w)
  PROVE  \/ \E k \in Keys : ReadProgress(w, k)
         \/ ClaimWork(w) /\ Store!Claimable(KeyOf(w), worker[w].now)
         \/ Kinds(w)
<1>1. CASE ClaimWork(w) /\ ~ Store!Claimable(KeyOf(w), worker[w].now)
  <2>1. ~ At(w, "idle") /\ StoreSame /\ Stop(w)
    BY <1>1 DEF ClaimWork, At, StoreSame, worldVars
  <2> QED
    BY <2>1, LeavesBy DEF Kinds
<1>2. CASE Crash(w)
  BY <1>2, LeavesBy DEF Crash, StoreSame, Kinds
<1> QED
  BY <1>1, <1>2, StageKinds, WriteBackKinds, TerminalKinds DEF WorkerStep

LEMMA StepKinds ==
  ASSUME TypeInv, EffectType, [Next]_vars
  PROVE  \/ UNCHANGED <<items, checkpoints, terminal, clock, worker, setting>>
         \/ Tick
         \/ \E w \in Workers :
              \/ \E k \in Keys : ReadProgress(w, k)
              \/ ClaimWork(w) /\ Store!Claimable(KeyOf(w), worker[w].now)
              \/ Kinds(w)
<1>1. CASE \E w \in Workers : WorkerStep(w) \/ Crash(w)
  BY <1>1, WorkerKinds
<1>2. CASE Revoke
  BY <1>2 DEF Revoke, storeVars
<1>3. CASE UNCHANGED vars
  BY <1>3 DEF vars, storeVars, worldVars
<1> QED
  BY <1>1, <1>2, <1>3 DEF Next

LEMMA LeaseStep == LeaseInv /\ EffectType /\ [Next]_vars => LeaseInv'
<1> SUFFICES ASSUME LeaseInv, EffectType, [Next]_vars PROVE LeaseInv'
  OBVIOUS
<1>1. TypeInv
  BY DEF LeaseInv
<1>2. ASSUME NEW w \in Workers, Kinds(w) PROVE LeaseInv'
  BY <1>2, MovesOnKeeps, LeavesKeeps, RecordsKeeps DEF Kinds
<1>3. CASE UNCHANGED <<items, checkpoints, terminal, clock, worker, setting>>
  BY <1>3, StillKeeps
<1> QED
  BY <1>1, <1>2, <1>3, StepKinds, ReadProgressKeeps, ClaimKeeps, TickKeeps

\* The job starts with items at checkpoints of earlier attempts, none Completed.
LEMMA WorkerInit ==
  ASSUME Init
  PROVE  LeaseInv /\ \A k \in Keys : Store!LatestStage(k) # Store!Completed
<1>1. PICK start \in [setting.keys -> setting.start] :
        /\ items = [k \in Keys |->
             IF k \in setting.keys
             THEN [itemId |-> k, payload |-> k,
                   state |-> IF start[k] = 0 THEN "pending" ELSE "checkpointed",
                   attempt |-> start[k], owner |-> NoOwner, expires |-> 0, result |-> NoRef]
             ELSE Store!AbsentItem]
        /\ checkpoints = [k \in Keys |->
             IF k \in setting.keys
             THEN [n \in 1 .. start[k] |-> [stage |-> n, attempt |-> n, ref |-> NoRef]]
             ELSE <<>>]
  BY DEF Init
<1>2. /\ terminal = [k \in Keys |-> Store!NoTerminal] /\ clock = 0
      /\ worker = [w \in Workers |-> IdleWorker] /\ setting \in Setting
  BY WorkerAssumption DEF Init, WorkerAssumption
<1>3. ASSUME NEW k \in setting.keys PROVE start[k] \in 0 .. 4
  BY <1>2, <1>3 DEF Setting, Store!Validated
<1>4. ASSUME NEW k \in Keys PROVE items[k] \in Store!WorkItem
  <2>1. CASE k \in setting.keys
    <3>1. PICK st \in Store!WorkStates :
            st = IF start[k] = 0 THEN "pending" ELSE "checkpointed"
      BY DEF Store!WorkStates
    <3>2. items[k] = [itemId |-> k, payload |-> k, state |-> st, attempt |-> start[k],
                      owner |-> NoOwner, expires |-> 0, result |-> NoRef]
      BY <1>1, <1>4, <2>1, <3>1
    <3>3. start[k] \in Nat
      BY <1>3, <2>1
    <3> QED
      BY <1>4, <3>1, <3>2, <3>3 DEF Store!WorkItem
  <2>2. CASE k \notin setting.keys
    BY <1>1, <1>4, <2>2 DEF Store!AbsentItem, Store!WorkItem, Store!WorkStates
  <2> QED
    BY <2>1, <2>2
<1>5. ASSUME NEW k \in Keys
      PROVE  /\ checkpoints[k] \in Seq(Store!CheckpointRecord)
             /\ Store!LatestStage(k) # Store!Completed
  <2>1. CASE k \in setting.keys
    <3>1. PICK n0 \in 0 .. 4 : n0 = start[k]
      BY <1>3, <2>1
    <3>2. PICK h : h = [n \in 1 .. n0 |-> [stage |-> n, attempt |-> n, ref |-> NoRef]]
      OBVIOUS
    <3>3. checkpoints[k] = h
      BY <1>1, <1>5, <2>1, <3>1, <3>2
    <3>4. \A n \in 1 .. n0 : h[n] \in Store!CheckpointRecord /\ h[n].stage = n
      <4> SUFFICES ASSUME NEW n \in 1 .. n0
                   PROVE  h[n] \in Store!CheckpointRecord /\ h[n].stage = n
        OBVIOUS
      <4>1. n \in 1 .. 5 /\ n \in Nat
        BY <3>1
      <4>2. h[n] = [stage |-> n, attempt |-> n, ref |-> NoRef]
        BY <3>2
      <4> QED
        BY <4>1, <4>2 DEF Store!CheckpointRecord, Store!Stages, Store!Accepted, Store!Completed
    <3>5. h \in [1 .. n0 -> Store!CheckpointRecord]
      BY <3>2, <3>4
    <3>6. h \in Seq(Store!CheckpointRecord) /\ Len(h) = n0
      BY <3>1, <3>5, SeqDef
    <3>7. CASE h = <<>>
      BY <3>3, <3>7 DEF Store!LatestStage, Store!Completed
    <3>8. CASE h # <<>>
      <4>1. n0 \in 1 .. n0
        BY <3>1, <3>6, <3>8, EmptySeq
      <4>2. Store!LatestStage(k) = n0
        BY <3>3, <3>4, <3>6, <3>8, <4>1 DEF Store!LatestStage
      <4> QED
        BY <3>1, <3>3, <3>6, <4>2 DEF Store!Completed
    <3> QED
      BY <3>3, <3>6, <3>7, <3>8 DEF Store!LatestStage, Store!Completed
  <2>2. CASE k \notin setting.keys
    BY <1>1, <1>5, <2>2 DEF Store!LatestStage, Store!Completed
  <2> QED
    BY <2>1, <2>2
<1>6. TypeInv
  <2>1. IdleWorker \in WorkerState /\ IdleWorker.pc = "idle"
    BY DEF IdleWorker, WorkerState, Pcs, Endings
  <2>2. items \in [Keys -> Store!WorkItem] /\ checkpoints \in [Keys -> Seq(Store!CheckpointRecord)]
    BY <1>1, <1>4, <1>5
  <2> QED
    BY <1>2, <2>1, <2>2 DEF TypeInv, StoreType, WorkerType, At
<1>7. \A w \in Workers : ~ At(w, "claim") /\ ~ Processing(w)
  BY <1>2 DEF At, Processing, IdleWorker
<1> QED
  BY <1>5, <1>6, <1>7 DEF LeaseInv, Claiming, ExclusiveProcessing, OwnAttempt

--------------------------------------------------------------------------------
(* Effects *)

\* What a worker on its way through write-back knows of its key, and that only the
\* write-back records the last stage.
Justified(w) ==
  /\ At(w, "save") => target[KeyOf(w)] # <<>> /\ worker[w].record \in Nat
  /\ worker[w].pc \in {"restore", "complete"} => effects[KeyOf(w)] # -1
  /\ At(w, "checkpoint") => worker[w].stage < Store!Completed

EffectInv ==
  /\ EffectType
  /\ CompletedMeansCommitted
  /\ \A w \in Workers : Justified(w)

\* A step that takes nothing back from target and effect records.
LEMMA EffectFrame ==
  ASSUME TypeInv, EffectInv, EffectType', setting' = setting, NEW w \in Workers,
         \A v \in Workers : v # w => worker'[v] = worker[v],
         Justified(w)',
         \A k \in Keys : /\ target[k] # <<>> => target'[k] # <<>>
                         /\ effects[k] # -1 => effects'[k] # -1
                         /\ effects'[k] # -1 => effects[k] # -1 \/ target'[k] # <<>>
                         /\ Store!LatestStage(k)' = Store!Completed
                              => Store!LatestStage(k) = Store!Completed \/ effects'[k] # -1
  PROVE  EffectInv'
<1>1. CompletedMeansCommitted'
  BY DEF EffectInv, CompletedMeansCommitted, Store!Completed
<1>2. ASSUME NEW v \in Workers, v # w PROVE Justified(v)'
  <2>1. worker'[v] = worker[v]
    BY <1>2
  <2>2. At(v, "save") \/ worker[v].pc \in {"restore", "complete"} => KeyOf(v) \in Keys
    BY DEF TypeInv, WorkerType, At
  <2>3. Justified(v)
    BY DEF EffectInv
  <2> QED
    BY <2>1, <2>2, <2>3 DEF Justified, At, KeyOf, Store!Completed
<1> QED
  BY <1>1, <1>2 DEF EffectInv

\* The same where target and effect records stay and the worker is elsewhere.
LEMMA EffectStays ==
  ASSUME TypeInv, EffectInv, UNCHANGED <<setting, effects, target>>, NEW w \in Workers,
         \A v \in Workers : v # w => worker'[v] = worker[v],
         Justified(w)',
         \A k \in Keys : Store!LatestStage(k)' # Store!Completed
                           \/ Store!LatestStage(k)' = Store!LatestStage(k)
  PROVE  EffectInv'
<1>1. EffectType'
  BY DEF EffectInv, EffectType
<1>2. Store!Completed' = Store!Completed
  BY DEF Store!Completed
<1> QED
  BY <1>1, <1>2, EffectFrame

LEMMA StoreStays ==
  ASSUME UNCHANGED checkpoints, NEW k \in Keys
  PROVE  Store!LatestStage(k)' = Store!LatestStage(k)
BY DEF Store!LatestStage

Unconcerned == Pcs \ {"save", "restore", "complete", "checkpoint"}

LEMMA UnconcernedIsJustified ==
  ASSUME NEW w \in Workers, worker'[w].pc \in Unconcerned
  PROVE  Justified(w)'
BY DEF Justified, At, Unconcerned

\* Most steps neither touch effects nor histories nor enter a state that must be
\* justified.
LEMMA QuietStep ==
  ASSUME TypeInv, EffectInv, UNCHANGED <<setting, effects, target, checkpoints>>,
         NEW w \in Workers, \A v \in Workers : v # w => worker'[v] = worker[v],
         worker'[w].pc \in Unconcerned
  PROVE  EffectInv'
BY EffectStays, StoreStays, UnconcernedIsJustified

LEMMA QuietMoves ==
  ASSUME TypeInv, EffectInv, UNCHANGED <<setting, effects, target, checkpoints>>,
         NEW w \in Workers
  PROVE  /\ Stop(w) => EffectInv'
         /\ \A st \in Endings : EndWith(w, st) => EffectInv'
         /\ \A p \in Unconcerned : Goto(w, p) => EffectInv'
<1>1. worker \in [Workers -> WorkerState]
  BY DEF TypeInv, WorkerType
<1>2. "idle" \in Unconcerned /\ "capture" \in Unconcerned /\ Unconcerned \subseteq Pcs
  BY DEF Unconcerned, Pcs
<1>3. ASSUME Stop(w) PROVE EffectInv'
  BY <1>1, <1>2, <1>3, StopMoves, QuietStep
<1>4. ASSUME NEW st \in Endings, EndWith(w, st) PROVE EffectInv'
  BY <1>1, <1>2, <1>4, EndMoves, QuietStep DEF KeepsClaim
<1>5. ASSUME NEW p \in Unconcerned, Goto(w, p) PROVE EffectInv'
  BY <1>1, <1>2, <1>5, GotoMoves, QuietStep DEF KeepsClaim
<1> QED
  BY <1>3, <1>4, <1>5

LEMMA LoopEffects ==
  ASSUME TypeInv, EffectInv, NEW w \in Workers,
         \/ \E k \in Keys : ReadProgress(w, k)
         \/ ClaimWork(w) \/ ReadStage(w) \/ WorkSucceeds(w) \/ WorkFails(w) \/ RecordStage(w)
  PROVE  EffectInv'
<1>1. /\ worker \in [Workers -> WorkerState]
      /\ UNCHANGED <<setting, effects, target>>
  BY DEF TypeInv, WorkerType, ReadProgress, ClaimWork, ReadStage, WorkSucceeds, WorkFails,
         RecordStage, effectVars, worldVars
<1>2. CASE \E k \in Keys : ReadProgress(w, k)
  <2>1. PICK k \in Keys : ReadProgress(w, k)
    BY <1>2
  <2>2. PICK new : new = [IdleWorker EXCEPT !.pc = "claim", !.key = k, !.now = clock]
    OBVIOUS
  <2>3. worker' = [worker EXCEPT ![w] = new] /\ new.pc = "claim" /\ checkpoints' = checkpoints
    BY <2>1, <2>2 DEF ReadProgress, IdleWorker, storeVars
  <2>4. "claim" \in Unconcerned
    BY DEF Unconcerned, Pcs
  <2> QED
    BY <1>1, <2>3, <2>4, QuietStep
<1>3. CASE ClaimWork(w)
  <2>1. checkpoints' = checkpoints
    BY <1>3 DEF ClaimWork, Store!Claim, storeVars
  <2>2. CASE Stop(w)
    BY <1>1, <2>1, <2>2, QuietMoves
  <2>3. CASE ~ Stop(w)
    <3>1. PICK new : new = [worker[w] EXCEPT !.pc = "process",
                              !.attempt = items[KeyOf(w)].attempt + 1]
      OBVIOUS
    <3>2. worker' = [worker EXCEPT ![w] = new]
      BY <1>1, <1>3, <2>3, <3>1 DEF ClaimWork
    <3>3. new.pc = "process" /\ "process" \in Unconcerned
      BY <1>1, <3>1 DEF WorkerState, Unconcerned, Pcs
    <3> QED
      BY <1>1, <2>1, <3>2, <3>3, QuietStep
  <2> QED
    BY <2>2, <2>3
<1>4. CASE ReadStage(w)
  <2>1. checkpoints' = checkpoints
    BY <1>4 DEF ReadStage, storeVars
  <2>2. CASE EndWith(w, "retry-exhausted")
    BY <1>1, <2>1, <2>2, QuietMoves DEF Endings
  <2>3. CASE ~ EndWith(w, "retry-exhausted")
    <3>1. PICK s : worker' = [worker EXCEPT ![w].pc = "work", ![w].stage = s]
      BY <1>4, <2>3 DEF ReadStage
    <3>2. PICK new : new = [worker[w] EXCEPT !.pc = "work", !.stage = s]
      OBVIOUS
    <3>3. worker' = [worker EXCEPT ![w] = new]
      BY <1>1, <3>1, <3>2
    <3>4. new.pc = "work" /\ "work" \in Unconcerned
      BY <1>1, <3>2 DEF WorkerState, Unconcerned, Pcs
    <3> QED
      BY <1>1, <2>1, <3>3, <3>4, QuietStep
  <2> QED
    BY <2>2, <2>3
<1>5. CASE WorkSucceeds(w)
  <2>1. checkpoints' = checkpoints
    BY <1>5 DEF WorkSucceeds, storeVars
  <2>2. \/ worker[w].stage < Store!Completed /\ Goto(w, "checkpoint")
        \/ Goto(w, "authorize") \/ EndWith(w, "succeeded")
    BY <1>5 DEF WorkSucceeds
  <2>3. CASE worker[w].stage < Store!Completed /\ Goto(w, "checkpoint")
    <3>1. /\ worker'[w].pc = "checkpoint" /\ worker'[w].stage = worker[w].stage
          /\ \A v \in Workers : v # w => worker'[v] = worker[v]
      BY <1>1, <2>3, GotoMoves DEF KeepsClaim, Pcs
    <3>2. Justified(w)'
      BY <2>3, <3>1 DEF Justified, At, Store!Completed
    <3> QED
      BY <1>1, <2>1, <3>1, <3>2, EffectStays, StoreStays
  <2>4. "authorize" \in Unconcerned /\ "succeeded" \in Endings
    BY DEF Unconcerned, Pcs, Endings
  <2> QED
    BY <1>1, <2>1, <2>2, <2>3, <2>4, QuietMoves
<1>6. CASE WorkFails(w)
  <2>1. checkpoints' = checkpoints
    BY <1>6 DEF WorkFails, storeVars
  <2>2. \E st \in Endings : EndWith(w, st)
    BY <1>6 DEF WorkFails, Endings
  <2> QED
    BY <1>1, <2>1, <2>2, QuietMoves
<1>7. CASE RecordStage(w)
  <2>1. \/ \E ref \in Refs : Store!Checkpoint(KeyOf(w), Name(w), worker[w].stage, ref, clock)
           /\ Stop(w)
        \/ checkpoints' = checkpoints /\ (Stop(w) \/ EndWith(w, "retry-exhausted"))
    BY <1>7 DEF RecordStage, storeVars
  <2>2. ASSUME NEW ref \in Refs, Stop(w),
               Store!Checkpoint(KeyOf(w), Name(w), worker[w].stage, ref, clock)
        PROVE  EffectInv'
    <3>1. PICK s, k : s = worker[w].stage /\ k = KeyOf(w)
      OBVIOUS
    <3>2. Processing(w) /\ k \in Keys
      BY <1>7, <3>1 DEF RecordStage, At, Processing, TypeInv, WorkerType
    <3>3. s > Store!LatestStage(k) /\ s < Store!Completed
      BY <1>7, <2>2, <3>1 DEF Store!Checkpoint, RecordStage, EffectInv, Justified
    <3>4. s \in 1 .. 5
      BY <1>1, <3>1, <3>2, <3>3, LatestType DEF WorkerState
    <3>5. Records(w) /\ Store!LatestStage(k)' = s
      BY <1>1, <2>2, <3>1, <3>2, <3>4, CheckpointRecords
    <3>6. \A j \in Keys : j # k => Store!LatestStage(j)' = Store!LatestStage(j)
      BY <3>1, <3>5 DEF Records, Store!LatestStage
    <3>7. Justified(w)' /\ \A v \in Workers : v # w => worker'[v] = worker[v]
      BY <1>1, <2>2, StopMoves DEF Justified, At
    <3>8. s # Store!Completed /\ Store!Completed' = Store!Completed
      BY <3>3, <3>4 DEF Store!Completed
    <3> QED
      BY <1>1, <3>5, <3>6, <3>7, <3>8, EffectStays
  <2> QED
    BY <1>1, <2>1, <2>2, QuietMoves DEF Endings
<1> QED
  BY <1>2, <1>3, <1>4, <1>5, <1>6, <1>7

\* Entering a state of write-back that is justified, with effects as they were.
LEMMA JustifiedMoves ==
  ASSUME TypeInv, EffectInv, UNCHANGED <<setting, effects, target, checkpoints>>,
         NEW w \in Workers, KeyOf(w) \in Keys
  PROVE  /\ \A p \in {"restore", "complete"} :
              effects[KeyOf(w)] # -1 /\ Goto(w, p) => EffectInv'
         /\ \A t \in Nat :
              target[KeyOf(w)] # <<>> /\ Committed(w, t) => EffectInv'
<1>1. worker \in [Workers -> WorkerState]
  BY DEF TypeInv, WorkerType
<1>2. ASSUME NEW p \in {"restore", "complete"}, effects[KeyOf(w)] # -1, Goto(w, p)
      PROVE  EffectInv'
  <2>1. worker'[w].pc = p /\ KeepsClaim(w)
    BY <1>1, <1>2, GotoMoves DEF Pcs
  <2>2. Justified(w)'
    BY <1>2, <2>1 DEF Justified, At, KeyOf, KeepsClaim
  <2> QED
    BY <2>1, <2>2, EffectStays, StoreStays DEF KeepsClaim
<1>3. ASSUME NEW t \in Nat, target[KeyOf(w)] # <<>>, Committed(w, t)
      PROVE  EffectInv'
  <2>1. worker'[w].pc = "save" /\ worker'[w].record = t /\ KeepsClaim(w)
    BY <1>1, <1>3, CommitMoves
  <2>2. Justified(w)'
    BY <1>3, <2>1 DEF Justified, At, KeyOf, KeepsClaim
  <2> QED
    BY <2>1, <2>2, EffectStays, StoreStays DEF KeepsClaim
<1> QED
  BY <1>2, <1>3

LEMMA ExecuteEffects ==
  ASSUME TypeInv, EffectInv, NEW w \in Workers, ExecuteEffect(w)
  PROVE  EffectInv'
<1>1. PICK k : k = KeyOf(w)
  OBVIOUS
<1>2. /\ At(w, "execute") /\ k \in Keys /\ worker \in [Workers -> WorkerState]
      /\ UNCHANGED <<setting, effects, checkpoints>> /\ EffectType
      /\ \/ /\ target' = Mutated(k)
            /\ Committed(w, IF setting.boundary = "shared"
                            THEN target'[k][Len(target'[k])] ELSE clock)
         \/ target' \in {target, Mutated(k)} /\ Goto(w, "reconcile")
         \/ target' \in {target, Mutated(k)} /\ EndWith(w, "write-back-failed")
  BY <1>1 DEF ExecuteEffect, TypeInv, WorkerType, At, storeVars, worldVars, EffectInv
<1>3. /\ Mutated(k) \in [Keys -> Seq(Nat)] /\ Mutated(k)[k] # <<>>
      /\ \A j \in Keys : target[j] # <<>> => Mutated(k)[j] # <<>>
      /\ Mutated(k)[k][Len(Mutated(k)[k])] \in Nat
  BY <1>2, MutatedGrows
<1>4. ASSUME target' \in {target, Mutated(k)},
             \A v \in Workers : v # w => worker'[v] = worker[v], Justified(w)'
      PROVE  EffectInv'
  <2>1. EffectType'
    BY <1>2, <1>3, <1>4 DEF EffectType
  <2>2. \A j \in Keys : target[j] # <<>> => target'[j] # <<>>
    BY <1>3, <1>4
  <2>3. \A j \in Keys : Store!LatestStage(j)' = Store!LatestStage(j)
    BY <1>2, StoreStays
  <2>4. Store!Completed' = Store!Completed
    BY DEF Store!Completed
  <2> QED
    BY <1>2, <1>4, <2>1, <2>2, <2>3, <2>4, EffectFrame
<1>5. CASE /\ target' = Mutated(k)
           /\ Committed(w, IF setting.boundary = "shared"
                           THEN target'[k][Len(target'[k])] ELSE clock)
  <2>1. PICK t \in Nat : t = IF setting.boundary = "shared"
                             THEN target'[k][Len(target'[k])] ELSE clock
    BY <1>3, <1>5, Numbers
  <2>2. worker'[w].pc = "save" /\ worker'[w].record = t /\ KeepsClaim(w)
    BY <1>2, <1>5, <2>1, CommitMoves
  <2>3. Justified(w)'
    BY <1>1, <1>3, <1>5, <2>2 DEF Justified, At, KeyOf, KeepsClaim
  <2> QED
    BY <1>4, <1>5, <2>2, <2>3 DEF KeepsClaim
<1>6. CASE target' \in {target, Mutated(k)} /\ Goto(w, "reconcile")
  <2>1. worker'[w].pc = "reconcile" /\ KeepsClaim(w)
    BY <1>2, <1>6, GotoMoves DEF Pcs
  <2>2. Justified(w)'
    BY <2>1 DEF Justified, At
  <2> QED
    BY <1>4, <1>6, <2>1, <2>2 DEF KeepsClaim
<1>7. CASE target' \in {target, Mutated(k)} /\ EndWith(w, "write-back-failed")
  <2>1. worker'[w].pc = "capture" /\ KeepsClaim(w)
    BY <1>2, <1>7, EndMoves DEF Endings
  <2>2. Justified(w)'
    BY <2>1 DEF Justified, At
  <2> QED
    BY <1>4, <1>7, <2>1, <2>2 DEF KeepsClaim
<1> QED
  BY <1>2, <1>5, <1>6, <1>7

LEMMA SaveEffects ==
  ASSUME TypeInv, EffectInv, NEW w \in Workers, SaveEffect(w)
  PROVE  EffectInv'
<1>1. PICK k, t : k = KeyOf(w) /\ t = worker[w].record
  OBVIOUS
<1>2. /\ At(w, "save") /\ k \in Keys /\ worker \in [Workers -> WorkerState]
      /\ UNCHANGED <<setting, target, checkpoints>> /\ EffectType
      /\ target[k] # <<>> /\ t \in Nat
      /\ \/ effects' = [effects EXCEPT ![k] = t] /\ Goto(w, "restore")
         \/ effects' = effects /\ EndWith(w, "write-back-failed")
  BY <1>1 DEF SaveEffect, TypeInv, WorkerType, At, storeVars, worldVars, EffectInv, Justified
<1>3. CASE effects' = [effects EXCEPT ![k] = t] /\ Goto(w, "restore")
  <2>1. /\ effects' \in [Keys -> Int] /\ effects'[k] = t /\ t # -1
        /\ \A j \in Keys : j # k => effects'[j] = effects[j]
    BY <1>2, <1>3 DEF EffectType
  <2>2. EffectType'
    BY <1>2, <2>1 DEF EffectType
  <2>3. worker'[w].pc = "restore" /\ KeepsClaim(w)
    BY <1>2, <1>3, GotoMoves DEF Pcs
  <2>4. Justified(w)'
    BY <1>1, <2>1, <2>3 DEF Justified, At, KeyOf, KeepsClaim
  <2>5. \A j \in Keys : Store!LatestStage(j)' = Store!LatestStage(j)
    BY <1>2, StoreStays
  <2>6. Store!Completed' = Store!Completed
    BY DEF Store!Completed
  <2> QED
    BY <1>2, <2>1, <2>2, <2>3, <2>4, <2>5, <2>6, EffectFrame DEF KeepsClaim
<1>4. CASE effects' = effects /\ EndWith(w, "write-back-failed")
  BY <1>2, <1>4, QuietMoves DEF Endings
<1> QED
  BY <1>2, <1>3, <1>4

LEMMA RestoreEffects ==
  ASSUME TypeInv, EffectInv, NEW w \in Workers, RestoreCheckpoint(w)
  PROVE  EffectInv'
<1>1. PICK k : k = KeyOf(w)
  OBVIOUS
<1>2. /\ At(w, "complete") /\ k \in Keys /\ worker \in [Workers -> WorkerState]
      /\ UNCHANGED <<setting, effects, target>> /\ Processing(w)
      /\ effects[k] # -1
      /\ \/ Store!Checkpoint(k, Name(w), Store!Completed, NoRef, clock) /\ Stop(w)
         \/ checkpoints' = checkpoints /\ EndWith(w, "write-back-failed")
  BY <1>1 DEF RestoreCheckpoint, TypeInv, WorkerType, At, storeVars, worldVars, effectVars,
              EffectInv, Justified, Processing
<1>3. CASE Store!Checkpoint(k, Name(w), Store!Completed, NoRef, clock) /\ Stop(w)
  <2>1. Store!Completed \in 1 .. 5
    BY DEF Store!Completed
  <2>2. Records(w)
    BY <1>1, <1>2, <1>3, <2>1, CheckpointRecords
  <2>3. \A j \in Keys : j # k => Store!LatestStage(j)' = Store!LatestStage(j)
    BY <1>1, <2>2 DEF Records, Store!LatestStage
  <2>4. Justified(w)' /\ \A v \in Workers : v # w => worker'[v] = worker[v]
    BY <1>2, <1>3, StopMoves DEF Justified, At
  <2>5. EffectType'
    BY <1>2 DEF EffectInv, EffectType
  <2>6. Store!Completed' = Store!Completed
    BY DEF Store!Completed
  <2> QED
    BY <1>2, <2>3, <2>4, <2>5, <2>6, EffectFrame
<1>4. CASE checkpoints' = checkpoints /\ EndWith(w, "write-back-failed")
  BY <1>2, <1>4, QuietMoves DEF Endings
<1> QED
  BY <1>2, <1>3, <1>4

LEMMA WriteBackEffects ==
  ASSUME TypeInv, EffectInv, NEW w \in Workers,
         \/ Authorize(w) \/ LookupEffect(w) \/ LookupReconciliation(w)
         \/ VerifyEffect(w) \/ ReadCompleted(w) \/ SaveReconciliation(w)
  PROVE  EffectInv'
<1>1. /\ KeyOf(w) \in Keys /\ EffectType
      /\ UNCHANGED <<setting, effects, target, checkpoints>>
  BY DEF TypeInv, WorkerType, At, Authorize, LookupEffect, LookupReconciliation,
         Submit, VerifyEffect, ReadCompleted,
         SaveReconciliation, storeVars, effectVars, worldVars, EffectInv
<1>2. /\ {"lookup", "pending", "verify", "execute", "reconcile"} \subseteq Unconcerned
      /\ "write-back-failed" \in Endings /\ "succeeded" \in Endings
  BY DEF Unconcerned, Pcs, Endings
<1>3. CASE Authorize(w)
  BY <1>1, <1>2, <1>3, QuietMoves DEF Authorize
<1>4. CASE LookupEffect(w) \/ LookupReconciliation(w)
  <2>1. \/ effects[KeyOf(w)] # -1 /\ Goto(w, "restore")
        \/ EndWith(w, "write-back-failed")
        \/ Goto(w, "pending") \/ Goto(w, "execute") \/ Goto(w, "verify")
    BY <1>4 DEF LookupEffect, LookupReconciliation, Submit
  <2> QED
    BY <1>1, <1>2, <2>1, QuietMoves, JustifiedMoves
<1>5. CASE VerifyEffect(w)
  <2>1. CASE target[KeyOf(w)] # <<>> /\ Committed(w, Head(target[KeyOf(w)]))
    <3>1. PICK t \in Nat : t = Head(target[KeyOf(w)])
      BY <1>1, <2>1, HeadTailProperties DEF EffectType
    <3> QED
      BY <1>1, <2>1, <3>1, JustifiedMoves
  <2> QED
    BY <1>1, <1>2, <1>5, <2>1, QuietMoves DEF VerifyEffect
<1>6. CASE ReadCompleted(w)
  <2>1. effects[KeyOf(w)] # -1 /\ (Stop(w) \/ Goto(w, "complete"))
    BY <1>6 DEF ReadCompleted, EffectInv, Justified, At
  <2> QED
    BY <1>1, <2>1, QuietMoves, JustifiedMoves
<1>7. CASE SaveReconciliation(w)
  BY <1>1, <1>2, <1>7, QuietMoves DEF SaveReconciliation
<1> QED
  BY <1>3, <1>4, <1>5, <1>6, <1>7

LEMMA TerminalEffects ==
  ASSUME TypeInv, EffectInv, NEW w \in Workers, TerminalStep(w) \/ Crash(w)
  PROVE  EffectInv'
<1>1. /\ worker \in [Workers -> WorkerState]
      /\ UNCHANGED <<setting, effects, target, checkpoints>>
  BY DEF TypeInv, WorkerType, TerminalStep, CaptureTime, EndWork, PersistDeadLetter, Crash,
         Store!Terminalize, storeVars, effectVars, worldVars
<1>2. CASE CaptureTime(w)
  <2>1. PICK new : new = [worker[w] EXCEPT !.pc = "terminalize", !.now = clock]
    OBVIOUS
  <2>2. worker' = [worker EXCEPT ![w] = new]
    BY <1>1, <1>2, <2>1 DEF CaptureTime
  <2>3. new.pc = "terminalize" /\ "terminalize" \in Unconcerned
    BY <1>1, <2>1 DEF WorkerState, Unconcerned, Pcs
  <2> QED
    BY <1>1, <2>2, <2>3, QuietStep
<1>3. CASE EndWork(w)
  <2>1. Goto(w, "deadletter") \/ Stop(w) \/ EndWith(w, "retry-exhausted")
    BY <1>3 DEF EndWork, Recorded, EndingRefused
  <2>2. "deadletter" \in Unconcerned /\ "retry-exhausted" \in Endings
    BY DEF Unconcerned, Pcs, Endings
  <2> QED
    BY <1>1, <2>1, <2>2, QuietMoves
<1>4. CASE PersistDeadLetter(w)
  BY <1>1, <1>4, QuietMoves DEF PersistDeadLetter
<1>5. CASE Crash(w)
  BY <1>1, <1>5, QuietMoves DEF Crash
<1> QED
  BY <1>2, <1>3, <1>4, <1>5 DEF TerminalStep

LEMMA EffectStep == TypeInv /\ EffectInv /\ [Next]_vars => EffectInv'
<1> SUFFICES ASSUME TypeInv, EffectInv, [Next]_vars PROVE EffectInv'
  OBVIOUS
<1>1. ASSUME NEW w \in Workers, WorkerStep(w) \/ Crash(w) PROVE EffectInv'
  BY <1>1, LoopEffects, WriteBackEffects, ExecuteEffects, SaveEffects, RestoreEffects,
     TerminalEffects DEF WorkerStep, WriteBackStep
<1>2. CASE UNCHANGED <<setting, worker, effects, target, checkpoints>>
  BY <1>2 DEF EffectInv, EffectType, CompletedMeansCommitted, Justified, At, KeyOf,
              Store!LatestStage, Store!Completed
<1>3. CASE Tick
  BY <1>2, <1>3 DEF Tick, Store!Tick, effectVars, worldVars
<1>4. CASE Revoke
  BY <1>2, <1>4 DEF Revoke, storeVars, effectVars
<1>5. CASE UNCHANGED vars
  BY <1>2, <1>5 DEF vars, storeVars, effectVars, worldVars
<1> QED
  BY <1>1, <1>3, <1>4, <1>5 DEF Next

--------------------------------------------------------------------------------
(* One mutation *)

\* The effect of the key is on record, or its outcome awaits reconciliation.
Settled(k) == effects[k] # -1 \/ k \in reconciliations

\* No crash comes between a mutation and its record, or the target is asked first.
Traceable == setting.crashes = 0 \/ setting.boundary = "non_shared"

\* The executor may refuse a write-back before it looks for its effect.
Refusable ==
  setting.revocable \/ setting.rejectable \/ setting.writeBack = "unavailable"

\* Nobody is refused after a crash what was committed before it.
Undisturbed == setting.crashes = 0 \/ ~ Refusable

\* What a worker relies on between its reads and its writes of the effect records.
Facts(w) ==
  /\ At(w, "pending") => effects[KeyOf(w)] = -1
  /\ worker[w].pc \in {"verify", "execute", "save", "reconcile"} => ~ Settled(KeyOf(w))
  /\ At(w, "execute") /\ Traceable => target[KeyOf(w)] = <<>>
  /\ worker[w].pc \in {"capture", "terminalize"} => worker[w].end # "none"
  /\ /\ worker[w].pc \in {"capture", "terminalize"}
     /\ worker[w].end = "write-back-failed" /\ Undisturbed
     => effects[KeyOf(w)] = -1

\* Some worker is in one of the states, for the key.
SomeoneAt(states, k) == \E w \in Workers : worker[w].pc \in states /\ KeyOf(w) = k

\* States of a worker that may have caused an effect that is not on record.
Causing == {"save", "reconcile", "capture", "terminalize"}

\* Where an effect may stand: on record, awaiting reconciliation, in the hands of
\* the worker that caused it, or with an item that has ended.
KeyFacts(k) ==
  /\ setting.crashes = 0 =>
       \/ target[k] = <<>> \/ Settled(k) \/ items[k].state = "completed"
       \/ SomeoneAt(Causing, k)
  /\ setting.crashes = 0 /\ effects[k] # -1 =>
       items[k].state = "completed" \/ SomeoneAt({"restore", "complete"}, k)
  /\ Traceable => Len(target[k]) <= 1
  /\ Undisturbed /\ terminal[k].state = "write-back-failed" => effects[k] = -1

MutationInv ==
  setting.fitsLease =>
    /\ \A w \in Workers : Facts(w)
    /\ \A k \in Keys : KeyFacts(k)

\* Work that has ended is never claimed again, and approval ends only if revoked.
EndedInv ==
  /\ \A k \in Keys :
       terminal[k].state # "none" \/ Store!LatestStage(k) = Store!Completed =>
         items[k].state = "completed"
  /\ ~ setting.revocable => approved
  /\ crashes \in Nat

CompletedKept == \A k \in Keys : items[k].state = "completed" => items'[k].state = "completed"

\* No step takes back the end of an item.
LEMMA CompletedStays ==
  ASSUME TypeInv, EffectType, [Next]_vars
  PROVE  CompletedKept
<1> SUFFICES ASSUME NEW k \in Keys, items[k].state = "completed"
             PROVE  items'[k] = items[k]
  BY DEF CompletedKept
<1>1. CASE items' = items
  BY <1>1
<1>2. ASSUME NEW w \in Workers, ClaimWork(w), Store!Claimable(KeyOf(w), worker[w].now)
      PROVE  items'[k] = items[k]
  <2>1. k # KeyOf(w)
    BY <1>2 DEF Store!Claimable
  <2> QED
    BY <1>2, <2>1 DEF ClaimWork, Store!Claim, TypeInv, StoreType
<1>3. ASSUME NEW w \in Workers, Records(w) PROVE items'[k] = items[k]
  <2>1. k # KeyOf(w)
    BY <1>3 DEF Records, Holds, Store!Owned
  <2> QED
    BY <1>3, <2>1 DEF Records
<1> QED
  BY <1>1, <1>2, <1>3, StepKinds DEF Tick, Store!Tick, ReadProgress, storeVars, Kinds,
     MovesOn, Leaves

\* A step of one worker leaves the others where they are.
LEMMA OthersStay ==
  ASSUME TypeInv, EffectType, NEW w \in Workers, WorkerStep(w) \/ Crash(w)
  PROVE  setting' = setting /\ \A v \in Workers : v # w => worker'[v] = worker[v]
<1>1. CASE Kinds(w)
  BY <1>1 DEF Kinds, MovesOn, Leaves, Records, Frame, KeepsClaim
<1>2. CASE ~ Kinds(w)
  <2>1. \/ \E k \in Keys : ReadProgress(w, k)
        \/ ClaimWork(w) /\ Store!Claimable(KeyOf(w), worker[w].now)
    BY <1>2, WorkerKinds
  <2>2. worker \in [Workers -> WorkerState]
    BY DEF TypeInv, WorkerType
  <2> QED
    BY <2>1, <2>2 DEF ReadProgress, ClaimWork, worldVars
<1> QED
  BY <1>1, <1>2

\* The facts of another worker are about another key.
LEMMA OthersFacts ==
  ASSUME LeaseInv, setting.fitsLease, \A v \in Workers : Facts(v),
         setting' = setting, NEW w \in Workers,
         \A v \in Workers : v # w => worker'[v] = worker[v],
         \/ UNCHANGED <<effects, target, reconciliations>>
         \/ /\ Processing(w)
            /\ \A j \in Keys : j # KeyOf(w) =>
                 /\ effects'[j] = effects[j] /\ target'[j] = target[j]
                 /\ j \in reconciliations' <=> j \in reconciliations,
         NEW v \in Workers, v # w
  PROVE  Facts(v)'
<1> DEFINE Busy == {"pending", "verify", "execute", "save", "reconcile", "capture", "terminalize"}
<1>1. worker'[v] = worker[v]
  OBVIOUS
<1>2. CASE worker[v].pc \notin Busy
  BY <1>1, <1>2 DEF Facts, At
<1>3. CASE worker[v].pc \in Busy
  <2>1. Processing(v) /\ KeyOf(v) \in Keys
    BY <1>3 DEF Processing, LeaseInv, TypeInv, WorkerType, At
  <2>2. Processing(w) => KeyOf(v) # KeyOf(w)
    BY <2>1 DEF LeaseInv, ExclusiveProcessing
  <2>3. PICK k : k = KeyOf(v)
    OBVIOUS
  <2>4. /\ effects'[k] = effects[k] /\ target'[k] = target[k]
        /\ k \in reconciliations' <=> k \in reconciliations
    BY <2>1, <2>2, <2>3
  <2>5. Facts(v) /\ KeyOf(v)' = k
    BY <1>1, <2>3 DEF KeyOf
  <2> QED
    BY <1>1, <2>3, <2>4, <2>5 DEF Facts, At, Settled, Traceable, Undisturbed, Refusable
<1> QED
  BY <1>2, <1>3

\* States of a worker that account for an effect of its key.
Accountable == Causing \cup {"restore", "complete"}

\* A step that leaves a key alone, and the workers that account for it.
LEMMA KeyKept ==
  ASSUME NEW j \in Keys, KeyFacts(j), CompletedKept, setting' = setting, NEW w \in Workers,
         \A v \in Workers : v # w => worker'[v] = worker[v],
         worker[w].pc \notin Accountable \/ KeyOf(w) # j,
         effects'[j] = effects[j], target'[j] = target[j],
         j \in reconciliations' <=> j \in reconciliations,
         terminal'[j].state = "write-back-failed" => terminal[j].state = "write-back-failed"
  PROVE  KeyFacts(j)'
<1>1. ASSUME NEW states \in SUBSET Accountable, SomeoneAt(states, j)
      PROVE  SomeoneAt(states, j)'
  <2>1. PICK v \in Workers : worker[v].pc \in states /\ KeyOf(v) = j
    BY <1>1 DEF SomeoneAt
  <2>2. v # w
    BY <2>1
  <2> QED
    BY <2>1, <2>2 DEF SomeoneAt, KeyOf
<1>2. /\ SomeoneAt(Causing, j) => SomeoneAt(Causing, j)'
      /\ SomeoneAt({"restore", "complete"}, j) => SomeoneAt({"restore", "complete"}, j)'
  <2>1. Causing \in SUBSET Accountable /\ {"restore", "complete"} \in SUBSET Accountable
    BY DEF Accountable
  <2>2. PICK a, b : a = Causing /\ b = {"restore", "complete"}
    OBVIOUS
  <2>3. (SomeoneAt(a, j) => SomeoneAt(a, j)') /\ (SomeoneAt(b, j) => SomeoneAt(b, j)')
    BY <1>1, <2>1, <2>2
  <2> QED
    BY <2>2, <2>3
<1>3. Settled(j)' <=> Settled(j)
  BY DEF Settled
<1> HIDE DEF SomeoneAt, Settled
<1> QED
  BY <1>2, <1>3 DEF KeyFacts, Traceable, Undisturbed, Refusable, CompletedKept

\* A step that touches no effect and leaves no accountable state.
LEMMA MutationQuiet ==
  ASSUME LeaseInv, MutationInv, CompletedKept, setting' = setting, NEW w \in Workers,
         \A v \in Workers : v # w => worker'[v] = worker[v],
         UNCHANGED <<effects, target, reconciliations>>,
         worker[w].pc \notin Accountable,
         \A j \in Keys : terminal'[j].state = "write-back-failed" =>
                           terminal[j].state = "write-back-failed",
         setting.fitsLease => Facts(w)'
  PROVE  MutationInv'
<1> SUFFICES ASSUME setting.fitsLease
             PROVE  (\A v \in Workers : Facts(v)') /\ (\A j \in Keys : KeyFacts(j)')
  BY DEF MutationInv
<1>1. (\A v \in Workers : Facts(v)) /\ (\A j \in Keys : KeyFacts(j))
  BY DEF MutationInv
<1>2. \A v \in Workers : v # w => Facts(v)'
  BY <1>1, OthersFacts
<1>3. \A j \in Keys : KeyFacts(j)'
  BY <1>1, KeyKept
<1> QED
  BY <1>2, <1>3

\* A step that touches the effect, or the end, of the worker's own key.
LEMMA MutationBy ==
  ASSUME LeaseInv, MutationInv, CompletedKept, setting' = setting, NEW w \in Workers,
         \A v \in Workers : v # w => worker'[v] = worker[v],
         Processing(w), NEW k, k = KeyOf(w),
         \A j \in Keys : j # k =>
           /\ effects'[j] = effects[j] /\ target'[j] = target[j]
           /\ j \in reconciliations' <=> j \in reconciliations
           /\ terminal'[j].state = terminal[j].state,
         setting.fitsLease => Facts(w)' /\ KeyFacts(k)'
  PROVE  MutationInv'
<1> SUFFICES ASSUME setting.fitsLease
             PROVE  (\A v \in Workers : Facts(v)') /\ (\A j \in Keys : KeyFacts(j)')
  BY DEF MutationInv
<1>1. (\A v \in Workers : Facts(v)) /\ (\A j \in Keys : KeyFacts(j))
  BY DEF MutationInv
<1>2. \A v \in Workers : v # w => Facts(v)'
  BY <1>1, OthersFacts
<1>3. \A j \in Keys : j # k => KeyFacts(j)'
  BY <1>1, KeyKept
<1> QED
  BY <1>2, <1>3

\* Where a worker is that relies on nothing.
LEMMA NeutralFacts ==
  ASSUME NEW w \in Workers,
         worker'[w].pc \notin {"pending", "verify", "execute", "save", "reconcile",
                               "capture", "terminalize"}
  PROVE  Facts(w)'
BY DEF Facts, At

\* What holds of the item that a worker processes alone.
LEMMA AloneAtKey ==
  ASSUME LeaseInv, EndedInv, setting.fitsLease, NEW w \in Workers, Processing(w),
         NEW k, k = KeyOf(w)
  PROVE  /\ k \in Keys /\ Holds(w, clock) /\ items[k].state = "in_progress"
         /\ terminal[k].state = "none" /\ Store!LatestStage(k) # Store!Completed
         /\ \A states \in SUBSET Accountable :
              SomeoneAt(states, k) => worker[w].pc \in states
<1>1. k \in Keys /\ Holds(w, clock) /\ items[k].state = "in_progress"
  BY DEF LeaseInv, TypeInv, WorkerType, Processing, At, ExclusiveProcessing, Holds, Store!Owned
<1>2. terminal[k].state = "none" /\ Store!LatestStage(k) # Store!Completed
  BY <1>1 DEF EndedInv
<1>3. ASSUME NEW states \in SUBSET Accountable, SomeoneAt(states, k)
      PROVE  worker[w].pc \in states
  <2>1. PICK v \in Workers : worker[v].pc \in states /\ KeyOf(v) = k
    BY <1>3 DEF SomeoneAt
  <2>2. Processing(v)
    BY <2>1 DEF Processing, Accountable, Causing
  <2>3. v = w
    BY <2>1, <2>2 DEF LeaseInv, ExclusiveProcessing
  <2> QED
    BY <2>1, <2>3
<1> QED
  BY <1>1, <1>2, <1>3

\* Steps of the claim loop, and the last one of terminal execution.
LEMMA LoopMutations ==
  ASSUME LeaseInv, EffectType, MutationInv, EndedInv, CompletedKept, NEW w \in Workers,
         \/ \E k \in Keys : ReadProgress(w, k)
         \/ ClaimWork(w) \/ ReadStage(w) \/ WorkSucceeds(w) \/ WorkFails(w) \/ RecordStage(w)
         \/ PersistDeadLetter(w)
  PROVE  MutationInv'
<1>1. TypeInv /\ worker \in [Workers -> WorkerState]
  BY DEF LeaseInv, TypeInv, WorkerType
<1>2. setting' = setting /\ \A v \in Workers : v # w => worker'[v] = worker[v]
  BY <1>1, OthersStay DEF WorkerStep, TerminalStep
<1>3. UNCHANGED <<effects, target, reconciliations, terminal>>
  BY DEF ReadProgress, ClaimWork, ReadStage, WorkSucceeds, WorkFails, RecordStage,
         PersistDeadLetter, storeVars, effectVars, Store!Claim, Store!Checkpoint
<1>4. worker[w].pc \notin Accountable
  BY DEF ReadProgress, ClaimWork, ReadStage, WorkSucceeds, WorkFails, RecordStage,
         PersistDeadLetter, At, Accountable, Causing
<1>5. ASSUME setting.fitsLease PROVE Facts(w)'
  <2>1. ASSUME NEW p \in {"checkpoint", "authorize"}, Goto(w, p)
        PROVE  Facts(w)'
    BY <1>1, <2>1, GotoMoves, NeutralFacts DEF Pcs
  <2>2. ASSUME NEW st \in Endings \ {"none", "write-back-failed"}, EndWith(w, st)
        PROVE  Facts(w)'
    <3>1. worker'[w].pc = "capture" /\ worker'[w].end = st
      BY <1>1, <2>2, EndMoves
    <3> QED
      BY <3>1 DEF Facts, At
  <2>3. ASSUME Stop(w) PROVE Facts(w)'
    BY <1>1, <2>3, StopMoves, NeutralFacts
  <2>4. CASE \E k \in Keys : ReadProgress(w, k)
    <3>1. worker'[w].pc = "claim"
      BY <1>1, <2>4 DEF ReadProgress, IdleWorker
    <3> QED
      BY <3>1, NeutralFacts
  <2>5. CASE ClaimWork(w) /\ ~ Stop(w)
    <3>1. worker'[w].pc = "process"
      BY <1>1, <2>5 DEF ClaimWork, WorkerState
    <3> QED
      BY <3>1, NeutralFacts
  <2>6. CASE ReadStage(w)
    <3>1. CASE EndWith(w, "retry-exhausted")
      BY <2>2, <3>1 DEF Endings
    <3>2. CASE ~ EndWith(w, "retry-exhausted")
      <4>1. PICK s : worker' = [worker EXCEPT ![w].pc = "work", ![w].stage = s]
        BY <2>6, <3>2 DEF ReadStage
      <4>2. worker'[w].pc = "work"
        BY <1>1, <4>1 DEF WorkerState
      <4> QED
        BY <4>2, NeutralFacts
    <3> QED
      BY <3>1, <3>2
  <2>7. CASE WorkSucceeds(w)
    BY <2>1, <2>7 DEF WorkSucceeds
  <2>8. CASE WorkFails(w)
    BY <2>2, <2>8 DEF WorkFails, Endings
  <2>9. CASE RecordStage(w)
    BY <2>2, <2>3, <2>9 DEF RecordStage, Endings
  <2>10. CASE PersistDeadLetter(w)
    BY <2>3, <2>10 DEF PersistDeadLetter
  <2> QED
    BY <2>3, <2>4, <2>5, <2>6, <2>7, <2>8, <2>9, <2>10
<1> QED
  BY <1>2, <1>3, <1>4, <1>5, MutationQuiet

\* execute_claim reads the clock: the worker is still the one that may have caused
\* the effect.
LEMMA CaptureMutations ==
  ASSUME LeaseInv, EffectType, MutationInv, CompletedKept, NEW w \in Workers, CaptureTime(w)
  PROVE  MutationInv'
<1>1. TypeInv /\ worker \in [Workers -> WorkerState]
  BY DEF LeaseInv, TypeInv, WorkerType
<1>2. setting' = setting /\ \A v \in Workers : v # w => worker'[v] = worker[v]
  BY <1>1, OthersStay DEF WorkerStep, TerminalStep
<1>3. PICK k : k = KeyOf(w)
  OBVIOUS
<1>4. /\ Processing(w) /\ k \in Keys /\ At(w, "capture")
      /\ UNCHANGED <<effects, reconciliations, target, terminal, items>>
  BY <1>1, <1>3 DEF CaptureTime, At, Processing, TypeInv, WorkerType, storeVars, effectVars
<1>5. worker'[w].pc = "terminalize" /\ KeyOf(w)' = k /\ worker'[w].end = worker[w].end
  <2>1. PICK new : new = [worker[w] EXCEPT !.pc = "terminalize", !.now = clock]
    OBVIOUS
  <2>2. new.pc = "terminalize" /\ new.key = worker[w].key /\ new.end = worker[w].end
    BY <1>1, <2>1 DEF WorkerState
  <2>3. worker'[w] = new
    BY <1>1, <2>1 DEF CaptureTime
  <2> QED
    BY <1>3, <2>2, <2>3 DEF KeyOf
<1>6. ASSUME setting.fitsLease PROVE Facts(w)' /\ KeyFacts(k)'
  <2>1. Facts(w) /\ KeyFacts(k)
    BY <1>4, <1>6 DEF MutationInv
  <2>2. Facts(w)'
    BY <1>2, <1>3, <1>4, <1>5, <2>1 DEF Facts, At, Undisturbed, Refusable, KeyOf
  <2>3. ASSUME NEW states, SomeoneAt(states, k), "capture" \in states => "terminalize" \in states
        PROVE  SomeoneAt(states, k)'
    <3>1. PICK v \in Workers : worker[v].pc \in states /\ KeyOf(v) = k
      BY <2>3 DEF SomeoneAt
    <3>2. worker'[v].pc \in states /\ KeyOf(v)' = k
      BY <1>2, <1>4, <1>5, <2>3, <3>1 DEF At, KeyOf
    <3> QED
      BY <3>2 DEF SomeoneAt
  <2>4. (SomeoneAt(Causing, k) => SomeoneAt(Causing, k)')
        /\ (SomeoneAt({"restore", "complete"}, k) => SomeoneAt({"restore", "complete"}, k)')
    <3>1. PICK a, b : a = Causing /\ b = {"restore", "complete"}
      OBVIOUS
    <3>2. (SomeoneAt(a, k) => SomeoneAt(a, k)') /\ (SomeoneAt(b, k) => SomeoneAt(b, k)')
      BY <2>3, <3>1 DEF Causing
    <3> QED
      BY <3>1, <3>2
  <2>5. Settled(k)' <=> Settled(k)
    BY <1>4 DEF Settled
  <2>6. KeyFacts(k)'
    <3> HIDE DEF SomeoneAt, Settled
    <3> QED
      BY <1>2, <1>4, <2>1, <2>4, <2>5 DEF KeyFacts, Traceable, Undisturbed, Refusable
  <2> QED
    BY <2>2, <2>6
<1> QED
  BY <1>2, <1>3, <1>4, <1>6, MutationBy

\* The reads of the write-back: what they find is what the worker then relies on.
LEMMA ReadMutations ==
  ASSUME LeaseInv, EffectType, MutationInv, EndedInv, CompletedKept, NEW w \in Workers,
         Authorize(w) \/ LookupEffect(w) \/ LookupReconciliation(w) \/ VerifyEffect(w)
  PROVE  MutationInv'
<1>1. TypeInv /\ worker \in [Workers -> WorkerState]
  BY DEF LeaseInv, TypeInv, WorkerType
<1>2. setting' = setting /\ \A v \in Workers : v # w => worker'[v] = worker[v]
  BY <1>1, OthersStay DEF WorkerStep, WriteBackStep
<1>3. UNCHANGED <<effects, target, reconciliations, terminal>>
  BY DEF Authorize, LookupEffect, LookupReconciliation, Submit, VerifyEffect, storeVars, effectVars
<1>4. worker[w].pc \notin Accountable /\ Processing(w)
  BY DEF Authorize, LookupEffect, LookupReconciliation, Submit, VerifyEffect, At, Accountable,
         Causing, Processing
<1>5. ASSUME setting.fitsLease PROVE Facts(w)'
  <2>1. PICK k : k = KeyOf(w)
    OBVIOUS
  <2>2. /\ k \in Keys /\ items[k].state = "in_progress"
        /\ ~ SomeoneAt(Causing, k) /\ ~ SomeoneAt({"restore", "complete"}, k)
    <3>1. Causing \in SUBSET Accountable /\ {"restore", "complete"} \in SUBSET Accountable
      BY DEF Accountable
    <3>2. PICK a, b : a = Causing /\ b = {"restore", "complete"}
      OBVIOUS
    <3>3. ~ SomeoneAt(a, k) /\ ~ SomeoneAt(b, k)
      BY <1>4, <1>5, <2>1, <3>1, <3>2, AloneAtKey
    <3> QED
      BY <1>4, <1>5, <2>1, <3>2, <3>3, AloneAtKey
  <2>3. Facts(w) /\ KeyFacts(k)
    BY <1>5, <2>2 DEF MutationInv
  <2>4. ASSUME NEW st \in Endings \ {"none"}, EndWith(w, st),
               st = "write-back-failed" /\ Undisturbed => effects[k] = -1
        PROVE  Facts(w)'
    <3>1. worker'[w].pc = "capture" /\ worker'[w].end = st /\ KeepsClaim(w)
      BY <1>1, <2>4, EndMoves
    <3> QED
      BY <1>2, <1>3, <2>1, <2>4, <3>1 DEF Facts, At, KeyOf, KeepsClaim, Undisturbed, Refusable
  <2>5. ASSUME NEW p \in {"lookup", "restore"}, Goto(w, p) PROVE Facts(w)'
    BY <1>1, <2>5, GotoMoves, NeutralFacts DEF Pcs
  <2>6. ASSUME ~ Settled(k), NEW p \in {"verify", "execute", "reconcile"}, Goto(w, p),
               p = "execute" /\ Traceable => target[k] = <<>>
        PROVE  Facts(w)'
    <3>1. worker'[w].pc = p /\ KeepsClaim(w)
      BY <1>1, <2>6, GotoMoves DEF Pcs
    <3> QED
      BY <1>2, <1>3, <2>1, <2>6, <3>1 DEF Facts, At, KeyOf, KeepsClaim, Settled, Traceable
  <2>7. CASE Authorize(w)
    <3>1. \/ Goto(w, "lookup") \/ EndWith(w, "succeeded")
          \/ /\ setting.rejectable \/ setting.writeBack = "unavailable" \/ ~ approved
             /\ EndWith(w, "write-back-failed")
      BY <2>7 DEF Authorize
    <3>2. ASSUME Undisturbed,
                 setting.rejectable \/ setting.writeBack = "unavailable" \/ ~ approved
          PROVE  effects[k] = -1
      <4>1. setting.crashes = 0
        BY <3>2 DEF Undisturbed, Refusable, EndedInv
      <4> QED
        BY <2>2, <2>3, <4>1 DEF KeyFacts
    <3> QED
      BY <2>4, <2>5, <3>1, <3>2 DEF Endings
  <2>8. CASE LookupEffect(w)
    <3>1. Goto(w, "restore") \/ (effects[k] = -1 /\ Goto(w, "pending"))
      BY <2>1, <2>8 DEF LookupEffect
    <3>2. ASSUME effects[k] = -1, Goto(w, "pending") PROVE Facts(w)'
      <4>1. worker'[w].pc = "pending" /\ KeepsClaim(w)
        BY <1>1, <3>2, GotoMoves DEF Pcs
      <4> QED
        BY <1>3, <2>1, <3>2, <4>1 DEF Facts, At, KeyOf, KeepsClaim
    <3> QED
      BY <2>5, <3>1, <3>2
  <2>10. CASE LookupReconciliation(w)
    <3>1. effects[k] = -1
      BY <2>1, <2>3, <2>10 DEF Facts, LookupReconciliation, At
    <3>2. \/ EndWith(w, "write-back-failed")
          \/ ~ Settled(k) /\ Goto(w, "verify") /\ setting.boundary # "shared"
          \/ ~ Settled(k) /\ Goto(w, "execute") /\ setting.boundary = "shared"
      BY <2>1, <2>10, <3>1 DEF LookupReconciliation, Submit, Settled
    <3>3. setting.boundary = "shared" /\ Traceable /\ ~ Settled(k) => target[k] = <<>>
      BY <2>2, <2>3 DEF KeyFacts, Traceable
    <3> QED
      BY <2>4, <2>6, <3>1, <3>2, <3>3 DEF Endings
  <2>9. CASE VerifyEffect(w)
    <3>1. ~ Settled(k)
      BY <2>1, <2>3, <2>9 DEF Facts, VerifyEffect, At
    <3>2. CASE target[k] # <<>> /\ Committed(w, Head(target[k]))
      <4>1. Head(target[k]) \in Nat
        BY <2>2, <3>2, HeadTailProperties DEF EffectType
      <4>2. worker'[w].pc = "save" /\ KeepsClaim(w)
        BY <1>1, <3>2, <4>1, CommitMoves
      <4> QED
        BY <1>2, <1>3, <2>1, <3>1, <4>2 DEF Facts, At, KeyOf, KeepsClaim, Settled
    <3>3. \/ target[k] # <<>> /\ Committed(w, Head(target[k]))
          \/ target[k] = <<>> /\ Goto(w, "execute")
          \/ Goto(w, "reconcile")
          \/ EndWith(w, "write-back-failed")
      BY <2>1, <2>9 DEF VerifyEffect
    <3>4. effects[k] = -1
      BY <3>1 DEF Settled
    <3> QED
      BY <2>4, <2>6, <3>1, <3>2, <3>3, <3>4 DEF Endings
  <2> QED
    BY <2>7, <2>8, <2>9, <2>10
<1> QED
  BY <1>2, <1>3, <1>4, <1>5, MutationQuiet

\* One submission to a target that holds nothing of the key leaves one mutation.
LEMMA MutatedOnce ==
  ASSUME TypeInv, EffectType, NEW k \in Keys
  PROVE  /\ target[k] = <<>> => Len(Mutated(k)[k]) <= 1
         /\ \A j \in Keys : j # k => Mutated(k)[j] = target[j]
<1>1. clock \in Nat /\ target[k] \in Seq(Nat) /\ target \in [Keys -> Seq(Nat)]
  BY Numbers DEF EffectType
<1>2. CASE setting.uniqueKey /\ target[k] # <<>>
  BY <1>2 DEF Mutated
<1>3. CASE ~ (setting.uniqueKey /\ target[k] # <<>>)
  <2>1. PICK h : h = Append(target[k], clock)
    OBVIOUS
  <2>2. Mutated(k) = [target EXCEPT ![k] = h]
    BY <1>3, <2>1 DEF Mutated
  <2>3. Mutated(k)[k] = h /\ \A j \in Keys : j # k => Mutated(k)[j] = target[j]
    BY <1>1, <2>2
  <2>4. Len(h) = Len(target[k]) + 1
    BY <1>1, <2>1
  <2> QED
    BY <2>3, <2>4
<1> QED
  BY <1>2, <1>3

\* The submission: only an unsettled key's, and of a traceable one only the first.
LEMMA ExecuteMutations ==
  ASSUME LeaseInv, EffectType, MutationInv, EndedInv, CompletedKept, NEW w \in Workers,
         ExecuteEffect(w)
  PROVE  /\ MutationInv'
         /\ setting.fitsLease => \A j \in Keys : Settled(j) => target'[j] = target[j]
<1>1. TypeInv /\ worker \in [Workers -> WorkerState]
  BY DEF LeaseInv, TypeInv, WorkerType
<1>2. setting' = setting /\ \A v \in Workers : v # w => worker'[v] = worker[v]
  BY <1>1, OthersStay DEF WorkerStep, WriteBackStep
<1>3. PICK k : k = KeyOf(w)
  OBVIOUS
<1>4. /\ Processing(w) /\ k \in Keys /\ At(w, "execute")
      /\ UNCHANGED <<effects, reconciliations, terminal, items>>
  BY <1>1, <1>3 DEF ExecuteEffect, At, Processing, TypeInv, WorkerType, storeVars
<1>5. \/ /\ target' = Mutated(k)
         /\ \E t \in Nat : Committed(w, t)
      \/ target' \in {target, Mutated(k)} /\ Goto(w, "reconcile")
      \/ target' \in {target, Mutated(k)} /\ EndWith(w, "write-back-failed")
  <2>1. /\ Mutated(k)[k][Len(Mutated(k)[k])] \in Nat /\ clock \in Nat
    BY <1>1, <1>4, MutatedGrows, Numbers
  <2>2. \/ /\ target' = Mutated(k)
           /\ Committed(w, IF setting.boundary = "shared"
                           THEN target'[k][Len(target'[k])] ELSE clock)
        \/ target' \in {target, Mutated(k)} /\ Goto(w, "reconcile")
        \/ target' \in {target, Mutated(k)} /\ EndWith(w, "write-back-failed")
    BY <1>3 DEF ExecuteEffect
  <2> QED
    BY <2>1, <2>2
<1>6. /\ target[k] = <<>> => Len(Mutated(k)[k]) <= 1
      /\ \A j \in Keys : j # k => Mutated(k)[j] = target[j]
  BY <1>1, <1>4, MutatedOnce
<1>7. \A j \in Keys : j # k => target'[j] = target[j]
  BY <1>5, <1>6
<1>8. ASSUME setting.fitsLease
      PROVE  /\ ~ Settled(k) /\ (Traceable => target[k] = <<>>)
             /\ Facts(w)' /\ KeyFacts(k)'
  <2>1. ~ Settled(k) /\ (Traceable => target[k] = <<>>)
    BY <1>3, <1>4, <1>8 DEF MutationInv, Facts, At
  <2>2. KeyFacts(k) /\ effects[k] = -1 /\ ~ Settled(k)'
    BY <1>4, <1>8, <2>1 DEF MutationInv, Settled
  <2>3. Traceable => Len(target'[k]) <= 1
    BY <1>5, <1>6, <2>1, <2>2 DEF KeyFacts
  <2>4. /\ KeepsClaim(w) /\ worker'[w].pc \in {"save", "reconcile", "capture"}
        /\ worker'[w].pc = "capture" => worker'[w].end = "write-back-failed"
    BY <1>1, <1>5, CommitMoves, GotoMoves, EndMoves DEF Pcs, Endings
  <2>5. Facts(w)'
    BY <1>3, <1>4, <2>2, <2>4 DEF Facts, At, KeyOf, KeepsClaim
  <2>6. \/ target' = target
        \/ SomeoneAt(Causing, k)'
    <3>1. target' = target \/ worker'[w].pc \in Causing
      BY <2>4 DEF Causing
    <3> QED
      BY <1>3, <2>4, <3>1 DEF SomeoneAt, KeyOf, KeepsClaim
  <2>7. setting.crashes = 0 => target'[k] = <<>> \/ SomeoneAt(Causing, k)'
    BY <2>1, <2>6 DEF Traceable
  <2>8. KeyFacts(k)'
    BY <1>2, <1>4, <2>2, <2>3, <2>7 DEF KeyFacts, Traceable
  <2> QED
    BY <2>1, <2>5, <2>8
<1> QED
  BY <1>2, <1>3, <1>4, <1>7, <1>8, MutationBy

\* What the worker writes into the effect records, and how it ends the key.
LEMMA SaveMutations ==
  ASSUME LeaseInv, EffectInv, MutationInv, EndedInv, CompletedKept, NEW w \in Workers,
         SaveEffect(w) \/ SaveReconciliation(w)
  PROVE  MutationInv'
<1>1. TypeInv /\ worker \in [Workers -> WorkerState] /\ EffectType
  BY DEF LeaseInv, TypeInv, WorkerType, EffectInv
<1>2. setting' = setting /\ \A v \in Workers : v # w => worker'[v] = worker[v]
  BY <1>1, OthersStay DEF WorkerStep, WriteBackStep
<1>3. PICK k : k = KeyOf(w)
  OBVIOUS
<1>4. /\ Processing(w) /\ k \in Keys /\ worker[w].pc \in {"save", "reconcile"}
      /\ UNCHANGED <<target, terminal, items>>
  BY <1>1, <1>3 DEF SaveEffect, SaveReconciliation, At, Processing, TypeInv, WorkerType, storeVars
<1>5. \A j \in Keys : j # k =>
        effects'[j] = effects[j] /\ (j \in reconciliations' <=> j \in reconciliations)
  BY <1>3 DEF SaveEffect, SaveReconciliation, EffectInv, EffectType
<1>6. ASSUME setting.fitsLease PROVE Facts(w)' /\ KeyFacts(k)'
  <2>1. ~ Settled(k) /\ KeyFacts(k) /\ effects[k] = -1
    BY <1>3, <1>4, <1>6 DEF MutationInv, Facts, Settled
  <2>2. terminal[k].state = "none"
    BY <1>3, <1>4, <1>6, AloneAtKey
  <2>3. CASE SaveEffect(w)
    <3>1. PICK t \in Nat : t = worker[w].record
      BY <2>3 DEF SaveEffect, EffectInv, Justified
    <3>2. effects' = [effects EXCEPT ![k] = t] /\ Goto(w, "restore")
      BY <1>3, <2>1, <2>3, <3>1 DEF SaveEffect
    <3>3. effects'[k] = t /\ Settled(k)'
      BY <1>1, <1>4, <3>1, <3>2 DEF EffectType, Settled
    <3>4. worker'[w].pc = "restore" /\ KeepsClaim(w)
      BY <1>1, <3>2, GotoMoves DEF Pcs
    <3>5. SomeoneAt({"restore", "complete"}, k)'
      BY <1>3, <3>4 DEF SomeoneAt, KeyOf, KeepsClaim
    <3>6. KeyFacts(k)'
      BY <1>2, <1>4, <2>1, <2>2, <3>3, <3>5 DEF KeyFacts, Traceable
    <3> QED
      BY <3>4, <3>6, NeutralFacts
  <2>4. CASE SaveReconciliation(w)
    <3>1. effects'[k] = -1 /\ k \in reconciliations' /\ EndWith(w, "write-back-failed")
      BY <1>3, <2>1, <2>4 DEF SaveReconciliation
    <3>2. /\ worker'[w].pc = "capture" /\ worker'[w].end = "write-back-failed"
          /\ KeepsClaim(w) /\ Settled(k)'
      BY <1>1, <3>1, EndMoves DEF Endings, Settled
    <3>3. Facts(w)'
      BY <1>3, <3>1, <3>2 DEF Facts, At, KeyOf, KeepsClaim
    <3>4. KeyFacts(k)'
      BY <1>2, <1>4, <2>1, <3>1, <3>2 DEF KeyFacts, Traceable
    <3> QED
      BY <3>3, <3>4
  <2> QED
    BY <2>3, <2>4
<1> QED
  BY <1>2, <1>3, <1>4, <1>5, <1>6, MutationBy

\* The last steps of a key with its effect on record: the worker that restores the
\* checkpoint holds the lease, so the key completes.
LEMMA RestoreMutations ==
  ASSUME LeaseInv, EffectType, MutationInv, EndedInv, CompletedKept, NEW w \in Workers,
         ReadCompleted(w) \/ RestoreCheckpoint(w)
  PROVE  MutationInv'
<1>1. TypeInv /\ worker \in [Workers -> WorkerState]
  BY DEF LeaseInv, TypeInv, WorkerType
<1>2. setting' = setting /\ \A v \in Workers : v # w => worker'[v] = worker[v]
  BY <1>1, OthersStay DEF WorkerStep, WriteBackStep
<1>3. PICK k : k = KeyOf(w)
  OBVIOUS
<1>4. /\ Processing(w) /\ k \in Keys /\ worker[w].pc \in {"restore", "complete"}
      /\ UNCHANGED <<effects, reconciliations, target, terminal>>
  BY <1>1, <1>3 DEF ReadCompleted, RestoreCheckpoint, At, Processing, TypeInv, WorkerType,
     storeVars, effectVars, Store!Checkpoint
<1>5. ASSUME setting.fitsLease PROVE Facts(w)' /\ KeyFacts(k)'
  <2>1. KeyFacts(k)
    BY <1>4, <1>5 DEF MutationInv
  <2>2. /\ Holds(w, clock) /\ Store!LatestStage(k) # Store!Completed
        /\ terminal[k].state = "none"
    BY <1>3, <1>4, <1>5, AloneAtKey
  <2>3. SomeoneAt(Causing, k) => SomeoneAt(Causing, k)'
    <3>1. ASSUME NEW v \in Workers, worker[v].pc \in Causing, KeyOf(v) = k
          PROVE  worker'[v].pc \in Causing /\ KeyOf(v)' = k
      <4>1. v # w
        BY <1>4, <3>1 DEF Causing
      <4> QED
        BY <1>2, <3>1, <4>1 DEF KeyOf
    <3> QED
      BY <3>1 DEF SomeoneAt
  <2>4. /\ worker'[w].pc \in {"complete", "idle"}
        /\ items'[k].state = "completed" \/ SomeoneAt({"restore", "complete"}, k)'
    <3>1. CASE ReadCompleted(w)
      <4>1. Goto(w, "complete")
        BY <1>3, <2>2, <3>1 DEF ReadCompleted
      <4>2. worker'[w].pc = "complete" /\ KeepsClaim(w)
        BY <1>1, <4>1, GotoMoves DEF Pcs
      <4> QED
        BY <1>3, <4>2 DEF SomeoneAt, KeyOf, KeepsClaim
    <3>2. CASE RestoreCheckpoint(w)
      <4>1. Stop(w) /\ Store!Checkpoint(k, Name(w), Store!Completed, NoRef, clock)
        BY <1>3, <2>2, <3>2 DEF RestoreCheckpoint
      <4>2. worker'[w].pc = "idle"
        BY <1>1, <4>1, StopMoves
      <4>3. items' = [items EXCEPT ![k] = Store!Released(k, "completed", NoRef)]
        BY <4>1 DEF Store!Checkpoint, Store!Completed
      <4>4. Store!Released(k, "completed", NoRef).state = "completed"
        BY <1>1, <1>4, ReleasedType DEF TypeInv, Store!WorkStates
      <4>5. items'[k].state = "completed"
        BY <1>1, <1>4, <4>3, <4>4 DEF TypeInv, StoreType
      <4> QED
        BY <4>2, <4>5
    <3> QED
      BY <3>1, <3>2
  <2>5. Settled(k)' <=> Settled(k)
    BY <1>4 DEF Settled
  <2>6. KeyFacts(k)'
    BY <1>2, <1>4, <2>1, <2>2, <2>3, <2>4, <2>5 DEF KeyFacts, Traceable, CompletedKept
  <2> QED
    BY <2>4, <2>6, NeutralFacts
<1> QED
  BY <1>2, <1>3, <1>4, <1>5, MutationBy

\* The ending: "write-back-failed" is what the worker decided, and no effect of the key
\* has come on record since.
LEMMA EndMutations ==
  ASSUME LeaseInv, EffectType, MutationInv, EndedInv, CompletedKept, NEW w \in Workers,
         EndWork(w)
  PROVE  MutationInv'
<1>1. TypeInv /\ worker \in [Workers -> WorkerState] /\ DOMAIN terminal = Keys
  BY DEF LeaseInv, TypeInv, WorkerType, StoreType
<1>2. setting' = setting /\ \A v \in Workers : v # w => worker'[v] = worker[v]
  BY <1>1, OthersStay DEF WorkerStep, TerminalStep
<1>3. PICK k : k = KeyOf(w)
  OBVIOUS
<1>4. /\ Processing(w) /\ k \in Keys /\ At(w, "terminalize")
      /\ UNCHANGED <<effects, reconciliations, target>>
  BY <1>1, <1>3 DEF EndWork, At, Processing, TypeInv, WorkerType, effectVars
<1>5. Facts(w)'
  <2>1. Goto(w, "deadletter") \/ Stop(w) \/ EndWith(w, "retry-exhausted")
    BY DEF EndWork, Recorded, EndingRefused
  <2>2. CASE Goto(w, "deadletter") \/ Stop(w)
    <3>1. worker'[w].pc \in {"deadletter", "idle"}
      BY <1>1, <2>2, GotoMoves, StopMoves DEF Pcs
    <3> QED
      BY <3>1, NeutralFacts
  <2>3. CASE EndWith(w, "retry-exhausted")
    <3>1. worker'[w].pc = "capture" /\ worker'[w].end = "retry-exhausted"
      BY <1>1, <2>3, EndMoves DEF Endings
    <3> QED
      BY <3>1 DEF Facts, At
  <2> QED
    BY <2>1, <2>2, <2>3
<1>6. \/ terminal' = terminal
      \/ terminal'[k].state = worker[w].end /\ \A j \in Keys : j # k => terminal'[j] = terminal[j]
  <2>1. CASE terminal' = terminal
    BY <2>1
  <2>2. CASE terminal' # terminal
    <3>1. PICK ref : Store!Terminalize(k, Name(w), worker[w].end, ref, worker[w].now)
      BY <1>3, <2>2 DEF EndWork, storeVars
    <3>2. PICK r : /\ r = [state |-> worker[w].end, attempt |-> items[k].attempt,
                           ref |-> IF ref = NoRef THEN items[k].result ELSE ref]
      OBVIOUS
    <3>3. terminal' = [terminal EXCEPT ![k] = r] /\ r.state = worker[w].end
      BY <3>1, <3>2 DEF Store!Terminalize
    <3> QED
      BY <1>1, <1>4, <3>3
  <2> QED
    BY <2>1, <2>2
\* Where stages fit their lease the worker still holds it, so the item ends.
<1>7. ASSUME setting.fitsLease PROVE KeyFacts(k)'
  <2>1. KeyFacts(k) /\ Facts(w)
    BY <1>4, <1>7 DEF MutationInv
  <2>2. Holds(w, clock) /\ terminal[k].state = "none"
    BY <1>3, <1>4, <1>7, AloneAtKey
  <2>3. Holds(w, worker[w].now)
    <3>1. /\ worker[w].now <= clock /\ items[k].expires \in Nat
          /\ worker[w].now \in Nat /\ clock \in Nat
      BY <1>1, <1>4, Numbers DEF LeaseInv, Claiming
    <3> QED
      BY <1>3, <2>2, <3>1 DEF Holds, Store!Owned
  <2>4. items'[k].state = "completed"
    <3>1. worker[w].end # "none"
      BY <1>4, <1>7, <2>1 DEF Facts, At
    <3>2. PICK ref \in Refs \cup {NoRef} :
            Store!Terminalize(k, Name(w), worker[w].end, ref, worker[w].now)
      BY <1>3, <2>2, <2>3, <3>1 DEF EndWork
    <3>3. items' = [items EXCEPT ![k] = Store!Released(k, "completed", ref)]
      BY <3>2 DEF Store!Terminalize
    <3>4. Store!Released(k, "completed", ref).state = "completed"
      BY <1>1, <1>4, <3>2, ReleasedType DEF TypeInv, Store!WorkStates
    <3> QED
      BY <1>1, <1>4, <3>3, <3>4 DEF TypeInv, StoreType
  <2>5. Undisturbed /\ terminal'[k].state = "write-back-failed" => effects[k] = -1
    BY <1>3, <1>4, <1>6, <2>1, <2>2 DEF Facts, At
  <2> QED
    BY <1>2, <1>4, <2>1, <2>4, <2>5 DEF KeyFacts, Traceable, Undisturbed, Refusable
<1> QED
  BY <1>2, <1>3, <1>4, <1>5, <1>6, <1>7, MutationBy

\* A crash: where none is allowed for, there is none.
LEMMA CrashMutations ==
  ASSUME LeaseInv, MutationInv, EndedInv, NEW w \in Workers, Crash(w)
  PROVE  MutationInv'
<1>1. /\ worker \in [Workers -> WorkerState]
      /\ UNCHANGED <<setting, effects, reconciliations, target, terminal>>
  BY DEF LeaseInv, TypeInv, WorkerType, Crash, storeVars, effectVars
<1>2. setting.crashes # 0
  <2>1. crashes \in Nat /\ setting.crashes \in Nat /\ crashes < setting.crashes
    BY DEF Crash, EndedInv, LeaseInv, TypeInv, Setting
  <2> QED
    BY <2>1
<1>3. worker'[w].pc = "idle" /\ \A v \in Workers : v # w => worker'[v] = worker[v]
  BY <1>1, StopMoves DEF Crash
<1> SUFFICES ASSUME setting.fitsLease
             PROVE  (\A v \in Workers : Facts(v)') /\ (\A j \in Keys : KeyFacts(j)')
  BY <1>1 DEF MutationInv
<1>4. \A v \in Workers : v # w => Facts(v)'
  BY <1>1, <1>3, OthersFacts DEF MutationInv
<1>5. ASSUME NEW j \in Keys PROVE KeyFacts(j)'
  <2>1. KeyFacts(j)
    BY DEF MutationInv
  <2> HIDE DEF SomeoneAt
  <2> QED
    BY <1>1, <1>2, <2>1 DEF KeyFacts, Traceable, Undisturbed, Refusable
<1> QED
  BY <1>3, <1>4, <1>5, NeutralFacts

LEMMA MutationStep ==
  ASSUME LeaseInv, EffectInv, MutationInv, EndedInv, [Next]_vars
  PROVE  /\ MutationInv'
         /\ setting.fitsLease => \A k \in Keys : Settled(k) => target'[k] = target[k]
<1>1. CompletedKept /\ EffectType
  BY CompletedStays DEF LeaseInv, EffectInv
<1>2. ASSUME UNCHANGED <<items, terminal, worker, effects, reconciliations, target, setting>>
      PROVE  MutationInv'
  BY <1>2 DEF MutationInv, Facts, KeyFacts, Settled, SomeoneAt, Traceable, Undisturbed, Refusable,
              At, KeyOf
<1>3. CASE Tick \/ Revoke \/ UNCHANGED vars
  <2>1. UNCHANGED <<items, terminal, worker, effects, reconciliations, target, setting>>
    BY <1>3 DEF Tick, Revoke, vars, Store!Tick, storeVars, effectVars, worldVars
  <2> QED
    BY <1>2, <2>1
<1>4. ASSUME NEW w \in Workers, WorkerStep(w) PROVE MutationInv'
  BY <1>1, <1>4, LoopMutations, CaptureMutations, ReadMutations, ExecuteMutations, SaveMutations,
     RestoreMutations, EndMutations DEF WorkerStep, WriteBackStep, TerminalStep
<1>5. ASSUME NEW w \in Workers, Crash(w) PROVE MutationInv'
  BY <1>5, CrashMutations
<1>6. CASE target' = target
  BY <1>3, <1>4, <1>5, <1>6 DEF Next
<1>7. CASE target' # target
  <2>1. PICK w \in Workers : ExecuteEffect(w)
    BY <1>7 DEF Next, WorkerStep, WriteBackStep, TerminalStep, ReadProgress, ClaimWork,
       ReadStage, WorkSucceeds, WorkFails, RecordStage, Authorize, LookupEffect,
       LookupReconciliation, Submit, VerifyEffect,
       SaveEffect, ReadCompleted, RestoreCheckpoint, SaveReconciliation, CaptureTime, EndWork,
       PersistDeadLetter, Tick, Crash, Revoke, vars, effectVars
  <2> QED
    BY <1>1, <2>1, ExecuteMutations
<1> QED
  BY <1>6, <1>7

\* An item has ended when it has a terminal record or its last checkpoint.
LEMMA EndedStep ==
  ASSUME TypeInv, EffectType, EndedInv, [Next]_vars
  PROVE  EndedInv'
<1>1. CompletedKept
  BY CompletedStays
<1>2. (~ setting.revocable => approved)' /\ crashes' \in Nat
  <2>1. UNCHANGED worldVars \/ Revoke \/ \E w \in Workers : Crash(w)
    BY DEF Next, vars, WorkerStep, WriteBackStep, TerminalStep, ReadProgress, ClaimWork,
       ReadStage, WorkSucceeds, WorkFails, RecordStage, Authorize, LookupEffect,
       LookupReconciliation, Submit, VerifyEffect,
       ExecuteEffect, SaveEffect, ReadCompleted, RestoreCheckpoint, SaveReconciliation,
       CaptureTime, EndWork, PersistDeadLetter, Tick
  <2> QED
    BY <2>1 DEF worldVars, Revoke, Crash, EndedInv
<1>3. ASSUME NEW w \in Workers, NEW k, NEW o, NEW s, NEW ref \in Refs \cup {NoRef}, NEW t,
             k = KeyOf(w), k \in Keys, s \in 1 .. 5,
             Store!LatestStage(k)' = s, Store!Checkpoint(k, o, s, ref, t)
      PROVE  \A j \in Keys :
               terminal'[j].state # "none" \/ Store!LatestStage(j)' = Store!Completed =>
                 items'[j].state = "completed"
  <2>1. terminal' = terminal /\ \A j \in Keys : j # k => checkpoints'[j] = checkpoints[j]
    BY <1>3 DEF Store!Checkpoint, TypeInv, StoreType
  <2>2. items[k].state = "in_progress"
    BY <1>3 DEF Store!Checkpoint, Store!Owned
  <2>3. s = Store!Completed => items'[k].state = "completed"
    <3>1. s = Store!Completed => items' = [items EXCEPT ![k] = Store!Released(k, "completed", ref)]
      BY <1>3 DEF Store!Checkpoint
    <3>2. Store!Released(k, "completed", ref).state = "completed"
      BY <1>3, ReleasedType DEF TypeInv, Store!WorkStates
    <3> QED
      BY <1>3, <3>1, <3>2 DEF TypeInv, StoreType
  <2>4. terminal[k].state = "none"
    BY <1>3, <2>2 DEF EndedInv
  <2>5. \A j \in Keys : j # k => Store!LatestStage(j)' = Store!LatestStage(j)
    BY <2>1 DEF Store!LatestStage
  <2> QED
    BY <1>1, <1>3, <2>1, <2>3, <2>4, <2>5 DEF EndedInv, CompletedKept
<1>4. ASSUME NEW w \in Workers, NEW k, NEW o, NEW e, NEW ref \in Refs \cup {NoRef}, NEW t,
             k \in Keys, Store!Terminalize(k, o, e, ref, t)
      PROVE  \A j \in Keys :
               terminal'[j].state # "none" \/ Store!LatestStage(j)' = Store!Completed =>
                 items'[j].state = "completed"
  <2>1. /\ items' = [items EXCEPT ![k] = Store!Released(k, "completed", ref)]
        /\ checkpoints' = checkpoints
        /\ \A j \in Keys : j # k => terminal'[j] = terminal[j]
    BY <1>4 DEF Store!Terminalize, TypeInv, StoreType
  <2>2. Store!Released(k, "completed", ref).state = "completed"
    BY <1>4, ReleasedType DEF TypeInv, Store!WorkStates
  <2>3. items'[k].state = "completed"
    BY <1>4, <2>1, <2>2 DEF TypeInv, StoreType
  <2>4. \A j \in Keys : Store!LatestStage(j)' = Store!LatestStage(j)
    BY <2>1, StoreStays
  <2> QED
    BY <1>1, <2>1, <2>3, <2>4 DEF EndedInv, CompletedKept
<1>5. CASE UNCHANGED <<terminal, checkpoints>>
  <2>1. \A j \in Keys : Store!LatestStage(j)' = Store!LatestStage(j)
    BY <1>5, StoreStays
  <2> QED
    BY <1>1, <1>2, <1>5, <2>1 DEF EndedInv, CompletedKept, Store!Completed
<1>6. ASSUME NEW w \in Workers, RecordStage(w) \/ RestoreCheckpoint(w) \/ EndWork(w),
             ~ UNCHANGED <<terminal, checkpoints>>
      PROVE  EndedInv'
  <2>1. PICK k : k = KeyOf(w)
    OBVIOUS
  <2>2. Processing(w) /\ k \in Keys /\ setting' = setting
    BY <1>6, <2>1 DEF RecordStage, RestoreCheckpoint, EndWork, At, Processing, TypeInv,
       WorkerType, worldVars
  <2>3. CASE RecordStage(w)
    <3>0. PICK s : s = worker[w].stage
      OBVIOUS
    <3>1. PICK ref \in Refs : Stop(w) /\ Store!Checkpoint(k, Name(w), s, ref, clock)
      BY <1>6, <2>1, <2>3, <3>0 DEF RecordStage, storeVars
    <3>2. s > Store!LatestStage(k) /\ worker[w] \in WorkerState
      BY <3>1 DEF Store!Checkpoint, TypeInv, WorkerType
    <3>3. s \in 1 .. 5
      BY <2>2, <3>0, <3>2, LatestType DEF WorkerState
    <3>4. Store!LatestStage(k)' = s
      BY <2>1, <2>2, <3>1, <3>3, CheckpointRecords
    <3> QED
      BY <1>2, <1>3, <2>1, <2>2, <3>1, <3>3, <3>4 DEF EndedInv, Store!Completed
  <2>4. CASE RestoreCheckpoint(w)
    <3>1. PICK s : s = Store!Completed /\ s \in 1 .. 5
      BY DEF Store!Completed
    <3>2. Stop(w) /\ Store!Checkpoint(k, Name(w), s, NoRef, clock)
      BY <1>6, <2>1, <2>4, <3>1 DEF RestoreCheckpoint, storeVars
    <3>3. Store!LatestStage(k)' = s
      BY <2>1, <2>2, <3>1, <3>2, CheckpointRecords
    <3> QED
      BY <1>2, <1>3, <2>1, <2>2, <3>1, <3>2, <3>3 DEF EndedInv, Store!Completed
  <2>5. CASE EndWork(w)
    <3>1. PICK ref \in Refs \cup {NoRef} :
            Store!Terminalize(k, Name(w), worker[w].end, ref, worker[w].now)
      BY <1>6, <2>1, <2>5 DEF EndWork, storeVars
    <3> QED
      BY <1>2, <1>4, <2>2, <3>1 DEF EndedInv, Store!Completed
  <2> QED
    BY <1>6, <2>3, <2>4, <2>5
<1> DEFINE Ending(w) == RecordStage(w) \/ RestoreCheckpoint(w) \/ EndWork(w)
<1> DEFINE Kept == UNCHANGED <<terminal, checkpoints>>
<1>7. ASSUME NEW w \in Workers, WorkerStep(w)
      PROVE  Kept \/ Ending(w)
  <2>1. ASSUME NEW k \in Keys, ReadProgress(w, k)
        PROVE  Kept
    BY <2>1 DEF ReadProgress, storeVars
  <2>2. ClaimWork(w) => Kept
    BY DEF ClaimWork, Store!Claim, storeVars
  <2>3. ReadStage(w) \/ WorkSucceeds(w) \/ WorkFails(w) => Kept
    BY DEF ReadStage, WorkSucceeds, WorkFails, storeVars
  <2>4. WriteBackStep(w) => Kept \/ Ending(w)
    <3>1. Authorize(w) \/ LookupEffect(w) \/ LookupReconciliation(w) \/ VerifyEffect(w) => Kept
      BY DEF Authorize, LookupEffect, LookupReconciliation, Submit, VerifyEffect, storeVars
    <3>2. ExecuteEffect(w) \/ SaveEffect(w) => Kept
      BY DEF ExecuteEffect, SaveEffect, storeVars
    <3>3. ReadCompleted(w) \/ SaveReconciliation(w) => Kept
      BY DEF ReadCompleted, SaveReconciliation, storeVars
    <3> QED
      BY <3>1, <3>2, <3>3 DEF WriteBackStep
  <2>5. TerminalStep(w) => Kept \/ Ending(w)
    BY DEF TerminalStep, CaptureTime, PersistDeadLetter, storeVars
  <2> QED
    BY <1>7, <2>1, <2>2, <2>3, <2>4, <2>5 DEF WorkerStep
<1>8. (\E w \in Workers : Crash(w)) \/ Tick \/ Revoke \/ UNCHANGED vars => Kept
  BY DEF Crash, Tick, Revoke, vars, storeVars, Store!Tick
<1>9. Kept \/ \E w \in Workers : Ending(w)
  BY <1>7, <1>8 DEF Next
<1> QED
  BY <1>5, <1>6, <1>9

--------------------------------------------------------------------------------
(* Theorems *)

WorkerInv == LeaseInv /\ EffectInv

LEMMA WorkerCorrect == Spec => []WorkerInv
<1>1. Init => WorkerInv
  <2> SUFFICES ASSUME Init PROVE EffectInv
    BY WorkerInit DEF WorkerInv
  <2>1. /\ effects = [k \in Keys |-> -1] /\ target = [k \in Keys |-> <<>>]
        /\ worker = [w \in Workers |-> IdleWorker]
    BY DEF Init
  <2>2. \A k \in Keys : Store!LatestStage(k) # Store!Completed
    BY WorkerInit
  <2>3. EffectType /\ \A w \in Workers : Justified(w)
    BY <2>1 DEF EffectType, Justified, At, IdleWorker
  <2> QED
    BY <2>1, <2>2, <2>3 DEF EffectInv, CompletedMeansCommitted
<1>2. WorkerInv /\ [Next]_vars => WorkerInv'
  BY LeaseStep, EffectStep DEF WorkerInv, LeaseInv, EffectInv
<1> QED
  BY <1>1, <1>2, PTL DEF Spec

\* With what the effects need besides: where an effect stands, and what has ended.
TracedInv == WorkerInv /\ MutationInv /\ EndedInv

LEMMA TracedCorrect == Spec => []TracedInv
<1>1. Init => MutationInv /\ EndedInv
  <2> SUFFICES ASSUME Init PROVE MutationInv /\ EndedInv
    OBVIOUS
  <2>1. /\ effects = [k \in Keys |-> -1] /\ target = [k \in Keys |-> <<>>]
        /\ worker = [w \in Workers |-> IdleWorker] /\ approved = TRUE /\ crashes = 0
        /\ terminal = [k \in Keys |-> Store!NoTerminal] /\ reconciliations = {}
    BY DEF Init
  <2>2. \A w \in Workers : Facts(w)
    BY <2>1 DEF Facts, At, IdleWorker
  <2>3. \A k \in Keys : KeyFacts(k)
    BY <2>1 DEF KeyFacts, Store!NoTerminal
  <2>4. EndedInv
    BY <2>1, WorkerInit DEF EndedInv, Store!NoTerminal
  <2> QED
    BY <2>2, <2>3, <2>4 DEF MutationInv
<1>2. WorkerInv /\ MutationInv /\ EndedInv /\ [Next]_vars => MutationInv' /\ EndedInv'
  BY MutationStep, EndedStep DEF WorkerInv, LeaseInv, EffectInv
<1> QED
  BY <1>1, <1>2, WorkerCorrect, PTL DEF Spec, TracedInv

\* Where stages fit their lease, a worker between its claim and its last store call
\* (BulkWorker.resume, execute_claim) holds the item for the attempt it claimed, and
\* no other worker processes that item.
THEOREM ProcessingIsExclusive == Spec => []ExclusiveProcessing
BY WorkerCorrect, PTL DEF WorkerInv, LeaseInv

\* A Completed checkpoint of the write-back (_restore_checkpoint) stands for an effect
\* record, and every effect record for a mutation the target holds.
THEOREM CompletionIsCommitted == Spec => []CompletedMeansCommitted
BY WorkerCorrect, PTL DEF WorkerInv, EffectInv

\* Under distinct names, checkpoint and terminalize record only for the worker that
\* claimed the item and for the attempt it claimed, however late the call.
THEOREM RecordingIsOwn == Spec => RecordedByClaimant
<1> DEFINE Own ==
      DistinctNames =>
        \A w \in Workers : worker'[w] # worker[w] =>
          \A k \in Keys :
            checkpoints'[k] # checkpoints[k] \/ terminal'[k] # terminal[k] =>
              k = KeyOf(w) /\ items[k].attempt = worker[w].attempt
<1>1. WorkerInv /\ [Next]_vars => [Own]_vars
  <2> SUFFICES ASSUME WorkerInv, [Next]_vars, DistinctNames,
                      NEW w \in Workers, worker'[w] # worker[w], NEW k \in Keys,
                      checkpoints'[k] # checkpoints[k] \/ terminal'[k] # terminal[k]
               PROVE  k = KeyOf(w) /\ items[k].attempt = worker[w].attempt
    OBVIOUS
  <2>1. TypeInv /\ EffectType /\ OwnAttempt
    BY DEF WorkerInv, LeaseInv, EffectInv
  <2>2. ~ UNCHANGED worker /\ ~ UNCHANGED <<checkpoints, terminal>>
    OBVIOUS
  <2>3. PICK u \in Workers : \/ \E j \in Keys : ReadProgress(u, j)
                             \/ ClaimWork(u) /\ Store!Claimable(KeyOf(u), worker[u].now)
                             \/ Kinds(u)
    BY <2>1, <2>2, StepKinds DEF Tick, Store!Tick
  <2>4. Records(u)
    BY <2>2, <2>3 DEF ReadProgress, ClaimWork, Store!Claim, Kinds, MovesOn, Leaves, storeVars
  <2>5. u = w
    BY <2>4 DEF Records
  <2>6. k = KeyOf(w)
    BY <2>4, <2>5 DEF Records
  <2>7. items[k].state = "in_progress" /\ items[k].owner = Name(w) /\ Processing(w)
    BY <2>4, <2>5, <2>6 DEF Records, Holds, Store!Owned
  <2> QED
    BY <2>1, <2>6, <2>7 DEF OwnAttempt
<1>2. RecordedByClaimant <=> [][Own]_vars
  BY DEF RecordedByClaimant
<1> QED
  BY <1>1, <1>2, WorkerCorrect, PTL DEF Spec

\* One mutation per idempotency key: where stages fit their lease, neither boundary
\* submits a second one without a crash, and with crashes the one that asks the target
\* first does not (EffectRecoveryCoordinator.execute).
THEOREM OneMutationPerKey == Spec => []OneMutation
<1>1. TracedInv => OneMutation
  BY DEF TracedInv, OneMutation, MutationInv, KeyFacts, Traceable
<1> QED
  BY <1>1, TracedCorrect, PTL

\* Where stages fit their lease, a key with its effect on record or under
\* reconciliation is never submitted again (EffectRecoveryCoordinator.execute).
THEOREM SettledIsNotReplayed == Spec => SettledNotReplayed
<1> DEFINE Quiet ==
      setting.fitsLease =>
        \A k \in Keys :
          effects[k] # -1 \/ k \in reconciliations => target'[k] = target[k]
<1>1. TracedInv /\ [Next]_vars => [Quiet]_vars
  <2> SUFFICES ASSUME TracedInv, [Next]_vars PROVE Quiet
    OBVIOUS
  <2>1. setting.fitsLease => \A k \in Keys : Settled(k) => target'[k] = target[k]
    BY MutationStep DEF TracedInv, WorkerInv
  <2> QED
    BY <2>1 DEF Settled
<1>2. SettledNotReplayed <=> [][Quiet]_vars
  BY DEF SettledNotReplayed
<1> QED
  BY <1>1, <1>2, TracedCorrect, PTL DEF Spec

\* Unless a worker may crash and the executor may refuse the write-back it comes back
\* to, "write-back-failed" is never recorded for an effect on record; with both it is,
\* as the run worker_revoked shows for a revoked approval (BatchWriteBackExecutor.execute
\* asks for validation, setting and approval before it looks for the record).
THEOREM FailedHasNoEffect ==
  Spec => [](setting.crashes = 0 \/ ~ Refusable => FailedMeansNoEffect)
<1>1. TracedInv => (setting.crashes = 0 \/ ~ Refusable => FailedMeansNoEffect)
  BY DEF TracedInv, FailedMeansNoEffect, MutationInv, KeyFacts, Undisturbed, Refusable
<1> QED
  BY <1>1, TracedCorrect, PTL
================================================================================

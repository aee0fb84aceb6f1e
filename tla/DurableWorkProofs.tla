--------------------------- MODULE DurableWorkProofs ---------------------------
(***************************************************************************)
(* Theorems about DurableWork for every set of keys, owners and artifacts, *)
(* every lease duration and every bound.  The inductive invariant is the   *)
(* conjunction of the invariants the runs check: a checkpoint is sound     *)
(* because the lease is held exactly by the attempt in progress, and       *)
(* completion is exclusive because both endings need that lease.           *)
(***************************************************************************)
EXTENDS DurableWork, TLAPS

\* What a checkpoint or terminal record leaves behind is a well-typed item.
LEMMA ReleasedType ==
  ASSUME TypeOK, NEW k \in Keys, NEW st \in WorkStates, NEW ref \in Refs \cup {NoRef}
  PROVE  Released(k, st, ref) \in WorkItem
<1>1. items[k] \in WorkItem
  BY DEF TypeOK
<1>2. QED
  BY <1>1 DEF Released, WorkItem

\* Appending a record to a history: earlier entries stay, the new one is last.
LEMMA AppendedHistory ==
  ASSUME NEW h \in Seq(CheckpointRecord), NEW r \in CheckpointRecord
  PROVE  /\ Append(h, r) \in Seq(CheckpointRecord)
         /\ Len(h) \in Nat
         /\ Len(Append(h, r)) = Len(h) + 1
         /\ Append(h, r)[Len(h) + 1] = r
         /\ \A n \in 1 .. Len(h) : Append(h, r)[n] = h[n]
         /\ Append(h, r) # <<>>
OBVIOUS

\* The entries of a history are checkpoint records.
LEMMA HistoryEntry ==
  ASSUME NEW h \in Seq(CheckpointRecord), NEW n \in 1 .. Len(h)
  PROVE  h[n].attempt \in Nat /\ h[n].stage \in Stages /\ h[n].stage \in Int
<1>1. h[n] \in CheckpointRecord
  OBVIOUS
<1>2. QED
  BY <1>1 DEF CheckpointRecord, Stages, Accepted, Completed

\* Every call keeps the store well typed.
LEMMA TypePreserved == TypeOK /\ [Next]_vars => TypeOK'
<1> USE WorkAssumption
<1> SUFFICES ASSUME TypeOK, [Next]_vars PROVE TypeOK'
  OBVIOUS
<1> USE DEF TypeOK
<1>1. ASSUME NEW k \in Keys, NEW i \in ItemIds, NEW p \in Payloads,
             NEW e \in Events, CreateWithOutbox(k, i, p, e)
      PROVE  TypeOK'
  <2>1. [AbsentItem EXCEPT !.itemId = i, !.payload = p, !.state = "pending"]
          \in WorkItem
    BY DEF AbsentItem, WorkItem, WorkStates
  <2>2. items' \in [Keys -> WorkItem]
    BY <1>1, <2>1 DEF CreateWithOutbox
  <2> DEFINE r == [event |-> e, key |-> k, itemId |-> i, payload |-> p,
                   status |-> "pending"]
  <2>3. outbox' \subseteq OutboxRecord
    <3>1. r \in OutboxRecord
      BY DEF OutboxRecord
    <3>2. outbox' = outbox \cup {r}
      BY <1>1 DEF CreateWithOutbox
    <3> HIDE DEF r
    <3>3. QED
      BY <3>1, <3>2
  <2>4. QED
    BY <1>1, <2>2, <2>3 DEF CreateWithOutbox
<1>2. ASSUME NEW e \in Events, MarkPublished(e)
      PROVE  TypeOK'
  BY <1>2 DEF MarkPublished, OutboxRecord
<1>3. ASSUME NEW k \in Keys, NEW o \in Owners, NEW t \in 0 .. clock, Claim(k, o, t)
      PROVE  TypeOK'
  <2>1. items[k] \in WorkItem /\ clock \in Nat /\ t + Lease \in Nat
    OBVIOUS
  <2>2. /\ items[k].attempt + 1 \in Nat
        /\ o \in Owners \cup {NoOwner}
        /\ "in_progress" \in WorkStates
    BY <2>1 DEF WorkItem, WorkStates
  <2>3. [items[k] EXCEPT !.state = "in_progress", !.attempt = items[k].attempt + 1,
                         !.owner = o, !.expires = t + Lease] \in WorkItem
    BY <2>1, <2>2 DEF WorkItem
  <2>4. QED
    BY <1>3, <2>3 DEF Claim
<1>4. ASSUME NEW k \in Keys, NEW o \in Owners, NEW t \in 0 .. clock, Renew(k, o, t)
      PROVE  TypeOK'
  <2>1. items[k] \in WorkItem /\ clock \in Nat /\ t + Lease \in Nat
    OBVIOUS
  <2>2. [items[k] EXCEPT !.expires = t + Lease] \in WorkItem
    BY <2>1 DEF WorkItem
  <2>3. QED
    BY <1>4, <2>2 DEF Renew
<1>5. ASSUME NEW k \in Keys, NEW o \in Owners, NEW t \in 0 .. clock,
             NEW s \in Stages, NEW ref \in Refs \cup {NoRef},
             Checkpoint(k, o, s, ref, t)
      PROVE  TypeOK'
  <2>1. Released(k, IF s = Completed THEN "completed" ELSE "checkpointed", ref)
          \in WorkItem
    BY ReleasedType DEF WorkStates
  <2>2. [stage |-> s, attempt |-> items[k].attempt, ref |-> ref] \in CheckpointRecord
    BY DEF CheckpointRecord, WorkItem
  <2>3. QED
    BY <1>5, <2>1, <2>2 DEF Checkpoint
<1>6. ASSUME NEW k \in Keys, NEW o \in Owners, NEW t \in 0 .. clock,
             NEW st \in Outcomes, NEW ref \in Refs \cup {NoRef},
             Terminalize(k, o, st, ref, t)
      PROVE  TypeOK'
  <2>1. Released(k, "completed", ref) \in WorkItem
    BY ReleasedType DEF WorkStates
  <2>2. [state |-> st, attempt |-> items[k].attempt,
         ref |-> IF ref = NoRef THEN items[k].result ELSE ref] \in TerminalRecord
    BY DEF TerminalRecord, WorkItem
  <2>3. QED
    BY <1>6, <2>1, <2>2 DEF Terminalize
<1>7. CASE Tick
  BY <1>7 DEF Tick
<1>8. CASE UNCHANGED vars
  BY <1>8 DEF vars
<1>9. QED
  BY <1>1, <1>2, <1>3, <1>4, <1>5, <1>6, <1>7, <1>8
     DEF Next, Submission, Publication, OwnerCall

\* Every reachable store is well typed.
THEOREM TypeCorrect == Spec => []TypeOK
<1>1. Init => TypeOK
  BY WorkAssumption DEF Init, TypeOK, WorkItem, AbsentItem, WorkStates, CheckpointRecord,
         TerminalRecord, NoTerminal, OutboxRecord
<1>2. QED
  BY <1>1, TypePreserved, PTL DEF Spec

--------------------------------------------------------------------------------
(* What one step does to one key, field by field *)

Untouched(q) == /\ items'[q] = items[q]
                /\ checkpoints'[q] = checkpoints[q]
                /\ terminal'[q] = terminal[q]

Submitted(q) == /\ items[q].state = "absent"
                /\ items'[q].state = "pending"
                /\ items'[q].attempt = 0
                /\ items'[q].owner = NoOwner
                /\ items'[q].expires = 0
                /\ items'[q].result = NoRef
                /\ checkpoints'[q] = checkpoints[q]
                /\ terminal'[q] = terminal[q]

Claimed(q) == /\ items[q].state # "absent"
              /\ items[q].state # "completed"
              /\ items[q].state = "in_progress" => items[q].expires <= clock
              /\ items'[q].state = "in_progress"
              /\ items'[q].attempt = items[q].attempt + 1
              /\ items'[q].owner # NoOwner
              /\ items'[q].expires <= clock + Lease
              /\ items'[q].result = items[q].result
              /\ checkpoints'[q] = checkpoints[q]
              /\ terminal'[q] = terminal[q]

Renewed(q) == /\ items[q].state = "in_progress"
              /\ items'[q].state = "in_progress"
              /\ items'[q].attempt = items[q].attempt
              /\ items'[q].owner = items[q].owner
              /\ items'[q].expires <= clock + Lease
              /\ items'[q].result = items[q].result
              /\ checkpoints'[q] = checkpoints[q]
              /\ terminal'[q] = terminal[q]

GaveLeaseBack(q, st, ref) ==
              /\ items[q].state = "in_progress"
              /\ items'[q].state = st
              /\ items'[q].attempt = items[q].attempt
              /\ items'[q].owner = NoOwner
              /\ items'[q].expires = 0
              /\ items'[q].result = IF ref = NoRef THEN items[q].result ELSE ref

Checkpointed(q, s, ref) ==
              /\ s > LatestStage(q)
              /\ GaveLeaseBack(q, IF s = Completed THEN "completed" ELSE "checkpointed", ref)
              /\ checkpoints'[q] = Append(checkpoints[q],
                   [stage |-> s, attempt |-> items[q].attempt, ref |-> ref])
              /\ terminal'[q] = terminal[q]

Terminalized(q, st, ref) ==
              /\ terminal[q].state = "none"
              /\ GaveLeaseBack(q, "completed", ref)
              /\ terminal'[q] = [state |-> st, attempt |-> items[q].attempt,
                                 ref |-> IF ref = NoRef THEN items[q].result ELSE ref]
              /\ checkpoints'[q] = checkpoints[q]

\* Any step submits, claims, renews, checkpoints or terminalizes a key, or
\* leaves it alone.
LEMMA KeyStep ==
  ASSUME TypeOK, [Next]_vars, NEW q \in Keys
  PROVE  \/ Untouched(q)
         \/ Submitted(q)
         \/ Claimed(q)
         \/ Renewed(q)
         \/ \E s \in Stages, ref \in Refs \cup {NoRef} : Checkpointed(q, s, ref)
         \/ \E st \in Outcomes, ref \in Refs \cup {NoRef} : Terminalized(q, st, ref)
<1> DEFINE Goal == \/ Untouched(q)
                   \/ Submitted(q)
                   \/ Claimed(q)
                   \/ Renewed(q)
                   \/ \E s \in Stages, ref \in Refs \cup {NoRef} : Checkpointed(q, s, ref)
                   \/ \E st \in Outcomes, ref \in Refs \cup {NoRef} : Terminalized(q, st, ref)
<1>0. /\ items[q] \in WorkItem
      /\ items \in [Keys -> WorkItem]
      /\ checkpoints \in [Keys -> Seq(CheckpointRecord)]
      /\ terminal \in [Keys -> TerminalRecord]
      /\ clock \in Nat
  BY DEF TypeOK
<1>1. ASSUME NEW k \in Keys, NEW i \in ItemIds, NEW p \in Payloads,
             NEW e \in Events, CreateWithOutbox(k, i, p, e)
      PROVE  Untouched(q) \/ Submitted(q)
  BY <1>0, <1>1 DEF CreateWithOutbox, Created, AbsentItem, Untouched, Submitted
<1>2. ASSUME NEW k \in Keys, NEW o \in Owners, NEW t \in 0 .. clock, Claim(k, o, t)
      PROVE  Untouched(q) \/ Claimed(q)
  <2>1. CASE q # k
    BY <1>0, <1>2, <2>1 DEF Claim, Untouched
  <2>2. CASE q = k
    <3>1. items'[q] = [items[q] EXCEPT !.state = "in_progress",
                                       !.attempt = items[q].attempt + 1,
                                       !.owner = o, !.expires = t + Lease]
      BY <1>0, <1>2, <2>2 DEF Claim
    <3>2. /\ items'[q].state = "in_progress"
          /\ items'[q].attempt = items[q].attempt + 1
          /\ items'[q].owner = o
          /\ items'[q].expires = t + Lease
          /\ items'[q].result = items[q].result
      BY <1>0, <3>1 DEF WorkItem
    <3>3. t <= clock /\ t + Lease <= clock + Lease /\ o # NoOwner
      BY <1>0, WorkAssumption
    <3>4. /\ items[q].state # "absent"
          /\ items[q].state # "completed"
          /\ items[q].state = "in_progress" => items[q].expires <= t
      BY <1>0, <1>2, <2>2 DEF Claim, Claimable, Created, WorkItem
    <3>5. items[q].state = "in_progress" => items[q].expires <= clock
      BY <1>0, <3>3, <3>4 DEF WorkItem
    <3>6. QED
      BY <1>2, <3>2, <3>3, <3>4, <3>5 DEF Claim, Claimed
  <2>3. QED
    BY <2>1, <2>2
<1>3. ASSUME NEW k \in Keys, NEW o \in Owners, NEW t \in 0 .. clock, Renew(k, o, t)
      PROVE  Untouched(q) \/ Renewed(q)
  <2>1. CASE q # k
    BY <1>0, <1>3, <2>1 DEF Renew, Untouched
  <2>2. CASE q = k
    <3>1. items'[q] = [items[q] EXCEPT !.expires = t + Lease]
      BY <1>0, <1>3, <2>2 DEF Renew
    <3>2. t + Lease <= clock + Lease
      BY <1>0, WorkAssumption
    <3>3. QED
      BY <1>0, <1>3, <2>2, <3>1, <3>2 DEF Renew, Owned, Renewed, WorkItem
  <2>3. QED
    BY <2>1, <2>2
<1>4. ASSUME NEW k \in Keys, NEW o \in Owners, NEW t \in 0 .. clock,
             NEW s \in Stages, NEW ref \in Refs \cup {NoRef},
             Checkpoint(k, o, s, ref, t)
      PROVE  Untouched(q) \/ Checkpointed(q, s, ref)
  <2>1. CASE q # k
    BY <1>0, <1>4, <2>1 DEF Checkpoint, Untouched
  <2>2. CASE q = k
    <3> DEFINE st == IF s = Completed THEN "completed" ELSE "checkpointed"
    <3>1. items'[q] = Released(q, st, ref)
      BY <1>0, <1>4, <2>2 DEF Checkpoint
    <3>2. GaveLeaseBack(q, st, ref)
      BY <1>0, <1>4, <2>2, <3>1 DEF Checkpoint, Owned, Released, GaveLeaseBack, WorkItem
    <3>3. QED
      BY <1>0, <1>4, <2>2, <3>2 DEF Checkpoint, Checkpointed
  <2>3. QED
    BY <2>1, <2>2
<1>5. ASSUME NEW k \in Keys, NEW o \in Owners, NEW t \in 0 .. clock,
             NEW st \in Outcomes, NEW ref \in Refs \cup {NoRef},
             Terminalize(k, o, st, ref, t)
      PROVE  Untouched(q) \/ Terminalized(q, st, ref)
  <2>1. CASE q # k
    BY <1>0, <1>5, <2>1 DEF Terminalize, Untouched
  <2>2. CASE q = k
    <3>1. items'[q] = Released(q, "completed", ref)
      BY <1>0, <1>5, <2>2 DEF Terminalize
    <3>2. GaveLeaseBack(q, "completed", ref)
      BY <1>0, <1>5, <2>2, <3>1 DEF Terminalize, Owned, Released, GaveLeaseBack, WorkItem
    <3>3. QED
      BY <1>0, <1>5, <2>2, <3>2 DEF Terminalize, Terminalized
  <2>3. QED
    BY <2>1, <2>2
<1>6. CASE UNCHANGED <<items, checkpoints, terminal>>
  BY <1>6 DEF Untouched
<1> HIDE DEF Goal
<1>7. QED
  <2>1. Goal
    <3>1. Untouched(q) => Goal
      BY DEF Goal
    <3>2. QED
      BY <1>1, <1>2, <1>3, <1>4, <1>5, <1>6
         DEF Goal, Next, Submission, Publication, OwnerCall, MarkPublished, Tick, vars
  <2>2. QED
    BY <2>1 DEF Goal

\* After a checkpoint, resume_state reports the stage it completed.
LEMMA CheckpointIsLatest ==
  ASSUME TypeOK, NEW q \in Keys, NEW s \in Stages, NEW ref \in Refs \cup {NoRef},
         Checkpointed(q, s, ref)
  PROVE  LatestStage(q)' = s
<1> DEFINE r == [stage |-> s, attempt |-> items[q].attempt, ref |-> ref]
<1>1. checkpoints[q] \in Seq(CheckpointRecord) /\ items[q].attempt \in Nat
  BY DEF TypeOK, WorkItem
<1>2. r \in CheckpointRecord
  BY <1>1 DEF CheckpointRecord
<1>3. checkpoints'[q] = Append(checkpoints[q], r)
  BY DEF Checkpointed
<1>4. /\ checkpoints'[q] # <<>>
      /\ checkpoints'[q][Len(checkpoints'[q])] = r
  BY <1>1, <1>2, <1>3, AppendedHistory
<1>5. QED
  BY <1>4 DEF LatestStage

\* The same, of the call itself.
LEMMA StoreCheckpointIsLatest ==
  ASSUME TypeOK, NEW k \in Keys, NEW o \in Owners, NEW t \in 0 .. clock,
         NEW s \in Stages, NEW ref \in Refs \cup {NoRef}, Checkpoint(k, o, s, ref, t)
  PROVE  LatestStage(k)' = s
<1> DEFINE r == [stage |-> s, attempt |-> items[k].attempt, ref |-> ref]
<1>1. checkpoints[k] \in Seq(CheckpointRecord) /\ items[k].attempt \in Nat
  BY DEF TypeOK, WorkItem
<1>2. r \in CheckpointRecord
  BY <1>1 DEF CheckpointRecord
<1>3. checkpoints'[k] = Append(checkpoints[k], r)
  BY DEF Checkpoint, TypeOK
<1>4. QED
  BY <1>1, <1>2, <1>3, AppendedHistory DEF LatestStage

--------------------------------------------------------------------------------
(* Leases, and keys nobody has submitted *)

\* The clock only stands still or ticks.
LEMMA ClockStep == [Next]_vars => clock' = clock \/ clock' = clock + 1
<1> SUFFICES ASSUME [Next]_vars PROVE clock' = clock \/ clock' = clock + 1
  OBVIOUS
<1>1. CASE Submission
  BY <1>1 DEF Submission, CreateWithOutbox
<1>2. CASE Publication
  BY <1>2 DEF Publication, MarkPublished
<1>3. ASSUME NEW k \in Keys, NEW o \in Owners, NEW t \in 0 .. clock, OwnerCall(k, o, t)
      PROVE  clock' = clock
  BY <1>3 DEF OwnerCall, Claim, Renew, Checkpoint, Terminalize
<1>4. CASE Tick
  BY <1>4 DEF Tick
<1>5. CASE UNCHANGED vars
  BY <1>5 DEF vars
<1>6. QED
  BY <1>1, <1>2, <1>3, <1>4, <1>5 DEF Next

\* Adding a lease duration to a later time gives a later end.
LEMMA LaterSum == \A c, d, l \in Nat : c <= d => 0 <= d + l /\ c + l <= d + l
OBVIOUS

\* A lease is held exactly while the item is in progress, and no lease outlives
\* the clock by more than its duration.
THEOREM LeasesWellFormed == Spec => []LeaseWellFormed
<1>1. Init => LeaseWellFormed
  <2> SUFFICES ASSUME Init, NEW q \in Keys
               PROVE  /\ (items[q].state = "in_progress" <=> items[q].owner # NoOwner)
                      /\ items[q].expires <= clock + Lease
    BY DEF LeaseWellFormed
  <2>1. items[q].state = "absent" /\ items[q].owner = NoOwner /\ items[q].expires = 0
    BY DEF Init, AbsentItem
  <2>2. clock = 0 /\ Lease \in Nat
    BY WorkAssumption DEF Init
  <2>3. QED
    BY <2>1, <2>2
<1>2. TypeOK /\ LeaseWellFormed /\ [Next]_vars => LeaseWellFormed'
  <2> SUFFICES ASSUME TypeOK, LeaseWellFormed, [Next]_vars, NEW q \in Keys
               PROVE  /\ (items'[q].state = "in_progress" <=> items'[q].owner # NoOwner)
                      /\ items'[q].expires <= clock' + Lease
    BY DEF LeaseWellFormed
  <2>1. /\ items[q].state = "in_progress" <=> items[q].owner # NoOwner
        /\ items[q].expires <= clock + Lease
        /\ items[q].expires \in Nat /\ clock \in Nat
    BY DEF LeaseWellFormed, TypeOK, WorkItem
  <2>2. clock' \in Nat /\ clock <= clock'
    BY <2>1, ClockStep
  <2>a. Lease \in Nat
    BY WorkAssumption
  <2>b. 0 <= clock' + Lease /\ clock + Lease <= clock' + Lease
    BY <2>1, <2>2, <2>a, LaterSum
  <2>3. items'[q] \in WorkItem
    BY TypePreserved DEF TypeOK
  <2>4. items'[q].expires \in Nat
    BY <2>3 DEF WorkItem
  <2>5. CASE Untouched(q)
    BY <2>1, <2>2, <2>a, <2>5 DEF Untouched
  <2>6. CASE Submitted(q)
    BY <2>b, <2>6 DEF Submitted
  <2>7. CASE Claimed(q) \/ Renewed(q)
    BY <2>1, <2>2, <2>4, <2>a, <2>b, <2>7 DEF Claimed, Renewed
  <2>8. CASE \E s \in Stages, ref \in Refs \cup {NoRef} : Checkpointed(q, s, ref)
    <3>1. /\ items'[q].state # "in_progress"
          /\ items'[q].owner = NoOwner
          /\ items'[q].expires = 0
      BY <2>8 DEF Checkpointed, GaveLeaseBack
    <3>2. QED
      BY <2>b, <3>1
  <2>9. CASE \E st \in Outcomes, ref \in Refs \cup {NoRef} : Terminalized(q, st, ref)
    <3>1. /\ items'[q].state # "in_progress"
          /\ items'[q].owner = NoOwner
          /\ items'[q].expires = 0
      BY <2>9 DEF Terminalized, GaveLeaseBack
    <3>2. QED
      BY <2>b, <3>1
  <2>10. QED
    BY <2>5, <2>6, <2>7, <2>8, <2>9, KeyStep
<1>3. QED
  BY <1>1, <1>2, TypeCorrect, PTL DEF Spec

\* A key nobody submitted has no checkpoint, terminal record or artifact.
BlankKey(k) == items[k].state = "absent" => /\ checkpoints[k] = <<>>
                                            /\ terminal[k].state = "none"
                                            /\ items[k].result = NoRef

AbsentIsBlank == \A k \in Keys : BlankKey(k)

\* Only a submission leaves the absent state, and it writes none of the three.
LEMMA AbsentStaysBlank == Spec => []AbsentIsBlank
<1>1. Init => AbsentIsBlank
  BY DEF Init, AbsentIsBlank, BlankKey, AbsentItem, NoTerminal
<1>2. TypeOK /\ AbsentIsBlank /\ [Next]_vars => AbsentIsBlank'
  <2> SUFFICES ASSUME TypeOK, AbsentIsBlank, [Next]_vars, NEW q \in Keys
               PROVE  BlankKey(q)'
    BY DEF AbsentIsBlank
  <2>1. BlankKey(q)
    BY DEF AbsentIsBlank
  <2>2. QED
    BY <2>1, KeyStep DEF BlankKey, Untouched, Submitted, Claimed, Renewed,
                         Checkpointed, Terminalized, GaveLeaseBack
<1>3. QED
  BY <1>1, <1>2, TypeCorrect, PTL DEF Spec

--------------------------------------------------------------------------------
(* One checkpoint per attempt *)

HistoryOrdered(k) ==
  /\ \A i, j \in 1 .. Len(checkpoints[k]) : i < j =>
       /\ checkpoints[k][i].stage < checkpoints[k][j].stage
       /\ checkpoints[k][i].attempt < checkpoints[k][j].attempt
  /\ \A i \in 1 .. Len(checkpoints[k]) :
       /\ checkpoints[k][i].attempt <= items[k].attempt
       /\ items[k].state = "in_progress" =>
            checkpoints[k][i].attempt < items[k].attempt

\* Along every history stages and attempts strictly increase, because checkpoint
\* gives the lease back and only claim, which counts a new attempt, grants one.
THEOREM AttemptsCheckpointOnce == Spec => []OneCheckpointPerAttempt
<1>1. Init => OneCheckpointPerAttempt
  <2> SUFFICES ASSUME Init, NEW q \in Keys PROVE HistoryOrdered(q)
    BY DEF OneCheckpointPerAttempt, HistoryOrdered
  <2>1. checkpoints[q] = <<>> /\ Len(<<>>) = 0
    BY DEF Init
  <2>2. 1 .. Len(checkpoints[q]) = {}
    BY <2>1
  <2>3. QED
    BY <2>2 DEF HistoryOrdered
<1>2. TypeOK /\ AbsentIsBlank /\ OneCheckpointPerAttempt /\ [Next]_vars
        => OneCheckpointPerAttempt'
  <2> SUFFICES ASSUME TypeOK, AbsentIsBlank, OneCheckpointPerAttempt, [Next]_vars,
                      NEW q \in Keys
               PROVE  HistoryOrdered(q)'
    BY DEF OneCheckpointPerAttempt, HistoryOrdered
  <2>1. /\ HistoryOrdered(q)
        /\ BlankKey(q)
        /\ items[q].attempt \in Nat
        /\ checkpoints[q] \in Seq(CheckpointRecord)
    BY DEF OneCheckpointPerAttempt, HistoryOrdered, AbsentIsBlank, TypeOK, WorkItem
  <2>2. \A n \in 1 .. Len(checkpoints[q]) :
          checkpoints[q][n].attempt \in Nat /\ checkpoints[q][n].stage \in Stages
    BY <2>1, HistoryEntry
  <2>3. CASE Untouched(q)
    BY <2>1, <2>3 DEF Untouched, HistoryOrdered
  <2>4. CASE Submitted(q)
    BY <2>1, <2>4 DEF Submitted, HistoryOrdered, BlankKey
  <2>5. CASE Claimed(q)
    BY <2>1, <2>2, <2>5 DEF Claimed, HistoryOrdered
  <2>6. CASE Renewed(q)
    BY <2>1, <2>2, <2>6 DEF Renewed, HistoryOrdered
  <2>7. ASSUME NEW s \in Stages, NEW ref \in Refs \cup {NoRef}, Checkpointed(q, s, ref)
        PROVE  HistoryOrdered(q)'
    <3> DEFINE h == checkpoints[q]
               r == [stage |-> s, attempt |-> items[q].attempt, ref |-> ref]
    <3>1. r \in CheckpointRecord
      BY <2>1 DEF CheckpointRecord
    <3>2. /\ checkpoints'[q] = Append(h, r)
          /\ items'[q].attempt = items[q].attempt
          /\ items'[q].state # "in_progress"
          /\ items[q].state = "in_progress"
          /\ s > LatestStage(q)
      BY <2>7 DEF Checkpointed, GaveLeaseBack
    <3>3. /\ Len(h) \in Nat
          /\ Len(Append(h, r)) = Len(h) + 1
          /\ Append(h, r)[Len(h) + 1] = r
          /\ \A n \in 1 .. Len(h) : Append(h, r)[n] = h[n]
      BY <2>1, <3>1, AppendedHistory
    <3>4. \A n \in 1 .. Len(h) : h[n].stage < s /\ h[n].attempt < items[q].attempt
      <4> SUFFICES ASSUME NEW n \in 1 .. Len(h)
                   PROVE  h[n].stage < s /\ h[n].attempt < items[q].attempt
        OBVIOUS
      <4>1. h[n].attempt < items[q].attempt
        BY <2>1, <3>2 DEF HistoryOrdered
      <4>2. h # <<>> /\ Len(h) \in 1 .. Len(h)
        BY <2>1, <3>3
      <4>3. LatestStage(q) = h[Len(h)].stage
        BY <4>2 DEF LatestStage
      <4>4. h[n].stage <= h[Len(h)].stage
        <5>1. h[n].stage \in Int /\ h[Len(h)].stage \in Int
          BY <2>1, <4>2, HistoryEntry
        <5>2. n < Len(h) => h[n].stage < h[Len(h)].stage
          BY <2>1, <4>2 DEF HistoryOrdered
        <5>3. QED
          BY <3>3, <5>1, <5>2
      <4>5. s \in Int /\ h[n].stage \in Int /\ h[Len(h)].stage \in Int
        BY <2>1, <4>2, HistoryEntry DEF Stages, Accepted, Completed
      <4>6. QED
        BY <3>2, <4>1, <4>3, <4>4, <4>5
    <3>5. QED
      BY <2>1, <2>2, <3>2, <3>3, <3>4 DEF HistoryOrdered
  <2>8. CASE \E st \in Outcomes, ref \in Refs \cup {NoRef} : Terminalized(q, st, ref)
    BY <2>1, <2>2, <2>8 DEF Terminalized, GaveLeaseBack, HistoryOrdered
  <2>9. QED
    BY <2>3, <2>4, <2>5, <2>6, <2>7, <2>8, KeyStep
<1>3. QED
  BY <1>1, <1>2, TypeCorrect, AbsentStaysBlank, PTL DEF Spec

--------------------------------------------------------------------------------
(* Completion is exclusive *)

EndedOneWay(k) ==
  /\ items[k].state = "completed" <=>
       (terminal[k].state # "none" \/ LatestStage(k) = Completed)
  /\ terminal[k].state # "none" =>
       /\ LatestStage(k) # Completed
       /\ terminal[k].attempt = items[k].attempt
       /\ \A i \in 1 .. Len(checkpoints[k]) :
            checkpoints[k][i].attempt < terminal[k].attempt

\* A Completed checkpoint and a terminal record both need the lease of work in
\* progress and both leave completed work behind, so an item never has both.
THEOREM CompletionExclusive == Spec => []CompletedExactlyOneWay
<1>1. Init => CompletedExactlyOneWay
  <2> SUFFICES ASSUME Init, NEW q \in Keys PROVE EndedOneWay(q)
    BY DEF CompletedExactlyOneWay, EndedOneWay
  <2>1. items[q].state = "absent" /\ terminal[q].state = "none" /\ LatestStage(q) = 0
    BY DEF Init, AbsentItem, NoTerminal, LatestStage
  <2>2. QED
    BY <2>1 DEF EndedOneWay, Completed
<1>2. /\ TypeOK /\ AbsentIsBlank /\ OneCheckpointPerAttempt
      /\ CompletedExactlyOneWay /\ [Next]_vars
      => CompletedExactlyOneWay'
  <2> SUFFICES ASSUME TypeOK, AbsentIsBlank, OneCheckpointPerAttempt,
                      CompletedExactlyOneWay, [Next]_vars, NEW q \in Keys
               PROVE  EndedOneWay(q)'
    BY DEF CompletedExactlyOneWay, EndedOneWay
  <2>1. /\ EndedOneWay(q)
        /\ HistoryOrdered(q)
        /\ BlankKey(q)
        /\ items[q].attempt \in Nat
        /\ checkpoints[q] \in Seq(CheckpointRecord)
    BY DEF CompletedExactlyOneWay, EndedOneWay, OneCheckpointPerAttempt, HistoryOrdered,
           AbsentIsBlank, TypeOK, WorkItem
  <2>2. checkpoints'[q] = checkpoints[q] => LatestStage(q)' = LatestStage(q)
    BY DEF LatestStage
  <2>3. CASE Untouched(q)
    BY <2>1, <2>2, <2>3 DEF Untouched, EndedOneWay
  <2>4. CASE Submitted(q)
    BY <2>1, <2>2, <2>4 DEF Submitted, EndedOneWay
  <2>5. CASE Claimed(q) \/ Renewed(q)
    BY <2>1, <2>2, <2>5 DEF Claimed, Renewed, EndedOneWay
  <2>6. ASSUME NEW s \in Stages, NEW ref \in Refs \cup {NoRef}, Checkpointed(q, s, ref)
        PROVE  EndedOneWay(q)'
    <3>1. LatestStage(q)' = s
      BY <2>1, <2>6, CheckpointIsLatest
    <3>2. /\ terminal'[q] = terminal[q]
          /\ items[q].state = "in_progress"
          /\ items'[q].state = IF s = Completed THEN "completed" ELSE "checkpointed"
      BY <2>6 DEF Checkpointed, GaveLeaseBack
    <3>3. terminal[q].state = "none"
      BY <2>1, <3>2 DEF EndedOneWay
    <3>4. QED
      BY <3>1, <3>2, <3>3 DEF EndedOneWay
  <2>7. ASSUME NEW st \in Outcomes, NEW ref \in Refs \cup {NoRef}, Terminalized(q, st, ref)
        PROVE  EndedOneWay(q)'
    <3>1. /\ items[q].state = "in_progress"
          /\ items'[q].state = "completed"
          /\ items'[q].attempt = items[q].attempt
          /\ terminal'[q].state = st
          /\ terminal'[q].attempt = items[q].attempt
          /\ checkpoints'[q] = checkpoints[q]
      BY <2>7 DEF Terminalized, GaveLeaseBack
    <3>2. st # "none"
      BY WorkAssumption DEF TerminalStates
    <3>3. LatestStage(q) # Completed
      BY <2>1, <3>1 DEF EndedOneWay
    <3>4. QED
      BY <2>1, <2>2, <3>1, <3>2, <3>3 DEF EndedOneWay, HistoryOrdered
  <2>8. QED
    BY <2>3, <2>4, <2>5, <2>6, <2>7, KeyStep
<1>3. QED
  BY <1>1, <1>2, TypeCorrect, AbsentStaysBlank, AttemptsCheckpointOnce, PTL DEF Spec

--------------------------------------------------------------------------------
(* The result reference, and the outbox *)

CarriesArtifact(k, n) == n \in 1 .. Len(checkpoints[k]) /\ checkpoints[k][n].ref # NoRef

LatestArtifact(k) ==
  IF terminal[k].state # "none" THEN items[k].result = terminal[k].ref
  ELSE \/ /\ items[k].result = NoRef
          /\ \A n \in 1 .. Len(checkpoints[k]) : ~ CarriesArtifact(k, n)
       \/ \E n \in 1 .. Len(checkpoints[k]) :
            /\ CarriesArtifact(k, n)
            /\ items[k].result = checkpoints[k][n].ref
            /\ \A m \in n + 1 .. Len(checkpoints[k]) : ~ CarriesArtifact(k, m)

\* checkpoint and terminalize replace the reference only by an artifact of their
\* own record, and no other call writes it.
THEOREM ResultFollowsArtifacts == Spec => []ResultIsLatestArtifact
<1>1. Init => ResultIsLatestArtifact
  <2> SUFFICES ASSUME Init, NEW q \in Keys PROVE LatestArtifact(q)
    BY DEF ResultIsLatestArtifact, LatestArtifact, CarriesArtifact
  <2>1. checkpoints[q] = <<>> /\ Len(<<>>) = 0
    BY DEF Init
  <2>2. items[q].result = NoRef /\ terminal[q].state = "none"
    BY DEF Init, AbsentItem, NoTerminal
  <2>3. QED
    BY <2>1, <2>2 DEF LatestArtifact
<1>2. /\ TypeOK /\ AbsentIsBlank /\ CompletedExactlyOneWay
      /\ ResultIsLatestArtifact /\ [Next]_vars
      => ResultIsLatestArtifact'
  <2> SUFFICES ASSUME TypeOK, AbsentIsBlank, CompletedExactlyOneWay,
                      ResultIsLatestArtifact, [Next]_vars, NEW q \in Keys
               PROVE  LatestArtifact(q)'
    BY DEF ResultIsLatestArtifact, LatestArtifact, CarriesArtifact
  <2>1. /\ LatestArtifact(q)
        /\ BlankKey(q)
        /\ items[q].attempt \in Nat
        /\ checkpoints[q] \in Seq(CheckpointRecord)
    BY DEF ResultIsLatestArtifact, LatestArtifact, CarriesArtifact, AbsentIsBlank,
           TypeOK, WorkItem
  <2>2. CASE Untouched(q)
    BY <2>1, <2>2 DEF Untouched, LatestArtifact, CarriesArtifact
  <2>3. CASE Submitted(q)
    BY <2>1, <2>3 DEF Submitted, LatestArtifact, CarriesArtifact, BlankKey
  <2>4. CASE Claimed(q) \/ Renewed(q)
    BY <2>1, <2>4 DEF Claimed, Renewed, LatestArtifact, CarriesArtifact
  <2>5. ASSUME NEW s \in Stages, NEW ref \in Refs \cup {NoRef}, Checkpointed(q, s, ref)
        PROVE  LatestArtifact(q)'
    <3> DEFINE h == checkpoints[q]
               r == [stage |-> s, attempt |-> items[q].attempt, ref |-> ref]
    <3>1. r \in CheckpointRecord
      BY <2>1 DEF CheckpointRecord
    <3>2. /\ checkpoints'[q] = Append(h, r)
          /\ items'[q].result = IF ref = NoRef THEN items[q].result ELSE ref
          /\ terminal'[q] = terminal[q]
          /\ terminal[q].state = "none"
      BY <2>5 DEF Checkpointed, GaveLeaseBack, CompletedExactlyOneWay
    <3>3. /\ Len(h) \in Nat
          /\ Len(checkpoints'[q]) = Len(h) + 1
          /\ checkpoints'[q][Len(h) + 1] = r
          /\ \A n \in 1 .. Len(h) : checkpoints'[q][n] = h[n]
      BY <2>1, <3>1, <3>2, AppendedHistory
    <3>4. CASE ref = NoRef
      BY <2>1, <3>2, <3>3, <3>4 DEF LatestArtifact, CarriesArtifact
    <3>5. CASE ref # NoRef
      BY <3>2, <3>3, <3>5 DEF LatestArtifact, CarriesArtifact
    <3>6. QED
      BY <3>4, <3>5
  <2>6. ASSUME NEW st \in Outcomes, NEW ref \in Refs \cup {NoRef}, Terminalized(q, st, ref)
        PROVE  LatestArtifact(q)'
    <3>1. /\ terminal'[q].state = st
          /\ terminal'[q].ref = IF ref = NoRef THEN items[q].result ELSE ref
          /\ items'[q].result = IF ref = NoRef THEN items[q].result ELSE ref
      BY <2>6 DEF Terminalized, GaveLeaseBack
    <3>2. st # "none"
      BY WorkAssumption DEF TerminalStates
    <3>3. QED
      BY <3>1, <3>2 DEF LatestArtifact
  <2>7. QED
    BY <2>2, <2>3, <2>4, <2>5, <2>6, KeyStep
<1>3. QED
  BY <1>1, <1>2, TypeCorrect, AbsentStaysBlank, CompletionExclusive, PTL DEF Spec

\* Identity and payload of a submitted item are immutable.
KeepsIdentity ==
  \A k \in Keys : /\ Created(k)' <=> Created(k)
                  /\ items'[k].itemId = items[k].itemId
                  /\ items'[k].payload = items[k].payload

\* No call of an owner changes which items exist, their identity or the outbox.
LEMMA OwnerKeepsIdentity ==
  ASSUME TypeOK, NEW k \in Keys, NEW o \in Owners, NEW t \in 0 .. clock,
         OwnerCall(k, o, t)
  PROVE  KeepsIdentity /\ outbox' = outbox
<1>1. items \in [Keys -> WorkItem] /\ \A q \in Keys : items[q] \in WorkItem
  BY DEF TypeOK
<1>2. CASE Claim(k, o, t)
  BY <1>1, <1>2 DEF Claim, Claimable, Created, KeepsIdentity, WorkItem
<1>3. CASE Renew(k, o, t)
  BY <1>1, <1>3 DEF Renew, Owned, Created, KeepsIdentity, WorkItem
<1>4. ASSUME NEW s \in Stages, NEW ref \in Refs \cup {NoRef}, Checkpoint(k, o, s, ref, t)
      PROVE  KeepsIdentity /\ outbox' = outbox
  BY <1>1, <1>4 DEF Checkpoint, Released, Owned, Created, KeepsIdentity, WorkItem
<1>5. ASSUME NEW st \in Outcomes, NEW ref \in Refs \cup {NoRef},
             Terminalize(k, o, st, ref, t)
      PROVE  KeepsIdentity /\ outbox' = outbox
  BY <1>1, <1>5 DEF Terminalize, Released, Owned, Created, KeepsIdentity, WorkItem
<1>6. QED
  BY <1>2, <1>3, <1>4, <1>5 DEF OwnerCall

\* create_with_outbox writes item and event in one transaction and refuses a
\* taken key, identifier or event; publication changes only the event's status.
THEOREM OutboxFollowsWork == Spec => []OutboxMatchesWork
<1>1. Init => OutboxMatchesWork
  BY DEF Init, OutboxMatchesWork, Created, AbsentItem
<1>2. TypeOK /\ OutboxMatchesWork /\ [Next]_vars => OutboxMatchesWork'
  <2> SUFFICES ASSUME TypeOK, OutboxMatchesWork, [Next]_vars PROVE OutboxMatchesWork'
    OBVIOUS
  <2>1. ASSUME NEW k \in Keys, NEW i \in ItemIds, NEW p \in Payloads,
               NEW e \in Events, CreateWithOutbox(k, i, p, e)
        PROVE  OutboxMatchesWork'
    <3> DEFINE new == [event |-> e, key |-> k, itemId |-> i, payload |-> p,
                       status |-> "pending"]
    <3>1. /\ outbox' = outbox \cup {new}
          /\ ~ Created(k)
          /\ \A q \in Keys : items[q].itemId # i
          /\ \A r \in outbox : r.event # e
      BY <2>1 DEF CreateWithOutbox
    <3>2. /\ \A q \in Keys : q # k => items'[q] = items[q]
          /\ items'[k].itemId = i /\ items'[k].payload = p
          /\ items'[k].state = "pending"
      BY <2>1 DEF CreateWithOutbox, TypeOK, AbsentItem
    <3>3. \A r \in outbox : r.key \in Keys /\ r.key # k /\ r.itemId # i /\ r.event # e
      BY <3>1 DEF OutboxMatchesWork, TypeOK, OutboxRecord
    <3>4. new.event = e /\ new.key = k /\ new.itemId = i /\ new.payload = p
      OBVIOUS
    <3> HIDE DEF new
    <3>5. \A r \in outbox' : /\ Created(r.key)'
                            /\ items'[r.key].itemId = r.itemId
                            /\ items'[r.key].payload = r.payload
      BY <3>1, <3>2, <3>3, <3>4 DEF OutboxMatchesWork, Created
    <3>6. \A r1, r2 \in outbox' :
            r1.event = r2.event \/ r1.key = r2.key \/ r1.itemId = r2.itemId => r1 = r2
      BY <3>1, <3>3, <3>4 DEF OutboxMatchesWork
    <3>7. \A q \in Keys : Created(q)' => \E r \in outbox' : r.key = q
      BY <3>1, <3>2, <3>4 DEF OutboxMatchesWork, Created
    <3>8. QED
      BY <3>5, <3>6, <3>7 DEF OutboxMatchesWork
  <2>2. ASSUME NEW e \in Events, MarkPublished(e)
        PROVE  OutboxMatchesWork'
    <3>1. PICK r \in outbox : outbox' = (outbox \ {r}) \cup {[r EXCEPT !.status = "published"]}
      BY <2>2 DEF MarkPublished
    <3> DEFINE done == [r EXCEPT !.status = "published"]
    <3>2. /\ done.event = r.event /\ done.key = r.key
          /\ done.itemId = r.itemId /\ done.payload = r.payload
      BY DEF TypeOK, OutboxRecord
    <3>3. items' = items /\ outbox' = (outbox \ {r}) \cup {done}
      BY <2>2, <3>1 DEF MarkPublished
    <3> HIDE DEF done
    <3>4. QED
      BY <3>2, <3>3 DEF OutboxMatchesWork, Created
  <2>3. ASSUME NEW k \in Keys, NEW o \in Owners, NEW t \in 0 .. clock, OwnerCall(k, o, t)
        PROVE  OutboxMatchesWork'
    <3>1. KeepsIdentity /\ outbox' = outbox
      BY <2>3, OwnerKeepsIdentity
    <3>2. \A r \in outbox : r.key \in Keys
      BY DEF TypeOK, OutboxRecord
    <3>3. QED
      BY <3>1, <3>2 DEF KeepsIdentity, OutboxMatchesWork
  <2>4. CASE Tick \/ UNCHANGED vars
    BY <2>4 DEF Tick, vars, OutboxMatchesWork, Created
  <2>5. QED
    BY <2>1, <2>2, <2>3, <2>4 DEF Next, Submission, Publication
<1>3. QED
  BY <1>1, <1>2, TypeCorrect, PTL DEF Spec

--------------------------------------------------------------------------------
(* Action properties *)

\* Only a claim starts a new attempt, and it refuses a lease unexpired at the
\* caller's time, which is never ahead of the clock.
THEOREM LeasesNotStolen == Spec => LeaseNotStolen
<1> DEFINE Step == \A k \in Keys :
                     /\ items[k].state = "in_progress"
                     /\ items'[k].attempt # items[k].attempt
                     => items[k].expires <= clock
<1>1. TypeOK /\ [Next]_vars => Step
  <2> SUFFICES ASSUME TypeOK, [Next]_vars, NEW q \in Keys,
                      items[q].state = "in_progress",
                      items'[q].attempt # items[q].attempt
               PROVE  items[q].expires <= clock
    OBVIOUS
  <2>1. QED
    BY KeyStep DEF Untouched, Submitted, Claimed, Renewed, Checkpointed, Terminalized,
                   GaveLeaseBack
<1>2. QED
  BY <1>1, TypeCorrect, PTL DEF Spec, LeaseNotStolen

\* Every call on completed work is refused: none of the five ways to change a
\* key starts from it.
THEOREM CompletedStaysFinal == Spec => CompletedIsFinal
<1> DEFINE Step == \A k \in Keys :
                     items[k].state = "completed" =>
                       /\ items'[k] = items[k]
                       /\ checkpoints'[k] = checkpoints[k]
                       /\ terminal'[k] = terminal[k]
<1>1. TypeOK /\ [Next]_vars => Step
  <2> SUFFICES ASSUME TypeOK, [Next]_vars, NEW q \in Keys,
                      items[q].state = "completed"
               PROVE  Untouched(q)
    BY DEF Untouched
  <2>1. QED
    BY KeyStep DEF Submitted, Claimed, Renewed, Checkpointed, Terminalized,
                   GaveLeaseBack
<1>2. QED
  BY <1>1, TypeCorrect, PTL DEF Spec, CompletedIsFinal

--------------------------------------------------------------------------------
(* The store implements the lifecycle *)

\* Checkpoints advance an open item, terminal records finish one, and every
\* other call is a stutter of WorkLifecycle.
THEOREM ImplementsLifecycle == Spec => LifecycleSpec
<1> DEFINE pr == [k \in Keys |-> LatestStage(k)]
           oc == [k \in Keys |-> terminal[k].state]
<1>1. Init => Lifecycle!Init
  BY DEF Init, Lifecycle!Init, LatestStage, NoTerminal
<1>2. TypeOK /\ CompletedExactlyOneWay /\ [Next]_vars => [Lifecycle!Next]_(Lifecycle!vars)
  <2> SUFFICES ASSUME TypeOK, CompletedExactlyOneWay, [Next]_vars
               PROVE  [Lifecycle!Next]_(Lifecycle!vars)
    OBVIOUS
  <2>1. CASE \A k \in Keys : LatestStage(k)' = LatestStage(k)
                             /\ terminal'[k].state = terminal[k].state
    BY <2>1 DEF Lifecycle!vars
  <2>2. ASSUME NEW k \in Keys, NEW o \in Owners, NEW t \in 0 .. clock,
               NEW s \in Stages, NEW ref \in Refs \cup {NoRef},
               Checkpoint(k, o, s, ref, t)
        PROVE  Lifecycle!Advance(k)
    <3>1. items[k].state = "in_progress" /\ s > LatestStage(k) /\ terminal' = terminal
      BY <2>2 DEF Checkpoint, Owned
    <3>2. terminal[k].state = "none" /\ LatestStage(k) # Completed
      BY <3>1 DEF CompletedExactlyOneWay
    <3>3. LatestStage(k)' = s
      BY <2>2, StoreCheckpointIsLatest
    <3>4. \A q \in Keys : q # k => LatestStage(q)' = LatestStage(q)
      BY <2>2 DEF Checkpoint, LatestStage, TypeOK
    <3>5. pr' = [pr EXCEPT ![k] = s]
      BY <3>3, <3>4
    <3>6. s \in 1 .. Completed
      BY DEF Stages, Accepted
    <3>7. QED
      BY <3>1, <3>2, <3>5, <3>6 DEF Lifecycle!Advance, Lifecycle!Open
  <2>3. ASSUME NEW k \in Keys, NEW o \in Owners, NEW t \in 0 .. clock,
               NEW st \in Outcomes, NEW ref \in Refs \cup {NoRef},
               Terminalize(k, o, st, ref, t)
        PROVE  Lifecycle!Finish(k)
    <3>1. /\ items[k].state = "in_progress" /\ terminal[k].state = "none"
          /\ checkpoints' = checkpoints
      BY <2>3 DEF Terminalize, Owned
    <3>2. LatestStage(k) # Completed
      BY <3>1 DEF CompletedExactlyOneWay
    <3>3. pr' = pr
      BY <3>1 DEF LatestStage
    <3>4. oc' = [oc EXCEPT ![k] = st]
      BY <2>3 DEF Terminalize, TypeOK
    <3>5. QED
      BY <3>1, <3>2, <3>3, <3>4 DEF Lifecycle!Finish, Lifecycle!Open
  <2>4. CASE UNCHANGED <<checkpoints, terminal>>
    BY <2>4, <2>1 DEF LatestStage
  <2>5. CASE Submission \/ Publication \/ Tick \/ UNCHANGED vars
    BY <2>4, <2>5 DEF Submission, Publication, CreateWithOutbox, MarkPublished, Tick, vars
  <2>6. ASSUME NEW k \in Keys, NEW o \in Owners, NEW t \in 0 .. clock,
               Claim(k, o, t) \/ Renew(k, o, t)
        PROVE  UNCHANGED <<checkpoints, terminal>>
    BY <2>6 DEF Claim, Renew
  <2>7. ASSUME NEW k \in Keys, NEW o \in Owners, NEW t \in 0 .. clock, OwnerCall(k, o, t)
        PROVE  Lifecycle!Advance(k) \/ Lifecycle!Finish(k) \/ UNCHANGED <<checkpoints, terminal>>
    BY <2>2, <2>3, <2>6, <2>7 DEF OwnerCall
  <2>8. QED
    BY <2>4, <2>5, <2>7 DEF Next, Lifecycle!Next
<1>3. QED
  BY <1>1, <1>2, TypeCorrect, CompletionExclusive, PTL
     DEF Spec, LifecycleSpec, Lifecycle!Spec
================================================================================

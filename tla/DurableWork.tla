------------------------------ MODULE DurableWork ------------------------------
(***************************************************************************)
(* bulk/memory.py, InMemoryDurableWorkRepository: work items, their leases,*)
(* checkpoint histories, terminal records and outbox.  One lock makes each *)
(* method a transaction, so each method is one action.  The callers are    *)
(* arbitrary: any owner may call any method on any item at any moment, and *)
(* the time it passes may be any reading of the clock it took earlier      *)
(* (callers read the clock before they enter the lock).  A call that       *)
(* returns without effect or raises leaves the store as it was and is not  *)
(* an action of its own.                                                   *)
(*                                                                         *)
(* Abstracted: the job identifier (one job), configuration, failure texts, *)
(* and the revision counter, which no code reads back.                     *)
(***************************************************************************)
EXTENDS Integers, Sequences

CONSTANTS
  Keys,         \* idempotency keys
  ItemIds,      \* work item identifiers
  Payloads,     \* immutable payload references
  Events,       \* outbox event identifiers
  Owners,       \* lease owner names
  Refs,         \* result references
  Outcomes,     \* terminal states the callers use
  NoOwner, NoRef, NoId, NoPayload,
  Lease,        \* lease duration
  MaxClock,     \* bound: last clock value
  MaxAttempts   \* bound: claims per item

TerminalStates == {"succeeded", "validation-failed", "policy-rejected",
                   "budget-exhausted", "retry-exhausted", "write-back-failed",
                   "cancelled"}

ASSUME WorkAssumption ==
  /\ NoOwner \notin Owners
  /\ NoRef \notin Refs
  /\ NoId \notin ItemIds
  /\ NoPayload \notin Payloads
  /\ Outcomes \subseteq TerminalStates
  /\ Lease \in Nat \ {0}
  /\ MaxClock \in Nat
  /\ MaxAttempts \in Nat

VARIABLES
  items,        \* _items: one record per key, state "absent" before submission
  checkpoints,  \* _checkpoints: history of completed stages per key
  terminal,     \* _terminal: terminal record per key, state "none" before it
  outbox,       \* _outbox: events written together with the items
  clock         \* the wall clock behind every `now` argument

vars == <<items, checkpoints, terminal, outbox, clock>>

--------------------------------------------------------------------------------
(* Data *)

\* CheckpointStage.order, counted from 1 so that 0 is "no checkpoint".
Accepted       == 1
ModelCompleted == 2
ResultStored   == 3
Validated      == 4
Completed      == 5
Stages == Accepted .. Completed

WorkStates == {"absent", "pending", "in_progress", "checkpointed", "completed"}

WorkItem == [itemId: ItemIds \cup {NoId}, payload: Payloads \cup {NoPayload},
             state: WorkStates, attempt: Nat, owner: Owners \cup {NoOwner},
             expires: Nat, result: Refs \cup {NoRef}]

CheckpointRecord == [stage: Stages, attempt: Nat, ref: Refs \cup {NoRef}]

TerminalRecord == [state: Outcomes \cup {"none"}, attempt: Nat,
                   ref: Refs \cup {NoRef}]

OutboxRecord == [event: Events, key: Keys, itemId: ItemIds, payload: Payloads,
                 status: {"pending", "published"}]

AbsentItem == [itemId |-> NoId, payload |-> NoPayload, state |-> "absent",
               attempt |-> 0, owner |-> NoOwner, expires |-> 0, result |-> NoRef]

NoTerminal == [state |-> "none", attempt |-> 0, ref |-> NoRef]

Created(k) == items[k].state # "absent"

\* _latest: the order of the latest completed stage.
LatestStage(k) ==
  IF checkpoints[k] = <<>> THEN 0
  ELSE checkpoints[k][Len(checkpoints[k])].stage

\* resume_state: the stage after the latest one; past Completed means None.
NextStage(k) == LatestStage(k) + 1

\* Mutant of Owned: the owner's name is not compared.
OwnedByAnyone(k, o, t) ==
  /\ items[k].state = "in_progress"
  /\ items[k].expires > t

\* _require_owned: an unexpired lease owned by the caller, at the caller's time.
Owned(k, o, t) ==
  /\ items[k].state = "in_progress"
  /\ items[k].owner = o
  /\ items[k].expires > t

\* Mutant of Claimable: no lease check.
ClaimableUnderLease(k, t) == Created(k) /\ items[k].state # "completed"

\* claim refuses completed work and work under a lease unexpired at time t.
Claimable(k, t) ==
  /\ Created(k)
  /\ items[k].state # "completed"
  /\ ~ (items[k].state = "in_progress" /\ items[k].expires > t)

--------------------------------------------------------------------------------
(* Transactions *)

Init ==
  /\ items = [k \in Keys |-> AbsentItem]
  /\ checkpoints = [k \in Keys |-> <<>>]
  /\ terminal = [k \in Keys |-> NoTerminal]
  /\ outbox = {}
  /\ clock = 0

\* Mutant of CreateWithOutbox: the identifier index is not consulted.
CreateWithSharedId(k, i, p, e) ==
  /\ ~ Created(k)
  /\ \A r \in outbox : r.event # e
  /\ items' = [items EXCEPT ![k] =
       [AbsentItem EXCEPT !.itemId = i, !.payload = p, !.state = "pending"]]
  /\ outbox' = outbox \cup {[event |-> e, key |-> k, itemId |-> i,
                             payload |-> p, status |-> "pending"]}
  /\ UNCHANGED <<checkpoints, terminal, clock>>

\* create_with_outbox: the item and its event appear together, or nothing does.
CreateWithOutbox(k, i, p, e) ==
  /\ ~ Created(k)
  /\ \A k2 \in Keys : items[k2].itemId # i
  /\ \A r \in outbox : r.event # e
  /\ items' = [items EXCEPT ![k] =
       [AbsentItem EXCEPT !.itemId = i, !.payload = p, !.state = "pending"]]
  /\ outbox' = outbox \cup {[event |-> e, key |-> k, itemId |-> i,
                             payload |-> p, status |-> "pending"]}
  /\ UNCHANGED <<checkpoints, terminal, clock>>

\* mark_published, idempotent.
MarkPublished(e) ==
  /\ \E r \in outbox :
       /\ r.event = e
       /\ r.status = "pending"
       /\ outbox' = (outbox \ {r}) \cup {[r EXCEPT !.status = "published"]}
  /\ UNCHANGED <<items, checkpoints, terminal, clock>>

\* Mutant of Claim: the lease expires before it starts.
ClaimBackwards(k, o, t) ==
  /\ Claimable(k, t)
  /\ items[k].attempt < MaxAttempts
  /\ items' = [items EXCEPT ![k] =
       [items[k] EXCEPT !.state = "in_progress", !.attempt = items[k].attempt + 1,
                        !.owner = o, !.expires = t - Lease]]
  /\ UNCHANGED <<checkpoints, terminal, outbox, clock>>

\* claim: a new attempt under a lease that starts at the caller's time.
Claim(k, o, t) ==
  /\ Claimable(k, t)
  /\ items[k].attempt < MaxAttempts
  /\ items' = [items EXCEPT ![k] =
       [items[k] EXCEPT !.state = "in_progress", !.attempt = items[k].attempt + 1,
                        !.owner = o, !.expires = t + Lease]]
  /\ UNCHANGED <<checkpoints, terminal, outbox, clock>>

\* renew: only an owner whose lease is unexpired extends it.
Renew(k, o, t) ==
  /\ Owned(k, o, t)
  /\ items' = [items EXCEPT ![k] = [items[k] EXCEPT !.expires = t + Lease]]
  /\ UNCHANGED <<checkpoints, terminal, outbox, clock>>

\* Mutant of Released: the owner's name is left on the item.
ReleasedByNobody(k, st, ref) ==
  [items[k] EXCEPT !.state = st, !.expires = 0,
                   !.result = IF ref = NoRef THEN items[k].result ELSE ref]

\* Mutant of Released: a call without artifact clears the reference.
ReleasedWithoutArtifact(k, st, ref) ==
  [items[k] EXCEPT !.state = st, !.owner = NoOwner, !.expires = 0, !.result = ref]

\* The item as checkpoint and terminalize leave it: lease cleared, and the
\* result reference replaced only by a call that brings one.
Released(k, st, ref) ==
  [items[k] EXCEPT !.state = st, !.owner = NoOwner, !.expires = 0,
                   !.result = IF ref = NoRef THEN items[k].result ELSE ref]

\* Mutant of Checkpoint: the lease is kept for the next stage.
CheckpointKeepingLease(k, o, s, ref, t) ==
  /\ Owned(k, o, t)
  /\ s > LatestStage(k)
  /\ checkpoints' = [checkpoints EXCEPT ![k] =
       Append(checkpoints[k], [stage |-> s, attempt |-> items[k].attempt, ref |-> ref])]
  /\ items' = IF s = Completed
              THEN [items EXCEPT ![k] = Released(k, "completed", ref)] ELSE items
  /\ UNCHANGED <<terminal, outbox, clock>>

\* Mutant of Checkpoint: any other stage is accepted, earlier ones included.
CheckpointBackwards(k, o, s, ref, t) ==
  /\ Owned(k, o, t)
  /\ s # LatestStage(k)
  /\ checkpoints' = [checkpoints EXCEPT ![k] =
       Append(checkpoints[k], [stage |-> s, attempt |-> items[k].attempt, ref |-> ref])]
  /\ items' = [items EXCEPT ![k] =
       Released(k, IF s = Completed THEN "completed" ELSE "checkpointed", ref)]
  /\ UNCHANGED <<terminal, outbox, clock>>

\* checkpoint: the owner completes a later stage and gives the lease back.  The
\* same stage again returns the old record (lease kept), an earlier one raises.
Checkpoint(k, o, s, ref, t) ==
  /\ Owned(k, o, t)
  /\ s > LatestStage(k)
  /\ checkpoints' = [checkpoints EXCEPT ![k] =
       Append(checkpoints[k], [stage |-> s, attempt |-> items[k].attempt, ref |-> ref])]
  /\ items' = [items EXCEPT ![k] =
       Released(k, IF s = Completed THEN "completed" ELSE "checkpointed", ref)]
  /\ UNCHANGED <<terminal, outbox, clock>>

\* Mutant of Terminalize: ownership is not required.
TerminalizeByAnyone(k, o, st, ref, t) ==
  /\ terminal[k].state = "none"
  /\ Created(k)
  /\ terminal' = [terminal EXCEPT ![k] =
       [state |-> st, attempt |-> items[k].attempt,
        ref |-> IF ref = NoRef THEN items[k].result ELSE ref]]
  /\ items' = [items EXCEPT ![k] = Released(k, "completed", ref)]
  /\ UNCHANGED <<checkpoints, outbox, clock>>

\* terminalize: the first terminal record of the item, and the item completes
\* without a checkpoint.  With a record already there nothing changes.
Terminalize(k, o, st, ref, t) ==
  /\ terminal[k].state = "none"
  /\ Owned(k, o, t)
  /\ terminal' = [terminal EXCEPT ![k] =
       [state |-> st, attempt |-> items[k].attempt,
        ref |-> IF ref = NoRef THEN items[k].result ELSE ref]]
  /\ items' = [items EXCEPT ![k] = Released(k, "completed", ref)]
  /\ UNCHANGED <<checkpoints, outbox, clock>>

Tick ==
  /\ clock < MaxClock
  /\ clock' = clock + 1
  /\ UNCHANGED <<items, checkpoints, terminal, outbox>>

Submission == \E k \in Keys, i \in ItemIds, p \in Payloads, e \in Events :
                CreateWithOutbox(k, i, p, e)

Publication == \E e \in Events : MarkPublished(e)

OwnerCall(k, o, t) ==
  \/ Claim(k, o, t)
  \/ Renew(k, o, t)
  \/ \E s \in Stages, ref \in Refs \cup {NoRef} : Checkpoint(k, o, s, ref, t)
  \/ \E st \in Outcomes, ref \in Refs \cup {NoRef} : Terminalize(k, o, st, ref, t)

Next ==
  \/ Submission
  \/ Publication
  \/ \E k \in Keys, o \in Owners, t \in 0 .. clock : OwnerCall(k, o, t)
  \/ Tick

Spec == Init /\ [][Next]_vars

--------------------------------------------------------------------------------
(* Properties *)

\* Every record of the store has its type.
TypeOK ==
  /\ items \in [Keys -> WorkItem]
  /\ checkpoints \in [Keys -> Seq(CheckpointRecord)]
  /\ terminal \in [Keys -> TerminalRecord]
  /\ outbox \subseteq OutboxRecord
  /\ clock \in Nat

\* WorkItemRecord.__post_init__ (models.py 119-125): a lease is held exactly
\* while the item is in progress; and it was granted at a time of the clock.
LeaseWellFormed ==
  \A k \in Keys :
    /\ items[k].state = "in_progress" <=> items[k].owner # NoOwner
    /\ items[k].expires <= clock + Lease

\* Each claim yields at most one checkpoint: along a history both the stage and
\* the attempt that completed it strictly increase, no recorded attempt is ahead
\* of the item, and the attempt in progress has not recorded anything yet.  A
\* stage completed twice, or a late checkpoint of an attempt whose lease went to
\* another claim, would break it.
OneCheckpointPerAttempt ==
  \A k \in Keys :
    /\ \A i, j \in 1 .. Len(checkpoints[k]) : i < j =>
         /\ checkpoints[k][i].stage < checkpoints[k][j].stage
         /\ checkpoints[k][i].attempt < checkpoints[k][j].attempt
    /\ \A i \in 1 .. Len(checkpoints[k]) :
         /\ checkpoints[k][i].attempt <= items[k].attempt
         /\ items[k].state = "in_progress" =>
              checkpoints[k][i].attempt < items[k].attempt

\* An item is completed by exactly one of the two ways: a Completed checkpoint
\* or a terminal record.  The terminal record carries the attempt of the item,
\* later than every checkpoint.
CompletedExactlyOneWay ==
  \A k \in Keys :
    /\ items[k].state = "completed" <=>
         (terminal[k].state # "none" \/ LatestStage(k) = Completed)
    /\ terminal[k].state # "none" =>
         /\ LatestStage(k) # Completed
         /\ terminal[k].attempt = items[k].attempt
         /\ \A i \in 1 .. Len(checkpoints[k]) :
              checkpoints[k][i].attempt < terminal[k].attempt

\* The item's result_reference, which the next stage loads as its input, is the
\* artifact of the latest checkpoint or terminal record that brought one, and
\* nothing else: no claim, renewal or artifact-free checkpoint loses it.
ResultIsLatestArtifact ==
  \A k \in Keys :
    LET h == checkpoints[k]
        Carries(n) == n \in 1 .. Len(h) /\ h[n].ref # NoRef
    IN IF terminal[k].state # "none" THEN items[k].result = terminal[k].ref
       ELSE \/ /\ items[k].result = NoRef
               /\ \A n \in 1 .. Len(h) : ~ Carries(n)
            \/ \E n \in 1 .. Len(h) :
                 /\ Carries(n)
                 /\ items[k].result = h[n].ref
                 /\ \A m \in n + 1 .. Len(h) : ~ Carries(m)

\* Items and outbox events correspond one to one: every submitted item has
\* exactly one event, with its own identifier and payload, and no identifier is
\* shared by two items (the terminal report partitions a job by identifier).
OutboxMatchesWork ==
  /\ \A r \in outbox :
       /\ Created(r.key)
       /\ items[r.key].itemId = r.itemId
       /\ items[r.key].payload = r.payload
  /\ \A r1, r2 \in outbox :
       r1.event = r2.event \/ r1.key = r2.key \/ r1.itemId = r2.itemId => r1 = r2
  /\ \A k \in Keys : Created(k) => \E r \in outbox : r.key = k

\* A lease is never taken from its holder: when an in-progress item goes to a
\* new attempt, the old lease had expired by the clock, however stale the time
\* the claimant passed.
LeaseNotStolen ==
  [][\A k \in Keys :
       /\ items[k].state = "in_progress"
       /\ items'[k].attempt # items[k].attempt
       => items[k].expires <= clock]_vars

\* Completed work is final: its record, its history and its terminal record
\* never change again, whichever owner calls whatever with whatever time.
CompletedIsFinal ==
  [][\A k \in Keys :
       items[k].state = "completed" =>
         /\ items'[k] = items[k]
         /\ checkpoints'[k] = checkpoints[k]
         /\ terminal'[k] = terminal[k]]_vars

\* The store implements the lifecycle: monotone stages, one exclusive ending.
Lifecycle == INSTANCE WorkLifecycle WITH
  progress  <- [k \in Keys |-> LatestStage(k)],
  outcome   <- [k \in Keys |-> terminal[k].state],
  NoOutcome <- "none",
  LastStage <- Completed

LifecycleSpec == Lifecycle!Spec
================================================================================

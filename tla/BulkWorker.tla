------------------------------ MODULE BulkWorker -------------------------------
(***************************************************************************)
(* Workers over the durable store: the claim loop of BulkWorker.resume     *)
(* (bulk/worker.py), the stages of _BulkPipeline (composition/prototype.py)*)
(* the write-back executor (write_back/executor.py), effect recovery       *)
(* (bulk/effects.py) and terminal execution with its dead-letter queue     *)
(* (bulk/execution.py).                                                    *)
(*                                                                         *)
(* Every access to the store, the effect records, the target or the clock  *)
(* is an action, and workers interleave between them.  A worker may crash  *)
(* anywhere; what is durable stays.                                        *)
(*                                                                         *)
(* Abstracted: payloads, validation and model calls (any of them may       *)
(* succeed or fail), failure texts, audit events and telemetry.  The       *)
(* checkpointed output fixes the one mutation of a key, so a record of the *)
(* key is a record of that mutation.                                       *)
(***************************************************************************)
EXTENDS Integers, Sequences

CONSTANTS
  Workers, Owners,
  Keys, Refs, Outcomes, NoOwner, NoRef,
  Lease, MaxClock, MaxAttempts,
  Settings         \* the situations considered, see Setting

VARIABLES
  setting,         \* the situation of this behaviour, fixed at its start
  items, checkpoints, terminal, outbox, clock,   \* the store, see DurableWork
  worker,          \* what each worker is doing
  effects,         \* _effects: commit time of the effect record of each key
  reconciliations, \* _reconciliations: keys awaiting reconciliation
  deadLetters,     \* entries of the dead-letter queue
  dlqFailures,     \* _persistence_failures of the dead-letter queue
  target,          \* external: commit times of each key's mutation at the target
  approved,        \* WriteBackAuthorizationSource: the approval is in force
  crashes

Store == INSTANCE DurableWork WITH
  ItemIds <- Keys, Payloads <- Keys, Events <- Keys,
  NoId <- NoRef, NoPayload <- NoRef

\* What is configured, what the environment does, and what is assumed of it.
Setting ==
  [keys: SUBSET Keys,            \* the job's items
   workers: SUBSET Workers,      \* the workers that run
   name: [Workers -> Owners],    \* the owner name each worker passes
   writeBack: {"enabled", "disabled", "unavailable"},  \* write_back.enabled
   boundary: {"shared", "non_shared"},  \* TransactionBoundary of the command
   uniqueKey: BOOLEAN,           \* the target refuses a second mutation of a key
   fitsLease: BOOLEAN,           \* a stage ends before the lease of its claim
   horizon: Nat,                 \* bound: the clock
   revocable: BOOLEAN,           \* the approval may be revoked
   rejectable: BOOLEAN,          \* what was validated may be rejected when it is
                                 \* validated again, before the write-back
   start: SUBSET (0 .. Store!Validated),  \* stages completed at the start
   crashes: Nat]                 \* bound: worker crashes

ASSUME WorkerAssumption ==
  /\ Settings \subseteq Setting
  /\ Lease \in Nat \ {0}

storeVars   == <<items, checkpoints, terminal, outbox, clock>>
effectVars  == <<effects, reconciliations, target>>
failureVars == <<deadLetters, dlqFailures>>
worldVars   == <<setting, approved, crashes>>
vars == <<storeVars, worker, effectVars, failureVars, worldVars>>

--------------------------------------------------------------------------------
(* Workers *)

\* pc: outside resume, between two store calls of the loop, inside a stage, inside
\* write-back, or inside execute_claim.
IdleWorker == [pc |-> "idle", key |-> NoRef, attempt |-> 0, now |-> 0,
               stage |-> 0, end |-> "none", record |-> 0]

At(w, p) == worker[w].pc = p

Goto(w, p) == worker' = [worker EXCEPT ![w].pc = p]

Stop(w) == worker' = [worker EXCEPT ![w] = IdleWorker]

\* Call execute_claim with a terminal outcome.
EndWith(w, st) == worker' = [worker EXCEPT ![w].pc = "capture", ![w].end = st]

\* The write-back holds evidence of a commit at time t.
Committed(w, t) == worker' = [worker EXCEPT ![w].pc = "save", ![w].record = t]

\* The worker's claim: its key, and the owner name the item carries for it.
KeyOf(w) == worker[w].key

Name(w) == setting.name[w]

Holds(w, t) == Store!Owned(KeyOf(w), Name(w), t)

\* The worker is between its claim and its last store call for it.
Processing(w) == worker[w].pc \notin {"idle", "claim", "deadletter"}

--------------------------------------------------------------------------------
(* The claim loop *)

\* The job is submitted and its events published; each item may stand at a
\* checkpoint of earlier attempts, one for each stage.
Init ==
  /\ setting \in Settings
  /\ \E start \in [setting.keys -> setting.start] :
       /\ items = [k \in Keys |->
            IF k \in setting.keys
            THEN [itemId |-> k, payload |-> k,
                  state |-> IF start[k] = 0 THEN "pending" ELSE "checkpointed",
                  attempt |-> start[k], owner |-> NoOwner, expires |-> 0,
                  result |-> NoRef]
            ELSE Store!AbsentItem]
       /\ checkpoints = [k \in Keys |->
            IF k \in setting.keys
            THEN [n \in 1 .. start[k] |-> [stage |-> n, attempt |-> n, ref |-> NoRef]]
            ELSE <<>>]
  /\ terminal = [k \in Keys |-> Store!NoTerminal]
  /\ outbox = {[event |-> k, key |-> k, itemId |-> k, payload |-> k,
                status |-> "published"] : k \in setting.keys}
  /\ clock = 0
  /\ worker = [w \in Workers |-> IdleWorker]
  /\ effects = [k \in Keys |-> -1]
  /\ target = [k \in Keys |-> <<>>]
  /\ reconciliations = {} /\ deadLetters = {} /\ dlqFailures = {}
  /\ approved = TRUE
  /\ crashes = 0

\* resume: the loop stops when no stage is left; the time is read before claim.
ReadProgress(w, k) ==
  /\ At(w, "idle") /\ w \in setting.workers
  /\ Store!Created(k)
  /\ Store!NextStage(k) <= Store!Completed
  /\ worker' = [worker EXCEPT ![w] =
       [IdleWorker EXCEPT !.pc = "claim", !.key = k, !.now = clock]]
  /\ UNCHANGED <<storeVars, effectVars, failureVars, worldVars>>

\* resume: a claim that is not acquired ends the call.
ClaimWork(w) ==
  /\ At(w, "claim")
  /\ IF Store!Claimable(KeyOf(w), worker[w].now)
     THEN /\ Store!Claim(KeyOf(w), Name(w), worker[w].now)
          /\ worker' = [worker EXCEPT ![w].pc = "process",
                          ![w].attempt = items[KeyOf(w)].attempt + 1]
     ELSE Stop(w) /\ UNCHANGED storeVars
  /\ UNCHANGED <<effectVars, failureVars, worldVars>>

\* process_stage reads the progress again, under the lease; with no stage left
\* it raises.
ReadStage(w) ==
  /\ At(w, "process")
  /\ LET s == Store!NextStage(KeyOf(w))
     IN IF s <= Store!Completed
        THEN worker' = [worker EXCEPT ![w].pc = "work", ![w].stage = s]
        ELSE EndWith(w, "retry-exhausted")
  /\ UNCHANGED <<storeVars, effectVars, failureVars, worldVars>>

\* The stage's own work succeeds: preparation, model calls, parsing, validation.
\* The last stage goes on to the write-back executor.
WorkSucceeds(w) ==
  /\ At(w, "work")
  /\ Goto(w, IF worker[w].stage < Store!Completed THEN "checkpoint" ELSE "authorize")
  /\ UNCHANGED <<storeVars, effectVars, failureVars, worldVars>>

\* The stage fails with a typed failure, or raises (retry-exhausted).
WorkFails(w) ==
  /\ At(w, "work")
  /\ \E st \in Outcomes \cap {"validation-failed", "policy-rejected",
                              "budget-exhausted", "retry-exhausted"} :
       EndWith(w, st)
  /\ UNCHANGED <<storeVars, effectVars, failureVars, worldVars>>

\* _checkpoint.  Where two workers share an owner name the stage may be recorded
\* already: the same artifact is taken for the first call's, another one raises.
RecordStage(w) ==
  /\ At(w, "checkpoint")
  /\ LET k == KeyOf(w)
         s == worker[w].stage
     IN \/ /\ \E ref \in Refs : Store!Checkpoint(k, Name(w), s, ref, clock)
           /\ Stop(w)
        \/ /\ Holds(w, clock) /\ s = Store!LatestStage(k)
           /\ Stop(w)
           /\ UNCHANGED storeVars
        \/ /\ ~ (Holds(w, clock) /\ s > Store!LatestStage(k))
           /\ EndWith(w, "retry-exhausted")
           /\ UNCHANGED storeVars
  /\ UNCHANGED <<effectVars, failureVars, worldVars>>

--------------------------------------------------------------------------------
(* Write-back and effect recovery *)

\* BatchWriteBackExecutor.execute: the output is validated by the rules the work is
\* bound to, write-back disabled leaves the persisted output as the success, and a
\* setting that cannot be read or a missing approval ends it; then comes recovery.
Authorize(w) ==
  /\ At(w, "authorize")
  /\ \/ setting.rejectable /\ EndWith(w, "write-back-failed")
     \/ setting.writeBack = "disabled" /\ EndWith(w, "succeeded")
     \/ setting.writeBack = "unavailable" /\ EndWith(w, "write-back-failed")
     \/ setting.writeBack = "enabled" /\ ~ approved /\ EndWith(w, "write-back-failed")
     \/ setting.writeBack = "enabled" /\ approved /\ Goto(w, "lookup")
  /\ UNCHANGED <<storeVars, effectVars, failureVars, worldVars>>

\* EffectRecoveryCoordinator.execute: a recorded effect is not repeated.
LookupEffect(w) ==
  /\ At(w, "lookup")
  /\ Goto(w, IF effects[KeyOf(w)] # -1 THEN "restore" ELSE "pending")
  /\ UNCHANGED <<storeVars, effectVars, failureVars, worldVars>>

\* A shared transaction is executed, any other effect is looked for first.
Submit(w) == Goto(w, IF setting.boundary = "shared" THEN "execute" ELSE "verify")

\* Mutant of LookupReconciliation: pending reconciliation is not consulted.
SubmitPending(w) ==
  /\ At(w, "pending")
  /\ Submit(w)
  /\ UNCHANGED <<storeVars, effectVars, failureVars, worldVars>>

\* It then reads the reconciliations: a key awaiting one is not tried again.
LookupReconciliation(w) ==
  /\ At(w, "pending")
  /\ IF KeyOf(w) \in reconciliations THEN EndWith(w, "write-back-failed") ELSE Submit(w)
  /\ UNCHANGED <<storeVars, effectVars, failureVars, worldVars>>

\* Mutant of VerifyEffect: an unknown answer is taken for absence.
VerifyHopefully(w) ==
  /\ At(w, "verify")
  /\ \/ target[KeyOf(w)] # <<>> /\ Committed(w, Head(target[KeyOf(w)]))
     \/ Goto(w, "execute")
  /\ UNCHANGED <<storeVars, effectVars, failureVars, worldVars>>

\* verify_effect asks the target before a mutation outside its transaction.  An
\* adapter that raises, here or below, is reported by the executor as
\* WRITE_BACK_FAILED.
VerifyEffect(w) ==
  /\ At(w, "verify")
  /\ \/ target[KeyOf(w)] # <<>> /\ Committed(w, Head(target[KeyOf(w)]))
     \/ target[KeyOf(w)] = <<>> /\ Goto(w, "execute")
     \/ Goto(w, "reconcile")
     \/ EndWith(w, "write-back-failed")
  /\ UNCHANGED <<storeVars, effectVars, failureVars, worldVars>>

\* The target after one more submission of the key's mutation.
Mutated(k) ==
  IF setting.uniqueKey /\ target[k] # <<>> THEN target
  ELSE [target EXCEPT ![k] = Append(target[k], clock)]

\* Mutant of ExecuteEffect: a rolled back submission counts as committed.
ExecuteUnchecked(w) ==
  LET k == KeyOf(w)
  IN /\ At(w, "execute")
     /\ \/ /\ target' \in {target, Mutated(k)}
           /\ Committed(w, clock)
        \/ /\ target' \in {target, Mutated(k)}
           /\ Goto(w, "reconcile")
     /\ UNCHANGED <<storeVars, effects, reconciliations, failureVars, worldVars>>

\* execute_shared or execute_non_shared.  COMMITTED comes with the mutation (of
\* a shared transaction, with the target's record); AMBIGUOUS may or may not; so may
\* an exception, before the commit or after it, while ROLLED_BACK leaves the target
\* alone.
ExecuteEffect(w) ==
  LET k == KeyOf(w)
  IN /\ At(w, "execute")
     /\ \/ /\ target' = Mutated(k)
           /\ Committed(w, IF setting.boundary = "shared"
                           THEN target'[k][Len(target'[k])] ELSE clock)
        \/ /\ target' \in {target, Mutated(k)}
           /\ Goto(w, "reconcile")
        \/ /\ target' \in {target, Mutated(k)}
           /\ EndWith(w, "write-back-failed")
     /\ UNCHANGED <<storeVars, effects, reconciliations, failureVars, worldVars>>

\* save_effect: one record per key; another one is a conflict, which the
\* executor reports as WRITE_BACK_FAILED.
SaveEffect(w) ==
  LET k == KeyOf(w)
  IN /\ At(w, "save")
     /\ IF effects[k] \in {-1, worker[w].record}
        THEN /\ effects' = [effects EXCEPT ![k] = worker[w].record]
             /\ Goto(w, "restore")
        ELSE /\ EndWith(w, "write-back-failed")
             /\ UNCHANGED effects
     /\ UNCHANGED <<storeVars, reconciliations, target, failureVars, worldVars>>

\* _restore_checkpoint reads the latest stage first.
ReadCompleted(w) ==
  /\ At(w, "restore")
  /\ IF Store!LatestStage(KeyOf(w)) = Store!Completed
     THEN Stop(w) ELSE Goto(w, "complete")
  /\ UNCHANGED <<storeVars, effectVars, failureVars, worldVars>>

\* _restore_checkpoint then completes the work, if the lease is still held.
RestoreCheckpoint(w) ==
  /\ At(w, "complete")
  /\ IF Holds(w, clock)
     THEN /\ Store!Checkpoint(KeyOf(w), Name(w), Store!Completed, NoRef, clock)
          /\ Stop(w)
     ELSE EndWith(w, "write-back-failed") /\ UNCHANGED storeVars
  /\ UNCHANGED <<effectVars, failureVars, worldVars>>

\* Mutant of SaveReconciliation: the unknown outcome is kept as an effect too.
ReconcileWithEffect(w) ==
  /\ At(w, "reconcile")
  /\ reconciliations' = reconciliations \cup {KeyOf(w)}
  /\ effects' = [effects EXCEPT ![KeyOf(w)] = clock]
  /\ EndWith(w, "write-back-failed")
  /\ UNCHANGED <<storeVars, target, failureVars, worldVars>>

\* Mutant of SaveReconciliation: the target is asked until the outcome is known.
ReconcileByAsking(w) ==
  /\ At(w, "reconcile")
  /\ reconciliations' = reconciliations \cup {KeyOf(w)}
  /\ Goto(w, "verify")
  /\ UNCHANGED <<storeVars, effects, target, failureVars, worldVars>>

\* _reconcile: whatever the reason recorded before, the write-back fails.
SaveReconciliation(w) ==
  /\ At(w, "reconcile")
  /\ reconciliations' = reconciliations \cup {KeyOf(w)}
  /\ EndWith(w, "write-back-failed")
  /\ UNCHANGED <<storeVars, effects, target, failureVars, worldVars>>

--------------------------------------------------------------------------------
(* Terminal execution *)

\* execute_claim reads the clock before the handler runs.
CaptureTime(w) ==
  /\ At(w, "capture")
  /\ worker' = [worker EXCEPT ![w].pc = "terminalize", ![w].now = clock]
  /\ UNCHANGED <<storeVars, effectVars, failureVars, worldVars>>

\* After a terminal record only exhausted work goes to the dead-letter queue.
Recorded(w) ==
  IF worker[w].end = "retry-exhausted" THEN Goto(w, "deadletter") ELSE Stop(w)

\* terminalize raises.  Within the stage (from _write_accepted, or validation of
\* legacy work) process_stage catches that and ends the work as exhausted; from
\* there, or from its other handlers, the error stops the worker.
EndingRefused(w) ==
  \/ /\ worker[w].end \in {"succeeded", "write-back-failed", "validation-failed"}
     /\ EndWith(w, "retry-exhausted")
  \/ /\ worker[w].end \notin {"succeeded", "write-back-failed"}
     /\ Stop(w)

\* execute_claim: the first terminal record, the same one again, or an error.
EndWork(w) ==
  LET k == KeyOf(w)
      e == worker[w].end
  IN /\ At(w, "terminalize")
     /\ \/ /\ \E ref \in (IF e = "succeeded" THEN Refs ELSE {NoRef}) :
                Store!Terminalize(k, Name(w), e, ref, worker[w].now)
           /\ Recorded(w)
        \/ /\ terminal[k].state = e
           /\ Recorded(w)
           /\ UNCHANGED storeVars
        \/ /\ terminal[k].state # "none" \/ ~ Holds(w, worker[w].now)
           /\ EndingRefused(w)
           /\ UNCHANGED storeVars
     /\ UNCHANGED <<effectVars, failureVars, worldVars>>

\* Mutant of PersistDeadLetter: a failing queue is not recorded.
DropDeadLetter(w) ==
  /\ At(w, "deadletter")
  /\ deadLetters' \in {deadLetters, deadLetters \cup {KeyOf(w)}}
  /\ UNCHANGED dlqFailures
  /\ Stop(w)
  /\ UNCHANGED <<storeVars, effectVars, worldVars>>

\* _persist_dead_letter: the queue takes the entry or its failure is recorded.
PersistDeadLetter(w) ==
  /\ At(w, "deadletter")
  /\ \/ deadLetters' = deadLetters \cup {KeyOf(w)} /\ UNCHANGED dlqFailures
     \/ dlqFailures' = dlqFailures \cup {KeyOf(w)} /\ UNCHANGED deadLetters
  /\ Stop(w)
  /\ UNCHANGED <<storeVars, effectVars, worldVars>>

--------------------------------------------------------------------------------
(* Environment *)

\* With fitsLease time does not pass the lease of a worker that uses it.
FitsLease(w) ==
  /\ At(w, "claim") => clock + 1 < worker[w].now + Lease
  /\ Processing(w) => clock + 1 < items[KeyOf(w)].expires

Tick ==
  /\ clock < setting.horizon
  /\ setting.fitsLease => \A w \in Workers : FitsLease(w)
  /\ Store!Tick
  /\ UNCHANGED <<worker, effectVars, failureVars, worldVars>>

\* The process dies between two calls; the next resume starts from the store.
Crash(w) ==
  /\ ~ At(w, "idle")
  /\ crashes < setting.crashes
  /\ crashes' = crashes + 1
  /\ Stop(w)
  /\ UNCHANGED <<setting, storeVars, effectVars, failureVars, approved>>

\* InMemoryWriteBackAuthorization.revoke.
Revoke ==
  /\ setting.revocable /\ approved
  /\ approved' = FALSE
  /\ UNCHANGED <<setting, storeVars, worker, effectVars, failureVars, crashes>>

WriteBackStep(w) ==
  \/ Authorize(w) \/ LookupEffect(w) \/ LookupReconciliation(w)
  \/ VerifyEffect(w) \/ ExecuteEffect(w) \/ SaveEffect(w)
  \/ ReadCompleted(w) \/ RestoreCheckpoint(w) \/ SaveReconciliation(w)

TerminalStep(w) == CaptureTime(w) \/ EndWork(w) \/ PersistDeadLetter(w)

\* A step of a call that is under way, or the start of one.
WorkerStep(w) ==
  \/ \E k \in Keys : ReadProgress(w, k)
  \/ ClaimWork(w) \/ ReadStage(w) \/ WorkSucceeds(w) \/ WorkFails(w)
  \/ RecordStage(w) \/ WriteBackStep(w) \/ TerminalStep(w)

Next ==
  \/ \E w \in Workers : WorkerStep(w) \/ Crash(w)
  \/ Tick
  \/ Revoke

Spec == Init /\ [][Next]_vars

\* A worker that is called runs, and is called for every item in turn (run_bulk
\* resumes each submitted item).
FairSpec ==
  /\ Spec
  /\ \A w \in Workers : WF_vars(WorkerStep(w))
  /\ \A w \in Workers, k \in Keys : SF_vars(ReadProgress(w, k))

--------------------------------------------------------------------------------
(* Properties *)

\* Where stages fit their lease, a worker that is processing holds the item for
\* the very attempt it claimed; two workers never process one item together,
\* whatever names they share and whichever of them crash (architecture.md 308,
\* "holds one bounded lease per logical key").
ExclusiveProcessing ==
  setting.fitsLease =>
    \A w \in Workers : Processing(w) =>
      /\ Holds(w, clock)
      /\ items[KeyOf(w)].attempt = worker[w].attempt
      /\ \A v \in Workers : Processing(v) /\ KeyOf(v) = KeyOf(w) => v = w

DistinctNames == \A v, w \in setting.workers : Name(v) = Name(w) => v = w

\* A worker records a stage or an ending only for the item and the attempt it
\* claimed, even when its lease expired and the item went to another worker
\* (names distinct; the store knows a claimant by its name only).
RecordedByClaimant ==
  [][DistinctNames =>
       \A w \in Workers : worker'[w] # worker[w] =>
         \A k \in Keys :
           checkpoints'[k] # checkpoints[k] \/ terminal'[k] # terminal[k] =>
             k = KeyOf(w) /\ items[k].attempt = worker[w].attempt]_vars

\* Work with a Completed checkpoint has a durable effect record, and an effect
\* record stands for a mutation the target really holds: no interleaving, crash or
\* expiry completes an item whose mutation was rolled back or unknown.
CompletedMeansCommitted ==
  \A k \in Keys :
    /\ Store!LatestStage(k) = Store!Completed => effects[k] # -1
    /\ effects[k] # -1 => target[k] # <<>>

\* Where stages fit their lease, a key whose effect is recorded or that awaits
\* reconciliation is never submitted to the target again (effects.py 24,
\* "ambiguous effects are never replayed"), also when the worker crashed right
\* after writing that record.
SettledNotReplayed ==
  [][setting.fitsLease =>
       \A k \in Keys :
         effects[k] # -1 \/ k \in reconciliations => target'[k] = target[k]]_vars

\* One logical mutation per idempotency key (architecture.md 242), also at a target
\* that would take a second one.  Without a crash both boundaries keep to it where
\* stages fit their lease; with crashes and unknown outcomes the one that asks the
\* target first does ("Before retry, the executor verifies the idempotency key",
\* architecture.md 240).
OneMutation ==
  setting.fitsLease /\ (setting.crashes = 0 \/ setting.boundary = "non_shared") =>
    \A k \in Keys : Len(target[k]) <= 1

\* Where stages fit their lease, "write-back-failed" is recorded for a mutation that
\* was rolled back, was refused or awaits reconciliation, never for one whose commit
\* is on record (architecture.md 240: a committed effect reconstructs its checkpoint).
\* Of a commit that left no record, because the adapter raised after it, it says
\* nothing.
FailedMeansNoEffect ==
  setting.fitsLease =>
    \A k \in Keys : terminal[k].state = "write-back-failed" => effects[k] = -1

\* Exhausted work of a worker that lives leaves evidence: a dead-letter entry or
\* the recorded failure to write one (architecture.md 232).
ExhaustedReachesQueue ==
  \A k \in Keys :
    terminal[k].state = "retry-exhausted" /\ setting.crashes = 0
      ~> k \in deadLetters \cup dlqFailures

\* Every item ends while workers keep resuming it: none waits for another, though
\* a lease that outlives the bounded clock with its crashed owner is waited for.
WorkEnds ==
  \A k \in Keys :
    Store!Created(k) /\ setting.crashes = 0 /\ setting.fitsLease
      ~> items[k].state = "completed"

--------------------------------------------------------------------------------
(* The job result of PrototypeApplication.run_bulk *)

\* A terminal report when every item has a terminal record, else "succeeded" when
\* every item has its Completed checkpoint, else "in-progress".
Classification ==
  CASE \A k \in setting.keys : terminal[k].state # "none" -> "reported"
    [] \A k \in setting.keys : Store!NextStage(k) > Store!Completed -> "succeeded"
    [] OTHER -> "in-progress"

\* A job whose items are all final is never reported as in progress: its
\* classification is deterministic and total (architecture.md 233-234).
FinishedJobIsClassified ==
  (\A k \in setting.keys : items[k].state = "completed") =>
    Classification # "in-progress"
================================================================================

# Verification of ai_retrieval

TLA+ specifications, TLC model-checking runs and TLAPS proofs for the bulk and
interactive execution paths of `ai_retrieval` (`src/src/ai_retrieval`, quoted below
relative to that directory). `PROJECT.json` lists, in machine-readable form, the
components, runs, mutants, the map from definitions to source lines, the hazards,
the findings and the theorems.

Contents: 1 the system, 2 what makes it hard, 3 the modules, 4 the runs, 5 the
findings, 6 the proofs, 7 what is not modelled, 8 the plan.

## 1. The system

A client submits either an *interactive* request (one deadline, an answer in any
case) or a *bulk* job (durable work items processed by workers that may crash).
Both read relational data, call models through a router with hierarchical capacity
limits, pay from hierarchical budgets and validate what models return. Bulk items
may write an accepted value back to a target, with approval. Everything runs under a
configuration profile that is validated, activated and bound at admission, and every
read and every model call is decided by a policy that fails closed.

| Component | State | Operations |
| --- | --- | --- |
| Durable work store (`bulk/memory.py`, `bulk/models.py`) | items with state, attempt, lease owner and expiry, result reference; checkpoint histories; terminal records; outbox; effect records | `create_with_outbox`, `claim`, `renew`, `checkpoint`, `terminalize`, `mark_published`, `save_effect`, `save_reconciliation` |
| Bulk worker and pipeline (`bulk/worker.py`, `composition/prototype.py`) | the claim in hand | `resume`: claim, one stage, repeat; `process_stage`; `run_bulk`'s job classification |
| Terminal execution (`bulk/execution.py`) | dead-letter queue | `execute_claim` |
| Write-back and effect recovery (`write_back/`, `bulk/effects.py`) | approvals, effect records, the target | `execute`: validate, read the setting, approve, look up, mutate, record, checkpoint or reconcile |
| Submission, relay, broker (`bulk/coordinator.py`, `bulk/memory.py`) | outbox, queue, deliveries in flight | `submit`, `relay_pending`, `receive`, `claim_delivery`, `acknowledge`, `redeliver_unacknowledged` |
| Budget controller (`control_plane/budget.py`) | reserved and actual amounts per scope, reservations, bindings | `bind`, `reserve`, `reconcile` |
| Model capacity and router (`model_routing/`) | active counts, rate windows, leases, queue, last tenant | `acquire_first`, `release`, `admit`, `enqueue`, `schedule_next`, `complete` |
| Interactive coordinator (`interactive/`) | one aggregator and a set of asyncio tasks per request | `execute`: read, run models, collect until the reserve, cancel, answer after terminal telemetry; `dispatch`: the same on a loop of its own |
| Task runtime, packing, validation (`tasks/`, `validation/`) | prepared packs, payloads in the object store | `resolve`, `prepare`, `parse`, `validate_packs` |
| Configuration and registries (`control_plane/configuration.py`, `tasks/registry.py`) | available versions, adapter and credential evidence, stored and active profiles, task definitions | `register`, `activate`, `bind`, `resolve` |
| Admission (`admission/router.py`, `control_plane/context.py`, the dispatchers of `composition/prototype.py`) | a call of `admit` in progress | `admit`: route, bind, create the context, dispatch |
| Relational access (`relational/`) | registered plans, reads in flight, audit of refusals | `execute_read`, `normalize` |
| Security gateway (`security/`) | registered policies | `invoke`: test the policy, authenticate, mask, call; before it, rows become a payload |
| Retry controller, write-back audit, object store, telemetry, command line, prototype adapters | see section 7 | |

How they interact. `submit` writes an item and its outbox event in one store
transaction; the relay publishes pending events to the broker; a consumer receives a
notification, claims the item and acknowledges. A worker claims an item by a lease,
reads the next stage from the store, does the stage's work *outside* the store's lock,
and records it by a checkpoint that the store accepts only from the owner of an
unexpired lease. A checkpoint gives the lease back, so every stage is one claim. The
last stage writes back: the output is validated again, the setting and the approval are
checked, effect records and reconciliations are looked up, the target is mutated and the
effect recorded, then the Completed checkpoint follows. Every failure ends in
`execute_claim`, which records a terminal outcome and, for exhausted retries, a dead
letter. On the interactive path all requests share one event loop, one capacity object
and one budget controller; what runs between two awaits is atomic. Registries are
process memory: a restart empties them while the durable store stays, and an item keeps
only the *reference* of the configuration it was accepted under.

What makes each component correct is what section 4 checks: no double claim and no
late recording (store), one effect and the right ending (worker), no lost
notification (delivery), balanced books (budget), slots equal to leases and no
exceeded window (capacity), a timely decision that accounts for everything and leaks
nothing (interactive), records that follow the rows (task items), one unambiguous
path under content that never changes (admission), and nothing read or disclosed
that the policy in force did not permit, by the names it uses (reads).

## 2. What makes it hard

* **Interleaving.** Workers read a stage, then claim, then work, then record:
  everything read before a step may be stale at the next one. Time, too, is read
  before the call that uses it (`bulk/execution.py` 92 reads it before the handler
  runs).
* **Crashes.** Between the mutation at the target, its effect record and its
  checkpoint; between a terminal record and its dead letter; between publishing an
  event and marking it published; between a claim and its acknowledgement.
* **Expiry.** Nothing renews a lease in the worker, so a slow stage loses its item
  to another owner and comes back late.
* **At-least-once delivery.** Redelivery races the live consumer.
* **Deadlines.** The coordinator waits twice within one budget of time and cancels
  tasks that may ignore it and end late with capacity and budget in hand. The terminal
  telemetry, awaited before the response is returned, has no timeout.
* **Shared limits.** Rate windows are pruned only when looked at; usage may exceed
  its estimate; one lease identifier may be used by two requests.
* **Restart with other code.** A task item checkpointed by one process is resumed
  by another whose registries may differ.
* **No transaction around a job.** `_BulkDispatcher.dispatch` submits item by item; a
  conflict, a rival or a crash can come between two items.
* **Checked, then awaited, then used.** A plan is resolved before the access policy
  answers and submitted after it; a security policy is tested before the
  authenticator answers and applied after it. Registrations and cancellations
  happen in between, and the audit of a refusal may itself fail.

`PROJECT.json` lists each of these at its line, with the properties that cover it
or the reason why none does.

## 3. The modules

    WorkLifecycle            what a work item promises (abstract)
      ^ refined by
    DurableWork              the store, arbitrary callers    <- DurableWorkProofs
      ^ instantiated by
    BulkWorker               workers, write-back, recovery,  <- BulkWorkerProofs
                             terminal execution
    BulkDelivery             submission, relay, broker,      <- BulkDeliveryProofs
                             consumers
    BulkTask                 the data of one task item       <- BulkTaskProofs

    AdmissionPromise         what admission promises (abstract)
      ^ refined by
    Admission                routing, binding, dispatch,     <- AdmissionProofs
      | extends              preparation, restarts
    Configuration            profiles, evidence, definitions

    ModelCapacity            capacity scopes, windows, leases
      ^ instantiated by
    ModelQueue               the router's admission, queue   <- ModelQueueProofs
    BudgetLedger             budget scopes and reservations
    Interactive              coordinator over ModelCapacity  <- InteractiveProofs
                             and BudgetLedger                   (and of the ledger)

    RelationalRead           execute_read and normalization
      ^ extended by
    ModelDisclosure          task rows, protected invocation <- DisclosureProofs

`MC*` modules give constants to TLC; the remaining modules get theirs in the `.cfg`.
A definition named as a mutant in a comment is not part of its specification: it is
a plausible bug of the definition beside it, used to show that a property would
notice it.

**DurableWork.** Each public method of the repository holds one lock, so each is one
action. Callers are arbitrary: any owner calls any method at any time, with any reading
`t \in 0 .. clock` of the clock, however old, because every caller reads the clock
before the lock. `Claimable` and `Owned` are the guards of `claim` and `_require_owned`;
`Released` is what `checkpoint` and `terminalize` leave of the item. Calls that raise or
return None leave the store alone and are not actions. `WorkLifecycle` keeps progress
and outcome only; DurableWork implements it under the mapping `progress <- LatestStage,
outcome <- terminal state`.

**BulkWorker** puts workers over that store, one action per access to shared state:
`ReadProgress`, `ClaimWork`, `ReadStage`, `WorkSucceeds`/`WorkFails`, `RecordStage` for
the loop; `Authorize`, `LookupEffect`, `LookupReconciliation`, `VerifyEffect`,
`ExecuteEffect`, `SaveEffect`, `ReadCompleted`, `RestoreCheckpoint`,
`SaveReconciliation` for write-back; `CaptureTime`, `EndWork`, `PersistDeadLetter` for
`execute_claim`. `Authorize` is everything the executor tests before recovery: it may
reject what was validated, find write-back disabled (the output is the success) or its
setting unreadable, or miss the approval. Where `terminalize` raises, `EndingRefused`
says what becomes of the work: inside the stage the error is caught and ends it as
exhausted, elsewhere it stops the worker. A `setting`, fixed at the start, says what is
configured (write-back, boundary, owner names), what the environment does (crashes,
revocation, validation that turns against the work), what is assumed of it (stages fit
their lease; the target keeps keys unique) and how far its clock goes (`horizon`, a
bound). The target is external; a mutation may commit, be rolled back or have an unknown
outcome, and the adapter may raise before or after its commit.

**BulkDelivery** is `submit`, `relay_pending` (its snapshot, publication and mark
are separate steps), the broker's queue and in-flight list, and consumers that
receive, claim, acknowledge and run. Relay and consumers crash between steps.

**BudgetLedger** has one action per method of the controller, and `DrawFails`: `reserve`
debits its scopes and then draws the identifier, and a source that is given to the
controller may draw a blank or a repeated one, which raises and leaves the debit.
`stranded`, a ghost, keeps what such draws left; `DrawsFail` says whether they happen (not
with uuid4, the default). Tokens are one
dimension, because limits are on their total. A call whose usage is unknown reports its
estimate. `BudgetSpec` lets any executions use the ledger in any order; Interactive
EXTENDS it, a request being an execution.

**ModelCapacity** is `HierarchicalCapacity`. Timestamps are ages: only whether an
event has left the window matters, and pruning drops the oldest events up to the first
that has not (`Younger`, as `_prune` pops from the left). The ghost variable `window`
keeps the true rolling window, against which the lazily pruned `events` are judged.
**ModelQueue** adds the router: `admit`, `enqueue`, `schedule_next` with the three
orders, `complete`. `Touched` keeps track of what refused candidates prune, which stays
pruned. Which candidates are eligible may change at any moment.

**Interactive** is `execute`, cut at its awaits: `Begin` to the first wait,
`QueryTimesOut`/`QueryFails`/`QuerySucceeds`, `CollectModels`, each running on to the
response when no further wait follows (`Respond`). `Respond` builds the response;
`TelemetryEnds` is the sink that was awaited before it is returned, at any time or never;
`LoopCloses` is `asyncio.run` of a dispatched request, which returns when every task of
its loop has ended. `RunModels` asks for the remaining time at each operation
(`OutOfTime`), as the loops of the coordinator do. Tasks are created, run, are
cancelled and end (`ModelStarts`, `ModelEnds`, `CancellationHonoured`): a cancelled
one may still finish late. Planning and reservation use the actions of
ModelCapacity and BudgetLedger, and operations carry the names the coordinator
gives them, which requests share. For a task, `QuerySucceeds` starts the second
aggregator with the packs in the place of the preparation.

**BulkTask** follows one task item through its data. `Resolve`, `Join`, `Split`,
`Oversized`, `ClosePacks`, `Store`, `CheckpointPrepared` are the preparation, row by
row as in `_build_candidates`; then invocation, parsing, validation and write, each
from what the last checkpoint kept. `Interrupt` drops everything that is not
durable and resumes in a process whose definition and rules may differ.
Record contents are an identifier and whether the bound rules accept it; sizes and
token estimates are operators given as constants.

**Configuration** is the registries, one action per method: `RegisterVersion`,
`RegisterCredential`, `ActivateAdapter`, `Activate`, `RegisterDefinition`. A profile is
its *meaning* and its *spelling*: the digest that names a stored version is taken from
canonical JSON, which forgets spellings, while `activate` compares contents, which does
not. Its `bindings` give each task function at most one version, and `Resolved` finds
the definition of that function under it. `RestartRegistries` is a new process whose
program may register other definitions.

**Admission** is the call of `admit`: `Route` (path, binding, context),
`DispatchInteractive`, `SubmitItem` (one iteration of the bulk dispatcher, each its own
store transaction), `RelayAndAccept`, then `Prepare`, the first stage under the bound
content: a payload names a task function and perhaps a version (`TaskOf`), and
`Resolvable` is the version bound for that function if the payload agrees with it.
`Crash` loses calls and registries and keeps items and outbox; `Again` is a caller that
sends the same envelope once more. The abstract **AdmissionPromise** knows the paths an
envelope names unambiguously and says: an answer is given once per attempt, a dispatcher
is entered only on a named path, and `rejected` is answered only where none was entered.
Admission implements it under the mapping `choices <- NamedPaths, answer <- Answer,
taken <- path`, where `NamedPaths` is a description of its own and not the code's
`PathOf`.

**RelationalRead** is `execute_read` between its awaits: the plan is resolved and
classified (`OperationKinds` of the tree of operations, however deep a mutation is
nested: `TreeOf` is the least set that holds the root and is closed under children,
which is what the recursion of `_operation_kinds` visits), the policy asked, parameters
bound, the adapter called, the result normalized and ordered (`CompareValues`, `Sorted`:
nulls placed as the term says, in both directions, ties kept), which `ResultOrdered`
judges by keys of its own: the rows are a rearrangement of the answer's whose keys
ascend, and where keys are the same the places in the answer do. Each await may answer
(`Authorize`, `Receive`), fail (`ReadFails`) or be cancelled (`CancelRead`). A refusal
goes to the audit sink (`Audited`), which may fail too. **ModelDisclosure** adds what
follows a completed read: the payload and `ProtectedModelInvoker`, cut at the
authenticator. `Prepare` builds the payload: of a task, each row's identifier under
`rows.id` and its fields under `rows.source`, where `source_fields` may give a column
another name (`RowsMap` has the refusals, values that cannot be frozen among them); of
plain model work, the bare rows under `rows`. `Invoke` resolves and tests the policy and
keeps it, `Authenticated` applies it: `Mask` hides what stands at or below a key or a
dotted path that the policy names (`Sensitive`), and nothing else.

## 4. The runs

| Run | Checks | Bounds |
| --- | --- | --- |
| `store` | leases well formed, never stolen; one checkpoint per attempt; one ending; artifacts and outbox consistent; refinement of `WorkLifecycle` | 2 keys, 2 identifiers and 2 events (so submissions conflict), 2 owners, clock 2, 2 attempts |
| `worker` | exclusive processing, at most one mutation, completion needs a committed effect, failure means no effect, settled effects stay settled, records only by the claimant, work ends, dead letters arrive | seven settings: 2 workers on 1 item through all stages, with revocation and rejection (`Steady`); 1 worker on 2 items without write-back (`Disabled`); 1 worker whose write-back setting cannot be read (`Unconfigured`); 2 workers at the write-back with 2 crashes, shared and non-shared boundary (`Recovery`, `Verified`); leases that expire under running workers (`Expiry`) and under workers of one name (`SharedName`) |
| `delivery` | no notification of unclaimed work is lost; all that is submitted is claimed | 2 items, 2 consumers, 1 crash each of relay and consumers, 1 early redelivery |
| `budget` | books balance; only overrun passes a limit | 2 executions, 2 overlapping scopes, 3 reservations, draws that fail |
| `capacity` | slots equal leases, windows within limits, service in order | 3 operations of 2 tenants and both paths, 3 scopes, 2 candidates, window 2, each order |
| `interactive` | responses account for all, decided in time, once; nothing leaks; every request answered | 2 requests (no task, one or two; the second dispatched), a failing read, plan or call, clock 3 |
| `task_rows` | packs greedy and nothing oversized stored; accepted records in order and accepted again | 1 and 3 rows, 2 definitions, outputs permuted, short, repeated, foreign, malformed |
| `admission` | bound content fixed; an accepted job is stored and announced as a whole; one definition per task function and reference; refinement of `AdmissionPromise`; a lost job is accepted when sent again | 2 callers with 3 and 5 envelopes, 2 jobs, 3 payloads (one asks for an unbound version), 2 task functions with 3 definitions, 2 meanings in 2 spellings, 2 items, 1 crash |
| `reads` | only permitted reads reach the adapter; a refusal stands; results ordered as the plan says; disclosed under one policy, with what it names masked | 1 call, a plan reference and a policy version with rivals, 7 kinds of plan, results up to 3 rows with nulls and ties; a task that renames its column and plain work; policies naming a key, a field, a dotted path, all rows or nothing |
| `worker_revoked`, `worker_mixed`, `interactive_same_operation` | see section 5 | the smallest instance that shows it |

Why the bounds are enough for what they look for. Two actors and one shared item show
every pairwise race; a third actor would repeat one of them. `DurableWork`'s two keys
are there for submissions that collide, its clock for a lease that expires exactly at
the reading and one past it. The attempts allow an expiry or a crash in front of every
stage explored; the settings with crashes or expiring leases start at the last stages
(an item stands at a checkpoint of earlier attempts) because earlier stages touch
nothing that is shared. In `capacity`, limits are such that each of concurrency,
requests and tokens is the one that refuses, in some scope. In `interactive`, duration 2
and reserve 1 leave a clock value before the reserve, one in it, and the deadline
itself; concurrency 2 makes the third name refused. In `task_rows`, limits are hit
exactly and exceeded by one. In `admission`, two meanings that bind different
definitions of one function and a restart under either definition are what it takes for
a reference to be prepared in two ways, and a second function under the same reference
is what tells a binding per function from one per reference; a job of two items has one
place where a rival or a crash comes between. In `reads`, one call suffices because
calls share nothing but the registries, which change freely meanwhile. Where a bound
cuts off a counter (clock, attempts, delivery identifiers), it is in the guard of an
action and named in the module.

`CHECK_DEADLOCK` is off in every run but `admission`: work ends, requests are answered
and clocks stop at their bound, and then nothing is left to do. In `admission`
credentials change for ever, and deadlock is checked.

**Fairness.** Temporal properties use the following, and nothing else.
`BulkWorker!FairSpec`: a worker inside a call goes on (WF of its step: no step waits
for another worker; the steps are synchronous Python), and it is called again for
every item (SF of `ReadProgress` per key: `run_bulk` resumes each submitted item in a
loop, and an item is not resumable in the moments another worker holds it). Crashes
and revocations are never fair. `WorkEnds` is claimed of settings without crashes
whose stages fit their lease, and says that workers do not keep each other waiting;
`ExhaustedReachesQueue` is claimed without crashes, because a dead letter whose worker
dies after `terminalize` is lost.
`BulkDelivery!FairSpec`: the relay is run while events are pending, a live consumer
keeps receiving, the broker redelivers (all of this is up to the deployment; the
code gives operations, not loops), time passes. `SubmittedIsClaimed` thus says that
the protocol loses nothing, given that its operations are called.
`Interactive!FairSpec`: the event loop runs every coordinator that can go on and the
clock advances. Reads, calls, cancellations and the telemetry sink are *not* fair: reads
and calls may hang for ever and `EveryRequestAnswered` holds all the same, but for the two
cases that it names: a sink that never returns, which `execute` waits for
(`interactive/coordinator.py` 144), and, of a dispatched request, a task that was told to
stop and never ends, which `asyncio.run` waits for (83).
`Admission!Spec`: `admit` is synchronous and runs to its end (WF of `Admit`), and a
caller whose call was lost or rejected sends its envelope again once that can help (WF
of `Again`: the caller is outside the program). Activation is *not* fair:
`RetriedIsAccepted` assumes that the profile is, from some moment on, activated.

## 5. Findings

* `worker_revoked`: the approval is checked before the effect record is looked up.
  A crash between effect record and checkpoint followed by a revocation ends the
  item as `write-back-failed` although its effect is committed and on record.
* `worker_mixed`: with write-back enabled a committed item has a checkpoint and no
  terminal record. A job with one committed and one failed item passes neither test
  of `run_bulk` and is in progress for ever.
* `interactive_same_operation`: capacity leases are keyed by operation identifiers
  that are unique within a request only, so two requests of one kind exclude each
  other whatever the limits are.

Seen while modelling and left as remarks, most of them at their hazards:

* A delivery is acknowledged as soon as its claim is durable (`bulk/coordinator.py` 71),
  so after a crash of the claimant no notification is left for the next worker; only a
  caller that resumes the item by its key finds it.
* A dead letter whose worker dies after `terminalize` is lost.
* A response decided in time may be handed over after the deadline, or never: the terminal
  telemetry is awaited without a timeout (`interactive/coordinator.py` 144), although
  architecture.md has the response "no later than the deadline" (188) and telemetry
  "Non-blocking after terminal decision" (266).
* A policy's sensitive fields are keys or dotted paths of the *payload*
  (`security/gateway.py` 119-126). A column that `source_fields` renames is protected by
  its new name only, one used as row identifier by `id` only, and the rows of plain model
  work by `rows` only, as they have no keys of their own
  (`composition/prototype.py` 697).
* An adapter that raises after its commit ends the item as `write-back-failed` with the
  mutation at the target and neither an effect record nor a reconciliation
  (`write_back/executor.py` 101-107).
* An identifier source that draws a blank or a repeated identifier leaves the debit of its
  reservation for good (`control_plane/budget.py` 98-104, 184-190).
* A queued operation whose deadline is over never leaves the queue, and small operations
  may pass a large one for ever.
* `_write_accepted` writes the first accepted record only.
* Work accepted under a reference is rejected for good (`policy-rejected`) if the process
  that prepares it did not register the bound task definition.
* Evidence is tested by `activate` and never again: a profile stays bindable after its
  credential was granted mutations.
* A job that names one item identifier twice is counted by its items and stays in
  progress (`composition/prototype.py` 613).
* A plan of indeterminate kind is rejected without audit data (`relational/data_access.py`
  62).
* `late_completions` grows only for results that arrive after the answer.

## 6. The proofs

**DurableWorkProofs** proves, for every set of keys, owners, identifiers and
references, every lease duration and every bound:

| Theorem | Property |
| --- | --- |
| `TypeCorrect` | `TypeOK` |
| `LeasesWellFormed` | `LeaseWellFormed` |
| `AttemptsCheckpointOnce` | `OneCheckpointPerAttempt` |
| `CompletionExclusive` | `CompletedExactlyOneWay` |
| `ResultFollowsArtifacts` | `ResultIsLatestArtifact` |
| `OutboxFollowsWork` | `OutboxMatchesWork` |
| `LeasesNotStolen` | `LeaseNotStolen` (action property) |
| `CompletedStaysFinal` | `CompletedIsFinal` (action property) |
| `ImplementsLifecycle` | `LifecycleSpec` (refinement) |

Assumptions: `WorkAssumption` only (the "none" values are not members of their sets,
the lease duration is positive). The inductive invariant is layered.
`TypeOK` is inductive alone. `LeaseWellFormed` needs it: a lease is held exactly
while an item is in progress and ends at most one duration from now, although it
may have been computed from an old reading. `OneCheckpointPerAttempt` is not
inductive by itself: a second checkpoint in one attempt is excluded only because
the first one gave the lease back, so the induction carries the fact that an item
in progress has no checkpoint in its current attempt, together with
`LeaseWellFormed`. Exclusive completion follows because both endings need the
lease that the first one takes away; the result reference needs the relation
between the last history entry, the terminal record and the item. The refinement
uses the strictly growing stages of the histories to show that every checkpoint is
a step of `WorkLifecycle`, and that all else stutters.

**BulkTaskProofs** proves what a task item promises about its rows, for all rows,
limits, sizes, estimates and model outputs, and however often the item is interrupted:

| Theorem | Property |
| --- | --- |
| `PreparationIsGreedy` | `PreparedIsGreedy` |
| `AcceptedKeepsOrder` | `AcceptedInOrder` |
| `AcceptanceStands` | `AcceptedStaysAccepted` (action property) |

`PreparedIsGreedy` says nothing of the loop, so the invariant `IInv` adds that the
closed packs form a chain that ends where the open pack begins (`Chain`), that the last
closed pack had no room for the row the open one begins with (`Full`), and that the
open pack fits. `ChainGrows` is the heart: closing the open pack extends the chain by
one. `ArtifactInv` then follows the artifact from checkpoint to checkpoint: outputs,
outputs the parser accepts, records for all rows. That validated records, ordered pack
by pack and put together, are records for the rows `1 .. Len(Rows)` (`AllInOrder`) goes
along the packs: `FlattenSeq` is a recursive function, so the proof first shows that
its recursion has a solution (`FlatteningsExist`) and then that no pack is the first
whose prefix is wrong. `CutIsValid` is the converse: cut at the same packs, they are
valid again. The proofs do not use that the ids of the rows differ; where they do not,
an output is accepted if it names the same ids in the same number, and the records that
are kept are still of the right rows. Assumptions: `InvocationsHaveRows` (`TaskInvocation`
refuses empty invocations) and `OutputsAreRecords` (an output is a sequence of records).

**BulkDeliveryProofs** proves `NotificationsKept`: for every set of keys and consumers,
any number of crashes of either side and of redeliveries, an item that no one claimed
has a pending event, a publication under way or a delivery that is queued or
unacknowledged. `NotificationKept` alone is not inductive. A mark of the relay may
come long after its publication and an acknowledgement may come for a delivery that
was meanwhile redelivered under another identifier, so `DeliveryInv` carries:
every item of the store was submitted with its event (`AllSubmitted`), what the relay
has sent but not marked is still held by the broker or claimed (`SentIsKept`), a
consumer acknowledges only what it claimed or found final (`AnsweredIsClaimed`), and
the delivery a consumer holds is its own (`OwnDelivery`). Assumption:
`DeliveryAssumption` (the bounds and the lease are natural numbers).

**BulkWorkerProofs** proves properties of the workers, for every set of workers, keys
and settings:

| Theorem | Property |
| --- | --- |
| `ProcessingIsExclusive` | `ExclusiveProcessing` |
| `CompletionIsCommitted` | `CompletedMeansCommitted` |
| `RecordingIsOwn` | `RecordedByClaimant` (action property) |
| `OneMutationPerKey` | `OneMutation` |
| `SettledIsNotReplayed` | `SettledNotReplayed` (action property) |
| `FailedHasNoEffect` | `FailedMeansNoEffect`, of settings without crashes, or in which nothing is refused on return (`Refusable`: revocation, rejection, an unreadable setting) |

Every step of a worker is first shown to be of one of three kinds: it moves on within
its call, it leaves the call, or it records at the store under `Holds` (`StageKinds`,
`WriteBackKinds`, `TerminalKinds`). `LeaseInv` is then proved per kind: besides
`ExclusiveProcessing` it needs that a claim under way reads a time not after the clock,
and a recent one where stages fit their lease (`Claiming`), so that a stale reading
neither takes a live lease nor gets one that is over, and that under distinct names an
item held in one's name is held for the attempt one claimed (`OwnAttempt`), from which
`RecordedByClaimant` follows at the one kind of step that records. `EffectInv` says that
an effect record stands for a mutation at the target and that a worker about to save,
restore or complete has the grounds for it (`Justified`): a mutation that it saw commit,
or an effect record, for the key of its own claim. `MutationInv` is about where a
mutation can be: `Facts` says what a worker at each place of the write-back knows of its
key, `KeyFacts` that where the mutation can be traced (no crash, or a boundary that asks
the target) it is settled or in the hands of one worker on the way to record it, hence
that there is no second. It rests on `ExclusiveProcessing`, for two workers at one item
would both find nothing on record. `EndedInv` adds that work that has ended is never
claimed again, so that a failure recorded stays true. `FailedHasNoEffect` cannot be
stated without its condition: with a crash after the commit *and* a refusal before the
retry it is false, which is, for a revocation, the finding of `worker_revoked`.
`ProcessingIsExclusive` assumes that stages fit their lease and nothing of names;
`RecordingIsOwn` assumes distinct owner names, which `run_bulk` does not give
(`composition/prototype.py` 610-611), and nothing of leases. Assumption:
`WorkerAssumption` (settings are settings, leases are positive).

**AdmissionProofs** proves, for all profiles, definitions, callers, jobs and any number
of crashes:

| Theorem | Property |
| --- | --- |
| `RegistryCorrect` | the registries' invariant |
| `BoundContentNeverChanges` | `BoundContentFixed` |
| `AcceptedJobIsStored` | `AcceptedJobStored` |
| `ReferenceFixesItsDefinition` | `ReferenceFixesDefinition` |
| `AdmissionKeepsItsPromise` | `PromiseKept` (refinement) |

`RegistryInv` relates each stored content to the digest that names it and each
activation to what is stored, which `Activate` keeps because it never overwrites; a
restart empties both sides at once. `JobInv` says that what is submitted of a call's
job is stored for its reference and payload, and what is stored is in the outbox;
that rivals cannot change it is the content of `SameWork`. A preparation is tied to
the digest of the item's reference, not to the registries of its time, and so survives
restarts (`ReferenceFixesDefinition`): `BoundFor` says that the digest binds the function
of the item's payload to the definition it was prepared with, and that the definition is
of this function. The refinement rests on `PathTaken` and on the
lemma that `PathOf` and `NamedPaths` agree. Assumptions: `ConfigurationAssumption`,
`AdmissionAssumption`.

**ModelQueueProofs** proves, for all scopes, limits, windows, candidates, operations and
orders:

| Theorem | Property |
| --- | --- |
| `SlotsAreLeases` | `ActiveIsLeased` |
| `RatesHold` | `RateWithinWindow` |
| `QueueServedInOrder` | `ServedInOrder` (action property) |

For the slots the invariant adds that leases are finitely many (`LeasesTyped`), so that
counts are numbers; an admission counts in the scopes of one candidate that fits all of
them (`AcquireKeeps`), and a release takes back exactly what its lease names
(`ReleaseKeeps`), whichever candidates were refused before. For the rates,
`WindowParts` relates the two accounts of a scope: its `window`, aged by the clock, is at
every instant what pruning would leave of `events`, which are pruned only when an
admission looks at them, and stays within the limits (`RateInv`, for every scope). For
the order, `QueueInv` says that the queue is a sequence of operations with ids of their
own, and the theorem compares the rank the code gives an operation (`Round`, `Turn`)
with what the order promises: the turns of queued tenants differ and the tenant served
last has the last one (`LastTurn`).

**InteractiveProofs** proves, for any requests, names, deadlines, reserves, failures and
limits:

| Theorem | Property |
| --- | --- |
| `ResponsesAccountForAll` | `ResponseAccountsForAll` |
| `DecisionsAreInTime` | `DecidedInTime` |
| `CallsLeakNothing` | `NothingLeaks` |
| `DecisionsStand` | `DecidedOnce` (action property) |
| `BooksBalance` | `LedgerBalanced`, of `BudgetSpec` |
| `LimitsHold` | `OnlyOverrunExceedsLimit`, of `BudgetSpec` |
| `LedgerImplemented` | every behaviour of `Interactive` is one of `BudgetSpec` |
| `CallsKeepTheBooks` | both ledger properties, of `Interactive` |

`PhaseInv` says for each phase of `execute` what the aggregator holds and how far the
tasks are, `ResponseInv` what a response was made of; a step is either of one
coordinator (`Local`) or of one task (`TaskChange`), and only the latter can be late.
For the leaks the invariant is that a name is in use by one call at a time
(`OneCallPerName`): the lease, which is keyed by the name, sees to it, and a release by
name would otherwise take another call's lease. The ledger's proofs are about sums over
reservations: what a scope holds is the sum over its active reservations and what it has
used the sum over its reconciled ones (`LedgerInv`); debits of failed draws are added to
the former. `BooksBalance` and `LimitsHold` are about every user of the ledger;
`LedgerImplemented` shows that the interactive path uses it by its transactions only,
none of which fails after its debit. Assumptions: `InteractiveAssumption` and, with it,
what capacity and budget (`BudgetAssumption`) assume of theirs.

**DisclosureProofs** proves, for all calls, plans, operation trees, policies and answers:

| Theorem | Property |
| --- | --- |
| `ReadsArePermitted` | `OnlyPermittedReads` |
| `RefusalsStand` | `RefusalStands` |
| `ResultsAreOrdered` | `ResultOrdered` |
| `DisclosuresArePermitted` | `OnlyPermittedDisclosures` |

`PlanInv` and `StageInv` carry a decision across the wait that follows it: the plan that
was classified and the policy that was tested are still the registered ones, because a
registration never replaces; `SubmittedInv` and `DisclosedInv` then keep the grounds of
what was handed on. `NamedIsMasked` and `SensitiveIsNamed` show that the mask, which
walks down the payload, hides what the policy names and nothing else. For the order,
`ComparedByKey` shows that comparing rows term by term is comparing keys
lexicographically, `KeysOrdered` that this is a total order, and `RanksSort` that
counting predecessors, which is how `Sorted` places rows, is then a bijection that
ascends. Assumptions: `ReadAssumption` (operations are closed under children, references
and terms are well formed, null is not a number) and `DisclosureAssumption`.

Induction. The library's induction theorems take an operator, which the provers cannot
instantiate. Where a proof needs induction, over a sum, a rank, a prefix of packs or a
window, it takes a least counterexample instead: `WFMin` of the well-founded order of
the numbers is first-order, and `SmallestNumber` and `SmallestSet` follow from it.
Recursion is by functions on a finite domain (`Total`, `SumOfTokens`, `FlattenSeq`), whose
solution is shown to exist in the same way. No invariant here is about unbounded
recursion.

Only model-checked:

* liveness (`WorkEnds`, `ExhaustedReachesQueue`, `SubmittedIsClaimed`,
  `EveryRequestAnswered`, `RetriedIsAccepted`), out of the prover's reach;
* `FailedMeansNoEffect` of settings that have both crashes and refusals, of which it does
  not hold.

Every other invariant and action property of a passing run is a theorem.

## 7. Not modelled

* **Retry controller** (`model_routing/retry.py`): nothing in the repository constructs
  it, so it has neither callers nor interleavings.
* **StaticConfigurationBinder, BoundArtifactFactory**: not used by the application.
* **Parser** (`tasks/parser.py`): accept or reject in `BulkTask`. Conversions of a single
  value, canonical bytes and the contents of a profile's sections are one Boolean each.
* **Object store**: content-addressed, so a reference stands for its content.
* **Write-back audit, late telemetry, metrics**: best effort; they change no outcome. (The
  audit of refused *reads* is in `RelationalRead`, because its failure could, and the wait
  for *terminal* telemetry in `Interactive`, because the response is held up by it.)
* **Command line and prototype adapters**: printing and fakes. The effect adapter
  is the external target of `BulkWorker`.
* Dependencies that raise `CancelledError` on their own leave `execute` without an
  answer; no dependency of the repository does, and `Interactive` leaves it out.
* uuid4 identifiers are taken to be unique (`DrawsFail` of `Interactive`), sha256 to be
  free of collisions (`Configuration`).

## 8. The plan

1. *Done*: the store and its lifecycle; workers with write-back; delivery; budget;
   capacity and router; interactive coordinator; task items; configuration and
   admission; relational reads and disclosure. Proofs about all of them.
2. *Next models*: bulk packs over `BudgetLedger` and `ModelCapacity`
   (`composition/prototype.py` 290-340), which share operation names with interactive
   requests; `BulkTask` composed with `BulkWorker`, so that a resumed item with real
   artifacts crosses the write-back; the parser against a reference definition.
3. *Next proofs*: that `Interactive` uses `ModelCapacity` by its operations only, as
   `LedgerImplemented` shows of the ledger, so that `ActiveIsLeased` and
   `RateWithinWindow` hold of the interactive path too; that `BulkDelivery` and
   `BulkWorker` are callers of `DurableWork`, so that its theorems hold of them.

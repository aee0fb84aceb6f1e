------------------------------ MODULE Interactive ------------------------------
(***************************************************************************)
(* The interactive path: InteractiveCoordinator.execute with its           *)
(* PartialAggregator (interactive/coordinator.py, aggregator.py), one      *)
(* asyncio task per operation, over the shared model capacity and budget   *)
(* (interactive/integration.py: RoutedModelPlanner, BoundBudgetAdapter).   *)
(*                                                                         *)
(* Several requests run on one event loop.  An action is what runs between *)
(* two awaits.  A cancelled task may honour the cancellation or finish     *)
(* late.  The loop is responsive: the clock does not pass a coordinator    *)
(* that can go on; a request may begin long after it was accepted, and the *)
(* telemetry sink may take any time, or never return.                      *)
(* Through dispatch a request has a loop of its own (asyncio.run); the     *)
(* steps of two loops are interleaved at their awaits, no finer.           *)
(* A request is an execution of the ledger, which draws uuid4 identifiers; *)
(* a reservation is known by the call it was made for.                     *)
(*                                                                         *)
(* Abstracted: results, details and metrics; the state of an incomplete    *)
(* operation next to its reason; candidate ranking (one candidate).        *)
(***************************************************************************)
EXTENDS BudgetLedger, FiniteSets

CONSTANTS
  ModelNames,     \* operation identifiers of a request's model work
  PackNames,      \* operation identifiers of the packs of its task
  Tasked,         \* the sets of requests that may carry a task
  Dispatched,     \* the requests handed in by dispatch, not by awaiting execute
  Failures,       \* the failures of reads, plans and calls explored
  Duration,       \* deadline after acceptance
  ResponseReserve, \* response_reserve_ms
  MaxClock,       \* bound
  CapacityScopes, CapacityLimits, Unlimited, Window,
  Estimate,       \* what a model call reserves
  NoResponse

VARIABLES
  clock,
  tasked,       \* the requests that carry a task, fixed
  phase,        \* where execute is
  deadline,     \* context.timing.deadline
  begun,        \* ghost: when execute began
  due,          \* when the wait in progress times out
  aggregator,   \* outcome of every requested operation
  task,         \* the asyncio task of every operation
  response,     \* the terminal response
  active, events, leases, window   \* see ModelCapacity

Names == UNION {ModelNames[r] \cup PackNames[r] : r \in Executions}
Calls == UNION {{r} \X ({"query"} \cup ModelNames[r] \cup PackNames[r]) : r \in Executions}
ModelCalls == {c \in Calls : c[2] # "query"}

\* The model operations of a request.
ModelOps(r) == IF r \in tasked THEN PackNames[r] ELSE ModelNames[r]

Capacity == INSTANCE ModelCapacity WITH
  OperationIds <- Names, Scopes <- CapacityScopes, Limits <- CapacityLimits

ASSUME InteractiveAssumption ==
  /\ Capacity!CapacityConstants
  /\ Estimate \in Estimates /\ ModelCalls \subseteq Ids /\ ~ DrawsFail
  /\ {ModelNames, PackNames} \subseteq [Executions -> SUBSET Names]
  /\ "query" \notin Names /\ "prepare" \notin Names
  /\ Tasked \subseteq SUBSET Executions /\ Dispatched \subseteq Executions
  /\ {Duration, ResponseReserve, MaxClock} \subseteq Nat

coordinatorVars == <<tasked, phase, deadline, begun, due, aggregator, response>>
capacityVars == <<active, events, leases, window>>
vars == <<clock, coordinatorVars, task, capacityVars, budgetVars>>

Reasons == {"deadline_exceeded", "deadline_ineligible", "budget_exhausted",
            "database_failure", "model_failure", "validation_failed",
            "security_rejected", "dependency_failed"}

\* What a read, a plan and a call raise.
QueryFailures == {"database_failure", "model_failure"}
PlanFailures  == {"deadline_ineligible", "no_eligible_model"}
CallFailures  == {"model_failure", "security_rejected"}

\* _reason.
Reason(result) ==
  IF result \in {"no_eligible_model", "capacity_unavailable"} THEN "model_failure"
  ELSE result

NoTask == [pc |-> "none", result |-> "none"]

Init ==
  /\ clock = 0
  /\ tasked \in Tasked
  /\ phase = [r \in Executions |-> "new"]
  /\ deadline = [r \in Executions |-> 0]
  /\ begun = [r \in Executions |-> 0]
  /\ due = [r \in Executions |-> 0]
  /\ aggregator = [r \in Executions |-> <<>>]
  /\ task = [c \in Calls |-> NoTask]
  /\ response = [r \in Executions |-> NoResponse]
  /\ Capacity!Init
  /\ BudgetInit

--------------------------------------------------------------------------------
(* The aggregator *)

\* PartialAggregator.__init__: every requested operation is pending.
Aggregation(ops) == [o \in ops |-> "pending"]

PendingOf(agg) == {o \in DOMAIN agg : agg[o] = "pending"}

\* complete and omit, for several operations.
With(agg, ops, value) == [o \in DOMAIN agg |-> IF o \in ops THEN value ELSE agg[o]]

\* Mutant of Finalized: what is decided already is finalized again.
FinalizedAll(agg) == With(agg, DOMAIN agg, "deadline_exceeded")

\* finalize_pending.
Finalized(agg) == With(agg, PendingOf(agg), "deadline_exceeded")

--------------------------------------------------------------------------------
(* The coordinator *)

\* Admission binds the execution to its budget and fixes the deadline.
Accept(r) ==
  /\ phase[r] = "new"
  /\ clock + Duration <= MaxClock
  /\ Bind(r, Scopes)
  /\ phase' = [phase EXCEPT ![r] = "accepted"]
  /\ deadline' = [deadline EXCEPT ![r] = clock + Duration]
  /\ aggregator' = [aggregator EXCEPT ![r] = Aggregation(
       {"query"} \cup IF r \in tasked THEN {"prepare"} ELSE ModelOps(r))]
  /\ UNCHANGED <<clock, tasked, begun, due, task, response, capacityVars>>

\* _cancel_pending: a task that never ran ends, a running one is told to stop.
Cancelled(r, tasks) ==
  [c \in Calls |->
     IF c[1] # r THEN tasks[c]
     ELSE CASE tasks[c].pc = "created" -> [pc |-> "ended", result |-> "late"]
            [] tasks[c].pc = "running" -> [tasks[c] EXCEPT !.pc = "cancelled"]
            [] OTHER -> tasks[c]]

\* The end of execute's work: cancel, finalize, and build the response in one step.
\* The terminal telemetry is awaited before the response is returned.
Respond(r, agg) ==
  LET final == Finalized(agg)
      done  == {o \in DOMAIN final : final[o] = "completed"}
  IN /\ aggregator' = [aggregator EXCEPT ![r] = final]
     /\ task' = Cancelled(r, task)
     /\ response' = [response EXCEPT ![r] =
          [results |-> done, omitted |-> [o \in DOMAIN final \ done |-> final[o]],
           complete |-> done = DOMAIN final, at |-> clock,
           emitted |-> IF clock < deadline[r] THEN clock ELSE deadline[r]]]
     /\ phase' = [phase EXCEPT ![r] = "telemetry"]
     /\ UNCHANGED <<clock, tasked, deadline, due, capacityVars, budgetVars>>

TasksEnded(r) == \A c \in Calls : c[1] = r => task[c].pc \in {"none", "ended"}

\* The sink returned or raised.  execute returns; asyncio.run, which dispatch goes
\* through, returns when every task of its loop has ended too.
TelemetryEnds(r) ==
  /\ phase[r] = "telemetry"
  /\ phase' = [phase EXCEPT ![r] =
       IF r \in Dispatched /\ ~ TasksEnded(r) THEN "closing" ELSE "returned"]
  /\ UNCHANGED <<clock, tasked, deadline, begun, due, aggregator, response, task,
                 capacityVars, budgetVars>>

\* The last task of a dispatched request ended.
LoopCloses(r) ==
  /\ phase[r] = "closing" /\ TasksEnded(r)
  /\ phase' = [phase EXCEPT ![r] = "returned"]
  /\ UNCHANGED <<clock, tasked, deadline, begun, due, aggregator, response, task,
                 capacityVars, budgetVars>>

\* Mutant of WaitEnds: a wait lasts until the deadline.
WaitEndsAtDeadline(r) == deadline[r]

\* Every wait ends when only the reserve is left before the deadline.
WaitEnds(r) == deadline[r] - ResponseReserve

\* execute up to its first wait.  Nothing tells a read that is under way from one
\* that is only scheduled.
Begin(r) ==
  /\ phase[r] = "accepted"
  /\ begun' = [begun EXCEPT ![r] = clock]
  /\ IF clock >= deadline[r] - ResponseReserve
     THEN Respond(r, aggregator[r])
     ELSE /\ task' = [task EXCEPT ![<<r, "query">>].pc = "running"]
          /\ phase' = [phase EXCEPT ![r] = "query"]
          /\ due' = [due EXCEPT ![r] = WaitEnds(r)]
          /\ UNCHANGED <<clock, tasked, deadline, aggregator, response, capacityVars, budgetVars>>

QueryTask(r) == task[<<r, "query">>]

\* Mutant of QueryTimesOut: the wait for the read has no timeout.
QueryAwaited(r) ==
  /\ phase[r] = "query"
  /\ QueryTask(r).pc = "ended" /\ clock >= due[r]
  /\ Respond(r, aggregator[r])
  /\ UNCHANGED begun

\* The read did not end in time.
QueryTimesOut(r) ==
  /\ phase[r] = "query"
  /\ QueryTask(r).pc # "ended" /\ clock >= due[r]
  /\ Respond(r, aggregator[r])
  /\ UNCHANGED begun

\* The read failed: what depends on it is omitted.
QueryFails(r) ==
  /\ phase[r] = "query"
  /\ QueryTask(r).pc = "ended" /\ QueryTask(r).result # "ok"
  /\ LET agg == With(aggregator[r], {"query"}, Reason(QueryTask(r).result))
     IN Respond(r, With(agg, PendingOf(agg), "dependency_failed"))
  /\ UNCHANGED begun

\* What the loops may find out of time, asking for each operation: all when only the
\* reserve is left, some when that happens meanwhile.
OutOfTime(r) ==
  CASE clock >= WaitEnds(r) -> {ModelOps(r)}
    [] clock = WaitEnds(r) - 1 -> SUBSET ModelOps(r)
    [] OTHER -> {{}}

\* _run_models and _run_task_models: a task for each operation that is in time,
\* and then the wait of _collect_models, if there is a task to wait for.
RunModels(r, agg) ==
  \E late \in OutOfTime(r) :
    LET timely == ModelOps(r) \ late
        known  == With(agg, late, "deadline_exceeded")
    IN IF timely = {} THEN Respond(r, known)
       ELSE /\ aggregator' = [aggregator EXCEPT ![r] = known]
            /\ task' = [c \in Calls |-> IF c[1] = r /\ c[2] \in timely
                                        THEN [NoTask EXCEPT !.pc = "created"] ELSE task[c]]
            /\ phase' = [phase EXCEPT ![r] = "models"]
            /\ due' = [due EXCEPT ![r] = WaitEnds(r)]
            /\ UNCHANGED <<clock, tasked, deadline, response, capacityVars, budgetVars>>

\* The read succeeded.  For a task, _run_task_request starts a new aggregator:
\* the preparation failed, or its packs take the place of the preparation.
QuerySucceeds(r) ==
  /\ phase[r] = "query"
  /\ QueryTask(r).pc = "ended" /\ QueryTask(r).result = "ok"
  /\ LET Read(ops) == With(Aggregation({"query"} \cup ops), {"query"}, "completed")
     IN IF r \in tasked
        THEN \/ Respond(r, With(Read({"prepare"}), {"prepare"}, "validation_failed"))
             \/ RunModels(r, Read(ModelOps(r)))
        ELSE RunModels(r, With(aggregator[r], {"query"}, "completed"))
  /\ UNCHANGED begun

\* Mutant of CollectedOutcome: a task that ended in any way is complete.
CollectedAnyway(c) ==
  IF task[c].pc = "ended" THEN "completed" ELSE "deadline_exceeded"

\* Outcome of an operation when the wait for its task is over.
CollectedOutcome(c) ==
  CASE task[c].pc # "ended" -> "deadline_exceeded"
    [] task[c].result = "ok" -> "completed"
    [] OTHER -> Reason(task[c].result)

\* _collect_models: all tasks ended or the wait timed out.
CollectModels(r) ==
  /\ phase[r] = "models"
  /\ \/ clock >= due[r]
     \/ \A o \in PendingOf(aggregator[r]) : task[<<r, o>>].pc = "ended"
  /\ Respond(r, [o \in DOMAIN aggregator[r] |->
       IF o \in PendingOf(aggregator[r]) THEN CollectedOutcome(<<r, o>>) ELSE aggregator[r][o]])
  /\ UNCHANGED begun

CoordinatorStep(r) ==
  \/ Begin(r) \/ QueryTimesOut(r) \/ QueryFails(r) \/ QuerySucceeds(r) \/ CollectModels(r)
  \/ LoopCloses(r)

--------------------------------------------------------------------------------
(* The tasks *)

\* A task ends; after a cancellation its result is nobody's.
Ended(c, result) ==
  task' = [task EXCEPT ![c] =
    [pc |-> "ended", result |-> IF task[c].pc = "cancelled" THEN "late" ELSE result]]

\* _read returns or raises.
QueryEnds(r) ==
  /\ QueryTask(r).pc \in {"running", "cancelled"}
  /\ \E result \in {"ok"} \cup (QueryFailures \cap Failures) : Ended(<<r, "query">>, result)
  /\ UNCHANGED <<clock, coordinatorVars, capacityVars, budgetVars>>

\* plan: the operation as the router sees it.
Operation(c) == [id |-> c[2], path |-> "interactive", scope |-> c[1],
                 tenant |-> "tenant", tokens |-> Estimate["tokens"]]
Candidates == <<[provider |-> "provider", model |-> "model"]>>

\* _model and _task_model up to the invocation: plan, then reserve.  A refused
\* reservation completes the plan.
ModelStarts(c) ==
  /\ task[c].pc = "created"
  /\ LET Admissible == Capacity!Admissible(Operation(c), Candidates)
     IN \/ /\ \E result \in PlanFailures \cap Failures : Ended(c, result)
           /\ UNCHANGED <<capacityVars, budgetVars>>
        \/ /\ ~ Admissible
           /\ Capacity!Refuse(Capacity!Touched(Operation(c), Candidates))
           /\ Ended(c, "capacity_unavailable")
           /\ UNCHANGED budgetVars
        \/ /\ Admissible /\ Exhausted(bindings[c[1]], Estimate)
           /\ Capacity!AcquireAndRelease(Operation(c), Candidates)
           /\ Ended(c, "budget_exhausted")
           /\ UNCHANGED budgetVars
        \/ /\ Capacity!Acquire(Operation(c), Candidates, {})
           /\ Reserve(c[1], Estimate, c)
           /\ task' = [task EXCEPT ![c].pc = "running"]
  /\ UNCHANGED <<clock, coordinatorVars>>

\* Mutant of Settle: a failed invocation leaves its reservation open.
SettleKnown(c, usage) ==
  /\ IF usage \in Actuals THEN Reconcile(c, usage) ELSE UNCHANGED budgetVars
  /\ Capacity!Release(c[2])

\* The finally clause: reconcile the reservation, complete the plan.
Settle(c, usage) == Reconcile(c, usage) /\ Capacity!Release(c[2])

\* The invocation returns and its output is validated, or it raises.  The usage
\* is what was reported, or the estimate; an output of another type raises too.
ModelEnds(c) ==
  /\ task[c].pc \in {"running", "cancelled"}
  /\ \/ \E result \in {"ok", "validation_failed"} \cup ({"model_failure"} \cap Failures),
             usage \in Actuals :
          Ended(c, result) /\ Settle(c, usage)
     \/ \E result \in CallFailures \cap Failures : Ended(c, result) /\ Settle(c, Estimate)
  /\ UNCHANGED <<clock, coordinatorVars>>

\* A cancelled task ends by its cancellation.
CancellationHonoured(c) ==
  /\ task[c].pc = "cancelled"
  /\ Ended(c, "late")
  /\ IF c \in ModelCalls THEN Settle(c, Estimate) ELSE UNCHANGED <<capacityVars, budgetVars>>
  /\ UNCHANGED <<clock, coordinatorVars>>

TaskStep(c) ==
  \/ c \in ModelCalls /\ (ModelStarts(c) \/ ModelEnds(c))
  \/ c \notin ModelCalls /\ QueryEnds(c[1])
  \/ CancellationHonoured(c)

\* A coordinator whose wait is over goes on before the clock does.
CoordinatorWaits(r) ==
  CASE phase[r] = "query" -> QueryTask(r).pc # "ended" /\ clock < due[r]
    [] phase[r] = "models" ->
         /\ clock < due[r]
         /\ \E o \in PendingOf(aggregator[r]) : task[<<r, o>>].pc # "ended"
    [] phase[r] = "closing" -> ~ TasksEnded(r)
    [] OTHER -> TRUE

Tick ==
  /\ clock < MaxClock
  /\ \A r \in Executions : CoordinatorWaits(r)
  /\ clock' = clock + 1
  /\ Capacity!Age
  /\ UNCHANGED <<coordinatorVars, task, budgetVars>>

Next ==
  \/ \E r \in Executions : Accept(r) \/ CoordinatorStep(r) \/ TelemetryEnds(r)
  \/ \E c \in Calls : TaskStep(c)
  \/ Tick

Spec == Init /\ [][Next]_vars

\* The event loop runs every coordinator, and time passes.  Nothing is asked of
\* reads, models and the telemetry sink.
FairSpec == Spec /\ WF_vars(Tick) /\ \A r \in Executions : WF_vars(CoordinatorStep(r))

--------------------------------------------------------------------------------
(* Properties *)

Responded(r) == response[r] # NoResponse

\* A response names every requested operation exactly once: as a result, and then
\* its task ended with one, or with the reason of its omission.  It is complete
\* exactly if nothing is omitted (architecture.md 188).
ResponseAccountsForAll ==
  \A r \in Executions : Responded(r) =>
    LET given   == response[r].results
        omitted == DOMAIN response[r].omitted
    IN /\ given \cap omitted = {}
       /\ given \cup omitted = DOMAIN aggregator[r]
       /\ \/ given \cup omitted = {"query"} \cup ModelOps(r)
          \/ r \in tasked /\ given \cup omitted = {"query", "prepare"}
       /\ \A o \in given : task[<<r, o>>].result = "ok"
       /\ \A o \in omitted : response[r].omitted[o] \in Reasons
       /\ response[r].complete <=> omitted = {}

\* The response of a request that began with time to work is built while the reserve
\* is left; that of one that began too late at once.  When it is handed over, the
\* telemetry sink decides too.
DecidedInTime ==
  \A r \in Executions : Responded(r) =>
    \/ response[r].at <= deadline[r] - ResponseReserve
    \/ response[r].at = begun[r]

\* An operation is decided once (so PartialAggregator never raises), and a
\* response never changes: what ends late is in no response.
DecidedOnce ==
  [][\A r \in Executions :
       /\ Responded(r) => response'[r] = response[r]
       /\ \A o \in DOMAIN aggregator[r] :
            aggregator[r][o] # "pending" => /\ o \in DOMAIN aggregator'[r]
                                            /\ aggregator'[r][o] = aggregator[r][o]]_vars

\* A reservation is open and a capacity lease is held exactly while the call they
\* were taken for is under way, cancelled or not.
NothingLeaks ==
  /\ \A c \in ModelCalls : (reservations[c].state = "active") <=> (task[c].pc \in {"running", "cancelled"})
  /\ \A n \in Names : (n \in DOMAIN leases) <=>
       (\E c \in ModelCalls : c[2] = n /\ task[c].pc \in {"running", "cancelled"})

\* A model call is refused for capacity only when a configured scope is full
\* (architecture.md 185 lists what eligibility requires).
RefusedOnlyWhenFull ==
  [][\A c \in ModelCalls :
       task'[c].result = "capacity_unavailable" /\ task[c].pc = "created" =>
         \E s \in CapacityScopes : ~ Capacity!FitsScope(s, Estimate["tokens"])]_vars

\* Every accepted request is answered, whether or not its read and its models ever
\* answer, unless the telemetry sink never returns or a dispatched request has a task
\* that, told to stop, never ends.
EveryRequestAnswered ==
  \A r \in Executions : phase[r] = "accepted" ~>
    \/ phase[r] = "returned"
    \/ [](phase[r] = "telemetry")
    \/ [](r \in Dispatched /\ \E c \in Calls : c[1] = r /\ task[c].pc = "cancelled")
================================================================================

------------------------------ MODULE ModelQueue -------------------------------
(***************************************************************************)
(* model_routing/router.py, ModelRouter: admission of one operation        *)
(* (admit) and of queued ones (enqueue, schedule_next, complete) over the  *)
(* hierarchical capacity, under each scheduling order.                     *)
(*                                                                         *)
(* Abstracted: which candidates are eligible (_reasons: policy, data class,*)
(* capability, quality, budget, deadline) is an input that may change at   *)
(* any moment; they stay in the economical order of the constant Ranked.   *)
(* Sequence numbers are positions in the queue, which keeps their order.   *)
(***************************************************************************)
EXTENDS Integers, SequencesExt

CONSTANTS
  OperationIds, Scopes, Limits, Unlimited, Window,
  Operations,   \* ModelOperation records, one for each identifier
  Ranked,       \* candidates by cost, then priority, then identifier
  Eligibility,  \* the sets of candidates that may be eligible for an operation
  Orders,       \* the scheduling orders explored
  NoTenant

VARIABLES
  order,        \* _scheduling_order, fixed at construction
  eligible,     \* the candidates evaluate finds eligible for each operation
  queue,        \* _queue: operations in the order they were queued
  lastTenant,   \* _last_tenant
  active, events, leases, window   \* see ModelCapacity

capacityVars == <<active, events, leases, window>>
vars == <<order, eligible, queue, lastTenant, capacityVars>>

Capacity == INSTANCE ModelCapacity

ASSUME QueueAssumption ==
  /\ Capacity!CapacityConstants
  /\ Orders \subseteq {"fifo", "interactive_first", "tenant_round_robin"}
  /\ \A o \in Operations : o.id \in OperationIds /\ o.tokens \in Nat
  /\ \A o \in Operations : o.tenant # NoTenant
  /\ \A es \in Eligibility : es \subseteq {Ranked[i] : i \in 1 .. Len(Ranked)}

Init ==
  /\ order \in Orders
  /\ eligible \in [Operations -> Eligibility]
  /\ queue = <<>>
  /\ lastTenant = NoTenant
  /\ Capacity!Init

\* admit sorts the eligible candidates by cost, priority and identifier.
Ordered(o) == SelectSeq(Ranked, LAMBDA c : c \in eligible[o])

--------------------------------------------------------------------------------
(* _ordered_queue *)

QueuedTenants == {queue[i].tenant : i \in 1 .. Len(queue)}

FirstOf(t) == CHOOSE i \in 1 .. Len(queue) :
  /\ queue[i].tenant = t
  /\ \A j \in 1 .. i - 1 : queue[j].tenant # t

\* Rank of a tenant by its first operation, and its turn after the last tenant.
Rank(t) == Cardinality({u \in QueuedTenants : FirstOf(u) < FirstOf(t)})

\* Mutant of Turn: the rotation starts at the last tenant, not after it.
TurnOfLast(t) ==
  IF lastTenant \in QueuedTenants
  THEN LET n == Cardinality(QueuedTenants)
       IN (Rank(t) - Rank(lastTenant) + n) % n
  ELSE Rank(t)

\* The tenant after the last served one has the first turn.
Turn(t) ==
  IF lastTenant \in QueuedTenants
  THEN LET n == Cardinality(QueuedTenants)
       IN (Rank(t) - Rank(lastTenant) - 1 + n) % n
  ELSE Rank(t)

\* Round of an operation: how many of its tenant are queued before it.
Round(i) == Cardinality({j \in 1 .. i - 1 : queue[j].tenant = queue[i].tenant})

\* Operation i is tried before operation j.
Before(i, j) ==
  CASE order = "fifo" -> i < j
    [] order = "interactive_first" ->
         IF queue[i].path = queue[j].path THEN i < j ELSE queue[i].path = "interactive"
    [] order = "tenant_round_robin" ->
         \/ Round(i) < Round(j)
         \/ Round(i) = Round(j) /\ Turn(queue[i].tenant) < Turn(queue[j].tenant)

--------------------------------------------------------------------------------
(* Operations of the router *)

\* enqueue raises for an identifier that is queued already.
Enqueue(o) ==
  /\ \A i \in 1 .. Len(queue) : queue[i].id # o.id
  /\ queue' = Append(queue, o)
  /\ UNCHANGED <<order, eligible, lastTenant, capacityVars>>

CanAdmit(o) == Capacity!Admissible(o, Ordered(o))

\* admit: without an eligible candidate nothing changes.
Admit(o) ==
  /\ IF CanAdmit(o)
     THEN Capacity!Acquire(o, Ordered(o), {})
     ELSE Capacity!Refuse(Capacity!Touched(o, Ordered(o)))
  /\ UNCHANGED <<order, eligible, queue, lastTenant>>

\* What schedule_next prunes while it is refused the operations at some positions.
TouchedBy(positions) ==
  UNION {Capacity!Touched(queue[j], Ordered(queue[j])) : j \in positions}

\* schedule_next admits the first operation of the ordered queue that it can.
ScheduleNext(i) ==
  LET passed == {j \in 1 .. Len(queue) : Before(j, i)}
  IN /\ CanAdmit(queue[i])
     /\ \A j \in passed : ~ CanAdmit(queue[j])
     /\ Capacity!Acquire(queue[i], Ordered(queue[i]), TouchedBy(passed))
     /\ queue' = RemoveAt(queue, i)
     /\ lastTenant' = queue[i].tenant
     /\ UNCHANGED <<order, eligible>>

\* schedule_next returns None; what it pruned stays pruned.
ScheduleNone ==
  /\ \A i \in 1 .. Len(queue) : ~ CanAdmit(queue[i])
  /\ Capacity!Refuse(TouchedBy(1 .. Len(queue)))
  /\ UNCHANGED <<order, eligible, queue, lastTenant>>

Complete(id) ==
  /\ Capacity!Release(id)
  /\ UNCHANGED <<order, eligible, queue, lastTenant>>

Tick == Capacity!Age /\ UNCHANGED <<order, eligible, queue, lastTenant>>

\* Policy, budget and deadlines make other candidates eligible.
Reevaluate(o, es) ==
  /\ eligible' = [eligible EXCEPT ![o] = es]
  /\ UNCHANGED <<order, queue, lastTenant, capacityVars>>

Next ==
  \/ \E o \in Operations : Enqueue(o) \/ Admit(o)
  \/ ScheduleNone
  \/ \E i \in 1 .. Len(queue) : ScheduleNext(i)
  \/ \E id \in OperationIds : Complete(id)
  \/ \E o \in Operations, es \in Eligibility : Reevaluate(o, es)
  \/ Tick

Spec == Init /\ [][Next]_vars

--------------------------------------------------------------------------------
(* Properties *)

ActiveIsLeased == Capacity!ActiveIsLeased
RateWithinWindow == Capacity!RateWithinWindow

\* What the orders promise (test_model_routing.py 226-250).  An operation taken
\* from the queue overtakes no admissible one that was queued before it (fifo),
\* that is interactive while it is not (interactive_first), or that is queued
\* before it by the same tenant or first in line for a tenant that did not have
\* the last turn while its own did (tenant_round_robin).
Overtaken(i) == {j \in 1 .. Len(queue) \ {i} :
  /\ CanAdmit(queue[j])
  /\ CASE order = "fifo" -> j < i
       [] order = "interactive_first" ->
            queue[j].path = "interactive" /\ queue[i].path # "interactive"
       [] order = "tenant_round_robin" ->
            \/ queue[j].tenant = queue[i].tenant /\ j < i
            \/ /\ queue[i].tenant = lastTenant
               /\ queue[j].tenant # lastTenant
               /\ j = FirstOf(queue[j].tenant)}

ServedInOrder ==
  [][\A i \in 1 .. Len(queue) : queue' = RemoveAt(queue, i) => Overtaken(i) = {}]_vars
================================================================================

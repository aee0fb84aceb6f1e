------------------------------ MODULE Admission ------------------------------
(***************************************************************************)
(* Admission: an envelope is routed to one path, its configuration is      *)
(* bound, a context is created and the path's dispatcher runs              *)
(* (admission/router.py, control_plane/context.py, the dispatchers of      *)
(* composition/prototype.py).  A bulk job is submitted item by item, with  *)
(* no transaction around the job, so another caller, a conflict or a crash *)
(* can come between two items.  Accepted work is then prepared under the   *)
(* context of the decision (tasks/runtime.py), by this process or, after a *)
(* restart and a repeated admission, by the next one.                      *)
(*                                                                         *)
(* Abstracted: identifiers and times of a context; the budget scope it is  *)
(* bound to first (BudgetLedger.Bind); what an interactive execution does  *)
(* (Interactive); the relay's interleavings (BulkDelivery) and the stages  *)
(* after preparation (BulkWorker).                                         *)
(***************************************************************************)
EXTENDS Configuration, Sequences, SequencesExt

CONSTANTS Clients, Jobs, Items, Payloads, NoItem,
  TaskOf,       \* payload -> the task function and the version it asks for
  Requests,     \* caller -> the envelopes it may send
  MaxCrashes    \* bound on crashes

Paths   == {"interactive", "bulk"}
NoPath  == "no path"

AdmissionEnvelope ==
  [payloads: SUBSET Paths, discriminator: Paths \cup {NoPath}, deadline: BOOLEAN,
   reference: References, job: Jobs, items: Seq(Items), payload: Payloads]

\* What the canonical bytes of a payload say of the task; its parameters and rows
\* only tell payloads apart.
TaskInvocation ==
  [function: Functions, requested: Definitions \cup {NoDefinition}]

\* prepared: the definition the stored preparation was made with.
ItemRecord ==
  [reference: References, payload: Payloads, prepared: Definitions \cup {NoDefinition},
   open: BOOLEAN]

ASSUME AdmissionAssumption ==
  /\ Requests \in [Clients -> SUBSET AdmissionEnvelope]
  /\ TaskOf \in [Payloads -> TaskInvocation]
  /\ NoItem \notin ItemRecord
  /\ MaxCrashes \in Nat

VARIABLES
  request,    \* client -> the envelope it sends
  attempt,    \* client -> the call of admit under way or answered
  items,      \* the durable items of the jobs
  outbox,     \* whether an item's event is pending or published
  crashes

clientVars == <<request, attempt, items, outbox, crashes>>
vars == <<registryVars, clientVars>>

Idle == [pc |-> "new", path |-> NoPath, content |-> NoContent, todo |-> <<>>]

Item(reference, payload) ==
  [reference |-> reference, payload |-> payload, prepared |-> NoDefinition, open |-> TRUE]

Init ==
  /\ StartRegistries
  /\ request \in {f \in [Clients -> UNION {Requests[c] : c \in Clients}] :
                   \A c \in Clients : f[c] \in Requests[c]}
  /\ attempt = [c \in Clients |-> Idle]
  /\ items = [j \in Jobs |-> [i \in Items |-> NoItem]]
  /\ outbox = [j \in Jobs |-> [i \in Items |-> "none"]]
  /\ crashes = 0

--------------------------------------------------------------------------------
(* Routing *)

\* Mutant of PathOf: an interactive payload wins.
PathInteractiveFirst(r) ==
  IF "interactive" \in r.payloads THEN {"interactive"} ELSE r.payloads

\* discriminate_path: {} when the payloads and the discriminator name no path.
PathOf(r) ==
  IF r.payloads = Paths THEN {r.discriminator} \ {NoPath}
  ELSE {p \in r.payloads : r.discriminator \in {NoPath, p}}

\* admit, up to the call of the dispatcher.
Route(c) == LET r == request[c] IN
  /\ attempt[c].pc = "new"
  /\ \/ /\ PathOf(r) = {} \/ ~Bindable(r.reference)
        /\ attempt' = [attempt EXCEPT ![c].pc = "rejected"]
     \/ /\ Bindable(r.reference)
        /\ \E p \in PathOf(r) :
             attempt' = [attempt EXCEPT ![c] =
               [pc |-> "dispatch", path |-> p, content |-> Bound(r.reference),
                todo |-> IF p = "bulk" THEN r.items ELSE <<>>]]
  /\ UNCHANGED <<registryVars, request, items, outbox, crashes>>

\* InteractiveCoordinator.dispatch: a context without a deadline raises.
DispatchInteractive(c) ==
  /\ attempt[c].pc = "dispatch" /\ attempt[c].path = "interactive"
  /\ attempt' = [attempt EXCEPT ![c].pc =
                   IF request[c].deadline THEN "accepted" ELSE "raised"]
  /\ UNCHANGED <<registryVars, request, items, outbox, crashes>>

--------------------------------------------------------------------------------
(* Bulk dispatch *)

\* What the payload of an item is stored as: its digest, the same every time.
PayloadOf(c) == request[c].payload

\* Mutants of SameWork: the configuration, or nothing, is compared.
SamePayload(item, reference, payload) == item.payload = payload
NeverSame(item, reference, payload) == FALSE

\* create_with_outbox accepts an existing item only if it is this work.
SameWork(item, reference, payload) == item.reference = reference /\ item.payload = payload

\* One iteration of _BulkDispatcher.dispatch: submit, create_with_outbox.
SubmitItem(c) ==
  LET j == request[c].job  r == request[c].reference IN
  /\ attempt[c].pc = "dispatch" /\ attempt[c].path = "bulk" /\ attempt[c].todo # <<>>
  /\ LET i == Head(attempt[c].todo) IN
     \/ /\ items[j][i] = NoItem
        /\ items' = [items EXCEPT ![j][i] = Item(r, PayloadOf(c))]
        /\ outbox' = [outbox EXCEPT ![j][i] = "pending"]
        /\ attempt' = [attempt EXCEPT ![c].todo = Tail(@)]
     \/ /\ items[j][i] # NoItem
        /\ attempt' = IF SameWork(items[j][i], r, PayloadOf(c))
                      THEN [attempt EXCEPT ![c].todo = Tail(@)]
                      ELSE [attempt EXCEPT ![c].pc = "raised"]
        /\ UNCHANGED <<items, outbox>>
  /\ UNCHANGED <<registryVars, request, crashes>>

\* relay_pending publishes whatever is pending, then admit returns.
RelayAndAccept(c) ==
  /\ attempt[c].pc = "dispatch" /\ attempt[c].path = "bulk" /\ attempt[c].todo = <<>>
  /\ outbox' = [j \in Jobs |-> [i \in Items |->
                  IF outbox[j][i] = "pending" THEN "published" ELSE outbox[j][i]]]
  /\ attempt' = [attempt EXCEPT ![c].pc = "accepted"]
  /\ UNCHANGED <<registryVars, request, items, crashes>>

--------------------------------------------------------------------------------
(* Preparation under the bound configuration *)

\* TaskRuntime.resolve: the version bound for the function of the stored payload,
\* which that payload may only confirm.
Resolvable(content, payload) == LET task == TaskOf[payload] IN
  {d \in Resolved(content, task.function) : task.requested \in {NoDefinition, d}}

\* The first stage of an item (_prepare_task): a resolution failure ends the item.
Prepare(c, i) == LET j == request[c].job IN
  /\ attempt[c].pc = "accepted" /\ attempt[c].path = "bulk"
  /\ i \in ToSet(request[c].items)
  /\ items[j][i] # NoItem /\ items[j][i].open /\ items[j][i].prepared = NoDefinition
  /\ LET found == Resolvable(attempt[c].content, items[j][i].payload) IN
     \/ \E d \in found : items' = [items EXCEPT ![j][i].prepared = d]
     \/ found = {} /\ items' = [items EXCEPT ![j][i].open = FALSE]
  /\ UNCHANGED <<registryVars, request, attempt, outbox, crashes>>

--------------------------------------------------------------------------------
(* Restarts and retries *)

\* A crash empties the registries and loses every context; the store stays.
Crash ==
  /\ crashes < MaxCrashes
  /\ crashes' = crashes + 1
  /\ RestartRegistries
  /\ attempt' = [c \in Clients |->
       CASE attempt[c].pc = "dispatch" -> [attempt[c] EXCEPT !.pc = "lost"]
         [] attempt[c].pc = "accepted" -> [attempt[c] EXCEPT !.pc = "left"]
         [] OTHER -> attempt[c]]
  /\ UNCHANGED <<request, items, outbox>>

\* The caller sends the same envelope again: after a crash, to finish or to go on
\* with its job, or after a rejection, when the profile may have been activated.
Again(c) ==
  /\ attempt[c].pc \in {"lost", "left", "rejected"}
  /\ attempt[c].pc = "left" => request[c].payloads = {"bulk"}
  /\ attempt[c].pc = "rejected" => Bindable(request[c].reference) /\ PathOf(request[c]) # {}
  /\ attempt' = [attempt EXCEPT ![c] = Idle]
  /\ UNCHANGED <<registryVars, request, items, outbox, crashes>>

Registries == RegistryStep /\ UNCHANGED clientVars

Admit(c) == Route(c) \/ DispatchInteractive(c) \/ SubmitItem(c) \/ RelayAndAccept(c)

Next ==
  \/ Registries
  \/ Crash
  \/ \E c \in Clients : Admit(c) \/ Again(c) \/ \E i \in Items : Prepare(c, i)

\* admit runs to its end, and a caller whose attempt was lost makes it again.
Fairness == \A c \in Clients : WF_vars(Admit(c)) /\ WF_vars(Again(c))

Spec == Init /\ [][Next]_vars /\ Fairness

--------------------------------------------------------------------------------
(* Properties *)

\* An execution keeps the content that was activated under its reference, also
\* when other evidence, another spelling or another profile comes later: activate
\* never changes what a reference stands for (control_plane/configuration.py 330-337).
BoundContentFixed ==
  /\ \A pair \in activated : versions[pair[1]] = pair[2]
  /\ \A c \in Clients : attempt[c].pc \in {"dispatch", "accepted"} =>
       /\ attempt[c].content = versions[request[c].reference]
       /\ attempt[c].content.meaning = request[c].reference.digest

\* The answer "accepted" to a bulk envelope covers the whole job: every item is
\* stored for this configuration and payload and is announced, whatever other
\* callers, crashes and earlier attempts left of the job (prototype.py 115-134,
\* bulk/memory.py 53-69).
AcceptedJobStored ==
  \A c \in Clients : attempt[c].pc \in {"accepted", "left"} /\ attempt[c].path = "bulk" =>
    \A i \in ToSet(request[c].items) : LET item == items[request[c].job][i] IN
      /\ item # NoItem
      /\ item.reference = request[c].reference
      /\ item.payload = request[c].payload
      /\ outbox[request[c].job][i] = "published"

\* Two items of one task function accepted under one reference are never prepared
\* with different definitions, not even one before and one after a restart with
\* other definitions registered, and none with a definition of another function
\* (tasks/runtime.py 59-117).
ReferenceFixesDefinition ==
  \A j, k \in Jobs : \A i, l \in Items :
    LET a == items[j][i]  b == items[k][l] IN
    /\ a # NoItem /\ b # NoItem /\ a.reference = b.reference
    /\ NoDefinition \notin {a.prepared, b.prepared}
    => (a.prepared = b.prepared <=> TaskOf[a.payload].function = TaskOf[b.payload].function)

\* Admission keeps its promise: one unambiguous path, and rejection before it.
Answer(c) ==
  CASE attempt[c].pc \in {"new", "dispatch"} -> "none"
    [] attempt[c].pc = "left" -> "accepted"
    [] OTHER -> attempt[c].pc

NamedPaths(c) == LET r == request[c] IN
  {p \in r.payloads : r.discriminator = p \/ (r.discriminator = NoPath /\ r.payloads = {p})}

Promise == INSTANCE AdmissionPromise WITH
  choices <- [c \in Clients |-> NamedPaths(c)],
  answer <- [c \in Clients |-> Answer(c)],
  taken <- [c \in Clients |-> attempt[c].path]

PromiseKept == Promise!Spec

\* A bulk attempt lost in a crash half-way through its job is accepted when it is
\* sent again, if its profile is activated again and no other caller claims the
\* job for other work: what the lost attempt stored is taken for its own.
Unrivalled(c) == \A d \in Clients : request[d].job = request[c].job =>
  request[d].reference = request[c].reference /\ request[d].payload = request[c].payload

RetriedIsAccepted ==
  \A c \in Clients : <>[]Bindable(request[c].reference) =>
    (attempt[c].pc = "lost" /\ attempt[c].path = "bulk" /\ Unrivalled(c)
       ~> attempt[c].pc = "accepted")
================================================================================

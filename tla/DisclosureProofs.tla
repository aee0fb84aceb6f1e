--------------------------- MODULE DisclosureProofs ----------------------------
(***************************************************************************)
(* What reaches the database and the model provider was permitted, for all *)
(* calls, plans, policies and answers.  Both decisions are taken before a  *)
(* wait and used after it; they still hold then because a registered plan  *)
(* or policy is never replaced, because a call that is read is never       *)
(* touched again, and because a refused call never goes on.                *)
(*                                                                         *)
(* The rows of a result are in order: the keys of rows are totally ordered *)
(* lexicographically, by their first difference, so that ranks, counted as *)
(* sorted() places rows, are the numbers of the rows, each once.           *)
(***************************************************************************)
EXTENDS ModelDisclosure, FiniteSetTheorems, SequenceTheorems, WellFoundedInduction, TLAPS

--------------------------------------------------------------------------------
(* Operation trees *)

\* The tree of an operation holds it and, for every member, its children.
LEMMA TreeClosed ==
  ASSUME NEW node \in OperationNodes
  PROVE  /\ TreeOf(node) \in SUBSET OperationNodes /\ node \in TreeOf(node)
         /\ ClosedUnderChildren(TreeOf(node))
<1>1. ASSUME NEW n \in TreeOf(node), NEW child \in Children(n)
      PROVE  child \in TreeOf(node)
  <2>1. n \in OperationNodes /\ child \in OperationNodes
    BY <1>1, ReadAssumption DEF TreeOf, ClosedUnderChildren
  <2>2. ASSUME NEW nodes \in SUBSET OperationNodes, node \in nodes, ClosedUnderChildren(nodes)
        PROVE  child \in nodes
    BY <1>1, <2>2 DEF TreeOf, ClosedUnderChildren
  <2> QED
    BY <2>1, <2>2 DEF TreeOf
<1> QED
  BY <1>1 DEF TreeOf, ClosedUnderChildren

\* A plan that is classified as neither a mutation nor unsupported only retrieves.
LEMMA OnlyRetrieves ==
  ASSUME NEW node \in OperationNodes,
         ClassifyOperation(node) \notin {"mutation", "unsupported"}
  PROVE  \E nodes \in SUBSET OperationNodes :
           /\ node \in nodes /\ ClosedUnderChildren(nodes)
           /\ \A n \in nodes : n.kind \in Retrieval
<1>1. OperationKinds(node) \subseteq Retrieval
  BY DEF ClassifyOperation, Classified
<1>2. \A n \in TreeOf(node) : n.kind \in Retrieval
  BY <1>1 DEF OperationKinds
<1> QED
  BY <1>2, TreeClosed

--------------------------------------------------------------------------------
(* Reads *)

Pcs == {"new", "authorizing", "auditing", "reading", "read", "rejected", "failed", "cancelled"}

RawValues == {<<>>} \cup RawResults
RowValues == {<<>>} \cup {raw.rows : raw \in RawResults}
             \cup {Sorted(raw, p.order) : raw \in RawResults, p \in Plans}

CallState == [request: Requests, pc: Pcs, plan: Plans \cup {NoPlan},
              raw: RawValues, rows: RowValues]

ReadTypeInv ==
  /\ plans \in [PlanReferences -> Plans \cup {NoPlan}]
  /\ call \in [Calls -> CallState]
  /\ submitted \subseteq Calls \X Plans \X Decisions
  /\ refused \subseteq Calls

\* What a call that waits knows of its plan still holds, whatever is registered.
PlanInv ==
  \A c \in Calls : call[c].pc \in {"authorizing", "reading", "read"} =>
    /\ plans[call[c].request.reference] = call[c].plan
    /\ call[c].plan \in Plans
    /\ ClassifyOperation(call[c].plan.operation) \notin {"mutation", "unsupported"}

\* What was handed to the adapter belongs to a call that was granted, not refused.
SubmittedInv ==
  \A s \in submitted :
    LET r == call[s[1]].request IN
    /\ s[1] \notin refused /\ call[s[1]].pc \notin {"new", "authorizing", "auditing"}
    /\ plans[r.reference] = s[2]
    /\ ClassifyOperation(s[2].operation) \notin {"mutation", "unsupported"}
    /\ Granted(s[3], r)

RefusedInv == \A c \in refused : call[c].pc \in {"auditing", "rejected"}

\* The rows of a result are those of an answer that normalizes, sorted if the plan
\* has an order.
RightRows(st) ==
  /\ st.raw \in RawResults /\ Normalizes(st.raw, st.plan)
  /\ st.rows = IF st.plan.order = <<>> THEN st.raw.rows ELSE Sorted(st.raw, st.plan.order)

RowsInv == \A c \in Calls : call[c].pc = "read" => RightRows(call[c])

ReadInv == ReadTypeInv /\ PlanInv /\ SubmittedInv /\ RefusedInv /\ RowsInv

LEMMA ReadInitCorrect == ReadInit => ReadInv
<1> SUFFICES ASSUME ReadInit PROVE ReadInv
  OBVIOUS
<1>1. PICK f \in [Calls -> Requests] : call = [c \in Calls |-> NewCall(f[c])]
  BY DEF ReadInit
<1>2. \A c \in Calls : call[c] \in CallState /\ call[c].pc = "new"
  BY <1>1 DEF NewCall, CallState, Pcs, RawValues, RowValues
<1>3. plans \in [PlanReferences -> Plans \cup {NoPlan}] /\ submitted = {} /\ refused = {}
  BY DEF ReadInit
<1> QED
  BY <1>1, <1>2, <1>3
     DEF ReadInv, ReadTypeInv, PlanInv, SubmittedInv, RefusedInv, RowsInv

\* Whether a plan was found does not change: a registered plan is not replaced.
LEMMA RegisterKeeps ==
  ASSUME ReadInv, NEW r \in PlanReferences, NEW p \in Plans, RegisterPlan(r, p)
  PROVE  ReadInv'
<1>1. /\ ReadTypeInv /\ plans' = [plans EXCEPT ![r] = p] /\ plans[r] \in {NoPlan, p}
      /\ UNCHANGED <<call, submitted, refused>>
  BY DEF ReadInv, RegisterPlan, Registrable
<1>2. \A q \in PlanReferences : plans[q] # NoPlan => plans'[q] = plans[q]
  BY <1>1 DEF ReadTypeInv
<1>3. \A c \in Calls : call[c].request.reference \in PlanReferences
  BY <1>1, ReadAssumption DEF ReadTypeInv, CallState
<1>4. ReadTypeInv'
  BY <1>1 DEF ReadTypeInv
<1>5. PlanInv'
  BY <1>1, <1>2, <1>3, ReadAssumption DEF ReadInv, PlanInv
<1>6. SubmittedInv'
  <2> SUFFICES ASSUME NEW s \in submitted
               PROVE  plans'[call[s[1]].request.reference] = s[2]
    BY <1>1 DEF ReadInv, SubmittedInv
  <2>1. s[1] \in Calls /\ s[2] \in Plans
    BY <1>1 DEF ReadTypeInv
  <2> QED
    BY <1>2, <1>3, <2>1, ReadAssumption DEF ReadInv, SubmittedInv
<1>7. RefusedInv' /\ RowsInv'
  BY <1>1 DEF ReadInv, RefusedInv, RowsInv
<1> QED
  BY <1>4, <1>5, <1>6, <1>7 DEF ReadInv

\* A step that moves one call on and leaves what it knows alone.
Moves(c, pc) ==
  /\ call' = [call EXCEPT ![c] = [call[c] EXCEPT !.pc = pc]]
  /\ UNCHANGED plans

LEMMA MovesKeeps ==
  ASSUME ReadTypeInv, NEW c \in Calls, NEW pc \in Pcs, Moves(c, pc)
  PROVE  /\ call' \in [Calls -> CallState]
         /\ call'[c].pc = pc /\ call'[c].request = call[c].request
         /\ call'[c].plan = call[c].plan
         /\ call'[c].raw = call[c].raw /\ call'[c].rows = call[c].rows
         /\ \A d \in Calls : d # c => call'[d] = call[d]
<1>1. call[c] \in CallState
  BY DEF ReadTypeInv
<1> QED
  BY <1>1 DEF ReadTypeInv, Moves, CallState

\* What ends or refuses a call disturbs nothing that was permitted.
LEMMA EndKeeps ==
  ASSUME ReadInv, NEW c \in Calls, NEW pc \in {"auditing", "rejected", "failed", "cancelled"},
         Moves(c, pc), submitted' = submitted,
         \/ refused' = refused /\ (c \in refused => pc \in {"auditing", "rejected"})
            /\ (pc = "auditing" => c \in refused)
         \/ refused' = refused \cup {c} /\ pc = "auditing" /\ call[c].pc \in {"new", "authorizing"}
  PROVE  ReadInv'
<1>1. ReadTypeInv /\ pc \in Pcs
  BY DEF ReadInv, Pcs
<1>2. /\ call' \in [Calls -> CallState]
      /\ call'[c].pc = pc /\ call'[c].request = call[c].request
      /\ \A d \in Calls : d # c => call'[d] = call[d]
      /\ plans' = plans
  BY <1>1, MovesKeeps DEF Moves
<1>3. ReadTypeInv'
  BY <1>1, <1>2 DEF ReadTypeInv
<1>4. PlanInv' /\ RowsInv'
  BY <1>2 DEF ReadInv, PlanInv, RowsInv
<1>5. RefusedInv'
  BY <1>1, <1>2 DEF ReadInv, RefusedInv, ReadTypeInv
<1>6. SubmittedInv'
  <2> SUFFICES ASSUME NEW s \in submitted
               PROVE  LET r == call'[s[1]].request IN
                      /\ s[1] \notin refused' /\ call'[s[1]].pc \notin {"new", "authorizing", "auditing"}
                      /\ plans[r.reference] = s[2]
                      /\ ClassifyOperation(s[2].operation) \notin {"mutation", "unsupported"}
                      /\ Granted(s[3], r)
    BY <1>2 DEF SubmittedInv
  <2>1. /\ s[1] \in Calls /\ s[1] \notin refused
        /\ call[s[1]].pc \notin {"new", "authorizing", "auditing"}
        /\ plans[call[s[1]].request.reference] = s[2]
        /\ ClassifyOperation(s[2].operation) \notin {"mutation", "unsupported"}
        /\ Granted(s[3], call[s[1]].request)
    BY <1>1 DEF ReadInv, ReadTypeInv, SubmittedInv
  <2> QED
    BY <1>2, <2>1
<1> QED
  BY <1>3, <1>4, <1>5, <1>6 DEF ReadInv

\* The last case of StartRead: a registered plan that only retrieves.
LEMMA AuthorizingStep ==
  ASSUME ReadInv, NEW c \in Calls, NEW plan, call[c].pc = "new",
         plan = plans[call[c].request.reference], plan # NoPlan,
         ClassifyOperation(plan.operation) \notin {"mutation", "unsupported"},
         call' = [call EXCEPT ![c].pc = "authorizing", ![c].plan = plan],
         UNCHANGED <<plans, submitted, refused>>
  PROVE  ReadInv'
<1>1. ReadTypeInv /\ call[c] \in CallState
  BY DEF ReadInv, ReadTypeInv
<1>2. plan \in Plans
  BY <1>1, ReadAssumption DEF ReadTypeInv, CallState
<1>3. /\ call'[c] \in CallState /\ call'[c].pc = "authorizing" /\ call'[c].plan = plan
      /\ call'[c].request = call[c].request
      /\ \A d \in Calls : d # c => call'[d] = call[d]
  BY <1>1, <1>2 DEF ReadTypeInv, CallState, Pcs
<1>4. ReadTypeInv'
  BY <1>1, <1>3 DEF ReadTypeInv
<1>5. PlanInv' /\ RowsInv'
  <2>1. PlanInv'
    BY <1>2, <1>3 DEF ReadInv, PlanInv
  <2>2. \A d \in Calls : call'[d].pc = "read" => call[d].pc = "read" /\ call'[d] = call[d]
    BY <1>3
  <2>3. RowsInv'
    BY <2>2 DEF ReadInv, RowsInv
  <2> QED
    BY <2>1, <2>3
<1>6. RefusedInv'
  BY <1>1, <1>3 DEF ReadInv, RefusedInv, ReadTypeInv
<1>7. \A s \in submitted : s[1] \in Calls /\ s[1] # c
  BY <1>1 DEF ReadInv, ReadTypeInv, SubmittedInv
<1>8. SubmittedInv'
  <2>1. \A s \in submitted : call'[s[1]] = call[s[1]]
    BY <1>3, <1>7
  <2> QED
    BY <2>1 DEF ReadInv, SubmittedInv
<1> QED
  BY <1>4, <1>5, <1>6, <1>8 DEF ReadInv

LEMMA StartReadStep ==
  ASSUME ReadInv, NEW c \in Calls, StartRead(c)
  PROVE  ReadInv'
<1> DEFINE r == call[c].request
           plan == plans[r.reference]
           class == IF plan = NoPlan THEN "absent" ELSE ClassifyOperation(plan.operation)
           plainly == IF plan = NoPlan THEN TRUE ELSE PlainlyRejected(plan, r)
<1>1. call[c].pc = "new" /\ UNCHANGED <<plans, submitted>>
  BY DEF StartRead
<1>2. CASE To(c, "auditing") /\ refused' = refused \cup {c}
  BY <1>1, <1>2, EndKeeps DEF To, Moves
<1>3. CASE To(c, "rejected") /\ UNCHANGED refused
  BY <1>1, <1>3, EndKeeps DEF To, Moves
<1>4. CASE /\ class # "mutation" /\ ~plainly
           /\ call' = [call EXCEPT ![c].pc = "authorizing", ![c].plan = plan]
           /\ UNCHANGED refused
  <2>1. plan # NoPlan /\ ClassifyOperation(plan.operation) \notin {"mutation", "unsupported"}
    BY <1>4 DEF PlainlyRejected
  <2>2. PICK p : p = plan
    OBVIOUS
  <2> QED
    BY <1>1, <1>4, <2>1, <2>2, AuthorizingStep
<1> QED
  BY <1>2, <1>3, <1>4 DEF StartRead

LEMMA AuthorizeStep ==
  ASSUME ReadInv, NEW c \in Calls, Authorize(c)
  PROVE  ReadInv'
<1>1. ReadTypeInv /\ call[c].pc = "authorizing" /\ plans' = plans
  BY DEF ReadInv, Authorize
<1>2. PICK d \in Decisions :
        IF Granted(d, call[c].request)
        THEN /\ To(c, "reading") /\ submitted' = submitted \cup {<<c, call[c].plan, d>>}
             /\ UNCHANGED refused
        ELSE To(c, "auditing") /\ refused' = refused \cup {c} /\ UNCHANGED submitted
  BY DEF Authorize
<1>3. CASE Granted(d, call[c].request)
  <2>1. /\ Moves(c, "reading") /\ UNCHANGED refused
        /\ submitted' = submitted \cup {<<c, call[c].plan, d>>}
    BY <1>1, <1>2, <1>3 DEF To, Moves
  <2>2. /\ call' \in [Calls -> CallState]
        /\ call'[c].pc = "reading" /\ call'[c].request = call[c].request
        /\ call'[c].plan = call[c].plan
        /\ \A e \in Calls : e # c => call'[e] = call[e]
    BY <1>1, <2>1, MovesKeeps DEF Pcs
  <2>3. /\ plans[call[c].request.reference] = call[c].plan /\ call[c].plan \in Plans
        /\ ClassifyOperation(call[c].plan.operation) \notin {"mutation", "unsupported"}
        /\ c \notin refused
    BY <1>1 DEF ReadInv, PlanInv, RefusedInv
  <2>4. ReadTypeInv'
    BY <1>1, <2>1, <2>2, <2>3 DEF ReadTypeInv
  <2>5. PlanInv' /\ RowsInv'
    BY <1>1, <2>2, <2>3 DEF ReadInv, PlanInv, RowsInv
  <2>6. RefusedInv'
    BY <1>1, <2>1, <2>2, <2>3 DEF ReadInv, RefusedInv, ReadTypeInv
  <2>7. \A s \in submitted : s[1] \in Calls /\ s[1] # c
    BY <1>1 DEF ReadInv, ReadTypeInv, SubmittedInv
  <2>8. SubmittedInv'
    <3> SUFFICES ASSUME NEW s \in submitted'
                 PROVE  LET r == call'[s[1]].request IN
                        /\ s[1] \notin refused /\ call'[s[1]].pc \notin {"new", "authorizing", "auditing"}
                        /\ plans[r.reference] = s[2]
                        /\ ClassifyOperation(s[2].operation) \notin {"mutation", "unsupported"}
                        /\ Granted(s[3], r)
      BY <1>1, <2>1 DEF SubmittedInv
    <3>1. CASE s \in submitted
      BY <2>2, <2>7, <3>1 DEF ReadInv, SubmittedInv
    <3>2. CASE s = <<c, call[c].plan, d>>
      BY <1>3, <2>2, <2>3, <3>2
    <3> QED
      BY <2>1, <3>1, <3>2
  <2> QED
    BY <2>4, <2>5, <2>6, <2>8 DEF ReadInv
<1>4. CASE ~ Granted(d, call[c].request)
  BY <1>1, <1>2, <1>4, EndKeeps DEF To, Moves
<1> QED
  BY <1>3, <1>4

LEMMA ReceiveStep ==
  ASSUME ReadInv, NEW c \in Calls, Receive(c)
  PROVE  ReadInv'
<1>1. /\ ReadTypeInv /\ call[c].pc = "reading" /\ UNCHANGED <<plans, submitted, refused>>
      /\ call[c] \in CallState /\ c \notin refused
  BY DEF ReadInv, Receive, ReadTypeInv, RefusedInv
<1>2. PICK raw \in RawResults :
        IF Normalizes(raw, call[c].plan)
        THEN call' = [call EXCEPT ![c].pc = "read", ![c].raw = raw,
               ![c].rows = IF call[c].plan.order = <<>> THEN raw.rows
                           ELSE Sorted(raw, call[c].plan.order)]
        ELSE To(c, "rejected")
  BY DEF Receive
<1>3. CASE ~ Normalizes(raw, call[c].plan)
  BY <1>1, <1>2, <1>3, EndKeeps DEF To, Moves
<1>4. CASE Normalizes(raw, call[c].plan)
  <2>1. PICK rows : rows = IF call[c].plan.order = <<>> THEN raw.rows
                           ELSE Sorted(raw, call[c].plan.order)
    OBVIOUS
  <2>2. call[c].plan \in Plans
    BY <1>1 DEF ReadInv, PlanInv
  <2>3. rows \in RowValues
    BY <2>1, <2>2 DEF RowValues
  <2>4. call' = [call EXCEPT ![c].pc = "read", ![c].raw = raw, ![c].rows = rows]
    BY <1>2, <1>4, <2>1
  <2>5. /\ call'[c] \in CallState /\ call'[c].pc = "read" /\ call'[c].plan = call[c].plan
        /\ call'[c].request = call[c].request /\ call'[c].raw = raw /\ call'[c].rows = rows
        /\ \A d \in Calls : d # c => call'[d] = call[d]
    BY <1>1, <2>3, <2>4 DEF ReadTypeInv, CallState, Pcs, RawValues
  <2>6. ReadTypeInv'
    BY <1>1, <2>4, <2>5 DEF ReadTypeInv
  <2>7. PlanInv' /\ RowsInv'
    BY <1>1, <1>4, <2>1, <2>5 DEF ReadInv, PlanInv, RowsInv, RightRows
  <2>8. RefusedInv'
    BY <1>1, <2>5 DEF ReadInv, RefusedInv, ReadTypeInv
  <2>9. \A s \in submitted : s[1] \in Calls
    BY <1>1 DEF ReadTypeInv
  <2>10. SubmittedInv'
    BY <1>1, <2>5, <2>9 DEF ReadInv, SubmittedInv
  <2> QED
    BY <2>6, <2>7, <2>8, <2>10 DEF ReadInv
<1> QED
  BY <1>3, <1>4

LEMMA ReadMoves ==
  ASSUME ReadInv, NEW c \in Calls, ReadStep(c)
  PROVE  ReadInv'
<1>1. CASE Audited(c)
  <2>1. call[c].pc = "auditing" /\ Moves(c, "rejected") /\ UNCHANGED <<submitted, refused>>
    BY <1>1 DEF Audited, To, Moves, AfterAudit
  <2> QED
    BY <2>1, EndKeeps
<1>2. CASE ReadFails(c)
  <2>1. /\ call[c].pc \in {"authorizing", "reading"} /\ Moves(c, "failed")
        /\ UNCHANGED <<submitted, refused>>
    BY <1>2 DEF ReadFails, To, Moves
  <2>2. c \notin refused
    BY <2>1 DEF ReadInv, RefusedInv
  <2> QED
    BY <2>1, <2>2, EndKeeps
<1>3. CASE CancelRead(c)
  <2>1. UNCHANGED <<submitted, refused>>
    BY <1>3 DEF CancelRead
  <2>2. CASE call[c].pc \in {"authorizing", "reading"} /\ Moves(c, "cancelled")
    <3>1. c \notin refused
      BY <2>2 DEF ReadInv, RefusedInv
    <3> QED
      BY <2>1, <2>2, <3>1, EndKeeps
  <2>3. CASE call[c].pc = "auditing" /\ Moves(c, "rejected")
    BY <2>1, <2>3, EndKeeps
  <2> QED
    BY <1>3, <2>2, <2>3 DEF CancelRead, To, Moves, AfterAudit
<1> QED
  BY <1>1, <1>2, <1>3, StartReadStep, AuthorizeStep, ReceiveStep DEF ReadStep

\* What is read, and what was handed to the adapter, never changes again.
LEMMA ReadStays ==
  ASSUME ReadInv, NEW c \in Calls, call[c].pc = "read", NEW d \in Calls, ReadStep(d)
  PROVE  call'[c] = call[c]
<1>1. call[d].pc # "read"
  BY DEF ReadStep, StartRead, Authorize, Receive, Audited, ReadFails, CancelRead
<1>2. c # d
  BY <1>1
<1>3. call \in [Calls -> CallState]
  BY DEF ReadInv, ReadTypeInv
<1> QED
  BY <1>2, <1>3
     DEF ReadStep, StartRead, Authorize, Receive, Audited, ReadFails, CancelRead, To

--------------------------------------------------------------------------------
(* Disclosures *)

DisclosureTypeInv ==
  /\ policies \in [PolicyVersions -> Policies \cup {NoPolicy}]
  /\ operation \in [Calls -> Operations]
  /\ DOMAIN stage = Calls /\ DOMAIN payload = Calls /\ DOMAIN policy = Calls
  /\ stage = [c \in Calls |-> stage[c]] /\ payload = [c \in Calls |-> payload[c]]
  /\ policy = [c \in Calls |-> policy[c]]
  /\ \A d \in disclosed : d.call \in Calls

\* A payload is built from the rows of its call as its operation asks.
Built(c, built) ==
  LET mapping == operation[c].mapping IN
  IF mapping = NoMapping THEN built = PlainPayload(call[c].rows)
  ELSE /\ RowsMap(call[c].raw, call[c].rows, mapping)
       /\ built = TaskPayload(call[c].raw, call[c].rows, mapping)

\* The policy an invocation resolved is the one of its version, and permits it.
Resolved(c) == policy[c] = PolicyOf(c) /\ Permits(policy[c], operation[c])

\* What was decided before the wait for authentication still holds after it.
StageInv ==
  \A c \in Calls :
    /\ stage[c] # "none" => call[c].pc = "read"
    /\ stage[c] \in {"prepared", "authenticating"} => Built(c, payload[c])
    /\ stage[c] = "authenticating" => Resolved(c)

\* A call that disclosed has left the stages before, so that its payload and policy
\* stay.
DisclosedInv ==
  \A d \in disclosed :
    /\ call[d.call].pc = "read" /\ stage[d.call] \notin {"none", "prepared", "authenticating"}
    /\ Resolved(d.call)
    /\ Built(d.call, payload[d.call])
    /\ d.shown = Mask(payload[d.call], policy[d.call])

DisclosureInv == DisclosureTypeInv /\ StageInv /\ DisclosedInv

LEMMA DisclosureInitCorrect == Init => DisclosureInv
BY DEF Init, DisclosureInv, DisclosureTypeInv, StageInv, DisclosedInv

LEMMA ReadingKeeps ==
  ASSUME ReadInv, DisclosureInv, UNCHANGED disclosureVars,
         \A c \in Calls : call[c].pc = "read" => call'[c] = call[c]
  PROVE  DisclosureInv'
<1>1. UNCHANGED <<policies, operation, stage, payload, policy, disclosed>>
  BY DEF disclosureVars
<1>2. DisclosureTypeInv'
  BY <1>1 DEF DisclosureInv, DisclosureTypeInv
<1>3. \A c \in Calls : \A b : call[c].pc = "read" /\ Built(c, b) => Built(c, b)'
  BY <1>1 DEF Built
<1>4. \A c \in Calls : Resolved(c) => Resolved(c)'
  BY <1>1 DEF Resolved, PolicyOf
<1>5. StageInv'
  BY <1>1, <1>3, <1>4 DEF DisclosureInv, StageInv
<1>6. DisclosedInv'
  BY <1>1, <1>3, <1>4 DEF DisclosureInv, DisclosureTypeInv, DisclosedInv
<1> QED
  BY <1>2, <1>5, <1>6 DEF DisclosureInv

LEMMA RegisterPolicyKeeps ==
  ASSUME DisclosureInv, NEW v \in PolicyVersions, NEW p \in Policies, RegisterPolicy(v, p)
  PROVE  DisclosureInv'
<1>1. /\ policies' = [policies EXCEPT ![v] = p] /\ policies[v] \in {NoPolicy, p}
      /\ UNCHANGED <<call, operation, stage, payload, policy, disclosed>>
  BY DEF RegisterPolicy, PolicyRegistrable, readVars
<1>2. DisclosureTypeInv'
  BY <1>1 DEF DisclosureInv, DisclosureTypeInv
<1>3. \A w \in PolicyVersions : policies[w] # NoPolicy => policies'[w] = policies[w]
  BY <1>1 DEF DisclosureInv, DisclosureTypeInv
<1>4. \A c \in Calls : operation[c].version \in PolicyVersions
  BY DisclosureAssumption DEF DisclosureInv, DisclosureTypeInv
<1>5. \A c \in Calls : Resolved(c) => Resolved(c)'
  BY <1>1, <1>3, <1>4 DEF Resolved, Permits, PolicyOf
<1>6. \A c \in Calls : \A b : Built(c, b) => Built(c, b)'
  BY <1>1 DEF Built
<1>7. StageInv'
  BY <1>1, <1>5, <1>6 DEF DisclosureInv, StageInv
<1>8. DisclosedInv'
  BY <1>1, <1>5, <1>6 DEF DisclosureInv, DisclosureTypeInv, DisclosedInv
<1> QED
  BY <1>2, <1>7, <1>8 DEF DisclosureInv

\* A step that leaves the payload and the policy of every call but c alone keeps the
\* other calls as they are.
LEMMA OthersKept ==
  ASSUME DisclosureInv, NEW c \in Calls, NEW s, Stage(c, s),
         UNCHANGED <<call, policies, operation>>,
         \A d \in Calls : d # c => payload'[d] = payload[d] /\ policy'[d] = policy[d],
         payload' = [d \in Calls |-> payload'[d]], policy' = [d \in Calls |-> policy'[d]]
  PROVE  /\ stage'[c] = s /\ \A d \in Calls : d # c => stage'[d] = stage[d]
         /\ \A d \in Calls : \A b : Built(d, b)' <=> Built(d, b)
         /\ \A d \in Calls : policy'[d] = policy[d] => (Resolved(d)' <=> Resolved(d))
         /\ disclosed' = disclosed => DisclosureTypeInv'
<1>1. DisclosureTypeInv
  BY DEF DisclosureInv
<1>2. /\ stage'[c] = s /\ \A d \in Calls : d # c => stage'[d] = stage[d]
      /\ disclosed' = disclosed => DisclosureTypeInv'
  BY <1>1 DEF DisclosureTypeInv, Stage
<1>3. \A d \in Calls : \A b : Built(d, b)' <=> Built(d, b)
  BY DEF Built
<1>4. \A d \in Calls : policy'[d] = policy[d] => (Resolved(d)' <=> Resolved(d))
  BY DEF Resolved, PolicyOf
<1> QED
  BY <1>2, <1>3, <1>4

LEMMA PrepareStep ==
  ASSUME DisclosureInv, NEW c \in Calls, Prepare(c)
  PROVE  DisclosureInv'
<1> DEFINE mapping == operation[c].mapping
           built == IF mapping = NoMapping THEN PlainPayload(call[c].rows)
                    ELSE TaskPayload(call[c].raw, call[c].rows, mapping)
<1>1. /\ call[c].pc = "read" /\ stage[c] = "none"
      /\ UNCHANGED <<call, policies, operation, policy, disclosed>>
      /\ DisclosureTypeInv /\ StageInv /\ DisclosedInv
  BY DEF Prepare, readVars, DisclosureInv
<1>2. PICK s : Stage(c, s) /\
        \/ s = "unmapped" /\ payload' = payload
        \/ /\ s = "prepared" /\ payload' = [payload EXCEPT ![c] = built]
           /\ mapping = NoMapping \/ RowsMap(call[c].raw, call[c].rows, mapping)
  BY DEF Prepare
<1>3. s = "prepared" => Built(c, built)
  BY <1>2 DEF Built
<1> HIDE DEF built, mapping
<1>4. /\ \A d \in Calls : d # c => payload'[d] = payload[d]
      /\ payload' = [d \in Calls |-> payload'[d]] /\ policy' = [d \in Calls |-> policy'[d]]
      /\ s = "prepared" => payload'[c] = built
  BY <1>1, <1>2 DEF DisclosureTypeInv
<1>5. /\ stage'[c] = s /\ \A d \in Calls : d # c => stage'[d] = stage[d]
      /\ \A d \in Calls : \A b : Built(d, b)' <=> Built(d, b)
      /\ \A d \in Calls : Resolved(d)' <=> Resolved(d)
      /\ DisclosureTypeInv'
  BY <1>1, <1>2, <1>4, OthersKept
<1>6. s \in {"unmapped", "prepared"}
  BY <1>2
<1>7. StageInv'
  BY <1>1, <1>3, <1>4, <1>5, <1>6 DEF StageInv
<1>8. \A d \in disclosed : d.call \in Calls /\ d.call # c
  BY <1>1 DEF DisclosedInv, DisclosureTypeInv
<1>9. DisclosedInv'
  BY <1>1, <1>4, <1>5, <1>8 DEF DisclosedInv
<1> QED
  BY <1>5, <1>7, <1>9 DEF DisclosureInv

LEMMA InvokeStep ==
  ASSUME DisclosureInv, NEW c \in Calls, Invoke(c)
  PROVE  DisclosureInv'
<1>1. /\ stage[c] = "prepared" /\ UNCHANGED <<call, policies, operation, payload, disclosed>>
      /\ DisclosureTypeInv /\ StageInv /\ DisclosedInv
  BY DEF Invoke, readVars, DisclosureInv
<1>2. PICK s : /\ Stage(c, s)
               /\ \/ s = "reporting"
                  \/ s = "authenticating" /\ Permits(PolicyOf(c), operation[c])
  <2>1. CASE Permits(PolicyOf(c), operation[c])
    BY <2>1 DEF Invoke
  <2>2. CASE ~ Permits(PolicyOf(c), operation[c])
    BY <2>2 DEF Invoke
  <2> QED
    BY <2>1, <2>2
<1>3. policy' = [policy EXCEPT ![c] = PolicyOf(c)]
  BY DEF Invoke
<1>4. /\ policy'[c] = PolicyOf(c) /\ \A d \in Calls : d # c => policy'[d] = policy[d]
      /\ payload' = [d \in Calls |-> payload'[d]] /\ policy' = [d \in Calls |-> policy'[d]]
  BY <1>1, <1>3 DEF DisclosureTypeInv
<1>5. /\ stage'[c] = s /\ \A d \in Calls : d # c => stage'[d] = stage[d]
      /\ \A d \in Calls : \A b : Built(d, b)' <=> Built(d, b)
      /\ \A d \in Calls : d # c => (Resolved(d)' <=> Resolved(d))
      /\ DisclosureTypeInv'
  BY <1>1, <1>2, <1>4, OthersKept
<1>6. s = "authenticating" => Resolved(c)'
  BY <1>1, <1>2, <1>4 DEF Resolved, PolicyOf
<1>7. s # "none" /\ s # "prepared"
  BY <1>2
<1>8. StageInv'
  BY <1>1, <1>5, <1>6, <1>7 DEF StageInv
<1>9. \A d \in disclosed : d.call \in Calls /\ d.call # c
  BY <1>1 DEF DisclosedInv, DisclosureTypeInv
<1>10. DisclosedInv'
  BY <1>1, <1>4, <1>5, <1>9 DEF DisclosedInv
<1> QED
  BY <1>5, <1>8, <1>10 DEF DisclosureInv

\* A disclosure ends, or goes on without anything new being disclosed.
LEMMA StageKeeps ==
  ASSUME DisclosureInv, NEW c \in Calls, NEW s, stage[c] # "none",
         s \notin {"none", "prepared", "authenticating"},
         Stage(c, s), UNCHANGED <<call, policies, operation, payload, policy, disclosed>>
  PROVE  DisclosureInv'
<1>1. DisclosureTypeInv /\ StageInv /\ DisclosedInv
  BY DEF DisclosureInv
<1>2. payload' = [d \in Calls |-> payload'[d]] /\ policy' = [d \in Calls |-> policy'[d]]
  BY <1>1 DEF DisclosureTypeInv
<1>3. /\ stage'[c] = s /\ \A d \in Calls : d # c => stage'[d] = stage[d]
      /\ \A d \in Calls : \A b : Built(d, b)' <=> Built(d, b)
      /\ \A d \in Calls : Resolved(d)' <=> Resolved(d)
      /\ DisclosureTypeInv'
  BY <1>2, OthersKept
<1>4. StageInv'
  BY <1>1, <1>3 DEF StageInv
<1>5. DisclosedInv'
  BY <1>1, <1>3 DEF DisclosedInv, DisclosureTypeInv
<1> QED
  BY <1>3, <1>4, <1>5 DEF DisclosureInv

LEMMA AuthenticatedStep ==
  ASSUME DisclosureInv, NEW c \in Calls, Authenticated(c)
  PROVE  DisclosureInv'
<1>1. /\ stage[c] = "authenticating" /\ UNCHANGED <<call, policies, operation, payload, policy>>
      /\ DisclosureTypeInv /\ StageInv /\ DisclosedInv
  BY DEF Authenticated, readVars, DisclosureInv
<1> DEFINE shown == Mask(payload[c], policy[c])
           new == [call |-> c, shown |-> shown]
<1>2. CASE (Stage(c, "reporting") \/ Stage(c, "failed")) /\ UNCHANGED disclosed
  BY <1>1, <1>2, StageKeeps
<1>3. CASE Stage(c, "invoking") /\ disclosed' = disclosed \cup {new}
  <2>1. payload' = [d \in Calls |-> payload'[d]] /\ policy' = [d \in Calls |-> policy'[d]]
    BY <1>1 DEF DisclosureTypeInv
  <2>2. /\ stage'[c] = "invoking" /\ \A d \in Calls : d # c => stage'[d] = stage[d]
        /\ \A d \in Calls : \A b : Built(d, b)' <=> Built(d, b)
        /\ \A d \in Calls : Resolved(d)' <=> Resolved(d)
    BY <1>1, <1>3, <2>1, OthersKept
  <2>3. new.call = c /\ new.shown = Mask(payload[c], policy[c])
    OBVIOUS
  <2> HIDE DEF new, shown
  <2>4. DisclosureTypeInv'
    BY <1>1, <1>3, <2>3 DEF DisclosureTypeInv, Stage
  <2>5. StageInv'
    BY <1>1, <2>2 DEF StageInv
  <2>6. call[c].pc = "read" /\ Resolved(c) /\ Built(c, payload[c])
    BY <1>1 DEF StageInv
  <2>7. DisclosedInv'
    <3> SUFFICES ASSUME NEW d \in disclosed'
                 PROVE  /\ call[d.call].pc = "read"
                        /\ stage'[d.call] \notin {"none", "prepared", "authenticating"}
                        /\ Resolved(d.call)' /\ Built(d.call, payload[d.call])'
                        /\ d.shown = Mask(payload[d.call], policy[d.call])
      BY <1>1 DEF DisclosedInv
    <3>1. CASE d \in disclosed
      BY <1>1, <2>2, <3>1 DEF DisclosedInv, DisclosureTypeInv
    <3>2. CASE d = new
      <4>1. d.call = c /\ d.shown = Mask(payload[c], policy[c])
        BY <2>3, <3>2
      <4>2. Resolved(c)' /\ Built(c, payload[c])'
        BY <1>1, <2>2, <2>6
      <4> QED
        BY <2>2, <2>6, <4>1, <4>2
    <3> QED
      BY <1>3, <3>1, <3>2
  <2> QED
    BY <2>4, <2>5, <2>7 DEF DisclosureInv
<1> QED
  BY <1>2, <1>3 DEF Authenticated

--------------------------------------------------------------------------------
(* Least numbers, in place of induction *)

Below == {p \in Nat \X Nat : p[1] < p[2]}

LEMMA BelowIsWellFounded == IsWellFoundedOn(Below, Nat)
<1>1. Below = OpToRel(<, Nat)
  BY DEF Below, OpToRel
<1> QED
  BY <1>1, NatLessThanWellFounded

LEMMA SmallestNumber ==
  ASSUME NEW T \in SUBSET Nat, T # {}
  PROVE  \E n \in T : \A m \in T : n <= m
<1>1. PICK n \in T : \A m \in T : <<m, n>> \notin Below
  BY WFMin, BelowIsWellFounded
<1>2. ASSUME NEW m \in T PROVE n <= m
  <2>1. <<m, n>> \in Nat \X Nat /\ <<m, n>>[1] = m /\ <<m, n>>[2] = n
    OBVIOUS
  <2>2. ~ (m < n)
    BY <1>1, <2>1 DEF Below
  <2> QED
    BY <2>1, <2>2
<1> QED
  BY <1>2

--------------------------------------------------------------------------------
(* Sorting by rank *)

\* A total order of the numbers 1 .. n, as a set of pairs.
TotalOrder(R, n) ==
  /\ \A i \in 1..n : <<i, i>> \notin R
  /\ \A i, j, k \in 1..n : <<i, j>> \in R /\ <<j, k>> \in R => <<i, k>> \in R
  /\ \A i, j \in 1..n : i # j => <<i, j>> \in R \/ <<j, i>> \in R

RankIn(R, n, i) == 1 + Cardinality({j \in 1..n : <<j, i>> \in R})

\* The ranks are the numbers 1 .. n, each once, and grow with the order.
LEMMA RanksSort ==
  ASSUME NEW n \in Nat, NEW R, TotalOrder(R, n)
  PROVE  /\ \A i \in 1..n : RankIn(R, n, i) \in 1..n
         /\ \A i, j \in 1..n : <<i, j>> \in R => RankIn(R, n, i) < RankIn(R, n, j)
         /\ \A i, j \in 1..n : RankIn(R, n, i) = RankIn(R, n, j) => i = j
         /\ \A m \in 1..n : \E i \in 1..n : RankIn(R, n, i) = m
<1> DEFINE D == 1..n
           Down(i) == {j \in D : <<j, i>> \in R}
           rank(i) == RankIn(R, n, i)
<1>1. IsFiniteSet(D) /\ Cardinality(D) = n
  BY FS_Interval
<1>2. ASSUME NEW i \in D
      PROVE  /\ IsFiniteSet(Down(i)) /\ Cardinality(Down(i)) \in Nat /\ Cardinality(Down(i)) < n
             /\ rank(i) = 1 + Cardinality(Down(i))
  <2>1. Down(i) \in SUBSET D /\ Down(i) # D
    BY DEF TotalOrder
  <2>2. rank(i) = 1 + Cardinality(Down(i))
    BY DEF RankIn
  <2> HIDE DEF Down, D
  <2>3. IsFiniteSet(Down(i)) /\ Cardinality(Down(i)) <= n /\ Cardinality(Down(i)) # n
    BY <1>1, <2>1, FS_Subset
  <2>4. Cardinality(Down(i)) \in Nat
    BY <2>3, FS_CardinalityType
  <2> QED
    BY <2>2, <2>3, <2>4
<1>3. ASSUME NEW i \in D, NEW j \in D, <<i, j>> \in R
      PROVE  rank(i) < rank(j)
  <2>1. Down(i) \in SUBSET Down(j) /\ i \in Down(j) /\ i \notin Down(i)
    BY <1>3 DEF TotalOrder
  <2>2. Down(i) # Down(j)
    BY <2>1
  <2> HIDE DEF Down, D, rank
  <2>3. Cardinality(Down(i)) <= Cardinality(Down(j)) /\ Cardinality(Down(i)) # Cardinality(Down(j))
    BY <1>2, <2>1, <2>2, FS_Subset
  <2> QED
    BY <1>2, <2>3
<1>4. ASSUME NEW i \in D, NEW j \in D, rank(i) = rank(j)
      PROVE  i = j
  <2>1. rank(i) \in Nat
    <3> HIDE DEF rank, Down, D
    <3> QED
      BY <1>2
  <2>2. ~ (rank(i) < rank(i))
    BY <2>1
  <2> QED
    BY <1>3, <1>4, <2>2 DEF TotalOrder
<1>5. \A i \in D : rank(i) \in D
  <2> HIDE DEF rank, Down
  <2> QED
    BY <1>2
<1> DEFINE f == [i \in D |-> rank(i)]
<1>6. \A m \in D : \E i \in D : rank(i) = m
  <2>1. f \in Injection(D, D)
    <3> HIDE DEF rank, D
    <3> QED
      BY <1>4, <1>5 DEF Injection, IsInjective
  <2>2. f \in Surjection(D, D)
    <3> HIDE DEF f, D
    <3> QED
      BY <1>1, <2>1, FS_Injection
  <2> HIDE DEF rank, D
  <2> QED
    BY <2>2 DEF Surjection
<1> QED
  BY <1>3, <1>4, <1>5, <1>6

--------------------------------------------------------------------------------
(* Keys *)

Values == Int \cup {Null}

\* One term: comparing values is comparing what they count.
LEMMA ComparedByWeight ==
  ASSUME NEW a \in Values, NEW b \in Values, NEW term \in Terms
  PROVE  /\ CompareValues(a, b, term) \in Int
         /\ Weight(a, term) \in Int \X Int
         /\ CompareValues(a, b, term) = 0 <=> Weight(a, term) = Weight(b, term)
         /\ CompareValues(a, b, term) < 0 <=> Lighter(Weight(a, term), Weight(b, term))
<1>0. Null \notin Int
  BY ReadAssumption
<1>1. term.direction \in {"ascending", "descending"} /\ term.nulls \in {"first", "last"}
  BY DEF Terms
<1>2. CASE a = Null /\ b = Null
  BY <1>0, <1>1, <1>2 DEF CompareValues, Weight, Lighter
<1>3. CASE a = Null /\ b \in Int
  BY <1>0, <1>1, <1>3 DEF CompareValues, Weight, Lighter
<1>4. CASE a \in Int /\ b = Null
  BY <1>0, <1>1, <1>4 DEF CompareValues, Weight, Lighter
<1>5. CASE a \in Int /\ b \in Int
  BY <1>0, <1>1, <1>5 DEF CompareValues, Weight, Lighter
<1> QED
  BY <1>2, <1>3, <1>4, <1>5 DEF Values

\* Keys of as many terms are totally ordered.
Keys(N) == [1..N -> Int \X Int]

LEMMA FirstDifference ==
  ASSUME NEW N \in Nat, NEW k \in Keys(N), NEW l \in Keys(N), k # l
  PROVE  \E n \in 1..N : k[n] # l[n] /\ \A m \in 1..(n - 1) : k[m] = l[m]
<1> DEFINE T == {n \in 1..N : k[n] # l[n]}
<1>1. T \in SUBSET Nat /\ T # {}
  <2>1. k = [n \in 1..N |-> k[n]] /\ l = [n \in 1..N |-> l[n]]
    BY DEF Keys
  <2> QED
    BY <2>1
<1> HIDE DEF T
<1>2. PICK n \in T : \A m \in T : n <= m
  BY <1>1, SmallestNumber
<1>3. n \in 1..N /\ k[n] # l[n] /\ \A m \in 1..N : k[m] # l[m] => n <= m
  BY <1>2 DEF T
<1>4. \A m \in 1..(n - 1) : m \in 1..N /\ ~ (n <= m)
  BY <1>3
<1> QED
  BY <1>3, <1>4

LEMMA KeysOrdered ==
  ASSUME NEW N \in Nat
  PROVE  /\ \A k \in Keys(N) : ~ Precedes(k, k)
         /\ \A k, l, o \in Keys(N) : Precedes(k, l) /\ Precedes(l, o) => Precedes(k, o)
         /\ \A k, l \in Keys(N) : k # l => Precedes(k, l) \/ Precedes(l, k)
<1>1. ASSUME NEW k \in Keys(N) PROVE ~ Precedes(k, k)
  BY DEF Keys, Precedes, Lighter
<1>2. ASSUME NEW k \in Keys(N), NEW l \in Keys(N), NEW o \in Keys(N), Precedes(k, l), Precedes(l, o)
      PROVE  Precedes(k, o)
  <2>1. PICK n \in 1..N : Lighter(k[n], l[n]) /\ \A m \in 1..(n - 1) : k[m] = l[m]
    BY <1>2 DEF Precedes, Keys
  <2>2. PICK p \in 1..N : Lighter(l[p], o[p]) /\ \A m \in 1..(p - 1) : l[m] = o[m]
    BY <1>2 DEF Precedes, Keys
  <2>3. \A q \in 1..N : k[q] \in Int \X Int /\ l[q] \in Int \X Int /\ o[q] \in Int \X Int
    BY DEF Keys
  <2>4. DOMAIN k = 1..N
    BY DEF Keys
  <2>5. CASE n < p
    <3>1. n \in 1..(p - 1) /\ \A m \in 1..(n - 1) : m \in 1..(p - 1)
      BY <2>5
    <3>2. l[n] = o[n] /\ \A m \in 1..(n - 1) : k[m] = o[m]
      BY <3>1, <2>1, <2>2
    <3> QED
      BY <3>2, <2>1, <2>4 DEF Precedes
  <2>6. CASE p < n
    <3>1. p \in 1..(n - 1) /\ \A m \in 1..(p - 1) : m \in 1..(n - 1)
      BY <2>6
    <3>2. k[p] = l[p] /\ \A m \in 1..(p - 1) : k[m] = o[m]
      BY <3>1, <2>1, <2>2
    <3> QED
      BY <3>2, <2>2, <2>4 DEF Precedes
  <2>7. CASE n = p
    <3>1. Lighter(k[n], o[n])
      BY <2>1, <2>2, <2>3, <2>7 DEF Lighter
    <3>2. \A m \in 1..(n - 1) : k[m] = o[m]
      BY <2>1, <2>2, <2>7
    <3> QED
      BY <3>1, <3>2, <2>4 DEF Precedes
  <2> QED
    BY <2>5, <2>6, <2>7
<1>3. ASSUME NEW k \in Keys(N), NEW l \in Keys(N), k # l
      PROVE  Precedes(k, l) \/ Precedes(l, k)
  <2>1. PICK n \in 1..N : k[n] # l[n] /\ \A m \in 1..(n - 1) : k[m] = l[m]
    BY <1>3, FirstDifference
  <2>2. k[n] \in Int \X Int /\ l[n] \in Int \X Int /\ DOMAIN k = 1..N /\ DOMAIN l = 1..N
    BY DEF Keys
  <2>3. Lighter(k[n], l[n]) \/ Lighter(l[n], k[n])
    BY <2>1, <2>2 DEF Lighter
  <2> QED
    BY <2>1, <2>2, <2>3 DEF Precedes
<1> QED
  BY <1>1, <1>2, <1>3

--------------------------------------------------------------------------------
(* Sorted rows *)

\* The rows of an answer that normalizes have a value under every term's column.
LEMMA KeysOfRows ==
  ASSUME NEW raw \in RawResults, NEW plan \in Plans, Normalizes(raw, plan),
         NEW i \in 1..Len(raw.rows)
  PROVE  /\ \A n \in DOMAIN plan.order :
              /\ plan.order[n] \in Terms
              /\ raw.rows[i][IndexOf(raw.columns, plan.order[n].column)] \in Values
         /\ KeyOf(raw.rows[i], plan.order, raw.columns) \in Keys(Len(plan.order))
         /\ Len(plan.order) \in Nat /\ DOMAIN plan.order = 1..Len(plan.order)
<1>1. /\ plan.order \in Seq(Terms)
      /\ raw.columns \in Seq([name: STRING, nullable: BOOLEAN])
      /\ raw.rows \in Seq(Seq(Int \cup {Null, Other}))
  BY ReadAssumption
<1>2. raw.rows[i] \in Seq(Int \cup {Null, Other}) /\ Len(raw.rows[i]) = Len(raw.columns)
      /\ \A k \in DOMAIN raw.columns : raw.rows[i][k] # Other
  BY <1>1 DEF Normalizes, WellFormed
<1>3. \A k \in DOMAIN raw.columns : raw.rows[i][k] \in Values
  BY <1>1, <1>2 DEF Values
<1>4. ASSUME NEW n \in DOMAIN plan.order
      PROVE  /\ plan.order[n] \in Terms
             /\ raw.rows[i][IndexOf(raw.columns, plan.order[n].column)] \in Values
  <2>1. plan.order[n].column \in Names(raw.columns)
    BY DEF Normalizes
  <2>2. IndexOf(raw.columns, plan.order[n].column) \in DOMAIN raw.columns
    BY <2>1 DEF Names, IndexOf
  <2> QED
    BY <1>1, <1>3, <2>2
<1>5. Len(plan.order) \in Nat /\ DOMAIN plan.order = 1..Len(plan.order)
  BY <1>1
<1>6. \A n \in DOMAIN plan.order :
        Weight(raw.rows[i][IndexOf(raw.columns, plan.order[n].column)], plan.order[n]) \in Int \X Int
  BY <1>4, ComparedByWeight
<1> QED
  BY <1>4, <1>5, <1>6 DEF KeyOf, Keys

\* _compare_rows compares keys.
LEMMA ComparedByKey ==
  ASSUME NEW raw \in RawResults, NEW plan \in Plans, Normalizes(raw, plan),
         NEW i \in 1..Len(raw.rows), NEW j \in 1..Len(raw.rows)
  PROVE  LET o == CompareRows(raw.rows[i], raw.rows[j], plan.order, raw.columns)
             k == KeyOf(raw.rows[i], plan.order, raw.columns)
             l == KeyOf(raw.rows[j], plan.order, raw.columns)
         IN  (o < 0 <=> Precedes(k, l)) /\ (o = 0 <=> k = l)
<1> DEFINE order == plan.order
           a(n) == raw.rows[i][IndexOf(raw.columns, order[n].column)]
           b(n) == raw.rows[j][IndexOf(raw.columns, order[n].column)]
           T(n) == CompareValues(a(n), b(n), order[n])
           o == CompareRows(raw.rows[i], raw.rows[j], order, raw.columns)
           k == KeyOf(raw.rows[i], order, raw.columns)
           l == KeyOf(raw.rows[j], order, raw.columns)
           telling == {n \in DOMAIN order : T(n) # 0}
           first == CHOOSE n \in telling : \A m \in telling : n <= m
<1>1. o = IF telling = {} THEN 0 ELSE T(first)
  BY DEF CompareRows
<1>2. /\ Len(order) \in Nat /\ DOMAIN order = 1..Len(order)
      /\ k \in Keys(Len(order)) /\ l \in Keys(Len(order))
  BY KeysOfRows
<1>3. \A n \in DOMAIN order : k[n] = Weight(a(n), order[n]) /\ l[n] = Weight(b(n), order[n])
  BY DEF KeyOf
<1>4. \A n \in DOMAIN order : order[n] \in Terms /\ a(n) \in Values /\ b(n) \in Values
  BY KeysOfRows
<1> HIDE DEF a, b, o, k, l, order
<1>5. \A n \in DOMAIN order : /\ T(n) \in Int
                              /\ T(n) = 0 <=> k[n] = l[n]
                              /\ T(n) < 0 <=> Lighter(k[n], l[n])
  BY <1>3, <1>4, ComparedByWeight
<1> HIDE DEF T
<1>6. CASE telling = {}
  <2>1. \A n \in 1..Len(order) : k[n] = l[n]
    BY <1>2, <1>5, <1>6
  <2>2. k = l
    BY <1>2, <2>1 DEF Keys
  <2>3. ~ Precedes(k, l)
    BY <1>2, <2>2, KeysOrdered
  <2> QED
    BY <1>1, <1>6, <2>2, <2>3 DEF o, k, l, order
<1>7. CASE telling # {}
  <2>1. telling \in SUBSET Nat
    BY <1>2
  <2>2. \E n \in telling : \A m \in telling : n <= m
    <3> HIDE DEF telling
    <3> QED
      BY <1>7, <2>1, SmallestNumber
  <2>3. first \in telling /\ \A m \in telling : first <= m
    BY <2>2
  <2>4. PICK n \in DOMAIN order : n = first /\ T(n) # 0 /\ \A m \in DOMAIN order : T(m) # 0 => n <= m
    BY <2>3
  <2> HIDE DEF telling, first
  <2>5. o = T(n)
    BY <1>1, <1>7, <2>4
  <2>6. n \in 1..Len(order) /\ k[n] # l[n] /\ \A m \in 1..(n - 1) : k[m] = l[m]
    <3>1. n \in 1..Len(order) /\ k[n] # l[n]
      BY <1>2, <1>5, <2>4
    <3>2. ASSUME NEW m \in 1..(n - 1) PROVE k[m] = l[m]
      <4>1. m \in DOMAIN order /\ ~ (n <= m)
        BY <1>2, <3>1
      <4> QED
        BY <1>5, <2>4, <4>1
    <3> QED
      BY <3>1, <3>2
  <2>7. k # l /\ o # 0
    BY <2>4, <2>5, <2>6
  <2>8. Precedes(k, l) <=> Lighter(k[n], l[n])
    <3>1. DOMAIN k = 1..Len(order) /\ k[n] \in Int \X Int /\ l[n] \in Int \X Int
          /\ \A m \in 1..Len(order) : k[m] \in Int \X Int
      BY <1>2, <2>6 DEF Keys
    <3>2. ASSUME Precedes(k, l) PROVE Lighter(k[n], l[n])
      <4>1. PICK p \in 1..Len(order) : Lighter(k[p], l[p]) /\ \A m \in 1..(p - 1) : k[m] = l[m]
        BY <3>1, <3>2 DEF Precedes
      <4>2. ~ (p < n)
        <5> SUFFICES ASSUME p < n PROVE FALSE
          OBVIOUS
        <5>1. k[p] = l[p] /\ k[p] \in Int \X Int
          BY <2>6, <3>1
        <5> QED
          BY <5>1, <4>1 DEF Lighter
      <4>3. ~ (n < p)
        BY <2>6, <4>1
      <4> QED
        BY <2>6, <4>1, <4>2, <4>3
    <3> QED
      BY <2>6, <3>1, <3>2 DEF Precedes
  <2>9. o < 0 <=> Precedes(k, l)
    BY <1>5, <2>4, <2>5, <2>8
  <2> QED
    BY <2>7, <2>9 DEF o, k, l, order
<1> QED
  BY <1>6, <1>7

\* The rows in the order of their keys, and as they came where the keys are the same.
InKeyOrder(raw, rows, order) ==
  LET Key(i) == KeyOf(raw.rows[i], order, raw.columns) IN
  /\ Len(rows) = Len(raw.rows)
  /\ \E came \in [1..Len(rows) -> 1..Len(rows)] :
       /\ \A i \in 1..Len(rows) : rows[i] = raw.rows[came[i]]
       /\ \A k \in 1..Len(rows) : \E i \in 1..Len(rows) : came[i] = k
       /\ \A i, j \in 1..Len(rows) : i < j =>
            \/ Precedes(Key(came[i]), Key(came[j]))
            \/ Key(came[i]) = Key(came[j]) /\ came[i] < came[j]

LEMMA SortedInOrder ==
  ASSUME NEW raw \in RawResults, NEW plan \in Plans, Normalizes(raw, plan)
  PROVE  InKeyOrder(raw, Sorted(raw, plan.order), plan.order)
<1> DEFINE N == Len(raw.rows)
           D == 1..N
           order == plan.order
           M == Len(order)
           Key(i) == KeyOf(raw.rows[i], order, raw.columns)
           o(i, j) == CompareRows(raw.rows[i], raw.rows[j], order, raw.columns)
           R == {p \in D \X D : o(p[1], p[2]) < 0 \/ (o(p[1], p[2]) = 0 /\ p[1] < p[2])}
           rank(i) == 1 + Cardinality({j \in D : o(j, i) < 0 \/ (o(j, i) = 0 /\ j < i)})
           came == [n \in D |-> CHOOSE i \in D : rank(i) = n]
           rows == Sorted(raw, order)
<1>1. N \in Nat /\ DOMAIN raw.rows = D
  BY ReadAssumption
<1>2. M \in Nat
  BY ReadAssumption
<1>3. \A i \in D : Key(i) \in Keys(M)
  BY KeysOfRows
<1>4. \A i, j \in D : (o(i, j) < 0 <=> Precedes(Key(i), Key(j))) /\ (o(i, j) = 0 <=> Key(i) = Key(j))
  BY ComparedByKey
<1>5. \A i, j \in D : <<i, j>> \in R <=> Precedes(Key(i), Key(j)) \/ (Key(i) = Key(j) /\ i < j)
  BY <1>4
<1>6. rows = [n \in D |-> raw.rows[came[n]]]
  <2>1. rows = [n \in D |-> raw.rows[CHOOSE i \in D : rank(i) = n]]
    BY <1>1 DEF Sorted
  <2> HIDE DEF rows, rank
  <2> QED
    BY <2>1
<1>7. ASSUME NEW i \in D PROVE rank(i) = RankIn(R, N, i)
  <2>1. {j \in D : o(j, i) < 0 \/ (o(j, i) = 0 /\ j < i)} = {j \in D : <<j, i>> \in R}
    OBVIOUS
  <2> QED
    BY <2>1 DEF RankIn
<1> HIDE DEF R, o, Key, rows, came, rank
<1>8. TotalOrder(R, N)
  <2>1. \A i \in D : <<i, i>> \notin R
    BY <1>2, <1>3, <1>5, KeysOrdered
  <2>2. \A i, j \in D : i # j => <<i, j>> \in R \/ <<j, i>> \in R
    <3> SUFFICES ASSUME NEW i \in D, NEW j \in D, i # j PROVE <<i, j>> \in R \/ <<j, i>> \in R
      OBVIOUS
    <3>1. CASE Key(i) = Key(j)
      <4>1. i < j \/ j < i
        OBVIOUS
      <4> QED
        BY <3>1, <4>1, <1>5
    <3>2. CASE Key(i) # Key(j)
      BY <3>2, <1>2, <1>3, <1>5, KeysOrdered
    <3> QED
      BY <3>1, <3>2
  <2>3. ASSUME NEW i \in D, NEW j \in D, NEW k \in D, <<i, j>> \in R, <<j, k>> \in R
        PROVE  <<i, k>> \in R
    <3>1. Precedes(Key(i), Key(j)) \/ (Key(i) = Key(j) /\ i < j)
      BY <2>3, <1>5
    <3>2. Precedes(Key(j), Key(k)) \/ (Key(j) = Key(k) /\ j < k)
      BY <2>3, <1>5
    <3>3. i < j /\ j < k => i < k
      OBVIOUS
    <3>4. Precedes(Key(i), Key(k)) \/ (Key(i) = Key(k) /\ i < k)
      BY <3>1, <3>2, <3>3, <1>2, <1>3, KeysOrdered
    <3> QED
      BY <3>4, <1>5
  <2> QED
    BY <2>1, <2>2, <2>3 DEF TotalOrder
<1>9. \A n \in D : came[n] \in D /\ RankIn(R, N, came[n]) = n
  <2>1. \A n \in D : \E i \in D : rank(i) = n
    BY <1>1, <1>8, <1>7, RanksSort
  <2>2. \A n \in D : came[n] \in D /\ rank(came[n]) = n
    BY <2>1 DEF came
  <2> QED
    BY <2>2, <1>7
<1>10. \A k \in D : \E i \in D : came[i] = k
  <2> SUFFICES ASSUME NEW k \in D PROVE \E i \in D : came[i] = k
    OBVIOUS
  <2>1. RankIn(R, N, k) \in D
    BY <1>1, <1>8, RanksSort
  <2>2. /\ came[RankIn(R, N, k)] \in D
        /\ RankIn(R, N, came[RankIn(R, N, k)]) = RankIn(R, N, k)
    BY <1>9, <2>1
  <2>3. \A i, j \in D : RankIn(R, N, i) = RankIn(R, N, j) => i = j
    BY <1>1, <1>8, RanksSort
  <2>4. came[RankIn(R, N, k)] = k
    BY <2>2, <2>3
  <2> QED
    BY <2>1, <2>4
<1>11. ASSUME NEW i \in D, NEW j \in D, i < j
       PROVE  <<came[i], came[j]>> \in R
  <2>1. came[i] # came[j] /\ came[i] \in D /\ came[j] \in D
    BY <1>9, <1>11
  <2>2. CASE <<came[j], came[i]>> \in R
    <3>1. RankIn(R, N, came[j]) < RankIn(R, N, came[i])
      BY <2>1, <2>2, <1>1, <1>8, RanksSort
    <3>2. j < i
      BY <3>1, <1>9
    <3> QED
      BY <3>2, <1>11
  <2> QED
    BY <2>1, <2>2, <1>8 DEF TotalOrder
<1>12. came \in [D -> D]
  BY <1>9 DEF came
<1>13. Len(rows) = N
  BY <1>1, <1>6
<1>14. \A i, j \in D : i < j => \/ Precedes(Key(came[i]), Key(came[j]))
                                \/ Key(came[i]) = Key(came[j]) /\ came[i] < came[j]
  BY <1>5, <1>9, <1>11
<1>15. \A i \in D : rows[i] = raw.rows[came[i]]
  BY <1>6
<1> HIDE DEF D
<1>16. InKeyOrder(raw, rows, order)
  <2>1. 1..Len(rows) = D /\ Len(rows) = Len(raw.rows)
    BY <1>13 DEF D
  <2> QED
    BY <2>1, <1>10, <1>12, <1>14, <1>15 DEF InKeyOrder, Key
<1> QED
  BY <1>16 DEF rows

\* Rows without an order stay as they came.
LEMMA UnsortedInOrder ==
  ASSUME NEW raw \in RawResults
  PROVE  InKeyOrder(raw, raw.rows, <<>>)
<1> DEFINE N == Len(raw.rows)
           came == [n \in 1..N |-> n]
           Key(i) == KeyOf(raw.rows[i], <<>>, raw.columns)
<1>1. N \in Nat
  BY ReadAssumption
<1>2. \A i, j \in 1..N : Key(i) = Key(j)
  BY DEF KeyOf
<1>3. came \in [1..N -> 1..N] /\ \A n \in 1..N : came[n] = n
  OBVIOUS
<1> HIDE DEF came
<1>4. \A i, j \in 1..N : i < j => Key(came[i]) = Key(came[j]) /\ came[i] < came[j]
  BY <1>2, <1>3
<1> HIDE DEF Key
<1> QED
  BY <1>3, <1>4 DEF InKeyOrder, Key

--------------------------------------------------------------------------------
(* Theorems *)

Inv == ReadInv /\ DisclosureInv

LEMMA InvStep ==
  ASSUME Inv, [Next]_vars
  PROVE  Inv'
<1>1. ASSUME UNCHANGED readVars
      PROVE  ReadInv'
  BY <1>1 DEF Inv, ReadInv, ReadTypeInv, PlanInv, SubmittedInv, RefusedInv, RowsInv, readVars
<1>2. ASSUME NEW r \in PlanReferences, NEW p \in Plans, RegisterPlan(r, p), UNCHANGED disclosureVars
      PROVE  Inv'
  <2>1. call' = call
    BY <1>2 DEF RegisterPlan
  <2> QED
    BY <1>2, <2>1, RegisterKeeps, ReadingKeeps DEF Inv
<1>3. ASSUME NEW v \in PolicyVersions, NEW p \in Policies, RegisterPolicy(v, p)
      PROVE  Inv'
  BY <1>1, <1>3, RegisterPolicyKeeps DEF Inv, RegisterPolicy
<1>4. ASSUME NEW c \in Calls, Reading(c)
      PROVE  Inv'
  BY <1>4, ReadMoves, ReadStays, ReadingKeeps DEF Inv, Reading
<1>5. ASSUME NEW c \in Calls, Prepare(c) \/ Invoke(c) \/ Authenticated(c)
      PROVE  Inv'
  BY <1>1, <1>5, PrepareStep, InvokeStep, AuthenticatedStep
     DEF Inv, Prepare, Invoke, Authenticated
<1>6. ASSUME NEW c \in Calls, Answered(c) \/ Reported(c) \/ EndDisclosure(c)
      PROVE  Inv'
  <2>1. /\ stage[c] # "none"
        /\ \E s : s \notin {"none", "prepared", "authenticating"} /\ Stage(c, s)
        /\ UNCHANGED <<readVars, policies, operation, payload, policy, disclosed>>
    BY <1>6 DEF Answered, Reported, EndDisclosure
  <2>2. call' = call
    BY <2>1 DEF readVars
  <2> QED
    BY <1>1, <2>1, <2>2, StageKeeps DEF Inv
<1>7. CASE UNCHANGED vars
  <2>1. UNCHANGED readVars /\ UNCHANGED disclosureVars /\ call' = call
    BY <1>7 DEF vars, readVars
  <2> QED
    BY <1>1, <2>1, ReadingKeeps DEF Inv
<1> QED
  BY <1>2, <1>3, <1>4, <1>5, <1>6, <1>7 DEF Next

LEMMA InvCorrect == Spec => []Inv
<1>1. Init => Inv
  BY ReadInitCorrect, DisclosureInitCorrect DEF Init, Inv
<1>2. Inv /\ [Next]_vars => Inv'
  BY InvStep
<1> QED
  BY <1>1, <1>2, PTL DEF Spec

\* DataAccessLayer.execute_read hands the adapter only plans that are registered and
\* retrieve, at any depth of their trees, for the credential that was granted, and
\* whatever is registered while the policy is awaited.
THEOREM ReadsArePermitted == Spec => []OnlyPermittedReads
<1>1. Inv => OnlyPermittedReads
  <2> SUFFICES ASSUME Inv, NEW s \in submitted
               PROVE  LET r == call[s[1]].request  plan == s[2]  d == s[3] IN
                      /\ plans[r.reference] = plan
                      /\ \E nodes \in SUBSET OperationNodes :
                           /\ plan.operation \in nodes /\ ClosedUnderChildren(nodes)
                           /\ \A n \in nodes : n.kind \in Retrieval
                      /\ d.allowed /\ d.identified /\ d.encrypted /\ d.credential = r.credential
    BY DEF OnlyPermittedReads
  <2>1. s[2].operation \in OperationNodes
    BY ReadAssumption DEF Inv, ReadInv, ReadTypeInv
  <2>2. /\ plans[call[s[1]].request.reference] = s[2]
        /\ ClassifyOperation(s[2].operation) \notin {"mutation", "unsupported"}
        /\ Granted(s[3], call[s[1]].request)
    BY DEF Inv, ReadInv, SubmittedInv
  <2> QED
    BY <2>1, <2>2, OnlyRetrieves DEF Granted
<1> QED
  BY <1>1, InvCorrect, PTL

\* A call that _security_reject refused ends rejected and has read nothing, whether the
\* audit sink takes its report, fails or is cancelled.
THEOREM RefusalsStand == Spec => []RefusalStands
<1>1. Inv => RefusalStands
  BY DEF Inv, ReadInv, RefusedInv, SubmittedInv, RefusalStands
<1> QED
  BY <1>1, InvCorrect, PTL

\* normalize_result keeps every row of the adapter's answer once, in the order of the
\* plan's terms and as they came where these do not tell rows apart: for all rows, any
\* number of terms, in either direction and with nulls first or last.
THEOREM ResultsAreOrdered == Spec => []ResultOrdered
<1>1. Inv => ResultOrdered
  <2> SUFFICES ASSUME Inv, NEW c \in Calls, call[c].pc = "read"
               PROVE  InKeyOrder(call[c].raw, call[c].rows, call[c].plan.order)
    BY DEF ResultOrdered, InKeyOrder
  <2>1. /\ call[c].plan \in Plans /\ call[c].raw \in RawResults
        /\ Normalizes(call[c].raw, call[c].plan)
        /\ call[c].rows = IF call[c].plan.order = <<>> THEN call[c].raw.rows
                          ELSE Sorted(call[c].raw, call[c].plan.order)
    BY DEF Inv, ReadInv, PlanInv, RowsInv, RightRows
  <2> QED
    BY <2>1, SortedInOrder, UnsortedInOrder
<1> QED
  BY <1>1, InvCorrect, PTL

\* What a policy names is masked, wherever it stands in a payload.
LEMMA NamedIsMasked ==
  ASSUME NEW b, NEW p, NEW path \in DOMAIN b, NEW name \in p.sensitive,
         \/ Len(name) = 1 /\ name[1] \in Range(path) /\ name = <<name[1]>>
         \/ Len(name) \in DOMAIN path /\ name = SubSeq(path, 1, Len(name))
  PROVE  Mask(b, p)[path] = MaskingRepresentation
<1>1. CASE name[1] \in Range(path) /\ name = <<name[1]>>
  <2>1. PICK n \in DOMAIN path : path[n] = name[1]
    BY <1>1 DEF Range
  <2>2. <<path[n]>> \in p.sensitive
    BY <1>1, <2>1
  <2> QED
    BY <2>2 DEF Mask, Sensitive
<1>2. CASE Len(name) \in DOMAIN path /\ name = SubSeq(path, 1, Len(name))
  BY <1>2 DEF Mask, Sensitive
<1> QED
  BY <1>1, <1>2

\* And nothing else is.
LEMMA SensitiveIsNamed ==
  ASSUME NEW d, NEW S, NEW path \in Seq(S), Sensitive(path, policy[d.call].sensitive)
  PROVE  IsNamed(d, path)
<1> DEFINE names == policy[d.call].sensitive
<1>1. PICK n \in DOMAIN path : <<path[n]>> \in names \/ SubSeq(path, 1, n) \in names
  BY DEF Sensitive
<1>2. CASE <<path[n]>> \in names
  <2>1. <<path[n]>>[1] \in Range(path) /\ Len(<<path[n]>>) = 1
    BY DEF Range
  <2> QED
    BY <1>2, <2>1 DEF IsNamed
<1>3. CASE SubSeq(path, 1, n) \in names
  <2>1. Len(SubSeq(path, 1, n)) = n
    <3>1. n \in 1 .. Len(path)
      OBVIOUS
    <3> QED
      BY <3>1
  <2> QED
    BY <1>3, <2>1 DEF IsNamed
<1> QED
  BY <1>1, <1>2, <1>3

\* ProtectedModelInvoker.invoke discloses the rows of a completed read, under the
\* policy of its version as it is and stays: masked is what this policy names in the
\* payload, and all else is what was read, each row once and in order.
THEOREM DisclosuresArePermitted == Spec => []OnlyPermittedDisclosures
<1>1. Inv => OnlyPermittedDisclosures
  <2> SUFFICES ASSUME Inv, NEW d \in disclosed
               PROVE  /\ call[d.call].pc = "read" /\ d.call \notin refused
                      /\ UnderItsPolicy(d) /\ NamedIsHidden(d) /\ ShownAsRead(d)
    BY DEF OnlyPermittedDisclosures
  <2>1. PICK c \in Calls : c = d.call
    BY DEF Inv, DisclosureInv, DisclosureTypeInv
  <2>2. /\ call[c].pc = "read" /\ Resolved(c) /\ Built(c, payload[c])
        /\ d.shown = Mask(payload[c], policy[c])
    BY <2>1 DEF Inv, DisclosureInv, DisclosedInv
  <2>3. c \notin refused
    BY <2>2 DEF Inv, ReadInv, RefusedInv
  <2>4. UnderItsPolicy(d)
    BY <2>1, <2>2 DEF Resolved, Permits, PolicyOf, UnderItsPolicy
  <2> DEFINE mapping == operation[c].mapping  raw == call[c].raw  rows == call[c].rows
             p == policy[c]  b == payload[c]
  <2>5. /\ DOMAIN d.shown = DOMAIN b
        /\ \A path \in DOMAIN b :
             Sensitive(path, policy[d.call].sensitive) \/ d.shown[path] = b[path]
    BY <2>1, <2>2 DEF Mask
  <2>6. NamedIsHidden(d)
    <3> SUFFICES ASSUME NEW path \in DOMAIN d.shown, NEW name \in policy[d.call].sensitive,
                        \/ Len(name) = 1 /\ name[1] \in Range(path)
                        \/ Len(name) \in DOMAIN path /\ name = SubSeq(path, 1, Len(name))
                 PROVE  Hidden(d, path)
      BY DEF NamedIsHidden, IsNamed
    <3>1. p \in Policies
      BY <2>2, DisclosureAssumption
         DEF Resolved, PolicyOf, Permits, Inv, DisclosureInv, DisclosureTypeInv
    <3>2. name \in Seq(STRING)
      BY <2>1, <3>1, DisclosureAssumption
    <3>3. Len(name) = 1 => name = <<name[1]>>
      BY <3>2
    <3> QED
      BY <2>1, <2>2, <2>5, <3>3, NamedIsMasked DEF Hidden
  <2>7. CASE mapping = NoMapping
    <3>1. AllRows \in DOMAIN b /\ b[AllRows] = rows
      BY <2>2, <2>7 DEF Built, PlainPayload
    <3>2. Sensitive(AllRows, policy[d.call].sensitive) => IsNamed(d, AllRows)
      <4>1. AllRows \in Seq({"rows"})
        BY DEF AllRows
      <4> QED
        BY <4>1, SensitiveIsNamed
    <3>3. ShownAsRead(d)
      BY <2>1, <2>5, <2>7, <3>1, <3>2 DEF ShownAsRead
    <3> QED
      BY <2>1, <2>2, <2>3, <2>4, <2>6, <3>3
  <2>8. CASE mapping # NoMapping
    <3>1. b = TaskPayload(raw, rows, mapping) /\ RowsMap(raw, rows, mapping)
      BY <2>2, <2>8 DEF Built
    <3>2. /\ Identifiers \in DOMAIN b
          /\ b[Identifiers] = ColumnOf(raw, rows, mapping.identifier)
          /\ IsInjective(b[Identifiers])
      BY <3>1 DEF TaskPayload, RowsMap
    <3>3. ASSUME NEW f \in DOMAIN mapping.fields
          PROVE  IsNamed(d, SourceField(f))
                 \/ d.shown[SourceField(f)] = ColumnOf(raw, rows, mapping.fields[f])
      <4>1. SourceField(f) # Identifiers /\ SourceField(f)[3] = f
        BY DEF SourceField, Identifiers
      <4>2. /\ SourceField(f) \in DOMAIN b
            /\ b[SourceField(f)] = ColumnOf(raw, rows, mapping.fields[f])
        BY <3>1, <4>1 DEF TaskPayload
      <4>3. SourceField(f) \in Seq({"rows", "source", f})
        BY DEF SourceField
      <4> QED
        BY <2>5, <4>2, <4>3, SensitiveIsNamed
    <3>4. Identifiers \in Seq({"rows", "id"})
      BY DEF Identifiers
    <3>5. \/ IsNamed(d, Identifiers)
          \/ /\ d.shown[Identifiers] = ColumnOf(raw, rows, mapping.identifier)
             /\ IsInjective(d.shown[Identifiers])
      BY <2>5, <3>2, <3>4, SensitiveIsNamed
    <3>6. ShownAsRead(d)
      <4> HIDE DEF b, p
      <4> QED
        BY <2>1, <2>8, <3>3, <3>5 DEF ShownAsRead
    <3> QED
      BY <2>1, <2>2, <2>3, <2>4, <2>6, <3>6
  <2> QED
    BY <2>7, <2>8
<1> QED
  BY <1>1, InvCorrect, PTL
================================================================================

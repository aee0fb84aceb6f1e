---------------------------- MODULE RelationalRead ----------------------------
(***************************************************************************)
(* The read-only data access layer (relational/data_access.py), its plan   *)
(* registry, classification and parameter binding (relational/plans.py)    *)
(* and the normalization of results (relational/normalization.py).  A call *)
(* runs on the event loop: each action is the code between two awaits, the *)
(* awaited policy, adapter and audit sink answer or fail at any time, the  *)
(* call may be cancelled at each await, and plans may be registered then.  *)
(*                                                                         *)
(* Abstracted: a value is a whole number, Null or Other (a value that does *)
(* not have its column's type); a parameter is the name of its type; the   *)
(* operations of a plan are a tree of kinds, and datasets and limits of a  *)
(* plan, which this code never reads, are left out.                        *)
(***************************************************************************)
EXTENDS Integers, Sequences, FiniteSets

CONSTANTS
  Calls, Plans, PlanReferences,
  Requests,        \* [reference, credential, path, parameters]
  Contract, Adapter,    \* the capabilities of either
  Decisions,       \* what the access policy may answer
  RawResults,      \* [columns, rows] the adapter may answer
  OperationNodes,  \* [kind, children]: the operations a plan is built from
  NoPlan, NoCredential, Null, Other

\* The operations among the children of operations are operations themselves.
Children(node) == {node.children[i] : i \in DOMAIN node.children}
ClosedUnderChildren(nodes) == \A n \in nodes : Children(n) \subseteq nodes

\* The terms a plan may order its result by: OrderTerm.
Terms == [column: STRING, direction: {"ascending", "descending"}, nulls: {"first", "last"}]

ASSUME ReadAssumption ==
  /\ ClosedUnderChildren(OperationNodes)
  /\ \A p \in Plans : p.operation \in OperationNodes /\ p.order \in Seq(Terms)
  /\ NoPlan \notin Plans
  /\ \A r \in Requests : r.reference \in PlanReferences
  /\ Null \notin Int
  /\ \A raw \in RawResults : /\ raw.columns \in Seq([name: STRING, nullable: BOOLEAN])
                             /\ raw.rows \in Seq(Seq(Int \cup {Null, Other}))

Retrieval == {"select", "project", "filter", "join", "aggregate", "sort", "limit"}
Mutation  == {"insert", "update", "delete", "merge", "alter", "create", "drop",
              "truncate", "grant", "revoke", "call"}

VARIABLES
  plans,       \* QueryPlanRegistry._plans
  call,        \* the calls of execute_read
  submitted,   \* history: <<call, plan, decision>> handed to the adapter
  refused,     \* history: calls that reached _security_reject
  audit        \* history: refusals the sink has taken

readVars == <<plans, call, submitted, refused, audit>>

NewCall(r) == [request |-> r, pc |-> "new", plan |-> NoPlan, raw |-> <<>>, rows |-> <<>>]

ReadInit ==
  /\ plans = [r \in PlanReferences |-> NoPlan]
  /\ call \in {[c \in Calls |-> NewCall(f[c])] : f \in [Calls -> Requests]}
  /\ submitted = {} /\ refused = {} /\ audit = {}

\* register: a version is registered once, or again with the same plan.
Registrable(r, p) == plans[r] \in {NoPlan, p}

RegisterPlan(r, p) ==
  /\ Registrable(r, p)
  /\ plans' = [plans EXCEPT ![r] = p]
  /\ UNCHANGED <<call, submitted, refused, audit>>

--------------------------------------------------------------------------------
(* Classification and binding *)

\* The operation and everything below it: what every set that holds the operation
\* and the children of its members holds.
TreeOf(node) ==
  {n \in OperationNodes :
     \A nodes \in SUBSET OperationNodes :
       node \in nodes /\ ClosedUnderChildren(nodes) => n \in nodes}

\* _operation_kinds.
OperationKinds(node) == {n.kind : n \in TreeOf(node)}

Classified(kinds) ==
  IF kinds \cap Mutation # {} THEN "mutation"
  ELSE IF kinds \subseteq Retrieval THEN "retrieval" ELSE "unsupported"

\* Mutant of ClassifyOperation: only the root of the tree is looked at.
ClassifyRoot(node) == Classified({node.kind})

ClassifyOperation(node) == Classified(OperationKinds(node))

\* _matches_type: an integer also serves as a decimal.
MatchesType(given, type) == given = type \/ (given = "integer" /\ type = "decimal")

\* bind_parameters raises nothing.
ParametersBind(plan, supplied) ==
  /\ DOMAIN supplied \subseteq DOMAIN plan.parameters
  /\ \A n \in DOMAIN plan.parameters : plan.parameters[n].required => n \in DOMAIN supplied
  /\ \A n \in DOMAIN supplied :
       IF supplied[n] = "null" THEN plan.parameters[n].nullable
       ELSE MatchesType(supplied[n], plan.parameters[n].type)

Capable(plan) ==
  plan.capabilities \cup OperationKinds(plan.operation) \subseteq Contract \cap Adapter

--------------------------------------------------------------------------------
(* Normalization *)

Names(columns) == {columns[i].name : i \in DOMAIN columns}

\* _normalize_row and _normalize_value find nothing wrong.
WellFormed(raw) ==
  /\ Cardinality(Names(raw.columns)) = Len(raw.columns)
  /\ \A i \in DOMAIN raw.rows :
       /\ Len(raw.rows[i]) = Len(raw.columns)
       /\ \A k \in DOMAIN raw.columns :
            /\ raw.rows[i][k] # Other
            /\ raw.rows[i][k] = Null => raw.columns[k].nullable

IndexOf(columns, name) == CHOOSE k \in DOMAIN columns : columns[k].name = name

\* Mutant of CompareValues: a descending term turns the nulls round as well.
CompareReversed(a, b, term) ==
  (IF a = b THEN 0
   ELSE IF a = Null THEN (IF term.nulls = "last" THEN 1 ELSE -1)
   ELSE IF b = Null THEN (IF term.nulls = "last" THEN -1 ELSE 1)
   ELSE IF a > b THEN 1 ELSE -1) * (IF term.direction = "descending" THEN -1 ELSE 1)

\* One term of _compare_rows: -1, 0 or 1.  Direction does not move the nulls.
CompareValues(a, b, term) ==
  IF Null \in {a, b}
  THEN (IF a = b THEN 0 ELSE IF a = Null THEN -1 ELSE 1) * (IF term.nulls = "last" THEN -1 ELSE 1)
  ELSE (IF a > b THEN 1 ELSE IF a < b THEN -1 ELSE 0)
       * (IF term.direction = "descending" THEN -1 ELSE 1)

\* _compare_rows: the first term that tells the rows apart decides.
CompareRows(a, b, order, columns) ==
  LET Term(n)  == CompareValues(a[IndexOf(columns, order[n].column)],
                                b[IndexOf(columns, order[n].column)], order[n])
      telling  == {n \in DOMAIN order : Term(n) # 0}
  IN IF telling = {} THEN 0
     ELSE Term(CHOOSE n \in telling : \A m \in telling : n <= m)

\* sorted() is stable.
Sorted(raw, order) ==
  LET Before(i, j) == LET o == CompareRows(raw.rows[i], raw.rows[j], order, raw.columns)
                      IN o < 0 \/ (o = 0 /\ i < j)
      Rank(i) == 1 + Cardinality({j \in DOMAIN raw.rows : Before(j, i)})
  IN [n \in DOMAIN raw.rows |-> raw.rows[CHOOSE i \in DOMAIN raw.rows : Rank(i) = n]]

Normalizes(raw, plan) ==
  /\ WellFormed(raw)
  /\ \A n \in DOMAIN plan.order : plan.order[n].column \in Names(raw.columns)

--------------------------------------------------------------------------------
(* execute_read *)

\* The tests that reject without an audit event, in any order: all raise.
PlainlyRejected(plan, r) ==
  \/ ClassifyOperation(plan.operation) = "unsupported"
  \/ ~Capable(plan)
  \/ ~plan.intrinsic /\ plan.order = <<>>
  \/ r.credential = NoCredential
  \/ r.path # "interactive"
  \/ ~ParametersBind(plan, r.parameters)

To(c, pc) == call' = [call EXCEPT ![c].pc = pc]

\* execute_read to its first await.  A mutation is refused before anything else.
StartRead(c) ==
  LET r == call[c].request  plan == plans[r.reference]
      class == IF plan = NoPlan THEN "absent" ELSE ClassifyOperation(plan.operation)
      plainly == IF plan = NoPlan THEN TRUE ELSE PlainlyRejected(plan, r)
  IN
  /\ call[c].pc = "new"
  /\ \/ class = "mutation" /\ To(c, "auditing") /\ refused' = refused \cup {c}
     \/ class # "mutation" /\ plainly /\ To(c, "rejected") /\ UNCHANGED refused
     \/ /\ class # "mutation" /\ ~plainly
        /\ call' = [call EXCEPT ![c].pc = "authorizing", ![c].plan = plan]
        /\ UNCHANGED refused
  /\ UNCHANGED <<plans, submitted, audit>>

Granted(d, r) ==
  /\ d.allowed /\ d.credential = r.credential
  /\ d.identified /\ d.encrypted

\* authorize_read answers.
Authorize(c) ==
  /\ call[c].pc = "authorizing"
  /\ \E d \in Decisions :
       IF Granted(d, call[c].request)
       THEN /\ To(c, "reading")
            /\ submitted' = submitted \cup {<<c, call[c].plan, d>>}
            /\ UNCHANGED refused
       ELSE /\ To(c, "auditing") /\ refused' = refused \cup {c}
            /\ UNCHANGED submitted
  /\ UNCHANGED <<plans, audit>>

\* The adapter answers, and the result is normalized.
Receive(c) ==
  /\ call[c].pc = "reading"
  /\ \E raw \in RawResults :
       IF Normalizes(raw, call[c].plan)
       THEN call' = [call EXCEPT ![c].pc = "read", ![c].raw = raw,
              ![c].rows = IF call[c].plan.order = <<>> THEN raw.rows
                          ELSE Sorted(raw, call[c].plan.order)]
       ELSE To(c, "rejected")
  /\ UNCHANGED <<plans, submitted, refused, audit>>

\* Mutant of AfterAudit: without the finally.
AfterAuditPlain(how) ==
  CASE how = "taken" -> "rejected" [] how = "sink failed" -> "failed" [] OTHER -> "cancelled"

\* Where the wait for the sink ends, however it ends: finally: self._reject.
AfterAudit(how) == "rejected"

Audited(c) ==
  /\ call[c].pc = "auditing"
  /\ \/ To(c, AfterAudit("taken")) /\ audit' = audit \cup {c}
     \/ To(c, AfterAudit("sink failed")) /\ UNCHANGED audit
  /\ UNCHANGED <<plans, submitted, refused>>

\* The policy or the adapter raises.
ReadFails(c) ==
  /\ call[c].pc \in {"authorizing", "reading"}
  /\ To(c, "failed")
  /\ UNCHANGED <<plans, submitted, refused, audit>>

CancelRead(c) ==
  /\ \/ call[c].pc \in {"authorizing", "reading"} /\ To(c, "cancelled")
     \/ call[c].pc = "auditing" /\ To(c, AfterAudit("cancelled"))
  /\ UNCHANGED <<plans, submitted, refused, audit>>

ReadStep(c) ==
  StartRead(c) \/ Authorize(c) \/ Receive(c) \/ Audited(c) \/ ReadFails(c) \/ CancelRead(c)

--------------------------------------------------------------------------------
(* Properties *)

\* What reaches the database adapter is a plan still registered under the call's
\* reference, with nothing but retrieval however deep in its tree, under a decision
\* made for the call's own credential (data_access.py 55-92).
OnlyPermittedReads ==
  \A s \in submitted : LET r == call[s[1]].request  plan == s[2]  d == s[3] IN
    /\ plans[r.reference] = plan
    /\ \E nodes \in SUBSET OperationNodes :
         /\ plan.operation \in nodes /\ ClosedUnderChildren(nodes)
         /\ \A n \in nodes : n.kind \in Retrieval
    /\ d.allowed /\ d.identified /\ d.encrypted /\ d.credential = r.credential

\* A call refused for security is rejected as such, also when the audit sink fails
\* or the call is cancelled while it reports, and it has read nothing
\* (data_access.py 122-125).
RefusalStands ==
  \A c \in refused : /\ call[c].pc \in {"auditing", "rejected"}
                     /\ \A s \in submitted : s[1] # c

\* How a value counts under a term: first where nulls are put, then its size.
Weight(v, term) ==
  IF v = Null THEN <<IF term.nulls = "first" THEN -1 ELSE 1, 0>>
  ELSE <<0, IF term.direction = "ascending" THEN v ELSE -v>>

Lighter(x, y) == x[1] < y[1] \/ (x[1] = y[1] /\ x[2] < y[2])

KeyOf(row, order, columns) ==
  [n \in DOMAIN order |-> Weight(row[IndexOf(columns, order[n].column)], order[n])]

Precedes(k, l) == \E n \in DOMAIN k : Lighter(k[n], l[n]) /\ \A m \in 1..(n - 1) : k[m] = l[m]

\* A result is the adapter's rows, none lost or doubled, in the order of the plan's
\* terms: nulls where the term puts them in either direction, earlier terms first,
\* rows that tie in the order they came (normalization.py 84-105).
ResultOrdered ==
  \A c \in Calls : call[c].pc = "read" =>
    LET raw == call[c].raw  rows == call[c].rows
        Key(i) == KeyOf(raw.rows[i], call[c].plan.order, raw.columns)
    IN /\ Len(rows) = Len(raw.rows)
       /\ \E came \in [1..Len(rows) -> 1..Len(rows)] :
            /\ \A i \in 1..Len(rows) : rows[i] = raw.rows[came[i]]
            /\ \A k \in 1..Len(rows) : \E i \in 1..Len(rows) : came[i] = k
            /\ \A i, j \in 1..Len(rows) : i < j =>
                 \/ Precedes(Key(came[i]), Key(came[j]))
                 \/ Key(came[i]) = Key(came[j]) /\ came[i] < came[j]
================================================================================

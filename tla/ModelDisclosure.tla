--------------------------- MODULE ModelDisclosure ---------------------------
(***************************************************************************)
(* From a completed read to the model provider: the rows of the result     *)
(* become the payload of a model operation, for a task through             *)
(* ConfiguredTaskRowAdapter (interactive/tasking.py) and the packing of    *)
(* its rows, for plain model work as they are, and ProtectedModelInvoker   *)
(* (security/gateway.py) decides what leaves the process.  The policy is   *)
(* resolved and tested before the authenticator is awaited and applied     *)
(* after it; policies may be registered, and the operation cancelled,      *)
(* while it waits.                                                         *)
(*                                                                         *)
(* Abstracted: planning, capacity and budget around the call (Interactive),*)
(* and cutting rows into packs (BulkTask): one operation discloses all     *)
(* task rows.  A payload is a function from paths, sequences of keys, to   *)
(* what stands there in all rows; entries that hold nothing of the read    *)
(* (instructions, schema) are left out.  Keys hold no dots, so that a name *)
(* of a policy is a sequence of keys as well.                              *)
(***************************************************************************)
EXTENDS RelationalRead, Functions

CONSTANTS
  Policies,         \* the security policies that may be registered
  PolicyVersions,
  Operations,       \* [version, provider, classes, mapping]: what is asked of the model
  Authentications,  \* [authenticated, same]: what the authenticator may answer
  Unfreezable,      \* the values freeze refuses: decimals, dates and times, binary
  NoMapping,        \* plain model work, which maps no rows
  NoPolicy,
  MaskingRepresentation

ASSUME DisclosureAssumption ==
  /\ \A o \in Operations : o.version \in PolicyVersions
  /\ NoPolicy \notin Policies
  /\ \A p \in Policies : p.sensitive \subseteq Seq(STRING)

VARIABLES
  policies,    \* SecurityPolicyRegistry._policies
  operation,   \* the model operation of each call
  stage,       \* how far its disclosure is
  payload,     \* what was built from the rows of its read
  policy,      \* the policy its invocation resolved
  disclosed    \* history: [call, shown], what the gateway was given

disclosureVars == <<policies, operation, stage, payload, policy, disclosed>>
vars == <<readVars, disclosureVars>>

Init ==
  /\ ReadInit
  /\ policies = [v \in PolicyVersions |-> NoPolicy]
  /\ operation \in [Calls -> Operations]
  /\ stage = [c \in Calls |-> "none"]
  /\ payload = [c \in Calls |-> <<>>]
  /\ policy = [c \in Calls |-> NoPolicy]
  /\ disclosed = {}

\* register: a version is registered once, or again with the same policy.
PolicyRegistrable(v, p) == policies[v] \in {NoPolicy, p}

RegisterPolicy(v, p) ==
  /\ PolicyRegistrable(v, p)
  /\ policies' = [policies EXCEPT ![v] = p]
  /\ UNCHANGED <<readVars, operation, stage, payload, policy, disclosed>>

--------------------------------------------------------------------------------
(* Payloads *)

\* What a column holds, in the order of the rows.
ColumnOf(raw, rows, name) == [i \in DOMAIN rows |-> rows[i][IndexOf(raw.columns, name)]]

\* ConfiguredTaskRowAdapter.rows returns rows and no failure.  mapping.fields is
\* source_fields: the column each field of the payload is taken from.
RowsMap(raw, rows, mapping) ==
  LET columns == {mapping.identifier} \cup Range(mapping.fields)
      ids == ColumnOf(raw, rows, mapping.identifier)
  IN
  /\ DOMAIN mapping.fields # {}
  /\ columns \subseteq Names(raw.columns)
  /\ rows # <<>>
  /\ \A i \in DOMAIN rows : ids[i] # Null
  /\ \A name \in columns : Range(ColumnOf(raw, rows, name)) \cap Unfreezable = {}
  /\ IsInjective(ids)

\* _payload_object: the identifiers of the rows, and their fields under "source".
Identifiers == <<"rows", "id">>
SourceField(f) == <<"rows", "source", f>>
AllRows == <<"rows">>

TaskPayload(raw, rows, mapping) ==
  [path \in {Identifiers} \cup {SourceField(f) : f \in DOMAIN mapping.fields} |->
     ColumnOf(raw, rows, IF path = Identifiers THEN mapping.identifier
                         ELSE mapping.fields[path[3]])]

\* _model_payload of plain model work: the rows under one key, without column names.
PlainPayload(rows) == [path \in {AllRows} |-> rows]

--------------------------------------------------------------------------------
(* ProtectedModelInvoker.invoke *)

Stage(c, s) == stage' = [stage EXCEPT ![c] = s]

PolicyOf(c) == policies[operation[c].version]

\* Every test of invoke before authentication.
Permits(p, o) ==
  /\ p # NoPolicy
  /\ p.available /\ p.valid /\ p.decision = "allow"
  /\ o.provider \in p.providers
  /\ o.classes \subseteq p.classes
  /\ p.encrypted

\* The payload is built: task rows are prepared, other work takes the rows.
Prepare(c) ==
  LET raw == call[c].raw  rows == call[c].rows  mapping == operation[c].mapping IN
  /\ call[c].pc = "read" /\ stage[c] = "none"
  /\ IF mapping # NoMapping /\ ~RowsMap(raw, rows, mapping)
     THEN Stage(c, "unmapped") /\ UNCHANGED payload
     ELSE /\ payload' = [payload EXCEPT ![c] = IF mapping = NoMapping THEN PlainPayload(rows)
                                              ELSE TaskPayload(raw, rows, mapping)]
          /\ Stage(c, "prepared")
  /\ UNCHANGED <<readVars, policies, operation, policy, disclosed>>

\* invoke to its first await.
Invoke(c) ==
  /\ stage[c] = "prepared"
  /\ policy' = [policy EXCEPT ![c] = PolicyOf(c)]
  /\ Stage(c, IF Permits(PolicyOf(c), operation[c]) THEN "authenticating" ELSE "reporting")
  /\ UNCHANGED <<readVars, policies, operation, payload, disclosed>>

\* Mutant of Sensitive: dotted paths are not looked up.
SensitiveByKey(path, names) == \E n \in DOMAIN path : <<path[n]>> \in names

\* _mask, down to what stands at path: one of its keys, or the dotted path to one
\* of them, is a name of the policy.
Sensitive(path, names) ==
  \E n \in DOMAIN path : <<path[n]>> \in names \/ SubSeq(path, 1, n) \in names

Mask(shown, p) ==
  [path \in DOMAIN shown |-> IF Sensitive(path, p.sensitive) THEN MaskingRepresentation
                              ELSE shown[path]]

\* freeze of the masked payload: task rows were frozen before, other rows are not.
Freezable(c, shown) ==
  operation[c].mapping = NoMapping /\ shown[AllRows] # MaskingRepresentation =>
    \A i \in DOMAIN call[c].rows : Range(call[c].rows[i]) \cap Unfreezable = {}

\* After the authenticator has answered: the policy that was resolved is applied.
Authenticated(c) == LET shown == Mask(payload[c], policy[c]) IN
  /\ stage[c] = "authenticating"
  /\ \/ /\ \E a \in Authentications : ~(a.authenticated /\ a.same)
        /\ Stage(c, "reporting") /\ UNCHANGED disclosed
     \/ /\ \E a \in Authentications : a.authenticated /\ a.same
        /\ IF Freezable(c, shown)
           THEN /\ Stage(c, "invoking")
                /\ disclosed' = disclosed \cup {[call |-> c, shown |-> shown]}
           ELSE Stage(c, "failed") /\ UNCHANGED disclosed
  /\ UNCHANGED <<readVars, policies, operation, payload, policy>>

Answered(c) ==
  /\ stage[c] = "invoking"
  /\ \E s \in {"answered", "failed"} : Stage(c, s)
  /\ UNCHANGED <<readVars, policies, operation, payload, policy, disclosed>>

\* Where the wait for telemetry ends, however it ends: finally: raise.
Reported(c) ==
  /\ stage[c] = "reporting"
  /\ Stage(c, "denied")
  /\ UNCHANGED <<readVars, policies, operation, payload, policy, disclosed>>

\* A cancellation, or the authenticator raising.
EndDisclosure(c) ==
  /\ stage[c] \in {"prepared", "authenticating", "invoking"}
  /\ \E s \in {"cancelled", "failed"} : Stage(c, s)
  /\ UNCHANGED <<readVars, policies, operation, payload, policy, disclosed>>

Reading(c) == ReadStep(c) /\ UNCHANGED disclosureVars

Next ==
  \/ \E r \in PlanReferences, p \in Plans :
       plans[r] # p /\ RegisterPlan(r, p) /\ UNCHANGED disclosureVars
  \/ \E v \in PolicyVersions, p \in Policies : policies[v] # p /\ RegisterPolicy(v, p)
  \/ \E c \in Calls :
       \/ Reading(c)
       \/ Prepare(c) \/ Invoke(c) \/ Authenticated(c) \/ Answered(c) \/ Reported(c)
       \/ EndDisclosure(c)

Spec == Init /\ [][Next]_vars

--------------------------------------------------------------------------------
(* Properties *)

\* A disclosure is made under the policy that its version stands for, then and later.
UnderItsPolicy(d) == LET o == operation[d.call]  p == policy[d.call] IN
  /\ p = policies[o.version]
  /\ p # NoPolicy /\ p.available /\ p.valid /\ p.decision = "allow" /\ p.encrypted
  /\ o.provider \in p.providers /\ o.classes \subseteq p.classes

Hidden(d, path) == d.shown[path] = MaskingRepresentation

\* The policy names a key of the path, or the dotted path to one of its keys.
IsNamed(d, path) ==
  \E name \in policy[d.call].sensitive :
    \/ Len(name) = 1 /\ name[1] \in Range(path)
    \/ Len(name) \in DOMAIN path /\ name = SubSeq(path, 1, Len(name))

\* Whatever stands at or below what the policy names is masked.
NamedIsHidden(d) == \A path \in DOMAIN d.shown : IsNamed(d, path) => Hidden(d, path)

\* All else is what was read: the rows of plain work; the columns of a task, every row
\* once and in its order.
ShownAsRead(d) ==
  LET rows == call[d.call].rows  raw == call[d.call].raw  mapping == operation[d.call].mapping
      column(name) == ColumnOf(raw, rows, name)
  IN
  IF mapping = NoMapping THEN IsNamed(d, AllRows) \/ d.shown[AllRows] = rows
  ELSE /\ \/ IsNamed(d, Identifiers)
          \/ /\ d.shown[Identifiers] = column(mapping.identifier)
             /\ IsInjective(d.shown[Identifiers])
       /\ \A f \in DOMAIN mapping.fields :
            IsNamed(d, SourceField(f)) \/ d.shown[SourceField(f)] = column(mapping.fields[f])

\* What a provider is given comes from a completed read that was not refused, under
\* one policy that allows the provider and every data class, although rows were
\* mapped and the policy was looked up before the wait for authentication; what this
\* policy names is masked, identifiers as well as fields, and nothing else differs
\* from what was read.  A policy names keys of the payload: a column is not protected
\* where a field of another name is taken from it, and the rows of plain model work
\* have no keys below "rows" (security/gateway.py 80-130, interactive/tasking.py
\* 59-87, composition/prototype.py 692-697).
OnlyPermittedDisclosures ==
  \A d \in disclosed :
    /\ call[d.call].pc = "read" /\ d.call \notin refused
    /\ UnderItsPolicy(d) /\ NamedIsHidden(d) /\ ShownAsRead(d)
================================================================================

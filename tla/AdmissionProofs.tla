---------------------------- MODULE AdmissionProofs ----------------------------
(***************************************************************************)
(* What admission accepted stays what it was: for every set of profiles,   *)
(* callers, jobs and items, and any number of crashes.  The registries     *)
(* need one fact, that stored content has the meaning its reference names; *)
(* a job under way needs another, that every item of it is stored or still *)
(* to be submitted.                                                        *)
(***************************************************************************)
EXTENDS Admission, TLAPS

Attempt ==
  [pc: {"new", "dispatch", "accepted", "rejected", "raised", "lost", "left"},
   path: Paths \cup {NoPath}, content: Contents \cup {NoContent}, todo: Seq(Items)]

TypeInv ==
  /\ versions \in [References -> Contents \cup {NoContent}]
  /\ definitions \subseteq Definitions
  /\ activated \subseteq References \X Contents
  /\ request \in [Clients -> AdmissionEnvelope]
  /\ attempt \in [Clients -> Attempt]
  /\ items \in [Jobs -> [Items -> {NoItem} \cup ItemRecord]]
  /\ outbox \in [Jobs -> [Items -> {"none", "pending", "published"}]]

\* A reference names the meaning of what is stored under it.
MeaningNamed ==
  \A r \in References : versions[r] # NoContent => versions[r].meaning = r.digest

\* A context that is in use holds stored content.
ContextBound ==
  \A c \in Clients : attempt[c].pc \in {"dispatch", "accepted"} =>
    attempt[c].content # NoContent /\ attempt[c].content = versions[request[c].reference]

RegistryInv ==
  /\ TypeInv
  /\ MeaningNamed
  /\ ContextBound
  /\ \A pair \in activated : versions[pair[1]] = pair[2]

--------------------------------------------------------------------------------
(* Bound content *)

\* A digest is a meaning, and a reference built from content names its meaning.
LEMMA ReferenceType ==
  ASSUME NEW p \in Profiles, NEW k \in Contents
  PROVE  ReferenceTo(p, k) \in References /\ ReferenceTo(p, k).digest = k.meaning
BY DEF ReferenceTo, References, Contents

\* Activation keeps every stored version and adds at most its own.
LEMMA ActivateKeeps ==
  ASSUME RegistryInv, NEW p \in Profiles, NEW k \in Contents, Activate(p, k)
  PROVE  /\ versions' \in [References -> Contents \cup {NoContent}]
         /\ \A r \in References : versions[r] # NoContent => versions'[r] = versions[r]
         /\ versions'[ReferenceTo(p, k)] = k
         /\ MeaningNamed'
<1> DEFINE r0 == ReferenceTo(p, k)
<1>1. r0 \in References /\ r0.digest = k.meaning
  BY ReferenceType
<1>2. /\ versions' = [versions EXCEPT ![r0] = IF @ = NoContent THEN k ELSE @]
      /\ versions[r0] \in {NoContent, k}
  BY DEF Activate, Storable
<1>3. k # NoContent
  BY ConfigurationAssumption
<1> HIDE DEF r0
<1>4. /\ versions' \in [References -> Contents \cup {NoContent}]
      /\ versions'[r0] = k
      /\ \A r \in References : r # r0 => versions'[r] = versions[r]
  BY <1>1, <1>2, <1>3 DEF RegistryInv, TypeInv
<1>5. MeaningNamed'
  BY <1>1, <1>4 DEF RegistryInv, MeaningNamed
<1> QED
  BY <1>2, <1>4, <1>5 DEF r0
\* Whatever a registry does, it keeps every stored version, and what activate
\* returned a reference for is what is stored under it.
LEMMA RegistriesKeep ==
  ASSUME RegistryInv, RegistryStep
  PROVE  /\ versions' \in [References -> Contents \cup {NoContent}]
         /\ \A r \in References : versions[r] # NoContent => versions'[r] = versions[r]
         /\ MeaningNamed'
         /\ definitions' \subseteq Definitions
         /\ activated' \subseteq References \X Contents
         /\ \A pair \in activated' : versions'[pair[1]] = pair[2]
<1>0. definitions' \subseteq Definitions
  BY DEF RegistryInv, TypeInv, RegistryStep, RegisterVersion, RegisterCredential,
    ActivateAdapter, Activate, RegisterDefinition
<1>1. CASE \E p \in Profiles, k \in Contents : Activate(p, k)
  <2> PICK p \in Profiles, k \in Contents : Activate(p, k)
    BY <1>1
  <2> DEFINE r0 == ReferenceTo(p, k)
  <2>1. r0 \in References
    BY ReferenceType
  <2>2. activated' = activated \cup {<<r0, k>>}
    BY DEF Activate
  <2>3. /\ versions' \in [References -> Contents \cup {NoContent}]
        /\ \A r \in References : versions[r] # NoContent => versions'[r] = versions[r]
        /\ versions'[r0] = k
        /\ MeaningNamed'
    BY ActivateKeeps
  <2> HIDE DEF r0
  <2>4. ASSUME NEW pair \in activated PROVE versions'[pair[1]] = pair[2]
    <3>1. pair[1] \in References /\ pair[2] \in Contents /\ versions[pair[1]] = pair[2]
      BY DEF RegistryInv, TypeInv
    <3>2. pair[2] # NoContent
      BY <3>1, ConfigurationAssumption
    <3> QED
      BY <3>1, <3>2, <2>3
  <2>5. activated' \subseteq References \X Contents
    BY <2>1, <2>2 DEF RegistryInv, TypeInv
  <2> QED
    BY <1>0, <2>2, <2>3, <2>4, <2>5
<1>2. CASE UNCHANGED <<versions, activated>>
  BY <1>0, <1>2 DEF RegistryInv, TypeInv, MeaningNamed
<1> QED
  BY <1>1, <1>2 DEF RegistryStep, RegisterVersion, RegisterCredential, ActivateAdapter,
    RegisterDefinition

\* The initial registries are empty and no envelope is under way.
LEMMA RegistryInit == Init => RegistryInv
<1> SUFFICES ASSUME Init PROVE RegistryInv
  OBVIOUS
<1>1. /\ versions = [r \in References |-> NoContent] /\ activated = {}
      /\ definitions \subseteq Definitions
      /\ \A c \in Clients : attempt[c] = Idle
  BY ConfigurationAssumption DEF Init, StartRegistries
<1>2. Idle \in Attempt
  BY DEF Idle, Attempt
<1>3. TypeInv
  <2>1. request \in [Clients -> AdmissionEnvelope]
    BY AdmissionAssumption DEF Init
  <2> QED
    BY <1>1, <1>2, <2>1 DEF Init, TypeInv
<1> QED
  BY <1>1, <1>3 DEF RegistryInv, MeaningNamed, ContextBound, Idle

\* A path that routing finds is a path the envelope carries a payload for.
LEMMA PathType ==
  ASSUME NEW r \in AdmissionEnvelope, NEW p \in PathOf(r)
  PROVE  p \in Paths
BY DEF PathOf, AdmissionEnvelope, Paths, NoPath

\* What a reference binds the function of a payload to, when there is a definition.
BoundFor(reference, payload, d) ==
  /\ d \in Definitions
  /\ d = Settings[reference.digest].bindings[TaskOf[payload].function]
  /\ FunctionOf[d] = TaskOf[payload].function

\* Preparation uses the definition that the envelope's reference binds.
LEMMA PreparedAs ==
  ASSUME RegistryInv, NEW c \in Clients, attempt[c].pc = "accepted",
         NEW payload \in Payloads, NEW d \in Resolvable(attempt[c].content, payload)
  PROVE  BoundFor(request[c].reference, payload, d)
<1>1. request[c] \in AdmissionEnvelope
  BY DEF RegistryInv, TypeInv
<1>2. request[c].reference \in References
  BY <1>1 DEF AdmissionEnvelope
<1>3. /\ attempt[c].content # NoContent
      /\ attempt[c].content = versions[request[c].reference]
  BY DEF RegistryInv, ContextBound
<1>4. attempt[c].content.meaning = request[c].reference.digest
  BY <1>2, <1>3 DEF RegistryInv, MeaningNamed
<1> DEFINE f == TaskOf[payload].function
<1>5. /\ d = Settings[request[c].reference.digest].bindings[f]
      /\ FunctionOf[d] = f
  BY <1>4 DEF Resolvable, Resolved
<1>6. request[c].reference.digest \in Meanings /\ f \in Functions
  BY <1>2, AdmissionAssumption DEF References, TaskInvocation
<1>7. d \in Definitions
  BY DEF Resolvable, Resolved, RegistryInv, TypeInv
<1> QED
  BY <1>5, <1>7 DEF BoundFor

\* Preparation changes one stored item, and of it the definition or whether it is open.
LEMMA PrepareEffect ==
  ASSUME RegistryInv, NEW c \in Clients, NEW i \in Items, Prepare(c, i),
         NEW j, j = request[c].job
  PROVE  /\ j \in Jobs /\ items[j][i] \in ItemRecord
         /\ \E rec \in ItemRecord :
              /\ items' = [items EXCEPT ![j][i] = rec]
              /\ rec.reference = items[j][i].reference
              /\ rec.payload = items[j][i].payload
              /\ \/ rec.prepared = NoDefinition
                 \/ BoundFor(request[c].reference, rec.payload, rec.prepared)
<1>1. request[c] \in AdmissionEnvelope
  BY DEF RegistryInv, TypeInv
<1>2. j \in Jobs
  BY <1>1 DEF AdmissionEnvelope
<1>3. items[j][i] \in ItemRecord
  BY <1>2 DEF Prepare, RegistryInv, TypeInv
<1> DEFINE found == Resolvable(attempt[c].content, items[j][i].payload)
<1>4. CASE \E d \in found : items' = [items EXCEPT ![j][i].prepared = d]
  <2> PICK d \in found : items' = [items EXCEPT ![j][i].prepared = d]
    BY <1>4
  <2> DEFINE rec == [items[j][i] EXCEPT !.prepared = d]
  <2>1. BoundFor(request[c].reference, items[j][i].payload, d)
    <3>1. items[j][i].payload \in Payloads
      BY <1>3 DEF ItemRecord
    <3> QED
      BY <3>1, PreparedAs DEF Prepare
  <2>2. rec \in ItemRecord
    BY <1>3, <2>1 DEF ItemRecord, BoundFor
  <2>3. /\ rec.reference = items[j][i].reference /\ rec.payload = items[j][i].payload
        /\ rec.prepared = d
    BY <1>3 DEF ItemRecord
  <2>4. items' = [items EXCEPT ![j][i] = rec]
    BY <1>2 DEF RegistryInv, TypeInv
  <2> QED
    BY <1>2, <1>3, <2>1, <2>2, <2>3, <2>4
<1>5. CASE items' = [items EXCEPT ![j][i].open = FALSE]
  <2> DEFINE rec == [items[j][i] EXCEPT !.open = FALSE]
  <2>1. rec \in ItemRecord
    BY <1>3 DEF ItemRecord
  <2>2. /\ rec.reference = items[j][i].reference /\ rec.payload = items[j][i].payload
        /\ rec.prepared = items[j][i].prepared
    BY <1>3 DEF ItemRecord
  <2>3. items' = [items EXCEPT ![j][i] = rec]
    BY <1>2, <1>5 DEF RegistryInv, TypeInv
  <2>4. items[j][i].prepared = NoDefinition
    BY DEF Prepare
  <2> QED
    BY <1>2, <1>3, <2>1, <2>2, <2>3, <2>4
<1> QED
  BY <1>4, <1>5 DEF Prepare

\* The one way to lose ContextBound is to give a call in use other content.
LEMMA SameContext ==
  ASSUME RegistryInv, UNCHANGED <<versions, request>>,
         \A d \in Clients : attempt'[d].pc \in {"dispatch", "accepted"} =>
           /\ attempt[d].pc \in {"dispatch", "accepted"}
           /\ attempt'[d].content = attempt[d].content
  PROVE  ContextBound'
BY DEF RegistryInv, ContextBound

\* A call that only changes its program counter keeps everything else of every call.
LEMMA PcChange ==
  ASSUME TypeInv, NEW c \in Clients,
         NEW v \in {"new", "dispatch", "accepted", "rejected", "raised", "lost", "left"},
         attempt' = [attempt EXCEPT ![c].pc = v]
  PROVE  /\ attempt' \in [Clients -> Attempt]
         /\ attempt'[c].pc = v /\ attempt'[c].content = attempt[c].content
         /\ \A d \in Clients \ {c} : attempt'[d] = attempt[d]
<1> DEFINE a == [attempt[c] EXCEPT !.pc = v]
<1>1. attempt \in [Clients -> Attempt] /\ attempt[c] \in Attempt
  BY DEF TypeInv
<1>2. a \in Attempt /\ a.pc = v /\ a.content = attempt[c].content
  BY <1>1 DEF Attempt
<1>3. attempt' = [attempt EXCEPT ![c] = a]
  BY <1>1
<1> HIDE DEF a
<1> QED
  BY <1>1, <1>2, <1>3

\* What a client's call or preparation changes stays well typed.
LEMMA ClientTypes ==
  ASSUME RegistryInv, NEW c \in Clients,
         Admit(c) \/ Again(c) \/ \E i \in Items : Prepare(c, i)
  PROVE  TypeInv' /\ ContextBound' /\ UNCHANGED registryVars
<1>0. ASSUME NEW i \in Items, Prepare(c, i)
      PROVE  \E j \in Jobs, rec \in ItemRecord : items' = [items EXCEPT ![j][i] = rec]
  BY <1>0, PrepareEffect
<1> USE DEF RegistryInv
<1>1. CASE Route(c)
  <2> DEFINE r == request[c]
  <2>0. r \in AdmissionEnvelope /\ r.reference \in References /\ r.items \in Seq(Items)
    BY DEF TypeInv, AdmissionEnvelope
  <2>k. UNCHANGED <<registryVars, request, items, outbox>>
    BY <1>1 DEF Route
  <2>v. UNCHANGED <<versions, activated, definitions>>
    BY <2>k DEF registryVars
  <2>1. ASSUME attempt' = [attempt EXCEPT ![c].pc = "rejected"]
        PROVE  attempt' \in [Clients -> Attempt] /\ ContextBound'
    <3>1. /\ attempt' \in [Clients -> Attempt] /\ attempt'[c].pc = "rejected"
          /\ \A d \in Clients \ {c} : attempt'[d] = attempt[d]
      BY <2>1, PcChange
    <3>2. ContextBound'
      BY <2>k, <2>v, <3>1, SameContext
    <3> QED
      BY <3>1, <3>2
  <2>2. ASSUME NEW p \in PathOf(r), Bindable(r.reference),
               attempt' = [attempt EXCEPT ![c] =
                 [pc |-> "dispatch", path |-> p, content |-> Bound(r.reference),
                  todo |-> IF p = "bulk" THEN r.items ELSE <<>>]]
        PROVE  attempt' \in [Clients -> Attempt] /\ ContextBound'
    <3> DEFINE a == [pc |-> "dispatch", path |-> p, content |-> Bound(r.reference),
                     todo |-> IF p = "bulk" THEN r.items ELSE <<>>]
    <3>1. p \in Paths
      BY <2>0, PathType
    <3>2. Bound(r.reference) \in Contents /\ Bound(r.reference) # NoContent
          /\ Bound(r.reference) = versions[r.reference]
      BY <2>0, <2>2 DEF TypeInv, Bindable, Bound
    <3>3. a \in Attempt
      BY <2>0, <3>1, <3>2 DEF Attempt
    <3>4. attempt' \in [Clients -> Attempt]
      BY <2>2, <3>3 DEF TypeInv
    <3>5. a.content # NoContent /\ a.content = versions[request[c].reference]
      BY <3>2
    <3> HIDE DEF a
    <3>6. attempt'[c] = a /\ \A d \in Clients \ {c} : attempt'[d] = attempt[d]
      BY <2>2 DEF TypeInv, a
    <3> QED
      BY <2>k, <2>v, <3>4, <3>5, <3>6 DEF ContextBound
  <2>3. attempt' \in [Clients -> Attempt] /\ ContextBound'
    BY <1>1, <2>1, <2>2 DEF Route
  <2>4. TypeInv'
    BY <2>k, <2>v, <2>3 DEF TypeInv
  <2> QED
    BY <2>k, <2>3, <2>4
<1>2. CASE DispatchInteractive(c)
  <2>k. UNCHANGED <<registryVars, request, items, outbox>> /\ attempt[c].pc = "dispatch"
    BY <1>2 DEF DispatchInteractive
  <2>v. UNCHANGED <<versions, activated, definitions>>
    BY <2>k DEF registryVars
  <2>1. PICK v \in {"accepted", "raised"} : attempt' = [attempt EXCEPT ![c].pc = v]
    BY <1>2 DEF DispatchInteractive
  <2>2. /\ attempt' \in [Clients -> Attempt]
        /\ attempt'[c].content = attempt[c].content
        /\ \A d \in Clients \ {c} : attempt'[d] = attempt[d]
    BY <2>1, PcChange
  <2>3. ContextBound'
    BY <2>k, <2>v, <2>2, SameContext
  <2> QED
    BY <2>k, <2>v, <2>2, <2>3 DEF TypeInv
<1>3. CASE SubmitItem(c)
  <2> DEFINE j == request[c].job  i == Head(attempt[c].todo)
             it == Item(request[c].reference, PayloadOf(c))
  <2>k. UNCHANGED <<registryVars, request>>
    BY <1>3 DEF SubmitItem
  <2>v. UNCHANGED <<versions, activated, definitions>>
    BY <2>k DEF registryVars
  <2>1. request[c] \in AdmissionEnvelope /\ attempt[c] \in Attempt
    BY DEF TypeInv
  <2>2. j \in Jobs /\ request[c].reference \in References /\ PayloadOf(c) \in Payloads
    BY <2>1 DEF AdmissionEnvelope, PayloadOf
  <2>3. attempt[c].todo \in Seq(Items) /\ attempt[c].todo # <<>>
    BY <2>1, <1>3 DEF Attempt, SubmitItem
  <2>4. i \in Items /\ Tail(attempt[c].todo) \in Seq(Items)
    BY <2>3
  <2>5. it \in ItemRecord
    BY <2>2 DEF Item, ItemRecord
  <2>6. ASSUME \/ attempt' = [attempt EXCEPT ![c].todo = Tail(@)]
               \/ attempt' = [attempt EXCEPT ![c].pc = "raised"]
        PROVE  attempt' \in [Clients -> Attempt] /\ ContextBound'
    <3> DEFINE t == Tail(attempt[c].todo)
    <3>1. t \in Seq(Items)
      BY <2>4
    <3>2. \/ attempt' = [attempt EXCEPT ![c].todo = t]
          \/ attempt' = [attempt EXCEPT ![c].pc = "raised"]
      BY <2>6
    <3> HIDE DEF t
    <3>3. CASE attempt' = [attempt EXCEPT ![c].todo = t]
      <4> DEFINE a == [attempt[c] EXCEPT !.todo = t]
      <4>1. a \in Attempt /\ a.pc = attempt[c].pc /\ a.content = attempt[c].content
        BY <2>1, <3>1 DEF Attempt
      <4>2. attempt' = [attempt EXCEPT ![c] = a] /\ attempt \in [Clients -> Attempt]
        BY <2>1, <3>3 DEF TypeInv
      <4> HIDE DEF a
      <4>3. /\ attempt' \in [Clients -> Attempt] /\ attempt'[c] = a
            /\ \A d \in Clients \ {c} : attempt'[d] = attempt[d]
        BY <4>1, <4>2
      <4> QED
        BY <2>k, <2>v, <4>1, <4>3, SameContext
    <3>4. CASE attempt' = [attempt EXCEPT ![c].pc = "raised"]
      <4>1. /\ attempt' \in [Clients -> Attempt] /\ attempt'[c].pc = "raised"
            /\ \A d \in Clients \ {c} : attempt'[d] = attempt[d]
        BY <3>4, PcChange
      <4> QED
        BY <2>k, <2>v, <4>1, SameContext
    <3> QED
      BY <3>2, <3>3, <3>4
  <2>7. CASE /\ items' = [items EXCEPT ![j][i] = it]
             /\ outbox' = [outbox EXCEPT ![j][i] = "pending"]
             /\ attempt' = [attempt EXCEPT ![c].todo = Tail(@)]
    <3> HIDE DEF j, i, it
    <3>1. items' \in [Jobs -> [Items -> {NoItem} \cup ItemRecord]]
      BY <2>2, <2>4, <2>5, <2>7 DEF TypeInv
    <3>2. outbox' \in [Jobs -> [Items -> {"none", "pending", "published"}]]
      BY <2>2, <2>4, <2>7 DEF TypeInv
    <3> QED
      BY <2>k, <2>v, <2>6, <2>7, <3>1, <3>2 DEF TypeInv
  <2>8. CASE /\ UNCHANGED <<items, outbox>>
             /\ \/ attempt' = [attempt EXCEPT ![c].todo = Tail(@)]
                \/ attempt' = [attempt EXCEPT ![c].pc = "raised"]
    BY <2>k, <2>v, <2>6, <2>8 DEF TypeInv
  <2> QED
    BY <1>3, <2>7, <2>8 DEF SubmitItem
<1>4. CASE RelayAndAccept(c)
  <2>k. /\ UNCHANGED <<registryVars, request, items>> /\ attempt[c].pc = "dispatch"
        /\ attempt' = [attempt EXCEPT ![c].pc = "accepted"]
    BY <1>4 DEF RelayAndAccept
  <2>v. UNCHANGED <<versions, activated, definitions>>
    BY <2>k DEF registryVars
  <2>1. /\ attempt' \in [Clients -> Attempt]
        /\ attempt'[c].content = attempt[c].content
        /\ \A d \in Clients \ {c} : attempt'[d] = attempt[d]
    BY <2>k, PcChange
  <2>2. ContextBound'
    BY <2>k, <2>v, <2>1, SameContext
  <2>3. outbox' \in [Jobs -> [Items -> {"none", "pending", "published"}]]
    BY <1>4 DEF RelayAndAccept, TypeInv
  <2> QED
    BY <2>k, <2>v, <2>1, <2>2, <2>3 DEF TypeInv
<1>5. CASE Again(c)
  <2>1. Idle \in Attempt /\ Idle.pc = "new"
    BY DEF Idle, Attempt
  <2>k. /\ UNCHANGED <<registryVars, request, items, outbox>>
        /\ attempt' = [attempt EXCEPT ![c] = Idle]
    BY <1>5 DEF Again
  <2>v. UNCHANGED <<versions, activated, definitions>>
    BY <2>k DEF registryVars
  <2>2. /\ attempt' \in [Clients -> Attempt] /\ attempt'[c] = Idle
        /\ \A d \in Clients \ {c} : attempt'[d] = attempt[d]
    BY <2>1, <2>k DEF TypeInv
  <2>3. ContextBound'
    BY <2>k, <2>v, <2>1, <2>2, SameContext
  <2> QED
    BY <2>k, <2>v, <2>2, <2>3 DEF TypeInv
<1>6. CASE \E i \in Items : Prepare(c, i)
  <2> PICK i \in Items : Prepare(c, i)
    BY <1>6
  <2>1. PICK j \in Jobs, rec \in ItemRecord : items' = [items EXCEPT ![j][i] = rec]
    BY <1>0
  <2>2. items' \in [Jobs -> [Items -> {NoItem} \cup ItemRecord]]
    BY <2>1 DEF TypeInv
  <2>3. UNCHANGED <<registryVars, request, attempt, outbox>>
    BY DEF Prepare
  <2>4. ContextBound'
    BY <2>3, SameContext DEF registryVars
  <2> QED
    BY <2>2, <2>3, <2>4 DEF TypeInv, registryVars
<1> QED
  BY <1>1, <1>2, <1>3, <1>4, <1>5, <1>6 DEF Admit

\* A crash leaves no context in use.
LEMMA CrashKeeps == RegistryInv /\ Crash => RegistryInv'
<1> SUFFICES ASSUME RegistryInv, Crash PROVE RegistryInv'
  OBVIOUS
<1>1. /\ versions' = [r \in References |-> NoContent] /\ activated' = {}
      /\ definitions' \subseteq Definitions
  BY ConfigurationAssumption DEF Crash, RestartRegistries
<1>2. attempt' \in [Clients -> Attempt]
  <2>1. ASSUME NEW c \in Clients PROVE attempt'[c] \in Attempt
    <3>1. attempt[c] \in Attempt
      BY DEF RegistryInv, TypeInv
    <3>2. /\ [attempt[c] EXCEPT !.pc = "lost"] \in Attempt
          /\ [attempt[c] EXCEPT !.pc = "left"] \in Attempt
      BY <3>1 DEF Attempt
    <3>3. attempt'[c] \in {attempt[c], [attempt[c] EXCEPT !.pc = "lost"],
                           [attempt[c] EXCEPT !.pc = "left"]}
      BY DEF Crash
    <3> QED
      BY <3>1, <3>2, <3>3
  <2> QED
    BY <2>1 DEF Crash
<1>3. \A c \in Clients : attempt'[c].pc \notin {"dispatch", "accepted"}
  BY DEF Crash, RegistryInv, TypeInv, Attempt
<1>4. TypeInv'
  BY <1>1, <1>2 DEF Crash, RegistryInv, TypeInv
<1> QED
  BY <1>1, <1>3, <1>4 DEF RegistryInv, MeaningNamed, ContextBound

LEMMA RegistryStepKeeps == RegistryInv /\ [Next]_vars => RegistryInv'
<1> SUFFICES ASSUME RegistryInv, [Next]_vars PROVE RegistryInv'
  OBVIOUS
<1>1. CASE Registries
  <2>1. UNCHANGED <<request, attempt, items, outbox>>
    BY <1>1 DEF Registries, clientVars
  <2>2. /\ versions' \in [References -> Contents \cup {NoContent}]
        /\ \A r \in References : versions[r] # NoContent => versions'[r] = versions[r]
        /\ MeaningNamed'
        /\ definitions' \subseteq Definitions
        /\ activated' \subseteq References \X Contents
        /\ \A pair \in activated' : versions'[pair[1]] = pair[2]
    BY <1>1, RegistriesKeep DEF Registries
  <2>3. ContextBound'
    <3>1. \A c \in Clients : request[c].reference \in References
      BY DEF RegistryInv, TypeInv, AdmissionEnvelope
    <3> QED
      BY <2>1, <2>2, <3>1 DEF RegistryInv, ContextBound
  <2> QED
    BY <2>1, <2>2, <2>3 DEF RegistryInv, TypeInv
<1>2. CASE Crash
  BY <1>2, CrashKeeps
<1>3. ASSUME NEW c \in Clients, Admit(c) \/ Again(c) \/ \E i \in Items : Prepare(c, i)
      PROVE  RegistryInv'
  BY <1>3, ClientTypes DEF RegistryInv, MeaningNamed, registryVars
<1>4. CASE UNCHANGED vars
  BY <1>4 DEF vars, registryVars, clientVars, RegistryInv, TypeInv, MeaningNamed, ContextBound
<1> QED
  BY <1>1, <1>2, <1>3, <1>4 DEF Next

\* Every state's registries hold content under the reference that names it.
THEOREM RegistryCorrect == Spec => []RegistryInv
BY RegistryInit, RegistryStepKeeps, PTL DEF Spec

\* BoundContentFixed (activate, bind and the contexts of admitted work): an
\* execution keeps the content activated under its reference.
THEOREM BoundContentNeverChanges == Spec => []BoundContentFixed
<1>1. RegistryInv => BoundContentFixed
  <2> SUFFICES ASSUME RegistryInv PROVE BoundContentFixed
    OBVIOUS
  <2>1. ASSUME NEW c \in Clients, attempt[c].pc \in {"dispatch", "accepted"}
        PROVE  /\ attempt[c].content = versions[request[c].reference]
               /\ attempt[c].content.meaning = request[c].reference.digest
    <3>1. request[c].reference \in References
      BY DEF RegistryInv, TypeInv, AdmissionEnvelope
    <3> QED
      BY <2>1, <3>1 DEF RegistryInv, ContextBound, MeaningNamed
  <2> QED
    BY <2>1 DEF RegistryInv, BoundContentFixed
<1> QED
  BY <1>1, RegistryCorrect, PTL

--------------------------------------------------------------------------------
(* Accepted jobs *)

\* An item of the job is stored for the configuration and payload of the envelope.
StoredFor(c, i) == LET item == items[request[c].job][i] IN
  /\ item # NoItem
  /\ item.reference = request[c].reference
  /\ item.payload = request[c].payload

\* A job under way has each item stored, or still to be submitted.
JobUnderWayOf(c) ==
  attempt[c].pc = "dispatch" /\ attempt[c].path = "bulk" =>
    \A i \in ToSet(request[c].items) : i \in ToSet(attempt[c].todo) \/ StoredFor(c, i)

JobUnderWay == \A c \in Clients : JobUnderWayOf(c)

\* AcceptedJobStored, of one call.
JobStoredOf(c) ==
  attempt[c].pc \in {"accepted", "left"} /\ attempt[c].path = "bulk" =>
    \A i \in ToSet(request[c].items) :
      StoredFor(c, i) /\ outbox[request[c].job][i] = "published"

\* An item and its event are stored together.
EventStored ==
  \A j \in Jobs : \A i \in Items : items[j][i] # NoItem <=> outbox[j][i] # "none"

\* A preparation is the one that the item's reference binds for its function.
PreparedByReference ==
  \A j \in Jobs : \A i \in Items :
    items[j][i] # NoItem /\ items[j][i].prepared # NoDefinition =>
      BoundFor(items[j][i].reference, items[j][i].payload, items[j][i].prepared)

JobInv ==
  /\ RegistryInv
  /\ EventStored
  /\ JobUnderWay
  /\ AcceptedJobStored
  /\ PreparedByReference

\* What a step may not do to the jobs: lose an item, make it another job's work, or
\* take back a publication.
JobsKept ==
  /\ request' = request
  /\ \A j \in Jobs : \A i \in Items :
       /\ items[j][i] # NoItem => /\ items'[j][i] # NoItem
                                  /\ items'[j][i].reference = items[j][i].reference
                                  /\ items'[j][i].payload = items[j][i].payload
       /\ outbox[j][i] = "published" => outbox'[j][i] = "published"

\* The elements of a sequence are its head and the elements of its tail.
LEMMA HeadOrTail ==
  ASSUME NEW s \in Seq(Items), s # <<>>
  PROVE  ToSet(s) \subseteq {Head(s)} \cup ToSet(Tail(s))
<1> SUFFICES ASSUME NEW n \in DOMAIN s, n # 1 PROVE s[n] \in ToSet(Tail(s))
  BY DEF ToSet
<1>1. n - 1 \in DOMAIN Tail(s) /\ Tail(s)[n - 1] = s[n]
  OBVIOUS
<1> QED
  BY <1>1 DEF ToSet

\* What submitting stores is the caller's work.
LEMMA NewItem ==
  ASSUME RegistryInv, NEW c \in Clients,
         NEW it, it = Item(request[c].reference, request[c].payload)
  PROVE  /\ it \in ItemRecord /\ it # NoItem
         /\ it.reference = request[c].reference /\ it.payload = request[c].payload
<1>1. request[c] \in AdmissionEnvelope
  BY DEF RegistryInv, TypeInv
<1>2. request[c].reference \in References /\ request[c].payload \in Payloads
  BY <1>1 DEF AdmissionEnvelope
<1>3. it \in ItemRecord
  BY <1>2 DEF Item, ItemRecord
<1> QED
  BY <1>3, AdmissionAssumption DEF Item

\* Submitting takes the head off the list of items to submit only once it is stored.
LEMMA SubmitEffect ==
  ASSUME JobInv, NEW c \in Clients, SubmitItem(c),
         NEW j, j = request[c].job, NEW i, i = Head(attempt[c].todo),
         NEW it, it = Item(request[c].reference, request[c].payload)
  PROVE  /\ j \in Jobs /\ i \in Items
         /\ attempt[c].todo \in Seq(Items) /\ attempt[c].todo # <<>>
         /\ \/ /\ items[j][i] = NoItem
               /\ items'[j][i] = it /\ outbox'[j][i] = "pending"
               /\ \A k \in Jobs : \A l \in Items : k # j \/ l # i =>
                    items'[k][l] = items[k][l] /\ outbox'[k][l] = outbox[k][l]
            \/ UNCHANGED <<items, outbox>>
         /\ \A d \in Clients \ {c} : attempt'[d] = attempt[d]
         /\ \/ attempt'[c].pc = "raised"
            \/ /\ StoredFor(c, i)'
               /\ attempt'[c].pc = attempt[c].pc
               /\ attempt'[c].todo = Tail(attempt[c].todo)
<1>1. /\ request[c] \in AdmissionEnvelope /\ attempt[c] \in Attempt
      /\ attempt \in [Clients -> Attempt]
      /\ items \in [Jobs -> [Items -> {NoItem} \cup ItemRecord]]
      /\ outbox \in [Jobs -> [Items -> {"none", "pending", "published"}]]
  BY DEF JobInv, RegistryInv, TypeInv
<1>2. /\ j \in Jobs /\ request[c].reference \in References
      /\ request[c].payload \in Payloads
  BY <1>1 DEF AdmissionEnvelope
<1>3. attempt[c].todo \in Seq(Items) /\ attempt[c].todo # <<>>
  BY <1>1 DEF Attempt, SubmitItem
<1>4. i \in Items
  BY <1>3
<1>5. request' = request
  BY DEF SubmitItem
<1>6. /\ it # NoItem
      /\ it.reference = request[c].reference /\ it.payload = request[c].payload
  BY NewItem DEF JobInv
<1>7. CASE /\ items[j][i] = NoItem
           /\ items' = [items EXCEPT ![j][i] = it]
           /\ outbox' = [outbox EXCEPT ![j][i] = "pending"]
           /\ attempt' = [attempt EXCEPT ![c].todo = Tail(@)]
  <2>1. items'[j][i] = it
    BY <1>1, <1>2, <1>4, <1>7
  <2>2. StoredFor(c, i)'
    BY <1>5, <1>6, <2>1 DEF StoredFor
  <2>3. /\ outbox'[j][i] = "pending"
        /\ \A k \in Jobs : \A l \in Items : k # j \/ l # i =>
             items'[k][l] = items[k][l] /\ outbox'[k][l] = outbox[k][l]
    BY <1>1, <1>2, <1>4, <1>7
  <2>4. attempt'[c].pc = attempt[c].pc /\ attempt'[c].todo = Tail(attempt[c].todo)
    BY <1>1, <1>7 DEF Attempt
  <2> QED
    BY <1>1, <1>2, <1>3, <1>4, <1>7, <2>1, <2>2, <2>3, <2>4
<1>8. CASE /\ items[j][i] # NoItem
           /\ attempt' = IF SameWork(items[j][i], request[c].reference, PayloadOf(c))
                         THEN [attempt EXCEPT ![c].todo = Tail(@)]
                         ELSE [attempt EXCEPT ![c].pc = "raised"]
           /\ UNCHANGED <<items, outbox>>
  <2>1. CASE SameWork(items[j][i], request[c].reference, PayloadOf(c))
    <3>1. StoredFor(c, i)'
      BY <1>5, <1>8, <2>1 DEF SameWork, PayloadOf, StoredFor
    <3> QED
      BY <1>1, <1>2, <1>3, <1>4, <1>8, <2>1, <3>1 DEF Attempt
  <2>2. CASE ~SameWork(items[j][i], request[c].reference, PayloadOf(c))
    <3>1. attempt'[c].pc = "raised"
      BY <1>1, <1>8, <2>2 DEF Attempt
    <3> QED
      BY <1>1, <1>2, <1>3, <1>4, <1>8, <2>2, <3>1
  <2> QED
    BY <2>1, <2>2
<1> QED
  BY <1>7, <1>8 DEF SubmitItem, PayloadOf

\* The store side of every step.
LEMMA StepKeepsJobs ==
  ASSUME JobInv, [Next]_vars
  PROVE  JobsKept /\ EventStored' /\ PreparedByReference'
<1>1. /\ items \in [Jobs -> [Items -> {NoItem} \cup ItemRecord]]
      /\ outbox \in [Jobs -> [Items -> {"none", "pending", "published"}]]
  BY DEF JobInv, RegistryInv, TypeInv
<1>2. EventStored /\ PreparedByReference
  BY DEF JobInv
<1>3. ASSUME UNCHANGED <<request, items, outbox>>
      PROVE  JobsKept /\ EventStored' /\ PreparedByReference'
  BY <1>2, <1>3 DEF JobsKept, EventStored, PreparedByReference
<1>4. ASSUME NEW c \in Clients, SubmitItem(c)
      PROVE  JobsKept /\ EventStored' /\ PreparedByReference'
  <2>0. PICK j, i, it : /\ j = request[c].job /\ i = Head(attempt[c].todo)
                        /\ it = Item(request[c].reference, request[c].payload)
    OBVIOUS
  <2>1. /\ j \in Jobs /\ i \in Items
        /\ \/ /\ items[j][i] = NoItem
              /\ items'[j][i] = it /\ outbox'[j][i] = "pending"
              /\ \A k \in Jobs : \A l \in Items : k # j \/ l # i =>
                   items'[k][l] = items[k][l] /\ outbox'[k][l] = outbox[k][l]
           \/ UNCHANGED <<items, outbox>>
    BY <1>4, <2>0, SubmitEffect
  <2>2. it.prepared = NoDefinition /\ it # NoItem
    BY <2>0, NewItem DEF Item, JobInv
  <2>3. request' = request
    BY <1>4 DEF SubmitItem
  <2>4. CASE UNCHANGED <<items, outbox>>
    BY <1>3, <2>3, <2>4
  <2>5. CASE /\ items[j][i] = NoItem
             /\ items'[j][i] = it /\ outbox'[j][i] = "pending"
             /\ \A k \in Jobs : \A l \in Items : k # j \/ l # i =>
                  items'[k][l] = items[k][l] /\ outbox'[k][l] = outbox[k][l]
    <3>1. outbox[j][i] = "none"
      BY <1>2, <2>1, <2>5 DEF EventStored
    <3>2. JobsKept
      BY <2>1, <2>3, <2>5, <3>1 DEF JobsKept
    <3>3. EventStored'
      BY <1>2, <2>1, <2>2, <2>5 DEF EventStored
    <3>4. PreparedByReference'
      BY <1>2, <2>1, <2>2, <2>5 DEF PreparedByReference
    <3> QED
      BY <3>2, <3>3, <3>4
  <2> QED
    BY <2>1, <2>4, <2>5
<1>5. ASSUME NEW c \in Clients, RelayAndAccept(c)
      PROVE  JobsKept /\ EventStored' /\ PreparedByReference'
  <2>1. request' = request /\ items' = items
    BY <1>5 DEF RelayAndAccept
  <2>2. \A j \in Jobs : \A i \in Items :
          outbox'[j][i] = IF outbox[j][i] = "pending" THEN "published" ELSE outbox[j][i]
    BY <1>5 DEF RelayAndAccept
  <2> QED
    BY <1>2, <2>1, <2>2 DEF JobsKept, EventStored, PreparedByReference
<1>6. ASSUME NEW c \in Clients, NEW i \in Items, Prepare(c, i)
      PROVE  JobsKept /\ EventStored' /\ PreparedByReference'
  <2>1. PICK j \in Jobs, rec \in ItemRecord :
          /\ items[j][i] \in ItemRecord
          /\ items' = [items EXCEPT ![j][i] = rec]
          /\ rec.reference = items[j][i].reference
          /\ rec.payload = items[j][i].payload
          /\ \/ rec.prepared = NoDefinition
             \/ BoundFor(items[j][i].reference, rec.payload, rec.prepared)
    <3> PICK j : j = request[c].job
      OBVIOUS
    <3>1. items[j][i].reference = request[c].reference
      BY <1>6 DEF Prepare, JobInv, AcceptedJobStored
    <3> QED
      BY <1>6, <3>1, PrepareEffect DEF JobInv
  <2>2. rec # NoItem /\ items[j][i] # NoItem
    BY <2>1, AdmissionAssumption
  <2>3. request' = request /\ outbox' = outbox
    BY <1>6 DEF Prepare
  <2>4. /\ items'[j][i] = rec
        /\ \A k \in Jobs : \A l \in Items : k # j \/ l # i => items'[k][l] = items[k][l]
    BY <1>1, <2>1
  <2>5. JobsKept
    BY <2>1, <2>2, <2>3, <2>4 DEF JobsKept
  <2>6. EventStored'
    BY <1>2, <2>2, <2>3, <2>4 DEF EventStored
  <2>7. PreparedByReference'
    BY <1>2, <2>1, <2>4 DEF PreparedByReference
  <2> QED
    BY <2>5, <2>6, <2>7
<1>7. ASSUME NEW c \in Clients, Route(c) \/ DispatchInteractive(c) \/ Again(c)
      PROVE  JobsKept /\ EventStored' /\ PreparedByReference'
  BY <1>3, <1>7 DEF Route, DispatchInteractive, Again
<1>8. CASE Registries \/ Crash \/ UNCHANGED vars
  BY <1>3, <1>8 DEF Registries, Crash, vars, clientVars
<1> QED
  BY <1>4, <1>5, <1>6, <1>7, <1>8 DEF Next, Admit

\* A call stays in its state, is left or lost, or has no job to account for.
CallStays(d) ==
  \/ attempt'[d].pc \notin {"dispatch", "accepted", "left"}
  \/ attempt'[d].path # "bulk"
  \/ /\ attempt'[d].path = attempt[d].path /\ attempt'[d].todo = attempt[d].todo
     /\ \/ attempt'[d].pc = attempt[d].pc
        \/ attempt[d].pc = "accepted" /\ attempt'[d].pc = "left"

\* Every step leaves a call so, or is one of the three that work on its job.
LEMMA CallSteps ==
  ASSUME JobInv, [Next]_vars, NEW d \in Clients
  PROVE  CallStays(d) \/ Route(d) \/ SubmitItem(d) \/ RelayAndAccept(d)
<1>1. attempt \in [Clients -> Attempt]
  BY DEF JobInv, RegistryInv, TypeInv
<1>2. ASSUME attempt'[d] = attempt[d] PROVE CallStays(d)
  BY <1>2 DEF CallStays
<1>3. CASE Registries \/ UNCHANGED vars \/ \E c \in Clients, i \in Items : Prepare(c, i)
  BY <1>2, <1>3 DEF Registries, vars, clientVars, Prepare
<1>4. CASE Crash
  <2>1. attempt'[d] = CASE attempt[d].pc = "dispatch" -> [attempt[d] EXCEPT !.pc = "lost"]
                        [] attempt[d].pc = "accepted" -> [attempt[d] EXCEPT !.pc = "left"]
                        [] OTHER -> attempt[d]
    BY <1>4 DEF Crash
  <2> QED
    BY <1>1, <2>1 DEF CallStays, Attempt
<1>5. ASSUME NEW c \in Clients, c # d, Admit(c) \/ Again(c) PROVE CallStays(d)
  <2>1. attempt'[d] = attempt[d]
    BY <1>1, <1>5 DEF Admit, Route, DispatchInteractive, SubmitItem, RelayAndAccept, Again
  <2> QED
    BY <1>2, <2>1
<1>6. CASE DispatchInteractive(d)
  <2>1. attempt'[d].path = "interactive"
    BY <1>1, <1>6 DEF DispatchInteractive, Attempt
  <2> QED
    BY <2>1 DEF CallStays
<1>7. CASE Again(d)
  BY <1>1, <1>7 DEF Again, CallStays, Idle
<1> QED
  BY <1>3, <1>4, <1>5, <1>6, <1>7 DEF Next, Admit

\* The calls of admit: only RelayAndAccept answers "accepted" to a job, and the list
\* of items to submit shrinks only by what is stored.
LEMMA StepKeepsCalls ==
  ASSUME JobInv, [Next]_vars, JobsKept, EventStored', NEW d \in Clients
  PROVE  JobUnderWayOf(d)' /\ JobStoredOf(d)'
<1>1. /\ attempt \in [Clients -> Attempt] /\ request \in [Clients -> AdmissionEnvelope]
      /\ items \in [Jobs -> [Items -> {NoItem} \cup ItemRecord]]
      /\ outbox \in [Jobs -> [Items -> {"none", "pending", "published"}]]
  BY DEF JobInv, RegistryInv, TypeInv
<1>2. /\ request'[d] = request[d] /\ request[d].job \in Jobs
      /\ request[d].items \in Seq(Items)
  BY <1>1 DEF JobsKept, AdmissionEnvelope
<1>3. ToSet(request[d].items) \subseteq Items
  BY <1>2 DEF ToSet
<1>4. ASSUME NEW i \in Items
      PROVE  /\ StoredFor(d, i) => StoredFor(d, i)'
             /\ outbox[request[d].job][i] = "published" =>
                  outbox'[request'[d].job][i] = "published"
  BY <1>2 DEF StoredFor, JobsKept
<1>5. JobUnderWayOf(d) /\ JobStoredOf(d)
  BY DEF JobInv, JobUnderWay, JobUnderWayOf, AcceptedJobStored, JobStoredOf, StoredFor
<1>6. CASE CallStays(d)
  BY <1>2, <1>3, <1>4, <1>5, <1>6 DEF CallStays, JobUnderWayOf, JobStoredOf
<1>7. CASE Route(d)
  <2>1. \/ attempt'[d].pc = "rejected"
        \/ /\ attempt'[d].pc = "dispatch"
           /\ attempt'[d].path = "bulk" => attempt'[d].todo = request[d].items
    BY <1>1, <1>7 DEF Route, Attempt
  <2> QED
    BY <1>2, <2>1 DEF JobUnderWayOf, JobStoredOf
<1>8. CASE SubmitItem(d)
  <2>1. attempt[d].pc = "dispatch" /\ attempt[d].path = "bulk"
    BY <1>8 DEF SubmitItem
  <2>2. PICK h : h = Head(attempt[d].todo)
    OBVIOUS
  <2>3. /\ attempt[d].todo \in Seq(Items) /\ attempt[d].todo # <<>> /\ h \in Items
        /\ \/ attempt'[d].pc = "raised"
           \/ /\ StoredFor(d, h)'
              /\ attempt'[d].pc = attempt[d].pc
              /\ attempt'[d].todo = Tail(attempt[d].todo)
    BY <1>8, <2>2, SubmitEffect
  <2>4. CASE attempt'[d].pc = "raised"
    BY <2>4 DEF JobUnderWayOf, JobStoredOf
  <2>5. CASE /\ StoredFor(d, h)'
             /\ attempt'[d].pc = attempt[d].pc
             /\ attempt'[d].todo = Tail(attempt[d].todo)
    <3>1. attempt'[d].pc = "dispatch" /\ attempt'[d].todo = Tail(attempt[d].todo)
      BY <2>1, <2>5
    <3>2. ToSet(attempt[d].todo) \subseteq {h} \cup ToSet(attempt'[d].todo)
      BY <2>2, <2>3, <3>1, HeadOrTail
    <3>3. ASSUME NEW i \in ToSet(request[d].items)
          PROVE  i \in ToSet(attempt'[d].todo) \/ StoredFor(d, i)'
      BY <1>3, <1>4, <1>5, <2>1, <2>5, <3>2 DEF JobUnderWayOf
    <3> QED
      BY <1>2, <3>1, <3>3 DEF JobUnderWayOf, JobStoredOf
  <2> QED
    BY <2>3, <2>4, <2>5
<1>9. CASE RelayAndAccept(d)
  <2>1. attempt[d].pc = "dispatch" /\ attempt[d].path = "bulk" /\ attempt[d].todo = <<>>
    BY <1>9 DEF RelayAndAccept
  <2>2. attempt'[d].pc = "accepted"
    BY <1>1, <1>9 DEF RelayAndAccept, Attempt
  <2>3. ASSUME NEW i \in ToSet(request[d].items)
        PROVE  StoredFor(d, i)' /\ outbox'[request'[d].job][i] = "published"
    <3>1. StoredFor(d, i) /\ i \in Items
      BY <1>3, <1>5, <2>1 DEF JobUnderWayOf, ToSet
    <3>2. outbox[request[d].job][i] \in {"pending", "published"}
      BY <1>1, <1>2, <3>1 DEF StoredFor, JobInv, EventStored
    <3>3. outbox'[request[d].job][i] = "published"
      BY <1>2, <1>9, <3>1, <3>2 DEF RelayAndAccept
    <3> QED
      BY <1>2, <1>4, <3>1, <3>3
  <2> QED
    BY <1>2, <2>2, <2>3 DEF JobUnderWayOf, JobStoredOf
<1>10. CallStays(d) \/ Route(d) \/ SubmitItem(d) \/ RelayAndAccept(d)
  BY CallSteps
<1> QED
  BY <1>6, <1>7, <1>8, <1>9, <1>10

LEMMA JobInit == Init => JobInv
<1> SUFFICES ASSUME Init PROVE JobInv
  OBVIOUS
<1>1. /\ RegistryInv /\ \A c \in Clients : attempt[c].pc = "new"
  BY RegistryInit DEF Init, Idle
<1>2. \A j \in Jobs : \A i \in Items : items[j][i] = NoItem /\ outbox[j][i] = "none"
  BY DEF Init
<1> QED
  BY <1>1, <1>2 DEF JobInv, EventStored, JobUnderWay, JobUnderWayOf,
    AcceptedJobStored, PreparedByReference

LEMMA JobStep == JobInv /\ [Next]_vars => JobInv'
<1> SUFFICES ASSUME JobInv, [Next]_vars PROVE JobInv'
  OBVIOUS
<1>1. RegistryInv'
  BY RegistryStepKeeps DEF JobInv
<1>2. JobsKept /\ EventStored' /\ PreparedByReference'
  BY StepKeepsJobs
<1>3. \A d \in Clients : JobUnderWayOf(d)' /\ JobStoredOf(d)'
  BY <1>2, StepKeepsCalls
<1>4. JobUnderWay' /\ AcceptedJobStored'
  BY <1>3 DEF JobUnderWay, JobUnderWayOf, AcceptedJobStored, JobStoredOf, StoredFor
<1> QED
  BY <1>1, <1>2, <1>4 DEF JobInv

THEOREM JobsCorrect == Spec => []JobInv
BY JobInit, JobStep, PTL DEF Spec

\* AcceptedJobStored (the bulk dispatcher, create_with_outbox and the relay): an
\* accepted job is stored and announced as a whole, whatever other callers and
\* crashes did meanwhile.
THEOREM AcceptedJobIsStored == Spec => []AcceptedJobStored
BY JobsCorrect, PTL DEF JobInv

\* ReferenceFixesDefinition (resolve at preparation): the work of one task function
\* under one reference is prepared with one definition for ever, across restarts and
\* reactivations, and that of two functions never with the same one.
THEOREM ReferenceFixesItsDefinition == Spec => []ReferenceFixesDefinition
<1>0. ASSUME NEW r, NEW p, NEW q, NEW d, NEW e, BoundFor(r, p, d), BoundFor(r, q, e)
      PROVE  d = e <=> TaskOf[p].function = TaskOf[q].function
  BY <1>0 DEF BoundFor
<1>1. JobInv => ReferenceFixesDefinition
  <2> SUFFICES ASSUME JobInv, NEW j \in Jobs, NEW k \in Jobs, NEW i \in Items, NEW l \in Items,
                      items[j][i] # NoItem, items[k][l] # NoItem,
                      items[j][i].reference = items[k][l].reference,
                      NoDefinition \notin {items[j][i].prepared, items[k][l].prepared}
               PROVE  items[j][i].prepared = items[k][l].prepared <=>
                        TaskOf[items[j][i].payload].function =
                          TaskOf[items[k][l].payload].function
    BY DEF ReferenceFixesDefinition
  <2>1. /\ BoundFor(items[j][i].reference, items[j][i].payload, items[j][i].prepared)
        /\ BoundFor(items[j][i].reference, items[k][l].payload, items[k][l].prepared)
    BY DEF JobInv, PreparedByReference
  <2> QED
    BY <1>0, <2>1
<1> QED
  BY <1>1, JobsCorrect, PTL

--------------------------------------------------------------------------------
(* Admission implements its promise *)

\* A call has a path from its routing on, unless it was rejected.
PathTaken ==
  \A c \in Clients : attempt[c].path = NoPath <=> attempt[c].pc \in {"new", "rejected"}

\* The state of the promise, as Promise takes it from the calls.
choicesBar == [c \in Clients |-> NamedPaths(c)]
answerBar  == [c \in Clients |-> Answer(c)]
takenBar   == [c \in Clients |-> attempt[c].path]

\* Routing takes only a path that the envelope names.
LEMMA RoutedAsNamed ==
  ASSUME RegistryInv, NEW c \in Clients, NEW p \in PathOf(request[c])
  PROVE  p \in NamedPaths(c) /\ p \in Paths
<1>1. request[c] \in AdmissionEnvelope
  BY DEF RegistryInv, TypeInv
<1>2. /\ request[c].payloads \subseteq Paths
      /\ request[c].discriminator \in Paths \cup {NoPath}
  BY <1>1 DEF AdmissionEnvelope
<1>3. CASE request[c].payloads = Paths
  BY <1>2, <1>3 DEF PathOf, NamedPaths
<1>4. CASE request[c].payloads # Paths
  <2>1. p \in request[c].payloads /\ request[c].discriminator \in {NoPath, p}
    BY <1>4 DEF PathOf
  <2>2. request[c].payloads = {p}
    BY <1>2, <1>4, <2>1 DEF Paths
  <2> QED
    BY <1>2, <2>1, <2>2 DEF NamedPaths
<1> QED
  BY <1>3, <1>4

\* A step of one call is a step of the promise when it is one for that call.
LEMMA OneCall ==
  ASSUME RegistryInv, NEW c \in Clients, request' = request, attempt' \in [Clients -> Attempt],
         \A d \in Clients \ {c} : attempt'[d] = attempt[d]
  PROVE  /\ choicesBar' = choicesBar
         /\ answerBar' = [answerBar EXCEPT ![c] = Answer(c)']
         /\ takenBar' = [takenBar EXCEPT ![c] = attempt'[c].path]
<1>1. choicesBar' = choicesBar
  BY DEF choicesBar, NamedPaths
<1>2. \A d \in Clients \ {c} : Answer(d)' = Answer(d)
  BY DEF Answer
<1>3. answerBar' = [answerBar EXCEPT ![c] = Answer(c)']
  BY <1>2 DEF answerBar
<1>4. takenBar' = [takenBar EXCEPT ![c] = attempt'[c].path]
  BY DEF takenBar
<1> QED
  BY <1>1, <1>3, <1>4

\* How each action changes the calls: one call, or all of them in a crash.
LEMMA PathTakenKept ==
  ASSUME RegistryInv, PathTaken, [Next]_vars
  PROVE  PathTaken'
<1>1. attempt \in [Clients -> Attempt] /\ NoPath \notin Paths
  BY DEF RegistryInv, TypeInv, Paths, NoPath
<1>2. CASE UNCHANGED attempt
  BY <1>2 DEF PathTaken
<1>3. CASE Crash
  <2>1. ASSUME NEW c \in Clients
        PROVE  /\ attempt'[c].path = attempt[c].path
               /\ attempt'[c].pc \in {"new", "rejected"} <=> attempt[c].pc \in {"new", "rejected"}
    <3>1. attempt'[c] = CASE attempt[c].pc = "dispatch" -> [attempt[c] EXCEPT !.pc = "lost"]
                          [] attempt[c].pc = "accepted" -> [attempt[c] EXCEPT !.pc = "left"]
                          [] OTHER -> attempt[c]
      BY <1>3 DEF Crash
    <3> QED
      BY <1>1, <3>1 DEF Attempt
  <2> QED
    BY <2>1 DEF PathTaken
<1>4. ASSUME NEW c \in Clients, Route(c) PROVE PathTaken'
  <2>1. \A p \in PathOf(request[c]) : p # NoPath
    BY <1>1, RoutedAsNamed
  <2>2. attempt[c].path = NoPath
    BY <1>4 DEF Route, PathTaken
  <2>3. CASE attempt' = [attempt EXCEPT ![c].pc = "rejected"]
    BY <1>1, <2>2, <2>3 DEF PathTaken, Attempt
  <2>4. ASSUME NEW p \in PathOf(request[c]), NEW k, NEW t,
               attempt' = [attempt EXCEPT ![c] =
                 [pc |-> "dispatch", path |-> p, content |-> k, todo |-> t]]
        PROVE  PathTaken'
    BY <1>1, <2>1, <2>4 DEF PathTaken
  <2> QED
    BY <1>4, <2>3, <2>4 DEF Route
<1>5. ASSUME NEW c \in Clients, Again(c) PROVE PathTaken'
  BY <1>1, <1>5 DEF Again, PathTaken, Idle
<1>6. ASSUME NEW c \in Clients, DispatchInteractive(c) \/ SubmitItem(c) \/ RelayAndAccept(c)
      PROVE  PathTaken'
  <2>1. /\ attempt[c].pc = "dispatch"
        /\ attempt'[c].path = attempt[c].path
        /\ attempt'[c].pc \in {"dispatch", "accepted", "raised"}
        /\ \A d \in Clients \ {c} : attempt'[d] = attempt[d]
    BY <1>1, <1>6 DEF DispatchInteractive, SubmitItem, RelayAndAccept, Attempt
  <2> QED
    BY <2>1 DEF PathTaken
<1> QED
  BY <1>2, <1>3, <1>4, <1>5, <1>6
  DEF Next, Registries, Admit, Prepare, vars, clientVars

LEMMA PromiseInit == Init => Promise!Init
<1> SUFFICES ASSUME Init PROVE Promise!Init
  OBVIOUS
<1>1. \A c \in Clients : attempt[c] = Idle
  BY DEF Init
<1>2. ASSUME NEW c \in Clients PROVE NamedPaths(c) \in SUBSET Paths
  <2>1. request[c] \in AdmissionEnvelope
    BY RegistryInit DEF RegistryInv, TypeInv
  <2> QED
    BY <2>1 DEF NamedPaths, AdmissionEnvelope
<1>3. choicesBar \in [Clients -> SUBSET Paths]
  BY <1>2 DEF choicesBar
<1>4. answerBar = [c \in Clients |-> "none"] /\ takenBar = [c \in Clients |-> NoPath]
  BY <1>1 DEF answerBar, takenBar, Answer, Idle
<1> QED
  BY <1>3, <1>4 DEF Promise!Init, choicesBar, answerBar, takenBar

\* A step of one call, stated about its answer and its path, is a step of the promise.
LEMMA PromiseOfCall ==
  ASSUME NEW c \in Clients, choicesBar' = choicesBar,
         NEW a, answerBar' = [answerBar EXCEPT ![c] = a],
         NEW p, takenBar' = [takenBar EXCEPT ![c] = p],
         \/ /\ answerBar[c] = "none" /\ takenBar[c] = NoPath
            /\ \/ a = "none" /\ p \in NamedPaths(c)
               \/ a = "rejected" /\ p = NoPath
         \/ /\ answerBar[c] = "none" /\ takenBar[c] # NoPath
            /\ a \in {"accepted", "raised"} /\ p = takenBar[c]
         \/ answerBar[c] # "none" /\ a = "none" /\ p = NoPath
         \/ a = answerBar[c] /\ p = takenBar[c]
  PROVE  [Promise!Next]_(Promise!promiseVars)
<1>1. /\ answerBar = [answerBar EXCEPT ![c] = answerBar[c]]
      /\ takenBar = [takenBar EXCEPT ![c] = takenBar[c]]
      /\ choicesBar[c] = NamedPaths(c)
  BY DEF answerBar, takenBar, choicesBar
<1>2. CASE a = answerBar[c] /\ p = takenBar[c]
  BY <1>1, <1>2 DEF Promise!promiseVars, choicesBar, answerBar, takenBar
<1>3. CASE /\ answerBar[c] = "none" /\ takenBar[c] = NoPath
           /\ a = "none" /\ p \in NamedPaths(c)
  <2>1. Promise!Take(c)
    BY <1>1, <1>3 DEF Promise!Take, choicesBar, answerBar, takenBar
  <2> QED
    BY <2>1 DEF Promise!Next
<1>4. CASE /\ answerBar[c] = "none" /\ takenBar[c] = NoPath
           /\ a = "rejected" /\ p = NoPath
  <2>1. Promise!Reject(c)
    BY <1>1, <1>4 DEF Promise!Reject, choicesBar, answerBar, takenBar
  <2> QED
    BY <2>1 DEF Promise!Next
<1>5. CASE /\ answerBar[c] = "none" /\ takenBar[c] # NoPath
           /\ a \in {"accepted", "raised"} /\ p = takenBar[c]
  <2>1. Promise!Finish(c)
    BY <1>1, <1>5 DEF Promise!Finish, choicesBar, answerBar, takenBar
  <2> QED
    BY <2>1 DEF Promise!Next
<1>6. CASE answerBar[c] # "none" /\ a = "none" /\ p = NoPath
  <2>1. Promise!Again(c)
    BY <1>1, <1>6 DEF Promise!Again, choicesBar, answerBar, takenBar
  <2> QED
    BY <2>1 DEF Promise!Next
<1> QED
  BY <1>2, <1>3, <1>4, <1>5, <1>6

LEMMA PromiseStep ==
  ASSUME RegistryInv, RegistryInv', PathTaken, [Next]_vars
  PROVE  [Promise!Next]_(Promise!promiseVars)
<1>1. attempt \in [Clients -> Attempt] /\ attempt' \in [Clients -> Attempt]
  BY DEF RegistryInv, TypeInv
<1>2. CASE UNCHANGED <<request, attempt>>
  BY <1>2 DEF Promise!promiseVars, NamedPaths, Answer
<1>3. CASE Crash
  <2>1. ASSUME NEW c \in Clients
        PROVE  /\ Answer(c)' = IF Answer(c) = "none" /\ attempt[c].path # NoPath
                               THEN "lost" ELSE Answer(c)
               /\ attempt'[c].path = attempt[c].path
    <3>1. attempt'[c] = CASE attempt[c].pc = "dispatch" -> [attempt[c] EXCEPT !.pc = "lost"]
                          [] attempt[c].pc = "accepted" -> [attempt[c] EXCEPT !.pc = "left"]
                          [] OTHER -> attempt[c]
      BY <1>3 DEF Crash
    <3>2. attempt[c].pc \in {"new", "dispatch", "accepted", "rejected", "raised", "lost", "left"}
      BY <1>1 DEF Attempt
    <3>3. attempt[c].path = NoPath <=> attempt[c].pc \in {"new", "rejected"}
      BY DEF PathTaken
    <3>4. attempt'[c].path = attempt[c].path
      BY <1>1, <3>1 DEF Attempt
    <3>5. attempt'[c].pc = CASE attempt[c].pc = "dispatch" -> "lost"
                             [] attempt[c].pc = "accepted" -> "left"
                             [] OTHER -> attempt[c].pc
      BY <1>1, <3>1 DEF Attempt
    <3> QED
      BY <3>2, <3>3, <3>4, <3>5 DEF Answer
  <2>2. \A c \in Clients : NamedPaths(c)' = NamedPaths(c)
    BY <1>3 DEF Crash, NamedPaths
  <2>3. Promise!Crash
    BY <2>1, <2>2 DEF Promise!Crash
  <2> QED
    BY <2>3 DEF Promise!Next
<1>4. ASSUME NEW c \in Clients, Admit(c) \/ Again(c)
      PROVE  [Promise!Next]_(Promise!promiseVars)
  <2>1. request' = request /\ \A d \in Clients \ {c} : attempt'[d] = attempt[d]
    BY <1>1, <1>4 DEF Admit, Again, Route, DispatchInteractive, SubmitItem, RelayAndAccept
  <2>2. PICK a, p : a = Answer(c)' /\ p = attempt'[c].path
    OBVIOUS
  <2>3. /\ choicesBar' = choicesBar
        /\ answerBar' = [answerBar EXCEPT ![c] = a]
        /\ takenBar' = [takenBar EXCEPT ![c] = p]
    BY <1>1, <2>1, <2>2, OneCall
  <2>4. answerBar[c] = Answer(c) /\ takenBar[c] = attempt[c].path
    BY DEF answerBar, takenBar
  <2>5. attempt[c].path = NoPath <=> attempt[c].pc \in {"new", "rejected"}
    BY DEF PathTaken
  <2>6. CASE Route(c)
    <3>1. Answer(c) = "none" /\ attempt[c].path = NoPath
      BY <2>5, <2>6 DEF Route, Answer
    <3>2. \/ a = "none" /\ p \in NamedPaths(c)
          \/ a = "rejected" /\ p = NoPath
      <4>1. \/ attempt'[c].pc = "rejected" /\ attempt'[c].path = attempt[c].path
            \/ attempt'[c].pc = "dispatch" /\ attempt'[c].path \in PathOf(request[c])
        BY <1>1, <2>6 DEF Route, Attempt
      <4> QED
        BY <2>2, <3>1, <4>1, RoutedAsNamed DEF Answer
    <3> QED
      BY <2>3, <2>4, <3>1, <3>2, PromiseOfCall
  <2>7. CASE DispatchInteractive(c) \/ SubmitItem(c) \/ RelayAndAccept(c)
    <3>1. /\ attempt[c].pc = "dispatch"
          /\ attempt'[c].path = attempt[c].path
          /\ attempt'[c].pc \in {"dispatch", "accepted", "raised"}
      BY <1>1, <2>7 DEF DispatchInteractive, SubmitItem, RelayAndAccept, Attempt
    <3>2. Answer(c) = "none" /\ attempt[c].path # NoPath
      BY <2>5, <3>1 DEF Answer
    <3>3. /\ a \in {"none", "accepted", "raised"}
          /\ p = attempt[c].path
      BY <2>2, <3>1 DEF Answer
    <3> QED
      BY <2>3, <2>4, <3>2, <3>3, PromiseOfCall
  <2>8. CASE Again(c)
    <3>1. Answer(c) # "none"
      BY <2>8 DEF Again, Answer
    <3>2. attempt'[c] = Idle
      BY <1>1, <2>8 DEF Again
    <3>3. a = "none" /\ p = NoPath
      BY <2>2, <3>2 DEF Answer, Idle
    <3> QED
      BY <2>3, <2>4, <3>1, <3>3, PromiseOfCall
  <2> QED
    BY <1>4, <2>6, <2>7, <2>8 DEF Admit
<1> QED
  BY <1>2, <1>3, <1>4 DEF Next, Registries, Prepare, vars, clientVars

\* PromiseKept (admit and discriminate_path): every behaviour of admission is one of
\* AdmissionPromise, so no envelope takes two paths or a path it does not name, and
\* none is rejected after its dispatcher was reached.
THEOREM AdmissionKeepsItsPromise == Spec => PromiseKept
<1>1. Init => PathTaken
  BY DEF Init, PathTaken, Idle
<1>2. PathTaken /\ RegistryInv /\ [Next]_vars => PathTaken'
  BY PathTakenKept
<1>3. RegistryInv /\ RegistryInv' /\ PathTaken /\ [Next]_vars
        => [Promise!Next]_(Promise!promiseVars)
  BY PromiseStep
<1> QED
  BY <1>1, <1>2, <1>3, PromiseInit, RegistryCorrect, PTL DEF Spec, PromiseKept, Promise!Spec
================================================================================

----------------------------- MODULE Configuration -----------------------------
(***************************************************************************)
(* The registries an execution is bound to: configuration profiles with    *)
(* the evidence their activation is validated against                      *)
(* (control_plane/configuration.py) and task definitions                   *)
(* (tasks/registry.py, resolved by tasks/runtime.py).  They live in the    *)
(* memory of a process: a restart empties them, and activation or          *)
(* registration fills them again.  They have no locks; one control-plane   *)
(* thread activates and registers, so each call is one step.               *)
(*                                                                         *)
(* Abstracted: what a profile says is its meaning, a member of Meanings    *)
(* with the references in Settings; sections, numbers and Booleans that    *)
(* are right or wrong by themselves are one Boolean of it.  A spelling     *)
(* tells apart contents that differ in Python although their canonical     *)
(* JSON is equal (a frozenset and a tuple of the same values).  sha256 is  *)
(* collision-free, so a digest is a meaning.  Creation and retention times *)
(* are written once and read by no code.                                   *)
(***************************************************************************)
EXTENDS Integers, FiniteSets

CONSTANTS
  Profiles, Meanings, Spellings,
  Settings,          \* meaning -> what the profile asks for
  InitialVersions,   \* versions the registries are constructed with
  Versions,          \* of security policies, validation rules and models
  Adapters, CaseKinds,
  Evidence,          \* adapter evidence that may be offered
  Grants,            \* sets of effective operations a credential may be attested
  Credentials, Operations, MutationOperations,
  Functions,         \* task functions
  Definitions,       \* task definitions by meaning
  FunctionOf,        \* the function a definition is of
  Seedings,          \* sets of definitions a program may register at its start
  NoContent, NoReference, NoEvidence, NoDefinition

Contents   == [meaning: Meanings, spelling: Spellings]
References == [profile: Profiles, digest: Meanings]

\* A profile binds each task function to at most one version, which may be the
\* version of another function's definition.
Profile ==
  [wellFormed: BOOLEAN, versions: SUBSET Versions, adapter: Adapters,
   credential: Credentials, bindings: [Functions -> Definitions \cup {NoDefinition}]]
AdapterContractEvidence ==
  [adapter: Adapters, cases: SUBSET CaseKinds, passed: BOOLEAN]

ASSUME ConfigurationAssumption ==
  /\ Settings \in [Meanings -> Profile]
  /\ Evidence \subseteq AdapterContractEvidence
  /\ InitialVersions \subseteq Versions
  /\ Grants \subseteq SUBSET Operations
  /\ FunctionOf \in [Definitions -> Functions] /\ NoDefinition \notin Definitions
  /\ Seedings \subseteq SUBSET Definitions
  /\ NoContent \notin Contents /\ NoReference \notin References

VARIABLES
  available,     \* _versions of the three VersionRegistries
  supported,     \* adapters of AdapterEvidenceRegistry._supported
  credentials,   \* CredentialAuthorizationRegistry._evidence
  versions,      \* ConfigurationRegistry._versions: the stored content
  active,        \* ConfigurationRegistry._active
  definitions,   \* TaskDefinitionRegistry._definitions, by version
  activated      \* history: what activate returned for which content, in this process

registryVars == <<available, supported, credentials, versions, active, definitions, activated>>

StartRegistries ==
  /\ available = InitialVersions
  /\ supported = {}
  /\ credentials = [c \in Credentials |-> NoEvidence]
  /\ versions = [r \in References |-> NoContent]
  /\ active = [p \in Profiles |-> NoReference]
  /\ definitions \in Seedings
  /\ activated = {}

\* A new process starts with the same constructors and, perhaps, a program that
\* registers other definitions.
RestartRegistries ==
  /\ available' = InitialVersions
  /\ supported' = {}
  /\ credentials' = [c \in Credentials |-> NoEvidence]
  /\ versions' = [r \in References |-> NoContent]
  /\ active' = [p \in Profiles |-> NoReference]
  /\ definitions' \in Seedings
  /\ activated' = {}

--------------------------------------------------------------------------------
(* Evidence *)

\* VersionRegistry.register
RegisterVersion(v) ==
  /\ available' = available \cup {v}
  /\ UNCHANGED <<supported, credentials, versions, active, definitions, activated>>

\* CredentialAuthorizationRegistry.register: later evidence replaces earlier.
RegisterCredential(c, operations) ==
  /\ credentials' = [credentials EXCEPT ![c] = operations]
  /\ UNCHANGED <<available, supported, versions, active, definitions, activated>>

Complete(e) == e.cases = CaseKinds /\ e.passed

\* AdapterEvidenceRegistry.activate: only complete evidence whose tests passed.
ActivateAdapter(e) ==
  /\ Complete(e)
  /\ supported' = supported \cup {e.adapter}
  /\ UNCHANGED <<available, credentials, versions, active, definitions, activated>>

--------------------------------------------------------------------------------
(* Profiles *)

ReadOnly(c) == credentials[c] # NoEvidence /\ credentials[c] \cap MutationOperations = {}

\* ConfigurationValidator.validate reports no failure.
Valid(c) == LET s == Settings[c.meaning] IN
  /\ s.wellFormed
  /\ s.versions \subseteq available
  /\ s.adapter \in supported
  /\ ReadOnly(s.credential)

\* canonicalize_profile: the digest forgets how the content is spelled.
ReferenceTo(p, c) == [profile |-> p, digest |-> c.meaning]

\* Mutant of Storable: the digest alone decides.
StorableByDigest(r, c) == TRUE

\* An equal digest of unequal content is refused.
Storable(r, c) == versions[r] \in {NoContent, c}

\* activate: an existing version stays as it is and becomes active.
Activate(p, c) == LET r == ReferenceTo(p, c) IN
  /\ Valid(c)
  /\ Storable(r, c)
  /\ versions' = [versions EXCEPT ![r] = IF @ = NoContent THEN c ELSE @]
  /\ active' = [active EXCEPT ![p] = r]
  /\ activated' = activated \cup {<<r, c>>}
  /\ UNCHANGED <<available, supported, credentials, definitions>>

\* bind: a stored version, whatever happened to its evidence since.
Bindable(r) == versions[r] # NoContent
Bound(r)    == versions[r]

--------------------------------------------------------------------------------
(* Task definitions *)

\* register: the version is the digest of the canonical definition.
RegisterDefinition(d) ==
  /\ definitions' = definitions \cup {d}
  /\ UNCHANGED <<available, supported, credentials, versions, active, activated>>

\* Mutant of Resolved: whatever is registered for the function.
ResolvedByFunction(content, f) == {d \in definitions : FunctionOf[d] = f}

\* resolve: exactly the version the content binds the function to, if a definition
\* of this function is registered under it.
Resolved(content, f) ==
  {d \in definitions : d = Settings[content.meaning].bindings[f] /\ FunctionOf[d] = f}

RegistryStep ==
  \/ \E v \in Versions \ available : RegisterVersion(v)
  \/ \E c \in Credentials, ops \in Grants :
       credentials[c] # ops /\ RegisterCredential(c, ops)
  \/ \E e \in Evidence : e.adapter \notin supported /\ ActivateAdapter(e)
  \/ \E p \in Profiles, c \in Contents : Activate(p, c)
  \/ \E d \in Definitions \ definitions : RegisterDefinition(d)
================================================================================

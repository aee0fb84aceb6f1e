\* Two keys submitted in competition, two owners with clock readings as stale as
\* they like.
SPECIFICATION Spec
CONSTANTS
  Keys = {k1, k2}
  ItemIds = {i1, i2}
  Payloads = {p1}
  Events = {e1, e2}
  Owners = {o1, o2}
  Refs = {r1}
  Outcomes = {"succeeded"}
  NoOwner = NoOwner
  NoRef = NoRef
  NoId = NoId
  NoPayload = NoPayload
  Lease = 1
  MaxClock = 2
  MaxAttempts = 2
INVARIANTS
  TypeOK
  LeaseWellFormed
  OneCheckpointPerAttempt
  CompletedExactlyOneWay
  ResultIsLatestArtifact
  OutboxMatchesWork
PROPERTIES
  LeaseNotStolen
  LifecycleSpec
CHECK_DEADLOCK FALSE

\* In order, and with crashes, expiring leases and shared names around the effect.
SPECIFICATION FairSpec
CONSTANTS
  w1 = w1
  w2 = w2
  k1 = k1
  k2 = k2
  Workers = {w1, w2}
  Owners = {w1, w2, "worker-resumed"}
  Keys = {k1, k2}
  Refs = {r1}
  Outcomes = {"succeeded", "validation-failed", "retry-exhausted", "write-back-failed"}
  NoOwner = NoOwner
  NoRef = NoRef
  Lease = 2
  MaxClock = 4
  MaxAttempts = 6
  Settings <- AllSettings
INVARIANTS
  ExclusiveProcessing
  CompletedMeansCommitted
  OneMutation
  FailedMeansNoEffect
PROPERTIES
  SettledNotReplayed
  RecordedByClaimant
  WorkEnds
  ExhaustedReachesQueue
CHECK_DEADLOCK FALSE

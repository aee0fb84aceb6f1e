\* Two items, one crash of the relay and of a consumer, one early redelivery.
SPECIFICATION FairSpec
CONSTANTS
  Consumers = {c1, c2}
  Keys = {k1, k2}
  Refs = {r1}
  NoOwner = NoOwner
  NoRef = NoRef
  Lease = 1
  MaxClock = 1
  MaxAttempts = 3
  DeliveryIds = {1, 2, 3, 4, 5}
  RelayCrashes = 1
  ConsumerCrashes = 1
  EarlyRedeliveries = 1
INVARIANTS
  NotificationKept
PROPERTIES
  SubmittedIsClaimed
CHECK_DEADLOCK FALSE

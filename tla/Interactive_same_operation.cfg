\* Two requests, each for its own model operation, with room for four calls.
SPECIFICATION Spec
CONSTANTS
  r1 = r1
  r2 = r2
  m1 = m1
  m2 = m2
  p1 = p1
  Executions = {r1, r2}
  ModelNames <- MCModelNames
  PackNames <- MCPackNames
  Tasked <- MCTasked
  Dispatched = {r2}
  Failures = {"model_failure", "no_eligible_model"}
  Duration = 2
  ResponseReserve = 1
  MaxClock = 2
  CapacityScopes <- MCCapacityScopes
  CapacityLimits <- RoomyLimits
  Unlimited = Unlimited
  Window = 1
  Scopes <- MCBudgetScopes
  Limits <- MCBudgetLimits
  Ids <- MCIds
  Estimate <- OneEach
  Estimates <- MCEstimates
  Actuals <- MCActuals
  NoExecution = NoExecution
  DrawsFail = FALSE
  NoResponse = NoResponse
PROPERTIES
  RefusedOnlyWhenFull
CHECK_DEADLOCK FALSE

\* Two requests, each with model work of its own or with a task.
SPECIFICATION FairSpec
CONSTANTS
  r1 = r1
  r2 = r2
  m1 = m1
  m2 = m2
  p1 = p1
  Executions = {r1, r2}
  ModelNames <- MCModelNames
  PackNames <- MCPackNames
  Tasked <- MCTasked
  Dispatched = {r2}
  Failures = {"database_failure", "no_eligible_model", "security_rejected"}
  Duration = 2
  ResponseReserve = 1
  MaxClock = 3
  CapacityScopes <- MCCapacityScopes
  CapacityLimits <- MCCapacityLimits
  Unlimited = Unlimited
  Window = 1
  Scopes <- MCBudgetScopes
  Limits <- MCBudgetLimits
  Ids <- MCIds
  Estimate <- OneEach
  Estimates <- MCEstimates
  Actuals <- MCActuals
  NoExecution = NoExecution
  DrawsFail = FALSE
  NoResponse = NoResponse
INVARIANTS
  ResponseAccountsForAll
  DecidedInTime
  NothingLeaks
PROPERTIES
  DecidedOnce
  EveryRequestAnswered
CHECK_DEADLOCK FALSE

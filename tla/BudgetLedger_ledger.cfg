\* Two executions over overlapping scopes, usage above and below estimates.
SPECIFICATION BudgetSpec
CONSTANTS
  Executions = {e1, e2}
  Scopes = {"tenant", "system"}
  Ids = {i1, i2, i3}
  NoExecution = NoExecution
  DrawsFail = TRUE
  Limits <- SmallLimits
  Estimates <- SmallEstimates
  Actuals <- SmallActuals
INVARIANTS
  LedgerBalanced
  OnlyOverrunExceedsLimit
CHECK_DEADLOCK FALSE

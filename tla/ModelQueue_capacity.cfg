\* Three operations of two tenants over three scopes, under each scheduling order.
SPECIFICATION Spec
CONSTANTS
  a1 = a1
  a2 = a2
  b1 = b1
  OperationIds <- MCIds
  Operations <- MCOperations
  Scopes <- MCScopes
  Limits <- MCLimits
  Ranked <- MCRanked
  Eligibility <- MCEligibility
  Orders <- MCOrders
  Unlimited = Unlimited
  NoTenant = NoTenant
  Window = 2
INVARIANTS
  ActiveIsLeased
  RateWithinWindow
PROPERTIES
  ServedInOrder
CHECK_DEADLOCK FALSE

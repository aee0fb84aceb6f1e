SPECIFICATION Spec
CONSTANTS
  call1 = call1  reader = reader  writer = writer  q1 = q1  q2 = q2  s1 = s1
  Calls = {call1}
  Plans <- MCPlans
  OperationNodes <- MCOperationNodes
  PlanReferences = {q1}
  Requests <- MCRequests
  Contract <- MCContract
  Adapter <- MCAdapter
  Decisions <- MCDecisions
  RawResults <- MCRawResults
  NoPlan = NoPlan  NoCredential = NoCredential  Null = Null  Other = Other
  Policies <- MCPolicies
  PolicyVersions = {s1}
  Operations <- MCOperations
  Authentications <- MCAuthentications
  Unfreezable <- MCUnfreezable
  NoMapping = NoMapping  NoPolicy = NoPolicy
  MaskingRepresentation = Masked
INVARIANTS OnlyPermittedReads RefusalStands ResultOrdered
  OnlyPermittedDisclosures
CHECK_DEADLOCK FALSE

SPECIFICATION Spec
CONSTANTS
  m1 = m1  m2 = m2  v1 = v1  adapter = adapter  reader = reader
  classify = classify  summarize = summarize  d1 = d1  d2 = d2  d3 = d3
  c1 = c1  c2 = c2  j1 = j1  j2 = j2  i1 = i1  i2 = i2  p1 = p1  p2 = p2  p3 = p3
  profile = profile  plain = plain  frozen = frozen
  Profiles = {profile}
  Meanings = {m1, m2}
  Spellings = {plain, frozen}
  Settings <- MCSettings
  InitialVersions <- MCInitialVersions
  Versions = {v1}
  Adapters = {adapter}
  CaseKinds <- MCCaseKinds
  Evidence <- MCEvidence
  Grants <- MCGrants
  Credentials = {reader}
  Operations <- MCOperations
  MutationOperations <- MCMutations
  Functions = {classify, summarize}
  Definitions = {d1, d2, d3}
  FunctionOf <- MCFunctionOf
  Seedings <- MCSeedings
  NoContent = NoContent  NoReference = NoReference  NoEvidence = NoEvidence
  Clients = {c1, c2}
  Jobs = {j1, j2}
  Items = {i1, i2}
  Payloads = {p1, p2, p3}
  TaskOf <- MCTaskOf
  NoItem = NoItem  NoDefinition = NoDefinition
  Requests <- MCRequests
  MaxCrashes = 1
INVARIANTS BoundContentFixed AcceptedJobStored ReferenceFixesDefinition
PROPERTIES PromiseKept RetriedIsAccepted

\* Items of one and three rows under two definitions, with interruptions.
SPECIFICATION Spec
CONSTANTS
  Invocations <- MCInvocations
  Definitions <- MCDefinitions
  NoDefinition = NoDefinition
  Limits <- MCLimits
  PayloadBytes <- MCPayloadBytes
  InputTokens <- MCInputTokens
  OutputTokens <- MCOutputTokens
  Outputs <- MCOutputs
  Malformed = Malformed
INVARIANTS
  PreparedIsGreedy
  AcceptedInOrder
PROPERTIES
  AcceptedStaysAccepted
CHECK_DEADLOCK FALSE

SPECIFICATION Spec
CONSTANTS
  Failed = Failed
  Unknown = Unknown
  Modules <- MCModules
  FieldTokens = 2
  RuleTokens = 1
  ValidatorTokens = 1
  MaxFieldsPerModule = 4
  MaxTotalFields = 5
  MaxNameWords = 3
  MaxSchemaTokens = 8
  Responses <- MCResponses
  Requested = {0, 1, 2}
  TokenCounts = {1, 2}
  Rounds = 2
  MaxRuns = 2
CHECK_DEADLOCK FALSE
INVARIANTS
  ReturnedAreTheUsable
  UsageIsBilled

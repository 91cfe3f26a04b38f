SPECIFICATION Spec
CONSTANTS
  NoLimit = NoLimit
  NoSchema = NoSchema
  NoKey = NoKey
  Schemas <- MCSchemas
  Proposable <- MCProposable
  Controls <- MCControls
  GrammarOK <- MCGrammarOK
  NTraceSchemas = 2
  PerRound = 1
  ReflectionRounds = 1
  TopKConfirmation = 1
  Keys <- MCKeys
  Fields <- MCFields
  Calls <- MCCallsTokens
  Estimate <- MCEstimateTokens
  Actual <- MCActualTokens
  ProposalCosts <- MCProposalCosts
  LimitChoices <- TokenCaps
INVARIANT PromptCapExact

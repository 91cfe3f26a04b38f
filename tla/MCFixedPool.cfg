SPECIFICATION Spec
CONSTANTS
  NoLimit = NoLimit
  NoSchema = NoSchema
  NoKey = NoKey
  Schemas <- MCSchemas
  Proposable <- MCProposable
  Controls <- MCControls
  GrammarOK <- MCGrammarOK
  NTraceSchemas = 2
  PerRound = 1
  ReflectionRounds = 2
  TopKConfirmation = 2
  Keys <- MCKeys
  Fields <- MCFields
  Calls <- MCCalls
  Estimate <- MCEstimate
  Actual <- MCActual
  ProposalCosts <- MCProposalCosts
  LimitChoices <- MCLimits
INVARIANTS
  TypeOK
  CallCapExact
  ReservesSuffice
  DecisionIsAboutPrimary
  PromptOvershootBounded
  BudgetBalances
PROPERTIES
  ResultsAreFinal
  Terminates
  ImplementsStagedProtocol

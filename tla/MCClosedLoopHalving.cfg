SPECIFICATION Spec
CONSTANTS
  NoLimit = NoLimit
  Base = Base
  Resources <- MCResources
  Schemas <- MCSchemas
  Population <- MCPopulation
  Mutants <- MCMutants
  Merges <- MCMerges
  GrammarOK <- MCGrammarOK
  MaxRollouts = 7
  MaxAttempts = 7
  Merging = TRUE
  SharedBatch = TRUE
  PromoteNum = 2
  PromoteDen = 5
  KFinal = 2
  Calls <- MCCallsHalving
  Estimate <- MCEstimateHalving
  Actual <- MCActualHalving
  Scores <- MCScores
  LimitChoices <- MCLimits
INVARIANTS
  NeverPaidTwice
  OvershootOnlyByBaseline
  FinalComparable
  PromotesTheBest
PROPERTIES
  Terminates
  ImplementsFronts

SPECIFICATION SearchSpec
CONSTANTS
  Failed = Failed
  NoSchema = NoSchema
  Modules <- MCModules
  FieldTokens = 2
  RuleTokens = 1
  ValidatorTokens = 1
  MaxFieldsPerModule = 4
  MaxTotalFields = 5
  MaxNameWords = 3
  MaxSchemaTokens = 13
  Initial <- MCInitial
  TemplateFields <- MCTemplateFields
  Versions = {"v2"}
  NewValues = {"other"}
  InitialBudget = 12
  MaxMutations <- MCTwoLines
INVARIANTS
  OnlyNamesClash
  MergeKeepsContracts
  PruneIsMinimal
  ValidatorsComplete
PROPERTIES
  MutationIsLocal

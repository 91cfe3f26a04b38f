SPECIFICATION Spec
CONSTANTS
  Modules <- MCModules
  Examples <- MCExamples
  FieldsOf <- MCFieldsOf
  Required = {"bridge"}
  BaseOutputs <- MCBaseOutputs
  InputFields <- MCInputFields
  Rules <- MCRules
  Policies = {"fail", "deterministic_coercion"}
  Ablations <- MCAblations
INVARIANT MaskHidesValue

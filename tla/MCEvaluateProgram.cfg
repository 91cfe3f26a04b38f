SPECIFICATION Spec
CONSTANTS
  a = a
  b = b
  x = x
  y = y
  masked = masked
  None = None
  Absent = Absent
  Torn = Torn
  Keys <- MCKeys
  Evaluations <- MCEvaluations
  KeysOf <- MCKeysOf
  Intervention <- MCIntervention
  Batches <- MCBatches
  Pooled <- MCPooled
  Workers = 2
  Modules = 2
  Answers <- MCAnswers
  MaxFaults = 2
INVARIANTS
  NoTornEntry
  ReportsAgree
  BooksCoverCalls
  WorkIsKept
PROPERTIES
  AllReported

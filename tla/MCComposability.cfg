SPECIFICATION Spec
CONSTANTS
  kept = kept
  changed = changed
  Absent = Absent
  Torn = Torn
  MaxRuns = 3
  MaxFinals = 2
  Demos <- MCDemos
  BaseDemos = kept
  EvalCalls = 3
  OptimizerCalls <- MCOptimizerCalls
CHECK_DEADLOCK FALSE
INVARIANTS
  DeployedIsVouched
  ComparedAlike
  ReportCoversPaid
PROPERTIES
  RunsEnd

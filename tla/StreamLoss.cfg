CONSTANTS
  r1 = r1
  x1 = x1
  x2 = x2
  Registry = registry
  Others = {workflow}
  Batched = {workflow}
  Runs = {r1}
  Ops = {x1, x2}
  RunOf <- OneRun
  Retain = 1
  None = None
  MaxRecords = 4
  MaxCrashes = 1
  MaxLosses = 1
  MaxFailures = 1
  MaxAgings = 0
SPECIFICATION Spec
SYMMETRY OpSymmetry
CHECK_DEADLOCK FALSE
INVARIANTS GaplessStreams CompletedHasNoProcess CurrentHasNoFaults
PROPERTY FaultsClearOnlyByReopening

CONSTANTS
  r1 = r1
  x1 = x1
  x2 = x2
  Registry = registry
  Others = {diagnostic}
  Batched = {}
  Runs = {r1}
  Ops = {x1, x2}
  RunOf <- OneRun
  Retain = 1
  None = None
  MaxRecords = 4
  MaxCrashes = 1
  MaxLosses = 0
  MaxFailures = 0
  MaxAgings = 1
SPECIFICATION Spec
SYMMETRY OpSymmetry
CHECK_DEADLOCK FALSE
INVARIANTS TypeOK StreamsAgree OwnersOnlyDiverge

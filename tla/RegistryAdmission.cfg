CONSTANTS
  o1 = o1
  o2 = o2
  p1 = p1
  p2 = p2
  NoOp = NoOp
  NoProc = NoProc
  Ops = {o1, o2}
  Exempt = {o2}
  Cancellable = {o1}
  AbsoluteTimed = {}
  IdleTimed = {}
  Procs = {p1}
  Deferred = {}
  Awaited = {p1}
  Detached = {p1}
  Proven = {p1}
  MaxCrashes = 1
SPECIFICATION Spec
INVARIANTS FailedCleanupBlocksAdmission ResidualBlocksAdmission LeasesAreLive CleanedProcessIsGone

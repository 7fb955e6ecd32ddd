CONSTANTS
  o1 = o1
  p1 = p1
  MaxLogins = 2
  NeedsCode = TRUE
  MaxActivity = 2
  NoOp = NoOp
  NoProc = NoProc
  Ops = {o1}
  Exempt = {}
  Cancellable = {o1}
  AbsoluteTimed = {o1}
  IdleTimed = {}
  Procs = {p1}
  Deferred = {}
  Awaited = {p1}
  Detached = {p1}
  Proven = {p1}
  MaxCrashes = 1
SPECIFICATION AllSpec
CHECK_DEADLOCK FALSE
INVARIANT SessionsAgree
PROPERTIES RecoveryEnds CancellationSettles DeadlinesHold WaitsEnd CleanupEnds

CONSTANTS
  o1 = o1
  o2 = o2
  p1 = p1
  p2 = p2
  NoOp = NoOp
  NoProc = NoProc
  Ops = {o1}
  Exempt = {}
  Cancellable = {o1}
  AbsoluteTimed = {o1}
  IdleTimed = {o1}
  Procs = {p1, p2}
  Deferred = {p1}
  Awaited = {p1}
  Detached = {p1}
  Proven = {p2}
  MaxCrashes = 1
SPECIFICATION Spec
INVARIANTS TypeOK CleanedOperationIsClean AttestedProcessIsGone
PROPERTY TerminalIsFinal

SPECIFICATION Spec
CONSTANTS
  p1 = p1 p2 = p2 r1 = r1 r2 = r2 a1 = a1 a2 = a2 t1 = t1 w1 = w1 w2 = w2 q1 = q1 q2 = q2
  None = None
  Projects = {p1, p2}
  Repos = {r1, r2}
  Paths = {a1, a2}
  Tasks = {t1}
  Windows = {w1, w2}
  Requests = {q1, q2}
  KeptResults = 1
  MaxCalls = 2
  MaxResends = 1
  MaxMoves = 1
SYMMETRY Symmetric
CHECK_DEADLOCK FALSE
INVARIANTS
  ReferencesHold
  AppliedOnce
  UnavailableIsTold
  MeasuredWhileBound

SPECIFICATION ReplaySpec
CONSTANTS
  None = None
  w1 = w1  w2 = w2  v1 = v1
  Windows = {w1, w2}
  Sessions = {v1}
  MaxCalls = 4
  Modes <- MCModes
  MaxTransitions = 1
  r1 = r1  r2 = r2
  c1 = c1  c2 = c2  a1 = a1
  t1 = t1  p1 = p1  p2 = p2  p3 = p3  s1 = s1  s2 = s2  b1 = b1
  Tasks = {t1}
  Ids = {1, 2, 3}
  GateChecks = {"c1", "c2"}
  Producers = {"writer", "maker"}
  Procs = {p1, p2, p3}
  Facts <- MCFacts
  Callers = {b1}
  Requests <- MCRequests
  Journals <- MCJournals
  Subjects = {s1, s2}
  MaxSpawns = 2
  MaxFaults = 1
CHECK_DEADLOCK FALSE
PROPERTY UnknownOutcomeStays

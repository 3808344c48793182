CONSTANTS
  j1 = j1
  j2 = j2
  a = a
  b = b
  p1 = p1
  p2 = p2
  NoJob = NoJob
  Job = {j1, j2}
  Name = {a, b}
  Stopper = {p1, p2}
CHECK_DEADLOCK FALSE
SPECIFICATION NamedFairSpec
INVARIANTS
  GoneForAReason
PROPERTIES
  RunsUntilStopped

SPECIFICATION Spec
CONSTANTS
  Workers = {w1}
  Clients = {c1, c2}
  Tasks = {t1, t2}
  Owner <- MCOwnerEach
  Probe = test
  NumThreads = 1
  Threads = {h1, h2}
  MinCount <- MCMinCount
  Backlog = 1
  PastRaces = FALSE
  NoTask = NoTask
  NoClient = NoClient
INVARIANTS
  CountsConserved

CHECK_DEADLOCK FALSE
SYMMETRY ThreadSymmetry

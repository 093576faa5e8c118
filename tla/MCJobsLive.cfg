SPECIFICATION FairSpec
CONSTANTS
  Workers = {w1}
  Clients = {c1}
  Tasks = {t1, t2}
  Owner <- MCOwner
  Probe = test
  NumThreads = 1
  Threads = {h1, h2}
  MinCount <- MCMinCount
  Backlog = 1
  PastRaces = FALSE
  NoTask = NoTask
  NoClient = NoClient

CHECK_DEADLOCK FALSE
PROPERTIES
  AllCounted

SPECIFICATION FairSpec
CONSTANTS
  s1 = s1
  s2 = s2
  k1 = k1
  k2 = k2
  k3 = k3
  k4 = k4
  t1 = t1
  t2 = t2
  t3 = t3
  t4 = t4
  Servers = {s1, s2}
  Clients = {c1, c2}
  Tasks = {t1, t2, t3, t4}
  Keys = {k1, k2, k3, k4}
  KeyOf <- MCKeyOf
  PopKey = popkey
  HostOf <- MCHostOf
  PrefixHost <- MCPrefixHost
  KeyStatus <- MCKeyStatus
  MetaHost = s1
  FallbackHost = s2
  ErrorHost = s2
  MaxFaults = 1
  NoUuid = NoUuid
  NoTask = NoTask
INVARIANTS
  TypeOK
  TaskInOnePlace
  NonemptyAnnounced
  RetirementSound
PROPERTIES
  ImplementsTaskPool
  EveryTaskTaken

SPECIFICATION Spec
CONSTANTS
  a = a
  b = b
  sub = sub
  n1 = n1
  n2 = n2
  Nodes = {n1, n2}
  Files = {a, b}
  Dirs = {sub}
  Root = Root
  Parent <- MCParent
  Under <- MCUnder
  Sweeps <- MCSweeps
  NoNode = NoNode
  NoList = NoList
  MaxWrites = 2
  MaxNames = 2
  MaxFaults = 0
INVARIANTS
  TypeOK
  ListedIffKept
  
  
SYMMETRY Swap
CHECK_DEADLOCK FALSE

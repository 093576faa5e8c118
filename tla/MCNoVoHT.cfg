SPECIFICATION Spec
CONSTANTS
  a = a
  b = b
  Keys = {a, b}
  Vals = {v}
  Hash <- MCHash
  InitSize = 1
  Threshold = 200
  MagicNumber = 1
  Diffs <- MCDiffs
  MaxSize = 2
  MaxFile = 3
  MaxPieces = 2
  NoKey = NoKey
INVARIANTS
  TypeOK
  ChainsLinked
  PositionsLead
  FileHoldsTable
PROPERTIES
  
  ImplementsPairStore

SPECIFICATION Spec
CONSTANTS
  Clients = {c1, c2}
  Keys = {k}
  Strings = {v, empty}
  Empty = empty
  Caret = caret
  Question = question
  Leases = {2}
  MaxPieces = 2
  Nobody = Nobody
INVARIANTS
  TypeOK
  InLineOnce
  WaitBounded
PROPERTIES
  SwapFailsForCause
  SuccessWasTrue
  CallsAnswered
CHECK_DEADLOCK FALSE

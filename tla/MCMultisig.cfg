\* Three members, threshold two, scalars modulo 11.
SPECIFICATION Spec
CONSTANTS
  SUBORDER = 11
  N = 3
  T = 2
  Coefficients <- SomeDraws
  AccountDraws <- OneDraw
  Messages = {1, 2}
  Cheaters = {3}
  MaxHandles = 4
  MaxRequests = 2
  Members = {1, 2}
  OddY <- SomeOddY
  OddAddress = {1}
  SelfWindow = 2
  IncomingWindow = 2
  MaxJ = 3
  MaxNotes = 3
  MaxVersion = 2
  MaxUnopenable = 1
INVARIANTS CommitteeOpens NonceOnce AggregateSound RecoveryFindsNotes
CHECK_DEADLOCK FALSE

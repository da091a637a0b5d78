SPECIFICATION Spec
CONSTANTS
  w1 = w1
  w2 = w2
  Writers <- TheWriters
  MaxEntries = 6
  Scopes <- Histories
CHECK_DEADLOCK FALSE
INVARIANT TypeOK
INVARIANT PathHolds
PROPERTY ImplementsTree
PROPERTY WithdrawKeeps

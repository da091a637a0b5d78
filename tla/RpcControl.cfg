SPECIFICATION FairSpec
CONSTANTS
  o1 = o1  o2 = o2  o3 = o3  c1 = c1  c2 = c2
  Nobody = Nobody
  Ops <- TheOps
  Commands <- TheCommands
  Scopes <- Histories
INVARIANTS TypeOK Apart LeaseFollows
PROPERTIES CancelHolds ShutdownEnds
CHECK_DEADLOCK FALSE

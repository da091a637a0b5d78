SPECIFICATION FairSpec
CONSTANTS
  Size = 3
  Solos <- TheSolos
  Concurrency = 2
  MaxLive = 2
  Nobody = Nobody
  Scopes <- Histories
CHECK_DEADLOCK FALSE
INVARIANT TypeOK
INVARIANT StopAllHolds
INVARIANT Attended
INVARIANT ReceiptsClosed
PROPERTY StopAllEnds
PROPERTY KillIsPrompt

SPECIFICATION Spec
CONSTANTS
  c1 = c1
  c2 = c2
  c3 = c3
  c4 = c4
  p1 = p1
  p2 = p2
  k1 = k1
  k2 = k2
  Calls <- TheCalls
  Procs <- TheProcs
  Keys <- TheKeys
  Old = Old
  None = None
  Scopes <- Histories
INVARIANT TypeOK
INVARIANT RefreshedOnce
INVARIANT Agree
PROPERTY OnlyAsked

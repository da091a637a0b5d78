SPECIFICATION FairSpec
CONSTANTS
  Prompts = {p1,p2}
  Setters = {s1,s2}
  Recorders = {r1}
  Compactors = {c1}
  Disposers = {d1}
  Nobody = Nobody
  MaxWrites = 4
INVARIANTS
  LogInCallOrder
  NoWriteLost
  OneOwner
PROPERTIES
  ComesToRest
  DisposeWaits
CHECK_DEADLOCK FALSE

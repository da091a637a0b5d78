SPECIFICATION Spec
CONSTANTS
  t1 = t1
  t2 = t2
  l1 = l1
  l2 = l2
  home = home
  other = other
  n1 = n1
  n2 = n2
  None = None
  Tasks <- TheTasks
  Lines <- TheLines
  Old <- TheOld
  Home <- home
  New <- TheNew
  Scopes <- CutHistories
CHECK_DEADLOCK FALSE
INVARIANT InterruptStops

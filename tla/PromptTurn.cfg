SPECIFICATION FairSpec
CONSTANTS
  p1 = p1
  p2 = p2
  s1 = s1
  f1 = f1
  n1 = n1
  None = None
  Texts <- TheTexts
  Steers <- TheSteers
  FollowUps <- TheFollowUps
  Nexts <- TheNexts
  Scopes <- Histories
CHECK_DEADLOCK FALSE
INVARIANT TypeOK
INVARIANT OneHome
INVARIANT PromptLeaves
PROPERTY AbortSendsNothing
PROPERTY ComesIdle

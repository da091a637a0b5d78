SPECIFICATION FairSpec
CONSTANTS
  N = 3
  Kinds <- EveryKind
CHECK_DEADLOCK FALSE
INVARIANT TypeOK
INVARIANT ResultsInPlace
INVARIANT OnlyShownOutput
PROPERTY CancelStops
PROPERTY SecondCancelEnds

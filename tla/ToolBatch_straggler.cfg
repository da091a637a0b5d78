SPECIFICATION Spec
CONSTANTS
  N = 2
  Kinds <- StragglerKind
CHECK_DEADLOCK FALSE
INVARIANT HookSawResult

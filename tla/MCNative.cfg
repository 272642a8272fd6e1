CONSTANTS
  Paths = {p1, p2}
  NULL = NULL
  MaxRequests = 3
SPECIFICATION Spec
SYMMETRY AnyPath
INVARIANTS
  NativeTypeOK
  OneRenderThread
  PollerKeepsContext
  LastRequestWins
  PathTakesEffect
  JoinedThreadIsWoken
CHECK_DEADLOCK FALSE

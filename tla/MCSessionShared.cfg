CONSTANTS
  Runs = {r1, r2}
  NULL = NULL
  Signals = {}
  MaxSignals = 0
SPECIFICATION Spec
INVARIANT OneSharedSession
CHECK_DEADLOCK FALSE

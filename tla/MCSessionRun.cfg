CONSTANTS
  Runs = {r1, r2}
  NULL = NULL
  Signals = {"TERM", "KILL", "STOP"}
  MaxSignals = 1
SPECIFICATION LiveSpec
INVARIANTS
  TypeOK
  LiveAppIsMarked
PROPERTY LockIsRecovered
CHECK_DEADLOCK FALSE

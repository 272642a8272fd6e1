CONSTANTS
  Surfaces = {s1, s2}
  Commits <- AllKinds
  MaxQueue = 2
SPECIFICATION LiveSpec
INVARIANTS
  RepaintTypeOK
  OneCompletion
  LoopAwake
PROPERTIES
  UpdatesApplied
  ClientsGoOn
  BufferHandedBack
CHECK_DEADLOCK FALSE

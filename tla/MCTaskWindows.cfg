CONSTANTS
  Windows = {w1, w2}
  NoWindow = NoWindow
  MaxMinimize = 1
  MaxLeaves = 2
SPECIFICATION LiveSpec
INVARIANT TaskTypeOK
PROPERTIES
  NotRemovedWhileOpen
  PlainTaskIsRemoved
CHECK_DEADLOCK FALSE

CONSTANTS
  Windows = {w1}
  NoWindow = NoWindow
  MaxMinimize = 1
  MaxLeaves = 0
SPECIFICATION LiveSpec
PROPERTY ClosedTaskIsRemoved
CHECK_DEADLOCK FALSE

CONSTANTS
  Windows = {w1, w2, w3}
  NULL = NULL
SPECIFICATION Spec
SYMMETRY AnyWindow
INVARIANTS
  KioskTypeOK
  FocusLive
  
  
  
 
CHECK_DEADLOCK FALSE

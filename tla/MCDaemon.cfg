CONSTANTS
  Consumers = {c1}
  Producers = {p1}
  Strangers = {x1}
  Screens = {s1, s2}
  HelloFds = {3, 4}
  Addr = {a1, a2, a3}
  Fds = {f1, f2, f3}
  NULL = NULL
  MaxMsgs = 2
  MaxQueue = 1
SPECIFICATION Spec
SYMMETRY Interchangeable
INVARIANTS
  TypeOK
  NoLostScreen
  ScreenAgreement
  ClientsOwnSockets
  NoLostFds
  BundlesInOrder
  NoticeIsForOwnBundle
CHECK_DEADLOCK FALSE

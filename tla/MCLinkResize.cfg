CONSTANTS
  Consumers = {c1, c2}
  Producers = {p1}
  Strangers = {}
  Screens = {s1, s2}
  HelloFds = {4}
  Addr = {a1, a2, a3}
  Fds = {f1, f2, f3}
  NULL = NULL
  MaxMsgs = 4
  MaxQueue = 2
  Disturbances = {"stop"}
  MaxEvents = 1
SPECIFICATION LiveSpec
PROPERTY ReconnectSucceeds
CHECK_DEADLOCK FALSE

CONSTANTS
  Consumers = {c1, c2, c3}
  Producers = {p1}
  Strangers = {}
  Screens = {s1}
  HelloFds = {4}
  Addr = {a1, a2, a3}
  Fds = {f1, f2, f3}
  NULL = NULL
  MaxMsgs = 4
  MaxQueue = 2
  Disturbances = {"input"}
  MaxEvents = 1
SPECIFICATION LiveSpec
PROPERTY BackInBusiness
CHECK_DEADLOCK FALSE

CONSTANTS
  Consumers = {c1, c2, c3}
  Producers = {p1, p2}
  Strangers = {}
  Screens = {s1, s2}
  HelloFds = {4}
  Addr = {a1, a2, a3}
  Fds = {f1, f2, f3}
  NULL = NULL
  MaxMsgs = 4
  MaxQueue = 2
  Disturbances = {"stop", "path", "consumer_crash", "producer_crash", "input", "window"}
  MaxEvents = 1
SPECIFICATION LinkSpec
INVARIANTS
  LinkTypeOK
  
  
  
 
CHECK_DEADLOCK FALSE

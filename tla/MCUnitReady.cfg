CONSTANTS
  p1 = p1
  p2 = p2
  p3 = p3
  NoPid = NoPid
  Pid = {p1, p2}
  Type = "NOTIFY"
  Methods = {"START"}
  IsRepository = TRUE
  Threads = {}
  FailLimit = 5
  RetryLimit = 3000
  MaxReady = 1
  MaxForks = 1
SPECIFICATION Spec
PROPERTIES ReadyNotTimedOut
CHECK_DEADLOCK FALSE

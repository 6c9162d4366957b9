CONSTANTS
  p1 = p1
  p2 = p2
  p3 = p3
  NoPid = NoPid
  Pid = {p1, p2, p3}
  Type = "NOTIFY"
  Methods = {"START"}
  IsRepository = TRUE
  Threads = {}
  FailLimit = 1
  RetryLimit = 15
  MaxReady = 2
  MaxForks = 1
SPECIFICATION FairSpec
INVARIANTS TypeOK CleanAtRest Watched OneRestart
PROPERTIES SignalsOwn Settles Recovers RepoSettles
CHECK_DEADLOCK FALSE

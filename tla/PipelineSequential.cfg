\* Recovery passes do not overlap the commands of workers; a process may crash between two saves.
SPECIFICATION TakeoverFairSpec
CONSTANTS
  a = a
  b = b
  w1 = w1
  w2 = w2
  scan = scan
  recover = recover
  Inputs = {a, b}
  MaxJobs = 2
  Workers <- TwoWorkers
  Scanners = {scan}
  Recoverers = {recover}
  Processes <- OneServer
  MaxRetries = 2
  ListLimit = 1
  None = None
  Overlap = FALSE
  MaxCrashes = 1
  CrashPoints <- BetweenSaves
  MaxLapses = 0
  MaxExpiries = 0
INVARIANTS NothingForfeited
PROPERTIES JobsFinish
CHECK_DEADLOCK FALSE

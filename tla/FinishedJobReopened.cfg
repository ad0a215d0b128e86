\* A recovery pass overwrites a finished job with what it read before.
SPECIFICATION TakeoverSpec
CONSTANTS
  a = a
  b = b
  w1 = w1
  w2 = w2
  scan = scan
  recover = recover
  Inputs = {a}
  MaxJobs = 1
  Workers <- TwoWorkers
  Scanners = {scan}
  Recoverers = {recover}
  Processes <- OneServer
  MaxRetries = 2
  ListLimit = 100
  None = None
  Overlap = TRUE
  MaxCrashes = 0
  CrashPoints = {}
  MaxLapses = 1
  MaxExpiries = 0
SYMMETRY WorkerSymmetry
PROPERTIES FinishedStays

\* A worker that stops between its pop and its save takes the job with it.
SPECIFICATION TakeoverSpec
CONSTANTS
  a = a
  b = b
  w1 = w1
  w2 = w2
  scan = scan
  recover = recover
  Inputs = {a}
  MaxJobs = 1
  Workers = {w1}
  Scanners = {scan}
  Recoverers = {recover}
  Processes <- OneServer
  MaxRetries = 2
  ListLimit = 100
  None = None
  Overlap = TRUE
  MaxCrashes = 1
  CrashPoints = {"popped", "claim"}
  MaxLapses = 0
  MaxExpiries = 0
INVARIANTS CrashSafe
CHECK_DEADLOCK FALSE

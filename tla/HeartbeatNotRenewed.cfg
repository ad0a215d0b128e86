\* A transcode longer than the TTL of the heartbeat.
SPECIFICATION TakeoverSpec
CONSTANTS
  a = a
  b = b
  w1 = w1
  w2 = w2
  scan = scan
  recover = recover
  Inputs = {a}
  MaxJobs = 1
  Workers = {w1}
  Scanners = {scan}
  Recoverers = {recover}
  Processes <- OneServer
  MaxRetries = 2
  ListLimit = 100
  None = None
  Overlap = TRUE
  MaxCrashes = 0
  CrashPoints = {}
  MaxLapses = 1
  MaxExpiries = 0
INVARIANTS HeartbeatWhileTranscoding

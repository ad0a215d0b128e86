\* Workers and a recovery thread race on one job; a process crashes anywhere, a
\* heartbeat lapses, a record outlives its TTL.
SPECIFICATION RaceSpec
CONSTANTS
  a = a
  b = b
  w1 = w1
  w2 = w2
  scan = scan
  recover = recover
  Inputs = {a}
  MaxJobs = 1
  Workers <- TwoWorkers
  Scanners = {scan}
  Recoverers = {recover}
  Processes <- OneServer
  MaxRetries = 2
  ListLimit = 100
  None = None
  Overlap = TRUE
  MaxCrashes = 1
  CrashPoints <- Anywhere
  MaxLapses = 1
  MaxExpiries = 1
SYMMETRY WorkerSymmetry
INVARIANTS PipelineTypeOK AttemptsBounded CompletedHasSummary
INVARIANTS PendingAccounted ProcessedHasJob QueuedHasRecord
INVARIANTS IndexExact HolderOwnsRecord
PROPERTIES KeepsLifecycle AssignsExclusively
CHECK_DEADLOCK FALSE

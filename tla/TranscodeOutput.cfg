\* One volume: encodes fail, processes stop, two jobs have one path and two workers one job.
SPECIFICATION FairSpec
CONSTANTS
  w1 = w1
  w2 = w2
  j1 = j1
  j2 = j2
  j3 = j3
  p1 = p1
  p2 = p2
  Workers <- TwoWorkers
  Jobs = {j1, j2, j3}
  Paths <- TwoPaths
  MaxFiles = 2
  MaxAttempts <- Attempts
  OutputOf <- Stems
  Video <- Profiles
  Host <- Hosts
  None = None
  Shareable = {j1}
  OneVolume = TRUE
INVARIANTS OutputTypeOK FoundIsThere SummaryOfResult CompletedLeavesNoPartial EncoderFits
  CommandFits TenBitsSurvive AudioKeepsItsPlace ImportedInOrder
PROPERTIES WritesAtomically AttemptEnds
CHECK_DEADLOCK FALSE

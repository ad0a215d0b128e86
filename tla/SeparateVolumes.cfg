\* The temp and the output directory are two volumes.
SPECIFICATION FairSpec
CONSTANTS
  w1 = w1
  w2 = w2
  j1 = j1
  j2 = j2
  j3 = j3
  p1 = p1
  p2 = p2
  Workers <- TwoWorkers
  Jobs = {j1}
  Paths <- TwoPaths
  MaxFiles = 2
  MaxAttempts <- Attempts
  OutputOf <- Stems
  Video <- Profiles
  Host <- Hosts
  None = None
  Shareable = {}
  OneVolume = FALSE
PROPERTIES RenamesFinishedFile
CHECK_DEADLOCK FALSE

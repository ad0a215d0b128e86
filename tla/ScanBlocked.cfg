\* One server, a directory with a file that is no video and sorts before a video.
SPECIFICATION FairSpec
CONSTANTS
  s1 = s1
  s2 = s2
  None = None
  Unreadable = Unreadable
  Servers = {s1}
  Sorted <- MixedNames
  Input <- Inputs
  Media <- Found
  Hidden <- MixedHidden
  Stalls = {}
  Config <- VshiftYaml
  MaxEdits = 0
  MaxCrashes = 0
PROPERTIES EveryMatchGetsQueued

\* Two servers, a crash; the file that cannot be read is the last one.
SPECIFICATION FairSpec
CONSTANTS
  s1 = s1
  s2 = s2
  None = None
  Unreadable = Unreadable
  Servers = {s1, s2}
  Sorted <- Names
  Input <- Inputs
  Media <- Found
  Hidden = {}
  Stalls = {"b.mkv"}
  Config <- VshiftYaml
  MaxEdits = 1
  MaxCrashes = 1
INVARIANTS ScanTypeOK CopiesBounded ProbedWhole BitDepthKept RuleOrderIrrelevant AcceptedNeverRaises
PROPERTIES StableGetsQueued

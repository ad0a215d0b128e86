\* Two servers, a file; nobody copies, removes or stops anything.
SPECIFICATION FairSpec
CONSTANTS
  s1 = s1
  s2 = s2
  None = None
  Unreadable = Unreadable
  Servers = {s1, s2}
  Sorted <- Names
  Input <- Inputs
  Media <- Found
  Hidden = {}
  Stalls = {}
  Config <- VshiftYaml
  MaxEdits = 0
  MaxCrashes = 0
INVARIANTS ProcessedOnce

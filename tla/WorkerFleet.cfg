SPECIFICATION FairSpec
CONSTANTS
  p1 = p1
  p2 = p2
  p3 = p3
  w1 = w1
  s1 = s1
  s2 = s2
  Workers <- AllWorkers
  Pods = {p1, p2, p3}
  Servers = {s1, s2}
  MaxPods = 1
  MaxQueued = 2
  MaxFaults = 1
INVARIANTS FleetTypeOK PodsBounded RegisteredIsListed OrphansDied
PROPERTIES QueueDrains

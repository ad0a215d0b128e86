\* Three clients save a job in any state at any moment, keys expire, and jobs are listed.
SPECIFICATION Spec
CONSTANTS
  j1 = j1
  c1 = c1
  c2 = c2
  c3 = c3
  Jobs = {j1}
  Clients <- ThreeClients
  Records <- ThreeStates
  None = None
SYMMETRY StoreSymmetry
INVARIANTS StoreTypeOK QueryTypeOK IndexCovers QuietJobsListed

----------------------------- MODULE MCJobStore -----------------------------
(* The repository with three concurrent clients, and a request, for TLC.   *)
(* Jobs have nothing in common in the repository: one shows all.           *)
EXTENDS JobQueries, TLC

CONSTANTS j1, c1, c2, c3

ThreeClients  == {c1, c2, c3}
StoreSymmetry == Permutations(ThreeClients)

\* A record is its state: nothing else about it decides what save() does.
ThreeStates == [state : {"PENDING", "CLAIMED", "COMPLETED"}]
=============================================================================

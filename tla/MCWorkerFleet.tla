--------------------------- MODULE MCWorkerFleet ---------------------------
(* Three pods, one more than there may be, and one static worker, for TLC. *)
EXTENDS WorkerFleet

CONSTANTS p1, p2, p3, w1, s1, s2

AllWorkers == {p1, p2, p3, w1}
=============================================================================

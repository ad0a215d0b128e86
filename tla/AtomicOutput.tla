---------------------------- MODULE AtomicOutput ----------------------------
(***************************************************************************)
(* What "atomically write output" promises: nothing is ever seen at an     *)
(* output path but the whole result of one transcode of a job with that    *)
(* path, and once there is one, the path is never without.                 *)
(***************************************************************************)
CONSTANTS
  Jobs, Paths,
  OutputOf,   \* the output path of each job
  None        \* no job

VARIABLE published   \* published[p]: the job whose result is at path p, or None

Init == published = [p \in Paths |-> None]

Publish(j) == published' = [published EXCEPT ![OutputOf[j]] = j]

Next == \E j \in Jobs : Publish(j)

Spec == Init /\ [][Next]_published
=============================================================================

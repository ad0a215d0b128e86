---------------------------- MODULE WorkerRegistry ----------------------------
(***************************************************************************)
(* RedisWorkerRegistry, one operator per Redis command: the key of a       *)
(* worker, which has a TTL, and the index of the worker ids, which has     *)
(* none.  WorkerFleet composes them with the code that calls them.         *)
(*                                                                         *)
(* A worker id is made of a process: whatever a process left behind when   *)
(* it ended is only counted here (orphans), and its place is taken by the  *)
(* next process with a new id.                                             *)
(***************************************************************************)
EXTENDS Naturals, FiniteSets

CONSTANT Workers

VARIABLES
  keyed,     \* the workers whose key exists
  listed,    \* the workers whose id is in the index
  orphans    \* how many ids of ended processes are in the index

registry == <<keyed, listed, orphans>>

RegistryTypeOK ==
  /\ keyed \in SUBSET Workers /\ listed \in SUBSET Workers
  /\ orphans \in Nat

RegistryInit == keyed = {} /\ listed = {} /\ orphans = 0

\* register: SET and SADD.
SetWorker(w) == keyed' = keyed \cup {w} /\ UNCHANGED <<listed, orphans>>
ListWorker(w) == listed' = listed \cup {w} /\ UNCHANGED <<keyed, orphans>>

\* heartbeat: GET, and SET if there was a key, which renews its TTL.  A key that
\* has expired stays away.  (One that expires between the two is back at once:
\* the process itself and the TTL are all that touch the key.)
Heartbeat(w) == UNCHANGED registry

\* deregister: DEL and SREM.
DeleteWorker(w) == keyed' = keyed \ {w} /\ UNCHANGED <<listed, orphans>>

UnlistWorker(w) == listed' = listed \ {w} /\ UNCHANGED <<keyed, orphans>>

\* The TTL of the key is over.
Lapse(w) ==
  /\ w \in keyed
  /\ keyed' = keyed \ {w}
  /\ UNCHANGED <<listed, orphans>>

\* The process of w is gone: the next one has a new id.
Vacate(w) ==
  /\ orphans' = orphans + (IF w \in listed THEN 1 ELSE 0)
  /\ keyed' = keyed \ {w} /\ listed' = listed \ {w}
=============================================================================

------------------------------ MODULE JobStore ------------------------------
(***************************************************************************)
(* RedisJobRepository (infrastructure/redis/job_store.py), one action per  *)
(* Redis command.  A job is a JSON string under its own key; beside it     *)
(* Redis holds one set of job ids per state.  save() is a GET, a           *)
(* conditional SREM, a SET and a SADD, sent one by one with no             *)
(* transaction, so that the saves of several clients interleave and a      *)
(* client can stop for good between any two of them.                       *)
(*                                                                         *)
(* A client here is a thread of a server or of a worker process.  The      *)
(* module promises nothing about what the clients write: JobPipeline       *)
(* composes it with the code that calls it.                                *)
(***************************************************************************)
EXTENDS JobStateMachine

CONSTANTS Jobs,      \* the ids of jobs
          Clients,   \* the threads that use the repository
          Records,   \* the job records that a client may save
          None       \* no value: a key that does not exist, an empty hand

ASSUME StoreAssumption ==
  /\ \A r \in Records : r.state \in JobStates
  /\ None \notin Records \cup Jobs \cup JobStates

VARIABLES job,     \* job[j]: the record under the key of job j, or None
          index,   \* index[s]: the ids in the set of state s
          client   \* client[c]: the job object client c works on, and its save

storeVars == <<job, index, client>>

(***************************************************************************)
(* "step" is the next Redis command of the save that a client is in;       *)
(* "old" is the state whose index save() found it has to leave.            *)
(***************************************************************************)
SaveSteps == {"idle", "get", "srem", "set", "sadd"}

ClientType == [step : SaveSteps, id : Jobs \cup {None},
               rec : Records \cup {None}, old : JobStates \cup {None}]

EmptyHanded == [step |-> "idle", id |-> None, rec |-> None, old |-> None]

Saving(c, j) == client[c].step # "idle" /\ client[c].id = j

StoreTypeOK ==
  /\ job \in [Jobs -> Records \cup {None}]
  /\ index \in [JobStates -> SUBSET Jobs]
  /\ client \in [Clients -> ClientType]
  /\ \A c \in Clients :
       /\ client[c].step # "idle" => client[c].id \in Jobs /\ client[c].rec \in Records
       /\ client[c].step = "srem" => client[c].old \in JobStates

StoreInit ==
  /\ job = [j \in Jobs |-> None]
  /\ index = [s \in JobStates |-> {}]
  /\ client = [c \in Clients |-> EmptyHanded]

-----------------------------------------------------------------------------
(* save(job): the object in memory is handed over, then the four commands. *)

HandOver(j, r) == [step |-> "get", id |-> j, rec |-> r, old |-> None]

SaveCall(c, j, r) ==
  /\ client[c].step = "idle"
  /\ client' = [client EXCEPT ![c] = HandOver(j, r)]
  /\ UNCHANGED <<job, index>>

Saved(c) == [client[c] EXCEPT !.step = "idle"]

\* Mutant: the old index keeps the id.
SaveGet_NoSrem(c) ==
  /\ client[c].step = "get"
  /\ client' = [client EXCEPT ![c].step = "set"]
  /\ UNCHANGED <<job, index>>

\* Mutant: the step forgets which state it left.
SaveGet_NoOld(c) ==
  LET existing == job[client[c].id]
      moved    == existing # None /\ existing.state # client[c].rec.state
  IN  /\ client[c].step = "get"
      /\ client' = [client EXCEPT ![c].step = IF moved THEN "srem" ELSE "set"]
      /\ UNCHANGED <<job, index>>

\* GET: is there a record, and is it indexed under another state?
SaveGet(c) ==
  LET existing == job[client[c].id]
      moved    == existing # None /\ existing.state # client[c].rec.state
  IN  /\ client[c].step = "get"
      /\ client' = [client EXCEPT
                      ![c].step = IF moved THEN "srem" ELSE "set",
                      ![c].old  = IF moved THEN existing.state ELSE None]
      /\ UNCHANGED <<job, index>>

\* SREM from the index of the state that the GET returned.
SaveSrem(c) ==
  /\ client[c].step = "srem"
  /\ index' = [index EXCEPT ![client[c].old] = @ \ {client[c].id}]
  /\ client' = [client EXCEPT ![c].step = "set", ![c].old = None]
  /\ UNCHANGED job

\* Mutant: a record that existed is taken to be indexed already.
SaveSet_NoSadd(c) ==
  /\ client[c].step = "set"
  /\ job' = [job EXCEPT ![client[c].id] = client[c].rec]
  /\ client' = [client EXCEPT
                  ![c].step = IF job[client[c].id] = None THEN "sadd" ELSE "idle"]
  /\ UNCHANGED index

\* SET with the repository's TTL: the last writer wins.
SaveSet(c) ==
  /\ client[c].step = "set"
  /\ job' = [job EXCEPT ![client[c].id] = client[c].rec]
  /\ client' = [client EXCEPT ![c].step = "sadd"]
  /\ UNCHANGED index

\* SADD, the end of save(): the caller goes on with "hand", the object it saved
\* or nothing.
SaveSadd(c, hand) ==
  /\ client[c].step = "sadd"
  /\ index' = [index EXCEPT ![client[c].rec.state] = @ \cup {client[c].id}]
  /\ client' = [client EXCEPT ![c] = hand]
  /\ UNCHANGED job

\* The TTL of a job key runs out.  The index sets have no TTL.
Expire(j) ==
  /\ job[j] # None
  /\ job' = [job EXCEPT ![j] = None]
  /\ UNCHANGED <<index, client>>

StoreNext ==
  \/ \E c \in Clients :
       \/ \E j \in Jobs, r \in Records : SaveCall(c, j, r)
       \/ SaveGet(c)
       \/ SaveSrem(c)
       \/ SaveSet(c)
       \/ SaveSadd(c, Saved(c)) \/ SaveSadd(c, EmptyHanded)
  \/ \E j \in Jobs : Expire(j)

StoreSpec == StoreInit /\ [][StoreNext]_storeVars

-----------------------------------------------------------------------------
(* What the repository promises whatever its clients write.                *)

\* Client c has yet to add job j to the index of state s.
WillIndex(c, j, s) ==
  /\ client[c].id = j
  /\ \/ client[c].step = "set"
     \/ client[c].step = "sadd" /\ client[c].rec.state = s

\* A stored job is in the index of its state, or a save that is still under
\* way will put it (or its successor) there: however the commands of
\* concurrent saves interleave, list_by_state can lose a job only for the
\* duration of a save (or for good, when the client stops inside it).
IndexCovers ==
  \A j \in Jobs :
    job[j] # None =>
      \/ j \in index[job[j].state]
      \/ \E c \in Clients : WillIndex(c, j, job[j].state)
=============================================================================

------------------------------ MODULE JobQueries ------------------------------
(***************************************************************************)
(* GET /jobs: list_jobs of the API reads the jobs of one state after the   *)
(* other, each with SMEMBERS and a GET per id, while clients of the        *)
(* repository save jobs.  (The page that is cut out of the jobs when they  *)
(* are sorted, and limits that exceed the number of jobs, are left out.)   *)
(***************************************************************************)
EXTENDS JobStore, Naturals, Sequences

VARIABLES
  call,      \* the request that is served
  quiet,     \* history: the jobs that nobody has saved since it began
  disturbed  \* history: the jobs whose saves ever overlapped, or whose record expired

vars == <<storeVars, call, quiet, disturbed>>

\* The order in which Python lists the members of JobState.
JobStateOrder == <<"PENDING", "CLAIMED", "PROCESSING", "COMPLETED", "FAILED">>

\* "next": the state whose index is read next; "todo": ids still to be read;
\* "jobs": how often each job is in the list.
Call == [at : {"idle", "index", "get", "done"}, next : 1..(Len(JobStateOrder) + 1),
         todo : SUBSET Jobs, jobs : [Jobs -> 0..Len(JobStateOrder)]]

NoCall == [at |-> "idle", next |-> 1, todo |-> {}, jobs |-> [j \in Jobs |-> 0]]

QueryTypeOK ==
  /\ call \in Call
  /\ quiet \in SUBSET Jobs /\ disturbed \in SUBSET Jobs
  /\ call.at = "get" => call.todo # {}
  /\ call.at = "index" => call.next <= Len(JobStateOrder)

Init ==
  /\ StoreInit
  /\ call = NoCall /\ quiet = {} /\ disturbed = {}

BeingSaved(j) == \E c \in Clients : Saving(c, j)

ListJobs ==
  /\ call.at = "idle"
  /\ call' = [call EXCEPT !.at = "index"]
  /\ quiet' = {j \in Jobs : ~BeingSaved(j)}
  /\ UNCHANGED <<storeVars, disturbed>>

\* Mutant: an empty index is not passed over.
Onward_Reads(jobs, todo, next) ==
  [at |-> IF next <= Len(JobStateOrder) THEN "get" ELSE "done",
   next |-> next, todo |-> todo, jobs |-> jobs]

\* After the ids of one state come those of the next.
Onward(jobs, todo, next) ==
  [at   |-> IF todo # {} THEN "get" ELSE IF next <= Len(JobStateOrder) THEN "index" ELSE "done",
   next |-> next, todo |-> todo, jobs |-> jobs]

ReadIndex ==
  /\ call.at = "index"
  /\ call' = Onward(call.jobs, index[JobStateOrder[call.next]], call.next + 1)
  /\ UNCHANGED <<storeVars, quiet, disturbed>>

\* An id without a record is passed over.  The record may have any state by now.
ReadJob(j) ==
  /\ call.at = "get" /\ j \in call.todo
  /\ call' = Onward([call.jobs EXCEPT ![j] = IF job[j] # None THEN @ + 1 ELSE @],
                    call.todo \ {j}, call.next)
  /\ UNCHANGED <<storeVars, quiet, disturbed>>

Respond ==
  /\ call.at = "done"
  /\ call' = NoCall
  /\ quiet' = {}
  /\ UNCHANGED <<storeVars, disturbed>>

\* Meanwhile: a step of a client, or the end of a TTL.
StoreStep ==
  /\ StoreNext
  /\ quiet' = {j \in quiet : job'[j] = job[j] /\ ~BeingSaved(j)'}
  /\ disturbed' = disturbed
       \cup {j \in Jobs : \E c, d \in Clients : c # d /\ Saving(c, j)' /\ Saving(d, j)'}
       \cup {j \in Jobs : job[j] # None /\ job'[j] = None}
  /\ UNCHANGED call

Next == ListJobs \/ ReadIndex \/ (\E j \in Jobs : ReadJob(j)) \/ Respond \/ StoreStep

Spec == Init /\ [][Next]_vars

-----------------------------------------------------------------------------
\* The answer lists every stored job that nobody saved while it was put
\* together: once, unless saves of the job have overlapped or its record had
\* expired before, which leaves its id in a second index for good.  A job that
\* moves meanwhile may be missing, or listed twice.
QuietJobsListed ==
  call.at = "done" =>
    \A j \in quiet :
      job[j] # None => call.jobs[j] >= 1 /\ (j \notin disturbed => call.jobs[j] = 1)
=============================================================================

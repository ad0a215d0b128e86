--------------------------- MODULE JobStoreProofs ---------------------------
(***************************************************************************)
(* JobStore for any sets of jobs, clients and records: the repository      *)
(* keeps its types, and no interleaving of saves takes a stored job out of *)
(* the index of its state for longer than a save; and JobQueries: an       *)
(* answer of list_jobs has every job that nobody saved meanwhile.          *)
(***************************************************************************)
EXTENDS JobQueries, TLAPS

\* The parts of the type invariant in the form the steps below use.
LEMMA ClientFields ==
  ASSUME StoreTypeOK, NEW c \in Clients
  PROVE  /\ client[c].step \in SaveSteps
         /\ client[c].id \in Jobs \cup {None}
         /\ client[c].rec \in Records \cup {None}
         /\ client[c].step # "idle" =>
              client[c].id \in Jobs /\ client[c].rec \in Records
         /\ client[c].step \in {"set", "sadd"} => client[c].rec.state \in JobStates
  BY StoreAssumption DEF StoreTypeOK, ClientType, SaveSteps

-----------------------------------------------------------------------------
(* Every step of a save, and every expiry, keeps the types.                *)

LEMMA TypeCall ==
  ASSUME StoreTypeOK, NEW c \in Clients, NEW j \in Jobs, NEW r \in Records,
         SaveCall(c, j, r)
  PROVE  StoreTypeOK'
  BY DEF StoreTypeOK, ClientType, SaveSteps, SaveCall, HandOver

LEMMA TypeGet ==
  ASSUME StoreTypeOK, NEW c \in Clients, SaveGet(c)
  PROVE  StoreTypeOK'
  <1> DEFINE existing == job[client[c].id]
             moved    == existing # None /\ existing.state # client[c].rec.state
  <1>1. client[c].id \in Jobs /\ client[c].rec \in Records
    BY ClientFields DEF SaveGet
  <1>2. moved => existing.state \in JobStates
    BY <1>1, StoreAssumption DEF StoreTypeOK
  <1>3. job' = job /\ index' = index
    BY DEF SaveGet
  <1>4. client[c] \in ClientType
    BY DEF StoreTypeOK
  <1>5. CASE moved
    <2>1. client' = [client EXCEPT ![c].step = "srem", ![c].old = existing.state]
      BY <1>5 DEF SaveGet
    <2> HIDE DEF moved, existing
    <2> QED
      BY <1>1, <1>2, <1>3, <1>4, <1>5, <2>1 DEF StoreTypeOK, ClientType, SaveSteps
  <1>6. CASE ~moved
    <2>1. client' = [client EXCEPT ![c].step = "set", ![c].old = None]
      BY <1>6 DEF SaveGet
    <2> HIDE DEF moved, existing
    <2> QED
      BY <1>1, <1>3, <1>4, <2>1 DEF StoreTypeOK, ClientType, SaveSteps
  <1> QED
    BY <1>5, <1>6

LEMMA TypeSrem ==
  ASSUME StoreTypeOK, NEW c \in Clients, SaveSrem(c)
  PROVE  StoreTypeOK'
  BY DEF StoreTypeOK, ClientType, SaveSteps, SaveSrem

LEMMA TypeSet ==
  ASSUME StoreTypeOK, NEW c \in Clients, SaveSet(c)
  PROVE  StoreTypeOK'
  BY DEF StoreTypeOK, ClientType, SaveSteps, SaveSet

LEMMA TypeSadd ==
  ASSUME StoreTypeOK, NEW c \in Clients, NEW hand \in {Saved(c), EmptyHanded},
         SaveSadd(c, hand)
  PROVE  StoreTypeOK'
  <1>1. hand \in ClientType /\ hand.step = "idle"
    BY DEF StoreTypeOK, ClientType, SaveSteps, Saved, EmptyHanded
  <1>2. client[c].rec.state \in JobStates /\ client[c].id \in Jobs
    BY ClientFields DEF SaveSadd
  <1> QED
    BY <1>1, <1>2 DEF StoreTypeOK, SaveSadd

LEMMA TypeExpire ==
  ASSUME StoreTypeOK, NEW j \in Jobs, Expire(j)
  PROVE  StoreTypeOK'
  BY DEF StoreTypeOK, Expire

\* The types of the repository hold in every reachable state, whoever saves what.
THEOREM StoreTyped == StoreSpec => []StoreTypeOK
  <1>1. StoreInit => StoreTypeOK
    BY DEF StoreInit, StoreTypeOK, ClientType, EmptyHanded, SaveSteps
  <1>2. StoreTypeOK /\ [StoreNext]_storeVars => StoreTypeOK'
    <2> SUFFICES ASSUME StoreTypeOK, [StoreNext]_storeVars PROVE StoreTypeOK'
      OBVIOUS
    <2>1. CASE UNCHANGED storeVars
      BY <2>1 DEF storeVars, StoreTypeOK
    <2>2. CASE StoreNext
      BY <2>2, TypeCall, TypeGet, TypeSrem, TypeSet, TypeSadd, TypeExpire DEF StoreNext
    <2> QED
      BY <2>1, <2>2
  <1> QED
    BY <1>1, <1>2, PTL DEF StoreSpec

-----------------------------------------------------------------------------
(* IndexCovers, job by job.                                                *)

Covered(j) ==
  job[j] # None =>
    \/ j \in index[job[j].state]
    \/ \E c \in Clients : WillIndex(c, j, job[j].state)

\* A GET changes neither the record nor the sets, and drops no promise to index.
LEMMA CoverGet ==
  ASSUME StoreTypeOK, NEW c \in Clients, SaveGet(c), NEW j \in Jobs, Covered(j)
  PROVE  Covered(j)'
  <1>1. job' = job /\ index' = index
    BY DEF SaveGet
  <1>2. ASSUME NEW d \in Clients, NEW s, WillIndex(d, j, s) PROVE WillIndex(d, j, s)'
    BY <1>2 DEF WillIndex, SaveGet, StoreTypeOK, ClientType
  <1> QED
    BY <1>1, <1>2 DEF Covered

\* The client that takes an id out of an index goes on to set the record anew.
LEMMA CoverSrem ==
  ASSUME StoreTypeOK, NEW c \in Clients, SaveSrem(c), NEW j \in Jobs, Covered(j)
  PROVE  Covered(j)'
  <1>1. job' = job
    BY DEF SaveSrem
  <1>2. CASE client[c].id = j
    <2>1. WillIndex(c, j, job[j].state)'
      BY <1>2 DEF WillIndex, SaveSrem, StoreTypeOK, ClientType
    <2> QED
      BY <1>1, <2>1 DEF Covered
  <1>3. CASE client[c].id # j
    <2>1. ASSUME NEW s \in JobStates, j \in index[s] PROVE j \in index'[s]
      BY <1>3, <2>1 DEF SaveSrem, StoreTypeOK
    <2>2. ASSUME NEW d \in Clients, NEW s, WillIndex(d, j, s) PROVE WillIndex(d, j, s)'
      BY <2>2 DEF WillIndex, SaveSrem, StoreTypeOK, ClientType
    <2>3. job[j] # None => job[j].state \in JobStates
      BY StoreAssumption DEF StoreTypeOK
    <2> QED
      BY <1>1, <2>1, <2>2, <2>3 DEF Covered
  <1> QED
    BY <1>2, <1>3

\* The client that sets a record goes on to index it under its state.
LEMMA CoverSet ==
  ASSUME StoreTypeOK, NEW c \in Clients, SaveSet(c), NEW j \in Jobs, Covered(j)
  PROVE  Covered(j)'
  <1>1. client[c].id \in Jobs /\ client[c].rec \in Records
    BY ClientFields DEF SaveSet
  <1>2. CASE client[c].id = j
    <2>1. job'[j] = client[c].rec
      BY <1>2 DEF SaveSet, StoreTypeOK
    <2>2. client'[c].id = j /\ client'[c].step = "sadd" /\ client'[c].rec = client[c].rec
      BY <1>2 DEF SaveSet, StoreTypeOK, ClientType
    <2> QED
      BY <2>1, <2>2 DEF Covered, WillIndex
  <1>3. CASE client[c].id # j
    <2>1. job'[j] = job[j] /\ index' = index
      BY <1>3 DEF SaveSet, StoreTypeOK
    <2>2. ASSUME NEW d \in Clients, NEW s, WillIndex(d, j, s) PROVE WillIndex(d, j, s)'
      BY <1>3, <2>2 DEF WillIndex, SaveSet, StoreTypeOK, ClientType
    <2> QED
      BY <2>1, <2>2 DEF Covered
  <1> QED
    BY <1>2, <1>3

\* The client that ends its save has put the job into the index it promised.
LEMMA CoverSadd ==
  ASSUME StoreTypeOK, NEW c \in Clients, NEW hand \in {Saved(c), EmptyHanded},
         SaveSadd(c, hand), NEW j \in Jobs, Covered(j)
  PROVE  Covered(j)'
  <1>1. job' = job
    BY DEF SaveSadd
  <1>2. client[c].rec.state \in JobStates
    BY ClientFields DEF SaveSadd
  <1>3. ASSUME NEW s \in JobStates, j \in index[s] PROVE j \in index'[s]
    BY <1>2, <1>3 DEF SaveSadd, StoreTypeOK
  <1>4. ASSUME NEW d \in Clients, NEW s \in JobStates, WillIndex(d, j, s)
        PROVE  j \in index'[s] \/ WillIndex(d, j, s)'
    <2>1. CASE d = c
      BY <1>2, <1>4, <2>1 DEF WillIndex, SaveSadd, StoreTypeOK
    <2>2. CASE d # c
      BY <1>4, <2>2 DEF WillIndex, SaveSadd, StoreTypeOK
    <2> QED
      BY <2>1, <2>2
  <1>5. job[j] # None => job[j].state \in JobStates
    BY StoreAssumption DEF StoreTypeOK
  <1> QED
    BY <1>1, <1>3, <1>4, <1>5 DEF Covered

LEMMA CoverCall ==
  ASSUME StoreTypeOK, NEW c \in Clients, NEW k \in Jobs, NEW r \in Records,
         SaveCall(c, k, r), NEW j \in Jobs, Covered(j)
  PROVE  Covered(j)'
  <1>1. job' = job /\ index' = index
    BY DEF SaveCall
  <1>2. ASSUME NEW d \in Clients, NEW s, WillIndex(d, j, s) PROVE WillIndex(d, j, s)'
    BY <1>2 DEF WillIndex, SaveCall, StoreTypeOK
  <1> QED
    BY <1>1, <1>2 DEF Covered

LEMMA CoverExpire ==
  ASSUME StoreTypeOK, NEW k \in Jobs, Expire(k), NEW j \in Jobs, Covered(j)
  PROVE  Covered(j)'
  <1>1. job'[j] \in {job[j], None} /\ index' = index /\ client' = client
    BY DEF Expire, StoreTypeOK
  <1> QED
    BY <1>1 DEF Covered, WillIndex

\* However saves interleave, a stored job is in the index of its state or a save
\* that is still under way will put it into one.
THEOREM StoreIndexCovers == StoreSpec => []IndexCovers
  <1>1. StoreInit => IndexCovers
    BY DEF StoreInit, IndexCovers
  <1>2. StoreTypeOK /\ IndexCovers /\ [StoreNext]_storeVars => IndexCovers'
    <2> SUFFICES ASSUME StoreTypeOK, IndexCovers, [StoreNext]_storeVars, NEW j \in Jobs
                 PROVE  Covered(j)'
      BY DEF IndexCovers, Covered
    <2>1. Covered(j)
      BY DEF IndexCovers, Covered
    <2>2. CASE UNCHANGED storeVars
      BY <2>1, <2>2 DEF storeVars, Covered, WillIndex
    <2>3. CASE StoreNext
      BY <2>1, <2>3, CoverCall, CoverGet, CoverSrem, CoverSet, CoverSadd, CoverExpire
         DEF StoreNext
    <2> QED
      BY <2>2, <2>3
  <1> QED
    BY <1>1, <1>2, StoreTyped, PTL DEF StoreSpec

-----------------------------------------------------------------------------
(* JobQueries: the repository is that of JobStore, so that what is proved  *)
(* above holds while a request is served.                                  *)

LEMMA QueriesUseStore == Spec => StoreSpec
  <1>1. Init => StoreInit
    BY DEF Init
  <1>2. [Next]_vars => [StoreNext]_storeVars
    BY DEF Next, ListJobs, ReadIndex, ReadJob, Respond, StoreStep, vars
  <1> QED
    BY <1>1, <1>2, PTL DEF Spec, StoreSpec

(* What the request has of each job: the number of times it has read it,   *)
(* and whether it still has to.                                            *)
Waiting(j) == IF j \in call.todo THEN 1 ELSE 0

\* A job is listed at most once for each state that was read.
CallOK ==
  /\ call.at = "idle" => call = NoCall
  /\ call.at # "get" => call.todo = {}
  /\ call.at = "done" => call.next = 6
  /\ \A j \in Jobs : call.jobs[j] + Waiting(j) < call.next

LEMMA OrderOfStates ==
  /\ Len(JobStateOrder) = 5
  /\ \A n \in 1..5 : JobStateOrder[n] \in JobStates
  BY DEF JobStateOrder, JobStates

LEMMA CallFields ==
  ASSUME QueryTypeOK
  PROVE  /\ call.at \in {"idle", "index", "get", "done"} /\ call.next \in 1..6
         /\ call.todo \in SUBSET Jobs /\ call.jobs \in [Jobs -> 0..5]
         /\ call = [at |-> call.at, next |-> call.next, todo |-> call.todo, jobs |-> call.jobs]
  BY OrderOfStates DEF QueryTypeOK, Call

\* The step to the next state or to the next job of the same.
LEMMA OnwardOK ==
  ASSUME NEW jobs \in [Jobs -> Nat], NEW todo \in SUBSET Jobs, NEW next \in 1..6,
         call' = Onward(jobs, todo, next),
         \A j \in Jobs : jobs[j] + (IF j \in todo THEN 1 ELSE 0) < next,
         quiet' \in SUBSET Jobs, disturbed' \in SUBSET Jobs
  PROVE  QueryTypeOK' /\ CallOK'
  <1>1. /\ call'.next = next /\ call'.todo = todo /\ call'.jobs = jobs
        /\ call'.at = IF todo # {} THEN "get" ELSE IF next <= 5 THEN "index" ELSE "done"
        /\ call' = [at |-> call'.at, next |-> next, todo |-> todo, jobs |-> jobs]
    BY OrderOfStates DEF Onward
  <1>2. jobs \in [Jobs -> 0..5]
    BY DEF Waiting
  <1>3. CallOK'
    BY <1>1 DEF CallOK, Waiting
  <1> QED
    BY <1>1, <1>2, <1>3, OrderOfStates DEF QueryTypeOK, Call

\* The types of a request, and the bound that keeps its counts in them.
LEMMA CallStep ==
  ASSUME StoreTypeOK, QueryTypeOK, CallOK, [Next]_vars
  PROVE  QueryTypeOK' /\ CallOK'
  <1>1. /\ call.next \in 1..6 /\ call.todo \in SUBSET Jobs /\ call.jobs \in [Jobs -> 0..5]
        /\ quiet \in SUBSET Jobs /\ disturbed \in SUBSET Jobs
    BY CallFields DEF QueryTypeOK
  <1>2. CASE UNCHANGED call /\ quiet' \in SUBSET Jobs /\ disturbed' \in SUBSET Jobs
    BY <1>2 DEF QueryTypeOK, CallOK, Waiting
  <1>3. CASE ListJobs
    <2>1. call = NoCall /\ call' = [call EXCEPT !.at = "index"]
      BY <1>3 DEF ListJobs, CallOK
    <2>2. call' = [at |-> "index", next |-> 1, todo |-> {}, jobs |-> [j \in Jobs |-> 0]]
      BY <2>1 DEF NoCall
    <2>3. quiet' \in SUBSET Jobs /\ disturbed' \in SUBSET Jobs
      BY <1>1, <1>3 DEF ListJobs
    <2> QED
      BY <2>2, <2>3, OrderOfStates DEF QueryTypeOK, Call, CallOK, Waiting
  <1>4. CASE ReadIndex
    <2>1. call.at = "index" /\ call.todo = {} /\ call.next \in 1..5
      BY <1>1, <1>4, OrderOfStates DEF ReadIndex, QueryTypeOK, CallOK
    <2>2. index[JobStateOrder[call.next]] \in SUBSET Jobs
      BY <2>1, OrderOfStates DEF StoreTypeOK
    <2>3. \A j \in Jobs : call.jobs[j] < call.next /\ call.jobs[j] \in Nat
      BY <1>1, <2>1 DEF CallOK, Waiting
    <2> QED
      BY <1>1, <1>4, <2>1, <2>2, <2>3, OnwardOK DEF ReadIndex
  <1>5. ASSUME NEW j \in Jobs, ReadJob(j) PROVE QueryTypeOK' /\ CallOK'
    <2> DEFINE read == [call.jobs EXCEPT ![j] = IF job[j] # None THEN @ + 1 ELSE @]
    <2>1. read \in [Jobs -> Nat]
      BY <1>1
    <2>2. \A k \in Jobs : read[k] + (IF k \in call.todo \ {j} THEN 1 ELSE 0) < call.next
      <3>1. j \in call.todo
        BY <1>5 DEF ReadJob
      <3>2. \A k \in Jobs : call.jobs[k] + (IF k \in call.todo THEN 1 ELSE 0) < call.next
        BY DEF CallOK, Waiting
      <3> QED
        BY <1>1, <3>1, <3>2
    <2>3. call' = Onward(read, call.todo \ {j}, call.next)
      BY <1>5 DEF ReadJob
    <2> HIDE DEF read
    <2> QED
      BY <1>1, <1>5, <2>1, <2>2, <2>3, OnwardOK DEF ReadJob
  <1>6. CASE Respond
    <2>1. call' = NoCall /\ quiet' = {} /\ disturbed' = disturbed
      BY <1>6 DEF Respond
    <2> QED
      BY <1>1, <2>1, OrderOfStates DEF NoCall, QueryTypeOK, Call, CallOK, Waiting
  <1>7. CASE StoreStep \/ UNCHANGED vars
    BY <1>1, <1>2, <1>7 DEF StoreStep, vars
  <1> QED
    BY <1>3, <1>4, <1>5, <1>6, <1>7 DEF Next

LEMMA QueriesOK == Spec => [](StoreTypeOK /\ IndexCovers /\ QueryTypeOK /\ CallOK)
  <1>1. Init => QueryTypeOK /\ CallOK
    BY OrderOfStates DEF Init, NoCall, QueryTypeOK, Call, CallOK, Waiting
  <1>2. StoreTypeOK /\ QueryTypeOK /\ CallOK /\ [Next]_vars => QueryTypeOK' /\ CallOK'
    BY CallStep
  <1> QED
    BY <1>1, <1>2, QueriesUseStore, StoreTyped, StoreIndexCovers, PTL DEF Spec

\* A request lists no job more often than there are states, so that its counts
\* stay within their type.
THEOREM QueriesTyped == Spec => []QueryTypeOK
  BY QueriesOK, PTL

-----------------------------------------------------------------------------
(* QuietJobsListed.  A job whose saves never overlapped, and whose record   *)
(* never expired, is in no index but that of its state.                     *)

Neat(j) ==
  /\ \A c, d \in Clients : Saving(c, j) /\ Saving(d, j) => c = d
  /\ \A s \in JobStates : j \in index[s] => job[j] # None /\ job[j].state = s
  /\ \A c \in Clients : client[c].id = j =>
       /\ client[c].step = "srem" => job[j] # None /\ client[c].old = job[j].state
       /\ client[c].step = "set" => \A s \in JobStates : j \in index[s] => s = client[c].rec.state
       /\ client[c].step = "sadd" => job[j] = client[c].rec

\* A client that steps with another job leaves a neat one alone.
LEMMA NeatElsewhere ==
  ASSUME NEW c \in Clients, NEW j \in Jobs, Neat(j), job'[j] = job[j],
         \A s \in JobStates : j \in index'[s] <=> j \in index[s],
         \A d \in Clients \ {c} : client'[d] = client[d], ~Saving(c, j)'
  PROVE  Neat(j)'
  <1>1. \A d \in Clients : Saving(d, j)' => d # c /\ Saving(d, j)
    BY DEF Saving
  <1>2. ASSUME NEW d \in Clients, client'[d].id = j, client'[d].step \in {"srem", "set", "sadd"}
        PROVE  d # c /\ client'[d] = client[d]
    BY <1>2 DEF Saving
  <1> QED
    BY <1>1, <1>2 DEF Neat

\* Nobody else saves the job of a client whose step keeps it neat.
LEMMA NeatStep ==
  ASSUME StoreTypeOK, NEW c \in Clients, NEW j \in Jobs, Neat(j), client[c].id = j,
         SaveGet(c) \/ SaveSrem(c) \/ SaveSet(c)
           \/ SaveSadd(c, Saved(c)) \/ SaveSadd(c, EmptyHanded)
  PROVE  Neat(j)'
  <1>1. /\ client \in [Clients -> ClientType] /\ client[c] \in ClientType
        /\ client[c].rec \in Records /\ client[c].rec.state \in JobStates
        /\ job \in [Jobs -> Records \cup {None}] /\ index \in [JobStates -> SUBSET Jobs]
        /\ client[c].step # "idle" /\ Saving(c, j)
    BY StoreAssumption DEF StoreTypeOK, SaveGet, SaveSrem, SaveSet, SaveSadd, Saving
  <1>2. \A d \in Clients \ {c} : ~Saving(d, j) /\ client'[d] = client[d]
    BY <1>1 DEF Neat, SaveGet, SaveSrem, SaveSet, SaveSadd
  <1>3. \A d \in Clients : Saving(d, j)' => d = c
    BY <1>2 DEF Saving
  <1>4. ASSUME \A s \in JobStates : j \in index'[s] => job'[j] # None /\ job'[j].state = s,
               client'[c].id = j =>
                 /\ client'[c].step = "srem" => job'[j] # None /\ client'[c].old = job'[j].state
                 /\ client'[c].step = "set" =>
                      \A s \in JobStates : j \in index'[s] => s = client'[c].rec.state
                 /\ client'[c].step = "sadd" => job'[j] = client'[c].rec
        PROVE  Neat(j)'
    <2>1. \A d \in Clients : client'[d].id = j /\ client'[d].step # "idle" => d = c
      BY <1>3 DEF Saving
    <2> QED
      BY <1>3, <1>4, <2>1 DEF Neat
  <1>5. CASE SaveGet(c)
    <2>1. job' = job /\ index' = index
      BY <1>5 DEF SaveGet
    <2>2. CASE job[j] # None /\ job[j].state # client[c].rec.state
      <3>1. client'[c].step = "srem" /\ client'[c].old = job[j].state
        BY <1>1, <1>5, <2>2 DEF SaveGet, ClientType
      <3> QED
        BY <1>4, <2>1, <2>2, <3>1 DEF Neat
    <2>3. CASE ~(job[j] # None /\ job[j].state # client[c].rec.state)
      <3>1. client'[c].step = "set" /\ client'[c].rec = client[c].rec
        BY <1>1, <1>5, <2>3 DEF SaveGet, ClientType
      <3> QED
        BY <1>4, <2>1, <2>3, <3>1 DEF Neat
    <2> QED
      BY <2>2, <2>3
  <1>6. CASE SaveSrem(c)
    <2>1. client'[c].step = "set" /\ job' = job
      BY <1>1, <1>6 DEF SaveSrem, ClientType
    <2>2. job[j] # None /\ client[c].old = job[j].state /\ client[c].old \in JobStates
      BY <1>6 DEF SaveSrem, Neat, StoreTypeOK
    <2>3. \A s \in JobStates : j \notin index'[s]
      BY <1>1, <1>6, <2>2 DEF SaveSrem, Neat
    <2> QED
      BY <1>4, <2>1, <2>3
  <1>7. CASE SaveSet(c)
    <2>1. /\ client'[c].step = "sadd" /\ client'[c].rec = client[c].rec
          /\ job'[j] = client[c].rec /\ index' = index
      BY <1>1, <1>7 DEF SaveSet, ClientType
    <2>2. \A s \in JobStates : j \in index[s] => s = client[c].rec.state
      BY <1>7 DEF SaveSet, Neat
    <2>3. client[c].rec # None
      BY <1>1, StoreAssumption
    <2> QED
      BY <1>4, <2>1, <2>2, <2>3
  <1>8. CASE SaveSadd(c, Saved(c)) \/ SaveSadd(c, EmptyHanded)
    <2>1. client'[c].step = "idle" /\ job' = job
      BY <1>1, <1>8 DEF SaveSadd, Saved, EmptyHanded, ClientType
    <2>2. job[j] = client[c].rec /\ job[j] # None
      BY <1>1, <1>8, StoreAssumption DEF SaveSadd, Neat
    <2>3. \A s \in JobStates : j \in index'[s] => j \in index[s] \/ s = client[c].rec.state
      BY <1>1, <1>8 DEF SaveSadd
    <2> QED
      BY <1>4, <2>1, <2>2, <2>3 DEF Neat
  <1> QED
    BY <1>5, <1>6, <1>7, <1>8

LEMMA NeatStays ==
  ASSUME StoreTypeOK, StoreStep, NEW j \in Jobs, j \notin disturbed', Neat(j)
  PROVE  Neat(j)'
  <1>1. /\ \A c, d \in Clients : Saving(c, j)' /\ Saving(d, j)' => c = d
        /\ ~(job[j] # None /\ job'[j] = None)
    BY DEF StoreStep
  <1>2. /\ client \in [Clients -> ClientType] /\ job \in [Jobs -> Records \cup {None}]
        /\ index \in [JobStates -> SUBSET Jobs]
    BY DEF StoreTypeOK
  <1>3. ASSUME NEW c \in Clients, NEW k \in Jobs, NEW r \in Records, SaveCall(c, k, r)
        PROVE  Neat(j)'
    <2>1. /\ job' = job /\ index' = index /\ \A d \in Clients \ {c} : client'[d] = client[d]
          /\ client'[c] = HandOver(k, r)
      BY <1>2, <1>3 DEF SaveCall
    <2>2. client'[c].step = "get"
      BY <2>1 DEF HandOver
    <2>3. ASSUME NEW d \in Clients, client'[d].id = j,
                 client'[d].step \in {"srem", "set", "sadd"}
          PROVE  d # c /\ client'[d] = client[d]
      BY <2>1, <2>2, <2>3
    <2> QED
      BY <1>1, <2>1, <2>3 DEF Neat
  <1>4. ASSUME NEW c \in Clients,
               SaveGet(c) \/ SaveSrem(c) \/ SaveSet(c)
                 \/ SaveSadd(c, Saved(c)) \/ SaveSadd(c, EmptyHanded)
        PROVE  Neat(j)'
    <2>1. CASE client[c].id = j
      BY <1>4, <2>1, NeatStep
    <2>2. CASE client[c].id # j
      <3>1. /\ client[c].id \in Jobs /\ client[c].rec \in Records
            /\ client[c].rec.state \in JobStates /\ client[c] \in ClientType
        BY <1>2, <1>4, StoreAssumption DEF StoreTypeOK, SaveGet, SaveSrem, SaveSet, SaveSadd
      <3>2. /\ job'[j] = job[j] /\ \A d \in Clients \ {c} : client'[d] = client[d]
            /\ \A s \in JobStates : j \in index'[s] <=> j \in index[s]
        BY <1>2, <1>4, <2>2, <3>1 DEF SaveGet, SaveSrem, SaveSet, SaveSadd
      <3>3. ~Saving(c, j)'
        <4>1. client'[c].id = client[c].id \/ client'[c].step = "idle"
          BY <1>2, <1>4, <3>1 DEF SaveGet, SaveSrem, SaveSet, SaveSadd, Saved, EmptyHanded,
                                  ClientType
        <4> QED
          BY <2>2, <4>1 DEF Saving
      <3> QED
        BY <3>2, <3>3, NeatElsewhere
    <2> QED
      BY <2>1, <2>2
  <1>5. ASSUME NEW k \in Jobs, Expire(k) PROVE Neat(j)'
    <2>1. k # j
      BY <1>1, <1>2, <1>5 DEF Expire
    <2>2. job'[j] = job[j] /\ UNCHANGED <<index, client>>
      BY <1>2, <1>5, <2>1 DEF Expire
    <2> QED
      BY <2>2 DEF Neat, Saving
  <1>6. StoreNext
    BY DEF StoreStep
  <1> QED
    BY <1>3, <1>4, <1>5, <1>6 DEF StoreNext

(* What the request has of a quiet job follows from its state alone: the   *)
(* job was in the index of the state when that was read.                   *)
Rank == [PENDING |-> 1, CLAIMED |-> 2, PROCESSING |-> 3, COMPLETED |-> 4, FAILED |-> 5]

Listed(j) ==
  call.at # "idle" /\ job[j] # None =>
    /\ call.next > Rank[job[j].state] => call.jobs[j] + Waiting(j) >= 1
    /\ j \notin disturbed =>
         call.jobs[j] + Waiting(j) = IF call.next > Rank[job[j].state] THEN 1 ELSE 0

LEMMA RankOfState ==
  /\ \A s \in JobStates : Rank[s] \in 1..5 /\ JobStateOrder[Rank[s]] = s
  /\ \A n \in 1..5 : Rank[JobStateOrder[n]] = n
  BY DEF Rank, JobStates, JobStateOrder

\* The part of the request that concerns job j after a step of it.
LEMMA OnwardFields ==
  ASSUME NEW jobs, NEW todo, NEW next, call' = Onward(jobs, todo, next)
  PROVE  call'.jobs = jobs /\ call'.todo = todo /\ call'.next = next
  BY DEF Onward

LEMMA ListedOnIndex ==
  ASSUME StoreTypeOK, IndexCovers, QueryTypeOK, CallOK, ReadIndex,
         NEW j \in quiet, ~BeingSaved(j), Listed(j), j \notin disturbed => Neat(j)
  PROVE  Listed(j)'
  <1>1. /\ j \in Jobs /\ call.at = "index" /\ call.todo = {} /\ call.next \in 1..5
        /\ call.jobs[j] \in Nat
    BY CallFields, OrderOfStates DEF ReadIndex, QueryTypeOK, CallOK
  <1>2. /\ call'.jobs = call.jobs /\ call'.next = call.next + 1
        /\ call'.todo = index[JobStateOrder[call.next]]
        /\ job' = job /\ disturbed' = disturbed
    BY OnwardFields DEF ReadIndex, storeVars
  <1> SUFFICES ASSUME job[j] # None PROVE Listed(j)'
    BY <1>2 DEF Listed
  <1>3. PICK s \in JobStates : s = job[j].state
    BY <1>1, StoreAssumption DEF StoreTypeOK
  <1>4. Rank[s] \in 1..5 /\ JobStateOrder[Rank[s]] = s /\ JobStateOrder[call.next] \in JobStates
    BY <1>1, <1>3, RankOfState, OrderOfStates
  <1>5. j \in index[s]
    BY <1>1, <1>3 DEF IndexCovers, WillIndex, BeingSaved, Saving
  <1>6. j \notin disturbed => \A t \in JobStates : j \in index[t] => t = s
    BY <1>3 DEF Neat
  <1>7. /\ Waiting(j) = 0
        /\ call.next > Rank[s] => call.jobs[j] >= 1
        /\ j \notin disturbed => call.jobs[j] = IF call.next > Rank[s] THEN 1 ELSE 0
    BY <1>1, <1>3 DEF Waiting, Listed
  <1>8. CASE call.next = Rank[s]
    <2>1. Waiting(j)' = 1
      BY <1>2, <1>4, <1>5, <1>8 DEF Waiting
    <2> QED
      BY <1>1, <1>2, <1>3, <1>4, <1>7, <1>8, <2>1 DEF Listed
  <1>9. CASE call.next # Rank[s]
    <2>1. JobStateOrder[call.next] # s
      BY <1>1, <1>4, <1>9, RankOfState
    <2>2. Waiting(j)' \in {0, 1} /\ (j \notin disturbed => Waiting(j)' = 0)
      BY <1>2, <1>4, <1>6, <2>1 DEF Waiting
    <2> QED
      BY <1>1, <1>2, <1>3, <1>4, <1>7, <1>9, <2>2 DEF Listed
  <1> QED
    BY <1>8, <1>9

LEMMA ListedOnRead ==
  ASSUME QueryTypeOK, NEW k \in Jobs, ReadJob(k), NEW j \in quiet, Listed(j)
  PROVE  Listed(j)'
  <1>1. /\ j \in Jobs /\ call.at = "get" /\ k \in call.todo /\ call.jobs \in [Jobs -> 0..5]
    BY CallFields DEF ReadJob, QueryTypeOK
  <1>2. /\ call'.jobs = [call.jobs EXCEPT ![k] = IF job[k] # None THEN @ + 1 ELSE @]
        /\ call'.next = call.next /\ call'.todo = call.todo \ {k}
        /\ job' = job /\ disturbed' = disturbed
    BY OnwardFields DEF ReadJob, storeVars
  <1> SUFFICES ASSUME job[j] # None PROVE Listed(j)'
    BY <1>2 DEF Listed
  <1>3. call'.jobs[j] + Waiting(j)' = call.jobs[j] + Waiting(j)
    BY <1>1, <1>2 DEF Waiting
  <1> QED
    BY <1>1, <1>2, <1>3 DEF Listed

QuietInv ==
  /\ \A j \in Jobs \ disturbed : Neat(j)
  /\ \A j \in quiet : ~BeingSaved(j) /\ Listed(j)

LEMMA QuietStep ==
  ASSUME StoreTypeOK, IndexCovers, QueryTypeOK, CallOK, QuietInv, [Next]_vars
  PROVE  QuietInv'
  <1>1. quiet \in SUBSET Jobs /\ disturbed \in SUBSET Jobs
    BY DEF QueryTypeOK
  <1>2. ASSUME UNCHANGED <<storeVars, disturbed>>
        PROVE  /\ \A j \in Jobs \ disturbed' : Neat(j)'
               /\ \A j \in Jobs : ~BeingSaved(j) => ~BeingSaved(j)'
    BY <1>2 DEF QuietInv, Neat, Saving, BeingSaved, storeVars
  <1>3. CASE UNCHANGED vars
    <2>1. \A j \in quiet' : ~BeingSaved(j)' /\ Listed(j)'
      BY <1>1, <1>2, <1>3 DEF vars, storeVars, QuietInv, Listed, Waiting
    <2> QED
      BY <1>2, <1>3, <2>1 DEF vars, QuietInv
  <1>4. CASE ListJobs
    <2>1. call = NoCall /\ call' = [call EXCEPT !.at = "index"]
      BY <1>4 DEF ListJobs, CallOK
    <2>2. call' = [at |-> "index", next |-> 1, todo |-> {}, jobs |-> [j \in Jobs |-> 0]]
      BY <2>1 DEF NoCall
    <2>3. ASSUME NEW j \in quiet' PROVE ~BeingSaved(j)' /\ Listed(j)'
      <3>1. j \in Jobs /\ ~BeingSaved(j)' /\ job' = job
        BY <1>2, <1>4, <2>3 DEF ListJobs, storeVars
      <3>2. job[j] # None => Rank[job[j].state] \in 1..5
        BY <3>1, RankOfState, StoreAssumption DEF StoreTypeOK
      <3>3. call'.next = 1 /\ call'.jobs[j] = 0 /\ call'.todo = {}
        BY <2>2, <3>1
      <3> QED
        BY <3>1, <3>2, <3>3 DEF Listed, Waiting
    <2> QED
      BY <1>2, <1>4, <2>3 DEF ListJobs, QuietInv
  <1>5. CASE ReadIndex
    <2>1. \A j \in quiet' : ~BeingSaved(j)' /\ Listed(j)'
      BY <1>1, <1>2, <1>5, ListedOnIndex DEF ReadIndex, QuietInv
    <2> QED
      BY <1>2, <1>5, <2>1 DEF ReadIndex, QuietInv
  <1>6. ASSUME NEW k \in Jobs, ReadJob(k) PROVE QuietInv'
    <2>1. \A j \in quiet' : ~BeingSaved(j)' /\ Listed(j)'
      BY <1>1, <1>2, <1>6, ListedOnRead DEF ReadJob, QuietInv
    <2> QED
      BY <1>2, <1>6, <2>1 DEF ReadJob, QuietInv
  <1>7. CASE Respond
    BY <1>2, <1>7 DEF Respond, QuietInv
  <1>8. CASE StoreStep
    <2>1. disturbed \subseteq disturbed' /\ call' = call
      BY <1>8 DEF StoreStep
    <2>2. \A j \in Jobs \ disturbed' : Neat(j)'
      BY <1>8, <2>1, NeatStays DEF QuietInv
    <2>3. ASSUME NEW j \in quiet' PROVE ~BeingSaved(j)' /\ Listed(j)'
      <3>1. j \in quiet /\ job'[j] = job[j] /\ ~BeingSaved(j)'
        BY <1>8, <2>3 DEF StoreStep
      <3> QED
        BY <2>1, <3>1 DEF QuietInv, Listed, Waiting
    <2> QED
      BY <2>2, <2>3 DEF QuietInv
  <1> QED
    BY <1>3, <1>4, <1>5, <1>6, <1>7, <1>8 DEF Next

\* The answer of list_jobs has every stored job that nobody saved meanwhile, and
\* has it once when its saves never overlapped and its record never expired.
THEOREM QueriesListQuietJobs == Spec => []QuietJobsListed
  <1>1. Init => QuietInv
    BY DEF Init, StoreInit, EmptyHanded, QuietInv, Neat, Saving
  <1>2. StoreTypeOK /\ IndexCovers /\ QueryTypeOK /\ CallOK /\ QuietInv /\ [Next]_vars => QuietInv'
    BY QuietStep
  <1>3. StoreTypeOK /\ QueryTypeOK /\ CallOK /\ QuietInv => QuietJobsListed
    <2> SUFFICES ASSUME StoreTypeOK, QueryTypeOK, CallOK, QuietInv, call.at = "done",
                        NEW j \in quiet, job[j] # None
                 PROVE  call.jobs[j] >= 1 /\ (j \notin disturbed => call.jobs[j] = 1)
      BY DEF QuietJobsListed
    <2>1. j \in Jobs /\ call.jobs[j] \in Nat /\ call.next = 6 /\ Waiting(j) = 0
      BY CallFields DEF QueryTypeOK, CallOK, Waiting
    <2>2. Rank[job[j].state] \in 1..5
      BY <2>1, RankOfState, StoreAssumption DEF StoreTypeOK
    <2> QED
      BY <2>1, <2>2 DEF QuietInv, Listed
  <1> QED
    BY <1>1, <1>2, <1>3, QueriesOK, PTL DEF Spec
=============================================================================

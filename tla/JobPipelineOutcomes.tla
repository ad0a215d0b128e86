------------------------- MODULE JobPipelineOutcomes -------------------------
(***************************************************************************)
(* What becomes of a job, whatever overlaps, crashes or lapses: no record  *)
(* goes beyond max_retries, no job is completed without its summary, none  *)
(* is queued without its record, and no path is marked without a job.      *)
(***************************************************************************)
EXTENDS JobPipelineProofs

\* A thread changes a record only with the SET of a save, to the record it
\* holds, whose state is the one of its save point.
LEMMA RecordChanges ==
  ASSUME PipelineTypeOK, NEW c \in Threads, ThreadStep(c), NEW j \in Jobs, job'[j] # job[j]
  PROVE  /\ pc[c] \in SavePoints /\ client[c].id = j
         /\ job'[j] = client[c].rec /\ client[c].rec.state = SavedState[pc[c]]
  <1>1. SaveCommand(c) \/ SaveReturns(c)
    BY OutsideSave
  <1>2. SaveSet(c) /\ pc[c] \in SavePoints
    BY <1>1 DEF SaveCommand, SaveReturns, SaveGet, SaveSrem, SaveSadd
  <1>3. Hands /\ StoredTypeOK
    BY HandsTyped
  <1>4. job' = [job EXCEPT ![client[c].id] = client[c].rec]
    BY <1>2 DEF SaveSet
  <1>5. client[c].rec.state = SavedState[pc[c]]
    BY <1>2, <1>3 DEF Hands, HandTypeOK
  <1> QED
    BY <1>2, <1>3, <1>4, <1>5 DEF StoredTypeOK

-----------------------------------------------------------------------------
(* CompletedHasSummary: a worker that is to save COMPLETED has written the *)
(* summary of the job in its hands, and summaries stay.                    *)

HasSummary(c) == pc[c] = "complete" => client[c].id \in summary

CompletionBacked == CompletedHasSummary /\ \A c \in Threads : HasSummary(c)

LEMMA SummaryGrows ==
  ASSUME NEW c \in Threads, ThreadStep(c)
  PROVE  summary \subseteq summary'
  <1>1. CASE RedisStep(c)
    BY <1>1 DEF RedisStep, SaveCommand, SaveReturns, PushPending, PushDeadLetter, shared
  <1>2. CASE ScanStep(c)
    BY <1>2 DEF ScanStep, EnqueueJob, MarkProcessed
  <1>3. CASE WorkerStep(c)
    BY <1>3 DEF WorkerStep, Dequeue, DropPopped, ClaimJob, BeatClaim, BeatProcess, WriteSummary,
                RetryFailed, GiveUpFailed, WorkerDies, shared
  <1>4. CASE RecoveryStep(c)
    BY <1>4 DEF RecoveryStep, RecoveryStarts, RecoveryReads, RecoveryMovesOn, RecoverySkips,
                RecoveryRequeues, RecoveryGivesUp, RecoveryAborts, shared
  <1> QED
    BY <1>1, <1>2, <1>3, <1>4 DEF ThreadStep

\* Only WriteSummary leads to the save of COMPLETED, and only after the summary.
LEMMA SummaryFirst ==
  ASSUME PipelineTypeOK, NEW c \in Threads, ThreadStep(c), HasSummary(c)
  PROVE  HasSummary(c)'
  <1>1. client \in [Threads -> ClientType] /\ pc \in [Threads -> Points]
    BY HandsTyped DEF Hands
  <1>2. summary \subseteq summary'
    BY SummaryGrows
  <1>3. ASSUME NEW p, Goto(c, p), p # "complete" PROVE HasSummary(c)'
    BY <1>1, <1>3 DEF Goto, HasSummary
  <1>4. CASE SaveCommand(c)
    <2>1. pc' = pc
      BY <1>4 DEF SaveCommand
    <2>2. client[c] \in ClientType
      BY <1>1
    <2>3. client'[c].id = client[c].id
      BY <1>1, <1>4, <2>2 DEF SaveCommand, SaveGet, SaveSrem, SaveSet, ClientType
    <2> QED
      BY <1>2, <2>1, <2>3 DEF HasSummary
  <1>5. CASE SaveReturns(c)
    <2>1. Goto(c, AfterSave[pc[c]]) /\ pc[c] \in SavePoints
      BY <1>5 DEF SaveReturns
    <2>2. AfterSave[pc[c]] # "complete"
      BY <2>1 DEF AfterSave, SavePoints
    <2> QED
      BY <1>3, <2>1, <2>2
  <1>6. CASE PushPending(c) \/ PushDeadLetter(c)
    <2>1. AfterPush(c) # "complete"
      BY WalkingPoints DEF AfterPush
    <2> QED
      BY <1>3, <1>6, <2>1 DEF PushPending, PushDeadLetter, LetGo
  <1>7. CASE ScanStep(c)
    BY <1>3, <1>7 DEF ScanStep, EnqueueJob, MarkProcessed, CallSave
  <1>8. CASE WriteSummary(c)
    <2>1. client'[c] = HandOver(client[c].id, Completed(client[c].rec))
      BY <1>1, <1>8 DEF WriteSummary, CallSave
    <2> QED
      BY <1>8, <2>1 DEF WriteSummary, HandOver, HasSummary
  <1>9. CASE WorkerStep(c) /\ ~WriteSummary(c)
    BY <1>3, <1>9 DEF WorkerStep, Dequeue, DropPopped, ClaimJob, BeatClaim, BeatProcess,
                      RetryFailed, GiveUpFailed, WorkerDies, CallSave, LetGo
  <1>10. CASE RecoveryStep(c)
    <2>1. CASE RecoveryReads(c)
      <3>1. \/ pc' = pc /\ client' = client
            \/ \E st, f : Goto(c, Walking(st, f))
        BY <2>1 DEF RecoveryReads
      <3> QED
        BY <1>2, <1>3, <3>1, WalkingPoints DEF HasSummary
    <2>2. CASE RecoveryStarts(c) \/ RecoveryMovesOn(c)
      BY <1>3, <2>2, WalkingPoints DEF RecoveryStarts, RecoveryMovesOn, ListIds
    <2>3. ASSUME NEW s \in pass[c].found, RecoverySkips(c, s) \/ RecoveryAborts(c, s)
          PROVE  HasSummary(c)'
      BY <1>3, <2>3, WalkingPoints DEF RecoverySkips, RecoveryAborts
    <2>4. ASSUME NEW s \in pass[c].found, RecoveryRequeues(c, s) \/ RecoveryGivesUp(c, s)
          PROVE  HasSummary(c)'
      BY <1>3, <2>4 DEF RecoveryRequeues, RecoveryGivesUp, CallSave
    <2> QED
      BY <1>10, <2>1, <2>2, <2>3, <2>4 DEF RecoveryStep
  <1> QED
    BY <1>4, <1>5, <1>6, <1>7, <1>8, <1>9, <1>10 DEF ThreadStep, RedisStep

\* The API can show a summary for every completed job: even a worker whose job
\* was taken from it, and completed twice, has written the summary before.
THEOREM PipelineSummaries == Spec => []CompletedHasSummary
  <1>1. Init => CompletionBacked
    BY DEF Init, StoreInit, CompletionBacked, CompletedHasSummary, HasSummary
  <1>2. PipelineTypeOK /\ CompletionBacked /\ [Next]_vars => CompletionBacked'
    <2> SUFFICES ASSUME PipelineTypeOK, CompletionBacked, [Next]_vars
                 PROVE  CompletionBacked'
      OBVIOUS
    <2>1. CASE UNCHANGED <<job, client, pc, summary>>
      BY <2>1 DEF CompletionBacked, CompletedHasSummary, HasSummary
    <2>2. ASSUME NEW c \in Threads, ThreadStep(c) PROVE CompletionBacked'
      <3>1. Others(c) /\ summary \subseteq summary' /\ HasSummary(c)'
        BY <2>2, OthersStay, SummaryGrows, SummaryFirst DEF CompletionBacked
      <3>2. \A d \in Threads : HasSummary(d)'
        BY <3>1 DEF CompletionBacked, HasSummary, Others
      <3>3. ASSUME NEW j \in Jobs, job'[j] # None, job'[j].state = "COMPLETED"
            PROVE  j \in summary'
        <4>1. CASE job'[j] = job[j]
          BY <3>1, <3>3, <4>1 DEF CompletionBacked, CompletedHasSummary
        <4>2. CASE job'[j] # job[j]
          <5>1. /\ pc[c] \in SavePoints /\ client[c].id = j
                /\ SavedState[pc[c]] = "COMPLETED"
            BY <2>2, <3>3, <4>2, RecordChanges
          <5>2. pc[c] = "complete"
            BY <5>1 DEF SavePoints, SavedState
          <5> QED
            BY <3>1, <5>1, <5>2 DEF CompletionBacked, HasSummary
        <4> QED
          BY <4>1, <4>2
      <3> QED
        BY <3>2, <3>3 DEF CompletionBacked, CompletedHasSummary
    <2>3. ASSUME NEW k \in Jobs, HeartbeatLeft(k) \/ HeartbeatLapses(k) \/ JobExpires(k)
          PROVE  CompletionBacked'
      <3>1. CASE JobExpires(k)
        <4>1. /\ \A j \in Jobs : job'[j] \in {job[j], None}
              /\ UNCHANGED <<client, pc, summary>>
          BY <3>1, HandsTyped DEF JobExpires, Expire, StoredTypeOK, shared
        <4> QED
          BY <4>1 DEF CompletionBacked, CompletedHasSummary, HasSummary
      <3>2. CASE HeartbeatLeft(k) \/ HeartbeatLapses(k)
        BY <2>1, <3>2 DEF HeartbeatLeft, HeartbeatLapses
      <3> QED
        BY <2>3, <3>1, <3>2
    <2>4. ASSUME NEW P \in Processes, Crash(P) PROVE CompletionBacked'
      BY <2>1, <2>4 DEF Crash, shared
    <2>5. UNCHANGED vars => CompletionBacked'
      BY <2>1 DEF vars, shared
    <2> QED
      BY <2>2, <2>3, <2>4, <2>5, NextCases
  <1>3. CompletionBacked => CompletedHasSummary
    BY DEF CompletionBacked
  <1> QED
    BY <1>1, <1>2, <1>3, PipelineTyped, PTL DEF Spec


-----------------------------------------------------------------------------
(* AttemptsBounded: every copy of a record, stored, in a hand or in a list *)
(* of the recovery, was made from a bounded one by a retry that looked at  *)
(* the attempt of that very copy.                                          *)

Bounded(r) == r # None => r.attempt <= MaxRetries

LEMMA BoundedParts ==
  AttemptsBounded
    <=> /\ \A j \in Jobs : Bounded(job[j])
        /\ \A c \in Threads : Bounded(client[c].rec)
        /\ \A r \in Recoverers : \A s \in pass[r].found : s.rec.attempt <= MaxRetries
  BY DEF AttemptsBounded, Bounded

\* The records the steps make, from bounded ones.
LEMMA BoundedRecords ==
  ASSUME NEW r \in TranscodeJob, NEW w
  PROVE  /\ Claimed(r, w).attempt = r.attempt /\ Processing(r).attempt = r.attempt
         /\ Completed(r).attempt = r.attempt /\ GivenUp(r).attempt = r.attempt
         /\ Retried(r).attempt = r.attempt + 1
  BY DEF TranscodeJob, Claimed, Processing, Completed, GivenUp, Retried

LEMMA BoundedHands ==
  ASSUME PipelineTypeOK, AttemptsBounded, NEW c \in Threads, ThreadStep(c)
  PROVE  Bounded(client'[c].rec)
  <1>1. /\ client \in [Threads -> ClientType] /\ client[c] \in ClientType
        /\ Hands /\ StoredTypeOK /\ SharedTypeOK
        /\ Bounded(client[c].rec) /\ \A j \in Jobs : Bounded(job[j])
    BY HandsTyped, BoundedParts DEF Hands
  <1>2. MaxRetries \in Nat \ {0}
    BY PipelineAssumption
  <1>3. ASSUME client' = client PROVE Bounded(client'[c].rec)
    BY <1>1, <1>3
  <1>4. ASSUME NEW p, NEW j, NEW r, CallSave(c, p, j, r), r.attempt <= MaxRetries
        PROVE  Bounded(client'[c].rec)
    BY <1>1, <1>4 DEF CallSave, HandOver, Bounded
  <1>5. Bounded(EmptyHanded.rec)
    BY DEF EmptyHanded, Bounded
  <1>6. ASSUME NEW p, LetGo(c, p) PROVE Bounded(client'[c].rec)
    BY <1>1, <1>5, <1>6 DEF LetGo
  <1>7. pc[c] \in HasRecord => client[c].rec \in TranscodeJob /\ client[c].rec.attempt <= MaxRetries
    <2>1. None \notin TranscodeJob
      BY PipelineAssumption
    <2> QED
      BY <1>1, <2>1 DEF Hands, HandTypeOK, Bounded
  <1>8. CASE RedisStep(c)
    <2>1. CASE SaveCommand(c)
      <3>1. client'[c].rec = client[c].rec
        BY <1>1, <2>1 DEF SaveCommand, SaveGet, SaveSrem, SaveSet, ClientType
      <3> QED
        BY <1>1, <3>1
    <2>2. CASE SaveReturns(c)
      <3>1. client'[c] \in {EmptyHanded, Saved(c)}
        BY <1>1, <2>2 DEF SaveReturns, SaveSadd
      <3>2. Saved(c).rec = client[c].rec
        BY <1>1 DEF Saved, ClientType
      <3> QED
        BY <1>1, <1>5, <3>1, <3>2
    <2>3. CASE PushPending(c) \/ PushDeadLetter(c)
      BY <1>6, <2>3 DEF PushPending, PushDeadLetter
    <2> QED
      BY <1>8, <2>1, <2>2, <2>3 DEF RedisStep
  <1>9. CASE ScanStep(c)
    <2>1. CASE MarkProcessed(c)
      BY <1>3, <2>1 DEF MarkProcessed
    <2>2. ASSUME NEW i \in Inputs, EnqueueJob(c, i) PROVE Bounded(client'[c].rec)
      <3>1. NewJob(i).attempt <= MaxRetries
        BY <1>2 DEF NewJob
      <3> QED
        BY <1>4, <2>2, <3>1 DEF EnqueueJob
    <2> QED
      BY <1>9, <2>1, <2>2 DEF ScanStep
  <1>10. CASE WorkerStep(c)
    <2>1. CASE Dequeue(c)
      BY <1>1, <2>1 DEF Dequeue, ClientType, Bounded
    <2>2. CASE DropPopped(c) \/ WorkerDies(c)
      BY <1>6, <2>2 DEF DropPopped, WorkerDies
    <2>3. CASE ClaimJob(c)
      <3>1. job[client[c].id] \in TranscodeJob /\ job[client[c].id].attempt <= MaxRetries
        <4>1. client[c].id \in Jobs
          BY <1>1, <2>3, PointKinds DEF ClaimJob, At, Hands, HandTypeOK, HasId, WorkerPoints
        <4> QED
          BY <1>1, <2>3, <4>1 DEF ClaimJob, Pending, StoredTypeOK, Bounded
      <3> QED
        BY <1>4, <2>3, <3>1, BoundedRecords DEF ClaimJob
    <2>4. CASE BeatClaim(c) \/ WriteSummary(c)
      <3>1. pc[c] \in HasRecord
        BY <2>4, PointKinds DEF BeatClaim, WriteSummary, At
      <3> QED
        BY <1>4, <1>7, <2>4, <3>1, BoundedRecords DEF BeatClaim, WriteSummary
    <2>5. CASE BeatProcess(c)
      BY <1>3, <2>5 DEF BeatProcess
    <2>6. CASE RetryFailed(c) \/ GiveUpFailed(c)
      <3>1. pc[c] \in HasRecord /\ pc[c] = "transcode"
        BY <2>6, PointKinds DEF RetryFailed, GiveUpFailed, At
      <3>2. Current(c) \in TranscodeJob /\ Current(c).attempt <= MaxRetries
        <4>1. client[c].id \in Jobs
          BY <1>1, <3>1 DEF Hands, HandTypeOK, HasRecord
        <4> QED
          BY <1>1, <1>7, <3>1, <4>1 DEF Current, StoredTypeOK, Bounded
      <3>3. CASE RetryFailed(c)
        <4>1. Retried(Current(c)).attempt <= MaxRetries
          BY <1>2, <3>2, <3>3, BoundedRecords DEF RetryFailed, TranscodeJob
        <4> QED
          BY <1>4, <3>3, <4>1 DEF RetryFailed
      <3>4. CASE GiveUpFailed(c)
        BY <1>4, <3>2, <3>4, BoundedRecords DEF GiveUpFailed
      <3> QED
        BY <2>6, <3>3, <3>4
    <2> QED
      BY <1>10, <2>1, <2>2, <2>3, <2>4, <2>5, <2>6 DEF WorkerStep
  <1>11. CASE c \in Recoverers /\ RecoveryStep(c)
    <2>1. CASE RecoveryStarts(c) \/ RecoveryMovesOn(c) \/ RecoveryReads(c)
      BY <1>3, <2>1 DEF RecoveryStarts, RecoveryMovesOn, RecoveryReads
    <2>2. ASSUME NEW s \in pass[c].found, RecoverySkips(c, s) \/ RecoveryAborts(c, s)
          PROVE  Bounded(client'[c].rec)
      BY <1>3, <2>2 DEF RecoverySkips, RecoveryAborts
    <2>3. ASSUME NEW s \in pass[c].found, RecoveryRequeues(c, s) \/ RecoveryGivesUp(c, s)
          PROVE  Bounded(client'[c].rec)
      <3>1. s.rec \in TranscodeJob /\ s.rec.attempt <= MaxRetries
        BY <1>11, <2>3, TypeParts DEF PassTypeOK, AttemptsBounded
      <3>2. CASE RecoveryRequeues(c, s)
        <4>1. Retried(s.rec).attempt <= MaxRetries
          BY <1>2, <3>1, <3>2, BoundedRecords DEF RecoveryRequeues, TranscodeJob
        <4> QED
          BY <1>4, <3>2, <4>1 DEF RecoveryRequeues
      <3>3. CASE RecoveryGivesUp(c, s)
        BY <1>4, <3>1, <3>3, BoundedRecords DEF RecoveryGivesUp
      <3> QED
        BY <2>3, <3>2, <3>3
    <2> QED
      BY <1>11, <2>1, <2>2, <2>3 DEF RecoveryStep
  <1> QED
    BY <1>8, <1>9, <1>10, <1>11 DEF ThreadStep


\* What a recovery thread has listed it has read from the records.
LEMMA FoundGrows ==
  ASSUME PipelineTypeOK, NEW c \in Threads, ThreadStep(c),
         NEW r \in Recoverers, NEW s \in pass'[r].found
  PROVE  s \in pass[r].found \/ (s.id \in Jobs /\ job[s.id] # None /\ s.rec = job[s.id])
  <1>1. pass \in [Recoverers -> [state : HeldStates, ids : SUBSET Jobs,
                                 found : SUBSET [id : Jobs, rec : TranscodeJob]]]
    BY TypeParts DEF PassTypeOK
  <1>2. CASE pass'[r].found \subseteq pass[r].found
    BY <1>2
  <1>3. CASE pass' = pass
    BY <1>2, <1>3
  <1>4. CASE RedisStep(c) \/ ScanStep(c) \/ WorkerStep(c)
    <2>1. pass' = pass
      BY <1>4 DEF RedisStep, SaveCommand, SaveReturns, PushPending, PushDeadLetter,
                  ScanStep, EnqueueJob, MarkProcessed, WorkerStep, Dequeue, DropPopped, ClaimJob,
                  BeatClaim, BeatProcess, WriteSummary, RetryFailed, GiveUpFailed, WorkerDies
    <2> QED
      BY <1>3, <2>1
  <1>5. CASE c \in Recoverers /\ RecoveryStep(c)
    <2>1. CASE RecoveryStarts(c) \/ RecoveryMovesOn(c)
      <3>1. PICK st : pass' = [pass EXCEPT ![c] = [state |-> st, ids |-> index[st], found |-> {}]]
        BY <2>1 DEF RecoveryStarts, RecoveryMovesOn, ListIds
      <3>2. pass'[r].found \subseteq pass[r].found
        BY <1>1, <3>1
      <3> QED
        BY <1>2, <3>2
    <2>2. CASE RecoveryReads(c)
      <3>1. PICK j \in pass[c].ids :
              LET ids   == pass[c].ids \ {j}
                  read  == IF job[j] = None THEN {} ELSE {[id |-> j, rec |-> job[j]]}
                  found == pass[c].found \cup read
              IN  IF ids # {}
                  THEN /\ pass' = [pass EXCEPT ![c].ids = ids, ![c].found = found]
                       /\ UNCHANGED pc
                  ELSE /\ pass' = [pass EXCEPT ![c].ids = {}, ![c].found = NewestFirst(found)]
                       /\ Goto(c, Walking(pass[c].state, found))
        BY <2>2 DEF RecoveryReads
      <3> DEFINE read  == IF job[j] = None THEN {} ELSE {[id |-> j, rec |-> job[j]]}
                 found == pass[c].found \cup read
      <3>2. ASSUME r = c PROVE pass'[r].found \subseteq found
        <4>1. PICK ids, f : /\ pass' = [pass EXCEPT ![c].ids = ids, ![c].found = f]
                            /\ f \in {found, NewestFirst(found)}
          BY <3>1
        <4>2. f \subseteq found
          BY <4>1 DEF NewestFirst
        <4>3. pass'[c].found = f
          BY <1>1, <1>5, <4>1
        <4> QED
          BY <3>2, <4>2, <4>3
      <3>3. CASE r = c
        <4>1. CASE s \in pass[c].found
          BY <3>3, <4>1
        <4>2. CASE s \in read
          <5>1. j \in Jobs
            BY <1>1, <1>5
          <5>2. job[j] # None /\ s.rec = job[j] /\ s.id = j
            BY <4>2
          <5> QED
            BY <5>1, <5>2
        <4> QED
          BY <3>2, <3>3, <4>1, <4>2
      <3>4. CASE r # c
        <4>1. PICK ids, f : pass' = [pass EXCEPT ![c].ids = ids, ![c].found = f]
          BY <3>1
        <4>2. pass'[r] = pass[r]
          BY <1>1, <3>4, <4>1
        <4> QED
          BY <1>2, <4>2
      <3> QED
        BY <3>3, <3>4
    <2>3. ASSUME NEW t, Walked(c, t) PROVE pass'[r].found \subseteq pass[r].found
      BY <1>1, <2>3 DEF Walked, Rest
    <2>4. ASSUME NEW t, RecoveryAborts(c, t) PROVE pass'[r].found \subseteq pass[r].found
      BY <1>1, <2>4 DEF RecoveryAborts, NoPass
    <2> QED
      BY <1>2, <1>5, <2>1, <2>2, <2>3, <2>4
         DEF RecoveryStep, RecoverySkips, RecoveryRequeues, RecoveryGivesUp
  <1> QED
    BY <1>4, <1>5 DEF ThreadStep

\* Retries by workers and by the recovery, each on its own copy of a record, do
\* not add up to more than max_retries attempts.
THEOREM PipelineAttempts == Spec => []AttemptsBounded
  <1>1. Init => AttemptsBounded
    BY DEF Init, StoreInit, EmptyHanded, NoPass, AttemptsBounded
  <1>2. PipelineTypeOK /\ AttemptsBounded /\ [Next]_vars => AttemptsBounded'
    <2> SUFFICES ASSUME PipelineTypeOK, AttemptsBounded, [Next]_vars
                 PROVE  AttemptsBounded'
      OBVIOUS
    <2>1. CASE UNCHANGED <<job, client, pass>>
      BY <2>1 DEF AttemptsBounded
    <2>2. ASSUME NEW c \in Threads, ThreadStep(c) PROVE AttemptsBounded'
      <3>1. ASSUME NEW j \in Jobs PROVE Bounded(job'[j])
        BY <2>2, <3>1, RecordChanges, BoundedParts
      <3>2. ASSUME NEW d \in Threads PROVE Bounded(client'[d].rec)
        <4>1. CASE d = c
          BY <2>2, <4>1, BoundedHands
        <4>2. CASE d # c
          BY <2>2, <4>2, OthersStay, BoundedParts DEF Others
        <4> QED
          BY <4>1, <4>2
      <3>3. \A r \in Recoverers : \A s \in pass'[r].found : s.rec.attempt <= MaxRetries
        BY <2>2, FoundGrows DEF AttemptsBounded
      <3> QED
        BY <3>1, <3>2, <3>3 DEF AttemptsBounded, Bounded
    <2>3. ASSUME NEW k \in Jobs, HeartbeatLeft(k) \/ HeartbeatLapses(k) \/ JobExpires(k)
          PROVE  AttemptsBounded'
      <3>1. CASE JobExpires(k)
        <4>1. /\ \A j \in Jobs : job'[j] \in {job[j], None}
              /\ UNCHANGED <<client, pass>>
          BY <3>1, HandsTyped DEF JobExpires, Expire, StoredTypeOK
        <4> QED
          BY <4>1 DEF AttemptsBounded
      <3>2. CASE HeartbeatLeft(k) \/ HeartbeatLapses(k)
        BY <2>1, <3>2 DEF HeartbeatLeft, HeartbeatLapses
      <3> QED
        BY <2>3, <3>1, <3>2
    <2>4. ASSUME NEW P \in Processes, Crash(P) PROVE AttemptsBounded'
      BY <2>1, <2>4 DEF Crash
    <2>5. UNCHANGED vars => AttemptsBounded'
      BY <2>1 DEF vars
    <2> QED
      BY <2>2, <2>3, <2>4, <2>5, NextCases
  <1> QED
    BY <1>1, <1>2, PipelineTyped, PTL DEF Spec


-----------------------------------------------------------------------------
(* QueuedHasRecord: a thread pushes only after the SADD of its save, that  *)
(* is after the SET, and without an expiry no record ever goes away.       *)

\* Thread c has stored the job it is going to push.
HasStored(c) ==
  pc[c] \in {"mark", "push"} \/ (pc[c] \in SavePoints /\ client[c].step = "sadd")
    => job[client[c].id] # None

RecordsBacked ==
  faults.expiries = 0 =>
    /\ \A n \in DOMAIN queue : job[queue[n]] # None
    /\ \A c \in Threads : HasStored(c)

LEMMA RecordsStay ==
  ASSUME PipelineTypeOK, NEW c \in Threads, ThreadStep(c), NEW j \in Jobs, job[j] # None
  PROVE  job'[j] # None
  <1>1. CASE job'[j] = job[j]
    BY <1>1
  <1>2. CASE job'[j] # job[j]
    <2>1. /\ pc[c] \in SavePoints /\ job'[j] = client[c].rec
      BY <1>2, RecordChanges
    <2>2. client[c].rec \in TranscodeJob
      BY <2>1, HandsTyped, PointKinds DEF Hands, HandTypeOK, HasRecord, HasId
    <2> QED
      BY <2>1, <2>2, PipelineAssumption
  <1> QED
    BY <1>1, <1>2

\* A thread that enters none of the points before a push has nothing to show.
LEMMA StoredHand ==
  ASSUME PipelineTypeOK, NEW c \in Threads, ThreadStep(c), HasStored(c)
  PROVE  HasStored(c)'
  <1>1. /\ client \in [Threads -> ClientType] /\ pc \in [Threads -> Points]
        /\ Hands /\ StoredTypeOK
    BY HandsTyped DEF Hands
  <1>2. ASSUME NEW p, Goto(c, p), p \notin {"mark", "push"} \cup SavePoints
        PROVE  HasStored(c)'
    BY <1>1, <1>2 DEF Goto, HasStored
  <1>3. ASSUME NEW p, NEW j, NEW r, CallSave(c, p, j, r), p \in SavePoints
        PROVE  HasStored(c)'
    <2>1. client'[c] = HandOver(j, r) /\ pc'[c] = p
      BY <1>1, <1>3 DEF CallSave, Goto
    <2> QED
      BY <1>3, <2>1, PointKinds DEF HasStored, HandOver, SavePoints
  <1>4. \A st, f : Walking(st, f) \notin {"mark", "push"} \cup SavePoints
    BY WalkingPoints DEF SavePoints
  <1>5. CASE SaveCommand(c)
    <2>1. client[c] \in ClientType /\ pc' = pc /\ pc[c] \in SavePoints /\ client[c].id \in Jobs
      BY <1>1, <1>5, PointKinds DEF SaveCommand, Hands, HandTypeOK, HasId
    <2>2. CASE SaveGet(c) \/ SaveSrem(c)
      <3>1. client'[c].step # "sadd"
        BY <1>1, <2>1, <2>2 DEF SaveGet, SaveSrem, ClientType
      <3> QED
        BY <2>1, <3>1 DEF HasStored, SavePoints
    <2>3. CASE SaveSet(c)
      <3>1. client'[c].id = client[c].id
        BY <1>1, <2>1, <2>3 DEF SaveSet, ClientType
      <3>2. client[c].rec \in TranscodeJob
        BY <1>1, <2>1 DEF Hands, HandTypeOK, HasRecord, SavePoints, HasId
      <3>3. job'[client[c].id] = client[c].rec
        BY <1>1, <2>1, <2>3 DEF SaveSet, StoredTypeOK
      <3> QED
        BY <3>1, <3>2, <3>3, PipelineAssumption DEF HasStored
    <2> QED
      BY <1>5, <2>2, <2>3 DEF SaveCommand
  <1>6. CASE SaveReturns(c)
    <2>1. /\ client[c] \in ClientType /\ pc[c] \in SavePoints /\ client[c].step = "sadd"
          /\ pc'[c] = AfterSave[pc[c]] /\ job' = job
      BY <1>1, <1>6 DEF SaveReturns, SaveSadd, Goto
    <2>2. job[client[c].id] # None
      BY <2>1 DEF HasStored
    <2>3. pc[c] # "complete" => client'[c].id = client[c].id
      BY <1>1, <1>6, <2>1 DEF SaveReturns, SaveSadd, Saved, ClientType
    <2>4. AfterSave[pc[c]] \notin SavePoints
          /\ (pc[c] = "complete" => AfterSave[pc[c]] = "idle")
      BY <2>1 DEF SavePoints, AfterSave
    <2> QED
      BY <2>1, <2>2, <2>3, <2>4 DEF HasStored
  <1>7. CASE PushPending(c) \/ PushDeadLetter(c)
    <2>1. AfterPush(c) \notin {"mark", "push"} \cup SavePoints
      BY <1>4 DEF AfterPush, SavePoints
    <2> QED
      BY <1>2, <1>7, <2>1 DEF PushPending, PushDeadLetter, LetGo
  <1>8. CASE ScanStep(c)
    <2>1. CASE MarkProcessed(c)
      <3>1. pc[c] = "mark" /\ pc'[c] = "push" /\ client' = client /\ job' = job
        BY <1>1, <2>1 DEF MarkProcessed, At, Goto
      <3> QED
        BY <3>1 DEF HasStored
    <2> QED
      BY <1>3, <1>8, <2>1 DEF ScanStep, EnqueueJob, SavePoints
  <1>9. CASE WorkerStep(c)
    <2>1. CASE Dequeue(c) \/ DropPopped(c) \/ BeatProcess(c) \/ WorkerDies(c)
      BY <1>2, <2>1 DEF Dequeue, DropPopped, BeatProcess, WorkerDies, LetGo, SavePoints
    <2>2. CASE ClaimJob(c) \/ BeatClaim(c) \/ WriteSummary(c) \/ RetryFailed(c) \/ GiveUpFailed(c)
      BY <1>3, <2>2 DEF ClaimJob, BeatClaim, WriteSummary, RetryFailed, GiveUpFailed, SavePoints
    <2> QED
      BY <1>9, <2>1, <2>2 DEF WorkerStep
  <1>10. CASE RecoveryStep(c)
    <2>1. CASE RecoveryReads(c)
      <3>1. \/ pc' = pc /\ pc[c] = "list" /\ client' = client
            \/ \E st, f : Goto(c, Walking(st, f))
        BY <2>1 DEF RecoveryReads, At
      <3> QED
        BY <1>2, <1>4, <3>1 DEF HasStored, SavePoints
    <2>2. CASE RecoveryStarts(c) \/ RecoveryMovesOn(c)
      BY <1>2, <1>4, <2>2 DEF RecoveryStarts, RecoveryMovesOn, ListIds, SavePoints
    <2>3. ASSUME NEW s \in pass[c].found, RecoverySkips(c, s) \/ RecoveryAborts(c, s)
          PROVE  HasStored(c)'
      BY <1>2, <1>4, <2>3 DEF RecoverySkips, RecoveryAborts, SavePoints
    <2>4. ASSUME NEW s \in pass[c].found, RecoveryRequeues(c, s) \/ RecoveryGivesUp(c, s)
          PROVE  HasStored(c)'
      BY <1>3, <2>4 DEF RecoveryRequeues, RecoveryGivesUp, SavePoints
    <2> QED
      BY <1>10, <2>1, <2>2, <2>3, <2>4 DEF RecoveryStep
  <1> QED
    BY <1>5, <1>6, <1>7, <1>8, <1>9, <1>10 DEF ThreadStep, RedisStep


\* A step of a thread takes the head of the queue or appends the job it stored.
LEMMA StoredQueue ==
  ASSUME PipelineTypeOK, NEW c \in Threads, ThreadStep(c), HasStored(c),
         \A n \in DOMAIN queue : job[queue[n]] # None,
         NEW n \in DOMAIN queue'
  PROVE  job'[queue'[n]] # None
  <1>1. /\ client \in [Threads -> ClientType] /\ Hands /\ SharedTypeOK
        /\ queue \in Seq(Jobs) /\ Len(queue) \in Nat /\ DOMAIN queue = 1..Len(queue)
    BY HandsTyped, LenProperties DEF Hands, SharedTypeOK
  <1>2. CASE queue' = queue
    BY <1>1, <1>2, RecordsStay, ElementOfSeq
  <1>3. CASE PushPending(c)
    <2>1. client[c].id \in Jobs /\ job[client[c].id] # None
      BY <1>1, <1>3, PointKinds
         DEF PushPending, At, Hands, HandTypeOK, HasRecord, HasStored
    <2>2. /\ queue' = Append(queue, client[c].id) /\ job' = job
          /\ Len(queue') = Len(queue) + 1 /\ queue' \in Seq(Jobs)
          /\ \A m \in 1..Len(queue) : queue'[m] = queue[m]
          /\ queue'[Len(queue) + 1] = client[c].id
      BY <1>1, <1>3, <2>1, AppendProperties DEF PushPending
    <2>3. DOMAIN queue' = 1..(Len(queue) + 1)
      BY <2>2, LenProperties
    <2>4. CASE n = Len(queue) + 1
      BY <2>1, <2>2, <2>4
    <2>5. CASE n # Len(queue) + 1
      <3>1. n \in DOMAIN queue
        BY <1>1, <2>3, <2>5
      <3> QED
        BY <1>1, <2>2, <3>1
    <2> QED
      BY <2>4, <2>5
  <1>4. CASE c \in Workers /\ Dequeue(c)
    <2>1. /\ queue' = Tail(queue) /\ job' = job
          /\ Len(queue') = Len(queue) - 1 /\ queue' \in Seq(Jobs)
          /\ \A m \in 1..Len(queue') : queue'[m] = queue[m + 1]
      BY <1>1, <1>4, HeadTailProperties DEF Dequeue
    <2>2. DOMAIN queue' = 1..(Len(queue) - 1)
      BY <2>1, LenProperties
    <2>3. n + 1 \in DOMAIN queue /\ queue'[n] = queue[n + 1]
      BY <1>1, <2>1, <2>2
    <2> QED
      BY <2>1, <2>3
  <1>5. CASE ~PushPending(c) /\ ~(c \in Workers /\ Dequeue(c))
    <2>1. CASE RedisStep(c)
      BY <1>2, <1>5, <2>1 DEF RedisStep, SaveCommand, SaveReturns, PushDeadLetter, shared
    <2>2. CASE ScanStep(c)
      BY <1>2, <2>2 DEF ScanStep, EnqueueJob, MarkProcessed
    <2>3. CASE c \in Workers /\ WorkerStep(c)
      BY <1>2, <1>5, <2>3 DEF WorkerStep, DropPopped, ClaimJob, BeatClaim, BeatProcess,
                              WriteSummary, RetryFailed, GiveUpFailed, WorkerDies, shared
    <2>4. CASE RecoveryStep(c)
      BY <1>2, <2>4 DEF RecoveryStep, RecoveryStarts, RecoveryReads, RecoveryMovesOn,
                        RecoverySkips, RecoveryRequeues, RecoveryGivesUp, RecoveryAborts, shared
    <2> QED
      BY <2>1, <2>2, <2>3, <2>4 DEF ThreadStep
  <1> QED
    BY <1>3, <1>4, <1>5

LEMMA ThreadsCauseNoFaults ==
  ASSUME NEW c \in Threads, ThreadStep(c)
  PROVE  faults' = faults
  BY DEF ThreadStep, RedisStep, SaveCommand, SaveReturns, PushPending, PushDeadLetter,
         ScanStep, EnqueueJob, MarkProcessed, WorkerStep, Dequeue, DropPopped, ClaimJob,
         BeatClaim, BeatProcess, WriteSummary, RetryFailed, GiveUpFailed, WorkerDies,
         RecoveryStep, RecoveryStarts, RecoveryReads, RecoveryMovesOn, RecoverySkips,
         RecoveryRequeues, RecoveryGivesUp, RecoveryAborts

LEMMA RecordsKept == Spec => [](PipelineTypeOK /\ RecordsBacked)
  <1>1. Init => RecordsBacked
    BY DEF Init, StoreInit, EmptyHanded, RecordsBacked, HasStored, SavePoints
  <1>2. PipelineTypeOK /\ RecordsBacked /\ [Next]_vars => RecordsBacked'
    <2> SUFFICES ASSUME PipelineTypeOK, RecordsBacked, [Next]_vars
                 PROVE  RecordsBacked'
      OBVIOUS
    <2>1. CASE UNCHANGED <<job, client, pc, queue>> /\ faults'.expiries = faults.expiries
      BY <2>1 DEF RecordsBacked, HasStored
    <2>2. ASSUME NEW c \in Threads, ThreadStep(c) PROVE RecordsBacked'
      <3> SUFFICES ASSUME faults.expiries = 0
                   PROVE  /\ \A n \in DOMAIN queue' : job'[queue'[n]] # None
                          /\ \A d \in Threads : HasStored(d)'
        BY <2>2, ThreadsCauseNoFaults DEF RecordsBacked
      <3>1. \A n \in DOMAIN queue' : job'[queue'[n]] # None
        BY <2>2, StoredQueue DEF RecordsBacked
      <3>2. ASSUME NEW d \in Threads PROVE HasStored(d)'
        <4>1. CASE d = c
          BY <2>2, <4>1, StoredHand DEF RecordsBacked
        <4>2. CASE d # c
          <5>1. client'[d] = client[d] /\ pc'[d] = pc[d]
            BY <2>2, <4>2, OthersStay DEF Others
          <5>2. pc[d] \in {"mark", "push"} \cup SavePoints => client[d].id \in Jobs
            BY HandsTyped, PointKinds DEF Hands, HandTypeOK, HasId, HasRecord
          <5> QED
            BY <2>2, <5>1, <5>2, RecordsStay DEF RecordsBacked, HasStored
        <4> QED
          BY <4>1, <4>2
      <3> QED
        BY <3>1, <3>2
    <2>3. ASSUME NEW k \in Jobs, HeartbeatLeft(k) \/ HeartbeatLapses(k) \/ JobExpires(k)
          PROVE  RecordsBacked'
      <3>1. faults \in [crashes : 0..MaxCrashes, lapses : 0..MaxLapses, expiries : 0..MaxExpiries]
        BY TypeParts DEF FaultTypeOK
      <3>2. CASE JobExpires(k)
        <4>1. faults'.expiries = faults.expiries + 1 /\ faults.expiries \in Nat
          BY <3>1, <3>2, PipelineAssumption DEF JobExpires
        <4>2. faults'.expiries # 0
          BY <4>1
        <4> QED
          BY <4>2 DEF RecordsBacked
      <3>3. CASE HeartbeatLeft(k)
        BY <2>1, <3>3 DEF HeartbeatLeft
      <3>4. CASE HeartbeatLapses(k)
        <4>1. faults'.expiries = faults.expiries
          BY <3>1, <3>4 DEF HeartbeatLapses
        <4> QED
          BY <2>1, <3>4, <4>1 DEF HeartbeatLapses
      <3> QED
        BY <2>3, <3>2, <3>3, <3>4
    <2>4. ASSUME NEW P \in Processes, Crash(P) PROVE RecordsBacked'
      <3>1. faults \in [crashes : 0..MaxCrashes, lapses : 0..MaxLapses, expiries : 0..MaxExpiries]
        BY TypeParts DEF FaultTypeOK
      <3>2. faults'.expiries = faults.expiries
        BY <2>4, <3>1 DEF Crash
      <3> QED
        BY <2>1, <2>4, <3>2 DEF Crash, shared
    <2>5. UNCHANGED vars => RecordsBacked'
      BY <2>1 DEF vars, shared
    <2> QED
      BY <2>2, <2>3, <2>4, <2>5, NextCases
  <1> QED
    BY <1>1, <1>2, PipelineTyped, PTL DEF Spec

\* Until a record outlives its TTL, ClaimJob finds a record for every id it pops.
THEOREM PipelineQueueBacked == Spec => []QueuedHasRecord
  <1>1. RecordsBacked => QueuedHasRecord
    BY DEF RecordsBacked, QueuedHasRecord
  <1> QED
    BY <1>1, RecordsKept, PTL

-----------------------------------------------------------------------------
(* ProcessedHasJob: every copy of a job's record, stored, in a hand or in a *)
(* list of the recovery, has the input the job was created for, so that no  *)
(* save gives the record of a processed path to another path.               *)

StoredCopy(j, i)   == job[j] # None /\ job[j].input = i
HeldCopy(c, j, i)  == pc[c] \in HasRecord /\ client[c].id = j /\ client[c].rec.input = i
FoundCopy(r, j, i) == \E s \in pass[r].found : s.id = j /\ s.rec.input = i

Copy(j, i) ==
  \/ StoredCopy(j, i)
  \/ \E c \in Threads : HeldCopy(c, j, i)
  \/ \E r \in Recoverers : FoundCopy(r, j, i)

OneInput ==
  \A j \in Jobs : \A i \in Inputs :
    Copy(j, i) => j <= created /\ \A k \in Inputs : Copy(j, k) => i = k

LEMMA InputsKept ==
  ASSUME NEW r \in TranscodeJob, NEW w
  PROVE  /\ Claimed(r, w).input = r.input /\ Processing(r).input = r.input
         /\ Completed(r).input = r.input /\ GivenUp(r).input = r.input
         /\ Retried(r).input = r.input
  BY DEF TranscodeJob, Claimed, Processing, Completed, GivenUp, Retried

LEMMA SaversHold == SavePoints \subseteq HasRecord
  BY DEF SavePoints, HasId, HasRecord

\* A thread makes its record from one it has or reads, or creates a job.
LEMMA CopyInHand ==
  ASSUME PipelineTypeOK, NEW c \in Threads, ThreadStep(c), NEW j \in Jobs, NEW i,
         HeldCopy(c, j, i)'
  PROVE  Copy(j, i) \/ (created' = created + 1 /\ j = created' /\ i = client'[c].rec.input)
  <1>1. /\ client \in [Threads -> ClientType] /\ client[c] \in ClientType
        /\ pc \in [Threads -> Points] /\ Hands /\ StoredTypeOK /\ SharedTypeOK
    BY HandsTyped DEF Hands
  <1>2. pc'[c] \in HasRecord /\ client'[c].id = j /\ client'[c].rec.input = i
    BY DEF HeldCopy
  <1>3. ASSUME pc[c] \in HasRecord, client'[c].id = client[c].id,
               client'[c].rec = client[c].rec
        PROVE  Copy(j, i)
    BY <1>2, <1>3 DEF Copy, HeldCopy
  <1>4. ASSUME NEW p, Goto(c, p), p \notin HasRecord PROVE FALSE
    BY <1>1, <1>2, <1>4 DEF Goto
  <1>5. ASSUME NEW p, NEW k, NEW r, CallSave(c, p, k, r), StoredCopy(k, r.input)
        PROVE  Copy(j, i)
    BY <1>1, <1>2, <1>5 DEF CallSave, HandOver, Copy
  <1>6. ASSUME NEW p, NEW r, CallSave(c, p, client[c].id, r), pc[c] \in HasRecord,
               r.input = client[c].rec.input
        PROVE  Copy(j, i)
    BY <1>1, <1>2, <1>6 DEF CallSave, HandOver, Copy, HeldCopy
  <1>7. \A p \in {"idle", "check", "dead", "popped", "list"} : p \notin HasRecord
    BY PointKinds DEF HasRecord
  <1>8. pc[c] \in HasRecord => client[c].rec \in TranscodeJob /\ client[c].id \in Jobs
    BY <1>1 DEF Hands, HandTypeOK, HasRecord
  <1>9. CASE RedisStep(c)
    <2>1. CASE SaveCommand(c)
      BY <1>1, <1>3, <2>1, SaversHold
         DEF SaveCommand, SaveGet, SaveSrem, SaveSet, ClientType
    <2>2. CASE SaveReturns(c)
      <3>1. /\ pc[c] \in HasRecord
            /\ client'[c] = IF pc[c] = "complete" THEN EmptyHanded ELSE Saved(c)
            /\ pc'[c] = AfterSave[pc[c]]
        BY <1>1, <2>2, SaversHold DEF SaveReturns, SaveSadd, Goto
      <3>2. pc[c] # "complete"
        BY <1>2, <1>7, <3>1 DEF AfterSave
      <3> QED
        BY <1>1, <1>3, <3>1, <3>2 DEF Saved, ClientType
    <2>3. CASE PushPending(c) \/ PushDeadLetter(c)
      BY <1>4, <1>7, <2>3, WalkingPoints DEF PushPending, PushDeadLetter, LetGo, AfterPush
    <2> QED
      BY <1>9, <2>1, <2>2, <2>3 DEF RedisStep
  <1>10. CASE ScanStep(c)
    <2>1. CASE MarkProcessed(c)
      BY <1>3, <2>1, PointKinds DEF MarkProcessed, At, HasRecord
    <2>2. ASSUME NEW f \in Inputs, EnqueueJob(c, f)
          PROVE  created' = created + 1 /\ j = created' /\ i = client'[c].rec.input
      BY <1>1, <1>2, <2>2 DEF EnqueueJob, CallSave, HandOver
    <2> QED
      BY <1>10, <2>1, <2>2 DEF ScanStep
  <1>11. CASE WorkerStep(c)
    <2>1. CASE Dequeue(c) \/ DropPopped(c) \/ WorkerDies(c)
      BY <1>4, <1>7, <2>1 DEF Dequeue, DropPopped, WorkerDies, LetGo
    <2>2. CASE ClaimJob(c)
      <3>1. client[c].id \in Jobs
        BY <1>1, <2>2, PointKinds DEF ClaimJob, At, Hands, HandTypeOK
      <3>2. job[client[c].id] \in TranscodeJob
        BY <1>1, <2>2, <3>1 DEF ClaimJob, Pending, StoredTypeOK
      <3> QED
        BY <1>5, <2>2, <3>2, InputsKept DEF ClaimJob, Pending, StoredCopy
    <2>3. CASE BeatClaim(c) \/ WriteSummary(c)
      <3>1. pc[c] \in HasRecord
        BY <2>3, PointKinds DEF BeatClaim, WriteSummary, At
      <3> QED
        BY <1>6, <1>8, <2>3, <3>1, InputsKept DEF BeatClaim, WriteSummary
    <2>4. CASE BeatProcess(c)
      BY <1>3, <2>4, PointKinds DEF BeatProcess, At
    <2>5. CASE RetryFailed(c) \/ GiveUpFailed(c)
      <3>1. pc[c] \in HasRecord
        BY <2>5, PointKinds DEF RetryFailed, GiveUpFailed, At
      <3>2. \E p : CallSave(c, p, client[c].id, Retried(Current(c)))
                    \/ CallSave(c, p, client[c].id, GivenUp(Current(c)))
        BY <2>5 DEF RetryFailed, GiveUpFailed
      <3>3. Current(c) \in TranscodeJob
        BY <1>1, <1>8, <3>1 DEF Current, StoredTypeOK
      <3>4. CASE job[client[c].id] = None
        BY <1>6, <3>1, <3>2, <3>3, <3>4, InputsKept DEF Current
      <3>5. CASE job[client[c].id] # None
        BY <1>5, <3>2, <3>3, <3>5, InputsKept DEF Current, StoredCopy
      <3> QED
        BY <3>4, <3>5
    <2> QED
      BY <1>11, <2>1, <2>2, <2>3, <2>4, <2>5 DEF WorkerStep
  <1>12. CASE c \in Recoverers /\ RecoveryStep(c)
    <2>1. CASE RecoveryStarts(c) \/ RecoveryMovesOn(c)
      BY <1>4, <1>7, <2>1, WalkingPoints DEF RecoveryStarts, RecoveryMovesOn, ListIds
    <2>2. CASE RecoveryReads(c)
      <3>1. \/ pc'[c] = "list"
            \/ \E st, f : Goto(c, Walking(st, f))
        BY <2>2 DEF RecoveryReads, At
      <3> QED
        BY <1>2, <1>4, <1>7, <3>1, WalkingPoints
    <2>3. ASSUME NEW s \in pass[c].found, RecoverySkips(c, s) \/ RecoveryAborts(c, s)
          PROVE  FALSE
      BY <1>4, <1>7, <2>3, WalkingPoints DEF RecoverySkips, RecoveryAborts
    <2>4. ASSUME NEW s \in pass[c].found, RecoveryRequeues(c, s) \/ RecoveryGivesUp(c, s)
          PROVE  Copy(j, i)
      <3>1. s.rec \in TranscodeJob
        BY <1>12, <2>4, TypeParts DEF PassTypeOK
      <3>2. PICK p, r : CallSave(c, p, s.id, r) /\ r.input = s.rec.input
        BY <2>4, <3>1, InputsKept DEF RecoveryRequeues, RecoveryGivesUp
      <3>3. s.id = j /\ s.rec.input = i
        BY <1>1, <1>2, <3>2 DEF CallSave, HandOver
      <3> QED
        BY <1>12, <2>4, <3>3 DEF Copy, FoundCopy
    <2> QED
      BY <1>12, <2>1, <2>2, <2>3, <2>4 DEF RecoveryStep
  <1> QED
    BY <1>9, <1>10, <1>11, <1>12 DEF ThreadStep

LEMMA CreatedGrows ==
  ASSUME NEW c \in Threads, ThreadStep(c)
  PROVE  created' \in {created, created + 1}
  BY DEF ThreadStep, RedisStep, SaveCommand, SaveReturns, PushPending, PushDeadLetter,
         ScanStep, EnqueueJob, MarkProcessed, WorkerStep, Dequeue, DropPopped, ClaimJob,
         BeatClaim, BeatProcess, WriteSummary, RetryFailed, GiveUpFailed, WorkerDies,
         RecoveryStep, RecoveryStarts, RecoveryReads, RecoveryMovesOn, RecoverySkips,
         RecoveryRequeues, RecoveryGivesUp, RecoveryAborts, shared

\* Every copy was made from one, or is that of the job just created.
LEMMA CopiesOfCopies ==
  ASSUME PipelineTypeOK, NEW c \in Threads, ThreadStep(c), NEW j \in Jobs, NEW i, Copy(j, i)'
  PROVE  Copy(j, i) \/ (created' = created + 1 /\ j = created' /\ i = client'[c].rec.input)
  <1>1. CASE StoredCopy(j, i)'
    <2>1. CASE job'[j] = job[j]
      BY <1>1, <2>1 DEF Copy, StoredCopy
    <2>2. CASE job'[j] # job[j]
      BY <1>1, <2>2, RecordChanges, SaversHold DEF Copy, StoredCopy, HeldCopy
    <2> QED
      BY <2>1, <2>2
  <1>2. ASSUME NEW d \in Threads, HeldCopy(d, j, i)', d # c PROVE Copy(j, i)
    BY <1>2, OthersStay DEF Others, HeldCopy, Copy
  <1>3. ASSUME NEW r \in Recoverers, FoundCopy(r, j, i)' PROVE Copy(j, i)
    BY <1>3, FoundGrows DEF FoundCopy, StoredCopy, Copy
  <1> QED
    BY <1>1, <1>2, <1>3, CopyInHand DEF Copy

LEMMA OneInputStays ==
  ASSUME PipelineTypeOK, OneInput, NEW c \in Threads, ThreadStep(c)
  PROVE  OneInput'
  <1> SUFFICES ASSUME NEW j \in Jobs, NEW i \in Inputs, Copy(j, i)'
               PROVE  j <= created' /\ \A k \in Inputs : Copy(j, k)' => i = k
    BY DEF OneInput
  <1>1. created \in Nat /\ j \in Nat /\ created' \in {created, created + 1}
    BY HandsTyped, CreatedGrows DEF SharedTypeOK, Jobs
  <1>2. CASE created' = created + 1 /\ j = created'
    <2>1. \A k \in Inputs : ~Copy(j, k)
      BY <1>1, <1>2 DEF OneInput
    <2> QED
      BY <1>1, <1>2, <2>1, CopiesOfCopies
  <1>3. CASE ~(created' = created + 1 /\ j = created')
    <2>1. \A k \in Inputs : Copy(j, k)' => Copy(j, k)
      BY <1>3, CopiesOfCopies
    <2> QED
      BY <1>1, <2>1 DEF OneInput
  <1> QED
    BY <1>2, <1>3

\* A thread marks the path of a job it has stored.
LEMMA MarkedIsStored ==
  ASSUME PipelineTypeOK, RecordsBacked, OneInput, NEW c \in Threads, ThreadStep(c),
         faults.expiries = 0, NEW i \in processed', i \notin processed
  PROVE  \E j \in Jobs : StoredCopy(j, i)'
  <1>1. MarkProcessed(c)
    BY DEF ThreadStep, RedisStep, SaveCommand, SaveReturns, PushPending, PushDeadLetter,
           ScanStep, EnqueueJob, WorkerStep, Dequeue, DropPopped, ClaimJob,
           BeatClaim, BeatProcess, WriteSummary, RetryFailed, GiveUpFailed, WorkerDies,
           RecoveryStep, RecoveryStarts, RecoveryReads, RecoveryMovesOn, RecoverySkips,
           RecoveryRequeues, RecoveryGivesUp, RecoveryAborts, shared
  <1>2. pc[c] = "mark" /\ i = client[c].rec.input /\ job' = job
    BY <1>1 DEF MarkProcessed, At
  <1>3. client[c].id \in Jobs /\ client[c].rec \in TranscodeJob /\ HeldCopy(c, client[c].id, i)
    BY <1>2, HandsTyped, PointKinds DEF Hands, HandTypeOK, HasRecord, HeldCopy
  <1>4. job[client[c].id] # None /\ job[client[c].id] \in TranscodeJob
    BY <1>2, <1>3, HandsTyped DEF RecordsBacked, HasStored, StoredTypeOK
  <1>5. Copy(client[c].id, i) /\ Copy(client[c].id, job[client[c].id].input)
    BY <1>3, <1>4 DEF Copy, StoredCopy
  <1>6. i \in Inputs /\ job[client[c].id].input \in Inputs
    BY <1>2, <1>3, <1>4 DEF TranscodeJob
  <1>7. job[client[c].id].input = i
    BY <1>3, <1>5, <1>6 DEF OneInput
  <1> QED
    BY <1>2, <1>3, <1>4, <1>7 DEF StoredCopy

MarkedHasJob == OneInput /\ ProcessedHasJob /\ (faults.expiries > 0 => Jobs # {})

LEMMA MarkedThread ==
  ASSUME PipelineTypeOK, RecordsBacked, MarkedHasJob, NEW c \in Threads, ThreadStep(c)
  PROVE  MarkedHasJob'
  <1>1. OneInput' /\ faults' = faults
    BY OneInputStays, ThreadsCauseNoFaults DEF MarkedHasJob
  <1>2. faults.expiries \in Nat
    BY TypeParts, PipelineAssumption DEF FaultTypeOK
  <1>3. ASSUME faults.expiries = 0, NEW i \in processed'
        PROVE  \E j \in Jobs : StoredCopy(j, i)'
    <2>1. CASE i \notin processed
      BY <1>3, <2>1, MarkedIsStored DEF MarkedHasJob
    <2>2. CASE i \in processed
      <3>1. PICK j \in Jobs : job[j] # None /\ job[j].input = i
        BY <1>3, <2>2 DEF MarkedHasJob, ProcessedHasJob
      <3>2. job'[j] # None
        BY <3>1, RecordsStay
      <3>3. job[j] \in TranscodeJob /\ job'[j] \in TranscodeJob
        BY <3>1, <3>2, HandsTyped, RecordChanges, SaversHold
           DEF StoredTypeOK, Hands, HandTypeOK
      <3>4. PICK k \in Inputs : k = job'[j].input
        BY <3>3 DEF TranscodeJob
      <3>5. Copy(j, i) /\ Copy(j, k)' /\ i \in Inputs
        BY <3>1, <3>2, <3>3, <3>4 DEF Copy, StoredCopy, TranscodeJob
      <3>6. created \in Nat /\ j <= created
        BY <3>5, HandsTyped DEF MarkedHasJob, OneInput, SharedTypeOK
      <3>7. Copy(j, k)
        BY <3>5, <3>6, CopiesOfCopies
      <3>8. job'[j].input = i
        BY <3>4, <3>5, <3>7 DEF MarkedHasJob, OneInput
      <3> QED
        BY <3>2, <3>8 DEF StoredCopy
    <2> QED
      BY <2>1, <2>2
  <1> QED
    BY <1>1, <1>2, <1>3 DEF MarkedHasJob, ProcessedHasJob, StoredCopy

LEMMA MarkedRest ==
  ASSUME MarkedHasJob, PipelineTypeOK, UNCHANGED <<client, pc, pass, processed, created>>,
         \/ UNCHANGED <<job, faults>>
         \/ job' = job /\ faults'.expiries = faults.expiries
         \/ \E k \in Jobs : JobExpires(k)
  PROVE  MarkedHasJob'
  <1>1. \A j \in Jobs : job'[j] \in {job[j], None}
    BY HandsTyped DEF JobExpires, Expire, StoredTypeOK
  <1>2. \A j \in Jobs : \A i : Copy(j, i)' => Copy(j, i)
    BY <1>1 DEF Copy, StoredCopy, HeldCopy, FoundCopy
  <1>3. OneInput'
    BY <1>2 DEF MarkedHasJob, OneInput
  <1>4. CASE job' = job /\ faults'.expiries = faults.expiries
    BY <1>3, <1>4 DEF MarkedHasJob, ProcessedHasJob
  <1>5. CASE \E k \in Jobs : JobExpires(k)
    <2>1. faults \in [crashes : 0..MaxCrashes, lapses : 0..MaxLapses, expiries : 0..MaxExpiries]
      BY TypeParts DEF FaultTypeOK
    <2>2. faults'.expiries = faults.expiries + 1 /\ faults.expiries \in Nat
      BY <1>5, <2>1, PipelineAssumption DEF JobExpires
    <2>3. faults'.expiries > 0 /\ Jobs # {}
      BY <1>5, <2>2
    <2> QED
      BY <1>3, <2>3 DEF MarkedHasJob, ProcessedHasJob
  <1> QED
    BY <1>4, <1>5

\* A path is marked only once a job for it is stored, and no save by any copy of the
\* job, however old, takes that away.
THEOREM PipelineMarksStoredJobs == Spec => []ProcessedHasJob
  <1>1. Init => MarkedHasJob
    <2> SUFFICES ASSUME Init PROVE MarkedHasJob
      OBVIOUS
    <2>1. /\ job = [j \in Jobs |-> None] /\ pc = [c \in Threads |-> "idle"]
          /\ pass = [r \in Recoverers |-> NoPass] /\ processed = {} /\ faults.expiries = 0
      BY DEF Init, StoreInit
    <2>2. \A j \in Jobs : \A i : ~Copy(j, i)
      BY <2>1, PointKinds DEF Copy, StoredCopy, HeldCopy, FoundCopy, NoPass, HasRecord
    <2> QED
      BY <2>1, <2>2 DEF MarkedHasJob, OneInput, ProcessedHasJob
  <1>2. PipelineTypeOK /\ RecordsBacked /\ MarkedHasJob /\ [Next]_vars => MarkedHasJob'
    <2> SUFFICES ASSUME PipelineTypeOK, RecordsBacked, MarkedHasJob, [Next]_vars
                 PROVE  MarkedHasJob'
      OBVIOUS
    <2>1. faults \in [crashes : 0..MaxCrashes, lapses : 0..MaxLapses, expiries : 0..MaxExpiries]
      BY TypeParts DEF FaultTypeOK
    <2>2. CASE UNCHANGED vars
      BY <2>2, MarkedRest DEF vars, shared
    <2>3. ASSUME NEW k \in Jobs, HeartbeatLeft(k) \/ HeartbeatLapses(k) \/ JobExpires(k)
          PROVE  MarkedHasJob'
      BY <2>1, <2>3, MarkedRest DEF HeartbeatLeft, HeartbeatLapses, JobExpires, Expire, shared
    <2>4. ASSUME NEW P \in Processes, Crash(P) PROVE MarkedHasJob'
      BY <2>1, <2>4, MarkedRest DEF Crash, shared
    <2> QED
      BY <2>2, <2>3, <2>4, MarkedThread, NextCases
  <1>3. MarkedHasJob => ProcessedHasJob
    BY DEF MarkedHasJob
  <1> QED
    BY <1>1, <1>2, <1>3, RecordsKept, PTL DEF Spec
=============================================================================

------------------------ MODULE JobPipelineLifecycle ------------------------
(***************************************************************************)
(* The life of a job, under every interleaving and every fault: a job      *)
(* keeps what it is promised until recovery takes it over without being    *)
(* right to, or its record expires.  Heartbeats may lapse, processes may   *)
(* crash anywhere, passes overlap the commands of workers and of other     *)
(* passes; what these leave behind does a job no harm before somebody      *)
(* acts on it, and only the steps that JobTakeover calls Forfeits do.      *)
(***************************************************************************)
EXTENDS JobPipelineOutcomes, JobTakeover

-----------------------------------------------------------------------------
(* The inductive invariant.  A job is a token: it is queued once, or one    *)
(* live thread has it, or nobody does, and what the record is to a thread   *)
(* that has it depends on where that is.                                    *)

\* The record that a save at point p is to store, r, is the next in the life of a job
\* whose record is old.
Follows(p, old, r) ==
  /\ p = "create"   => old = None /\ \E i \in Inputs : r = NewJob(i)
  /\ p # "create"   => old # None
  /\ p = "claim"    => old.state = "PENDING" /\ \E w \in Workers : r = Claimed(old, w)
  /\ p = "process"  => old.state = "CLAIMED" /\ r = Processing(old)
  /\ p = "complete" => old.state = "PROCESSING" /\ r = Completed(old)
  /\ p = "requeue"  => old.state \in HeldStates /\ old.attempt < MaxRetries /\ r = Retried(old)
  /\ p = "fail"     => old.state \in HeldStates /\ old.attempt = MaxRetries /\ r = GivenUp(old)

\* The state of the stored record at the points outside of a save.
KeptState == [mark |-> "PENDING", push |-> "PENDING", beatClaim |-> "CLAIMED",
              beatProcess |-> "PROCESSING", transcode |-> "PROCESSING", bury |-> "FAILED"]

Fits(c, j) ==
  /\ pc[c] = "popped" => Pending(j)
  /\ pc[c] \in SavePoints =>
       IF client[c].step = "sadd" THEN job[j] = client[c].rec
                                  ELSE Follows(pc[c], job[j], client[c].rec)
  /\ pc[c] \in HasRecord \ SavePoints =>
       job[j] = client[c].rec /\ job[j].state = KeptState[pc[c]]
  /\ client[c].step = "srem" => client[c].old = job[j].state
  /\ client[c].step = "set" => \A s \in JobStates : j \notin index[s]

Once(j) == \A m, n \in DOMAIN queue : queue[m] = j /\ queue[n] = j => m = n

JobOK(j) ==
  /\ \A c, d \in Threads : Has(c, j) /\ Has(d, j) => c = d
  /\ \A c \in Threads : Has(c, j) => Fits(c, j) /\ ~Queued(j)
  /\ Queued(j) => Pending(j)
  /\ Once(j)
  /\ \A s \in JobStates : j \in index[s] => job[j] # None /\ job[j].state = s
  /\ j > created => job[j] = None /\ ~Queued(j) /\ \A c \in Threads : ~Has(c, j)

LifeInv == \A j \in Jobs \ forfeited : JobOK(j)

-----------------------------------------------------------------------------
(* A job in the hands of another thread than the one that takes the step,   *)
(* or of none.                                                              *)

LEMMA LiveSteps ==
  ASSUME NEW c \in Threads, ThreadStep(c)
  PROVE  Runs(c) /\ c \in alive /\ alive' = alive
  <1>1. CASE RedisStep(c)
    BY <1>1 DEF RedisStep, SaveCommand, SaveReturns, PushPending, PushDeadLetter, At, Runs
  <1>2. CASE ScanStep(c)
    BY <1>2 DEF ScanStep, EnqueueJob, MarkProcessed, At, Runs
  <1>3. CASE WorkerStep(c)
    BY <1>3 DEF WorkerStep, Dequeue, DropPopped, ClaimJob, BeatClaim, BeatProcess, WriteSummary,
                RetryFailed, GiveUpFailed, WorkerDies, At, Runs
  <1>4. CASE RecoveryStep(c)
    BY <1>4 DEF RecoveryStep, RecoveryStarts, RecoveryReads, RecoveryMovesOn, RecoverySkips,
                RecoveryRequeues, RecoveryGivesUp, RecoveryAborts, Stale, Reached, At, Runs
  <1> QED
    BY <1>1, <1>2, <1>3, <1>4 DEF ThreadStep

LEMMA JobElsewhere ==
  ASSUME NEW c \in Threads, Others(c), alive' = alive, NEW j \in Jobs, JobOK(j),
         created \in Nat, created' \in {created, created + 1},
         job'[j] = job[j], \A s \in JobStates : j \in index'[s] <=> j \in index[s],
         Queued(j)' <=> Queued(j), Once(j)', ~Has(c, j), ~Has(c, j)'
  PROVE  JobOK(j)'
  <1>1. \A d \in Threads : Has(d, j)' => d # c /\ Has(d, j) /\ client'[d] = client[d] /\ pc'[d] = pc[d]
    BY DEF Has, Others
  <1>2. ASSUME NEW d \in Threads, Has(d, j)' PROVE Fits(d, j)' /\ ~Queued(j)'
    <2>1. Fits(d, j) /\ ~Queued(j) /\ client'[d] = client[d] /\ pc'[d] = pc[d]
      BY <1>1, <1>2 DEF JobOK
    <2> QED
      BY <2>1 DEF Fits, Pending
  <1>3. Queued(j)' => Pending(j)'
    BY DEF JobOK, Pending
  <1>4. j > created' => j > created
    BY DEF Jobs
  <1>5. \A d, e \in Threads : Has(d, j)' /\ Has(e, j)' => d = e
    BY <1>1 DEF JobOK
  <1>6. \A s \in JobStates : j \in index'[s] => job'[j] # None /\ job'[j].state = s
    BY DEF JobOK
  <1>7. j > created' => job'[j] = None /\ ~Queued(j)' /\ \A d \in Threads : ~Has(d, j)'
    BY <1>1, <1>4 DEF JobOK
  <1> QED
    BY <1>2, <1>3, <1>5, <1>6, <1>7 DEF JobOK

LEMMA JobOfHolder ==
  ASSUME NEW c \in Threads, Others(c), alive' = alive, NEW j \in Jobs,
         \A d \in Threads \ {c} : ~Has(d, j),
         Has(c, j)' => Fits(c, j)' /\ ~Queued(j)',
         Queued(j)' => Pending(j)', Once(j)',
         \A s \in JobStates : j \in index'[s] => job'[j] # None /\ job'[j].state = s,
         ~(j > created')
  PROVE  JobOK(j)'
  <1>1. \A d \in Threads : Has(d, j)' => d = c
    BY DEF Has, Others
  <1> QED
    BY <1>1 DEF JobOK

\* The queue, for one job.
LEMMA QueueAppended ==
  ASSUME queue \in Seq(Jobs), NEW k \in Jobs, queue' = Append(queue, k), NEW j \in Jobs, Once(j),
         j = k => ~Queued(j)
  PROVE  Once(j)' /\ (Queued(j)' <=> Queued(j) \/ j = k)
  <1>1. /\ queue' \in Seq(Jobs) /\ Len(queue') = Len(queue) + 1
        /\ \A n \in 1..Len(queue) : queue'[n] = queue[n]
        /\ queue'[Len(queue) + 1] = k
    BY AppendProperties
  <1>2. /\ Len(queue) \in Nat
        /\ DOMAIN queue = 1..Len(queue) /\ DOMAIN queue' = 1..(Len(queue) + 1)
    BY <1>1, LenProperties
  <1>3. \A n \in DOMAIN queue' : n \in DOMAIN queue \/ n = Len(queue) + 1
    BY <1>2
  <1>4. j = k => \A n \in DOMAIN queue : queue[n] # j
    BY DEF Queued
  <1>5. Once(j)'
    BY <1>1, <1>2, <1>3, <1>4 DEF Once
  <1>6. Len(queue) + 1 \in DOMAIN queue' /\ \A n \in DOMAIN queue : n \in DOMAIN queue'
    BY <1>2
  <1>7. Queued(j)' <=> Queued(j) \/ j = k
    BY <1>1, <1>2, <1>3, <1>6 DEF Queued
  <1> QED
    BY <1>5, <1>7

LEMMA QueueTail ==
  ASSUME queue \in Seq(Jobs), queue # <<>>, queue' = Tail(queue), NEW j \in Jobs, Once(j)
  PROVE  /\ Once(j)' /\ (j = Head(queue) => Queued(j))
         /\ Queued(j)' <=> Queued(j) /\ j # Head(queue)
  <1>1. /\ queue' \in Seq(Jobs) /\ Len(queue') = Len(queue) - 1
        /\ \A n \in 1..Len(queue') : queue'[n] = queue[n + 1]
        /\ Head(queue) = queue[1] /\ Head(queue) \in Jobs
    BY HeadTailProperties
  <1>2. /\ Len(queue) \in Nat /\ DOMAIN queue = 1..Len(queue)
        /\ DOMAIN queue' = 1..(Len(queue) - 1)
    BY <1>1, LenProperties
  <1>3. 1 \in DOMAIN queue
    BY <1>1, <1>2, EmptySeq
  <1>4. \A n \in DOMAIN queue' : n + 1 \in DOMAIN queue /\ n + 1 # 1 /\ queue'[n] = queue[n + 1]
    BY <1>1, <1>2
  <1>5. \A n \in DOMAIN queue : n # 1 => n - 1 \in DOMAIN queue' /\ queue'[n - 1] = queue[n]
    BY <1>1, <1>2
  <1>6. Once(j)'
    <2> SUFFICES ASSUME NEW m \in DOMAIN queue', NEW n \in DOMAIN queue', queue'[m] = j, queue'[n] = j
                 PROVE  m = n
      BY DEF Once
    <2>1. m + 1 = n + 1
      BY <1>4 DEF Once
    <2> QED
      BY <1>2, <2>1
  <1>7. j = Head(queue) => Queued(j)
    BY <1>1, <1>3 DEF Queued
  <1>8. ASSUME Queued(j)' PROVE Queued(j) /\ j # Head(queue)
    <2>1. PICK n \in DOMAIN queue' : queue'[n] = j
      BY <1>8 DEF Queued
    <2>2. n + 1 \in DOMAIN queue /\ n + 1 # 1 /\ queue[n + 1] = j
      BY <1>4, <2>1
    <2> QED
      BY <1>1, <1>3, <2>2 DEF Queued, Once
  <1>9. ASSUME Queued(j), j # Head(queue) PROVE Queued(j)'
    BY <1>1, <1>5, <1>9 DEF Queued
  <1> QED
    BY <1>6, <1>7, <1>8, <1>9

\* Only a push and a claim touch the queue, and only an enqueue counts a job.
LEMMA QueueStays ==
  ASSUME NEW c \in Threads, ThreadStep(c), ~PushPending(c), ~(c \in Workers /\ Dequeue(c))
  PROVE  queue' = queue
  BY DEF ThreadStep, RedisStep, SaveCommand, SaveReturns, PushDeadLetter, ScanStep,
         EnqueueJob, MarkProcessed, WorkerStep, DropPopped, ClaimJob, BeatClaim,
         BeatProcess, WriteSummary, RetryFailed, GiveUpFailed, WorkerDies, RecoveryStep,
         RecoveryStarts, RecoveryReads, RecoveryMovesOn, RecoverySkips, RecoveryRequeues,
         RecoveryGivesUp, RecoveryAborts, shared

LEMMA CreatedCounts ==
  ASSUME NEW c \in Threads, ThreadStep(c)
  PROVE  created' \in {created, created + 1}
  BY DEF ThreadStep, RedisStep, SaveCommand, SaveReturns, PushPending, PushDeadLetter, ScanStep,
         EnqueueJob, MarkProcessed, WorkerStep, Dequeue, DropPopped, ClaimJob, BeatClaim,
         BeatProcess, WriteSummary, RetryFailed, GiveUpFailed, WorkerDies, RecoveryStep,
         RecoveryStarts, RecoveryReads, RecoveryMovesOn, RecoverySkips, RecoveryRequeues,
         RecoveryGivesUp, RecoveryAborts, shared

\* The commands of a save reach the record and the indexes of its own job only.
LEMMA SavesOwnJob ==
  ASSUME PipelineTypeOK, NEW c \in Threads, ThreadStep(c), NEW j \in Jobs, ~Has(c, j)
  PROVE  job'[j] = job[j] /\ \A s \in JobStates : j \in index'[s] <=> j \in index[s]
  <1>1. Hands /\ StoredTypeOK /\ c \in alive
    BY HandsTyped, LiveSteps
  <1>2. CASE SaveCommand(c) \/ SaveReturns(c)
    <2>1. pc[c] \in HasId
      BY <1>2 DEF SaveCommand, SaveReturns, HasId
    <2>2. client[c].id # j
      BY <1>1, <2>1 DEF Has
    <2> QED
      BY <1>1, <1>2, <2>2
         DEF SaveCommand, SaveReturns, SaveGet, SaveSrem, SaveSet, SaveSadd, Hands, StoredTypeOK
  <1>3. CASE ~(SaveCommand(c) \/ SaveReturns(c))
    BY <1>3, OutsideSave
  <1> QED
    BY <1>2, <1>3

\* A thread that neither has a job nor takes it leaves it as it is.
LEMMA JobUnheld ==
  ASSUME PipelineTypeOK, NEW c \in Threads, ThreadStep(c), NEW j \in Jobs, JobOK(j),
         ~Has(c, j), ~Has(c, j)'
  PROVE  JobOK(j)'
  <1>1. /\ Others(c) /\ c \in alive /\ alive' = alive /\ created \in Nat
        /\ client \in [Threads -> ClientType] /\ pc \in [Threads -> Points] /\ queue \in Seq(Jobs)
    BY OthersStay, LiveSteps, HandsTyped DEF Hands, SharedTypeOK
  <1>2. job'[j] = job[j] /\ \A s \in JobStates : j \in index'[s] <=> j \in index[s]
    BY SavesOwnJob
  <1>3. Once(j)' /\ (Queued(j)' <=> Queued(j))
    <2>1. CASE PushPending(c)
      <3>1. queue' = Append(queue, client[c].id) /\ pc[c] = "push"
        BY <2>1 DEF PushPending, At
      <3>2. pc[c] \in HasId
        BY <3>1, PointKinds DEF HasRecord
      <3>3. client[c].id # j /\ client[c].id \in Jobs
        BY <1>1, <3>2, HandsTyped DEF Has, Hands, HandTypeOK
      <3> QED
        BY <1>1, <3>1, <3>3, QueueAppended DEF JobOK
    <2>2. CASE c \in Workers /\ Dequeue(c)
      <3>1. queue # <<>> /\ queue' = Tail(queue) /\ pc'[c] = "popped"
        BY <1>1, <2>2 DEF Dequeue, Goto
      <3>2. client'[c].id = Head(queue)
        <4>1. client' = [client EXCEPT ![c].id = Head(queue), ![c].rec = None]
          BY <2>2 DEF Dequeue
        <4>2. client[c] \in ClientType
          BY <1>1
        <4> QED
          BY <1>1, <4>1, <4>2 DEF ClientType
      <3>3. j # Head(queue)
        BY <1>1, <3>1, <3>2, PointKinds DEF Has
      <3> QED
        BY <1>1, <3>1, <3>3, QueueTail DEF JobOK
    <2>3. CASE ~PushPending(c) /\ ~(c \in Workers /\ Dequeue(c))
      <3>1. queue' = queue
        BY <2>3, QueueStays
      <3> QED
        BY <3>1 DEF Queued, Once, JobOK
    <2> QED
      BY <2>1, <2>2, <2>3
  <1> QED
    BY <1>1, <1>2, <1>3, CreatedCounts, JobElsewhere

-----------------------------------------------------------------------------
(* The thread that has the job takes a step, and keeps it or lets it go.    *)

\* What the thread that has job j knows of it.
LEMMA HolderHas ==
  ASSUME PipelineTypeOK, NEW c \in Threads, NEW j \in Jobs, JobOK(j), Has(c, j)
  PROVE  /\ client \in [Threads -> ClientType] /\ pc \in [Threads -> Points]
         /\ client[c] \in ClientType /\ client[c].id = j /\ pc[c] \in HasId /\ c \in alive
         /\ Fits(c, j) /\ \A d \in Threads \ {c} : ~Has(d, j)
         /\ ~Queued(j) /\ ~(j > created) /\ created \in Nat
         /\ pc[c] \in HasRecord => client[c].rec \in TranscodeJob
         /\ pc[c] \in SavePoints => /\ client[c].rec \in TranscodeJob
                                    /\ client[c].rec.state = SavedState[pc[c]]
                                    /\ client[c].rec.state \in JobStates
         /\ pc[c] \in HasRecord \ SavePoints =>
              job[j] = client[c].rec /\ client[c].rec.state = KeptState[pc[c]]
  <1>1. /\ client \in [Threads -> ClientType] /\ pc \in [Threads -> Points]
        /\ created \in Nat
        /\ pc[c] \in HasRecord => client[c].rec \in TranscodeJob
        /\ pc[c] \in SavePoints => client[c].rec.state = SavedState[pc[c]]
    BY HandsTyped DEF Hands, HandTypeOK, SharedTypeOK
  <1>2. SavePoints \subseteq HasRecord
    BY DEF HasRecord, HasId, SavePoints
  <1>3. pc[c] \in SavePoints => client[c].rec \in TranscodeJob /\ client[c].rec.state \in JobStates
    BY <1>1, <1>2, RecordStates
  <1> QED
    BY <1>1, <1>3 DEF JobOK, Fits, Has

\* A step of a thread with the job it has, which it keeps or lets go.
LEMMA JobKept ==
  ASSUME PipelineTypeOK, NEW c \in Threads, ThreadStep(c), NEW j \in Jobs, JobOK(j), Has(c, j),
         UNCHANGED <<created, queue>>,
         pc'[c] \in HasId => client'[c].id = j /\ Fits(c, j)',
         \A s \in JobStates : j \in index'[s] => job'[j] # None /\ job'[j].state = s
  PROVE  JobOK(j)'
  <1>1. Others(c) /\ alive' = alive
    BY OthersStay, LiveSteps
  <1>2. ~Queued(j) /\ ~(j > created) /\ \A d \in Threads \ {c} : ~Has(d, j)
    BY HolderHas
  <1>3. ~Queued(j)' /\ Once(j)'
    BY <1>2 DEF Queued, Once, JobOK
  <1>4. Has(c, j)' => Fits(c, j)'
    BY DEF Has
  <1> QED
    BY <1>1, <1>2, <1>3, <1>4, JobOfHolder

LEMMA JobLetGo ==
  ASSUME PipelineTypeOK, NEW c \in Threads, ThreadStep(c), NEW j \in Jobs, JobOK(j), Has(c, j),
         UNCHANGED <<job, index, queue, created>>, pc'[c] \notin HasId
  PROVE  JobOK(j)'
  BY JobKept DEF JobOK

LEMMA JobCall ==
  ASSUME PipelineTypeOK, NEW c \in Threads, ThreadStep(c), NEW j \in Jobs, JobOK(j), Has(c, j),
         UNCHANGED <<job, index, queue, created>>,
         NEW p \in SavePoints, NEW r, CallSave(c, p, j, r), Follows(p, job[j], r)
  PROVE  JobOK(j)'
  <1>1. client'[c] = HandOver(j, r) /\ pc'[c] = p
    BY HandsTyped DEF Hands, CallSave, Goto
  <1>2. Fits(c, j)'
    BY <1>1, PointKinds DEF Fits, HandOver
  <1> QED
    BY <1>1, <1>2, JobKept DEF HandOver, JobOK

\* Every save stores another state.
LEMMA FollowsMoves ==
  ASSUME NEW p \in SavePoints, NEW old, NEW r, Follows(p, old, r), old # None,
         r.state = SavedState[p]
  PROVE  old.state # r.state
  BY DEF Follows, SavePoints, SavedState, HeldStates

LEMMA JobSaveGet ==
  ASSUME PipelineTypeOK, NEW c \in Threads, ThreadStep(c), NEW j \in Jobs, JobOK(j), Has(c, j),
         pc[c] \in SavePoints, pc' = pc, UNCHANGED <<queue, created>>, SaveGet(c)
  PROVE  JobOK(j)'
  <1>1. /\ client[c].id = j /\ client[c].rec \in TranscodeJob /\ client[c] \in ClientType
        /\ client[c].step = "get" /\ job' = job /\ index' = index
        /\ client[c].rec.state = SavedState[pc[c]] /\ client \in [Threads -> ClientType]
    BY HolderHas DEF SaveGet
  <1>2. Follows(pc[c], job[j], client[c].rec)
    BY <1>1, HolderHas DEF Fits
  <1>3. /\ client'[c].id = j /\ client'[c].rec = client[c].rec
        /\ client'[c].step \in {"srem", "set"}
        /\ client'[c].step = "srem" => client'[c].old = job[j].state
        /\ client'[c].step = "set" => job[j] = None \/ job[j].state = client[c].rec.state
    BY <1>1 DEF SaveGet, ClientType
  <1>4. client'[c].step = "set" => \A s \in JobStates : j \notin index[s]
    BY <1>1, <1>2, <1>3, FollowsMoves DEF JobOK
  <1>5. Fits(c, j)'
    BY <1>1, <1>2, <1>3, <1>4, PointKinds DEF Fits, SavePoints
  <1> QED
    BY <1>1, <1>3, <1>5, JobKept DEF JobOK

LEMMA JobSaveSrem ==
  ASSUME PipelineTypeOK, NEW c \in Threads, ThreadStep(c), NEW j \in Jobs, JobOK(j), Has(c, j),
         pc[c] \in SavePoints, pc' = pc, UNCHANGED <<queue, created>>, SaveSrem(c)
  PROVE  JobOK(j)'
  <1>1. /\ client[c].id = j /\ client[c] \in ClientType /\ client \in [Threads -> ClientType]
        /\ job' = job /\ Fits(c, j)
    BY HolderHas DEF SaveSrem
  <1>2. index' = [index EXCEPT ![client[c].old] = @ \ {j}] /\ client[c].old = job[j].state
    BY <1>1 DEF SaveSrem, Fits
  <1>3. index \in [JobStates -> SUBSET Jobs]
    BY HandsTyped DEF StoredTypeOK
  <1>4. \A s \in JobStates : j \notin index'[s]
    <2> SUFFICES ASSUME NEW s \in JobStates, j \in index'[s] PROVE FALSE
      OBVIOUS
    <2>1. j \in index[s]
      BY <1>2, <1>3
    <2>2. s = job[j].state
      BY <2>1 DEF JobOK
    <2> QED
      BY <1>2, <1>3, <2>2
  <1>5. /\ client'[c].id = j /\ client'[c].step = "set" /\ client'[c].rec = client[c].rec
        /\ client[c].step = "srem"
    BY <1>1 DEF SaveSrem, ClientType
  <1>6. Fits(c, j)'
    BY <1>1, <1>4, <1>5, PointKinds DEF Fits
  <1> QED
    BY <1>4, <1>5, <1>6, JobKept

LEMMA JobSaveSet ==
  ASSUME PipelineTypeOK, NEW c \in Threads, ThreadStep(c), NEW j \in Jobs, JobOK(j), Has(c, j),
         pc[c] \in SavePoints, pc' = pc, UNCHANGED <<queue, created>>, SaveSet(c)
  PROVE  JobOK(j)'
  <1>1. /\ client[c].id = j /\ client[c] \in ClientType /\ client \in [Threads -> ClientType]
        /\ index' = index /\ Fits(c, j)
    BY HolderHas DEF SaveSet
  <1>2. job' = [job EXCEPT ![j] = client[c].rec] /\ job \in [Jobs -> TranscodeJob \cup {None}]
    BY <1>1, HandsTyped DEF SaveSet, StoredTypeOK
  <1>3. \A s \in JobStates : j \notin index[s]
    BY <1>1 DEF SaveSet, Fits
  <1>4. client'[c].id = j /\ client'[c].step = "sadd" /\ client'[c].rec = client[c].rec
    BY <1>1 DEF SaveSet, ClientType
  <1>5. Fits(c, j)'
    BY <1>2, <1>4, PointKinds DEF Fits
  <1> QED
    BY <1>1, <1>3, <1>4, <1>5, JobKept

LEMMA JobSaveReturns ==
  ASSUME PipelineTypeOK, NEW c \in Threads, ThreadStep(c), NEW j \in Jobs, JobOK(j), Has(c, j),
         SaveReturns(c)
  PROVE  JobOK(j)'
  <1>1. /\ pc[c] \in SavePoints /\ client[c].step = "sadd"
        /\ SaveSadd(c, IF pc[c] = "complete" THEN EmptyHanded ELSE Saved(c))
        /\ job' = job /\ queue' = queue /\ created' = created
    BY DEF SaveReturns, SaveSadd, shared
  <1>2. /\ client[c].id = j /\ client[c] \in ClientType /\ client \in [Threads -> ClientType]
        /\ client[c].rec \in TranscodeJob /\ client[c].rec.state = SavedState[pc[c]]
        /\ client[c].rec.state \in JobStates /\ Fits(c, j)
    BY <1>1, HolderHas
  <1>3. job[j] = client[c].rec
    BY <1>1, <1>2 DEF Fits
  <1>4. /\ index' = [index EXCEPT ![client[c].rec.state] = @ \cup {j}]
        /\ index \in [JobStates -> SUBSET Jobs]
    BY <1>1, <1>2, HandsTyped DEF SaveSadd, StoredTypeOK
  <1>5. \A s \in JobStates : j \in index'[s] => job'[j] # None /\ job'[j].state = s
    <2> SUFFICES ASSUME NEW s \in JobStates, j \in index'[s] PROVE job[j] # None /\ job[j].state = s
      BY <1>1
    <2>1. s = client[c].rec.state \/ j \in index[s]
      BY <1>4
    <2> QED
      BY <1>2, <1>3, <2>1, RecordStates DEF JobOK
  <1>6. pc'[c] = AfterSave[pc[c]]
    BY HandsTyped DEF SaveReturns, Goto, Hands
  <1>7. pc'[c] \in HasId => client'[c].id = j /\ Fits(c, j)'
    <2> SUFFICES ASSUME pc'[c] \in HasId PROVE client'[c].id = j /\ Fits(c, j)'
      OBVIOUS
    <2>1. pc[c] # "complete"
      BY <1>1, <1>6, SaveTargets
    <2>2. client'[c].id = j /\ client'[c].step = "idle" /\ client'[c].rec = client[c].rec
      BY <1>1, <1>2, <2>1 DEF SaveSadd, Saved, ClientType
    <2>3. AfterSave[pc[c]] # "popped" /\ AfterSave[pc[c]] \notin SavePoints
          /\ KeptState[AfterSave[pc[c]]] = SavedState[pc[c]]
      BY <1>1, <2>1 DEF SavePoints, AfterSave, KeptState, SavedState
    <2> QED
      BY <1>1, <1>2, <1>3, <1>6, <2>2, <2>3 DEF Fits
  <1> QED
    BY <1>1, <1>5, <1>7, JobKept

\* The steps outside of a save.
LEMMA JobLeaves ==
  ASSUME PipelineTypeOK, NEW c \in Threads, ThreadStep(c), NEW j \in Jobs, JobOK(j), Has(c, j),
         PushDeadLetter(c) \/ (c \in Workers /\ (DropPopped(c) \/ WorkerDies(c)))
  PROVE  JobOK(j)'
  <1>1. UNCHANGED <<job, index, queue, created>> /\ \E p \in {"idle", "check", "dead"} : LetGo(c, p)
    BY WalkingPoints DEF PushDeadLetter, DropPopped, WorkerDies, AfterPush, shared
  <1>2. pc'[c] \notin HasId
    BY <1>1, PointKinds, HandsTyped DEF LetGo, Goto, Hands
  <1> QED
    BY <1>1, <1>2, JobLetGo

LEMMA JobGoesOn ==
  ASSUME PipelineTypeOK, NEW c \in Threads, ThreadStep(c), NEW j \in Jobs, JobOK(j), Has(c, j),
         (c \in Scanners /\ MarkProcessed(c)) \/ (c \in Workers /\ BeatProcess(c))
  PROVE  JobOK(j)'
  <1>1. /\ UNCHANGED <<job, index, queue, created, client>>
        /\ \/ pc[c] = "mark" /\ Goto(c, "push")
           \/ pc[c] = "beatProcess" /\ Goto(c, "transcode")
    BY DEF MarkProcessed, BeatProcess, At
  <1>2. pc[c] \in HasRecord \ SavePoints
    BY <1>1, PointKinds
  <1>3. client[c].id = j /\ Fits(c, j) /\ job[j] = client[c].rec /\ job[j].state = KeptState[pc[c]]
    BY <1>2, HolderHas
  <1>4. /\ pc'[c] \in {"push", "transcode"}
        /\ KeptState[pc'[c]] = KeptState[pc[c]]
    BY <1>1, HandsTyped DEF Goto, Hands, KeptState
  <1>5. pc'[c] \notin SavePoints \cup {"popped"}
    BY <1>4, PointKinds
  <1>6. client[c].step = "idle"
    BY <1>2, HandsTyped DEF Hands, HandTypeOK
  <1>7. Fits(c, j)'
    BY <1>1, <1>3, <1>4, <1>5, <1>6 DEF Fits
  <1> QED
    BY <1>1, <1>3, <1>7, JobKept DEF JobOK

\* A worker goes on to a save, with the record as it is stored.
LEMMA JobWorkerSaves ==
  ASSUME PipelineTypeOK, AttemptsBounded, NEW w \in Workers, ThreadStep(w),
         NEW j \in Jobs, JobOK(j), Has(w, j),
         ClaimJob(w) \/ BeatClaim(w) \/ WriteSummary(w) \/ RetryFailed(w) \/ GiveUpFailed(w)
  PROVE  JobOK(j)'
  <1>1. /\ pc[w] \in {"popped", "beatClaim", "transcode"}
        /\ UNCHANGED <<job, index, queue, created>>
    BY DEF ClaimJob, BeatClaim, WriteSummary, RetryFailed, GiveUpFailed, At, shared
  <1>2. w \in Threads /\ client[w].id = j /\ Fits(w, j)
    BY HolderHas DEF Threads
  <1>3. pc[w] # "popped" => /\ job[j] = client[w].rec /\ job[j] # None
                            /\ client[w].rec.state = KeptState[pc[w]]
    BY <1>1, <1>2, HolderHas, PointKinds, RecordStates
  <1>4. /\ KeptState["beatClaim"] = "CLAIMED" /\ KeptState["transcode"] = "PROCESSING"
        /\ {"claim", "process", "complete", "requeue", "fail"} \subseteq SavePoints
    BY DEF KeptState, SavePoints
  <1>5. CASE ClaimJob(w)
    <2>1. CallSave(w, "claim", j, Claimed(job[j], w)) /\ Pending(j)
      BY <1>2, <1>5 DEF ClaimJob
    <2>2. Follows("claim", job[j], Claimed(job[j], w))
      BY <2>1 DEF Follows, Pending
    <2> QED
      BY <1>1, <1>2, <1>4, <2>1, <2>2, JobCall
  <1>6. CASE BeatClaim(w)
    <2>1. CallSave(w, "process", j, Processing(job[j])) /\ pc[w] = "beatClaim"
      BY <1>2, <1>3, <1>6 DEF BeatClaim, At
    <2>2. Follows("process", job[j], Processing(job[j]))
      BY <1>3, <1>4, <2>1 DEF Follows
    <2> QED
      BY <1>1, <1>2, <1>4, <2>1, <2>2, JobCall
  <1>7. CASE WriteSummary(w)
    <2>1. CallSave(w, "complete", j, Completed(job[j])) /\ pc[w] = "transcode"
      BY <1>2, <1>3, <1>7 DEF WriteSummary, At
    <2>2. Follows("complete", job[j], Completed(job[j]))
      BY <1>3, <1>4, <2>1 DEF Follows
    <2> QED
      BY <1>1, <1>2, <1>4, <2>1, <2>2, JobCall
  <1>8. CASE RetryFailed(w) \/ GiveUpFailed(w)
    <2>1. pc[w] = "transcode" /\ job[j] # None /\ job[j].state \in HeldStates
      BY <1>3, <1>4, <1>8 DEF RetryFailed, GiveUpFailed, At, HeldStates
    <2>2. Current(w) = job[j]
      BY <1>2, <2>1 DEF Current
    <2>3. CASE RetryFailed(w)
      <3>1. CallSave(w, "requeue", j, Retried(job[j])) /\ job[j].attempt < MaxRetries
        BY <1>2, <2>2, <2>3 DEF RetryFailed
      <3>2. Follows("requeue", job[j], Retried(job[j]))
        BY <2>1, <3>1 DEF Follows
      <3> QED
        BY <1>1, <1>2, <1>4, <3>1, <3>2, JobCall
    <2>4. CASE GiveUpFailed(w)
      <3>1. CallSave(w, "fail", j, GivenUp(job[j])) /\ job[j].attempt >= MaxRetries
        BY <1>2, <2>2, <2>4 DEF GiveUpFailed
      <3>2. job[j].attempt = MaxRetries
        <4>1. job[j] \in TranscodeJob
          BY <2>1, HandsTyped DEF StoredTypeOK
        <4>2. job[j].attempt \in Nat /\ MaxRetries \in Nat
          BY <4>1, PipelineAssumption DEF TranscodeJob
        <4>3. job[j].attempt <= MaxRetries
          BY <2>1 DEF AttemptsBounded
        <4> QED
          BY <3>1, <4>2, <4>3
      <3>3. Follows("fail", job[j], GivenUp(job[j]))
        BY <2>1, <3>2 DEF Follows
      <3> QED
        BY <1>1, <1>2, <1>4, <3>1, <3>3, JobCall
    <2> QED
      BY <1>8, <2>3, <2>4
  <1> QED
    BY <1>5, <1>6, <1>7, <1>8

LEMMA JobPushed ==
  ASSUME PipelineTypeOK, NEW c \in Threads, ThreadStep(c), NEW j \in Jobs, JobOK(j), Has(c, j),
         PushPending(c)
  PROVE  JobOK(j)'
  <1>1. /\ Others(c) /\ alive' = alive
        /\ pc[c] = "push" /\ UNCHANGED <<job, index, created>> /\ queue \in Seq(Jobs)
        /\ LetGo(c, AfterPush(c)) /\ queue' = Append(queue, client[c].id)
    BY OthersStay, LiveSteps, HandsTyped DEF PushPending, At, SharedTypeOK
  <1>2. /\ client[c].id = j /\ ~Queued(j) /\ job[j].state = "PENDING" /\ job[j] # None
        /\ ~(j > created) /\ \A d \in Threads \ {c} : ~Has(d, j)
    <2>1. pc[c] \in HasRecord \ SavePoints /\ KeptState[pc[c]] = "PENDING"
      BY <1>1, PointKinds DEF KeptState
    <2> QED
      BY <2>1, HolderHas, RecordStates
  <1>3. Once(j)'
    BY <1>1, <1>2, QueueAppended DEF JobOK
  <1>4. pc'[c] \notin HasId
    BY <1>1, HandsTyped, PointKinds, WalkingPoints DEF LetGo, Goto, Hands, AfterPush
  <1>5. ~Has(c, j)' /\ Pending(j)'
    BY <1>1, <1>2, <1>4 DEF Has, Pending
  <1>6. \A t \in JobStates : j \in index'[t] => job'[j] # None /\ job'[j].state = t
    BY <1>1 DEF JobOK
  <1> QED
    BY <1>1, <1>2, <1>3, <1>5, <1>6, JobOfHolder

-----------------------------------------------------------------------------
(* A thread takes a job that nobody has.                                    *)

LEMMA JobTaken ==
  ASSUME PipelineTypeOK, NEW c \in Threads, ThreadStep(c), NEW j \in Jobs, JobOK(j),
         \A d \in Threads : ~Has(d, j), ~Queued(j)', Once(j)', Fits(c, j)',
         UNCHANGED <<job, index>>, ~(j > created')
  PROVE  JobOK(j)'
  <1>1. Others(c) /\ alive' = alive
    BY OthersStay, LiveSteps
  <1>2. \A t \in JobStates : j \in index'[t] => job'[j] # None /\ job'[j].state = t
    BY DEF JobOK
  <1> QED
    BY <1>1, <1>2, JobOfHolder

\* A thread goes on to the first save of a job that nobody has.
LEMMA JobFirstCall ==
  ASSUME PipelineTypeOK, NEW c \in Threads, ThreadStep(c), NEW j \in Jobs, JobOK(j),
         \A d \in Threads : ~Has(d, j), ~Queued(j),
         UNCHANGED <<job, index, queue>>, ~(j > created'),
         NEW p \in SavePoints, NEW r, CallSave(c, p, j, r), Follows(p, job[j], r)
  PROVE  JobOK(j)'
  <1>1. client'[c] = HandOver(j, r) /\ pc'[c] = p
    BY HandsTyped DEF Hands, CallSave, Goto
  <1>2. Fits(c, j)'
    BY <1>1, PointKinds DEF Fits, HandOver
  <1>3. ~Queued(j)' /\ Once(j)'
    BY DEF Queued, Once, JobOK
  <1> QED
    BY <1>2, <1>3, JobTaken

LEMMA JobCreated ==
  ASSUME PipelineTypeOK, NEW s \in Scanners, ThreadStep(s), NEW i \in Inputs, EnqueueJob(s, i),
         NEW j \in Jobs, JobOK(j), j = created + 1
  PROVE  JobOK(j)'
  <1>1. /\ s \in Threads /\ created \in Nat
        /\ UNCHANGED <<job, index, queue>> /\ created' = created + 1
        /\ CallSave(s, "create", j, NewJob(i)) /\ "create" \in SavePoints
    BY HandsTyped DEF Threads, EnqueueJob, SharedTypeOK, SavePoints
  <1>2. job[j] = None /\ ~Queued(j) /\ \A c \in Threads : ~Has(c, j)
    BY <1>1 DEF JobOK
  <1>3. Follows("create", job[j], NewJob(i))
    BY <1>2 DEF Follows
  <1>4. ~(j > created')
    BY <1>1
  <1> QED
    BY <1>1, <1>2, <1>3, <1>4, JobFirstCall

LEMMA JobDequeued ==
  ASSUME PipelineTypeOK, NEW w \in Workers, ThreadStep(w), Dequeue(w),
         NEW j \in Jobs, JobOK(j), j = Head(queue)
  PROVE  JobOK(j)'
  <1>1. /\ w \in Threads /\ created \in Nat
        /\ client \in [Threads -> ClientType] /\ pc \in [Threads -> Points]
        /\ pc[w] = "idle" /\ UNCHANGED <<job, index, created>>
        /\ queue \in Seq(Jobs) /\ queue # <<>> /\ queue' = Tail(queue)
    BY HandsTyped DEF Threads, Dequeue, At, Hands, SharedTypeOK
  <1>2. Queued(j) /\ ~Queued(j)' /\ Once(j)'
    BY <1>1, QueueTail DEF JobOK
  <1>3. Pending(j) /\ ~(j > created) /\ \A c \in Threads : ~Has(c, j)
    BY <1>2 DEF JobOK
  <1>4. client'[w].step = "idle" /\ pc'[w] = "popped"
    <2>1. client[w] \in ClientType /\ client[w].step = "idle"
      BY <1>1, HandsTyped, PointKinds DEF Hands, HandTypeOK
    <2>2. client' = [client EXCEPT ![w].id = Head(queue), ![w].rec = None]
      BY DEF Dequeue
    <2> QED
      BY <1>1, <2>1, <2>2 DEF ClientType, Dequeue, Goto
  <1>5. "popped" \notin SavePoints /\ "popped" \notin HasRecord
    BY DEF SavePoints, HasRecord
  <1>6. Fits(w, j)'
    BY <1>1, <1>3, <1>4, <1>5 DEF Fits, Pending
  <1> QED
    BY <1>1, <1>2, <1>3, <1>6, JobTaken

\* Recovery is right to take over a job that is abandoned: nobody has it, it is not
\* queued, and what it goes on to store is the next in its life.
LEMMA JobRecovered ==
  ASSUME PipelineTypeOK, AttemptsBounded, NEW r \in Recoverers, NEW s \in pass[r].found,
         ThreadStep(r), TakesOver(r, s), Abandoned(s), JobOK(s.id)
  PROVE  s.id \in Jobs /\ JobOK(s.id)'
  <1>1. pass[r] \in [state : HeldStates, ids : SUBSET Jobs, found : SUBSET [id : Jobs, rec : TranscodeJob]]
    BY TypeParts DEF PassTypeOK
  <1>2. s.id \in Jobs /\ s.rec \in TranscodeJob
    BY <1>1
  <1>3. PICK k \in Jobs : k = s.id /\ job[k] = s.rec /\ JobOK(k)
    BY <1>2 DEF Abandoned
  <1>4. UNCHANGED <<job, index, queue, created>> /\ r \in Threads
    BY DEF TakesOver, RecoveryRequeues, RecoveryGivesUp, shared, Threads
  <1>5. \A d \in Threads : ~Has(d, k)
    BY <1>3 DEF Abandoned, Has
  <1>6. job[k] # None /\ job[k].state \in HeldStates /\ job[k].state # "PENDING"
    BY <1>2, <1>3, RecordStates DEF Abandoned, HeldStates
  <1>7. ~Queued(k) /\ ~(k > created')
    BY <1>3, <1>4, <1>6 DEF JobOK, Pending
  <1>8. {"requeue", "fail"} \subseteq SavePoints
    BY DEF SavePoints
  <1>9. CASE RecoveryRequeues(r, s)
    <2>1. CallSave(r, "requeue", k, Retried(job[k])) /\ job[k].attempt < MaxRetries
      BY <1>3, <1>9 DEF RecoveryRequeues
    <2>2. Follows("requeue", job[k], Retried(job[k]))
      BY <1>6, <2>1 DEF Follows
    <2> QED
      BY <1>3, <1>4, <1>5, <1>7, <1>8, <2>1, <2>2, JobFirstCall
  <1>10. CASE RecoveryGivesUp(r, s)
    <2>1. CallSave(r, "fail", k, GivenUp(job[k])) /\ job[k].attempt >= MaxRetries
      BY <1>3, <1>10 DEF RecoveryGivesUp
    <2>2. job[k].attempt \in Nat /\ MaxRetries \in Nat
      BY <1>2, <1>3, PipelineAssumption DEF TranscodeJob
    <2>3. job[k].attempt <= MaxRetries
      BY <1>6 DEF AttemptsBounded
    <2>4. Follows("fail", job[k], GivenUp(job[k]))
      BY <1>6, <2>1, <2>2, <2>3 DEF Follows
    <2> QED
      BY <1>3, <1>4, <1>5, <1>7, <1>8, <2>1, <2>4, JobFirstCall
  <1> QED
    BY <1>2, <1>9, <1>10 DEF TakesOver

\* The rest of a pass takes no job.
PassWalks(r) ==
  \/ RecoveryStarts(r) \/ RecoveryMovesOn(r) \/ RecoveryReads(r)
  \/ \E s \in pass[r].found : RecoverySkips(r, s) \/ RecoveryAborts(r, s)

LEMMA WalksFree ==
  ASSUME PipelineTypeOK, NEW r \in Recoverers, ThreadStep(r), PassWalks(r)
  PROVE  /\ UNCHANGED <<job, index, client, shared>>
         /\ pc[r] \in {"idle", "list", "check"} /\ pc'[r] \in {"idle", "list", "check"}
  <1>1. r \in Threads /\ pc \in [Threads -> Points]
    BY HandsTyped DEF Threads, Hands
  <1>2. pc[r] \in {"idle", "list", "check"} /\ UNCHANGED <<job, index, client, shared>>
    BY DEF PassWalks, RecoveryStarts, RecoveryMovesOn, RecoveryReads, RecoverySkips,
           RecoveryAborts, Stale, Reached, At
  <1>3. pc' = pc \/ \E p \in {"idle", "list", "check"} : Goto(r, p)
    <2>1. CASE RecoveryStarts(r) \/ RecoveryMovesOn(r)
      BY <2>1, WalkingPoints DEF RecoveryStarts, RecoveryMovesOn, ListIds
    <2>2. CASE RecoveryReads(r)
      BY <2>2, WalkingPoints DEF RecoveryReads
    <2>3. ASSUME NEW s \in pass[r].found, RecoverySkips(r, s) \/ RecoveryAborts(r, s)
          PROVE  \E p \in {"idle", "list", "check"} : Goto(r, p)
      BY <2>3, WalkingPoints DEF RecoverySkips, RecoveryAborts
    <2> QED
      BY <2>1, <2>2, <2>3 DEF PassWalks
  <1> QED
    BY <1>1, <1>2, <1>3 DEF Goto

-----------------------------------------------------------------------------
(* The steps of the threads, of time and of the faults, for one job that    *)
(* they do not forfeit.                                                     *)

\* A thread that had the job.
LEMMA HeldThread ==
  ASSUME PipelineTypeOK, AttemptsBounded, NEW c \in Threads, ThreadStep(c),
         NEW j \in Jobs, JobOK(j), Has(c, j)
  PROVE  JobOK(j)'
  <1>1. client[c].id = j /\ pc[c] \in HasId
    BY DEF Has
  <1>2. CASE SaveCommand(c)
    BY <1>2, JobSaveGet, JobSaveSrem, JobSaveSet DEF SaveCommand, shared
  <1>3. CASE SaveReturns(c)
    BY <1>3, JobSaveReturns
  <1>4. CASE PushPending(c)
    BY <1>4, JobPushed
  <1>5. CASE PushDeadLetter(c)
    BY <1>5, JobLeaves
  <1>6. CASE c \in Scanners /\ ScanStep(c)
    <2>1. ~\E i \in Inputs : EnqueueJob(c, i)
      BY <1>1, PointKinds DEF EnqueueJob, At
    <2> QED
      BY <1>6, <2>1, JobGoesOn DEF ScanStep
  <1>7. CASE c \in Workers /\ WorkerStep(c)
    <2>1. ~Dequeue(c)
      BY <1>1, PointKinds DEF Dequeue, At
    <2> QED
      BY <1>7, <2>1, JobLeaves, JobGoesOn, JobWorkerSaves DEF WorkerStep
  <1>8. CASE c \in Recoverers /\ RecoveryStep(c)
    <2>1. pc[c] \in {"idle", "list", "check"}
      BY <1>8 DEF RecoveryStep, RecoveryStarts, RecoveryReads, RecoveryMovesOn, RecoverySkips,
                  RecoveryRequeues, RecoveryGivesUp, RecoveryAborts, Stale, Reached, At
    <2> QED
      BY <1>1, <2>1, PointKinds
  <1> QED
    BY <1>2, <1>3, <1>4, <1>5, <1>6, <1>7, <1>8 DEF ThreadStep, RedisStep

\* A thread that had another job, or none, and has this one now, took it.
LEMMA TakenHow ==
  ASSUME PipelineTypeOK, NEW c \in Threads, ThreadStep(c), NEW j \in Jobs, ~Has(c, j), Has(c, j)'
  PROVE  \/ c \in Scanners /\ j = created + 1 /\ \E i \in Inputs : EnqueueJob(c, i)
         \/ c \in Workers /\ j = Head(queue) /\ Dequeue(c)
         \/ c \in Recoverers /\ \E s \in pass[c].found : TakesOver(c, s) /\ s.id = j
  <1>1. /\ c \in alive /\ pc'[c] \in HasId /\ client'[c].id = j
        /\ pc[c] \in HasId => client[c].id # j
        /\ client \in [Threads -> ClientType] /\ pc \in [Threads -> Points]
    BY LiveSteps, HandsTyped DEF Has, Hands
  <1>2. client[c] \in ClientType
    BY <1>1
  <1>3. ASSUME NEW p, LetGo(c, p), p \notin HasId PROVE FALSE
    BY <1>1, <1>3 DEF LetGo, Goto
  <1>4. ASSUME pc[c] \in HasId, client'[c].id = client[c].id PROVE FALSE
    BY <1>1, <1>4
  <1>5. ASSUME pc[c] \in HasId, NEW p, NEW r, CallSave(c, p, client[c].id, r) PROVE FALSE
    BY <1>1, <1>5 DEF CallSave, HandOver
  <1>6. CASE SaveCommand(c)
    <2>1. pc[c] \in HasId
      BY <1>6 DEF SaveCommand, HasId
    <2>2. client'[c].id = client[c].id
      BY <1>1, <1>2, <1>6 DEF SaveCommand, SaveGet, SaveSrem, SaveSet, ClientType
    <2> QED
      BY <1>4, <2>1, <2>2
  <1>7. CASE SaveReturns(c)
    <2>1. pc[c] \in SavePoints /\ pc[c] \in HasId /\ pc'[c] = AfterSave[pc[c]]
      BY <1>1, <1>7 DEF SaveReturns, HasId, Goto
    <2>2. pc[c] # "complete"
      BY <1>1, <2>1, SaveTargets
    <2>3. client'[c].id = client[c].id
      BY <1>1, <1>2, <1>7, <2>2 DEF SaveReturns, SaveSadd, Saved, ClientType
    <2> QED
      BY <1>4, <2>1, <2>3
  <1>8. CASE PushPending(c) \/ PushDeadLetter(c)
    <2>1. PICK p \in {"idle", "check"} : LetGo(c, p)
      BY <1>8, WalkingPoints DEF PushPending, PushDeadLetter, AfterPush
    <2> QED
      BY <1>3, <2>1, PointKinds
  <1>9. CASE c \in Scanners /\ ScanStep(c)
    <2>1. CASE MarkProcessed(c)
      BY <1>4, <2>1, PointKinds DEF MarkProcessed, At, HasRecord
    <2>2. ASSUME NEW i \in Inputs, EnqueueJob(c, i) PROVE j = created + 1
      BY <1>1, <2>2 DEF EnqueueJob, CallSave, HandOver
    <2> QED
      BY <1>9, <2>1, <2>2 DEF ScanStep
  <1>10. CASE c \in Workers /\ WorkerStep(c)
    <2>1. CASE Dequeue(c)
      <3>1. client'[c].id = Head(queue)
        <4>1. client' = [client EXCEPT ![c].id = Head(queue), ![c].rec = None]
          BY <2>1 DEF Dequeue
        <4> QED
          BY <1>1, <1>2, <4>1 DEF ClientType
      <3> QED
        BY <1>1, <1>10, <2>1, <3>1
    <2>2. CASE DropPopped(c) \/ WorkerDies(c)
      BY <1>3, <2>2, PointKinds DEF DropPopped, WorkerDies
    <2>3. CASE BeatProcess(c)
      BY <1>4, <2>3, PointKinds DEF BeatProcess, At, HasRecord
    <2>4. CASE ClaimJob(c) \/ BeatClaim(c) \/ WriteSummary(c) \/ RetryFailed(c) \/ GiveUpFailed(c)
      <3>1. pc[c] \in HasId
        BY <2>4, PointKinds
           DEF ClaimJob, BeatClaim, WriteSummary, RetryFailed, GiveUpFailed, At, HasRecord
      <3>2. \E p, r : CallSave(c, p, client[c].id, r)
        BY <2>4 DEF ClaimJob, BeatClaim, WriteSummary, RetryFailed, GiveUpFailed
      <3> QED
        BY <1>5, <3>1, <3>2
    <2> QED
      BY <1>10, <2>1, <2>2, <2>3, <2>4 DEF WorkerStep
  <1>11. CASE c \in Recoverers /\ RecoveryStep(c)
    <2>1. CASE PassWalks(c)
      BY <1>1, <1>11, <2>1, WalksFree, PointKinds
    <2>2. ASSUME NEW s \in pass[c].found, TakesOver(c, s) PROVE s.id = j
      BY <1>1, <2>2 DEF TakesOver, RecoveryRequeues, RecoveryGivesUp, CallSave, HandOver
    <2> QED
      BY <1>11, <2>1, <2>2 DEF RecoveryStep, PassWalks, TakesOver
  <1> QED
    BY <1>6, <1>7, <1>8, <1>9, <1>10, <1>11 DEF ThreadStep, RedisStep

LEMMA JobThread ==
  ASSUME PipelineTypeOK, AttemptsBounded, NEW c \in Threads, ThreadStep(c),
         NEW j \in Jobs, JobOK(j), ~Forfeits(j)
  PROVE  JobOK(j)'
  <1>1. CASE Has(c, j)
    BY <1>1, HeldThread
  <1>2. CASE ~Has(c, j) /\ ~Has(c, j)'
    BY <1>2, JobUnheld
  <1>3. CASE ~Has(c, j) /\ Has(c, j)'
    <2>1. CASE c \in Scanners /\ j = created + 1 /\ \E i \in Inputs : EnqueueJob(c, i)
      BY <2>1, JobCreated
    <2>2. CASE c \in Workers /\ j = Head(queue) /\ Dequeue(c)
      BY <2>2, JobDequeued
    <2>3. ASSUME c \in Recoverers, NEW s \in pass[c].found, TakesOver(c, s), s.id = j
          PROVE  JobOK(j)'
      <3>1. Abandoned(s)
        BY <2>3 DEF Forfeits
      <3> QED
        BY <2>3, <3>1, JobRecovered
    <2> QED
      BY <1>3, <2>1, <2>2, <2>3, TakenHow
  <1> QED
    BY <1>1, <1>2, <1>3

\* A heartbeat that ends, in whichever way, changes nothing of this.
LEMMA JobTime ==
  ASSUME PipelineTypeOK, NEW k \in Jobs, HeartbeatLeft(k) \/ HeartbeatLapses(k) \/ JobExpires(k),
         NEW j \in Jobs, JobOK(j), ~Forfeits(j)
  PROVE  JobOK(j)'
  <1>1. UNCHANGED <<index, client, queue, created, pc, alive>> /\ job'[j] = job[j]
    <2>1. CASE JobExpires(k)
      <3>1. k # j /\ job \in [Jobs -> TranscodeJob \cup {None}]
        BY <2>1, HandsTyped DEF Forfeits, StoredTypeOK
      <3> QED
        BY <2>1, <3>1 DEF JobExpires, Expire, shared
    <2> QED
      BY <2>1 DEF HeartbeatLeft, HeartbeatLapses
  <1> QED
    BY <1>1 DEF JobOK, Has, Fits, Pending, Queued, Once

LEMMA JobCrash ==
  ASSUME NEW P \in Processes, Crash(P), NEW j \in Jobs, JobOK(j)
  PROVE  JobOK(j)'
  <1>1. /\ UNCHANGED <<job, index, client, queue, created, pc>>
        /\ alive' \subseteq alive
    BY DEF Crash, shared
  <1>2. \A c \in Threads : Has(c, j)' => Has(c, j)
    BY <1>1 DEF Has
  <1>3. \A c \in Threads : Fits(c, j) => Fits(c, j)'
    BY <1>1 DEF Fits, Pending
  <1> QED
    BY <1>1, <1>2, <1>3 DEF JobOK, Pending, Queued, Once

LEMMA LifeInit == TakeoverInit => LifeInv
  <1> SUFFICES ASSUME TakeoverInit PROVE LifeInv
    OBVIOUS
  <1>1. /\ job = [j \in Jobs |-> None] /\ index = [s \in JobStates |-> {}]
        /\ queue = <<>> /\ pc = [c \in Threads |-> "idle"]
    BY DEF TakeoverInit, Init, StoreInit
  <1>2. \A c \in Threads : \A j : ~Has(c, j)
    BY <1>1, PointKinds DEF Has
  <1>3. \A j : ~Queued(j)
    BY <1>1 DEF Queued
  <1>4. \A j \in Jobs : JobOK(j)
    BY <1>1, <1>2, <1>3 DEF JobOK, Once
  <1> QED
    BY <1>4 DEF LifeInv

\* The history variable only watches.
LEMMA TakeoverPipeline == TakeoverSpec => Spec
  <1>1. TakeoverInit => Init
    BY DEF TakeoverInit
  <1>2. [TakeoverNext]_takeoverVars => [Next]_vars
    BY DEF TakeoverNext, takeoverVars
  <1> QED
    BY <1>1, <1>2, PTL DEF TakeoverSpec, Spec

LEMMA TakeoverCases ==
  ASSUME [TakeoverNext]_takeoverVars
  PROVE  /\ [Next]_vars
         /\ ~UNCHANGED vars => forfeited' = forfeited \cup {j \in Jobs : Forfeits(j)}
  BY DEF TakeoverNext, takeoverVars

LEMMA LifeStep ==
  ASSUME PipelineTypeOK, AttemptsBounded, LifeInv, [TakeoverNext]_takeoverVars
  PROVE  LifeInv'
  <1> SUFFICES ASSUME NEW j \in Jobs, j \notin forfeited' PROVE JobOK(j)'
    BY DEF LifeInv
  <1>1. CASE UNCHANGED takeoverVars
    <2>1. UNCHANGED <<job, index, client, queue, created, pc, alive, forfeited>>
      BY <1>1 DEF takeoverVars, vars, shared
    <2> QED
      BY <2>1 DEF LifeInv, JobOK, Has, Fits, Pending, Queued, Once
  <1>2. CASE TakeoverNext
    <2>1. j \notin forfeited /\ ~Forfeits(j) /\ [Next]_vars
      BY <1>2 DEF TakeoverNext
    <2>2. JobOK(j)
      BY <2>1 DEF LifeInv
    <2>3. CASE UNCHANGED vars
      <3>1. UNCHANGED <<job, index, client, queue, created, pc, alive>>
        BY <2>3 DEF vars, shared
      <3> QED
        BY <2>2, <3>1 DEF JobOK, Has, Fits, Pending, Queued, Once
    <2> QED
      BY <2>1, <2>2, <2>3, NextCases, JobThread, JobTime, JobCrash
  <1> QED
    BY <1>1, <1>2

LEMMA LifeKnown == TakeoverSpec => [](PipelineTypeOK /\ LifeInv)
  <1>1. PipelineTypeOK /\ AttemptsBounded /\ LifeInv /\ [TakeoverNext]_takeoverVars => LifeInv'
    BY LifeStep
  <1> QED
    BY <1>1, LifeInit, TakeoverPipeline, PipelineTyped, PipelineAttempts, PTL DEF TakeoverSpec

-----------------------------------------------------------------------------
\* While a worker transcodes a job that is not forfeited nobody else writes its record,
\* whatever overlaps, lapses or crashes.
THEOREM PipelineHolderOwns == TakeoverSpec => []HolderOwnsRecord
  <1>1. PipelineTypeOK /\ LifeInv => HolderOwnsRecord
    <2> SUFFICES ASSUME PipelineTypeOK, LifeInv, NEW w \in Workers \cap alive,
                        pc[w] \in {"beatProcess", "transcode"}, client[w].id \notin forfeited
                 PROVE  job[client[w].id] = client[w].rec
      BY DEF HolderOwnsRecord
    <2>1. w \in Threads /\ w \in alive /\ pc[w] \in HasId /\ pc[w] \in HasRecord \ SavePoints
      BY PointKinds DEF Threads, HasRecord
    <2>2. client[w].id \in Jobs
      BY <2>1, HandsTyped DEF Hands, HandTypeOK
    <2>3. Has(w, client[w].id) /\ JobOK(client[w].id)
      BY <2>1, <2>2 DEF Has, LifeInv
    <2> QED
      BY <2>1, <2>2, <2>3, HolderHas
  <1> QED
    BY <1>1, LifeKnown, PTL

\* When no save of a job is under way, and none was cut off by a crash, a job that is
\* not forfeited is in the index of its state and in no other, whatever saves overlap.
THEOREM PipelineIndexExact == TakeoverSpec => []IndexExact
  <1>1. PipelineTypeOK /\ LifeInv /\ IndexCovers => IndexExact
    <2> SUFFICES ASSUME PipelineTypeOK, LifeInv, IndexCovers, NEW j \in Jobs \ forfeited,
                        \A c \in Threads : ~Saving(c, j), NEW s \in JobStates
                 PROVE  j \in index[s] <=> (job[j] # None /\ job[j].state = s)
      BY DEF IndexExact
    <2>1. j \in index[s] => job[j] # None /\ job[j].state = s
      BY DEF LifeInv, JobOK
    <2>2. job[j] # None => j \in index[job[j].state]
      BY DEF IndexCovers, WillIndex, Saving
    <2> QED
      BY <2>1, <2>2
  <1> QED
    BY <1>1, LifeKnown, TakeoverPipeline, PipelineIndexCovers, PTL

-----------------------------------------------------------------------------
(* The life of a job.                                                       *)

\* A step forfeits one job, and changes the record of no other.
LEMMA ForfeitsOne ==
  ASSUME PipelineTypeOK, NEW j \in Jobs, Forfeits(j)
  PROVE  /\ \A i \in Jobs \ {j} : job'[i] = job[i] /\ ~Forfeits(i)
         /\ \A w \in Workers : client'[w] = client[w] /\ pc'[w] = pc[w]
         /\ alive' = alive
  <1>1. /\ job \in [Jobs -> TranscodeJob \cup {None}]
        /\ client \in [Threads -> ClientType] /\ pc \in [Threads -> Points]
        /\ Workers \subseteq Threads /\ Recoverers \subseteq Threads
        /\ Workers \cap Recoverers = {}
    BY HandsTyped, PipelineAssumption DEF Hands, StoredTypeOK, Threads
  <1>2. ASSUME NEW r \in Recoverers, NEW s \in pass[r].found, TakesOver(r, s)
        PROVE  /\ job' = job /\ alive' = alive
               /\ pc[r] = "check" /\ pc'[r] # "check" /\ client'[r].id = s.id
               /\ \A d \in Threads : d # r => client'[d] = client[d] /\ pc'[d] = pc[d]
    <2>1. /\ job' = job /\ alive' = alive /\ pc[r] = "check"
          /\ \E p \in {"requeue", "fail"} : \E rec : CallSave(r, p, s.id, rec)
      BY <1>2 DEF TakesOver, RecoveryRequeues, RecoveryGivesUp, Stale, Reached, At
    <2> QED
      BY <1>1, <2>1 DEF CallSave, Goto, HandOver
  <1>3. ASSUME NEW i \in Jobs, JobExpires(i)
        PROVE  /\ job'[i] # job[i] /\ UNCHANGED <<client, pc, alive>>
               /\ \A k \in Jobs \ {i} : job'[k] = job[k]
    BY <1>1, <1>3 DEF JobExpires, Expire
  <1>4. CASE JobExpires(j)
    <2>1. \A r \in Recoverers : \A s \in pass[r].found : ~TakesOver(r, s)
      BY <1>2, <1>3, <1>4
    <2> QED
      BY <1>3, <1>4, <2>1 DEF Forfeits
  <1>5. ASSUME NEW r \in Recoverers, NEW s \in pass[r].found, s.id = j, TakesOver(r, s)
        PROVE  /\ \A i \in Jobs \ {j} : job'[i] = job[i] /\ ~Forfeits(i)
               /\ \A w \in Workers : client'[w] = client[w] /\ pc'[w] = pc[w]
               /\ alive' = alive
    <2>1. \A i \in Jobs : ~JobExpires(i)
      BY <1>2, <1>3, <1>5
    <2>2. \A q \in Recoverers : \A t \in pass[q].found : TakesOver(q, t) => t.id = j
      <3> SUFFICES ASSUME NEW q \in Recoverers, NEW t \in pass[q].found, TakesOver(q, t)
                   PROVE  t.id = j
        OBVIOUS
      <3>1. q = r
        BY <1>1, <1>2, <1>5
      <3> QED
        BY <1>2, <1>5, <3>1
    <2>3. \A i \in Jobs \ {j} : ~Forfeits(i)
      BY <2>1, <2>2 DEF Forfeits
    <2> QED
      BY <1>1, <1>2, <1>5, <2>3
  <1> QED
    BY <1>4, <1>5 DEF Forfeits

LEMMA StepForfeits ==
  ASSUME PipelineTypeOK, [TakeoverNext]_takeoverVars, forfeited' # forfeited
  PROVE  \E j \in Jobs : Forfeits(j) /\ forfeited' = forfeited \cup {j}
  <1>1. forfeited' = forfeited \cup {j \in Jobs : Forfeits(j)}
    BY DEF TakeoverNext, takeoverVars
  <1>2. PICK j \in Jobs : Forfeits(j)
    BY <1>1
  <1>3. \A i \in Jobs : Forfeits(i) => i = j
    BY <1>2, ForfeitsOne
  <1> QED
    BY <1>1, <1>2, <1>3

\* A change of a record that is its next step in the pipeline is one in JobLifecycle.
LEMMA FollowsIsLife ==
  ASSUME job \in [Jobs -> TranscodeJob \cup {None}], NEW j \in Jobs, NEW p \in SavePoints,
         NEW r \in TranscodeJob, Follows(p, job[j], r), job' = [job EXCEPT ![j] = r],
         j \notin forfeited, forfeited' = forfeited
  PROVE  Lifecycle!Next
  <1>0. Life[j] = job[j] /\ Life' = [Life EXCEPT ![j] = r] /\ UNCHANGED forfeited
    BY DEF Life
  <1>1. CASE p = "create"
    BY <1>0, <1>1 DEF Follows, NewJob, Lifecycle!Next, Lifecycle!Create
  <1>2. CASE p # "create"
    <2>1. job[j] # None /\ job[j] \in TranscodeJob
      BY <1>2 DEF Follows
    <2>2. ASSUME NEW s \in {"PENDING", "CLAIMED", "PROCESSING"}, job[j].state = s,
                 r.state \in Lifecycle!ValidTransitions[s]
          PROVE  Lifecycle!Move(j, s, r)
      BY <1>0, <2>1, <2>2 DEF Lifecycle!Move, Lifecycle!CanTransition
    <2>3. CASE p = "claim"
      <3>1. PICK w \in Workers : job[j].state = "PENDING" /\ r = Claimed(job[j], w)
        BY <2>3 DEF Follows
      <3>2. Lifecycle!Move(j, "PENDING", r)
        BY <2>1, <2>2, <3>1, RecordMoves DEF Lifecycle!ValidTransitions
      <3>3. Lifecycle!Move(j, "PENDING", [Life[j] EXCEPT !.state = "CLAIMED", !.worker = w])
        BY <1>0, <3>1, <3>2 DEF Claimed
      <3> QED
        BY <3>3 DEF Lifecycle!Next, Lifecycle!Claim
    <2>4. CASE p = "process"
      <3>1. job[j].state = "CLAIMED" /\ r = Processing(job[j])
        BY <2>4 DEF Follows
      <3>2. Lifecycle!Move(j, "CLAIMED", r)
        BY <2>1, <2>2, <3>1, RecordMoves DEF Lifecycle!ValidTransitions
      <3>3. Lifecycle!Move(j, "CLAIMED", [Life[j] EXCEPT !.state = "PROCESSING"])
        BY <1>0, <3>1, <3>2 DEF Processing
      <3> QED
        BY <3>3 DEF Lifecycle!Next, Lifecycle!Start
    <2>5. CASE p = "complete"
      <3>1. job[j].state = "PROCESSING" /\ r = Completed(job[j])
        BY <2>5 DEF Follows
      <3>2. Lifecycle!Move(j, "PROCESSING", r)
        BY <2>1, <2>2, <3>1, RecordMoves DEF Lifecycle!ValidTransitions
      <3>3. Lifecycle!Move(j, "PROCESSING", [Life[j] EXCEPT !.state = "COMPLETED"])
        BY <1>0, <3>1, <3>2 DEF Completed
      <3> QED
        BY <3>3 DEF Lifecycle!Next, Lifecycle!Complete
    <2>6. CASE p = "requeue"
      <3>1. PICK s \in HeldStates : job[j].state = s
        BY <2>6 DEF Follows
      <3>2. job[j].attempt < MaxRetries /\ r = Retried(job[j])
        BY <2>6 DEF Follows
      <3>3. Lifecycle!Move(j, s, r) /\ s \in Lifecycle!HeldStates
        BY <2>1, <2>2, <3>1, <3>2, RecordMoves
           DEF Lifecycle!ValidTransitions, HeldStates, Lifecycle!HeldStates
      <3>4. Lifecycle!Move(j, s, [Life[j] EXCEPT !.state = "PENDING", !.worker = None, !.attempt = @ + 1])
        BY <1>0, <3>2, <3>3 DEF Retried
      <3>5. Life[j] # None /\ Life[j].attempt = job[j].attempt
        BY <1>0, <2>1
      <3> QED
        BY <3>2, <3>3, <3>4, <3>5 DEF Lifecycle!Next, Lifecycle!Retry
    <2>7. CASE p = "fail"
      <3>1. PICK s \in HeldStates : job[j].state = s
        BY <2>7 DEF Follows
      <3>2. job[j].attempt = MaxRetries /\ r = GivenUp(job[j])
        BY <2>7 DEF Follows
      <3>3. Lifecycle!Move(j, s, r) /\ s \in Lifecycle!HeldStates
        BY <2>1, <2>2, <3>1, <3>2, RecordMoves
           DEF Lifecycle!ValidTransitions, HeldStates, Lifecycle!HeldStates
      <3>4. Lifecycle!Move(j, s, [Life[j] EXCEPT !.state = "FAILED", !.worker = None])
        BY <1>0, <3>2, <3>3 DEF GivenUp
      <3>5. Life[j] # None /\ Life[j].attempt = job[j].attempt
        BY <1>0, <2>1
      <3> QED
        BY <3>2, <3>3, <3>4, <3>5 DEF Lifecycle!Next, Lifecycle!GiveUp
    <2> QED
      BY <1>2, <2>3, <2>4, <2>5, <2>6, <2>7 DEF SavePoints
  <1> QED
    BY <1>1, <1>2

\* Whatever overlaps, lapses or crashes, every change of a record is a step of the life
\* the job is promised, until the job is forfeited.
THEOREM PipelineKeepsLifecycle == TakeoverSpec => KeepsLifecycle
  <1>1. TakeoverInit => Lifecycle!Init
    BY DEF TakeoverInit, Init, StoreInit, Lifecycle!Init, Life
  <1>2. PipelineTypeOK /\ LifeInv /\ [TakeoverNext]_takeoverVars
          => [Lifecycle!Next]_<<Life, forfeited>>
    <2> SUFFICES ASSUME PipelineTypeOK, LifeInv, [TakeoverNext]_takeoverVars,
                        ~(Life' = Life /\ forfeited' = forfeited)
                 PROVE  Lifecycle!Next
      OBVIOUS
    <2>1. job \in [Jobs -> TranscodeJob \cup {None}]
      BY HandsTyped DEF StoredTypeOK
    <2>2. CASE forfeited' # forfeited
      <3>1. PICK j \in Jobs : Forfeits(j) /\ forfeited' = forfeited \cup {j}
        BY <2>2, StepForfeits
      <3>2. \A i \in Jobs \ {j} : job'[i] = job[i]
        BY <3>1, ForfeitsOne
      <3>3. Life' = [Life EXCEPT ![j] = None]
        BY <3>1, <3>2 DEF Life
      <3>4. Lifecycle!Forfeit(j)
        BY <3>1, <3>3 DEF Lifecycle!Forfeit
      <3> QED
        BY <3>4 DEF Lifecycle!Next
    <2>3. CASE forfeited' = forfeited
      <3>1. PICK k \in Jobs : k \notin forfeited /\ job'[k] # job[k]
        BY <2>3 DEF Life
      <3>2. ~UNCHANGED vars /\ ~Forfeits(k)
        BY <2>3, <3>1, TakeoverCases DEF vars
      <3>3. PICK c \in Threads : ThreadStep(c)
        <4>1. \A i \in Jobs : ~JobExpires(i)
          <5> SUFFICES ASSUME NEW i \in Jobs, JobExpires(i) PROVE FALSE
            OBVIOUS
          <5>1. job'[k] = job[k]
            BY <2>1, <3>2 DEF Forfeits, JobExpires, Expire
          <5> QED
            BY <3>1, <5>1
        <4> QED
          BY <3>1, <3>2, <4>1, TakeoverCases, NextCases DEF HeartbeatLeft, HeartbeatLapses, Crash
      <3>4. pc[c] \in SavePoints /\ client[c].id = k /\ SaveSet(c) /\ c \in alive
        <4>1. SaveSet(c)
          BY <3>1, <3>3, OutsideSave DEF SaveCommand, SaveReturns, SaveGet, SaveSrem, SaveSadd
        <4> QED
          BY <3>1, <3>3, <4>1, RecordChanges, LiveSteps
      <3>5. Has(c, k)
        BY <3>4 DEF Has, HasId
      <3>6. Fits(c, k) /\ client[c].rec \in TranscodeJob
        BY <3>1, <3>4, <3>5, HolderHas DEF LifeInv
      <3>7. Follows(pc[c], job[k], client[c].rec) /\ job' = [job EXCEPT ![k] = client[c].rec]
        BY <3>4, <3>6 DEF Fits, SaveSet
      <3> QED
        BY <2>1, <2>3, <3>1, <3>4, <3>6, <3>7, FollowsIsLife
    <2> QED
      BY <2>2, <2>3
  <1> QED
    BY <1>1, <1>2, LifeKnown, PTL DEF TakeoverSpec, KeepsLifecycle, Lifecycle!Spec

-----------------------------------------------------------------------------
(* Who transcodes what.                                                     *)

LEMMA AssignmentLeft ==
  ASSUME CompletedJobs' = CompletedJobs, forfeited' = forfeited,
         \A w \in Workers : InHand(w)' \in {InHand(w), None}
  PROVE  Assignment!Next
  <1>1. Assignment!Leave({w \in Workers : InHand(w)' = None})
    BY DEF Assignment!Leave
  <1> QED
    BY <1>1 DEF Assignment!Next

LEMMA AssignmentTaken ==
  ASSUME NEW w \in Workers, NEW j \in Jobs, CompletedJobs' = CompletedJobs,
         forfeited' = forfeited,
         j \in forfeited \/ (j \notin CompletedJobs /\ \A v \in Workers : InHand(v) # j),
         InHand(w) = None, InHand(w)' = j, \A v \in Workers \ {w} : InHand(v)' = InHand(v)
  PROVE  Assignment!Next
  <1>1. Assignment!Take(w, j)
    BY DEF Assignment!Take, Assignment!Free
  <1> QED
    BY <1>1 DEF Assignment!Next

LEMMA AssignmentFinished ==
  ASSUME NEW w \in Workers, NEW j \in Jobs \ forfeited, CompletedJobs' = CompletedJobs \cup {j},
         forfeited' = forfeited,
         InHand(w) = j, InHand(w)' = None, \A v \in Workers \ {w} : InHand(v)' = InHand(v)
  PROVE  Assignment!Next
  <1>1. j # None
    BY PipelineAssumption
  <1> DEFINE holder == [v \in Workers |-> InHand(v)]
  <1>2. holder[w] = j /\ holder' = [holder EXCEPT ![w] = None]
    OBVIOUS
  <1>3. {j} \ forfeited = {j}
    OBVIOUS
  <1>4. Assignment!Finish(w)
    BY <1>1, <1>2, <1>3 DEF Assignment!Finish
  <1> QED
    BY <1>4 DEF Assignment!Next

LEMMA AssignmentForfeited ==
  ASSUME PipelineTypeOK, NEW j \in Jobs, Forfeits(j), forfeited' = forfeited \cup {j}
  PROVE  Assignment!Next
  <1>1. /\ \A i \in Jobs \ {j} : job'[i] = job[i]
        /\ \A w \in Workers : client'[w] = client[w] /\ pc'[w] = pc[w]
        /\ alive' = alive
    BY ForfeitsOne
  <1>2. CompletedJobs' = CompletedJobs \ {j}
    BY <1>1 DEF CompletedJobs
  <1>3. \A w \in Workers : InHand(w)' = InHand(w)
    BY <1>1 DEF InHand, Transcodes
  <1>4. Assignment!Forfeit(j)
    BY <1>2, <1>3 DEF Assignment!Forfeit
  <1> QED
    BY <1>4 DEF Assignment!Next

\* Nobody but a worker completes a job.
RecoveryPoints == {"idle", "list", "check", "requeue", "fail", "push", "bury"}
ScanPoints == {"idle", "create", "mark", "push"}
Roles ==
  /\ \A r \in Recoverers : pc[r] \in RecoveryPoints
  /\ \A s \in Scanners : pc[s] \in ScanPoints

LEMMA RecovererStays ==
  ASSUME PipelineTypeOK, NEW c \in Threads, ThreadStep(c), NEW r \in Recoverers,
         pc[r] \in RecoveryPoints
  PROVE  pc'[r] \in RecoveryPoints
  <1>1. Others(c) /\ r \in Threads /\ pc \in [Threads -> Points] /\ r \notin Workers \cup Scanners
    BY OthersStay, HandsTyped, PipelineAssumption DEF Threads, Hands
  <1>2. CASE r # c
    BY <1>1, <1>2 DEF Others
  <1>3. CASE r = c
    <2>1. CASE SaveCommand(r)
      BY <2>1 DEF SaveCommand
    <2>2. CASE SaveReturns(r)
      <3>1. pc[r] \in {"requeue", "fail"} /\ pc'[r] = AfterSave[pc[r]]
        BY <1>1, <2>2, PointKinds DEF SaveReturns, Goto, RecoveryPoints
      <3> QED
        BY <3>1 DEF AfterSave, RecoveryPoints
    <2>3. CASE PushPending(r) \/ PushDeadLetter(r)
      BY <1>1, <2>3, WalkingPoints
         DEF PushPending, PushDeadLetter, LetGo, Goto, AfterPush, RecoveryPoints
    <2>4. CASE RecoveryStep(r)
      <3>1. CASE PassWalks(r)
        BY <1>3, <3>1, WalksFree DEF RecoveryPoints
      <3>2. ASSUME NEW s \in pass[r].found, RecoveryRequeues(r, s) \/ RecoveryGivesUp(r, s)
            PROVE  pc'[r] \in RecoveryPoints
        BY <1>1, <3>2 DEF RecoveryRequeues, RecoveryGivesUp, CallSave, Goto, RecoveryPoints
      <3> QED
        BY <2>4, <3>1, <3>2 DEF RecoveryStep, PassWalks
    <2> QED
      BY <1>1, <1>3, <2>1, <2>2, <2>3, <2>4 DEF ThreadStep, RedisStep
  <1> QED
    BY <1>2, <1>3

LEMMA ScannerStays ==
  ASSUME PipelineTypeOK, NEW c \in Threads, ThreadStep(c), NEW s \in Scanners,
         pc[s] \in ScanPoints
  PROVE  pc'[s] \in ScanPoints
  <1>1. Others(c) /\ s \in Threads /\ pc \in [Threads -> Points] /\ s \notin Workers \cup Recoverers
    BY OthersStay, HandsTyped, PipelineAssumption DEF Threads, Hands
  <1>2. CASE s # c
    BY <1>1, <1>2 DEF Others
  <1>3. CASE s = c
    <2>1. CASE SaveCommand(s)
      BY <2>1 DEF SaveCommand, ScanPoints
    <2>2. CASE SaveReturns(s)
      <3>1. pc[s] = "create" /\ pc'[s] = AfterSave["create"]
        BY <1>1, <2>2, PointKinds DEF SaveReturns, Goto, ScanPoints
      <3> QED
        BY <3>1 DEF AfterSave, ScanPoints
    <2>3. CASE PushPending(s) \/ PushDeadLetter(s)
      BY <1>1, <2>3 DEF PushPending, PushDeadLetter, LetGo, Goto, AfterPush, ScanPoints
    <2>4. CASE ScanStep(s)
      BY <1>1, <2>4 DEF ScanStep, EnqueueJob, MarkProcessed, CallSave, Goto, ScanPoints
    <2> QED
      BY <1>1, <1>3, <2>1, <2>2, <2>3, <2>4 DEF ThreadStep, RedisStep
  <1> QED
    BY <1>2, <1>3

LEMMA RolesKnown == Spec => []Roles
  <1>1. Init => Roles
    BY DEF Init, Roles, RecoveryPoints, ScanPoints, Threads
  <1>2. PipelineTypeOK /\ Roles /\ [Next]_vars => Roles'
    <2> SUFFICES ASSUME PipelineTypeOK, Roles, [Next]_vars PROVE Roles'
      OBVIOUS
    <2>1. (\E c \in Threads : ThreadStep(c)) \/ pc' = pc
      BY NextCases DEF vars, HeartbeatLeft, HeartbeatLapses, JobExpires, Crash
    <2> QED
      BY <2>1, RecovererStays, ScannerStays DEF Roles
  <1> QED
    BY <1>1, <1>2, PipelineTyped, PTL DEF Spec

\* A worker takes a job in hand only with the heartbeat of ExecuteTranscode.
LEMMA HandStays ==
  ASSUME PipelineTypeOK, NEW c \in Threads, ThreadStep(c), ~(c \in Workers /\ BeatProcess(c)),
         NEW w \in Workers
  PROVE  InHand(w)' \in {InHand(w), None}
  <1>1. /\ Others(c) /\ c \in alive /\ alive' = alive /\ w \in Threads
        /\ client \in [Threads -> ClientType] /\ pc \in [Threads -> Points]
    BY OthersStay, LiveSteps, HandsTyped DEF Threads, Hands
  <1>2. CASE w # c
    BY <1>1, <1>2 DEF InHand, Transcodes, Others
  <1>3. CASE w = c
    <2> SUFFICES ASSUME Transcodes(w)' PROVE Transcodes(w) /\ client'[w].id = client[w].id
      BY DEF InHand
    <2>1. pc'[w] \in {"transcode", "complete"} /\ (pc'[w] = "complete" => client'[w].step # "sadd")
      BY DEF Transcodes
    <2>2. CASE SaveCommand(w)
      <3>1. pc' = pc /\ pc[w] \in SavePoints /\ client[w] \in ClientType
        BY <1>1, <2>2 DEF SaveCommand
      <3>2. pc[w] = "complete"
        BY <2>1, <3>1, PointKinds
      <3>3. client[w].step # "sadd" /\ client'[w].id = client[w].id
        BY <1>1, <2>2, <3>1 DEF SaveCommand, SaveGet, SaveSrem, SaveSet, ClientType
      <3> QED
        BY <1>1, <1>3, <3>2, <3>3 DEF Transcodes
    <2>3. CASE SaveReturns(w)
      BY <1>1, <2>1, <2>3, SaveTargets DEF SaveReturns, Goto
    <2>4. CASE PushPending(w) \/ PushDeadLetter(w)
      BY <1>1, <2>1, <2>4, WalkingPoints DEF PushPending, PushDeadLetter, LetGo, Goto, AfterPush
    <2>5. CASE WorkerStep(w)
      <3>1. WriteSummary(w)
        BY <1>1, <1>3, <2>1, <2>5
           DEF WorkerStep, Dequeue, DropPopped, ClaimJob, BeatClaim, RetryFailed, GiveUpFailed,
               WorkerDies, CallSave, LetGo, Goto
      <3> QED
        BY <1>1, <1>3, <3>1 DEF WriteSummary, At, CallSave, HandOver, Transcodes
    <2> QED
      BY <1>3, <2>2, <2>3, <2>4, <2>5, PipelineAssumption DEF ThreadStep, RedisStep
  <1> QED
    BY <1>2, <1>3

\* BeatProcess takes a job that no worker has in hand and that is not completed, or one
\* that is forfeited.
LEMMA BeatTakes ==
  ASSUME PipelineTypeOK, LifeInv, NEW w \in Workers, ThreadStep(w), BeatProcess(w),
         forfeited' = forfeited
  PROVE  Assignment!Next
  <1>1. /\ w \in Threads /\ Others(w) /\ w \in alive /\ alive' = alive
        /\ pc[w] = "beatProcess" /\ pc[w] \in HasId /\ pc[w] \in HasRecord \ SavePoints
        /\ UNCHANGED <<job, client>> /\ pc' = [pc EXCEPT ![w] = "transcode"]
    BY OthersStay, LiveSteps, PointKinds DEF Threads, BeatProcess, At, Goto, HasRecord
  <1>2. pc \in [Threads -> Points] /\ client[w].id \in Jobs
    BY <1>1, HandsTyped DEF Hands, HandTypeOK
  <1>3. PICK j \in Jobs : j = client[w].id
    BY <1>2
  <1>4. CompletedJobs' = CompletedJobs
    BY <1>1 DEF CompletedJobs
  <1>5. ~Transcodes(w) /\ Transcodes(w)'
    BY <1>1, <1>2 DEF Transcodes
  <1>6. j # None
    BY PipelineAssumption
  <1>7. InHand(w) = None /\ InHand(w)' = j
    BY <1>1, <1>3, <1>5 DEF InHand
  <1>8. ASSUME NEW v \in Workers, v # w PROVE InHand(v)' = InHand(v)
    <2>1. v \in Threads /\ client'[v] = client[v] /\ pc'[v] = pc[v]
      BY <1>1, <1>8 DEF Threads, Others
    <2> QED
      BY <1>1, <2>1 DEF InHand, Transcodes
  <1>9. ASSUME j \notin forfeited PROVE j \notin CompletedJobs /\ \A v \in Workers : InHand(v) # j
    <2>1. Has(w, j) /\ JobOK(j)
      BY <1>1, <1>3, <1>9 DEF Has, LifeInv
    <2>2. KeptState["beatProcess"] = "PROCESSING"
      BY DEF KeptState
    <2>3. job[j].state = "PROCESSING" /\ \A d \in Threads \ {w} : ~Has(d, j)
      BY <1>1, <2>1, <2>2, HolderHas
    <2>4. ASSUME NEW v \in Workers, v # w PROVE InHand(v) # j
      <3>1. Transcodes(v) => v \in alive /\ pc[v] \in HasId
        BY PointKinds DEF Transcodes, HasId, SavePoints
      <3>2. Transcodes(v) => client[v].id # j
        BY <2>3, <2>4, <3>1 DEF Has, Threads
      <3> QED
        BY <1>6, <3>2 DEF InHand
    <2> QED
      BY <1>6, <1>7, <2>3, <2>4 DEF CompletedJobs
  <1> QED
    BY <1>4, <1>7, <1>8, <1>9, AssignmentTaken

\* The SET of COMPLETED finishes the job that the worker has in hand; the SETs of the
\* other states neither complete a job nor take a completed one back.
LEMMA SetFinishes ==
  ASSUME PipelineTypeOK, LifeInv, Roles, NEW c \in Threads, ThreadStep(c),
         SaveSet(c), pc[c] \in SavePoints, forfeited' = forfeited
  PROVE  Assignment!Next
  <1>1. /\ Others(c) /\ c \in alive /\ alive' = alive /\ pc[c] \in HasId /\ pc[c] \in HasRecord
        /\ client[c].step = "set"
    BY OthersStay, LiveSteps DEF HasId, HasRecord, SavePoints, SaveSet
  <1>2. /\ client[c].rec \in TranscodeJob /\ client \in [Threads -> ClientType]
        /\ client[c].id \in Jobs
        /\ job \in [Jobs -> TranscodeJob \cup {None}] /\ client[c].rec.state = SavedState[pc[c]]
    BY <1>1, HandsTyped DEF StoredTypeOK, Hands, HandTypeOK
  <1>3. PICK k \in Jobs : k = client[c].id
    BY <1>2
  <1>4. job' = [job EXCEPT ![k] = client[c].rec]
    BY <1>3 DEF SaveSet
  <1>5. ~(c \in Workers /\ BeatProcess(c))
    BY PointKinds DEF BeatProcess, At
  <1>6. CASE k \in forfeited
    <2>1. CompletedJobs' = CompletedJobs
      BY <1>2, <1>4, <1>6 DEF CompletedJobs
    <2> QED
      BY <1>5, <2>1, HandStays, AssignmentLeft
  <1>7. CASE k \notin forfeited
    <2>1. Has(c, k) /\ JobOK(k)
      BY <1>1, <1>3, <1>7 DEF Has, LifeInv
    <2>2. Follows(pc[c], job[k], client[c].rec)
      BY <1>1, <2>1, HolderHas DEF Fits
    <2>3. client[c].rec # None
      BY <1>2, RecordStates
    <2>4. client'[c].id = client[c].id /\ client'[c].step = "sadd"
      BY <1>2 DEF SaveSet, ClientType
    <2>5. CASE pc[c] = "complete"
      <3>1. c \in Workers
        <4>1. c \notin Recoverers
          BY <2>5 DEF Roles, RecoveryPoints
        <4>2. c \notin Scanners
          BY <2>5 DEF Roles, ScanPoints
        <4> QED
          BY <4>1, <4>2 DEF Threads
      <3>2. CompletedJobs' = CompletedJobs \cup {k}
        BY <1>2, <1>4, <1>7, <2>3, <2>5 DEF CompletedJobs, SavedState
      <3>3. InHand(c) = k
        BY <1>1, <1>3, <2>5 DEF InHand, Transcodes
      <3>4. pc'[c] = "complete"
        <4>1. SaveCommand(c)
          BY <1>1, OutsideSave DEF SaveReturns, SaveSadd
        <4> QED
          BY <2>5, <4>1 DEF SaveCommand
      <3>5. InHand(c)' = None
        BY <2>4, <3>4 DEF InHand, Transcodes
      <3>6. \A v \in Workers \ {c} : InHand(v)' = InHand(v)
        BY <1>1 DEF InHand, Transcodes, Others, Threads
      <3> QED
        BY <1>7, <3>1, <3>2, <3>3, <3>5, <3>6, AssignmentFinished
    <2>6. CASE pc[c] # "complete"
      <3>1. job[k] # None => job[k].state # "COMPLETED"
        BY <2>2, <2>6 DEF Follows, SavePoints, HeldStates
      <3>2. client[c].rec.state # "COMPLETED"
        BY <1>2, <2>6 DEF SavePoints, SavedState
      <3>3. CompletedJobs' = CompletedJobs
        BY <1>2, <1>4, <2>3, <3>1, <3>2 DEF CompletedJobs
      <3> QED
        BY <1>5, <3>3, HandStays, AssignmentLeft
    <2> QED
      BY <2>5, <2>6
  <1> QED
    BY <1>6, <1>7

\* No two workers transcode one job and none a job that is completed, whatever overlaps,
\* lapses or crashes, until the job is forfeited.
THEOREM PipelineAssignsExclusively == TakeoverSpec => AssignsExclusively
  <1>1. TakeoverInit => Assignment!Init
    BY DEF TakeoverInit, Init, StoreInit, Assignment!Init, InHand, Transcodes, CompletedJobs, Threads
  <1>2. PipelineTypeOK /\ LifeInv /\ Roles /\ [TakeoverNext]_takeoverVars
          => [Assignment!Next]_<<[w \in Workers |-> InHand(w)], CompletedJobs, forfeited>>
    <2> SUFFICES ASSUME PipelineTypeOK, LifeInv, Roles, [TakeoverNext]_takeoverVars
                 PROVE  Assignment!Next
      OBVIOUS
    <2>1. CASE forfeited' # forfeited
      BY <2>1, StepForfeits, AssignmentForfeited
    <2>2. CASE forfeited' = forfeited
      <3>1. CASE UNCHANGED vars
        <4>1. CompletedJobs' = CompletedJobs /\ \A w \in Workers : InHand(w)' = InHand(w)
          BY <2>2, <3>1 DEF vars, CompletedJobs, InHand, Transcodes
        <4> QED
          BY <2>2, <4>1, AssignmentLeft
      <3>2. ASSUME NEW c \in Threads, ThreadStep(c) PROVE Assignment!Next
        <4>1. CASE c \in Workers /\ BeatProcess(c)
          BY <2>2, <3>2, <4>1, BeatTakes
        <4>2. CASE SaveSet(c) /\ pc[c] \in SavePoints
          BY <2>2, <3>2, <4>2, SetFinishes
        <4>3. CASE ~(c \in Workers /\ BeatProcess(c)) /\ ~(SaveSet(c) /\ pc[c] \in SavePoints)
          <5>1. job' = job
            BY <3>2, <4>3, OutsideSave DEF SaveCommand, SaveReturns, SaveGet, SaveSrem, SaveSadd
          <5>2. CompletedJobs' = CompletedJobs
            BY <2>2, <5>1 DEF CompletedJobs
          <5> QED
            BY <2>2, <3>2, <4>3, <5>2, HandStays, AssignmentLeft
        <4> QED
          BY <4>1, <4>2, <4>3
      <3>3. ASSUME NEW j \in Jobs, HeartbeatLeft(j) \/ HeartbeatLapses(j) \/ JobExpires(j),
                   ~UNCHANGED vars
            PROVE  Assignment!Next
        <4>1. UNCHANGED <<client, pc, alive>>
          BY <3>3 DEF HeartbeatLeft, HeartbeatLapses, JobExpires, Expire
        <4>2. \A k \in Jobs \ forfeited : job'[k] = job[k]
          <5>1. CASE JobExpires(j)
            <6>1. j \in forfeited
              BY <2>2, <3>3, <5>1, TakeoverCases DEF Forfeits
            <6>2. job \in [Jobs -> TranscodeJob \cup {None}]
              BY HandsTyped DEF StoredTypeOK
            <6> QED
              BY <5>1, <6>1, <6>2 DEF JobExpires, Expire
          <5> QED
            BY <3>3, <5>1 DEF HeartbeatLeft, HeartbeatLapses
        <4>3. CompletedJobs' = CompletedJobs /\ \A w \in Workers : InHand(w)' = InHand(w)
          BY <2>2, <4>1, <4>2 DEF CompletedJobs, InHand, Transcodes
        <4> QED
          BY <2>2, <4>3, AssignmentLeft
      <3>4. ASSUME NEW P \in Processes, Crash(P) PROVE Assignment!Next
        <4>1. UNCHANGED <<job, client, pc>> /\ alive' \subseteq alive
          BY <3>4 DEF Crash
        <4>2. /\ CompletedJobs' = CompletedJobs
              /\ \A w \in Workers : InHand(w)' \in {InHand(w), None}
          BY <2>2, <4>1 DEF CompletedJobs, InHand, Transcodes
        <4> QED
          BY <2>2, <4>2, AssignmentLeft
      <3> QED
        BY <3>1, <3>2, <3>3, <3>4, NextCases, TakeoverCases
    <2> QED
      BY <2>1, <2>2
  <1> QED
    BY <1>1, <1>2, LifeKnown, RolesKnown, TakeoverPipeline, PTL
       DEF TakeoverSpec, AssignsExclusively, Assignment!Spec
=============================================================================

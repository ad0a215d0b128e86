------------------------- MODULE JobPipelineProofs -------------------------
(***************************************************************************)
(* What the pipeline guarantees for any numbers of processes, jobs and     *)
(* attempts, whatever overlaps, crashes, lapses or expires.  The types     *)
(* come first, and carry most of the argument: they say that a save at a   *)
(* given point stores a record in the state of that point, and that a      *)
(* thread outside of a save has no save under way.  They are split in two: *)
(* what the threads hold (Hands), which depends on where they are, and the *)
(* rest of the state.                                                      *)
(***************************************************************************)
EXTENDS JobPipeline, SequenceTheorems, TLAPS

Hands ==
  /\ client \in [Threads -> ClientType]
  /\ pc \in [Threads -> Points]
  /\ \A c \in Threads :
       /\ client[c].step # "idle" => client[c].id \in Jobs /\ client[c].rec \in TranscodeJob
       /\ client[c].step = "srem" => client[c].old \in JobStates
  /\ \A c \in Threads : HandTypeOK(c)

StoredTypeOK == job \in [Jobs -> TranscodeJob \cup {None}] /\ index \in [JobStates -> SUBSET Jobs]

SharedTypeOK ==
  /\ queue \in Seq(Jobs) /\ deadLetter \subseteq Jobs
  /\ heartbeat \subseteq Jobs /\ summary \subseteq Jobs /\ processed \subseteq Inputs
  /\ created \in 0..MaxJobs

PassTypeOK ==
  pass \in [Recoverers -> [state : HeldStates, ids : SUBSET Jobs,
                           found : SUBSET [id : Jobs, rec : TranscodeJob]]]

FaultTypeOK ==
  /\ alive \subseteq Threads
  /\ faults \in [crashes : 0..MaxCrashes, lapses : 0..MaxLapses, expiries : 0..MaxExpiries]

LEMMA TypeParts ==
  PipelineTypeOK <=> Hands /\ StoredTypeOK /\ SharedTypeOK /\ PassTypeOK /\ FaultTypeOK
  BY DEF PipelineTypeOK, StoreTypeOK, Hands, StoredTypeOK, SharedTypeOK, PassTypeOK, FaultTypeOK

LEMMA TypePartsNext ==
  Hands' /\ StoredTypeOK' /\ SharedTypeOK' /\ PassTypeOK' /\ FaultTypeOK' => PipelineTypeOK'
  BY DEF PipelineTypeOK, StoreTypeOK, Hands, StoredTypeOK, SharedTypeOK, PassTypeOK, FaultTypeOK

-----------------------------------------------------------------------------
(* Records.                                                                *)

LEMMA RecordStates ==
  ASSUME NEW r \in TranscodeJob
  PROVE  r.state \in JobStates /\ r # None
  BY PipelineAssumption DEF TranscodeJob, JobStates

LEMMA RecordMoves ==
  ASSUME NEW r \in TranscodeJob
  PROVE  /\ \A w \in Workers : Claimed(r, w) \in TranscodeJob /\ Claimed(r, w).state = "CLAIMED"
         /\ Processing(r) \in TranscodeJob /\ Processing(r).state = "PROCESSING"
         /\ Completed(r) \in TranscodeJob /\ Completed(r).state = "COMPLETED"
         /\ Retried(r) \in TranscodeJob /\ Retried(r).state = "PENDING"
         /\ GivenUp(r) \in TranscodeJob /\ GivenUp(r).state = "FAILED"
  <1>1. \A w \in Workers : Claimed(r, w) \in TranscodeJob /\ Claimed(r, w).state = "CLAIMED"
    BY DEF TranscodeJob, Claimed
  <1>2. Processing(r) \in TranscodeJob /\ Processing(r).state = "PROCESSING"
    BY DEF TranscodeJob, Processing
  <1>3. Completed(r) \in TranscodeJob /\ Completed(r).state = "COMPLETED"
    BY DEF TranscodeJob, Completed
  <1>4. r.attempt + 1 \in Nat \ {0}
    BY DEF TranscodeJob
  <1>5. Retried(r) \in TranscodeJob /\ Retried(r).state = "PENDING"
    BY <1>4 DEF TranscodeJob, Retried
  <1>6. GivenUp(r) \in TranscodeJob /\ GivenUp(r).state = "FAILED"
    BY DEF TranscodeJob, GivenUp
  <1> QED
    BY <1>1, <1>2, <1>3, <1>5, <1>6

LEMMA NewRecord ==
  ASSUME NEW i \in Inputs
  PROVE  NewJob(i) \in TranscodeJob /\ NewJob(i).state = "PENDING"
  BY DEF NewJob, TranscodeJob

-----------------------------------------------------------------------------
(* How a thread comes to hold a job, keeps it and lets go of it.           *)

LEMMA HandsCall ==
  ASSUME Hands, NEW c \in Threads, NEW p \in SavePoints, NEW j \in Jobs,
         NEW r \in TranscodeJob, r.state = SavedState[p], CallSave(c, p, j, r)
  PROVE  Hands'
  <1>1. HandOver(j, r) \in ClientType
    BY DEF HandOver, ClientType, SaveSteps
  <1>2. client' = [client EXCEPT ![c] = HandOver(j, r)] /\ pc' = [pc EXCEPT ![c] = p]
    BY DEF CallSave, Goto
  <1>3. client' \in [Threads -> ClientType] /\ pc' \in [Threads -> Points]
    BY <1>1, <1>2 DEF Hands, Points
  <1>4. client'[c] = HandOver(j, r) /\ pc'[c] = p
    BY <1>2 DEF Hands
  <1>5. \A d \in Threads : d # c => client'[d] = client[d] /\ pc'[d] = pc[d]
    BY <1>2 DEF Hands
  <1>6. HandTypeOK(c)'
    BY <1>4 DEF HandTypeOK, HandOver
  <1> QED
    BY <1>3, <1>4, <1>5, <1>6 DEF Hands, HandTypeOK, HandOver

LEMMA HandsLetGo ==
  ASSUME Hands, NEW c \in Threads, NEW p \in {"idle", "check", "dead"}, LetGo(c, p)
  PROVE  Hands'
  <1>1. EmptyHanded \in ClientType
    BY DEF EmptyHanded, ClientType, SaveSteps
  <1>2. client' = [client EXCEPT ![c] = EmptyHanded] /\ pc' = [pc EXCEPT ![c] = p]
    BY DEF LetGo, Goto
  <1>3. client' \in [Threads -> ClientType] /\ pc' \in [Threads -> Points]
    BY <1>1, <1>2 DEF Hands, Points, PassPoints
  <1>4. client'[c] = EmptyHanded /\ pc'[c] = p
    BY <1>2 DEF Hands
  <1>5. \A d \in Threads : d # c => client'[d] = client[d] /\ pc'[d] = pc[d]
    BY <1>2 DEF Hands
  <1>6. p \notin HasId
    BY DEF HasId, SavePoints
  <1>7. HandTypeOK(c)'
    BY <1>4, <1>6 DEF HandTypeOK, EmptyHanded, HasId, HasRecord
  <1> QED
    BY <1>3, <1>4, <1>5, <1>7 DEF Hands, HandTypeOK, EmptyHanded

\* A thread that goes on with what it has, from outside of a save to outside of one.
LEMMA HandsGoto ==
  ASSUME Hands, NEW c \in Threads, pc[c] \notin SavePoints,
         NEW p \in Points \ SavePoints, p \in HasId => pc[c] \in HasRecord,
         Goto(c, p), client' = client
  PROVE  Hands'
  <1>1. pc' \in [Threads -> Points] /\ pc'[c] = p
    BY DEF Hands, Goto
  <1>2. \A d \in Threads : d # c => pc'[d] = pc[d]
    BY DEF Hands, Goto
  <1>3. HandTypeOK(c)'
    BY <1>1 DEF Hands, HandTypeOK, HasRecord
  <1> QED
    BY <1>1, <1>2, <1>3 DEF Hands, HandTypeOK

LEMMA HandsUnchanged ==
  ASSUME Hands, client' = client, pc' = pc
  PROVE  Hands'
  BY DEF Hands, HandTypeOK

-----------------------------------------------------------------------------
(* A save, command by command.                                             *)

\* What the commands of a save need to know of their thread.
LEMMA SavingHand ==
  ASSUME Hands, NEW c \in Threads, client[c].step # "idle"
  PROVE  /\ client[c] \in ClientType
         /\ client[c].id \in Jobs /\ client[c].rec \in TranscodeJob
         /\ client[c].rec.state \in JobStates
  BY RecordStates DEF Hands

\* Only the progress of the save of a thread changes.
LEMMA HandsProgress ==
  ASSUME Hands, NEW c \in Threads, pc[c] \in SavePoints, client[c].step # "idle",
         NEW s \in {"srem", "set", "sadd"}, NEW o \in JobStates \cup {None},
         s = "srem" => o \in JobStates,
         client' = [client EXCEPT ![c].step = s, ![c].old = o], pc' = pc
  PROVE  Hands'
  <1>1. client[c] \in ClientType
    BY DEF Hands
  <1>2. client'[c] = [client[c] EXCEPT !.step = s, !.old = o]
    BY DEF Hands
  <1>3. client'[c] \in ClientType
    <2>1. client'[c] = [step |-> s, id |-> client[c].id, rec |-> client[c].rec, old |-> o]
      BY <1>1, <1>2 DEF ClientType
    <2>2. s \in SaveSteps
      BY DEF SaveSteps
    <2> QED
      BY <1>1, <2>1, <2>2 DEF ClientType
  <1>4. /\ client'[c].step = s /\ client'[c].old = o
        /\ client'[c].id = client[c].id /\ client'[c].rec = client[c].rec
    BY <1>1, <1>2 DEF ClientType
  <1>5. \A d \in Threads : d # c => client'[d] = client[d]
    BY DEF Hands
  <1>6. client' \in [Threads -> ClientType]
    BY <1>3 DEF Hands
  <1>7. HandTypeOK(c)'
    BY <1>4 DEF Hands, HandTypeOK
  <1> QED
    BY <1>4, <1>5, <1>6, <1>7 DEF Hands, HandTypeOK

LEMMA TypeSaveGet ==
  ASSUME Hands, StoredTypeOK, NEW c \in Threads, pc[c] \in SavePoints, pc' = pc, SaveGet(c)
  PROVE  Hands' /\ StoredTypeOK'
  <1> DEFINE existing == job[client[c].id]
             moved    == existing # None /\ existing.state # client[c].rec.state
  <1>1. client[c].step # "idle" /\ client[c].id \in Jobs /\ job' = job /\ index' = index
    BY SavingHand DEF SaveGet
  <1>2. moved => existing.state \in JobStates
    BY <1>1, RecordStates DEF StoredTypeOK
  <1>3. CASE moved
    <2>1. client' = [client EXCEPT ![c].step = "srem", ![c].old = existing.state]
      BY <1>3 DEF SaveGet
    <2> HIDE DEF moved, existing
    <2> QED
      BY <1>1, <1>2, <1>3, <2>1, HandsProgress DEF StoredTypeOK
  <1>4. CASE ~moved
    <2>1. client' = [client EXCEPT ![c].step = "set", ![c].old = None]
      BY <1>4 DEF SaveGet
    <2> HIDE DEF moved, existing
    <2> QED
      BY <1>1, <2>1, HandsProgress DEF StoredTypeOK
  <1> QED
    BY <1>3, <1>4

LEMMA TypeSaveSrem ==
  ASSUME Hands, StoredTypeOK, NEW c \in Threads, pc[c] \in SavePoints, pc' = pc, SaveSrem(c)
  PROVE  Hands' /\ StoredTypeOK'
  <1>1. client[c].step # "idle" /\ client[c].old \in JobStates
    BY DEF SaveSrem, Hands
  <1>2. client' = [client EXCEPT ![c].step = "set", ![c].old = None]
    BY DEF SaveSrem
  <1>3. Hands'
    BY <1>1, <1>2, HandsProgress
  <1>4. StoredTypeOK'
    BY <1>1 DEF SaveSrem, StoredTypeOK
  <1> QED
    BY <1>3, <1>4

LEMMA TypeSaveSet ==
  ASSUME Hands, StoredTypeOK, NEW c \in Threads, pc[c] \in SavePoints, pc' = pc, SaveSet(c)
  PROVE  Hands' /\ StoredTypeOK'
  <1>1. client[c].step = "set"
    BY DEF SaveSet
  <1>2. client[c].id \in Jobs /\ client[c].rec \in TranscodeJob /\ client[c] \in ClientType
    BY <1>1, SavingHand
  <1>3. client' = [client EXCEPT ![c].step = "sadd"]
    BY DEF SaveSet
  <1>4. client' = [client EXCEPT ![c].step = "sadd", ![c].old = client[c].old]
    BY <1>2, <1>3 DEF Hands, ClientType
  <1>5. Hands'
    BY <1>1, <1>2, <1>4, HandsProgress DEF ClientType
  <1>6. StoredTypeOK'
    BY <1>2 DEF SaveSet, StoredTypeOK
  <1> QED
    BY <1>5, <1>6

LEMMA PointKinds ==
  /\ {"mark", "push", "bury", "popped", "beatClaim", "beatProcess", "transcode",
       "idle", "list", "check", "dead"} = Points \ SavePoints
  /\ {"mark", "push", "bury", "beatClaim", "beatProcess", "transcode"} \subseteq HasRecord
  /\ "popped" \in HasId /\ "idle" \notin HasId /\ "list" \notin HasId
  /\ "check" \notin HasId /\ "dead" \notin HasId
  BY DEF Points, SavePoints, WorkerPoints, PassPoints, HasId, HasRecord

LEMMA SaveTargets ==
  ASSUME NEW p \in SavePoints
  PROVE  /\ AfterSave[p] \in Points \ SavePoints
         /\ AfterSave[p] \in {"mark", "beatClaim", "beatProcess", "idle", "push", "bury"}
         /\ AfterSave[p] \in HasId <=> p # "complete"
  <1>1. /\ AfterSave[p] \in {"mark", "beatClaim", "beatProcess", "idle", "push", "bury"}
        /\ AfterSave[p] = "idle" <=> p = "complete"
    BY DEF SavePoints, AfterSave
  <1> QED
    BY <1>1, PointKinds DEF HasRecord

LEMMA TypeSaveReturns ==
  ASSUME Hands, StoredTypeOK, NEW c \in Threads, SaveReturns(c)
  PROVE  Hands' /\ StoredTypeOK'
  <1> DEFINE hand == IF pc[c] = "complete" THEN EmptyHanded ELSE Saved(c)
  <1>1. client[c].step = "sadd" /\ pc[c] \in SavePoints /\ job' = job
    BY DEF SaveReturns, SaveSadd
  <1>2. /\ client[c].id \in Jobs /\ client[c].rec \in TranscodeJob
        /\ client[c].rec.state \in JobStates /\ client[c] \in ClientType
    BY <1>1, SavingHand
  <1>3. client' = [client EXCEPT ![c] = hand] /\ pc' = [pc EXCEPT ![c] = AfterSave[pc[c]]]
    BY DEF SaveReturns, SaveSadd, Goto
  <1>4. StoredTypeOK'
    BY <1>1, <1>2 DEF SaveReturns, SaveSadd, StoredTypeOK
  <1>5. hand \in ClientType /\ hand.step = "idle"
    BY <1>2 DEF EmptyHanded, Saved, ClientType, SaveSteps
  <1>6. pc[c] # "complete" => hand.id \in Jobs /\ hand.rec \in TranscodeJob
    BY <1>2 DEF Saved, ClientType
  <1>7. pc'[c] = AfterSave[pc[c]] /\ client'[c] = hand
    BY <1>3 DEF Hands
  <1>8. client' \in [Threads -> ClientType] /\ pc' \in [Threads -> Points]
    BY <1>1, <1>3, <1>5, SaveTargets DEF Hands
  <1>9. HandTypeOK(c)'
    <2> HIDE DEF hand
    <2> QED
      BY <1>1, <1>5, <1>6, <1>7, SaveTargets DEF HandTypeOK, HasRecord
  <1>10. \A d \in Threads : d # c => client'[d] = client[d] /\ pc'[d] = pc[d]
    BY <1>3 DEF Hands
  <1> HIDE DEF hand
  <1>11. Hands'
    BY <1>5, <1>7, <1>8, <1>9, <1>10 DEF Hands, HandTypeOK
  <1> QED
    BY <1>4, <1>11

LEMMA TypeSaves ==
  ASSUME PipelineTypeOK, NEW c \in Threads, SaveCommand(c) \/ SaveReturns(c)
  PROVE  PipelineTypeOK'
  <1>1. Hands /\ StoredTypeOK /\ SharedTypeOK /\ PassTypeOK /\ FaultTypeOK
    BY TypeParts
  <1>2. Hands' /\ StoredTypeOK'
    <2>1. CASE SaveCommand(c)
      <3>1. pc[c] \in SavePoints /\ pc' = pc
        BY <2>1 DEF SaveCommand
      <3> QED
        BY <1>1, <2>1, <3>1, TypeSaveGet, TypeSaveSrem, TypeSaveSet DEF SaveCommand
    <2>2. CASE SaveReturns(c)
      BY <1>1, <2>2, TypeSaveReturns
    <2> QED
      BY <2>1, <2>2
  <1>3. UNCHANGED <<shared, pass, alive, faults>>
    BY DEF SaveCommand, SaveReturns
  <1>4. SharedTypeOK' /\ PassTypeOK' /\ FaultTypeOK'
    BY <1>1, <1>3 DEF SharedTypeOK, PassTypeOK, FaultTypeOK, shared
  <1> QED
    BY <1>2, <1>4, TypePartsNext

-----------------------------------------------------------------------------
(* The scan thread, the queue and the dead-letter list.                    *)

LEMMA TypeEnqueueJob ==
  ASSUME PipelineTypeOK, NEW s \in Scanners, NEW i \in Inputs, EnqueueJob(s, i)
  PROVE  PipelineTypeOK'
  <1>1. Hands /\ StoredTypeOK /\ SharedTypeOK /\ PassTypeOK /\ FaultTypeOK /\ s \in Threads
    BY TypeParts DEF Threads
  <1>2. created + 1 \in Jobs /\ created + 1 \in 0..MaxJobs
    BY <1>1, PipelineAssumption DEF EnqueueJob, SharedTypeOK, Jobs
  <1>3. "create" \in SavePoints /\ SavedState["create"] = "PENDING"
    BY DEF SavePoints, SavedState
  <1>4. CallSave(s, "create", created + 1, NewJob(i))
    BY DEF EnqueueJob
  <1>5. Hands'
    BY <1>1, <1>2, <1>3, <1>4, NewRecord, HandsCall
  <1>6. StoredTypeOK' /\ SharedTypeOK' /\ PassTypeOK' /\ FaultTypeOK'
    BY <1>1, <1>2 DEF EnqueueJob, StoredTypeOK, SharedTypeOK, PassTypeOK, FaultTypeOK
  <1> QED
    BY <1>5, <1>6, TypePartsNext

LEMMA TypeMarkProcessed ==
  ASSUME PipelineTypeOK, NEW s \in Scanners, MarkProcessed(s)
  PROVE  PipelineTypeOK'
  <1>1. Hands /\ StoredTypeOK /\ SharedTypeOK /\ PassTypeOK /\ FaultTypeOK /\ s \in Threads
    BY TypeParts DEF Threads
  <1>2. pc[s] = "mark"
    BY DEF MarkProcessed, At
  <1>3. client[s].rec.input \in Inputs
    BY <1>1, <1>2, PointKinds DEF Hands, HandTypeOK, TranscodeJob
  <1>4. Hands'
    <2>1. pc[s] \notin SavePoints /\ "push" \in Points \ SavePoints /\ pc[s] \in HasRecord
      BY <1>2, PointKinds
    <2> QED
      BY <1>1, <2>1, HandsGoto DEF MarkProcessed
  <1>5. StoredTypeOK' /\ SharedTypeOK' /\ PassTypeOK' /\ FaultTypeOK'
    BY <1>1, <1>3 DEF MarkProcessed, StoredTypeOK, SharedTypeOK, PassTypeOK, FaultTypeOK
  <1> QED
    BY <1>4, <1>5, TypePartsNext

LEMMA TypePushes ==
  ASSUME PipelineTypeOK, NEW c \in Threads, PushPending(c) \/ PushDeadLetter(c)
  PROVE  PipelineTypeOK'
  <1>1. Hands /\ StoredTypeOK /\ SharedTypeOK /\ PassTypeOK /\ FaultTypeOK
    BY TypeParts
  <1>2. pc[c] \in {"push", "bury"}
    BY DEF PushPending, PushDeadLetter, At
  <1>3. client[c].id \in Jobs
    BY <1>1, <1>2, PointKinds DEF Hands, HandTypeOK, HasRecord
  <1>4. Append(queue, client[c].id) \in Seq(Jobs) /\ deadLetter \cup {client[c].id} \subseteq Jobs
    BY <1>1, <1>3, AppendProperties DEF SharedTypeOK
  <1>5. LetGo(c, AfterPush(c)) /\ AfterPush(c) \in {"idle", "check", "dead"}
    BY DEF PushPending, PushDeadLetter, AfterPush, Walking
  <1>6. Hands'
    BY <1>1, <1>5, HandsLetGo
  <1>7. StoredTypeOK' /\ SharedTypeOK' /\ PassTypeOK' /\ FaultTypeOK'
    BY <1>1, <1>4
       DEF PushPending, PushDeadLetter, StoredTypeOK, SharedTypeOK, PassTypeOK, FaultTypeOK
  <1> QED
    BY <1>6, <1>7, TypePartsNext

-----------------------------------------------------------------------------
(* The workers.                                                            *)

LEMMA TypeDequeue ==
  ASSUME PipelineTypeOK, NEW w \in Workers, Dequeue(w)
  PROVE  PipelineTypeOK'
  <1>1. Hands /\ StoredTypeOK /\ SharedTypeOK /\ PassTypeOK /\ FaultTypeOK /\ w \in Threads
    BY TypeParts DEF Threads
  <1>2. pc[w] = "idle" /\ queue # <<>>
    BY DEF Dequeue, At
  <1>3. Head(queue) \in Jobs /\ Tail(queue) \in Seq(Jobs)
    BY <1>1, <1>2, HeadTailProperties DEF SharedTypeOK
  <1>4. client[w].step = "idle" /\ client[w] \in ClientType
    BY <1>1, <1>2, PointKinds DEF Hands, HandTypeOK
  <1>5. /\ client' = [client EXCEPT ![w].id = Head(queue), ![w].rec = None]
        /\ pc' = [pc EXCEPT ![w] = "popped"]
    BY DEF Dequeue, Goto
  <1>6. client'[w] = [client[w] EXCEPT !.id = Head(queue), !.rec = None] /\ pc'[w] = "popped"
    BY <1>1, <1>5 DEF Hands
  <1>7. /\ client'[w] \in ClientType /\ client'[w].step = "idle"
        /\ client'[w].id \in Jobs
    BY <1>3, <1>4, <1>6 DEF ClientType
  <1>8. \A d \in Threads : d # w => client'[d] = client[d] /\ pc'[d] = pc[d]
    BY <1>1, <1>5 DEF Hands
  <1>9. client' \in [Threads -> ClientType] /\ pc' \in [Threads -> Points]
    BY <1>1, <1>5, <1>6, <1>7, PointKinds DEF Hands
  <1>10. HandTypeOK(w)'
    BY <1>6, <1>7, PointKinds DEF HandTypeOK, HasRecord
  <1>11. Hands'
    BY <1>1, <1>7, <1>8, <1>9, <1>10 DEF Hands, HandTypeOK
  <1>12. StoredTypeOK' /\ SharedTypeOK' /\ PassTypeOK' /\ FaultTypeOK'
    BY <1>1, <1>3 DEF Dequeue, StoredTypeOK, SharedTypeOK, PassTypeOK, FaultTypeOK
  <1> QED
    BY <1>11, <1>12, TypePartsNext

\* The worker gives up the job: an id that is dropped, an exception that ends it.
LEMMA TypeWorkerLetsGo ==
  ASSUME PipelineTypeOK, NEW w \in Workers, DropPopped(w) \/ WorkerDies(w)
  PROVE  PipelineTypeOK'
  <1>1. Hands /\ StoredTypeOK /\ SharedTypeOK /\ PassTypeOK /\ FaultTypeOK /\ w \in Threads
    BY TypeParts DEF Threads
  <1>2. LetGo(w, "idle") \/ LetGo(w, "dead")
    BY DEF DropPopped, WorkerDies
  <1>3. Hands'
    BY <1>1, <1>2, HandsLetGo
  <1>4. UNCHANGED <<job, index, shared, pass, alive, faults>>
    BY DEF DropPopped, WorkerDies
  <1>5. StoredTypeOK' /\ SharedTypeOK' /\ PassTypeOK' /\ FaultTypeOK'
    BY <1>1, <1>4 DEF StoredTypeOK, SharedTypeOK, PassTypeOK, FaultTypeOK, shared
  <1> QED
    BY <1>3, <1>5, TypePartsNext

\* The record the failure handler works on.
LEMMA CurrentTyped ==
  ASSUME PipelineTypeOK, NEW w \in Workers, pc[w] = "transcode"
  PROVE  Current(w) \in TranscodeJob /\ client[w].id \in Jobs
  <1>1. Hands /\ StoredTypeOK /\ w \in Threads
    BY TypeParts DEF Threads
  <1>2. client[w].id \in Jobs /\ client[w].rec \in TranscodeJob
    BY <1>1, PointKinds DEF Hands, HandTypeOK, HasRecord
  <1> QED
    BY <1>1, <1>2 DEF StoredTypeOK, Current

\* The worker goes on to a save: a claim, the start of a transcode, its end.
LEMMA TypeWorkerSaves ==
  ASSUME PipelineTypeOK, NEW w \in Workers,
         ClaimJob(w) \/ BeatClaim(w) \/ WriteSummary(w) \/ RetryFailed(w) \/ GiveUpFailed(w)
  PROVE  PipelineTypeOK'
  <1>1. Hands /\ StoredTypeOK /\ SharedTypeOK /\ PassTypeOK /\ FaultTypeOK /\ w \in Threads
    BY TypeParts DEF Threads
  <1>2. /\ {"claim", "process", "complete", "requeue", "fail"} \subseteq SavePoints
        /\ SavedState["claim"] = "CLAIMED" /\ SavedState["process"] = "PROCESSING"
        /\ SavedState["complete"] = "COMPLETED" /\ SavedState["requeue"] = "PENDING"
        /\ SavedState["fail"] = "FAILED"
    BY DEF SavePoints, SavedState
  <1>3. CASE ClaimJob(w)
    <2>1. client[w].id \in Jobs
      BY <1>1, <1>3, PointKinds DEF ClaimJob, At, Hands, HandTypeOK
    <2>2. job[client[w].id] \in TranscodeJob
      BY <1>1, <1>3, <2>1 DEF ClaimJob, Pending, StoredTypeOK
    <2>3. CallSave(w, "claim", client[w].id, Claimed(job[client[w].id], w))
      BY <1>3 DEF ClaimJob
    <2> DEFINE claimed == Claimed(job[client[w].id], w)
    <2>4. claimed \in TranscodeJob /\ claimed.state = "CLAIMED"
      BY <2>2, RecordMoves
    <2> HIDE DEF claimed
    <2>5. Hands'
      BY <1>1, <1>2, <2>1, <2>3, <2>4, HandsCall DEF claimed
    <2>6. StoredTypeOK' /\ SharedTypeOK' /\ PassTypeOK' /\ FaultTypeOK'
      BY <1>1, <1>3 DEF ClaimJob, StoredTypeOK, SharedTypeOK, PassTypeOK, FaultTypeOK, shared
    <2> QED
      BY <2>5, <2>6, TypePartsNext
  <1>4. CASE BeatClaim(w)
    <2>1. client[w].id \in Jobs /\ client[w].rec \in TranscodeJob
      BY <1>1, <1>4, PointKinds DEF BeatClaim, At, Hands, HandTypeOK, HasRecord
    <2>2. CallSave(w, "process", client[w].id, Processing(client[w].rec))
      BY <1>4 DEF BeatClaim
    <2>3. Hands'
      BY <1>1, <1>2, <2>1, <2>2, RecordMoves, HandsCall
    <2>4. StoredTypeOK' /\ SharedTypeOK' /\ PassTypeOK' /\ FaultTypeOK'
      BY <1>1, <1>4, <2>1 DEF BeatClaim, StoredTypeOK, SharedTypeOK, PassTypeOK, FaultTypeOK
    <2> QED
      BY <2>3, <2>4, TypePartsNext
  <1>5. CASE WriteSummary(w)
    <2>1. client[w].id \in Jobs /\ client[w].rec \in TranscodeJob
      BY <1>1, <1>5, PointKinds DEF WriteSummary, At, Hands, HandTypeOK, HasRecord
    <2>2. CallSave(w, "complete", client[w].id, Completed(client[w].rec))
      BY <1>5 DEF WriteSummary
    <2>3. Hands'
      BY <1>1, <1>2, <2>1, <2>2, RecordMoves, HandsCall
    <2>4. StoredTypeOK' /\ SharedTypeOK' /\ PassTypeOK' /\ FaultTypeOK'
      BY <1>1, <1>5, <2>1 DEF WriteSummary, StoredTypeOK, SharedTypeOK, PassTypeOK, FaultTypeOK
    <2> QED
      BY <2>3, <2>4, TypePartsNext
  <1>6. CASE RetryFailed(w) \/ GiveUpFailed(w)
    <2>1. Current(w) \in TranscodeJob /\ client[w].id \in Jobs
      BY <1>6, CurrentTyped DEF RetryFailed, GiveUpFailed, At
    <2>2. \/ CallSave(w, "requeue", client[w].id, Retried(Current(w)))
          \/ CallSave(w, "fail", client[w].id, GivenUp(Current(w)))
      BY <1>6 DEF RetryFailed, GiveUpFailed
    <2>3. Hands'
      BY <1>1, <1>2, <2>1, <2>2, RecordMoves, HandsCall
    <2>4. StoredTypeOK' /\ SharedTypeOK' /\ PassTypeOK' /\ FaultTypeOK'
      BY <1>1, <1>6
         DEF RetryFailed, GiveUpFailed, StoredTypeOK, SharedTypeOK, PassTypeOK, FaultTypeOK, shared
    <2> QED
      BY <2>3, <2>4, TypePartsNext
  <1> QED
    BY <1>3, <1>4, <1>5, <1>6

LEMMA TypeBeatProcess ==
  ASSUME PipelineTypeOK, NEW w \in Workers, BeatProcess(w)
  PROVE  PipelineTypeOK'
  <1>1. Hands /\ StoredTypeOK /\ SharedTypeOK /\ PassTypeOK /\ FaultTypeOK /\ w \in Threads
    BY TypeParts DEF Threads
  <1>2. pc[w] = "beatProcess"
    BY DEF BeatProcess, At
  <1>3. client[w].id \in Jobs
    BY <1>1, <1>2, PointKinds DEF Hands, HandTypeOK, HasRecord
  <1>4. Hands'
    <2>1. pc[w] \notin SavePoints /\ "transcode" \in Points \ SavePoints /\ pc[w] \in HasRecord
      BY <1>2, PointKinds
    <2> QED
      BY <1>1, <2>1, HandsGoto DEF BeatProcess
  <1>5. StoredTypeOK' /\ SharedTypeOK' /\ PassTypeOK' /\ FaultTypeOK'
    BY <1>1, <1>3 DEF BeatProcess, StoredTypeOK, SharedTypeOK, PassTypeOK, FaultTypeOK
  <1> QED
    BY <1>4, <1>5, TypePartsNext

-----------------------------------------------------------------------------
(* The recovery thread.                                                    *)

LEMMA WalkingPoints == \A st, found : Walking(st, found) \in {"idle", "check"}
  BY DEF Walking

\* A thread between two saves that goes to a point at which it holds nothing.
LEMMA HandsGoToNothing ==
  ASSUME Hands, NEW c \in Threads, pc[c] \notin SavePoints,
         NEW p \in {"idle", "list", "check"}, Goto(c, p), client' = client
  PROVE  Hands'
  BY PointKinds, HandsGoto

LEMMA TypeList ==
  ASSUME PipelineTypeOK, NEW r \in Recoverers, RecoveryStarts(r) \/ RecoveryMovesOn(r)
  PROVE  PipelineTypeOK'
  <1>1. Hands /\ StoredTypeOK /\ SharedTypeOK /\ PassTypeOK /\ FaultTypeOK /\ r \in Threads
    BY TypeParts DEF Threads
  <1>2. PICK st \in HeldStates : ListIds(r, st)
    BY DEF RecoveryStarts, RecoveryMovesOn, HeldStates
  <1>3. index[st] \subseteq Jobs
    BY <1>1 DEF StoredTypeOK, HeldStates, JobStates
  <1>4. [state |-> st, ids |-> index[st], found |-> {}]
          \in [state : HeldStates, ids : SUBSET Jobs, found : SUBSET [id : Jobs, rec : TranscodeJob]]
    BY <1>3
  <1>5. PassTypeOK'
    BY <1>1, <1>2, <1>4 DEF ListIds, PassTypeOK
  <1>6. Hands'
    <2>1. pc[r] \notin SavePoints /\ client' = client
      BY PointKinds DEF RecoveryStarts, RecoveryMovesOn, At
    <2>2. \E p \in {"idle", "list", "check"} : Goto(r, p)
      BY <1>2, WalkingPoints DEF ListIds
    <2> QED
      BY <1>1, <2>1, <2>2, HandsGoToNothing
  <1>7. UNCHANGED <<job, index, shared, alive, faults>>
    BY DEF RecoveryStarts, RecoveryMovesOn
  <1>8. StoredTypeOK' /\ SharedTypeOK' /\ FaultTypeOK'
    BY <1>1, <1>7 DEF StoredTypeOK, SharedTypeOK, FaultTypeOK, shared
  <1> QED
    BY <1>5, <1>6, <1>8, TypePartsNext

LEMMA TypeRecoveryReads ==
  ASSUME PipelineTypeOK, NEW r \in Recoverers, RecoveryReads(r)
  PROVE  PipelineTypeOK'
  <1>1. Hands /\ StoredTypeOK /\ SharedTypeOK /\ PassTypeOK /\ FaultTypeOK /\ r \in Threads
    BY TypeParts DEF Threads
  <1>2. PICK j \in pass[r].ids :
          LET ids   == pass[r].ids \ {j}
              read  == IF job[j] = None THEN {} ELSE {[id |-> j, rec |-> job[j]]}
              found == pass[r].found \cup read
          IN  IF ids # {}
              THEN /\ pass' = [pass EXCEPT ![r].ids = ids, ![r].found = found]
                   /\ UNCHANGED pc
              ELSE /\ pass' = [pass EXCEPT ![r].ids = {}, ![r].found = NewestFirst(found)]
                   /\ Goto(r, Walking(pass[r].state, found))
    BY DEF RecoveryReads
  <1> DEFINE ids   == pass[r].ids \ {j}
             read  == IF job[j] = None THEN {} ELSE {[id |-> j, rec |-> job[j]]}
             found == pass[r].found \cup read
  <1>3. pass[r] \in [state : HeldStates, ids : SUBSET Jobs, found : SUBSET [id : Jobs, rec : TranscodeJob]]
    BY <1>1 DEF PassTypeOK
  <1>4. j \in Jobs /\ ids \subseteq Jobs
    BY <1>2, <1>3
  <1>5. read \subseteq [id : Jobs, rec : TranscodeJob]
    BY <1>1, <1>4 DEF StoredTypeOK
  <1>6. found \subseteq [id : Jobs, rec : TranscodeJob]
    BY <1>3, <1>5
  <1>7. NewestFirst(found) \subseteq [id : Jobs, rec : TranscodeJob]
    BY <1>6 DEF NewestFirst
  <1>8. pc[r] \notin SavePoints /\ UNCHANGED <<job, index, client, shared, alive, faults>>
    BY PointKinds DEF RecoveryReads, At
  <1>9. PassTypeOK' /\ Hands'
    <2>1. CASE ids # {}
      <3>1. pass' = [pass EXCEPT ![r].ids = ids, ![r].found = found] /\ pc' = pc
        BY <1>2, <2>1
      <3> HIDE DEF ids, found
      <3>2. PassTypeOK'
        BY <1>1, <1>4, <1>6, <3>1 DEF PassTypeOK
      <3> QED
        BY <1>1, <1>8, <3>1, <3>2, HandsUnchanged
    <2>2. CASE ids = {}
      <3>1. /\ pass' = [pass EXCEPT ![r].ids = {}, ![r].found = NewestFirst(found)]
            /\ Goto(r, Walking(pass[r].state, found))
        BY <1>2, <2>2
      <3> HIDE DEF ids, found
      <3>2. PassTypeOK'
        BY <1>1, <1>7, <3>1 DEF PassTypeOK
      <3> QED
        BY <1>1, <1>8, <3>1, <3>2, WalkingPoints, HandsGoToNothing
    <2> QED
      BY <2>1, <2>2
  <1>10. StoredTypeOK' /\ SharedTypeOK' /\ FaultTypeOK'
    BY <1>1, <1>8 DEF StoredTypeOK, SharedTypeOK, FaultTypeOK, shared
  <1> QED
    BY <1>9, <1>10, TypePartsNext

LEMMA TypeWalk ==
  ASSUME PipelineTypeOK, NEW r \in Recoverers, NEW s \in pass[r].found,
         \/ RecoverySkips(r, s) \/ RecoveryRequeues(r, s)
         \/ RecoveryGivesUp(r, s) \/ RecoveryAborts(r, s)
  PROVE  PipelineTypeOK'
  <1>1. Hands /\ StoredTypeOK /\ SharedTypeOK /\ PassTypeOK /\ FaultTypeOK /\ r \in Threads
    BY TypeParts DEF Threads
  <1>2. pass[r] \in [state : HeldStates, ids : SUBSET Jobs, found : SUBSET [id : Jobs, rec : TranscodeJob]]
    BY <1>1 DEF PassTypeOK
  <1>3. s.id \in Jobs /\ s.rec \in TranscodeJob
    BY <1>2
  <1>4. pc[r] \notin SavePoints
    BY PointKinds DEF RecoverySkips, RecoveryRequeues, RecoveryGivesUp, RecoveryAborts,
                      Stale, Reached, At
  <1>5. NoPass \in [state : HeldStates, ids : SUBSET Jobs, found : SUBSET [id : Jobs, rec : TranscodeJob]]
    BY DEF NoPass, HeldStates
  <1>6. PassTypeOK'
    <2>1. pass' = [pass EXCEPT ![r].found = @ \ {s}] \/ pass' = [pass EXCEPT ![r] = NoPass]
      BY DEF RecoverySkips, RecoveryRequeues, RecoveryGivesUp, RecoveryAborts, Walked, Rest
    <2>2. CASE pass' = [pass EXCEPT ![r].found = @ \ {s}]
      BY <1>1, <1>2, <2>2 DEF PassTypeOK
    <2>3. CASE pass' = [pass EXCEPT ![r] = NoPass]
      BY <1>1, <1>5, <2>3 DEF PassTypeOK
    <2> QED
      BY <2>1, <2>2, <2>3
  <1>7. Hands'
    <2>1. CASE RecoverySkips(r, s) \/ RecoveryAborts(r, s)
      <3>1. client' = client /\ \E p \in {"idle", "list", "check"} : Goto(r, p)
        BY <2>1, WalkingPoints DEF RecoverySkips, RecoveryAborts
      <3> QED
        BY <1>1, <1>4, <3>1, HandsGoToNothing
    <2>2. CASE RecoveryRequeues(r, s) \/ RecoveryGivesUp(r, s)
      <3>1. /\ {"requeue", "fail"} \subseteq SavePoints
            /\ SavedState["requeue"] = "PENDING" /\ SavedState["fail"] = "FAILED"
        BY DEF SavePoints, SavedState
      <3>2. \/ CallSave(r, "requeue", s.id, Retried(s.rec))
            \/ CallSave(r, "fail", s.id, GivenUp(s.rec))
        BY <2>2 DEF RecoveryRequeues, RecoveryGivesUp
      <3> QED
        BY <1>1, <1>3, <3>1, <3>2, RecordMoves, HandsCall
    <2> QED
      BY <2>1, <2>2
  <1>8. UNCHANGED <<job, index, shared, alive, faults>>
    BY DEF RecoverySkips, RecoveryRequeues, RecoveryGivesUp, RecoveryAborts
  <1>9. StoredTypeOK' /\ SharedTypeOK' /\ FaultTypeOK'
    BY <1>1, <1>8 DEF StoredTypeOK, SharedTypeOK, FaultTypeOK, shared
  <1> QED
    BY <1>6, <1>7, <1>9, TypePartsNext

-----------------------------------------------------------------------------
(* Time and faults.                                                        *)

LEMMA TypeTime ==
  ASSUME PipelineTypeOK, NEW j \in Jobs,
         HeartbeatLeft(j) \/ HeartbeatLapses(j) \/ JobExpires(j)
  PROVE  PipelineTypeOK'
  <1>1. Hands /\ StoredTypeOK /\ SharedTypeOK /\ PassTypeOK /\ FaultTypeOK
    BY TypeParts
  <1>2. client' = client /\ pc' = pc /\ pass' = pass
    BY DEF HeartbeatLeft, HeartbeatLapses, JobExpires, Expire
  <1>3. Hands' /\ PassTypeOK'
    BY <1>1, <1>2, HandsUnchanged DEF PassTypeOK
  <1>4. StoredTypeOK' /\ SharedTypeOK'
    BY <1>1
       DEF HeartbeatLeft, HeartbeatLapses, JobExpires, Expire, StoredTypeOK, SharedTypeOK, shared
  <1>5. FaultTypeOK'
    BY <1>1, PipelineAssumption DEF HeartbeatLeft, HeartbeatLapses, JobExpires, FaultTypeOK
  <1> QED
    BY <1>3, <1>4, <1>5, TypePartsNext

LEMMA TypeCrash ==
  ASSUME PipelineTypeOK, NEW P \in Processes, Crash(P)
  PROVE  PipelineTypeOK'
  <1>1. Hands /\ StoredTypeOK /\ SharedTypeOK /\ PassTypeOK /\ FaultTypeOK
    BY TypeParts
  <1>2. UNCHANGED <<job, index, client, shared, pc, pass>>
    BY DEF Crash
  <1>3. Hands' /\ StoredTypeOK' /\ SharedTypeOK' /\ PassTypeOK'
    BY <1>1, <1>2, HandsUnchanged DEF StoredTypeOK, SharedTypeOK, PassTypeOK, shared
  <1>4. FaultTypeOK'
    BY <1>1, PipelineAssumption DEF Crash, FaultTypeOK
  <1> QED
    BY <1>3, <1>4, TypePartsNext

-----------------------------------------------------------------------------
\* Every step of the system keeps the types.
LEMMA TypeStep ==
  ASSUME PipelineTypeOK, [Next]_vars
  PROVE  PipelineTypeOK'
  <1>1. CASE UNCHANGED vars
    <2>1. Hands /\ StoredTypeOK /\ SharedTypeOK /\ PassTypeOK /\ FaultTypeOK
      BY TypeParts
    <2>2. Hands' /\ StoredTypeOK' /\ SharedTypeOK' /\ PassTypeOK' /\ FaultTypeOK'
      BY <1>1, <2>1, HandsUnchanged
         DEF vars, shared, StoredTypeOK, SharedTypeOK, PassTypeOK, FaultTypeOK
    <2> QED
      BY <2>2, TypePartsNext
  <1>2. ASSUME NEW c \in Threads, RedisStep(c) PROVE PipelineTypeOK'
    BY <1>2, TypeSaves, TypePushes DEF RedisStep
  <1>3. ASSUME NEW s \in Scanners, ScanStep(s) PROVE PipelineTypeOK'
    BY <1>3, TypeEnqueueJob, TypeMarkProcessed DEF ScanStep
  <1>4. ASSUME NEW w \in Workers, WorkerStep(w) PROVE PipelineTypeOK'
    BY <1>4, TypeDequeue, TypeWorkerLetsGo, TypeWorkerSaves, TypeBeatProcess DEF WorkerStep
  <1>5. ASSUME NEW r \in Recoverers, RecoveryStep(r) PROVE PipelineTypeOK'
    BY <1>5, TypeList, TypeRecoveryReads, TypeWalk DEF RecoveryStep
  <1>6. ASSUME NEW j \in Jobs, HeartbeatLeft(j) PROVE PipelineTypeOK'
    BY <1>6, TypeTime
  <1>7. CASE Faults
    BY <1>7, TypeTime, TypeCrash DEF Faults
  <1> QED
    BY <1>1, <1>2, <1>3, <1>4, <1>5, <1>6, <1>7 DEF Next

LEMMA TypeInit == Init => PipelineTypeOK
  <1> SUFFICES ASSUME Init PROVE PipelineTypeOK
    OBVIOUS
  <1>1. EmptyHanded \in ClientType
    BY DEF EmptyHanded, ClientType, SaveSteps
  <1>2. Hands
    BY <1>1, PointKinds DEF Init, StoreInit, Hands, HandTypeOK, EmptyHanded, HasRecord
  <1>3. NoPass \in [state : HeldStates, ids : SUBSET Jobs, found : SUBSET [id : Jobs, rec : TranscodeJob]]
    BY DEF NoPass, HeldStates
  <1>4. StoredTypeOK /\ PassTypeOK
    BY <1>3 DEF Init, StoreInit, StoredTypeOK, PassTypeOK
  <1>5. SharedTypeOK /\ FaultTypeOK
    BY PipelineAssumption, EmptySeq DEF Init, SharedTypeOK, FaultTypeOK
  <1> QED
    BY <1>2, <1>4, <1>5, TypeParts

\* Every record, list, index and snapshot of the pipeline keeps its type, and a
\* thread has at each program point what the code there uses: an id, a record,
\* and in a save a record in the state that the save is for.
THEOREM PipelineTyped == Spec => []PipelineTypeOK
  <1>1. PipelineTypeOK /\ [Next]_vars => PipelineTypeOK'
    BY TypeStep
  <1> QED
    BY <1>1, TypeInit, PTL DEF Spec

-----------------------------------------------------------------------------
(* The indexes and the pending jobs.                                       *)

ThreadStep(c) ==
  \/ RedisStep(c)
  \/ c \in Scanners /\ ScanStep(c)
  \/ c \in Workers /\ WorkerStep(c)
  \/ c \in Recoverers /\ RecoveryStep(c)

LEMMA NextCases ==
  ASSUME [Next]_vars
  PROVE  \/ UNCHANGED vars
         \/ \E c \in Threads : ThreadStep(c)
         \/ \E j \in Jobs : HeartbeatLeft(j) \/ HeartbeatLapses(j) \/ JobExpires(j)
         \/ \E P \in Processes : Crash(P)
  BY DEF Next, Faults, ThreadStep, Threads

LEMMA HandsTyped == ASSUME PipelineTypeOK PROVE Hands /\ StoredTypeOK /\ SharedTypeOK
  BY TypeParts

-----------------------------------------------------------------------------
(* What a step of one thread leaves alone.                                 *)

\* The other threads stay where they are, with what they have.
Others(c) == \A d \in Threads : d # c => client'[d] = client[d] /\ pc'[d] = pc[d]

LEMMA OthersStay ==
  ASSUME PipelineTypeOK, NEW c \in Threads, ThreadStep(c)
  PROVE  Others(c)
  <1>1. client \in [Threads -> ClientType] /\ pc \in [Threads -> Points]
    BY HandsTyped DEF Hands
  <1>2. ASSUME NEW p, Goto(c, p) PROVE \A d \in Threads : d # c => pc'[d] = pc[d]
    BY <1>1, <1>2 DEF Goto
  <1>3. ASSUME NEW p, NEW j, NEW r, CallSave(c, p, j, r) PROVE Others(c)
    BY <1>1, <1>2, <1>3 DEF CallSave, Others
  <1>4. ASSUME NEW p, LetGo(c, p) PROVE Others(c)
    BY <1>1, <1>2, <1>4 DEF LetGo, Others
  <1>5. ASSUME NEW p, Goto(c, p), client' = client PROVE Others(c)
    BY <1>2, <1>5 DEF Others
  <1>6. CASE RedisStep(c)
    <2>1. CASE SaveCommand(c)
      BY <1>1, <2>1 DEF SaveCommand, SaveGet, SaveSrem, SaveSet, Others
    <2>2. CASE SaveReturns(c)
      BY <1>1, <1>2, <2>2 DEF SaveReturns, SaveSadd, Others
    <2>3. CASE PushPending(c) \/ PushDeadLetter(c)
      BY <1>4, <2>3 DEF PushPending, PushDeadLetter
    <2> QED
      BY <1>6, <2>1, <2>2, <2>3 DEF RedisStep
  <1>7. CASE ScanStep(c)
    BY <1>3, <1>5, <1>7 DEF ScanStep, EnqueueJob, MarkProcessed
  <1>8. CASE WorkerStep(c)
    <2>1. CASE Dequeue(c)
      BY <1>1, <1>2, <2>1 DEF Dequeue, Others
    <2>2. CASE DropPopped(c) \/ WorkerDies(c)
      BY <1>4, <2>2 DEF DropPopped, WorkerDies
    <2>3. CASE ClaimJob(c) \/ BeatClaim(c) \/ WriteSummary(c) \/ RetryFailed(c) \/ GiveUpFailed(c)
      BY <1>3, <2>3 DEF ClaimJob, BeatClaim, WriteSummary, RetryFailed, GiveUpFailed
    <2>4. CASE BeatProcess(c)
      BY <1>5, <2>4 DEF BeatProcess
    <2> QED
      BY <1>8, <2>1, <2>2, <2>3, <2>4 DEF WorkerStep
  <1>9. CASE RecoveryStep(c)
    <2>1. CASE RecoveryStarts(c) \/ RecoveryMovesOn(c)
      BY <1>5, <2>1 DEF RecoveryStarts, RecoveryMovesOn, ListIds
    <2>2. CASE RecoveryReads(c)
      BY <1>2, <2>2 DEF RecoveryReads, Others
    <2>3. ASSUME NEW s \in pass[c].found, RecoverySkips(c, s) \/ RecoveryAborts(c, s)
          PROVE  Others(c)
      BY <1>5, <2>3 DEF RecoverySkips, RecoveryAborts
    <2>4. ASSUME NEW s \in pass[c].found, RecoveryRequeues(c, s) \/ RecoveryGivesUp(c, s)
          PROVE  Others(c)
      BY <1>3, <2>4 DEF RecoveryRequeues, RecoveryGivesUp
    <2> QED
      BY <1>9, <2>1, <2>2, <2>3, <2>4 DEF RecoveryStep
  <1> QED
    BY <1>6, <1>7, <1>8, <1>9 DEF ThreadStep

\* Outside of a save, a thread changes neither the records nor the indexes, and
\* has no save under way.
LEMMA OutsideSave ==
  ASSUME PipelineTypeOK, NEW c \in Threads, ThreadStep(c), ~SaveCommand(c), ~SaveReturns(c)
  PROVE  job' = job /\ index' = index /\ client[c].step = "idle" /\ pc[c] \notin SavePoints
  <1>1. pc[c] \notin SavePoints => client[c].step = "idle"
    BY HandsTyped DEF Hands, HandTypeOK
  <1>2. CASE RedisStep(c)
    BY <1>1, <1>2, PointKinds DEF RedisStep, PushPending, PushDeadLetter, At
  <1>3. CASE ScanStep(c)
    BY <1>1, <1>3, PointKinds DEF ScanStep, EnqueueJob, MarkProcessed, At
  <1>4. CASE WorkerStep(c)
    BY <1>1, <1>4, PointKinds
       DEF WorkerStep, Dequeue, DropPopped, ClaimJob, BeatClaim, BeatProcess, WriteSummary,
           RetryFailed, GiveUpFailed, WorkerDies, At
  <1>5. CASE RecoveryStep(c)
    BY <1>1, <1>5, PointKinds
       DEF RecoveryStep, RecoveryStarts, RecoveryReads, RecoveryMovesOn, RecoverySkips,
           RecoveryRequeues, RecoveryGivesUp, RecoveryAborts, Stale, Reached, At
  <1> QED
    BY <1>2, <1>3, <1>4, <1>5 DEF ThreadStep

-----------------------------------------------------------------------------
(* IndexCovers, job by job: the argument of JobStoreProofs, for the        *)
(* callers that the pipeline has.                                          *)

Covered(j) ==
  job[j] # None =>
    \/ j \in index[job[j].state]
    \/ \E c \in Threads : WillIndex(c, j, job[j].state)

\* Only the thread c and its job matter: other promises to index a job stand.
LEMMA OthersWillIndex ==
  ASSUME NEW c, Others(c), NEW d \in Threads, d # c, NEW j, NEW s, WillIndex(d, j, s)
  PROVE  WillIndex(d, j, s)'
  BY DEF Others, WillIndex

LEMMA CoverOutside ==
  ASSUME PipelineTypeOK, NEW c \in Threads, ThreadStep(c), ~SaveCommand(c), ~SaveReturns(c),
         NEW j \in Jobs, Covered(j)
  PROVE  Covered(j)'
  <1>1. job' = job /\ index' = index /\ client[c].step = "idle"
    BY OutsideSave
  <1>2. \A d \in Threads, s \in {job[j].state} : WillIndex(d, j, s) => d # c
    BY <1>1 DEF WillIndex
  <1>3. Others(c)
    BY OthersStay
  <1> QED
    BY <1>1, <1>2, <1>3, OthersWillIndex DEF Covered

LEMMA CoverSave ==
  ASSUME PipelineTypeOK, NEW c \in Threads, SaveCommand(c) \/ SaveReturns(c),
         NEW j \in Jobs, Covered(j)
  PROVE  Covered(j)'
  <1>1. Others(c) /\ Hands /\ StoredTypeOK
    BY OthersStay, HandsTyped DEF ThreadStep, RedisStep
  <1>2. client[c].step # "idle"
    BY DEF SaveCommand, SaveReturns, SaveGet, SaveSrem, SaveSet, SaveSadd
  <1>3. /\ client[c] \in ClientType
        /\ client[c].id \in Jobs /\ client[c].rec \in TranscodeJob
        /\ client[c].rec.state \in JobStates
    BY <1>1, <1>2, SavingHand
  <1>4. job[j] # None => job[j].state \in JobStates
    BY <1>1, RecordStates DEF StoredTypeOK
  <1>5. CASE SaveGet(c)
    <2>1. job' = job /\ index' = index
      BY <1>5 DEF SaveGet
    <2>2. ~WillIndex(c, j, job[j].state)
      BY <1>5 DEF SaveGet, WillIndex
    <2> QED
      BY <1>1, <2>1, <2>2, OthersWillIndex DEF Covered
  <1>6. CASE SaveSrem(c)
    <2>1. job' = job /\ client' = [client EXCEPT ![c].step = "set", ![c].old = None]
      BY <1>6 DEF SaveSrem
    <2>2. CASE client[c].id = j
      <3>1. client'[c] = [client[c] EXCEPT !.step = "set", !.old = None]
        BY <1>1, <2>1 DEF Hands
      <3>2. client'[c].id = j /\ client'[c].step = "set"
        BY <1>3, <2>2, <3>1 DEF ClientType
      <3> QED
        BY <2>1, <3>2 DEF Covered, WillIndex
    <2>3. CASE client[c].id # j
      <3>1. ASSUME NEW s \in JobStates, j \in index[s] PROVE j \in index'[s]
        BY <1>1, <1>6, <2>3, <3>1 DEF SaveSrem, StoredTypeOK
      <3>2. ~WillIndex(c, j, job[j].state)
        BY <2>3 DEF WillIndex
      <3> QED
        BY <1>1, <1>4, <2>1, <3>1, <3>2, OthersWillIndex DEF Covered
    <2> QED
      BY <2>2, <2>3
  <1>7. CASE SaveSet(c)
    <2>1. /\ client' = [client EXCEPT ![c].step = "sadd"] /\ index' = index
          /\ job' = [job EXCEPT ![client[c].id] = client[c].rec]
      BY <1>7 DEF SaveSet
    <2>2. CASE client[c].id = j
      <3>1. job'[j] = client[c].rec
        BY <1>1, <2>1, <2>2 DEF StoredTypeOK
      <3>2. client'[c] = [client[c] EXCEPT !.step = "sadd"]
        BY <1>1, <2>1 DEF Hands
      <3>3. client'[c].id = j /\ client'[c].step = "sadd" /\ client'[c].rec = client[c].rec
        BY <1>3, <2>2, <3>2 DEF ClientType
      <3> QED
        BY <3>1, <3>3 DEF Covered, WillIndex
    <2>3. CASE client[c].id # j
      <3>1. job'[j] = job[j]
        BY <1>1, <2>1, <2>3 DEF StoredTypeOK
      <3>2. ~WillIndex(c, j, job[j].state)
        BY <2>3 DEF WillIndex
      <3> QED
        BY <1>1, <2>1, <3>1, <3>2, OthersWillIndex DEF Covered
    <2> QED
      BY <2>2, <2>3
  <1>8. CASE SaveReturns(c)
    <2>1. /\ client[c].step = "sadd" /\ job' = job
          /\ index' = [index EXCEPT ![client[c].rec.state] = @ \cup {client[c].id}]
      BY <1>8 DEF SaveReturns, SaveSadd
    <2>2. ASSUME NEW s \in JobStates, j \in index[s] PROVE j \in index'[s]
      BY <1>1, <2>1, <2>2 DEF StoredTypeOK
    <2>3. ASSUME NEW s \in JobStates, WillIndex(c, j, s) PROVE j \in index'[s]
      BY <1>1, <1>3, <2>1, <2>3 DEF StoredTypeOK, WillIndex
    <2> QED
      BY <1>1, <1>4, <2>1, <2>2, <2>3, OthersWillIndex DEF Covered
  <1> QED
    BY <1>5, <1>6, <1>7, <1>8 DEF SaveCommand

\* No interleaving of the saves of scan threads, workers and recovery threads,
\* and no crash inside of one, leaves a stored job out of the index of its state
\* unless a save of that job has begun and not ended.
THEOREM PipelineIndexCovers == Spec => []IndexCovers
  <1>1. Init => IndexCovers
    BY DEF Init, StoreInit, IndexCovers
  <1>2. PipelineTypeOK /\ IndexCovers /\ [Next]_vars => IndexCovers'
    <2> SUFFICES ASSUME PipelineTypeOK, IndexCovers, [Next]_vars, NEW j \in Jobs
                 PROVE  Covered(j)'
      BY DEF IndexCovers, Covered
    <2>1. Covered(j)
      BY DEF IndexCovers, Covered
    <2>2. CASE UNCHANGED <<job, index, client>>
      BY <2>1, <2>2 DEF Covered, WillIndex
    <2>3. ASSUME NEW c \in Threads, ThreadStep(c) PROVE Covered(j)'
      BY <2>1, <2>3, CoverOutside, CoverSave
    <2>4. ASSUME NEW k \in Jobs, HeartbeatLeft(k) \/ HeartbeatLapses(k) \/ JobExpires(k)
          PROVE  Covered(j)'
      <3>1. CASE JobExpires(k)
        <4>1. job'[j] \in {job[j], None} /\ index' = index /\ client' = client
          BY <3>1, HandsTyped DEF JobExpires, Expire, StoredTypeOK
        <4> QED
          BY <2>1, <4>1 DEF Covered, WillIndex
      <3>2. CASE HeartbeatLeft(k) \/ HeartbeatLapses(k)
        BY <2>2, <3>2 DEF HeartbeatLeft, HeartbeatLapses
      <3> QED
        BY <2>4, <3>1, <3>2
    <2>5. ASSUME NEW P \in Processes, Crash(P) PROVE Covered(j)'
      BY <2>2, <2>5 DEF Crash
    <2>6. UNCHANGED vars => Covered(j)'
      BY <2>2 DEF vars
    <2> QED
      BY <2>3, <2>4, <2>5, <2>6, NextCases
  <1> QED
    BY <1>1, <1>2, PipelineTyped, PTL DEF Spec

-----------------------------------------------------------------------------
(* PendingAccounted, job by job.                                           *)

Accounted(j) == Pending(j) => Queued(j) \/ \E c \in Threads : Accountable(c, j)

\* Only a thread that is about to push, or to claim, accounts for a job.
AccountPoints == {"mark", "push", "popped", "claim", "create", "requeue"}

LEMMA OthersAccount ==
  ASSUME NEW c, Others(c), NEW d \in Threads, d # c, NEW j, Accountable(d, j)
  PROVE  Accountable(d, j)'
  BY DEF Others, Accountable

\* A thread that accounts for nothing may do what it likes outside of a save.
LEMMA AccountFree ==
  ASSUME PipelineTypeOK, NEW c \in Threads, ThreadStep(c), ~SaveCommand(c), ~SaveReturns(c),
         pc[c] \notin AccountPoints, queue' = queue,
         NEW j \in Jobs, Accounted(j)
  PROVE  Accounted(j)'
  <1>1. job' = job /\ Others(c)
    BY OutsideSave, OthersStay
  <1>2. ~Accountable(c, j)
    BY DEF Accountable, AccountPoints
  <1> QED
    BY <1>1, <1>2, OthersAccount DEF Accounted, Pending, Queued

\* The commands of a save: the SET of a pending record makes its thread
\* accountable, and only "create" and "requeue" save one.
LEMMA AccountSave ==
  ASSUME PipelineTypeOK, NEW c \in Threads, SaveCommand(c) \/ SaveReturns(c),
         NEW j \in Jobs, Accounted(j)
  PROVE  Accounted(j)'
  <1>1. Others(c) /\ Hands /\ StoredTypeOK /\ pc[c] \in SavePoints
    BY OthersStay, HandsTyped DEF ThreadStep, RedisStep, SaveCommand, SaveReturns
  <1>2. client[c].step # "idle"
    BY DEF SaveCommand, SaveReturns, SaveGet, SaveSrem, SaveSet, SaveSadd
  <1>3. /\ client[c] \in ClientType
        /\ client[c].id \in Jobs /\ client[c].rec \in TranscodeJob
    BY <1>1, <1>2, SavingHand
  <1>4. queue' = queue
    BY DEF SaveCommand, SaveReturns, shared
  <1>5. CASE SaveCommand(c) /\ ~SaveSet(c)
    <2>1. PICK s \in {"srem", "set"} :
            \E o : client' = [client EXCEPT ![c].step = s, ![c].old = o]
      <3>1. CASE SaveSrem(c)
        BY <3>1 DEF SaveSrem
      <3>2. CASE SaveGet(c)
        BY <3>2 DEF SaveGet
      <3> QED
        BY <1>5, <3>1, <3>2 DEF SaveCommand
    <2>2. job' = job /\ pc' = pc /\ client[c].step \in {"get", "srem"}
      BY <1>5 DEF SaveCommand, SaveGet, SaveSrem
    <2>3. PICK o : client'[c] = [client[c] EXCEPT !.step = s, !.old = o]
      BY <1>1, <2>1 DEF Hands
    <2>4. client'[c].id = client[c].id /\ client'[c].step = s
      BY <1>3, <2>3 DEF ClientType
    <2>5. Accountable(c, j) => Accountable(c, j)'
      BY <2>2, <2>4 DEF Accountable
    <2> QED
      BY <1>1, <1>4, <2>2, <2>5, OthersAccount DEF Accounted, Pending, Queued
  <1>6. CASE SaveSet(c)
    <2>1. /\ client' = [client EXCEPT ![c].step = "sadd"]
          /\ job' = [job EXCEPT ![client[c].id] = client[c].rec]
      BY <1>6 DEF SaveSet
    <2>2. pc' = pc /\ client[c].step = "set"
      BY <1>6 DEF SaveCommand, SaveReturns, SaveSet, SaveSadd
    <2>3. client'[c] = [client[c] EXCEPT !.step = "sadd"]
      BY <1>1, <2>1 DEF Hands
    <2>4. client'[c].id = client[c].id /\ client'[c].step = "sadd"
      BY <1>3, <2>3 DEF ClientType
    <2>5. CASE client[c].id = j
      <3>1. job'[j] = client[c].rec
        BY <1>1, <2>1, <2>5 DEF StoredTypeOK
      <3>2. client[c].rec.state = "PENDING" => pc[c] \in {"create", "requeue"}
        <4>1. client[c].rec.state = SavedState[pc[c]]
          BY <1>1 DEF Hands, HandTypeOK
        <4> QED
          BY <1>1, <4>1 DEF SavePoints, SavedState
      <3> QED
        BY <2>2, <2>4, <2>5, <3>1, <3>2 DEF Accounted, Pending, Accountable
    <2>6. CASE client[c].id # j
      <3>1. job'[j] = job[j]
        BY <1>1, <2>1, <2>6 DEF StoredTypeOK
      <3>2. ~Accountable(c, j)
        BY <2>6 DEF Accountable
      <3> QED
        BY <1>1, <1>4, <3>1, <3>2, OthersAccount DEF Accounted, Pending, Queued
    <2> QED
      BY <2>5, <2>6
  <1>7. CASE SaveReturns(c)
    <2> DEFINE hand == IF pc[c] = "complete" THEN EmptyHanded ELSE Saved(c)
    <2>1. client[c].step = "sadd" /\ job' = job
      BY <1>7 DEF SaveReturns, SaveSadd
    <2>2. client'[c] = hand /\ pc'[c] = AfterSave[pc[c]]
      BY <1>1, <1>7 DEF SaveReturns, SaveSadd, Goto, Hands
    <2>3. pc[c] # "complete" => hand.id = client[c].id
      BY <1>3 DEF Saved, ClientType
    <2> HIDE DEF hand
    <2>4. ASSUME Accountable(c, j) PROVE Accountable(c, j)'
      <3>1. pc[c] \in {"create", "requeue"} /\ client[c].id = j
        BY <1>1, <2>1, <2>4 DEF Accountable, SavePoints
      <3>2. AfterSave[pc[c]] \in {"mark", "push"}
        BY <3>1 DEF AfterSave
      <3> QED
        BY <2>2, <2>3, <3>1, <3>2 DEF Accountable
    <2> QED
      BY <1>1, <1>4, <2>1, <2>4, OthersAccount DEF Accounted, Pending, Queued
  <1> QED
    BY <1>5, <1>6, <1>7

LEMMA AccountMark ==
  ASSUME PipelineTypeOK, NEW c \in Scanners, MarkProcessed(c), NEW j \in Jobs, Accounted(j)
  PROVE  Accounted(j)'
  <1>1. c \in Threads /\ ThreadStep(c)
    BY DEF Threads, ThreadStep, ScanStep
  <1>2. Others(c) /\ Hands
    BY <1>1, OthersStay, HandsTyped
  <1>3. job' = job /\ queue' = queue /\ client' = client /\ pc'[c] = "push"
    BY <1>1, <1>2 DEF MarkProcessed, Goto, Hands
  <1>4. Accountable(c, j) => Accountable(c, j)'
    BY <1>3 DEF Accountable, MarkProcessed, At
  <1> QED
    BY <1>2, <1>3, <1>4, OthersAccount DEF Accounted, Pending, Queued

LEMMA AccountPush ==
  ASSUME PipelineTypeOK, NEW c \in Threads, PushPending(c), NEW j \in Jobs, Accounted(j)
  PROVE  Accounted(j)'
  <1>1. Others(c) /\ Hands /\ SharedTypeOK
    BY OthersStay, HandsTyped DEF ThreadStep, RedisStep
  <1>2. job' = job /\ queue' = Append(queue, client[c].id) /\ pc[c] = "push"
    BY DEF PushPending, At
  <1>3. client[c].id \in Jobs
    BY <1>1, <1>2, PointKinds DEF Hands, HandTypeOK, HasRecord
  <1>4. /\ queue \in Seq(Jobs) /\ queue' \in Seq(Jobs) /\ Len(queue') = Len(queue) + 1
        /\ \A n \in 1..Len(queue) : queue'[n] = queue[n]
        /\ queue'[Len(queue) + 1] = client[c].id
    BY <1>1, <1>2, <1>3, AppendProperties DEF SharedTypeOK
  <1>5. /\ Len(queue) \in Nat
        /\ DOMAIN queue = 1..Len(queue) /\ DOMAIN queue' = 1..(Len(queue) + 1)
    BY <1>4, LenProperties
  <1>6. Queued(j) => Queued(j)'
    BY <1>4, <1>5 DEF Queued
  <1>7. Accountable(c, j) => Queued(j)'
    <2>1. Len(queue) + 1 \in DOMAIN queue'
      BY <1>5
    <2> QED
      BY <1>4, <2>1 DEF Queued, Accountable
  <1> QED
    BY <1>1, <1>2, <1>6, <1>7, OthersAccount DEF Accounted, Pending

LEMMA AccountDequeue ==
  ASSUME PipelineTypeOK, NEW w \in Workers, Dequeue(w), NEW j \in Jobs, Accounted(j)
  PROVE  Accounted(j)'
  <1>1. w \in Threads /\ ThreadStep(w)
    BY DEF Threads, ThreadStep, WorkerStep
  <1>2. Others(w) /\ Hands /\ SharedTypeOK
    BY <1>1, OthersStay, HandsTyped
  <1>3. job' = job /\ queue' = Tail(queue) /\ queue # <<>> /\ pc[w] = "idle"
    BY DEF Dequeue, At
  <1>4. /\ client'[w] = [client[w] EXCEPT !.id = Head(queue), !.rec = None]
        /\ pc'[w] = "popped" /\ client[w] \in ClientType
    BY <1>1, <1>2 DEF Dequeue, Goto, Hands
  <1>5. client'[w].id = Head(queue)
    BY <1>4 DEF ClientType
  <1>6. /\ queue \in Seq(Jobs) /\ queue' \in Seq(Jobs) /\ Len(queue') = Len(queue) - 1
        /\ \A n \in 1..Len(queue') : queue'[n] = queue[n + 1]
    BY <1>2, <1>3, HeadTailProperties DEF SharedTypeOK
  <1>7. /\ Len(queue) \in Nat /\ DOMAIN queue = 1..Len(queue)
        /\ DOMAIN queue' = 1..(Len(queue) - 1)
    BY <1>6, LenProperties
  <1>8. ASSUME Queued(j) PROVE Queued(j)' \/ Accountable(w, j)'
    <2>1. PICK n \in DOMAIN queue : queue[n] = j
      BY <1>8 DEF Queued
    <2>2. CASE n = 1
      <3>1. Head(queue) = queue[1]
        BY <1>3, <1>6
      <3> QED
        BY <1>4, <1>5, <2>1, <2>2, <3>1 DEF Accountable
    <2>3. CASE n # 1
      <3>1. n - 1 \in DOMAIN queue' /\ queue'[n - 1] = queue[n]
        BY <1>6, <1>7, <2>3
      <3> QED
        BY <2>1, <3>1 DEF Queued
    <2> QED
      BY <2>2, <2>3
  <1>9. ~Accountable(w, j)
    BY <1>3 DEF Accountable
  <1> QED
    BY <1>1, <1>2, <1>3, <1>8, <1>9, OthersAccount DEF Accounted, Pending

LEMMA AccountPopped ==
  ASSUME PipelineTypeOK, NEW w \in Workers, DropPopped(w) \/ ClaimJob(w),
         NEW j \in Jobs, Accounted(j)
  PROVE  Accounted(j)'
  <1>1. w \in Threads /\ ThreadStep(w)
    BY DEF Threads, ThreadStep, WorkerStep
  <1>2. Others(w) /\ Hands
    BY <1>1, OthersStay, HandsTyped
  <1>3. job' = job /\ queue' = queue /\ pc[w] = "popped"
    BY DEF DropPopped, ClaimJob, At, shared
  <1>4. CASE DropPopped(w)
    <2>1. Accountable(w, j) => ~Pending(j)
      BY <1>4 DEF DropPopped, Accountable
    <2> QED
      BY <1>2, <1>3, <2>1, OthersAccount DEF Accounted, Pending, Queued
  <1>5. CASE ClaimJob(w)
    <2>1. /\ client'[w] = HandOver(client[w].id, Claimed(job[client[w].id], w))
          /\ pc'[w] = "claim"
      BY <1>1, <1>2, <1>5 DEF ClaimJob, CallSave, Goto, Hands
    <2>2. Accountable(w, j) => Accountable(w, j)'
      BY <2>1 DEF Accountable, HandOver
    <2> QED
      BY <1>2, <1>3, <2>2, OthersAccount DEF Accounted, Pending, Queued
  <1> QED
    BY <1>4, <1>5

\* All the steps of a thread.
LEMMA AccountThread ==
  ASSUME PipelineTypeOK, NEW c \in Threads, ThreadStep(c), NEW j \in Jobs, Accounted(j)
  PROVE  Accounted(j)'
  <1>1. CASE SaveCommand(c) \/ SaveReturns(c)
    BY <1>1, AccountSave
  <1>2. CASE ~SaveCommand(c) /\ ~SaveReturns(c)
    <2>1. CASE c \in Scanners /\ MarkProcessed(c)
      BY <2>1, AccountMark
    <2>2. CASE PushPending(c)
      BY <2>2, AccountPush
    <2>3. CASE c \in Workers /\ (Dequeue(c) \/ DropPopped(c) \/ ClaimJob(c))
      BY <2>3, AccountDequeue, AccountPopped
    <2>4. CASE \/ PushDeadLetter(c)
               \/ \E i \in Inputs : EnqueueJob(c, i)
               \/ BeatClaim(c) \/ BeatProcess(c) \/ WriteSummary(c)
               \/ RetryFailed(c) \/ GiveUpFailed(c) \/ WorkerDies(c)
               \/ RecoveryStep(c)
      <3>1. queue' = queue /\ pc[c] \notin AccountPoints
        <4>1. CASE \/ PushDeadLetter(c)
                   \/ \E i \in Inputs : EnqueueJob(c, i)
          BY <4>1 DEF PushDeadLetter, EnqueueJob, At, AccountPoints
        <4>2. CASE \/ BeatClaim(c) \/ BeatProcess(c) \/ WriteSummary(c)
                   \/ RetryFailed(c) \/ GiveUpFailed(c) \/ WorkerDies(c)
          BY <4>2 DEF BeatClaim, BeatProcess, WriteSummary, RetryFailed, GiveUpFailed,
                      WorkerDies, At, AccountPoints, shared
        <4>3. CASE RecoveryStep(c)
          BY <4>3 DEF RecoveryStep, RecoveryStarts, RecoveryReads, RecoveryMovesOn,
                      RecoverySkips, RecoveryRequeues, RecoveryGivesUp, RecoveryAborts,
                      Stale, Reached, At, AccountPoints, shared
        <4> QED
          BY <2>4, <4>1, <4>2, <4>3
      <3> QED
        BY <1>2, <3>1, AccountFree
    <2> QED
      BY <1>2, <2>1, <2>2, <2>3, <2>4 DEF ThreadStep, RedisStep, ScanStep, WorkerStep
  <1> QED
    BY <1>1, <1>2

\* A pending job is never lost between the threads: it is in the queue, or some
\* thread (alive or crashed) still has to push it or to claim it.
THEOREM PipelineAccounts == Spec => []PendingAccounted
  <1>1. Init => PendingAccounted
    BY DEF Init, StoreInit, PendingAccounted, Pending
  <1>2. PipelineTypeOK /\ PendingAccounted /\ [Next]_vars => PendingAccounted'
    <2> SUFFICES ASSUME PipelineTypeOK, PendingAccounted, [Next]_vars, NEW j \in Jobs
                 PROVE  Accounted(j)'
      BY DEF PendingAccounted, Accounted
    <2>1. Accounted(j)
      BY DEF PendingAccounted, Accounted
    <2>2. CASE UNCHANGED <<job, client, pc, queue>>
      BY <2>1, <2>2 DEF Accounted, Pending, Queued, Accountable
    <2>3. ASSUME NEW c \in Threads, ThreadStep(c) PROVE Accounted(j)'
      BY <2>1, <2>3, AccountThread
    <2>4. ASSUME NEW k \in Jobs, HeartbeatLeft(k) \/ HeartbeatLapses(k) \/ JobExpires(k)
          PROVE  Accounted(j)'
      <3>1. CASE JobExpires(k)
        <4>1. /\ job'[j] \in {job[j], None}
              /\ UNCHANGED <<client, pc, queue>>
          BY <3>1, HandsTyped DEF JobExpires, Expire, StoredTypeOK, shared
        <4> QED
          BY <2>1, <4>1 DEF Accounted, Pending, Queued, Accountable
      <3>2. CASE HeartbeatLeft(k) \/ HeartbeatLapses(k)
        BY <2>2, <3>2 DEF HeartbeatLeft, HeartbeatLapses
      <3> QED
        BY <2>4, <3>1, <3>2
    <2>5. ASSUME NEW P \in Processes, Crash(P) PROVE Accounted(j)'
      BY <2>2, <2>5 DEF Crash, shared
    <2>6. UNCHANGED vars => Accounted(j)'
      BY <2>2 DEF vars, shared
    <2> QED
      BY <2>3, <2>4, <2>5, <2>6, NextCases
  <1> QED
    BY <1>1, <1>2, PipelineTyped, PTL DEF Spec
=============================================================================

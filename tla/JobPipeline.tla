---------------------------- MODULE JobPipeline ----------------------------
(***************************************************************************)
(* The life of a transcode job across the processes of vshift: the scan    *)
(* thread of a server creates and enqueues it, workers claim, transcode    *)
(* and complete it (or report its failure), the recovery thread of a       *)
(* server takes back the jobs whose heartbeat is gone.  They share only    *)
(* Redis; every action below is one Redis command (or the end of an        *)
(* ffmpeg run) together with the computation up to the next command.       *)
(*                                                                         *)
(* Jobs are numbered in the order of their created_at.                     *)
(***************************************************************************)
EXTENDS Naturals, Sequences, FiniteSets

CONSTANTS
  Inputs,       \* the canonical paths of the input files
  MaxJobs,      \* bound: how many jobs the scan threads may create
  Workers,      \* worker processes, each with its own worker id
  Scanners,     \* the scan threads of the servers
  Recoverers,   \* the recovery threads of the servers
  Processes,    \* a partition of the threads: a crash stops a whole process
  MaxRetries,   \* behavior.max_retries
  ListLimit,    \* the default limit of list_by_state
  None,         \* no worker, no record, no id
  Overlap,      \* TRUE: workers go on during a recovery pass, as they do
  MaxCrashes,   \* bound: how many processes crash
  CrashPoints,  \* the program points at which their threads may be then
  MaxLapses,    \* bound: heartbeats that expire while a live worker has the job
  MaxExpiries   \* bound: job records that outlive their TTL

Threads == Workers \cup Scanners \cup Recoverers
Jobs    == 1..MaxJobs

VARIABLES job, index, client,   \* the job repository, see JobStore
          queue,       \* the pending queue, its next id first
          deadLetter,  \* the ids in the dead-letter list, of which nobody reads more
          heartbeat,   \* the jobs whose heartbeat key exists
          processed,   \* the paths with a processed key
          summary,     \* the jobs with a summary key
          created,     \* how many jobs have been created
          pc,          \* pc[c]: where thread c is
          pass,        \* pass[r]: what recovery thread r has listed
          alive,       \* the threads of the processes that have not stopped
          faults       \* how many faults of each kind happened, for the bounds

\* TranscodeJob: the fields that decide what happens to a job.
TranscodeJob == [state   : {"PENDING", "CLAIMED", "PROCESSING", "COMPLETED", "FAILED"},
                 worker  : Workers \cup {None},
                 attempt : Nat \ {0},
                 input   : Inputs]

INSTANCE JobStore WITH Clients <- Threads, Records <- TranscodeJob

ASSUME PipelineAssumption ==
  /\ MaxJobs \in Nat /\ MaxRetries \in Nat \ {0} /\ ListLimit \in Nat \ {0}
  /\ Overlap \in BOOLEAN
  /\ MaxCrashes \in Nat /\ MaxLapses \in Nat /\ MaxExpiries \in Nat
  /\ Workers \cap (Scanners \cup Recoverers) = {} /\ Scanners \cap Recoverers = {}
  /\ Processes \subseteq SUBSET Threads
  /\ None \notin TranscodeJob \cup Jobs \cup JobStates \cup Workers

shared == <<queue, deadLetter, heartbeat, processed, summary, created>>
vars   == <<job, index, client, shared, pc, pass, alive, faults>>

(***************************************************************************)
(* The program points.  At "create", "claim", "process", "complete",       *)
(* "requeue" and "fail" the thread is inside save(), whose progress is in  *)
(* client[c].step; each is named for the state it saves.                   *)
(***************************************************************************)
SavePoints == {"create", "claim", "process", "complete", "requeue", "fail"}
WorkerPoints == {"popped", "beatClaim", "beatProcess", "transcode"}
PassPoints == {"list", "check"}
Points == SavePoints \cup WorkerPoints \cup PassPoints
            \cup {"idle", "mark", "push", "bury", "dead"}

\* A recovery thread that has walked the list of PROCESSING jobs has nothing left.
NoPass == [state |-> "PROCESSING", ids |-> {}, found |-> {}]

\* Where a pass is that has the jobs "found" of state st still to look at.
Walking(st, found) == IF st = "PROCESSING" /\ found = {} THEN "idle" ELSE "check"

\* The state that the save at each point is to store.
SavedState == [create |-> "PENDING", claim |-> "CLAIMED", process |-> "PROCESSING",
               complete |-> "COMPLETED", requeue |-> "PENDING", fail |-> "FAILED"]

\* A popped id has no record yet; from then on, and from the creation of a job on,
\* a thread holds a record until it lets go of the job.
HasId     == SavePoints \cup {"popped", "beatClaim", "beatProcess", "transcode",
                              "mark", "push", "bury"}
HasRecord == HasId \ {"popped"}

HandTypeOK(c) ==
  /\ pc[c] \in HasId => client[c].id \in Jobs
  /\ pc[c] \in HasRecord => client[c].rec \in TranscodeJob
  /\ pc[c] \in SavePoints => client[c].rec.state = SavedState[pc[c]]
  /\ pc[c] \notin SavePoints => client[c].step = "idle"

PipelineTypeOK ==
  /\ StoreTypeOK
  /\ queue \in Seq(Jobs) /\ deadLetter \subseteq Jobs
  /\ heartbeat \subseteq Jobs /\ summary \subseteq Jobs /\ processed \subseteq Inputs
  /\ created \in 0..MaxJobs
  /\ pc \in [Threads -> Points]
  /\ \A c \in Threads : HandTypeOK(c)
  /\ pass \in [Recoverers -> [state : HeldStates, ids : SUBSET Jobs,
                              found : SUBSET [id : Jobs, rec : TranscodeJob]]]
  /\ alive \subseteq Threads
  /\ faults \in [crashes : 0..MaxCrashes, lapses : 0..MaxLapses, expiries : 0..MaxExpiries]

Init ==
  /\ StoreInit
  /\ queue = <<>> /\ deadLetter = {}
  /\ heartbeat = {} /\ processed = {} /\ summary = {} /\ created = 0
  /\ pc = [c \in Threads |-> "idle"]
  /\ pass = [r \in Recoverers |-> NoPass]
  /\ alive = Threads
  /\ faults = [crashes |-> 0, lapses |-> 0, expiries |-> 0]

Pending(j) == job[j] # None /\ job[j].state = "PENDING"

(***************************************************************************)
(* With Overlap = FALSE a recovery pass is as short, next to the interval  *)
(* of 60 seconds between two of them, as the design takes it to be: it     *)
(* starts while no worker is between two Redis commands of a claim, a      *)
(* save or a retry, and no worker takes a step before it is over.          *)
(***************************************************************************)
Quiet   == \A r \in Recoverers \cap alive : pc[r] = "idle"
Settled == \A w \in Workers \cap alive : pc[w] \in {"idle", "transcode", "dead"}

Runs(c) == /\ c \in alive
           /\ c \in Workers /\ ~Overlap => Quiet

At(c, p) == Runs(c) /\ pc[c] = p
Goto(c, p) == pc' = [pc EXCEPT ![c] = p]

\* Thread c goes on to the call save(r) for job j, at save point p.
CallSave(c, p, j, r) ==
  /\ Goto(c, p)
  /\ client' = [client EXCEPT ![c] = HandOver(j, r)]

\* Thread c lets go of its job and goes on to p.
LetGo(c, p) ==
  /\ Goto(c, p)
  /\ client' = [client EXCEPT ![c] = EmptyHanded]

(***************************************************************************)
(* save(), as JobStore has it, and where the thread goes on after it.      *)
(***************************************************************************)
\* Mutant: a requeued job is never pushed.
AfterSave_NoPush == [create |-> "mark", claim |-> "beatClaim", process |-> "beatProcess",
                     complete |-> "idle", requeue |-> "idle", fail |-> "bury"]

AfterSave == [create |-> "mark", claim |-> "beatClaim", process |-> "beatProcess",
              complete |-> "idle", requeue |-> "push", fail |-> "bury"]

SaveCommand(c) ==
  /\ Runs(c) /\ pc[c] \in SavePoints
  /\ SaveGet(c) \/ SaveSrem(c) \/ SaveSet(c)
  /\ UNCHANGED <<shared, pc, pass, alive, faults>>

\* The GET with which ProcessNextJob reads a completed job back decides nothing:
\* the worker lets go of the job when its save returns.
SaveReturns(c) ==
  /\ Runs(c) /\ pc[c] \in SavePoints
  /\ SaveSadd(c, IF pc[c] = "complete" THEN EmptyHanded ELSE Saved(c))
  /\ Goto(c, AfterSave[pc[c]])
  /\ UNCHANGED <<shared, pass, alive, faults>>

(***************************************************************************)
(* EnqueueJob, run by a scan thread for a file that is stable and matched: *)
(* save the job, mark the path, push the id.                               *)
(***************************************************************************)
NewJob(i) == [state |-> "PENDING", worker |-> None, attempt |-> 1, input |-> i]

\* Mutant: the path is marked before the job is saved.
EnqueueJob_MarkFirst(s, i) ==
  /\ At(s, "idle") /\ i \notin processed /\ created < MaxJobs
  /\ created' = created + 1
  /\ processed' = processed \cup {i}
  /\ CallSave(s, "create", created + 1, NewJob(i))
  /\ UNCHANGED <<job, index, queue, deadLetter, heartbeat, summary, pass, alive, faults>>

\* Mutant: the id is pushed before the job is saved.
EnqueueJob_PushFirst(s, i) ==
  /\ At(s, "idle") /\ i \notin processed /\ created < MaxJobs
  /\ created' = created + 1
  /\ queue' = Append(queue, created + 1)
  /\ CallSave(s, "create", created + 1, NewJob(i))
  /\ UNCHANGED <<job, index, deadLetter, heartbeat, processed, summary, pass, alive, faults>>

EnqueueJob(s, i) ==
  /\ At(s, "idle")
  /\ i \notin processed
  /\ created < MaxJobs
  /\ created' = created + 1
  /\ CallSave(s, "create", created + 1, NewJob(i))
  /\ UNCHANGED <<job, index, queue, deadLetter, heartbeat, processed, summary>>
  /\ UNCHANGED <<pass, alive, faults>>

MarkProcessed(s) ==
  /\ At(s, "mark")
  /\ processed' = processed \cup {client[s].rec.input}
  /\ Goto(s, "push")
  /\ UNCHANGED <<job, index, client, queue, deadLetter, heartbeat, summary, created>>
  /\ UNCHANGED <<pass, alive, faults>>

(***************************************************************************)
(* The two lists.  enqueue() ends EnqueueJob, a retry and a recovery;      *)
(* push_to_dead_letter() ends a job that is out of attempts.               *)
(***************************************************************************)
AfterPush(c) == IF c \in Recoverers THEN Walking(pass[c].state, pass[c].found) ELSE "idle"

PushPending(c) ==
  /\ At(c, "push")
  /\ queue' = Append(queue, client[c].id)
  /\ LetGo(c, AfterPush(c))
  /\ UNCHANGED <<job, index, deadLetter, heartbeat, processed, summary, created>>
  /\ UNCHANGED <<pass, alive, faults>>

PushDeadLetter(c) ==
  /\ At(c, "bury")
  /\ deadLetter' = deadLetter \cup {client[c].id}
  /\ LetGo(c, AfterPush(c))
  /\ UNCHANGED <<job, index, queue, heartbeat, processed, summary, created>>
  /\ UNCHANGED <<pass, alive, faults>>

(***************************************************************************)
(* ClaimJob: pop an id, read the record, save it as claimed, beat.         *)
(***************************************************************************)
\* Mutant: the id is read (LINDEX) and stays in the queue.
Dequeue_Peek(w) ==
  /\ At(w, "idle") /\ queue # <<>>
  /\ client' = [client EXCEPT ![w].id = Head(queue), ![w].rec = None]
  /\ Goto(w, "popped")
  /\ UNCHANGED <<job, index, shared, pass, alive, faults>>

Dequeue(w) ==
  /\ At(w, "idle")
  /\ queue # <<>>
  /\ queue' = Tail(queue)
  /\ client' = [client EXCEPT ![w].id = Head(queue), ![w].rec = None]
  /\ Goto(w, "popped")
  /\ UNCHANGED <<job, index, deadLetter, heartbeat, processed, summary, created>>
  /\ UNCHANGED <<pass, alive, faults>>

\* The id is dropped when there is no record or the job is not pending.
DropPopped(w) ==
  /\ At(w, "popped")
  /\ ~Pending(client[w].id)
  /\ LetGo(w, "idle")
  /\ UNCHANGED <<job, index, shared, pass, alive, faults>>

Claimed(r, w) == [r EXCEPT !.state = "CLAIMED", !.worker = w]

ClaimJob(w) ==
  /\ At(w, "popped")
  /\ LET j == client[w].id
     IN  /\ Pending(j)
         /\ CallSave(w, "claim", j, Claimed(job[j], w))
  /\ UNCHANGED <<job, index, shared, pass, alive, faults>>

Processing(r) == [r EXCEPT !.state = "PROCESSING"]

\* set_job_heartbeat after the claim; ExecuteTranscode then saves PROCESSING.
BeatClaim(w) ==
  /\ At(w, "beatClaim")
  /\ heartbeat' = heartbeat \cup {client[w].id}
  /\ CallSave(w, "process", client[w].id, Processing(client[w].rec))
  /\ UNCHANGED <<job, index, queue, deadLetter, processed, summary, created>>
  /\ UNCHANGED <<pass, alive, faults>>

(***************************************************************************)
(* ExecuteTranscode and WriteSummary.  At "transcode" ffmpeg runs; it, and *)
(* the probes of its output, succeed (the next command is WriteSummary) or *)
(* raise a VShiftException (the next command is the GET of the handler).   *)
(***************************************************************************)
BeatProcess(w) ==
  /\ At(w, "beatProcess")
  /\ heartbeat' = heartbeat \cup {client[w].id}
  /\ Goto(w, "transcode")
  /\ UNCHANGED <<job, index, client, queue, deadLetter, processed, summary, created>>
  /\ UNCHANGED <<pass, alive, faults>>

Completed(r) == [r EXCEPT !.state = "COMPLETED"]

\* Mutant: the job is completed without its summary.
WriteSummary_NoSummary(w) ==
  /\ At(w, "transcode")
  /\ CallSave(w, "complete", client[w].id, Completed(client[w].rec))
  /\ UNCHANGED <<job, index, shared, pass, alive, faults>>

\* build_summary and save_summary; the job is completed after that.
WriteSummary(w) ==
  /\ At(w, "transcode")
  /\ summary' = summary \cup {client[w].id}
  /\ CallSave(w, "complete", client[w].id, Completed(client[w].rec))
  /\ UNCHANGED <<job, index, queue, deadLetter, heartbeat, processed, created>>
  /\ UNCHANGED <<pass, alive, faults>>

(***************************************************************************)
(* ProcessNextJob's handler: read the record again and give it to          *)
(* HandleJobFailure, whose own exceptions nobody catches.                  *)
(***************************************************************************)
\* "repository.get(job.id) or job"
Current(w) == IF job[client[w].id] = None THEN client[w].rec ELSE job[client[w].id]

Owns(w, r) == r.worker = w /\ r.state \in HeldStates

\* Mutants: a retry counts down, or does not count.
Retried_Down(r) == [r EXCEPT !.state = "PENDING", !.worker = None, !.attempt = @ - 1]
Retried_Same(r) == [r EXCEPT !.state = "PENDING", !.worker = None]

Retried(r) == [r EXCEPT !.state = "PENDING", !.worker = None, !.attempt = @ + 1]
GivenUp(r) == [r EXCEPT !.state = "FAILED", !.worker = None]

RetryFailed(w) ==
  /\ At(w, "transcode")
  /\ Owns(w, Current(w))
  /\ Current(w).attempt < MaxRetries
  /\ CallSave(w, "requeue", client[w].id, Retried(Current(w)))
  /\ UNCHANGED <<job, index, shared, pass, alive, faults>>

GiveUpFailed(w) ==
  /\ At(w, "transcode")
  /\ Owns(w, Current(w))
  /\ Current(w).attempt >= MaxRetries
  /\ CallSave(w, "fail", client[w].id, GivenUp(Current(w)))
  /\ UNCHANGED <<job, index, shared, pass, alive, faults>>

\* The exception leaves main(): the worker process ends, still registered.
WorkerDies(w) ==
  /\ At(w, "transcode")
  /\ ~Owns(w, Current(w))
  /\ LetGo(w, "dead")
  /\ UNCHANGED <<job, index, shared, pass, alive, faults>>

(***************************************************************************)
(* RecoverStaleJobs: for CLAIMED and then PROCESSING, list the jobs of the *)
(* state (SMEMBERS, then a GET for each id), then walk the list newest     *)
(* first.  What was read is used however old it is by then.                *)
(***************************************************************************)
NewestFirst(found) ==
  {s \in found : Cardinality({t \in found : t.id > s.id}) < ListLimit}

\* SMEMBERS of the index of state st: each of its ids is still to be read.
ListIds(r, st) ==
  /\ pass' = [pass EXCEPT ![r] = [state |-> st, ids |-> index[st], found |-> {}]]
  /\ Goto(r, IF index[st] # {} THEN "list" ELSE Walking(st, {}))

RecoveryStarts(r) ==
  /\ At(r, "idle")
  /\ ~Overlap => Settled
  /\ ListIds(r, "CLAIMED")
  /\ UNCHANGED <<job, index, client, shared, alive, faults>>

\* Mutant: the jobs in PROCESSING are never listed.
RecoveryMovesOn_Skips(r) ==
  /\ At(r, "check") /\ pass[r].found = {}
  /\ pass' = [pass EXCEPT ![r] = NoPass]
  /\ Goto(r, "idle")
  /\ UNCHANGED <<job, index, client, shared, alive, faults>>

RecoveryMovesOn(r) ==
  /\ At(r, "check") /\ pass[r].found = {}
  /\ ListIds(r, "PROCESSING")
  /\ UNCHANGED <<job, index, client, shared, alive, faults>>

RecoveryReads(r) ==
  /\ At(r, "list")
  /\ \E j \in pass[r].ids :
       LET ids   == pass[r].ids \ {j}
           read  == IF job[j] = None THEN {} ELSE {[id |-> j, rec |-> job[j]]}
           found == pass[r].found \cup read
       IN  IF ids # {}
           THEN /\ pass' = [pass EXCEPT ![r].ids = ids, ![r].found = found]
                /\ UNCHANGED pc
           ELSE /\ pass' = [pass EXCEPT ![r].ids = {}, ![r].found = NewestFirst(found)]
                /\ Goto(r, Walking(pass[r].state, found))
  /\ UNCHANGED <<job, index, client, shared, alive, faults>>

\* The walk has come to s: a job of the list, as it was when it was read.
Reached(r, s) ==
  /\ At(r, "check")
  /\ s \in pass[r].found
  /\ \A t \in pass[r].found : t.id <= s.id

Rest(r, s) == pass[r].found \ {s}
Walked(r, s) == pass' = [pass EXCEPT ![r].found = Rest(r, s)]

RecoverySkips(r, s) ==
  /\ Reached(r, s)
  /\ s.id \in heartbeat
  /\ Walked(r, s)
  /\ Goto(r, Walking(pass[r].state, Rest(r, s)))
  /\ UNCHANGED <<job, index, client, shared, alive, faults>>

\* Mutant: the heartbeat is not looked at.
Stale_Any(r, s) == Reached(r, s)

Stale(r, s) == Reached(r, s) /\ s.id \notin heartbeat

\* Mutant: one attempt too many.
RecoveryRequeues_OneMore(r, s) ==
  /\ Stale(r, s)
  /\ s.rec.attempt <= MaxRetries
  /\ CanTransition(s.rec.state, "PENDING")
  /\ CallSave(r, "requeue", s.id, Retried(s.rec))
  /\ Walked(r, s)
  /\ UNCHANGED <<job, index, shared, alive, faults>>

RecoveryRequeues(r, s) ==
  /\ Stale(r, s)
  /\ s.rec.attempt < MaxRetries
  /\ CanTransition(s.rec.state, "PENDING")
  /\ CallSave(r, "requeue", s.id, Retried(s.rec))
  /\ Walked(r, s)
  /\ UNCHANGED <<job, index, shared, alive, faults>>

RecoveryGivesUp(r, s) ==
  /\ Stale(r, s)
  /\ s.rec.attempt >= MaxRetries
  /\ CanTransition(s.rec.state, "FAILED")
  /\ CallSave(r, "fail", s.id, GivenUp(s.rec))
  /\ Walked(r, s)
  /\ UNCHANGED <<job, index, shared, alive, faults>>

\* transition() raises: the pass is over, the other jobs wait for the next one.
RecoveryAborts(r, s) ==
  /\ Stale(r, s)
  /\ ~CanTransition(s.rec.state, IF s.rec.attempt >= MaxRetries THEN "FAILED" ELSE "PENDING")
  /\ Goto(r, "idle")
  /\ pass' = [pass EXCEPT ![r] = NoPass]
  /\ UNCHANGED <<job, index, client, shared, alive, faults>>

(***************************************************************************)
(* Time and faults.  The heartbeat key of a job has a TTL that nothing     *)
(* renews between BeatProcess and the end of the transcode.                *)
(***************************************************************************)
Working(j) == \E w \in Workers \cap alive : client[w].id = j /\ pc[w] # "popped"

HeartbeatLeft(j) ==
  /\ j \in heartbeat /\ ~Working(j)
  /\ heartbeat' = heartbeat \ {j}
  /\ UNCHANGED <<job, index, client, queue, deadLetter, processed, summary, created>>
  /\ UNCHANGED <<pc, pass, alive, faults>>

HeartbeatLapses(j) ==
  /\ j \in heartbeat /\ Working(j)
  /\ faults.lapses < MaxLapses
  /\ heartbeat' = heartbeat \ {j}
  /\ faults' = [faults EXCEPT !.lapses = @ + 1]
  /\ UNCHANGED <<job, index, client, queue, deadLetter, processed, summary, created>>
  /\ UNCHANGED <<pc, pass, alive>>

JobExpires(j) ==
  /\ faults.expiries < MaxExpiries
  /\ Expire(j)
  /\ faults' = [faults EXCEPT !.expiries = @ + 1]
  /\ UNCHANGED <<shared, pc, pass, alive>>

\* A process stops for good, its threads wherever they are.
Crash(P) ==
  /\ faults.crashes < MaxCrashes
  /\ P \cap alive # {}
  /\ \A c \in P \cap alive : pc[c] \in CrashPoints
  /\ alive' = alive \ P
  /\ faults' = [faults EXCEPT !.crashes = @ + 1]
  /\ UNCHANGED <<job, index, client, shared, pc, pass>>

-----------------------------------------------------------------------------
ScanStep(s) == (\E i \in Inputs : EnqueueJob(s, i)) \/ MarkProcessed(s)

WorkerStep(w) ==
  \/ Dequeue(w) \/ DropPopped(w) \/ ClaimJob(w) \/ BeatClaim(w) \/ BeatProcess(w)
  \/ WriteSummary(w)
  \/ RetryFailed(w) \/ GiveUpFailed(w) \/ WorkerDies(w)

RecoveryStep(r) ==
  \/ RecoveryStarts(r) \/ RecoveryReads(r) \/ RecoveryMovesOn(r)
  \/ \E s \in pass[r].found :
       \/ RecoverySkips(r, s) \/ RecoveryRequeues(r, s)
       \/ RecoveryGivesUp(r, s) \/ RecoveryAborts(r, s)

RedisStep(c) == SaveCommand(c) \/ SaveReturns(c) \/ PushPending(c) \/ PushDeadLetter(c)

Faults ==
  \/ \E j \in Jobs : HeartbeatLapses(j) \/ JobExpires(j)
  \/ \E P \in Processes : Crash(P)

Next ==
  \/ \E c \in Threads : RedisStep(c)
  \/ \E s \in Scanners : ScanStep(s)
  \/ \E w \in Workers : WorkerStep(w)
  \/ \E r \in Recoverers : RecoveryStep(r)
  \/ \E j \in Jobs : HeartbeatLeft(j)
  \/ Faults

Spec == Init /\ [][Next]_vars

(***************************************************************************)
(* Every live thread keeps going (each is a loop in a thread or a process  *)
(* of its own, and no command blocks but BRPOP on an empty queue), and a   *)
(* heartbeat nobody renews reaches its TTL.  Strong fairness, because with *)
(* Overlap = FALSE workers and recovery take turns, and neither comes so   *)
(* often that the other never has its turn.  No fault has to happen.       *)
(***************************************************************************)
Fairness ==
  /\ \A s \in Scanners : WF_vars(ScanStep(s) \/ RedisStep(s))
  /\ \A w \in Workers : SF_vars(WorkerStep(w) \/ RedisStep(w))
  /\ \A r \in Recoverers : SF_vars(RecoveryStep(r) \/ RedisStep(r))
  /\ \A j \in Jobs : WF_vars(HeartbeatLeft(j))

FairSpec == Spec /\ Fairness

-----------------------------------------------------------------------------
(* What the pipeline guarantees whatever the interleaving and the faults.  *)

\* Thread c still has to push job j, or to save the claim of the id it popped.
Accountable(c, j) ==
  /\ client[c].id = j
  /\ \/ pc[c] \in {"mark", "push", "popped"}
     \/ pc[c] = "claim" /\ client[c].step # "sadd"
     \/ pc[c] \in {"create", "requeue"} /\ client[c].step = "sadd"

Queued(j) == \E n \in DOMAIN queue : queue[n] = j

\* A pending job is in the queue or in the hands of a thread that will put it
\* there or claim it.  Requeues by workers and by the recovery thread, whose
\* saves overlap and overwrite each other, never lose it: only a process that
\* stops while it is accountable does.
PendingAccounted ==
  \A j \in Jobs : Pending(j) => Queued(j) \/ \E c \in Threads : Accountable(c, j)

\* No record, stored or about to be saved, carries an attempt beyond
\* max_retries: a retry by the worker and one by the recovery thread, each on
\* its own copy of the job, do not add up.
AttemptsBounded ==
  /\ \A j \in Jobs : job[j] # None => job[j].attempt <= MaxRetries
  /\ \A c \in Threads : client[c].rec # None => client[c].rec.attempt <= MaxRetries
  /\ \A r \in Recoverers : \A s \in pass[r].found : s.rec.attempt <= MaxRetries

\* The API can show the summary of every job it shows as completed.
CompletedHasSummary ==
  \A j \in Jobs : job[j] # None /\ job[j].state = "COMPLETED" => j \in summary

\* A path is marked as processed only once a job for it has been saved: a crash
\* of the server may enqueue a file twice, but not mark it without a job.
ProcessedHasJob ==
  \A i \in processed :
    \E j \in Jobs : (job[j] # None /\ job[j].input = i) \/ faults.expiries > 0

\* An id is pushed only after its record was saved, so that ClaimJob drops an
\* "unknown job" only when the record outlived its TTL.
QueuedHasRecord ==
  faults.expiries = 0 => \A n \in DOMAIN queue : job[queue[n]] # None

Finished(j) == job[j] # None /\ job[j].state \in TerminalStates

NoWorkerLeft == \A w \in Workers : w \notin alive \/ pc[w] = "dead"

\* Every job that is created is completed or failed in the end, even when the
\* worker that holds it crashes, as long as a worker remains.
JobsFinish == \A j \in Jobs : (job[j] # None) ~> (Finished(j) \/ NoWorkerLeft)

\* Crash-safe orchestration: a job that is not finished is queued, or in the
\* hands of a live thread, or in an index that RecoverStaleJobs reads.
CrashSafe ==
  \A j \in Jobs :
    job[j] # None /\ ~Finished(j)
      => \/ Queued(j)
         \/ \E c \in alive : client[c].id = j
         \/ \E s \in HeldStates : j \in index[s]

\* A finished job stays as it is: the state machine has no way out of COMPLETED
\* and FAILED.
FinishedStays ==
  [][\A j \in Jobs : Finished(j) => job'[j] \in {job[j], None}]_vars

\* The heartbeat of a job lives for as long as a worker transcodes it.
HeartbeatWhileTranscoding ==
  \A w \in Workers : At(w, "transcode") => client[w].id \in heartbeat
=============================================================================

# vshift: TLA+ verification

vshift watches a folder for video files and transcodes them: a server scans, matches and
enqueues, workers run ffmpeg, Redis is all they share. This directory holds TLA+ models of
that system, the TLC runs that check them on small instances and the TLAPS proofs that hold
for every instance. Paths below are relative to the repository; `vshift/` is `src/vshift/`.

## The system

| Component | State it keeps | Operations | Talks to |
| --- | --- | --- | --- |
| Job state machine (`domain/job`) | none | `transition` | called by every use case that changes a job |
| Job repository (`infrastructure/redis/job_store.py`) | one JSON string per job (with a TTL), one set of ids per state (without), summaries | `save` (GET, SREM, SET, SADD), `get`, `list_by_state`, `save_summary` | Redis |
| Task queue (`infrastructure/redis/task_queue.py`) | the pending list, the dead-letter list | LPUSH, BRPOP, LLEN | Redis |
| Processed paths (`infrastructure/redis/processed_file_store.py`) | one key per canonical input path, without TTL | `is_processed`, `mark_processed` | Redis |
| Worker registry and job heartbeats (`infrastructure/redis/worker_registry.py`) | one key per worker and per running job (with TTLs), an index of workers | `register`, `heartbeat`, `deregister`, `list_workers`, `set_job_heartbeat`, `is_job_alive` | Redis |
| Server, scan thread (`ScanInputFolder`, `PollFileScanner`, `ProbeInputFile`, `MatchProfile`, `EnqueueJob`) | nothing between two scans | one scan per interval | file system, ffprobe, repository, queue |
| Server, recovery thread (`RecoverStaleJobs`) | the list it is walking | one pass per interval | repository, heartbeats, queue |
| Server, scaling thread (`EnsureWorkerCapacity`, `K8sWorkerPodLauncher`) | nothing | one pass per interval | queue depth, Kubernetes |
| Server, REST API (`infrastructure/api`) | nothing | list, detail, summary | repository |
| Worker (`ClaimJob`, `ExecuteTranscode`, `WriteSummary`, `HandleJobFailure`, `ProcessNextJob`) | the job object it works on | one job after another, or one job (one-shot) | queue, repository, heartbeats, ffmpeg |
| Transcoder (`infrastructure/ffmpeg`) | partial file, output file | `transcode`, `build_summary` | ffmpeg, file system |
| Profiles (`domain/transcoding_profile`, `infrastructure/handbrake`, `profile_mapper.py`, `encoder_resolver.py`) | immutable after start | import of HandBrake presets, validation, encoder resolution, the ffmpeg command | transcoder |
| Configuration and matching (`domain/config`) | immutable after start | validation, rule matching | scan |

Nothing in the system is a transaction and nobody holds a lock. Every use case is a
sequence of Redis commands, and the processes that run them (servers, workers, several of
each) interleave command by command, crash between any two of them, and act on job objects
they read some commands ago. What is hard to test, and what makes each part correct:

- **Repository**: `save` is four commands. A job must not drop out of the index of its
  state, whoever else saves it at the same time.
- **Queue and job record**: a pending job must be in the queue or in the hands of someone
  who will put it there, and an id in the queue must have a record.
- **Claim, transcode, complete, retry, recover**: one holder at a time, at most
  `max_retries` attempts, nothing completed without its summary, nothing finished opened
  again, everything finished in the end; with workers that crash and heartbeats that lapse.
- **Scan**: a file is enqueued once it is stable, not twice, and one bad file must not keep
  the others waiting. (The second and the third do not hold: `processed_twice`, `scan_blocked`.)
- **Transcoder**: an output file that can be seen is complete.
- **Registry and scaling**: a worker in service can be found; a queued job gets a pod in the
  end, and pods are bounded. (Each server keeps to the limit by itself: two that count at the same
  time may have twice as many pods, and no more.)
- **REST API**: a list of jobs is put together from five indexes that change meanwhile.
- **Matching**: the first rule by priority, whatever the order of the file; the bit depth a
  video has, read from a name; no exception for a configuration that was accepted.
- **Profiles and commands**: an encoder the host can use, and options that this encoder
  understands, for a profile that was imported for another one; each audio track at its place.

`PROJECT.json` lists these hazards one by one, each at its line, with the properties that
cover it; where the properties leave out a part of the hazard, a note says which.

## The modules

| Module | Models | Kind |
| --- | --- | --- |
| `JobStateMachine` | the states of a job and `_VALID_TRANSITIONS` | operators |
| `JobStore` | `RedisJobRepository.save` and expiry, for any clients | state machine |
| `JobQueries` | `list_jobs` of the API, over `JobStore` | state machine, composition |
| `JobStoreProofs` | invariants of the two, for every instance | proofs |
| `MCJobStore` | instance of the two for TLC | model |
| `JobPipeline` | scan threads, workers, recovery threads, queue, heartbeats, crashes, around `JobStore` | state machine, composition |
| `JobPipelineProofs` | what each thread holds at each point, indexes and pending jobs, for every instance | proofs |
| `JobPipelineOutcomes` | attempts, summaries, queued ids and marked paths, for every instance | proofs |
| `JobTakeover` | over `JobPipeline`: which jobs recovery took over without being right, and what the others are promised | history variable, properties |
| `JobPipelineLifecycle` | that it implements `JobLifecycle` and `JobAssignment`, under every interleaving and fault | proofs |
| `JobLifecycle` | the life a job is promised (architecture 6.2, 10.2) | abstract specification |
| `JobAssignment` | who transcodes what: one worker per job, no completed job again | abstract specification |
| `MCJobPipeline` | instances for TLC | model |
| `EncoderResolver` | `EncoderResolver`: the encoder ffmpeg is to use, the software fallback | operators |
| `TranscodeOutput` | `FfmpegTranscoder`: partial files, renames, second runs, workers that share directories | state machine |
| `TranscodeOutputProofs` | encoders, files and summaries, and that it implements `AtomicOutput`, for every instance | proofs |
| `AtomicOutput` | "atomically write output" (README, point 3) | abstract specification |
| `VshiftProfile` | the native profile, its defaults and what is rejected | operators |
| `ProfileMapper` | profile and encoder to ffmpeg's options | operators |
| `HandBrakeImport` | HandBrake presets to profiles | operators |
| `ImportedProfiles` | what import, resolution and mapping do together, over `TranscodeOutput` | composition, properties |
| `ImportProofs` | the same for every preset and host | proofs |
| `MCTranscodeOutput` | instances for TLC | model |
| `VideoStream` | what is made of ffprobe's report: bit depth, HDR, size | operators |
| `ProfileMatching` | criteria, rules by priority, `no_match`, validation of the configuration | operators |
| `InputScan` | the scans of any number of servers, and the people who copy files into the directory | state machine |
| `ScanMatching` | the shipped configuration and small ones, and what their matching is to do, over `InputScan` | properties |
| `InputScanProofs` | types and invariants of the scan, and the matching, for every instance | proofs |
| `MCInputScan` | files, servers and media for TLC | model |
| `WorkerRegistry` | `RedisWorkerRegistry`, one operator per command | operators on state |
| `WorkerFleet` | worker processes, static and one-shot, Kubernetes jobs, `EnsureWorkerCapacity` | state machine |
| `WorkerFleetProofs` | its invariants, for every instance | proofs |
| `MCWorkerFleet` | instance for TLC | model |

### JobStore

`job[j]` is the record under the key of job `j`, `index[s]` the set of ids of state `s`, and
`client[c]` what thread `c` holds: the id, the job object, and the next command of its
`save`. `SaveGet`, `SaveSrem`, `SaveSet`, `SaveSadd` are the four commands; a client that
stops taking steps is a client that crashed. `Expire` is the TTL of the record. The clients
may save anything at any time: what the module promises, it promises to every caller.

`JobQueries` adds one request of `GET /jobs`: `ListJobs` takes it, `ReadIndex` is the SMEMBERS of
one state after the other, `ReadJob` one GET, `Respond` the answer. `quiet` and `disturbed` are
history: the jobs nobody has saved since the request began, and those whose saves have ever
overlapped or whose record has expired, which is what leaves an id in two indexes. The page
that is cut out of the list is left out, and the single-record requests are one GET each.

### JobPipeline

Instantiates `JobStore` over its own variables, with all the threads as clients, and adds the
rest of Redis (`queue`, `deadLetter`, `heartbeat`, `processed`, `summary`) and the program
counter of every thread. One action is one Redis command together with the computation up
to the next command (the choice ffmpeg's outcome makes is part of the command that follows
it), so every interleaving of commands is a behaviour of the model.

| Code | Actions |
| --- | --- |
| `EnqueueJob.execute` | `EnqueueJob` (EXISTS of the processed key), save at point `create`, `MarkProcessed`, `PushPending` |
| `ClaimJob.execute` | `Dequeue`, `DropPopped` or `ClaimJob` (GET), save at `claim`, `BeatClaim` |
| `ExecuteTranscode.execute` | save at `process`, `BeatProcess`, then ffmpeg runs (`transcode`) |
| `WriteSummary.execute` | `WriteSummary`, save at `complete` |
| `HandleJobFailure.execute` | `RetryFailed` (save at `requeue`, `PushPending`), `GiveUpFailed` (save at `fail`, `PushDeadLetter`), `WorkerDies` (its own exception, which leaves `main`) |
| `RecoverStaleJobs.execute` | `RecoveryStarts`, `RecoveryReads`, `RecoveryMovesOn`, `RecoverySkips`, `RecoveryRequeues`, `RecoveryGivesUp`, `RecoveryAborts` (the `except` of the recovery loop) |
| TTLs, processes | `HeartbeatLeft`, `HeartbeatLapses`, `JobExpires`, `Crash` |

What is abstracted: job ids are numbers in the order of `created_at` (the only use of that
time is the order of `list_by_state`); a job record keeps state, worker, attempt and input;
time stamps, messages, profiles and paths are left out. The final GET of `ProcessNextJob`,
whose result is only logged, is merged into the end of the save before it. A Redis error in
a server thread ends its pass where it is; it is a `Crash` of that thread, and the next
pass is another thread of `Recoverers` or `Scanners`. A worker that restarts has a new
worker id, so a crashed worker does not come back. A job's TTL is renewed by every save, and
that of its summary is set just before the last one; summaries do not expire in the model.

The dead-letter list is the set of the ids in it: nobody reads their order or number.

`Overlap = TRUE` is the real system: a recovery pass and the workers interleave. All the
safety properties and all the theorems are about that. `Overlap = FALSE` is an assumption that
one run makes, because the promise it checks needs it: a pass starts only when no worker is
between two commands, and the workers wait until it is over. The intervals of 60 seconds
between two passes, next to commands that take milliseconds, make that the usual case.

### JobTakeover, JobLifecycle, JobAssignment

Recovery takes over every job whose heartbeat is gone, with the copy it read when it listed
the job. Nothing in the code makes sure that it is right to: the worker may be alive (nothing
renews the heartbeat), may not have set it yet, may have finished since the copy was read, or
another pass may have taken the job over already. `JobTakeover` adds one history variable,
`forfeited`: a job is forfeited by the step in which recovery takes it over (`TakesOver`) while a
live thread has it or its record is not the one that was read (`~Abandoned`), and by the expiry of its
record. The properties of this module hold of every job until then, in the pipeline as it is,
with lapses, crashes and passes wherever they come. They say where the harm of
`finished_job_reopened` and `heartbeat_not_renewed` begins: not with the lapsed heartbeat, not with
the stale copy, not with a crash, but with that step, and with no other.

`JobLifecycle` has one variable, `life`, and one action per arrow of the state diagram.
The pipeline implements it (`KeepsLifecycle`), with the stored record as `life`, for a job that is not
forfeited; `Forfeit` ends what it says of a job.

`JobAssignment` is where the pipeline and the transcoder meet: a worker takes a job that is
neither completed nor in another worker's hands, finishes it, or leaves it; several may leave at once,
because a crash stops a whole process; a forfeited job is free for anyone. The pipeline implements it
(`AssignsExclusively`). There a job is in a worker's hands (`InHand`) from the second
heartbeat of `ExecuteTranscode`, after which ffmpeg runs, to the SET that stores the job as
completed, and a worker that crashes lets go of it; `done` are the records in state COMPLETED.
`TranscodeOutput` uses its `Free` as the guard of `Transcode`, with the jobs of `Shareable` as the
forfeited ones.

### EncoderResolver, TranscodeOutput, AtomicOutput

`EncoderResolver` has one operator per method; `NoEncoder` is the exception. A host is what
the class reads from its environment: the encoders that ffmpeg lists and the devices.

`TranscodeOutput` keeps what is at the partial path of each job and at each output path, what
is in the files, and what each worker's ffmpeg has open. Files are inodes, because a file that
another worker unlinks or renames lives on under its writer. One action is one access to the
file system or the end of an ffmpeg run:

| Code | Actions |
| --- | --- |
| `transcode`, 58-59 | `Transcode` (exists), `UnlinkBefore`, `UnlinkMissing` (gone since exists: `OSError`) |
| 61-74 | `NoEncoderFound`, `Launch`, `LaunchFails`, `EncodeSucceeds`, `EncodeFails` |
| 75-94 | `FallBack` (then as above), `FallBackRaises` |
| 98-102 | `GiveUp` (exists), `UnlinkAfter`, `UnlinkMissing` |
| 104 | `Replace`, `ReplaceRaises` |
| 106-116, `build_summary` | `ProbeRaises`, `BuildSummary` |
| `WriteSummary.execute`, 36-43 | `Complete` (the job is stored as completed) |
| 54-59, 69, 88, 98-106 | `OSErrorRaised`: mkdir, exists or unlink raise, there is no ffmpeg or ffprobe to start |
| 69, 88 | `DecodeRaises`: ffmpeg ended, well or not, and its stderr is no text (`text=True`), a `UnicodeDecodeError` |
| the process | `Stop`, `Restart` |

A `VShiftException` ends the attempt (`Leave`); an `OSError` or a `UnicodeDecodeError` is caught
nowhere and ends the process (`Die`), with what it has written left where it is. Of `replace` only the
errors of a file that is gone and of two volumes are modelled: another one within a volume (a
permission, say) leaves what a worker leaves that is stopped before the rename, and `separate_volumes`
is to show the two volumes and nothing else. What stderr says is a choice. Whoever stops a worker stops its ffmpeg (a pod
is stopped as a whole); an ffmpeg that survives its worker is not modelled.

Which job a worker gets is the business of `JobPipeline`; here it is `Free` of `JobAssignment`, with the
jobs at work as `holder` and `completed` as `done`. A worker that is stopped between the summary
and the save that completes the job leaves a job that has a summary, an output and no
partial file, and that is given out again: `completed`, and not the summary, says that no
worker comes any more. A job has one worker at a time until it is forfeited; the
jobs in `Shareable` may have two, as after `finished_job_reopened` and `heartbeat_not_renewed`. The properties speak of
the jobs that have one worker and of the output paths that only such jobs have: the code
promises nothing for the rest, and the runs show that the damage stays there.

### VshiftProfile, HandBrakeImport, ProfileMapper

A preset is a record of the keys its JSON object has, a profile a record of the fields of
`VshiftProfile`, a command a record of the options that are given. `ParsePreset` follows
`parse_preset` key by key; `LeafPresets` is the recursion over folders: `Leaves`, a recursive function
over the nodes of a document, for each root. `MapProfile` follows `map_profile`, and `RunCommands` gives the
commands of the first run and of the fallback, by `EncoderResolver`. Qualities are counted in
halves, because HandBrake's sliders are and `int()` cuts them off. A number that is text is
looked up in `Numerals`. Values of a wrong JSON type, which the importer replaces by its
defaults, are not modelled.

These are functions without state. `ImportedProfiles` states what they do together of one preset and
one of its commands (`RateFits`, `TenBitsMapped`, `AudioMapped`), which `ImportProofs`
proves of all of them, and over small sets of presets, documents and hosts where they
matter: of a run that is about to be launched (`Launching`), and before the first job is
taken (`Importing`), which the run goes through. `ImportsInOrder` does not repeat the recursion: the
presets of a document are those that are in every set of nodes that has a root and, with
a folder, what is in it (`Below`), and one comes before another if some list has an entry
over the first before an entry over the second (`Precedes`). `Over(settings, defaults)` is what pydantic does
with the fields of a profile that are left out, and what joins the parts of a command.

What the code does and the models say, without a property against it: subtitle tracks,
chapters, mixdown and multi-pass are imported and never mapped; a stream of a profile's
audio track is mapped without `?`, so that ffmpeg fails on an input with fewer tracks; `slower`
and `veryslow` give NVENC's presets p8 and p9, which it does not have; a 12-bit profile and a
10-bit one for H.264 are encoded with the 8-bit `color_space`; VAAPI gets `format=nv12` whatever
the bit depth; a sample rate that HandBrake writes in kHz is taken for Hz; codecs such as
`vp9` are imported though `EncoderResolver` has no encoder for them.

### InputScan, ProfileMatching, VideoStream

`scan[s]` is where the scan thread of server `s` is: at the listing (`todo`, `old`), or at one of the
candidates (`found`). One action is one access to the file system, one probe or one Redis command.

| Code | Actions |
| --- | --- |
| `PollFileScanner.scan_once` | `ScanStarts` (time, `rglob`), `IsFile`, `Stat`, `StatRaises` (gone since `is_file`) |
| `ScanInputFolder.execute`, `FfmpegProbe` | `ProbeAndMatch`, `ProbeRaises` (ends the scan) |
| `EnqueueJob.execute` | `IsProcessed`, `SaveJob`, `MarkProcessed`, `Enqueue` |
| the users of the directory | `StartCopy`, `Write`, `EndCopy`, `RemoveFile`, `Age` (time passes) |
| the process | `Crash` |

`aged` are the files that nobody has written for `file_stability_seconds`; only those in `Stalls` get
there before their copy is over. A scan takes the time once, before it lists: what is written
later is not old enough for it (`Put`). What probe and match make of a file is `Outcome`, by
`MediaProbe` and `MatchProfile` from the streams that `Media` gives it. `ByPriority` is Python's stable
sort: a rule's place is the number of rules with a lower priority, or with its priority and
no later in the file. Names that a pattern is matched
against are abstracted to the set of patterns they match. `saved` and `pushed` count the jobs of each
file, for the properties: nothing in the code counts them.

What the code does and the models say: `nv12` and `yuv410p` are read as 12 and 10 bits (`BitDepthKept` leaves these
two formats out); the shipped
configuration has no rule for 1440p; `extensions: mkv` without a list matches every file;
`input_after_success` has no effect; a hidden directory anywhere above the input hides all.

### WorkerRegistry, WorkerFleet

`pc[w]` is where process `w` is, `k8sJob[p]` the status of the Kubernetes job of pod `p`, `scale[s]` what the
scaling thread of server `s` holds. The queue is a number, pushed to by the environment.

| Code | Actions |
| --- | --- |
| `worker/main.py`, `ProcessNextJob` | `StartStatic`, `Register`, `Dequeue`, `DequeueTimesOut`, `TranscodeEnds`, `Beat`, `Deregister` |
| `RedisWorkerRegistry` | `SetWorker`, `ListWorker`, `Heartbeat`, `DeleteWorker`, `UnlistWorker`, `Lapse` (TTL) |
| `EnsureWorkerCapacity`, `K8sWorkerPodLauncher` | `ReadDepth` (LLEN), `CountActive` (list of jobs), `LaunchWorker`, `ScalingFails` |
| Kubernetes, the process | `PodStarts`, `ProcessGone`, `Dies` |

A process that ends gives its place to one with a new id; what it leaves in the index is
counted in `orphans`. `Pods` are enough never to be the limit (`MaxPods` per server and one more):
the code makes a new name for each pod. The specification of a pod is data for Kubernetes.

## The runs

| Run | Instance | Shows |
| --- | --- | --- |
| `job_store` | 1 job, 3 clients, 3 states, 1 request | `IndexCovers` under every interleaving of three saves, and the answer of `list_jobs` |
| `pipeline_takeover` | 1 scan and 1 recovery thread, 1 job, 2 attempts, `Overlap`; 2 workers without faults, or 1 worker with a heartbeat that lapses and either a crash anywhere or an expired record | until recovery takes the job over from somebody: the refinements of `JobLifecycle` and `JobAssignment`, one holder, the exact index. Whatever happens: the duplicate ids, stale snapshots and double retries never lose a pending job, exceed the attempts or complete a job without summary |
| `pipeline_sequential` | 2 workers, 2 inputs, 2 jobs, recovery sees one job of a state, one crash of a worker or server between saves, `Overlap = FALSE`, no lapse, fairness | every job finishes, and no job is forfeited |
| `finished_job_reopened` | 2 workers, 1 job, `Overlap` | violation: a completed job becomes pending |
| `crash_loses_job` | 1 worker, 1 job, a crash after BRPOP | violation: a pending job nobody will look at again |
| `heartbeat_not_renewed` | one worker, one lapse | violation: a live worker transcodes without heartbeat |
| `transcode_output` | 2 workers on different hosts, 3 jobs, 2 of them with one output path, 1 of them with both workers at a time, fairness | the refinement of `AtomicOutput`, no partial file left by a completed job, whatever exceptions end a worker, nothing unlinked or renamed that is not there, the encoder that is used, and that attempts end; commands that fit their encoders for every imported preset |
| `separate_volumes` | 1 job, temp and output on two volumes | violation: a finished file is not renamed to its output path |
| `input_scan` | 2 servers, 2 files, one that stalls unreadable and sorts last, 1 copy or removal, 1 crash, the shipped rules, fairness | a path is pushed once by each server at most, a job is made from a whole file, every matched file that nothing blocks is enqueued; and the matching |
| `processed_twice` | 2 servers, 2 files, no fault | violation: both servers enqueue one file |
| `scan_blocked` | 1 server, 4 files: hidden, text, unmatched, video | violation: the video behind the text file is never enqueued |
| `worker_scaling` | 3 pods, 1 static worker, 2 servers, `max_concurrent_pods` 1, 2 ids, 1 fault, fairness | bounded pods, an index that has every worker, a queue that drains |

Bounds. Jobs have nothing in common in the repository (a client holds one at a time, and each
has its own key and its own place in the indexes), so one job shows what three clients can do
to it; three are the fewest in which one saves while two others disagree. Two attempts are the fewest with a retry and a last
attempt. One job with two workers and a recovery thread already yields the same id twice in
the queue and three writers of one record. `MaxCrashes`, `MaxLapses` and `MaxExpiries` bound
the faults; the heartbeat of a job nobody works on expires freely. `RaceSpec` keeps the faults
from multiplying: it begins with two workers and no fault, or with one worker and a lapse next to either a
crash or an expiry (heartbeats are missing in the first, too: between a claim and its first
heartbeat, and once a worker has let go of a job that a pass has read). Deadlock is checked where
no fault is possible; where one is, the last worker may be gone and the system stops.

In the transcoder runs a host with a GPU and a software encoder, one without the software
encoder, two jobs with an automatic profile and one, the shared one, with an explicit
profile make every way through the encoder choice happen. `MaxFiles` = 2 files of a job at a time
are its partial file and its output; with two writers a launch waits until one of the two is gone. `ImportedProfiles` goes through all
encoders of the importer's table and one it does not know, all quality modes, up to two audio
tracks, every set of devices, and documents with a folder in a folder.

Two servers are the fewest that can both find a path unmarked; one edit makes a file new,
overwritten or removed under a scan; one crash is one between the save and the mark. The limit of
`list_by_state` (100) bites at 1 in `pipeline_sequential`: the stale job may be the older of two. One pod
allowed and two servers make both of them launch one; three pods leave one that is free.

Fairness of the transcoder (`FairSpec`, run `transcode_output`): a worker with a job goes on,
and ffmpeg and ffprobe end. The code sets no timeout for them, so that they end is an
assumption about ffmpeg.

Fairness of the scan (`FairSpec`, runs `input_scan`, `scan_blocked`): the thread repeats its scan
(`background.py`), after an exception too, and time passes. Nobody has to finish a copy, and no
server has to be stopped or not.

Fairness of the fleet (`FairSpec`, run `worker_scaling`): a process that runs goes on, a scaling thread
repeats its pass, Kubernetes starts the pods of its jobs and notices their end. That a static
worker is there at all is not assumed: the queue drains by pods alone.

Fairness of the pipeline (`FairSpec`, run `pipeline_sequential`). Each thread is a loop in a thread or
process of its own (`background.py` 51-84, `worker/main.py` 35) and no command blocks but
BRPOP on an empty queue, so each keeps going while it can; strong fairness for workers and
recovery threads because with `Overlap = FALSE` they take turns. The heartbeat of a job
nobody works on expires in the end. No fault and no lapse is fair. A lapse is left out of this run,
because with one not every job finishes: with `MaxLapses` = 1, TLC finds that a job that was taken from a live
worker is saved by its two workers at once, which leaves its id in the index of CLAIMED while its
record is COMPLETED. Every later pass comes to that entry first and ends there (`RecoveryAborts`), so that
nothing is ever recovered again, a job whose worker has crashed included.

## What is proved

`JobStoreProofs`, from `StoreAssumption` (every record has one of the five states, `None` is
none of the values):

- `StoreTyped`: `StoreSpec => []StoreTypeOK`. Inductive as it stands, with the clause that a
  client in the middle of a save has an id and a record, and a client before SREM a state to
  leave.
- `StoreIndexCovers`: `StoreSpec => []IndexCovers`, for any numbers of jobs and clients.
  `IndexCovers` is inductive together with the types. The two steps that could break it are
  SREM and SET. SREM takes an id out of an index, but the client that sends it is before its
  own SET, and so counts as one that will index the job again. SET changes the state of the
  record, but its client is then before the SADD of exactly that state.
- `QueriesTyped`: `JobQueries!Spec => []QueryTypeOK`, with the bound that a job is listed at
  most once for each state that has been read (`CallOK`). Every step of `JobQueries` is one of
  `JobStore` (`QueriesUseStore`), so that the theorems above hold there too.
- `QueriesListQuietJobs`: `Spec => []QuietJobsListed`. A job whose saves never overlapped has
  one saver at most and is in no index but that of its state (`Neat`), which is more than
  `IndexCovers` says. A job that is quiet in a request is therefore where its state says
  during all of it, and it has been counted if the request is past that state (`Rank`,
  `Listed`) and not before.

`JobPipelineProofs`, from `PipelineAssumption` (the bounds are numbers, the three kinds of
threads are disjoint, `None` is none of the values), whatever overlaps, crashes, lapses or expires:

- `PipelineTyped`: `Spec => []PipelineTypeOK`. The part that is not a mere type is
  `HandTypeOK`: what a thread holds at each point. A thread inside a save holds an id and a
  record in the state its point is named for, a thread that transcodes, marks or pushes holds
  an id and a record, and a thread outside of a save has no command of a save left. All the
  other proofs use it.
- `PipelineIndexCovers`: `Spec => []IndexCovers`. Thread by thread and job by job, the
  argument of `JobStoreProofs` for the callers there are (`CoverSave`); outside of a save a
  thread changes neither records nor indexes (`OutsideSave`, `CoverOutside`).
- `PipelineAccounts`: `Spec => []PendingAccounted`, inductive together with the types. A record
  becomes pending only by the SET of a save at `create` or `requeue`, which makes its own
  thread accountable (`AccountSave`, by `HandTypeOK`); that thread hands the job on to the
  queue (`AccountMark`, `AccountPush`), the queue to the worker that pops it
  (`AccountDequeue`), and the worker to the SET of its claim, or drops an id that is not
  pending (`AccountPopped`). No other step can take an account away (`AccountFree`,
  `OthersAccount`). A thread that crashes stays accountable: the theorem says where a lost
  job got lost, and `crash_loses_job` that this can happen.

`JobPipelineOutcomes`:

- `PipelineSummaries`: `Spec => []CompletedHasSummary`, by the invariant that a thread at
  point `complete` holds a job that has its summary (`CompletionBacked`).
- `PipelineAttempts`: `Spec => []AttemptsBounded`. It is inductive because it speaks of every
  copy: the stored record, the one in each hand, and those in the lists of the recovery.
- `PipelineQueueBacked`: `Spec => []QueuedHasRecord`, by the invariant that a thread that has
  stored its job and has yet to push it finds it stored (`RecordsBacked`).
- `PipelineMarksStoredJobs`: `Spec => []ProcessedHasJob`, whatever overlaps. A stale save may
  put an old copy over a record, so the argument has to be that no copy of a job differs in its
  input: stored, in a hand or in the list of a recovery pass (`OneInput`). The thread that is about
  to mark a path then finds a job of that path stored, its own (`MarkedThread`).

`JobPipelineLifecycle`, from `PipelineAssumption` and nothing else: any numbers of scanners, recovery
threads, workers, jobs and attempts, passes that overlap the workers and each other, heartbeats that
lapse, records that expire, crashes at every point, inside of a save too. `TakeoverSpec` is
`Spec` with the history variable (`TakeoverPipeline`).

- The invariant is `LifeInv`: a job that is not forfeited is a token. It is in the queue once
  (`Once`), or one live thread has it, or a crash has left it where it was. What the stored record is to
  the thread that has it depends on the point of the code (`Fits`): before its SET, the record a
  save is about to put is the next one in the life of the stored one (`Follows`), and
  afterwards they are the same; and it is in no index but that of its state. Nothing has to be known of
  heartbeats or of the lists of a pass: a pass writes a record only by taking a job over, and a job
  that this does not forfeit is `Abandoned`, so that the pass gets the token (`JobRecovered`).
- `PipelineHolderOwns`: `TakeoverSpec => []HolderOwnsRecord`, and `PipelineIndexExact`:
  `TakeoverSpec => []IndexExact`, from the invariant.
- `PipelineKeepsLifecycle`: `TakeoverSpec => KeepsLifecycle`, the refinement of `JobLifecycle`.
  The steps that change a record are the SET of a save, of which `Follows` says for each point
  which arrow of the diagram it is (`FollowsIsLife`), and those that forfeit a job, one at a time
  (`ForfeitsOne`).
- `PipelineAssignsExclusively`: `TakeoverSpec => AssignsExclusively`, the refinement of
  `JobAssignment`. A worker takes a job in hand only with `BeatProcess`, and then nobody else has the
  token and the record is in state PROCESSING (`BeatTakes`). The SET of COMPLETED is the
  `Finish` of the worker whose save it is (`SetFinishes`; that no recovery thread ever completes a
  job is an invariant of its own, `Roles`), the SETs of other states complete nothing
  and reopen nothing, and whatever else happens, a crash included, a hand keeps its job or
  is empty (`HandStays`).

`TranscodeOutputProofs`, from `TranscodeAssumption` (the types of profiles, hosts and
the other constants):

- `TranscodeEncoderFits`: `Spec => []EncoderFits`. `Chosen` is what `Resolve` and
  `SoftwareFallback` return when they return an encoder (`ResolveChosen`, `FallbackChosen`), and
  a worker keeps its encoder and its task from the launch to the decision about a second run
  (`EncoderInv`).
- `TranscodeTyped`: `Spec => []OutputTypeOK`, inductive with `LinkInv`: a file is named and opened only
  by the workers of the job it was made for, and an output path that has a file keeps one.
- `TranscodeLeavesNoPartial`: `Spec => []CompletedLeavesNoPartial`. For a job that one worker at a time
  has, `Phase` says what is at its partial path at each point of that worker: nothing when
  ffmpeg is launched and after the rename, the file it writes while it runs, the whole
  result before the rename, nothing again once its summary is made and it is to be completed.
  The other workers cannot disturb it (`AloneElsewhere`), not even two that share another job.
  That such a job is not given out again once it is completed is `Free`, which
  `PipelineAssignsExclusively` proves of the pipeline.
- `TranscodeFoundIsThere`: `Spec => []FoundIsThere`: by the same invariant the file an unlink or a
  rename is for is there, whatever exceptions ended the attempts before.
- `TranscodeSummarisesResult`: `Spec => []SummaryOfResult`, and `TranscodeWritesAtomically`: `Spec =>
  WritesAtomically`, the refinement of `AtomicOutput`. What such a job has put at an output path is
  whole, and nobody has the file open any more (`WholeInv`); only the rename changes what
  is seen (`AtomicStep`).

`InputScanProofs`, from `ScanAssumption` (`Sorted` is a sequence without repetition, the servers
are finitely many, the configuration is one that vshift accepts, with natural numbers as
priorities, and what stands for "nothing" and for an exception is neither a value nor a profile):

- `ScanTyped`: `Spec => []ScanTypeOK`, with what each thread holds at each point (`HoldsOK`).
- `ScanCopies`: `Spec => []CopiesBounded`. Until a path is marked, each of its jobs is one that a
  server is about to mark it for (`Marking`) or was stopped over; once it is marked, its jobs and
  the servers still about to save one (`Deciding`) are no more than the servers and the crashes,
  and nobody decides to save another (`CopiesCounted`). The jobs that have been pushed are counted
  together with the servers that may still push one (`PushInv`): a server that marks a path or has
  found it marked does not come to it a second time, restarted or not.
- `ScanProbes`: `Spec => []ProbedWhole`. A file nobody has written for long enough is whole, unless
  its copy stalls (`FileSound`); a file copied once that became a candidate is whole or
  removed (`CandidateSound`); and so is what a probe of it has read (`ScanSound`).
- `MatchRuleSelects`: whatever the rules and whatever is probed, `MatchRule` finds nothing only if no
  rule matches, and else the matching rule that precedes all the others that match. Places
  are shown to be a permutation of the rules (`PlaceLess`: places grow with precedence;
  `PlaceOnto`: every place is taken, because an injection of a finite set into itself is
  onto), so the search through the sorted list meets the rules in their order (`NthSorted`).
- `OrderIrrelevant`: if no two priorities are equal, any permutation of the file gives the same
  rule for everything that can be probed; `ScanRuleOrderIrrelevant`: `Spec => []RuleOrderIrrelevant`.
- `AcceptedMatches`: with a configuration that is accepted no match raises, whatever is probed;
  `RaisesOverUnreadable`: so a scan raises over files that are gone, unreadable or of no valid
  size, and over no others; `ScanAcceptedNeverRaises`: `Spec => []AcceptedNeverRaises`.
- `ShippedRulesKeepDepth`: for every width, height, depth and colour, the rules of
  `config/vshift.yaml` give a ten-bit profile exactly to the videos of ten bits or more among
  those they match. `ScanKeepsBitDepth`: `DepthRead => (Spec => []BitDepthKept)`. `DepthRead` says that the
  code finds the depth in the names of the pixel formats in `PixelFormats` (but the two it misreads). The prover knows no
  characters of a text, so it is a hypothesis; the run needs none and checks the names as well.

`ImportProofs`, for every preset (a function from keys to values) and every host, with the
only hypotheses that a quality slider and a bitrate are numbers and that an audio list is a
list; values of another JSON type are replaced by the importer before:

- Normalisation leaves every setting as it is that has one name only (`NormalizeKeeps`), and the second one
  that every import makes changes nothing (`NormalizeTwice`).
- `ImportedEncoder`: an imported profile leaves the encoder to vshift, so every command it gets, in
  the first run or after a fallback, is for one of the encoders in the list of a known codec
  (`ResolveChosen` and `FallbackChosen` of `TranscodeOutputProofs`).
- `RateControlFits`: the option for the rate is one that the encoder takes and its value is not
  negative, and it is an average bitrate, the preset's, only if the preset asks for one. What
  rules out the rest is the validation of the profile.
- `TenBitsReachTheEncoder`: ten-bit encoder names lead to ten-bit samples. The importer accepts
  ten-bit names of codecs that `PixFmt` does not treat (VP9's); none of these has an encoder.
- `AudioFollowsThePreset`: for any number of audio entries, what becomes of the i-th stream is
  what the i-th entry says.
- `TreesImportInOrder`: for every document that is a tree (`Tree`: a node is in one list at one place,
  and higher than what is in it), however wide and deep, the presets are imported in the
  order of the document, one profile each, and none at all if one is rejected. What the
  recursion returns would be an induction over the height, whose theorem the prover cannot
  use; instead, a node of the least height at which the claim fails is led to a contradiction
  by its children, for which it holds (`LeavesInOrder`), the least number of joined lists at
  which it fails likewise (`FlattenUnfolds`). The nodes that a node is in are a chain
  (`BelowIsChain`, by the highest node that is in two of them), so siblings share nothing
  (`SiblingsDisjoint`).
- `LaunchedCommandsFit`, `LaunchedTenBitsSurvive`, `LaunchedAudioKeepsItsPlace`,
  `DocumentsImportInOrder`: `Spec => []P` for the four invariants of the run, each from the theorem
  above; for the last, the documents of the run are shown to be trees (`DocumentsAreTrees`).

`WorkerFleetProofs`, from `FleetAssumption` (pods are workers, pods and servers are finitely many):

- `FleetTyped`: `Spec => []FleetTypeOK`.
- `FleetListed`: `Spec => []RegisteredIsListed`, and `FleetOrphans`: `Spec => []OrphansDied`. What is
  known of a process in the index at each of its points (`HoldsIndex`), and the ids left behind,
  counted together with the processes that died and are not yet replaced (`OrphansCounted`).
- `FleetPods`: `Spec => []PodsBounded`. The invariant counts, with the pods there are, the launches
  a server still has to make (`Claims`). When a server makes its claims, they and the pods that
  run are `MaxPods` at most, and so are the claims of every other server.

Only model-checked:

- The liveness properties `JobsFinish`, `AttemptEnds`, `StableGetsQueued`, `QueueDrains` and the fairness they
  rest on, which are out of the prover's reach.
- `DepthRead`, a search in names (see `ScanKeepsBitDepth`).

## What the runs found

1. `finished_job_reopened`: `RecoverStaleJobs` validates the transition of the copy it read
   and saves over whatever is stored, so a job completed in between is pending again and is
   transcoded once more.
2. `crash_loses_job`: between BRPOP and the save of the claim a job is in no queue and in no
   index that the recovery reads.
3. `heartbeat_not_renewed`: nothing renews the heartbeat during a transcode, although the
   architecture document says a loop does every 15 seconds.
4. `scan_blocked`: an exception of a probe ends the scan, and every later scan at the same file;
   the files that sort after it are never enqueued, although README says each candidate is.
5. `separate_volumes`: the chart mounts the temp and the output directory from two claims, and
   a rename from one to the other fails, after the whole transcode, with an exception that
   ends the worker.
6. `processed_twice`: README and the architecture document say that a path is processed at most
   once. Whether it is marked and the mark are two commands of two servers, with a save between
   them, and `server.replicas` is a value of the chart. What holds is `CopiesBounded`: one server, restarted
   as often as may be, pushes a path once at most; `n` servers `n` times.

## Plan

The components that carry the program's logic are modelled, and every invariant and every
refinement that the runs check is proved. What could be added: what is still promised of a
forfeited job beyond its accounts, attempts and summary, such as how often it can be transcoded.

## Not modelled

- `list_workers`, `requeue` of the queue and the depth of the dead-letter list, `reload` of the
  configuration, `start` and `stop` of the scanner: nothing in `src/vshift` calls them.
- Settings and wiring: they name constants of the models (TTLs, intervals, limits, sizes).
- The specification of a pod, the formatting of responses and logs, Pydantic's own checks of
  types: data for others, without a state or a decision of vshift's.
- YAML files and `$ref`: read once at start; the validation of what they hold is in
  `ProfileMatching` and `VshiftProfile`.
- ffmpeg, ffprobe, Redis and Kubernetes: by what the code sees of them.

--------------------------- MODULE TranscodeOutput ---------------------------
(***************************************************************************)
(* The files of a transcode: FfmpegTranscoder.transcode and build_summary, *)
(* run by workers that share the temp and the output directory.  ffmpeg    *)
(* writes the partial file of the job, whose name is made of the job's id; *)
(* the worker renames it to the output path.  Every action is one access   *)
(* to the file system, or the end of an ffmpeg or ffprobe run.             *)
(*                                                                         *)
(* Files are inodes: a file that is unlinked or replaced while ffmpeg      *)
(* writes it lives on without a name.                                      *)
(***************************************************************************)
EXTENDS EncoderResolver, FiniteSets

CONSTANTS
  Workers, Jobs,
  Paths,       \* the output paths
  MaxFiles,    \* bound: how many files of one job there are at a time
  MaxAttempts, \* bound: how often job j is given to a worker, its retries included
  OutputOf,    \* OutputOf[j]: the output path of job j, see EnqueueJob
  Video,       \* Video[j]: codec and encoder of the job's profile
  Host,        \* Host[w]: what the host of worker w offers
  None,
  Shareable,   \* the jobs that may be given to two workers at a time, see JobTakeover
  OneVolume    \* TRUE: the temp and the output directory are on one volume

VARIABLES
  partial,     \* partial[j]: the file at the partial path of job j, or None
  output,      \* output[p]: the file at output path p, or None
  content,     \* content[f]: what is in file f
  fd,          \* fd[w]: the file that the ffmpeg of worker w writes, or None
  task,        \* task[w]: the job of worker w, or None
  encoder,     \* encoder[w]: the encoder of its ffmpeg run, or NoEncoder
  pc,          \* pc[w]: where worker w is
  summary,     \* summary[j]: what was at the output path of j when its summary was made
  completed,   \* the jobs that are stored as completed
  attempts     \* attempts[j]: how often j has been given to a worker

vars == <<partial, output, content, fd, task, encoder, pc, summary, completed,
          attempts>>

\* A file is an inode that was made for the partial path of a job, f[1].
Files == Jobs \X (1..MaxFiles)

\* "mixed": two ffmpeg processes have written into the file at once.
Contents == {"torn", "whole", "mixed"}

\* What a probe of a file finds.
Probed == [job : Jobs, content : Contents]

Points == {"idle", "unlink", "launch", "encode", "failed", "unlinkFailed", "replace",
           "summary", "complete", "died"}

AtWork(w) == pc[w] \notin {"idle", "died"}

\* Which jobs a worker may be given, which is what the pipeline keeps to.
Assignment == INSTANCE JobAssignment
                WITH holder <- [w \in Workers |-> IF AtWork(w) THEN task[w] ELSE None],
                     done <- completed, forfeited <- Shareable

ASSUME TranscodeAssumption ==
  /\ OutputOf \in [Jobs -> Paths]
  /\ Video \in [Jobs -> [codec : STRING, encoder : VideoEncoders \cup {"auto"}]]
  /\ Host \in [Workers -> [encoders : SUBSET VideoEncoders, devices : SUBSET Devices]]
  /\ Shareable \subseteq Jobs /\ OneVolume \in BOOLEAN
  /\ MaxFiles \in Nat /\ MaxAttempts \in [Jobs -> Nat]
  /\ None \notin Jobs \cup Files \cup Contents \cup Probed

OutputTypeOK ==
  /\ partial \in [Jobs -> Files \cup {None}]
  /\ output \in [Paths -> Files \cup {None}]
  /\ content \in [Files -> Contents \cup {None}]
  /\ fd \in [Workers -> Files \cup {None}]
  /\ task \in [Workers -> Jobs \cup {None}]
  /\ encoder \in [Workers -> VideoEncoders \cup {NoEncoder}]
  /\ pc \in [Workers -> Points]
  /\ summary \in [Jobs -> Probed \cup {None}] /\ completed \subseteq Jobs
  /\ attempts \in [Jobs -> Nat]
  /\ \A w \in Workers :
       /\ pc[w] = "idle" <=> task[w] = None
       /\ pc[w] = "encode" <=> fd[w] # None
       /\ pc[w] = "encode" => encoder[w] # NoEncoder
  /\ \A j \in Jobs : partial[j] # None => partial[j][1] = j /\ content[partial[j]] # None
  /\ \A p \in Paths : output[p] # None => content[output[p]] # None

Init ==
  /\ partial = [j \in Jobs |-> None]
  /\ output = [p \in Paths |-> None]
  /\ content = [f \in Files |-> None]
  /\ fd = [w \in Workers |-> None]
  /\ task = [w \in Workers |-> None]
  /\ encoder = [w \in Workers |-> NoEncoder]
  /\ pc = [w \in Workers |-> "idle"]
  /\ summary = [j \in Jobs |-> None] /\ completed = {}
  /\ attempts = [j \in Jobs |-> 0]

Goto(w, p) == pc' = [pc EXCEPT ![w] = p]

\* Mutant: the worker goes idle with the job in hand.
Leave_KeepsTask(w) ==
  /\ Goto(w, "idle")
  /\ encoder' = [encoder EXCEPT ![w] = NoEncoder]
  /\ UNCHANGED task

\* Worker w is done with its job: it has returned, or raised a VShiftException,
\* or been stopped and replaced.
Leave(w) ==
  /\ Goto(w, "idle")
  /\ task' = [task EXCEPT ![w] = None]
  /\ encoder' = [encoder EXCEPT ![w] = NoEncoder]

\* The encoder of a run that is over and is not looked at again.
Forget(w) == encoder' = [encoder EXCEPT ![w] = NoEncoder]

\* An error other than VShiftException, which nobody catches: the worker process ends.
Die(w) == Goto(w, "died") /\ Forget(w) /\ UNCHANGED task

At(w, p) == pc[w] = p

\* The files that have a name or are open; what is in the others is gone.
Linked == {partial[j] : j \in Jobs} \cup {output[p] : p \in Paths} \cup {fd[w] : w \in Workers}
Keep(c) == LET linked == Linked'
           IN  content' = [f \in Files |-> IF f \in linked THEN c[f] ELSE None]

(***************************************************************************)
(* Before ffmpeg: an old partial file is unlinked when exists() finds one. *)
(***************************************************************************)
UnlinkIfThere(w, j) == Goto(w, IF partial[j] # None THEN "unlink" ELSE "launch")

\* (When there is no input file the attempt ends before it has done anything.)
Transcode(w, j) ==
  /\ At(w, "idle") /\ attempts[j] < MaxAttempts[j]
  /\ attempts' = [attempts EXCEPT ![j] = @ + 1]
  /\ Assignment!Free(j)
  /\ task' = [task EXCEPT ![w] = j]
  /\ UnlinkIfThere(w, j)
  /\ UNCHANGED <<partial, output, content, fd, encoder, summary, completed>>

\* unlink(): the name goes, a writer keeps its file.
Unlink(w) ==
  /\ partial[task[w]] # None
  /\ partial' = [partial EXCEPT ![task[w]] = None]
  /\ UNCHANGED <<output, fd, summary>>
  /\ Keep(content)

UnlinkBefore(w) == At(w, "unlink") /\ Unlink(w) /\ Goto(w, "launch") /\ UNCHANGED <<task, encoder>>

\* Somebody else has unlinked or renamed it since exists().
UnlinkMissing(w) ==
  /\ pc[w] \in {"unlink", "unlinkFailed"}
  /\ partial[task[w]] = None
  /\ Die(w)
  /\ UNCHANGED <<partial, output, content, fd, summary>>

(***************************************************************************)
(* ffmpeg.  The encoder of the first run is resolved, that of the second   *)
(* is the software fallback.                                               *)
(***************************************************************************)
RunEncoder(w) ==
  IF encoder[w] = NoEncoder THEN Resolve(Video[task[w]], Host[w]) ELSE encoder[w]

NoEncoderFound(w) ==
  /\ At(w, "launch") /\ RunEncoder(w) = NoEncoder
  /\ Leave(w)
  /\ UNCHANGED <<partial, output, content, fd, summary>>

\* ffmpeg -y opens the partial file, and empties it if there is one.  Which of
\* the unused inodes a new file gets makes no difference.
Unused(j) == {f \in Files \ Linked : f[1] = j}
Opened(j) == IF partial[j] # None THEN partial[j] ELSE CHOOSE f \in Unused(j) : TRUE

Launch(w) ==
  /\ At(w, "launch") /\ RunEncoder(w) # NoEncoder
  /\ partial[task[w]] # None \/ Unused(task[w]) # {}
  /\ LET f     == Opened(task[w])
         state == IF \E v \in Workers : fd[v] = f THEN "mixed" ELSE "torn"
     IN  /\ partial' = [partial EXCEPT ![task[w]] = f]
         /\ fd' = [fd EXCEPT ![w] = f]
         /\ content' = [content EXCEPT ![f] = state]
  /\ encoder' = [encoder EXCEPT ![w] = RunEncoder(w)]
  /\ Goto(w, "encode")
  /\ UNCHANGED <<output, task, summary>>

\* ffmpeg ends before it opens its output.
LaunchFails(w) ==
  /\ At(w, "launch") /\ RunEncoder(w) # NoEncoder
  /\ encoder' = [encoder EXCEPT ![w] = RunEncoder(w)]
  /\ Goto(w, "failed")
  /\ UNCHANGED <<partial, output, content, fd, task, summary>>

Close(w) == fd' = [fd EXCEPT ![w] = None]

Finished(c) == IF c = "torn" THEN "whole" ELSE c

EncodeSucceeds(w) ==
  /\ At(w, "encode")
  /\ Close(w)
  /\ Forget(w)
  /\ UNCHANGED <<partial, output, task, summary>>
  /\ Keep([content EXCEPT ![fd[w]] = Finished(@)])
  /\ Goto(w, "replace")

\* Mutant: the return code of ffmpeg is not looked at.
EncodeFails_Ignored(w) ==
  /\ At(w, "encode")
  /\ Close(w)
  /\ UNCHANGED <<partial, output, task, encoder, summary>>
  /\ Keep(content)
  /\ Goto(w, "replace")

EncodeFails(w) ==
  /\ At(w, "encode")
  /\ Close(w)
  /\ UNCHANGED <<partial, output, task, encoder, summary>>
  /\ Keep(content)
  /\ Goto(w, "failed")

(***************************************************************************)
(* After a run that failed: a second one with the software encoder, when   *)
(* the profile left the choice to vshift and stderr names the hardware     *)
(* (which it may or may not do), or the error is raised.                   *)
(***************************************************************************)
\* Mutant: any failed run is tried again.
MayFallBack_Always(w) == Video[task[w]].encoder = "auto"

MayFallBack(w) ==
  /\ Video[task[w]].encoder = "auto"
  /\ IsHardwareEncoder(encoder[w])

FallBack(w) ==
  LET fallback == SoftwareFallback(Video[task[w]].codec, Host[w])
  IN  /\ At(w, "failed") /\ MayFallBack(w) /\ fallback # NoEncoder
      /\ encoder' = [encoder EXCEPT ![w] = fallback]
      /\ UnlinkIfThere(w, task[w])
      /\ UNCHANGED <<partial, output, content, fd, task, summary>>

\* software_fallback() raises: the partial file stays.
FallBackRaises(w) ==
  /\ At(w, "failed") /\ MayFallBack(w)
  /\ SoftwareFallback(Video[task[w]].codec, Host[w]) = NoEncoder
  /\ Leave(w)
  /\ UNCHANGED <<partial, output, content, fd, summary>>

\* Mutant: the partial file is unlinked whether it is there or not.
GiveUp_NoExists(w) ==
  /\ At(w, "failed")
  /\ Goto(w, "unlinkFailed")
  /\ UNCHANGED <<partial, output, content, fd, task, encoder, summary>>

\* Mutant: the cleanup removes the output file, too.
GiveUp_RemovesOutput(w) ==
  /\ At(w, "failed")
  /\ output' = [output EXCEPT ![OutputOf[task[w]]] = None]
  /\ UNCHANGED <<partial, fd, summary>>
  /\ Keep(content)
  /\ Leave(w)

GiveUp(w) ==
  /\ At(w, "failed")
  /\ IF partial[task[w]] # None
     THEN Goto(w, "unlinkFailed") /\ Forget(w) /\ UNCHANGED task
     ELSE Leave(w)
  /\ UNCHANGED <<partial, output, content, fd, summary>>

UnlinkAfter(w) == At(w, "unlinkFailed") /\ Unlink(w) /\ Leave(w)

(***************************************************************************)
(* After a run that succeeded: replace(), a probe of the output, and       *)
(* WriteSummary with two more.  A probe may raise, and changes nothing.    *)
(***************************************************************************)
\* Mutant: the partial file is linked to the output path and not renamed.
Replace_Links(w) ==
  /\ At(w, "replace") /\ OneVolume /\ partial[task[w]] # None
  /\ output' = [output EXCEPT ![OutputOf[task[w]]] = partial[task[w]]]
  /\ UNCHANGED <<partial, fd, task, encoder, summary>>
  /\ Keep(content)
  /\ Goto(w, "summary")

Replace(w) ==
  /\ At(w, "replace") /\ OneVolume /\ partial[task[w]] # None
  /\ output' = [output EXCEPT ![OutputOf[task[w]]] = partial[task[w]]]
  /\ partial' = [partial EXCEPT ![task[w]] = None]
  /\ UNCHANGED <<fd, task, encoder, summary>>
  /\ Keep(content)
  /\ Goto(w, "summary")

\* No such file, or a rename from one volume to another.
ReplaceRaises(w) ==
  /\ At(w, "replace") /\ (OneVolume => partial[task[w]] = None)
  /\ Die(w)
  /\ UNCHANGED <<partial, output, content, fd, summary>>

ProbeRaises(w) ==
  /\ At(w, "summary")
  /\ Leave(w)
  /\ UNCHANGED <<partial, output, content, fd, summary>>

BuildSummary(w) ==
  /\ At(w, "summary")
  /\ LET f == output[OutputOf[task[w]]]
     IN  summary' = [summary EXCEPT ![task[w]] = [job |-> f[1], content |-> content[f]]]
  /\ Goto(w, "complete")
  /\ UNCHANGED <<partial, output, content, fd, task, encoder>>

\* The job is saved as completed.  A worker that is stopped before leaves a job
\* with a summary, which the recovery gives out again.
Complete(w) ==
  /\ At(w, "complete")
  /\ completed' = completed \cup {task[w]}
  /\ Leave(w)
  /\ UNCHANGED <<partial, output, content, fd, summary>>

(***************************************************************************)
(* What the file system and the host refuse.                               *)
(***************************************************************************)
\* mkdir, exists or unlink raise, or there is no ffmpeg or ffprobe to start: before
\* a run, after one that failed, or when the output is probed.
OSErrorRaised(w) ==
  /\ pc[w] \in {"unlink", "launch", "failed", "unlinkFailed", "summary"}
  /\ Die(w)
  /\ UNCHANGED <<partial, output, content, fd, summary>>

\* ffmpeg has ended, well or not, and what it wrote to stderr is no text: the
\* return code is not looked at and the partial file stays.
DecodeRaises(w) ==
  /\ At(w, "encode")
  /\ Close(w)
  /\ Die(w)
  /\ UNCHANGED <<partial, output, summary>>
  /\ \E end \in {content[fd[w]], Finished(content[fd[w]])} : Keep([content EXCEPT ![fd[w]] = end])

(***************************************************************************)
(* A worker process is stopped, its ffmpeg with it, and the next one       *)
(* comes; or it has died, and the next one comes.                          *)
(***************************************************************************)
Stop(w) ==
  /\ AtWork(w)
  /\ Close(w)
  /\ UNCHANGED <<partial, output, summary, completed, attempts>>
  /\ Keep(content)
  /\ Leave(w)

Restart(w) ==
  /\ At(w, "died")
  /\ Leave(w)
  /\ UNCHANGED <<partial, output, content, fd, summary, completed, attempts>>

-----------------------------------------------------------------------------
WorkerStep(w) ==
  /\ UNCHANGED attempts
  /\ \/ Complete(w)
     \/ /\ UNCHANGED completed
        /\ \/ UnlinkBefore(w) \/ UnlinkAfter(w) \/ UnlinkMissing(w)
           \/ NoEncoderFound(w) \/ Launch(w) \/ LaunchFails(w)
           \/ EncodeSucceeds(w) \/ EncodeFails(w)
           \/ FallBack(w) \/ FallBackRaises(w) \/ GiveUp(w)
           \/ Replace(w) \/ ReplaceRaises(w) \/ ProbeRaises(w) \/ BuildSummary(w)
           \/ OSErrorRaised(w) \/ DecodeRaises(w)

Next ==
  \E w \in Workers :
    \/ \E j \in Jobs : Transcode(w, j)
    \/ WorkerStep(w) \/ Stop(w) \/ Restart(w)

Spec == Init /\ [][Next]_vars

\* A worker that has a job goes on, and ffmpeg and ffprobe end.
FairSpec == Spec /\ \A w \in Workers : WF_vars(WorkerStep(w))

-----------------------------------------------------------------------------
(* What holds for every job that has one worker at a time, whatever two     *)
(* workers with one job do to the files of that one.                       *)

\* The output paths that only such jobs have.
SolePaths == {p \in Paths : \A j \in Shareable : OutputOf[j] # p}
SoleJobs  == {j \in Jobs : OutputOf[j] \in SolePaths}

Published(p) ==
  IF output[p] = None THEN None
  ELSE IF content[output[p]] = "whole" THEN output[p][1]
  ELSE "torn"

Atomic == INSTANCE AtomicOutput
            WITH Jobs <- SoleJobs, Paths <- SolePaths,
                 OutputOf <- [j \in SoleJobs |-> OutputOf[j]],
                 published <- [p \in SolePaths |-> Published(p)]

\* The output appears by one rename of a finished file, and stays: failed runs,
\* second runs, processes that are stopped and leftovers of theirs never show.
WritesAtomically == Atomic!Spec

\* The summary of a job tells what is in its own result, unless another job has
\* the same output path (two inputs with one stem): then it may be the other's.
SummaryOfResult ==
  \A j \in SoleJobs :
    summary[j] # None =>
      /\ summary[j].content = "whole"
      /\ summary[j].job = j \/ \E k \in Jobs \ {j} : OutputOf[k] = OutputOf[j]

\* However its attempts failed, fell back or were stopped, a job that is
\* completed leaves no partial file behind.
CompletedLeavesNoPartial ==
  \A j \in completed \ Shareable : partial[j] = None

\* What exists() has found, and what ffmpeg has written, is still there when it is
\* unlinked or renamed, unless two workers share the job: the runs, the processes
\* that ended and the other attempts of the job have not removed it.
FoundIsThere ==
  \A w \in Workers :
    pc[w] \in {"unlink", "unlinkFailed", "replace"}
      => partial[task[w]] # None \/ task[w] \in Shareable

\* The finished partial file gets to the output path, unless the worker is stopped.
RenamesFinishedFile ==
  [][\A w \in Workers :
       At(w, "replace") /\ pc'[w] \notin {"replace", "idle"} /\ partial[task[w]] # None
         => output'[OutputOf[task[w]]] = partial[task[w]]]_vars

\* An explicit encoder is used or the attempt fails; "auto" uses an encoder of
\* the codec; and the host has the one that is used, after a fallback too.
EncoderFits ==
  \A w \in Workers :
    At(w, "encode") =>
      LET video == Video[task[w]]
      IN  /\ Offers(Host[w], encoder[w])
          /\ IF video.encoder = "auto"
             THEN \E n \in DOMAIN CodecEncoderPriority[video.codec] :
                    encoder[w] = CodecEncoderPriority[video.codec][n]
             ELSE encoder[w] = video.encoder

\* An attempt ends: it falls back once at most.
AttemptEnds == \A w \in Workers : AtWork(w) ~> ~AtWork(w)
=============================================================================

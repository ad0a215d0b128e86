---------------------------- MODULE JobTakeover ----------------------------
(***************************************************************************)
(* The promises of a job's life, and how far the pipeline keeps them.      *)
(* RecoverStaleJobs takes over every job whose heartbeat is gone, with the *)
(* copy it read when it listed the job.  It is right to do so when nobody  *)
(* holds the job any more; nothing in the code makes sure of that.  The    *)
(* history variable of this module remembers the jobs that recovery took   *)
(* over without being right, and those whose record ended before its time. *)
(* For all the others the pipeline keeps what it promises, under every     *)
(* interleaving and every fault of JobPipeline.                            *)
(***************************************************************************)
EXTENDS JobPipeline

VARIABLE forfeited   \* the jobs that the promises no longer cover

takeoverVars == <<vars, forfeited>>

Has(c, j) == c \in alive /\ pc[c] \in HasId /\ client[c].id = j

\* What a pass found as s is still so: a job in the record of a worker, and no
\* live thread has it.
Abandoned(s) ==
  /\ job[s.id] = s.rec
  /\ s.rec.state \in HeldStates
  /\ \A c \in alive : ~Has(c, s.id)

TakesOver(r, s) == RecoveryRequeues(r, s) \/ RecoveryGivesUp(r, s)

\* The step ends what job j is promised.
Forfeits(j) ==
  \/ JobExpires(j)
  \/ \E r \in Recoverers : \E s \in pass[r].found :
       s.id = j /\ ~Abandoned(s) /\ TakesOver(r, s)

TakeoverInit == Init /\ forfeited = {}
TakeoverNext == Next /\ forfeited' = forfeited \cup {j \in Jobs : Forfeits(j)}

TakeoverSpec == TakeoverInit /\ [][TakeoverNext]_takeoverVars
TakeoverFairSpec == TakeoverSpec /\ Fairness

-----------------------------------------------------------------------------
(* What holds of every job that is not forfeited.                          *)

\* The sets of ids agree with its record, unless a save of it is under way.
IndexExact ==
  \A j \in Jobs \ forfeited :
    (\A c \in Threads : ~Saving(c, j))
      => \A s \in JobStates : j \in index[s] <=> (job[j] # None /\ job[j].state = s)

\* The record of a job that a worker transcodes is the one that worker saved.
HolderOwnsRecord ==
  \A w \in Workers \cap alive :
    pc[w] \in {"beatProcess", "transcode"} /\ client[w].id \notin forfeited
      => job[client[w].id] = client[w].rec

Life == [j \in Jobs |-> IF j \in forfeited THEN None ELSE job[j]]

Lifecycle == INSTANCE JobLifecycle WITH life <- Life

\* Every change of its record is a step of the life a job is promised: no claim
\* of a job that is held, no return of a finished one, no attempt skipped or
\* counted twice, no failure before the last attempt was made.
KeepsLifecycle == Lifecycle!Spec

\* From the heartbeat of ExecuteTranscode until the job is stored as completed the
\* job is in the worker's hands.
Transcodes(w) ==
  w \in alive /\ (pc[w] = "transcode" \/ (pc[w] = "complete" /\ client[w].step # "sadd"))

InHand(w) == IF Transcodes(w) THEN client[w].id ELSE None

CompletedJobs == {j \in Jobs \ forfeited : job[j] # None /\ job[j].state = "COMPLETED"}

\* No two workers transcode it, and none transcodes it when it is completed,
\* whoever stops and whoever takes the job over: what TranscodeOutput takes from
\* the pipeline, a job of Shareable being one that may be forfeited.
Assignment == INSTANCE JobAssignment
                WITH holder <- [w \in Workers |-> InHand(w)], done <- CompletedJobs
AssignsExclusively == Assignment!Spec

\* Passes that do not overlap the commands of workers, while no heartbeat lapses
\* and no record expires, take over nothing but what a crash left behind: every
\* job keeps all of the above.
NothingForfeited == forfeited = {}
=============================================================================

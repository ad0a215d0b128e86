----------------------------- MODULE WorkerFleet -----------------------------
(***************************************************************************)
(* The worker processes of a cluster: worker/main.py, as a one-shot worker *)
(* in a pod and as a static one that loops, and EnsureWorkerCapacity with  *)
(* the K8sWorkerPodLauncher, which starts pods for the jobs in the queue.  *)
(*                                                                         *)
(* Here the queue is a number of ids.  What a job goes through is in       *)
(* JobPipeline; that an id is pushed, by a scan, a retry or a recovery, is *)
(* an action of the environment.                                           *)
(***************************************************************************)
EXTENDS WorkerRegistry, FiniteSetsExt

CONSTANTS
  Pods,        \* the workers that run in Kubernetes jobs, of which there are enough;
               \* the others are static
  Servers,
  MaxPods,     \* kubernetes.max_concurrent_pods
  MaxQueued,   \* bound: how many ids are ever pushed
  MaxFaults    \* bound: how many processes die and how many API calls fail

VARIABLES
  queue,       \* the depth of the queue
  pushed,      \* how many ids have been pushed
  pc,          \* pc[w]: where process w is
  k8sJob,      \* k8sJob[p]: the status of the Kubernetes job of pod p
  scale,       \* scale[s]: the scaling thread of server s
  faults

vars == <<registry, queue, pushed, pc, k8sJob, scale, faults>>

Points == {"off", "register", "list", "claim", "transcode", "beat", "deregister", "unlist",
           "died", "ended"}

\* A worker between registration and deregistration.
InService == {"claim", "transcode", "beat"}

JobStatus == {"none", "created", "active", "succeeded", "failed"}

\* "depth": what LLEN returned; "left": how many pods are still to be launched.
Scaling == [at : {"idle", "count", "launch"}, depth : Nat, left : Nat]
Resting == [at |-> "idle", depth |-> 0, left |-> 0]

ASSUME FleetAssumption ==
  /\ Pods \subseteq Workers /\ IsFiniteSet(Pods) /\ IsFiniteSet(Servers)
  /\ MaxPods \in Nat /\ MaxQueued \in Nat /\ MaxFaults \in Nat

FleetTypeOK ==
  /\ RegistryTypeOK
  /\ queue \in 0..MaxQueued /\ pushed \in queue..MaxQueued
  /\ pc \in [Workers -> Points]
  /\ k8sJob \in [Pods -> JobStatus]
  /\ scale \in [Servers -> Scaling]
  /\ faults \in 0..MaxFaults
  /\ \A s \in Servers : scale[s].at = "launch" => scale[s].left > 0
  /\ \A p \in Pods : k8sJob[p] = "active" <=> pc[p] # "off"

Init ==
  /\ RegistryInit
  /\ queue = 0 /\ pushed = 0
  /\ pc = [w \in Workers |-> "off"]
  /\ k8sJob = [p \in Pods |-> "none"]
  /\ scale = [s \in Servers |-> Resting]
  /\ faults = 0

\* An id is pushed: a new job, a retry, or one that is recovered.
Push ==
  /\ pushed < MaxQueued
  /\ pushed' = pushed + 1 /\ queue' = queue + 1
  /\ UNCHANGED <<registry, pc, k8sJob, scale, faults>>

(***************************************************************************)
(* A worker process.                                                       *)
(***************************************************************************)
At(w, point) == pc[w] = point
Goto(w, point) == pc' = [pc EXCEPT ![w] = point]

rest == <<queue, pushed, k8sJob, scale, faults>>

OneShot(w) == w \in Pods

StartStatic(w) ==
  /\ ~OneShot(w) /\ At(w, "off")
  /\ Goto(w, "register")
  /\ UNCHANGED <<registry, rest>>

\* Mutant: the worker does not enter itself in the index.
Register_KeyOnly(w) ==
  At(w, "register") /\ SetWorker(w) /\ Goto(w, "claim") /\ UNCHANGED rest

Register(w) ==
  \/ At(w, "register") /\ SetWorker(w) /\ Goto(w, "list") /\ UNCHANGED rest
  \/ At(w, "list") /\ ListWorker(w) /\ Goto(w, "claim") /\ UNCHANGED rest

AfterJob(w) == IF OneShot(w) THEN "deregister" ELSE "beat"

\* BRPOP.  A job is claimed, with a heartbeat of the worker; an id without a
\* pending record is dropped, and counts as no job.
Dequeue(w) ==
  /\ At(w, "claim") /\ queue > 0
  /\ queue' = queue - 1
  /\ (Heartbeat(w) /\ Goto(w, "transcode")) \/ (Goto(w, AfterJob(w)) /\ UNCHANGED registry)
  /\ UNCHANGED <<pushed, k8sJob, scale, faults>>

DequeueTimesOut(w) ==
  /\ At(w, "claim") /\ queue = 0
  /\ Goto(w, AfterJob(w))
  /\ UNCHANGED <<registry, rest>>

\* The loop of a static worker beats, and goes on unless it was told to stop.
Beat(w) ==
  /\ At(w, "beat")
  /\ Heartbeat(w)
  /\ Goto(w, "claim") \/ Goto(w, "deregister")
  /\ UNCHANGED rest

\* The job is completed, or has failed and been handled.
TranscodeEnds(w) ==
  /\ At(w, "transcode")
  /\ Goto(w, AfterJob(w))
  /\ UNCHANGED <<registry, rest>>

\* Mutant: the index is left as it is.
Deregister_KeepsIndex(w) ==
  At(w, "deregister") /\ DeleteWorker(w) /\ Goto(w, "ended") /\ UNCHANGED rest

Deregister(w) ==
  \/ At(w, "deregister") /\ DeleteWorker(w) /\ Goto(w, "unlist") /\ UNCHANGED rest
  \/ At(w, "unlist") /\ UnlistWorker(w) /\ Goto(w, "ended") /\ UNCHANGED rest

\* Killed, or ended by an exception: nothing is deregistered.
Dies(w) ==
  /\ pc[w] \notin {"off", "died", "ended"} /\ faults < MaxFaults
  /\ faults' = faults + 1
  /\ Goto(w, "died")
  /\ UNCHANGED <<registry, queue, pushed, k8sJob, scale>>

Expires(w) == Lapse(w) /\ UNCHANGED <<pc, rest>>

(***************************************************************************)
(* Kubernetes: it starts the pod of a job, never restarts it, and notices  *)
(* its end.  A deployment starts a static worker again.                    *)
(***************************************************************************)
PodStarts(p) ==
  /\ k8sJob[p] = "created"
  /\ k8sJob' = [k8sJob EXCEPT ![p] = "active"]
  /\ Goto(p, "register")
  /\ UNCHANGED <<registry, queue, pushed, scale, faults>>

ProcessGone(w) ==
  /\ pc[w] \in {"died", "ended"}
  /\ Vacate(w)
  /\ Goto(w, "off")
  /\ k8sJob' = IF w \in Pods
               THEN [k8sJob EXCEPT ![w] = IF At(w, "died") THEN "failed" ELSE "succeeded"]
               ELSE k8sJob
  /\ UNCHANGED <<queue, pushed, scale, faults>>

(***************************************************************************)
(* EnsureWorkerCapacity.                                                   *)
(***************************************************************************)
\* Mutant: a job that has succeeded counts until Kubernetes removes it.
IsActiveJob_UntilRemoved(p) == k8sJob[p] \in {"created", "active", "succeeded"}

IsActiveJob(p) == k8sJob[p] \in {"created", "active"}
ActiveJobs == {p \in Pods : IsActiveJob(p)}

Scale(s, rec) == scale' = [scale EXCEPT ![s] = rec]

ReadDepth(s) ==
  /\ scale[s].at = "idle" /\ queue > 0
  /\ Scale(s, [at |-> "count", depth |-> queue, left |-> 0])
  /\ UNCHANGED <<registry, queue, pushed, pc, k8sJob, faults>>

\* Mutant: the pods that are active are not subtracted.
ToLaunch_All(depth) == Min({depth, MaxPods})

\* Mutant: fewer than none may be left to launch.
ToLaunch_Signed(depth) == Min({depth, MaxPods}) - Cardinality(ActiveJobs)

ToLaunch(depth) == Max({0, Min({depth, MaxPods}) - Cardinality(ActiveJobs)})

CountActive(s) ==
  /\ scale[s].at = "count"
  /\ LET left == ToLaunch(scale[s].depth)
     IN  Scale(s, IF left = 0 THEN Resting ELSE [at |-> "launch", depth |-> 0, left |-> left])
  /\ UNCHANGED <<registry, queue, pushed, pc, k8sJob, faults>>

LaunchWorker(s) ==
  /\ scale[s].at = "launch" /\ Pods # ActiveJobs
  /\ k8sJob' = [k8sJob EXCEPT ![CHOOSE p \in Pods \ ActiveJobs : TRUE] = "created"]
  /\ Scale(s, IF scale[s].left = 1 THEN Resting ELSE [scale[s] EXCEPT !.left = @ - 1])
  /\ UNCHANGED <<registry, queue, pushed, pc, faults>>

\* The API raises, for the list or for one of the jobs: the pass ends.
ScalingFails(s) ==
  /\ scale[s].at \in {"count", "launch"} /\ faults < MaxFaults
  /\ faults' = faults + 1
  /\ Scale(s, Resting)
  /\ UNCHANGED <<registry, queue, pushed, pc, k8sJob>>

-----------------------------------------------------------------------------
WorkerStep(w) ==
  \/ Register(w) \/ Dequeue(w) \/ DequeueTimesOut(w) \/ Beat(w)
  \/ TranscodeEnds(w) \/ Deregister(w) \/ ProcessGone(w)

ScaleStep(s) == ReadDepth(s) \/ CountActive(s) \/ LaunchWorker(s)

Next ==
  \/ Push
  \/ \E w \in Workers : StartStatic(w) \/ WorkerStep(w) \/ Dies(w) \/ Expires(w)
  \/ \E p \in Pods : PodStarts(p)
  \/ \E s \in Servers : ScaleStep(s) \/ ScalingFails(s)

Spec == Init /\ [][Next]_vars

\* Processes and scaling threads go on, and Kubernetes starts pods; a static
\* worker need not be there.
FairSpec ==
  /\ Spec
  /\ \A w \in Workers : WF_vars(WorkerStep(w))
  /\ \A p \in Pods : WF_vars(PodStarts(p))
  /\ \A s \in Servers : WF_vars(ScaleStep(s))

-----------------------------------------------------------------------------
\* However their counts and launches interleave with each other and with pods
\* that come and go, the servers have max_concurrent_pods each at most.
PodsBounded == Cardinality(ActiveJobs) <= MaxPods * Cardinality(Servers)

\* A worker in service is in the index, though its key may have expired; and
\* there is never a key without an entry in the index, through which alone it can
\* be found, but for a process between the two commands, or that died there.
RegisteredIsListed ==
  \A w \in Workers :
    /\ pc[w] \in InService => w \in listed
    /\ w \in keyed => w \in listed \/ pc[w] \in {"list", "died"}

\* Only processes that die leave their id in the index, which nothing removes.
OrphansDied == orphans <= faults

\* Every job that is pushed is popped: there is a pod for it in the end, though
\* busy pods count as capacity and pods may find no job or die.
QueueDrains == (queue > 0) ~> (queue = 0)
=============================================================================
